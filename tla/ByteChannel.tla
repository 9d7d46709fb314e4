---------------------------- MODULE ByteChannel ----------------------------
(***************************************************************************)
(* What the ring of class SPSC promises to its one producer and its one    *)
(* consumer: a bounded FIFO of bytes.  A write takes as much of the data   *)
(* as there is room for when it starts, and all of that comes into the     *)
(* channel at once; a read gets the oldest bytes, each once and in order.  *)
(***************************************************************************)
EXTENDS Integers, Sequences

CONSTANTS Chunk,   \* the data a producer may write
          Limit    \* the bytes the channel can hold

VARIABLES
  offer,   \* what the write in progress will put into the channel
  queue,   \* the bytes in the channel
  got      \* what the last read returned

Init == offer = << >> /\ queue = << >> /\ got = << >>

StartWrite ==
  \E data \in Chunk :
    /\ offer = << >>
    /\ offer' = SubSeq(data, 1, IF Len(data) <= Limit - Len(queue)
                                  THEN Len(data) ELSE Limit - Len(queue))
    /\ UNCHANGED <<queue, got>>

EndWrite ==
  /\ queue' = queue \o offer
  /\ offer' = << >>
  /\ UNCHANGED got

Read ==
  \E n \in 1 .. Len(queue) :
    /\ got' = SubSeq(queue, 1, n)
    /\ queue' = SubSeq(queue, n + 1, Len(queue))
    /\ UNCHANGED offer

Next == StartWrite \/ EndWrite \/ Read

Spec == Init /\ [][Next]_<<offer, queue, got>>

============================================================================
