-------------------------------- MODULE SPSC --------------------------------
(***************************************************************************)
(* The lock-free ring of class SPSC: one writer and one reader, two        *)
(* threads or two processes, share a byte array and two indices.  A call   *)
(* loads the other side's index once, copies at most two segments (up to   *)
(* the top of the array, and from its bottom), then publishes its own      *)
(* index.  Every one of these accesses is a step, so the other side's      *)
(* accesses fall between them.                                             *)
(***************************************************************************)
EXTENDS Integers, Sequences

CONSTANTS
  Capacity,        \* mCapacity: the length of the array
  Byte,            \* byte values
  Junk,            \* what the array holds where nothing was written yet
  Chunk,           \* the data passed to write
  ReadLength,      \* the lengths passed to read
  RelaxedPublish   \* whether the index may become visible before the copies

(***************************************************************************)
(* init refuses a memory without room for a byte.  Sums of two indices are *)
(* below 2^32: the shared memory is 16 KB.                                 *)
(***************************************************************************)
ASSUME RingAssumption ==
  /\ Capacity \in Nat \ {0}
  /\ Chunk \subseteq Seq(Byte)
  /\ ReadLength \subseteq Nat
  /\ Junk \notin Byte
  /\ RelaxedPublish \in BOOLEAN

VARIABLES
  mBaseMemory,   \* the shared array
  mReadIndex,    \* next slot to read, published by the reader
  mWriteIndex,   \* next slot to write, published by the writer
  writer,        \* the write in progress: its data, its first slot, what is left to do
  reader,        \* the read in progress: its buffer, its first slot, what is left to do
  got            \* what the last read returned

vars == <<mBaseMemory, mReadIndex, mWriteIndex, writer, reader, got>>

Slots == 0 .. Capacity - 1

----------------------------------------------------------------------------
\* Subtracting the larger index from the smaller after a wrap.
calcSizeSwapped(readIndex, writeIndex) ==
  IF writeIndex >= readIndex THEN writeIndex - readIndex ELSE readIndex - writeIndex

calcSize(readIndex, writeIndex) ==
  IF writeIndex >= readIndex THEN writeIndex - readIndex
                             ELSE writeIndex + Capacity - readIndex

size == calcSize(mReadIndex, mWriteIndex)

\* Room for a write, with one byte set aside to tell a full ring from an empty one.
capacity == IF Capacity - size <= 1 THEN 0 ELSE Capacity - size - 1

\* Setting no byte aside.
RoomToTheLast == Capacity - size

\* write sets another byte aside.
Room == IF capacity = 0 THEN 0 ELSE capacity - 1

AtMost(n, limit) == IF n > limit THEN limit ELSE n

\* The part of len bytes from slot at on that fits below the top of the array.
TopLen(at, len) == AtMost(len, Capacity - at)

\* The steps of a call that moves len bytes from slot at on.
Steps(at, len) ==
  {"publish"} \cup (IF TopLen(at, len) > 0 THEN {"top"} ELSE {})
              \cup (IF len > TopLen(at, len) THEN {"bottom"} ELSE {})

\* Never wrapping, and forgetting the store after a wrap.
IndexAfterUnwrapped(at, len) == at + len

IndexAfterUnstored(at, len) == IF len <= Capacity - at THEN at + len ELSE at

\* The index that the call publishes; it may be Capacity.
IndexAfter(at, len) == IF len <= Capacity - at THEN at + len ELSE len - (Capacity - at)

(***************************************************************************)
(* In program order the copies come first and the index last.  The index   *)
(* is stored with memory_order_relaxed, which does not promise that the    *)
(* other side sees them in this order.                                     *)
(***************************************************************************)
MayRun(step, todo) ==
  /\ step \in todo
  /\ ~RelaxedPublish => /\ step = "bottom"  => "top" \notin todo
                        /\ step = "publish" => todo = {"publish"}

----------------------------------------------------------------------------
Idle == [data |-> << >>, at |-> 0, todo |-> {}]

\* init on the server's side.
Init ==
  /\ mBaseMemory = [i \in Slots |-> Junk]
  /\ mReadIndex = 0
  /\ mWriteIndex = 0
  /\ writer = Idle
  /\ reader = Idle
  /\ got = << >>

\* write, up to the first copy.  One that finds no room changes nothing.
StartWrite(data) ==
  LET n == AtMost(Len(data), Room)
  IN  /\ writer.todo = {}
      /\ n > 0
      /\ writer' = [data |-> SubSeq(data, 1, n), at |-> mWriteIndex,
                    todo |-> Steps(mWriteIndex, n)]
      /\ UNCHANGED <<mBaseMemory, mReadIndex, mWriteIndex, reader, got>>

\* memcpy into the array.
CopyIn(step) ==
  LET data == writer.data
      at   == writer.at
      top  == TopLen(at, Len(data))
  IN  /\ MayRun(step, writer.todo)
      /\ step \in {"top", "bottom"}
      /\ mBaseMemory' =
           [i \in Slots |->
              IF step = "top" /\ i \in at .. at + top - 1 THEN data[i - at + 1]
              ELSE IF step = "bottom" /\ i < Len(data) - top THEN data[i + top + 1]
              ELSE mBaseMemory[i]]
      /\ writer' = [writer EXCEPT !.todo = @ \ {step}]
      /\ UNCHANGED <<mReadIndex, mWriteIndex, reader, got>>

\* mWriteIndex.store
PublishWrite ==
  /\ MayRun("publish", writer.todo)
  /\ mWriteIndex' = IndexAfter(writer.at, Len(writer.data))
  /\ writer' = [writer EXCEPT !.todo = @ \ {"publish"}]
  /\ UNCHANGED <<mBaseMemory, mReadIndex, reader, got>>

\* read, up to the first copy.  One that finds no bytes changes nothing.
StartRead(maxLen) ==
  LET n == AtMost(size, maxLen)
  IN  /\ reader.todo = {}
      /\ n > 0
      /\ reader' = [data |-> [i \in 1 .. n |-> Junk], at |-> mReadIndex,
                    todo |-> Steps(mReadIndex, n)]
      /\ UNCHANGED <<mBaseMemory, mReadIndex, mWriteIndex, writer, got>>

\* The step of a read is done; after the last one, read returns.
ReaderDid(step, data) ==
  /\ reader' = [reader EXCEPT !.data = data, !.todo = @ \ {step}]
  /\ got' = IF reader.todo = {step} THEN data ELSE got

\* memcpy out of the array.
CopyOut(step) ==
  LET data == reader.data
      at   == reader.at
      top  == TopLen(at, Len(data))
  IN  /\ MayRun(step, reader.todo)
      /\ step \in {"top", "bottom"}
      /\ ReaderDid(step,
           [i \in 1 .. Len(data) |->
              IF step = "top" /\ i <= top THEN mBaseMemory[at + i - 1]
              ELSE IF step = "bottom" /\ i > top THEN mBaseMemory[i - top - 1]
              ELSE data[i]])
      /\ UNCHANGED <<mBaseMemory, mReadIndex, mWriteIndex, writer>>

\* mReadIndex.store
PublishRead ==
  /\ MayRun("publish", reader.todo)
  /\ mReadIndex' = IndexAfter(reader.at, Len(reader.data))
  /\ ReaderDid("publish", reader.data)
  /\ UNCHANGED <<mBaseMemory, mWriteIndex, writer>>

Write == (\E data \in Chunk : StartWrite(data))
           \/ (\E step \in {"top", "bottom"} : CopyIn(step)) \/ PublishWrite

Read == (\E maxLen \in ReadLength : StartRead(maxLen))
          \/ (\E step \in {"top", "bottom"} : CopyOut(step)) \/ PublishRead

Next == Write \/ Read

Spec == Init /\ [][Next]_vars

\* Both sides call forever, as the polling programs of the two processes do.
FairSpec == Spec /\ WF_vars(Write) /\ WF_vars(Read)

----------------------------------------------------------------------------
Bytes == Seq(Byte \cup {Junk})

Call == [data : Bytes, at : 0 .. Capacity, todo : SUBSET {"top", "bottom", "publish"}]

TypeOK ==
  /\ mBaseMemory \in [Slots -> Byte \cup {Junk}]
  /\ mReadIndex \in 0 .. Capacity
  /\ mWriteIndex \in 0 .. Capacity
  /\ writer \in Call
  /\ reader \in Call
  /\ got \in Bytes

\* The slot of the k-th byte after slot at.
Slot(at, k) == IF at + k < Capacity THEN at + k ELSE at + k - Capacity

\* The bytes between the two indices.
Unread == [k \in 1 .. size |-> mBaseMemory[Slot(mReadIndex, k - 1)]]

\* The bytes the ring can hold: two slots are never used.
Limit == IF Capacity <= 2 THEN 0 ELSE Capacity - 2

(***************************************************************************)
(* The state of the two calls.  Until a write publishes its index there is *)
(* room for its data, and the slots it has filled hold that data; until a  *)
(* read publishes its index the bytes it asked for are unread, and those   *)
(* it has copied are still what the slots hold.                            *)
(***************************************************************************)
\* The step that copies the k-th byte of a call, and whether it was taken.
StepOf(call, k) == IF k <= TopLen(call.at, Len(call.data)) THEN "top" ELSE "bottom"

Copied(call, k) == StepOf(call, k) \notin call.todo

CallInv(call, index) ==
  /\ call.todo \subseteq Steps(call.at, Len(call.data))
  /\ call.todo # {} => /\ "publish" \in call.todo
                       /\ call.at = index
                       /\ call.data # << >>
                       /\ \A k \in 1 .. Len(call.data) :
                            Copied(call, k) => mBaseMemory[Slot(call.at, k - 1)] = call.data[k]

RingInv ==
  /\ size <= Limit
  /\ CallInv(writer, mWriteIndex)
  /\ writer.todo # {} => size + Len(writer.data) <= Limit
  /\ CallInv(reader, mReadIndex)
  /\ reader.todo # {} => Len(reader.data) <= size

(***************************************************************************)
(* A slot the writer is about to fill is none the reader still may copy:   *)
(* the two calls never touch the same byte of the array.                   *)
(***************************************************************************)
Footprint(call) == {Slot(call.at, k) : k \in 0 .. Len(call.data) - 1}

CallsApart ==
  writer.todo # {} /\ reader.todo # {} => Footprint(writer) \cap Footprint(reader) = {}

(***************************************************************************)
(* The ring is a FIFO of at most Limit bytes: a write shows all of its     *)
(* bytes at once and in order, copying into the array disturbs no unread   *)
(* byte, and a read returns the oldest bytes, whatever the other side does *)
(* between the steps of a call.                                            *)
(***************************************************************************)
Channel == INSTANCE ByteChannel
  WITH offer <- IF "publish" \in writer.todo THEN writer.data ELSE << >>,
       queue <- Unread

RefinesChannel == Channel!Spec

(***************************************************************************)
(* Bytes keep flowing: while both sides keep calling, a full ring never    *)
(* refuses the writer for good and the reader is never left without bytes. *)
(***************************************************************************)
KeepsFlowing ==
  /\ []<>("publish" \in writer.todo)
  /\ []<>("publish" \in reader.todo)

(***************************************************************************)
(* No read returns a byte that was never written.                          *)
(***************************************************************************)
ReadsOnlyWritten == \A i \in 1 .. Len(got) : got[i] # Junk

============================================================================
