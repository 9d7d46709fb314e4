--------------------------- MODULE ByteQueueSpec ---------------------------
(***************************************************************************)
(* The SimpleBuffer interface as a state machine over one abstract buffer: *)
(* every call a user can make and every outcome he must expect.            *)
(***************************************************************************)
EXTENDS ByteQueue

CONSTANTS Chunk,        \* the byte sequences a user adds
          Request,      \* the sizes passed to confirmCapacity and reset
          DefaultSize   \* the size passed to the constructor

VARIABLE q

Init == q = Fresh(DefaultSize)

\* addBuffer
AddBytes == \E bytes \in Chunk : \E o \in Add(q, bytes) : q' = o.buf

\* confirmCapacity
MakeRoom == \E n \in Request : \E o \in Reserve(q, n) : q' = o.buf

\* consume, and clear
TakeBytes == \E n \in 0 .. Len(q.content) : q' = Take(q, n)

Discard == q' = Fresh(q.maxLen)

\* reset
Restart == \E n \in Request : q' = Fresh(n)

(***************************************************************************)
(* shrinkBuffer: the number of bytes held is kept, and the allocation does *)
(* not grow.  Nothing is promised of the bytes themselves: the code copies *)
(* them to a new allocation that it never installs.                        *)
(***************************************************************************)
Shrink == /\ Len(q'.content) = Len(q.content)
          /\ q'.maxLen \in Len(q.content) .. q.maxLen
          /\ q' = [content |-> q'.content, maxLen |-> q'.maxLen]

Next == AddBytes \/ MakeRoom \/ TakeBytes \/ Discard \/ Restart \/ Shrink

Spec == Init /\ [][Next]_q

============================================================================
