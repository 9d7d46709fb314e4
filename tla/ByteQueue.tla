----------------------------- MODULE ByteQueue -----------------------------
(***************************************************************************)
(* What a SimpleBuffer promises to its user (class SimpleBuffer): a FIFO   *)
(* of bytes that grows on demand and may refuse a request it cannot make   *)
(* room for.  A buffer is a record: the bytes that have been added and not *)
(* yet consumed, and mMaxLen, the length of the allocation behind them.    *)
(* Where the bytes lie in the allocation is hidden, so an operation has a  *)
(* set of outcomes; module SimpleBuffer, the implementation, is shown to   *)
(* have no other.                                                          *)
(***************************************************************************)
EXTENDS Integers, Sequences

CONSTANT MaxGrowSize    \* mMaxGrowSize: no allocation grows past this length

(***************************************************************************)
(* While 2n + (bytes held) fits in the allocation, the space before or     *)
(* after the bytes has room for n more, wherever they lie.  Otherwise the  *)
(* buffer may reallocate: to twice its length, or, if the request is       *)
(* larger than the allocation, to twice its length plus the request.  It   *)
(* refuses when that would be past the maximum.                            *)
(***************************************************************************)
MayReallocate(q, n) == 2 * n + Len(q.content) > q.maxLen

GrowthTargets(q, n) ==
  IF MayReallocate(q, n)
    THEN {m \in {2 * q.maxLen} : Len(q.content) + n <= m}
           \cup {m \in {2 * q.maxLen + n} : n > q.maxLen}
    ELSE {}

MayRefuse(q, n) == \E m \in GrowthTargets(q, n) : m > MaxGrowSize

\* Growing without looking at the maximum.
RoomLengthsUnlimited(q, n) ==
  {m \in {q.maxLen} : Len(q.content) + n <= m} \cup GrowthTargets(q, n)

\* The lengths the allocation can have once there is room for n more bytes.
RoomLengths(q, n) ==
  {m \in {q.maxLen} : Len(q.content) + n <= m}
    \cup {m \in GrowthTargets(q, n) : m <= MaxGrowSize}

Fresh(len) == [content |-> << >>, maxLen |-> len]

(***************************************************************************)
(* The outcomes of making room for n bytes, and of adding bytes: the new   *)
(* buffer and whether the call succeeded.                                  *)
(***************************************************************************)
Refused(q, n) == IF MayRefuse(q, n) THEN {[buf |-> q, ok |-> FALSE]} ELSE {}

Reserve(q, n) ==
  {[buf |-> [q EXCEPT !.maxLen = m], ok |-> TRUE] : m \in RoomLengths(q, n)}
    \cup Refused(q, n)

Add(q, bytes) ==
  {[buf |-> [content |-> q.content \o bytes, maxLen |-> m], ok |-> TRUE] :
     m \in RoomLengths(q, Len(bytes))}
    \cup Refused(q, Len(bytes))

\* The user writes bytes into room that Reserve(q, n) made, n >= Len(bytes).
Fill(q, bytes) == [q EXCEPT !.content = @ \o bytes]

\* Dropping one byte too many.
TakeOneMore(q, n) == [q EXCEPT !.content = SubSeq(@, n + 2, Len(@))]

\* Drop the first n bytes, n <= Len(q.content).
Take(q, n) == [q EXCEPT !.content = SubSeq(@, n + 1, Len(@))]

============================================================================
