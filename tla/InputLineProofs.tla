--------------------------- MODULE InputLineProofs ---------------------------
(***************************************************************************)
(* The hand-over of console lines between the two threads of InputLine is  *)
(* correct for any number of lines and any interleaving, by the atomic     *)
(* flag alone.                                                             *)
(***************************************************************************)
EXTENDS InputLine, TLAPS

\* SlotInv, of module InputLine, is the strengthening that makes LinesOnce inductive.
IInv == InputTypeOK /\ SlotInv /\ LinesOnce

LEMMA TypedElements ==
  Len(Typed) \in Nat /\ \A n \in 1 .. Len(Typed) : Typed[n] \in Line \cup {Empty}
  BY TypedAssumption

LEMMA InitHolds == InputInit => IInv
<1> SUFFICES ASSUME InputInit PROVE IInv
  OBVIOUS
<1>1. Len(Typed) \in Nat /\ taken \in Seq(Line) /\ Len(taken) = 0
  BY TypedElements DEF InputInit
<1>2. InputTypeOK
  <2>1. read \in 0 .. Len(Typed)
    BY <1>1 DEF InputInit
  <2> QED
    BY <1>1, <2>1, Zenon DEF InputInit, InputTypeOK
<1>3. SlotInv
  BY DEF InputInit, SlotInv, Pending
<1>4. LinesOnce
  <2> DEFINE place == [i \in 1 .. Len(taken) |-> i]
  <2>1. place \in [1 .. Len(taken) -> 1 .. read] /\ ReturnedAre(place)
    BY <1>1 DEF InputInit, ReturnedAre
  <2> QED
    BY <2>1 DEF LinesOnce
<1> QED
  BY <1>2, <1>3, <1>4 DEF IInv

\* A step that neither reads nor returns a line.
LEMMA LinesKept ==
  ASSUME LinesOnce, taken' = taken, read' = read, Pending' <=> Pending
  PROVE  LinesOnce'
<1>1. PICK place \in [1 .. Len(taken) -> 1 .. read] : ReturnedAre(place)
  BY DEF LinesOnce
<1>2. ReturnedAre(place)'
  BY <1>1 DEF ReturnedAre
<1> QED
  BY <1>1, <1>2 DEF LinesOnce

\* The steps of the worker that touch neither the buffer nor the flag.
LEMMA WorkerMoves ==
  ASSUME IInv, TestExit \/ TestSlot \/ ReadEnd,
         UNCHANGED <<mResultBuffer, mExit, caller, taken>>
  PROVE  IInv'
<1> USE DEF IInv, InputTypeOK, SlotInv, Pending
<1>1. /\ worker \in {"loop", "slot", "fgets"} /\ worker' \in {"loop", "slot", "clear", "done"}
      /\ (mHaveNewData => worker' \in {"loop", "slot", "done"})
      /\ UNCHANGED <<mInputBuffer, mHaveNewData, read>>
  BY DEF TestExit, TestSlot, ReadEnd
<1>2. LinesOnce'
  BY <1>1, LinesKept
<1> QED
  BY <1>1, <1>2

\* What is read becomes the pending line, unless it begins with NUL.
LEMMA LineIsRead ==
  ASSUME IInv, ReadLine, UNCHANGED <<mResultBuffer, mExit, caller, taken>>
  PROVE  IInv'
<1> USE DEF IInv, InputTypeOK
<1>1. /\ worker = "fgets" /\ read' = read + 1 /\ read' \in 1 .. Len(Typed)
      /\ mInputBuffer' = Typed[read'] /\ mHaveNewData' = mHaveNewData
      /\ worker' = IF Typed[read'] = Empty THEN "loop" ELSE "publish"
  BY TypedElements DEF ReadLine
<1>2. /\ ~mHaveNewData /\ ~Pending /\ caller \notin {"copy", "free"}
      /\ (Pending' <=> Typed[read'] # Empty)
  BY <1>1 DEF SlotInv, Pending
<1>3. InputTypeOK' /\ SlotInv'
  BY <1>1, <1>2, TypedElements DEF SlotInv
<1>4. PICK place \in [1 .. Len(taken) -> 1 .. read] : ReturnedAre(place)
  BY DEF LinesOnce
<1>5. place \in [1 .. Len(taken) -> 1 .. read'] /\ \A i \in 1 .. Len(taken) : place[i] # read'
  BY <1>1, <1>4
<1>6. ReturnedAre(place)'
  <2>1. ASSUME NEW n \in 1 .. read'
        PROVE  (\E i \in 1 .. Len(taken) : place[i] = n) <=> Typed[n] # Empty /\ ~(Pending' /\ n = read')
    <3>1. CASE n = read'
      BY <1>2, <1>5, <3>1
    <3>2. CASE n # read'
      <4>1. n \in 1 .. read
        BY <1>1, <3>2
      <4> QED
        BY <1>2, <1>4, <3>2, <4>1 DEF ReturnedAre
    <3> QED
      BY <3>1, <3>2
  <2> QED
    BY <1>4, <2>1 DEF ReturnedAre
<1> QED
  BY <1>3, <1>5, <1>6 DEF LinesOnce

\* Clearing the buffer happens while the caller is outside; the pending line stays it
\* when the flag goes up.
LEMMA WorkerHandsOver ==
  ASSUME IInv, ClearSlot \/ Publish,
         UNCHANGED <<mResultBuffer, mExit, caller, taken>>
  PROVE  IInv'
<1> USE DEF IInv, InputTypeOK, SlotInv, Pending
<1>1. LinesOnce'
  <2>1. read' = read /\ (Pending' <=> Pending)
    BY DEF ClearSlot, Publish
  <2> QED
    BY <2>1, LinesKept
<1>2. CASE ClearSlot
  BY <1>1, <1>2 DEF ClearSlot
<1>3. CASE Publish
  BY <1>1, <1>3 DEF Publish
<1> QED
  BY <1>2, <1>3

\* The caller returns the pending line, which is the last one read.
LEMMA CallerReturns ==
  ASSUME IInv, ReturnLine
  PROVE  IInv'
<1> USE DEF IInv, InputTypeOK
<1>1. /\ Pending /\ ~Pending' /\ read \in 1 .. Len(Typed) /\ read' = read
      /\ mResultBuffer = Typed[read] /\ mResultBuffer \in Line /\ Typed[read] # Empty
      /\ taken' = Append(taken, mResultBuffer)
  BY DEF ReturnLine, SlotInv, Pending
<1> DEFINE k == Len(taken)
<1>2. /\ k \in Nat /\ taken' \in Seq(Line) /\ Len(taken') = k + 1
      /\ taken'[k + 1] = Typed[read] /\ \A i \in 1 .. k : taken'[i] = taken[i]
  BY <1>1
<1>3. InputTypeOK' /\ SlotInv'
  BY <1>1, <1>2 DEF ReturnLine, SlotInv
<1>4. PICK place \in [1 .. k -> 1 .. read] : ReturnedAre(place)
  BY DEF LinesOnce
<1>5. \A i \in 1 .. k : place[i] \in 1 .. read /\ place[i] # read
  BY <1>1, <1>4 DEF ReturnedAre
<1>6. PICK longer \in [1 .. Len(taken') -> 1 .. read'] :
        longer[k + 1] = read /\ \A i \in 1 .. k : longer[i] = place[i]
  <2> DEFINE f == [i \in 1 .. k + 1 |-> IF i = k + 1 THEN read ELSE place[i]]
  <2>1. /\ f \in [1 .. Len(taken') -> 1 .. read'] /\ f[k + 1] = read
        /\ \A i \in 1 .. k : f[i] = place[i]
    BY <1>1, <1>2, <1>5
  <2> QED
    BY <2>1
<1>7. \A i \in 1 .. k : taken[i] = Typed[place[i]]
  BY <1>4 DEF ReturnedAre
<1>8. \A i, j \in 1 .. k : i < j => place[i] < place[j]
  BY <1>4 DEF ReturnedAre
<1>9. \A n \in 1 .. read : (\E i \in 1 .. k : place[i] = n) <=> Typed[n] # Empty /\ n # read
  BY <1>1, <1>4 DEF ReturnedAre
<1> HIDE DEF k
<1>10. \A i \in 1 .. k + 1 : i \in 1 .. k \/ i = k + 1
  BY <1>2
<1>11. 1 .. k \subseteq 1 .. k + 1 /\ k + 1 \in 1 .. k + 1
  BY <1>2
<1>12. \A i \in 1 .. k + 1 : taken'[i] = Typed[longer[i]]
  BY <1>2, <1>6, <1>7, <1>10
<1>13. ASSUME NEW i \in 1 .. k + 1, NEW j \in 1 .. k + 1, i < j
       PROVE  longer[i] < longer[j]
  <2>1. i \in 1 .. k
    BY <1>2, <1>13
  <2>2. CASE j \in 1 .. k
    BY <1>6, <1>8, <1>13, <2>1, <2>2
  <2>3. CASE j = k + 1
    <3>1. place[i] \in 1 .. read /\ place[i] # read /\ read \in Nat
      BY <1>1, <1>5, <2>1
    <3>2. longer[i] = place[i] /\ longer[j] = read
      BY <1>6, <2>1, <2>3
    <3> QED
      BY <3>1, <3>2
  <2> QED
    BY <1>10, <2>2, <2>3
<1>14. \A n \in 1 .. read : (\E i \in 1 .. k + 1 : longer[i] = n) <=> Typed[n] # Empty
  BY <1>1, <1>6, <1>9, <1>10, <1>11
<1>15. ReturnedAre(longer)'
  BY <1>1, <1>2, <1>12, <1>13, <1>14 DEF ReturnedAre
<1> QED
  BY <1>3, <1>6, <1>15 DEF LinesOnce

LEMMA CallerMoves ==
  ASSUME IInv, FindLine \/ CopyLine \/ release
  PROVE  IInv'
<1> USE DEF IInv, InputTypeOK, SlotInv, Pending, handOver
<1>1. LinesOnce'
  <2>1. taken' = taken /\ read' = read /\ (Pending' <=> Pending)
    BY DEF FindLine, CopyLine, release
  <2> QED
    BY <2>1, LinesKept
<1>2. CASE FindLine
  BY <1>1, <1>2 DEF FindLine
<1>3. CASE CopyLine
  BY <1>1, <1>3 DEF CopyLine
<1>4. CASE release
  BY <1>1, <1>4 DEF release
<1> QED
  BY <1>2, <1>3, <1>4

LEMMA Inductive == InputSpec => []IInv
<1>1. IInv /\ [InputNext]_inputVars => IInv'
  <2> SUFFICES ASSUME IInv, [InputNext]_inputVars PROVE IInv'
    OBVIOUS
  <2>1. CASE Worker
    BY <2>1, WorkerMoves, LineIsRead, WorkerHandsOver DEF Worker
  <2>2. CASE Caller
    BY <2>2, CallerMoves, CallerReturns DEF Caller
  <2>3. CASE UNCHANGED inputVars
    <3>1. LinesOnce'
      BY <2>3, LinesKept DEF inputVars, handOver, IInv, Pending
    <3> QED
      BY <2>3, <3>1 DEF inputVars, handOver, IInv, InputTypeOK, SlotInv, Pending
  <2> QED
    BY <2>1, <2>2, <2>3 DEF InputNext
<1> QED
  BY <1>1, InitHolds, PTL DEF InputSpec

(***************************************************************************)
(* The two threads keep to their places, and both buffers hold a line that *)
(* was typed, or none.                                                     *)
(***************************************************************************)
THEOREM ThreadsTyped == InputSpec => []InputTypeOK
<1>1. IInv => InputTypeOK
  BY DEF IInv
<1> QED
  BY <1>1, Inductive, PTL

(***************************************************************************)
(* The hand-over: while the flag is up the worker keeps off the buffer,    *)
(* which holds the last line read; the caller copies only then.            *)
(***************************************************************************)
THEOREM SlotIsSound == InputSpec => []SlotInv
<1>1. IInv => SlotInv
  BY DEF IInv
<1> QED
  BY <1>1, Inductive, PTL

(***************************************************************************)
(* The caller never copies a line while the worker clears, fills or        *)
(* publishes the buffer, although only one of them takes the mutex.        *)
(***************************************************************************)
THEOREM NeverTorn == InputSpec => []NoTornLine
<1>1. IInv => NoTornLine
  BY DEF IInv, SlotInv, NoTornLine
<1> QED
  BY <1>1, Inductive, PTL

(***************************************************************************)
(* Lines are returned in the order typed, each once, and never more than   *)
(* one of those read is still to be returned, those that begin with NUL    *)
(* apart.                                                                  *)
(***************************************************************************)
THEOREM EachLineOnce == InputSpec => [](InputTypeOK /\ LinesOnce)
<1>1. IInv => InputTypeOK /\ LinesOnce
  BY DEF IInv
<1> QED
  BY <1>1, Inductive, PTL

============================================================================
