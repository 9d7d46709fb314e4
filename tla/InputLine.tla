------------------------------ MODULE InputLine ------------------------------
(***************************************************************************)
(* Console input without blocking the main loop (class InputLineImpl).  A  *)
(* worker thread blocks in fgets and hands each line to the caller of      *)
(* getInputLine through one buffer and an atomic flag.  The mutex is taken *)
(* by the caller alone and orders nothing: it is not modelled.  Each       *)
(* access to the flags or the buffer is a step.                            *)
(***************************************************************************)
EXTENDS Integers, Sequences, FiniteSets

CONSTANTS
  Line,       \* what one fgets can return
  Empty,      \* a buffer that begins with NUL: cleared, or what fgets read begins so
  Typed,      \* what successive calls of fgets return; more than one for a long line
  EndsAfter   \* whether the input then ends, or the user just types no more

ASSUME TypedAssumption ==
  Typed \in Seq(Line \cup {Empty}) /\ Empty \notin Line /\ EndsAfter \in BOOLEAN

VARIABLES
  mInputBuffer,    \* where fgets puts a line
  mResultBuffer,   \* what getInputLine returns
  mHaveNewData,    \* mInputBuffer holds a line for the caller
  mExit,           \* set by the destructor
  worker,          \* where in its loop the worker is
  caller,          \* where in getInputLine the caller is
  read,            \* how many elements of Typed the worker has read
  taken            \* the lines getInputLine has returned

handOver == <<mInputBuffer, mHaveNewData, worker, read>>

inputVars == <<handOver, mResultBuffer, mExit, caller, taken>>

InputInit ==
  /\ mInputBuffer = Empty
  /\ mResultBuffer = Empty
  /\ mHaveNewData = FALSE
  /\ mExit = FALSE
  /\ worker = "loop"
  /\ caller = "out"
  /\ read = 0
  /\ taken = << >>

----------------------------------------------------------------------------
(***************************************************************************)
(* The worker.  A set mExit ends its loop; a line not yet taken makes it   *)
(* sleep and come back.                                                    *)
(***************************************************************************)
TestExit ==
  /\ worker = "loop"
  /\ worker' = IF mExit THEN "done" ELSE "slot"
  /\ UNCHANGED <<mInputBuffer, mHaveNewData, read>>

\* Going on to read without looking whether the last line was taken.
TestSlotNever ==
  /\ worker = "slot"
  /\ worker' = "clear"
  /\ UNCHANGED <<mInputBuffer, mHaveNewData, read>>

TestSlot ==
  /\ worker = "slot"
  /\ worker' = IF mHaveNewData THEN "loop" ELSE "clear"
  /\ UNCHANGED <<mInputBuffer, mHaveNewData, read>>

ClearSlot ==
  /\ worker = "clear"
  /\ mInputBuffer' = Empty
  /\ worker' = "fgets"
  /\ UNCHANGED <<mHaveNewData, read>>

\* Publishing whatever fgets returned, without looking at its length.
ReadLineOfAnyLength ==
  /\ worker = "fgets"
  /\ read < Len(Typed)
  /\ mInputBuffer' = Typed[read + 1]
  /\ read' = read + 1
  /\ worker' = "publish"
  /\ UNCHANGED mHaveNewData

\* What has length zero is passed over.
ReadLine ==
  /\ worker = "fgets"
  /\ read < Len(Typed)
  /\ mInputBuffer' = Typed[read + 1]
  /\ read' = read + 1
  /\ worker' = IF mInputBuffer' = Empty THEN "loop" ELSE "publish"
  /\ UNCHANGED mHaveNewData

\* Publishing without looking at what fgets returned.
ReadEndUnchecked ==
  /\ worker = "fgets"
  /\ EndsAfter
  /\ read = Len(Typed)
  /\ worker' = "publish"
  /\ UNCHANGED <<mInputBuffer, mHaveNewData, read>>

\* At the end of the input fgets fails at once, again and again.
ReadEnd ==
  /\ worker = "fgets"
  /\ EndsAfter
  /\ read = Len(Typed)
  /\ worker' = "loop"
  /\ UNCHANGED <<mInputBuffer, mHaveNewData, read>>

\* Forgetting to raise the flag.
PublishNothing ==
  /\ worker = "publish"
  /\ worker' = "loop"
  /\ UNCHANGED <<mHaveNewData, mInputBuffer, read>>

Publish ==
  /\ worker = "publish"
  /\ mHaveNewData' = TRUE
  /\ worker' = "loop"
  /\ UNCHANGED <<mInputBuffer, read>>

Worker ==
  /\ TestExit \/ TestSlot \/ ClearSlot \/ ReadLine \/ ReadEnd \/ Publish
  /\ UNCHANGED <<mResultBuffer, mExit, caller, taken>>

----------------------------------------------------------------------------
(***************************************************************************)
(* getInputLine, in the caller's thread: null unless there is a line, and  *)
(* otherwise copy it (without its newline) and free the slot.  A call that *)
(* returns null changes nothing.                                           *)
(***************************************************************************)
FindLine ==
  /\ caller = "out"
  /\ mHaveNewData
  /\ caller' = "copy"
  /\ UNCHANGED <<handOver, mResultBuffer, mExit, taken>>

CopyLine ==
  /\ caller = "copy"
  /\ mResultBuffer' = mInputBuffer
  /\ caller' = "free"
  /\ UNCHANGED <<handOver, mExit, taken>>

\* Returning the line without freeing the slot.
ReturnLineUnfreed ==
  /\ caller = "free"
  /\ taken' = Append(taken, mResultBuffer)
  /\ caller' = "out"
  /\ UNCHANGED <<mHaveNewData, mInputBuffer, mResultBuffer, mExit, worker, read>>

\* The slot is freed and the line returned.
ReturnLine ==
  /\ caller = "free"
  /\ mHaveNewData' = FALSE
  /\ taken' = Append(taken, mResultBuffer)
  /\ caller' = "out"
  /\ UNCHANGED <<mInputBuffer, mResultBuffer, mExit, worker, read>>

(***************************************************************************)
(* release: the destructor sets mExit, detaches the thread and frees the   *)
(* object.  A worker that is not done by then goes on with freed memory.   *)
(* The model gives that memory its last values, the mildest outcome, and   *)
(* nothing is claimed of the worker from then on.                          *)
(***************************************************************************)
release ==
  /\ caller = "out"
  /\ mExit' = TRUE
  /\ caller' = "gone"
  /\ UNCHANGED <<handOver, mResultBuffer, taken>>

Caller == FindLine \/ CopyLine \/ ReturnLine \/ release

InputNext == Worker \/ Caller

InputSpec == InputInit /\ [][InputNext]_inputVars

\* The worker's thread runs, and the main loop calls getInputLine in every round; it
\* need not call release.
FairInputSpec == InputSpec /\ WF_inputVars(Worker) /\ WF_inputVars(FindLine \/ CopyLine \/ ReturnLine)

----------------------------------------------------------------------------
InputTypeOK ==
  /\ mInputBuffer \in Line \cup {Empty}
  /\ mResultBuffer \in Line \cup {Empty}
  /\ mHaveNewData \in BOOLEAN
  /\ mExit \in BOOLEAN
  /\ worker \in {"loop", "slot", "clear", "fgets", "publish", "done"}
  /\ caller \in {"out", "copy", "free", "gone"}
  /\ read \in 0 .. Len(Typed)
  /\ taken \in Seq(Line)

(***************************************************************************)
(* The worker never writes the buffer while the caller is reading it: the  *)
(* flag alone keeps them apart, for the mutex is taken on one side only.   *)
(***************************************************************************)
NoTornLine == caller = "copy" => worker \notin {"clear", "fgets", "publish"}

\* A line the worker has read and the caller has not yet been given.
Pending == mHaveNewData \/ worker = "publish"

(***************************************************************************)
(* The state of the hand-over.  The flag is up only while the worker keeps *)
(* off the buffer, and only then is the caller inside getInputLine; a      *)
(* pending line is the last one read, and the caller has copied that one.  *)
(***************************************************************************)
SlotInv ==
  /\ mHaveNewData => worker \in {"loop", "slot", "done"}
  /\ caller \in {"copy", "free"} => mHaveNewData
  /\ Pending => read > 0 /\ mInputBuffer = Typed[read] /\ Typed[read] # Empty
  /\ caller = "free" => mResultBuffer = mInputBuffer

(***************************************************************************)
(* Every line read from the console is returned once and in order: the     *)
(* lines returned are those read, but for the one being handed over and    *)
(* those that begin with NUL.                                              *)
(***************************************************************************)
ReturnedAre(place) ==
  /\ \A i \in 1 .. Len(taken) : taken[i] = Typed[place[i]]
  /\ \A i, j \in 1 .. Len(taken) : i < j => place[i] < place[j]
  /\ \A n \in 1 .. read : (\E i \in 1 .. Len(taken) : place[i] = n) <=>
                          Typed[n] # Empty /\ ~(Pending /\ n = read)

LinesOnce == \E place \in [1 .. Len(taken) -> 1 .. read] : ReturnedAre(place)

(***************************************************************************)
(* No line gets stuck between the two threads: every line read is returned *)
(* unless it begins with NUL or the caller releases the object.            *)
(***************************************************************************)
LinesAmong(n) == Cardinality({i \in 1 .. n : Typed[i] # Empty})

LinesComeThrough ==
  \A n \in 1 .. Len(Typed) : read >= n ~> Len(taken) >= LinesAmong(n) \/ mExit

============================================================================
