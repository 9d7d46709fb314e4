---------------------------- MODULE SimpleBuffer ----------------------------
(***************************************************************************)
(* The growable byte buffer of class SimpleBufferImpl: one allocation, the *)
(* live bytes between mStartLoc and mEndLoc, and the three ways to make    *)
(* room (use the tail, slide the live bytes down, reallocate).             *)
(* All operations run on the thread that owns the buffer.                  *)
(***************************************************************************)
EXTENDS Integers, Sequences

CONSTANTS
  Byte,          \* byte values
  Junk,          \* what memory fresh from malloc holds
  DefaultSize,   \* defaultLen of the constructor
  MaxGrowSize,   \* maxGrowSize of the constructor
  Request,       \* the sizes passed to confirmCapacity and reset
  Chunk,         \* the byte sequences passed to addBuffer
  WordSize,      \* 2^32: lengths are uint32_t
  CopyOrders     \* in which orders this build's memcpy moves overlapping bytes

(***************************************************************************)
(* The constructor raises maxGrowSize to defaultLen when it is smaller, so *)
(* DefaultSize <= MaxGrowSize for every buffer.  No doubling wraps: with   *)
(* 512 MB buffers and 32 bit lengths, requests stay below 3 GB.            *)
(***************************************************************************)
ASSUME SizeAssumption ==
  /\ MaxGrowSize \in Nat /\ WordSize \in Nat
  /\ DefaultSize \in 0 .. MaxGrowSize
  /\ Request \subseteq 0 .. MaxGrowSize
  /\ Chunk \subseteq Seq(Byte)
  /\ \A n \in Request : 2 * MaxGrowSize + n < WordSize
  /\ \A c \in Chunk : 2 * MaxGrowSize + Len(c) < WordSize
  /\ 2 * MaxGrowSize < WordSize

ASSUME CopyAssumption == CopyOrders \subseteq {"ascending", "descending"}

VARIABLES
  mBuffer,       \* the allocation: a function on 0 .. mMaxLen - 1
  mStartLoc,     \* offset of the first live byte
  mEndLoc,       \* offset after the last live byte
  mMaxLen,       \* length of the allocation
  mDefaultSize,  \* the size shrinkBuffer goes back to
  lent           \* room behind the pointer of the last confirmCapacity, 0: none

vars == <<mBuffer, mStartLoc, mEndLoc, mMaxLen, mDefaultSize, lent>>

Word(n) == n % WordSize

Malloc(len) == [i \in 0 .. len - 1 |-> Junk]

getSize == Word(mEndLoc - mStartLoc)

Live == [i \in 1 .. mEndLoc - mStartLoc |-> mBuffer[mStartLoc + i - 1]]

----------------------------------------------------------------------------
(***************************************************************************)
(* memcpy(mBuffer, &mBuffer[mStartLoc], keepSize).  The two ranges overlap *)
(* when keepSize > mStartLoc, and then the result depends on the order in  *)
(* which memcpy moves the bytes: the byte that ends up at offset i comes   *)
(* from i + mStartLoc if it moves upwards, and otherwise has travelled     *)
(* down from the last mStartLoc offsets of the source.                     *)
(***************************************************************************)
SlideSource(i, keepSize, order) ==
  IF order = "ascending" THEN i + mStartLoc
                         ELSE keepSize + ((i - keepSize) % mStartLoc)

SlideDown(keepSize, order) ==
  [i \in 0 .. mMaxLen - 1 |->
     IF i < keepSize THEN mBuffer[SlideSource(i, keepSize, order)] ELSE mBuffer[i]]

\* Relocating from the start of the allocation and not of the live bytes.
RelocatedFromZero(newMaxLen) ==
  [i \in 0 .. newMaxLen - 1 |-> IF i < getSize THEN mBuffer[i] ELSE Junk]

\* The new allocation of growBuffer, with the live bytes at its start.
Relocated(newMaxLen) ==
  [i \in 0 .. newMaxLen - 1 |->
     IF i < getSize THEN mBuffer[mStartLoc + i] ELSE Junk]

\* Twice the length, and if that is not enough the request on top of it.
NewMaxLen(dataLen) ==
  LET doubled == Word(2 * mMaxLen)
  IN  IF Word(doubled - mEndLoc) < dataLen THEN Word(doubled + dataLen) ELSE doubled

(***************************************************************************)
(* The layouts growBuffer(dataLen) can leave; the last disjunct is the     *)
(* refusal to grow past the maximum.                                       *)
(***************************************************************************)
Here == [mem |-> mBuffer, start |-> mStartLoc, end |-> mEndLoc, max |-> mMaxLen]

growBuffer(dataLen) ==
  IF dataLen < mStartLoc
    THEN {[mem |-> SlideDown(getSize, order), start |-> 0, end |-> getSize, max |-> mMaxLen] :
            order \in CopyOrders}
  ELSE IF NewMaxLen(dataLen) > MaxGrowSize THEN {Here}
  ELSE {[mem   |-> Relocated(NewMaxLen(dataLen)), start |-> 0,
         end   |-> getSize, max |-> NewMaxLen(dataLen)]}

Available(layout) == Word(layout.max - layout.end)

\* Making room when there is just enough.
EnsureRoomEagerly(n) == IF n >= Available(Here) THEN growBuffer(n) ELSE {Here}

\* What addBuffer and confirmCapacity both begin with.
EnsureRoom(n) == IF n > Available(Here) THEN growBuffer(n) ELSE {Here}

Install(layout) ==
  /\ mBuffer' = layout.mem
  /\ mStartLoc' = layout.start
  /\ mEndLoc' = layout.end
  /\ mMaxLen' = layout.max
  /\ UNCHANGED mDefaultSize

\* memcpy(&mBuffer[mEndLoc], data, dataLen); mEndLoc += dataLen
Append_(layout, data) ==
  [layout EXCEPT
     !.mem = [i \in DOMAIN @ |-> IF i \in layout.end .. layout.end + Len(data) - 1
                                   THEN data[i - layout.end + 1] ELSE @[i]],
     !.end = @ + Len(data)]

----------------------------------------------------------------------------
Init ==
  /\ mBuffer = Malloc(DefaultSize)
  /\ mStartLoc = 0
  /\ mEndLoc = 0
  /\ mMaxLen = DefaultSize
  /\ mDefaultSize = DefaultSize
  /\ lent = 0

\* addBuffer(data, dataLen): false, and nothing added, when there is no room.
addBuffer(data) ==
  \E layout \in EnsureRoom(Len(data)) :
    /\ IF Len(data) <= Available(layout) THEN Install(Append_(layout, data))
                                         ELSE Install(layout)
    /\ lent' = 0

\* Returning the pointer without looking again after growBuffer.
confirmCapacityUnchecked(capacity) ==
  \E layout \in EnsureRoom(capacity) : Install(layout) /\ lent' = capacity

\* confirmCapacity(capacity): the pointer it returns has that much room behind it.
confirmCapacity(capacity) ==
  \E layout \in EnsureRoom(capacity) :
    /\ Install(layout)
    /\ lent' = IF capacity <= Available(layout) THEN capacity ELSE 0

(***************************************************************************)
(* The user writes at the pointer confirmCapacity lent him and calls       *)
(* addBuffer(nullptr, dataLen), as SocketChatImpl::poll does.              *)
(***************************************************************************)
addInPlace(data) ==
  /\ Len(data) <= lent
  /\ \E layout \in EnsureRoom(Len(data)) :
       /\ IF Len(data) <= Available(layout) THEN Install(Append_(layout, data))
                                            ELSE Install(layout)
       /\ lent' = 0

\* consume(removeLen); the assertion makes removeLen <= getSize the caller's duty.
consume(removeLen) ==
  /\ removeLen <= getSize
  /\ IF mStartLoc + removeLen = mEndLoc
       THEN mStartLoc' = 0 /\ mEndLoc' = 0
       ELSE mStartLoc' = mStartLoc + removeLen /\ UNCHANGED mEndLoc
  /\ lent' = 0
  /\ UNCHANGED <<mBuffer, mMaxLen, mDefaultSize>>

clear ==
  /\ mStartLoc' = 0
  /\ mEndLoc' = 0
  /\ lent' = 0
  /\ UNCHANGED <<mBuffer, mMaxLen, mDefaultSize>>

reset(size) ==
  /\ mBuffer' = Malloc(size)
  /\ mStartLoc' = 0
  /\ mEndLoc' = 0
  /\ mMaxLen' = size
  /\ mDefaultSize' = size
  /\ lent' = 0

\* Shrinking to the default size whatever the buffer holds.
shrinkBufferToDefault ==
  /\ mStartLoc' = 0
  /\ mEndLoc' = getSize
  /\ mMaxLen' = mDefaultSize
  /\ mBuffer' = [i \in 0 .. mDefaultSize - 1 |-> mBuffer[i]]
  /\ lent' = 0
  /\ UNCHANGED mDefaultSize

(***************************************************************************)
(* shrinkBuffer: the live bytes go to a new allocation which is then       *)
(* forgotten; mBuffer stays, and the bytes at its start become the live    *)
(* ones.  (What lies past the new mMaxLen is out of reach from here on.)   *)
(***************************************************************************)
shrinkBuffer ==
  LET newSize == IF getSize > mDefaultSize THEN getSize ELSE mDefaultSize
  IN  /\ mStartLoc' = 0
      /\ mEndLoc' = getSize
      /\ mMaxLen' = newSize
      /\ mBuffer' = [i \in 0 .. newSize - 1 |-> mBuffer[i]]
      /\ lent' = 0
      /\ UNCHANGED mDefaultSize

Next ==
  \/ \E data \in Chunk : addBuffer(data)
  \/ \E n \in Request : confirmCapacity(n)
  \/ \E data \in Chunk : addInPlace(data)
  \/ \E n \in 0 .. MaxGrowSize : consume(n)
  \/ clear
  \/ \E n \in Request : reset(n)
  \/ shrinkBuffer

Spec == Init /\ [][Next]_vars

----------------------------------------------------------------------------
TypeOK ==
  /\ mMaxLen \in 0 .. MaxGrowSize
  /\ mDefaultSize \in 0 .. mMaxLen
  /\ mStartLoc \in 0 .. mEndLoc
  /\ mEndLoc \in 0 .. mMaxLen
  /\ mBuffer \in [0 .. mMaxLen - 1 -> Byte \cup {Junk}]
  /\ lent \in 0 .. MaxGrowSize

(***************************************************************************)
(* A pointer handed out by confirmCapacity is good for the capacity that   *)
(* was asked for until the buffer is used again: poll lets recv write      *)
(* DEFAULT_MAX_READ_SIZE bytes behind it.                                  *)
(***************************************************************************)
LentRoomIsThere == lent <= mMaxLen - mEndLoc

(***************************************************************************)
(* addBuffer(nullptr, n) after confirmCapacity only advances the end: it   *)
(* must not slide or reallocate, or the bytes recv wrote would be left     *)
(* behind.                                                                 *)
(***************************************************************************)
InPlaceAddStays ==
  [][\A data \in Chunk : addInPlace(data) =>
       mStartLoc' = mStartLoc /\ mMaxLen' = mMaxLen /\ mEndLoc' = mEndLoc + Len(data)]_vars

(***************************************************************************)
(* The buffer is a FIFO of bytes: across slides, reallocations and refused *)
(* requests its content is what was added and not yet consumed, and it     *)
(* refuses only requests it may refuse.                                    *)
(***************************************************************************)
Contract == INSTANCE ByteQueueSpec WITH q <- [content |-> Live, maxLen |-> mMaxLen]

RefinesByteQueue == Contract!Spec

============================================================================
