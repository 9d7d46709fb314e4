----------------------------- MODULE SPSCProofs -----------------------------
(***************************************************************************)
(* Proofs about SPSC, for every capacity, data and pattern of calls, when  *)
(* the index is published after the copies (RelaxedPublish = FALSE).       *)
(***************************************************************************)
EXTENDS SPSC, SequenceTheorems, TLAPS

Index == 0 .. Capacity

\* Moving an index by n slots: what it does to slots and to the size.
LEMMA SlotType ==
  ASSUME NEW at \in Index, NEW k \in 0 .. Capacity - 1
  PROVE  Slot(at, k) \in Slots
  BY RingAssumption DEF Index, Slot, Slots

LEMMA SlotInjective ==
  ASSUME NEW at \in Index, NEW j \in 0 .. Capacity - 1, NEW k \in 0 .. Capacity - 1,
         Slot(at, j) = Slot(at, k)
  PROVE  j = k
  BY RingAssumption DEF Index, Slot

LEMMA SizeType ==
  ASSUME NEW r \in Index, NEW w \in Index
  PROVE  calcSize(r, w) \in Index
  BY RingAssumption DEF Index, calcSize

LEMMA LimitBound == Limit \in Nat /\ Limit < Capacity /\ (Limit > 0 => Limit <= Capacity - 2)
  BY RingAssumption DEF Limit

\* The slots from the write index on follow the unread ones.
LEMMA SlotAfterUnread ==
  ASSUME NEW r \in Index, NEW w \in Index, NEW k \in Nat, calcSize(r, w) + k < Capacity
  PROVE  Slot(w, k) = Slot(r, calcSize(r, w) + k)
  BY RingAssumption DEF Index, Slot, calcSize

LEMMA SlotAfterIndex ==
  ASSUME NEW at \in Index, NEW n \in 1 .. Capacity - 1, NEW k \in Nat, n + k < Capacity
  PROVE  /\ IndexAfter(at, n) \in Index
         /\ Slot(IndexAfter(at, n), k) = Slot(at, n + k)
  BY RingAssumption DEF Index, Slot, IndexAfter

LEMMA SizeAfterWrite ==
  ASSUME NEW r \in Index, NEW w \in Index, NEW n \in Nat \ {0}, calcSize(r, w) + n < Capacity
  PROVE  calcSize(r, IndexAfter(w, n)) = calcSize(r, w) + n
  BY RingAssumption DEF Index, IndexAfter, calcSize

LEMMA SizeAfterRead ==
  ASSUME NEW r \in Index, NEW w \in Index, NEW n \in Nat \ {0},
         n <= calcSize(r, w), calcSize(r, w) < Capacity
  PROVE  calcSize(IndexAfter(r, n), w) = calcSize(r, w) - n
  BY RingAssumption DEF Index, IndexAfter, calcSize

\* How much a write may take.
LEMMA RoomIs ==
  ASSUME TypeOK, size <= Limit
  PROVE  size \in Nat /\ Room = Limit - size
<1>1. size \in Index
  BY SizeType DEF TypeOK, size, Index
<1> QED
  BY <1>1, RingAssumption DEF Index, Room, capacity, Limit

\* The copies of a call in terms of the slots they touch.
LEMMA CopySlots ==
  ASSUME NEW at \in Index, NEW n \in 1 .. Capacity - 1
  PROVE  /\ TopLen(at, n) \in 0 .. n
         /\ \A k \in 1 .. n : k <= TopLen(at, n) => Slot(at, k - 1) = at + k - 1
         /\ \A k \in 1 .. n : k > TopLen(at, n) => Slot(at, k - 1) = k - TopLen(at, n) - 1
  BY RingAssumption DEF Index, TopLen, AtMost, Slot

\* The buffer of a read, before and after a copy, is a sequence of bytes.
LEMMA BufferType ==
  ASSUME NEW n \in Nat, NEW buffer \in [1 .. n -> Byte \cup {Junk}]
  PROVE  buffer \in Bytes /\ Len(buffer) = n
  BY DEF Bytes

\* A call that has just started has copied nothing, and knows all its steps.
LEMMA StartedCall ==
  ASSUME NEW data \in Bytes, NEW at \in Index, Len(data) \in 1 .. Capacity - 1,
         NEW call, call = [data |-> data, at |-> at, todo |-> Steps(at, Len(data))]
  PROVE  /\ call \in Call
         /\ "publish" \in call.todo
         /\ \A k \in 1 .. Len(data) : ~Copied(call, k)
<1>1. call \in Call
  BY DEF Call, Steps, Index
<1>2. ASSUME NEW k \in 1 .. Len(data) PROVE ~Copied(call, k)
  BY CopySlots DEF Copied, StepOf, Steps
<1> QED
  BY <1>1, <1>2 DEF Steps

----------------------------------------------------------------------------
(***************************************************************************)
(* Each action keeps IInv; its effect on what the channel holds is stated  *)
(* along the way.                                                          *)
(***************************************************************************)
IInv == TypeOK /\ RingInv

\* With program order, a call ends with its publication.
ProgramOrder == RelaxedPublish = FALSE

LEMMA StartWriteKeeps ==
  ASSUME IInv, NEW data \in Chunk, StartWrite(data)
  PROVE  /\ IInv'
         /\ writer.todo = {}
         /\ "publish" \in writer'.todo
         /\ writer'.data = SubSeq(data, 1, IF Len(data) <= Limit - size THEN Len(data)
                                                                        ELSE Limit - size)
<1> DEFINE n == AtMost(Len(data), Room)
           text == SubSeq(data, 1, n)
<1>1. data \in Seq(Byte) /\ Len(data) \in Nat
  BY RingAssumption
<1>2. Room = Limit - size /\ size \in Nat
  BY RoomIs DEF IInv, RingInv
<1>3. n \in 1 .. Len(data) /\ size + n <= Limit /\ n \in 1 .. Capacity - 1
  BY <1>1, <1>2, LimitBound, RingAssumption DEF StartWrite, AtMost
<1>4. text \in Bytes /\ Len(text) = n
  BY <1>1, <1>3 DEF Bytes
<1>5. writer' = [data |-> text, at |-> mWriteIndex, todo |-> Steps(mWriteIndex, Len(text))]
  BY <1>4 DEF StartWrite
<1>6. mWriteIndex \in Index
  BY DEF IInv, TypeOK, Index
<1>7. /\ writer' \in Call
      /\ "publish" \in writer'.todo
      /\ \A k \in 1 .. Len(text) : ~Copied(writer', k)
  BY <1>3, <1>4, <1>5, <1>6, StartedCall
<1>8. TypeOK'
  BY <1>7 DEF IInv, TypeOK, StartWrite
<1>9. CallInv(writer, mWriteIndex)'
  <2> HIDE DEF text, n
  <2>1. writer'.data = text /\ writer'.at = mWriteIndex' /\ text # << >>
    BY <1>3, <1>4, <1>5 DEF StartWrite
  <2>2. writer'.todo = Steps(writer'.at, Len(writer'.data))
    BY <1>5
  <2>3. ASSUME NEW k \in 1 .. Len(writer'.data) PROVE ~Copied(writer, k)'
    BY <2>1, <1>7 DEF Copied, StepOf
  <2> QED
    BY <2>1, <2>2, <2>3, <1>7 DEF CallInv
<1>10. RingInv'
  BY <1>3, <1>4, <1>5, <1>9 DEF IInv, RingInv, CallInv, StartWrite, size, Copied, StepOf
<1> QED
  BY <1>2, <1>5, <1>7, <1>8, <1>10 DEF IInv, StartWrite, AtMost

(***************************************************************************)
(* memcpy into the array fills slots of this write and touches no other.   *)
(***************************************************************************)
LEMMA CopyInEffect ==
  ASSUME IInv, NEW step \in {"top", "bottom"}, CopyIn(step)
  PROVE  LET n == Len(writer.data) IN
         /\ n \in 1 .. Capacity - 1
         /\ \A k \in 1 .. n : StepOf(writer, k) = step =>
              mBaseMemory'[Slot(writer.at, k - 1)] = writer.data[k]
         /\ \A i \in Slots :
              (\A k \in 1 .. n : StepOf(writer, k) = step => Slot(writer.at, k - 1) # i) =>
                mBaseMemory'[i] = mBaseMemory[i]
<1> DEFINE n   == Len(writer.data)
           at  == writer.at
           top == TopLen(at, n)
<1>1. writer.data \in Bytes /\ at \in Index /\ n \in Nat
  BY DEF IInv, TypeOK, Call, Bytes, Index
<1>2. n \in 1 .. Capacity - 1
  <2>1. writer.data # << >> /\ size + n <= Limit /\ size \in Nat
    BY RoomIs DEF IInv, RingInv, CallInv, CopyIn, MayRun
  <2> QED
    BY <2>1, <1>1, LimitBound, RingAssumption DEF Bytes
<1>3. /\ top \in 0 .. n
      /\ \A k \in 1 .. n : k <= top => Slot(at, k - 1) = at + k - 1
      /\ \A k \in 1 .. n : k > top => Slot(at, k - 1) = k - top - 1
  BY <1>1, <1>2, CopySlots
<1>4. \A k \in 1 .. n : Slot(at, k - 1) \in Slots
  BY <1>1, <1>2, SlotType, RingAssumption
<1>5. ASSUME NEW k \in 1 .. n, StepOf(writer, k) = step
      PROVE  mBaseMemory'[Slot(at, k - 1)] = writer.data[k]
  <2>1. CASE step = "top"
    <3>1. k <= top /\ Slot(at, k - 1) = at + k - 1
      BY <2>1, <1>5, <1>3 DEF StepOf
    <3> QED
      BY <3>1, <2>1, <1>1, <1>3, <1>4, RingAssumption DEF CopyIn, Slots, Index
  <2>2. CASE step = "bottom"
    <3>1. k > top /\ Slot(at, k - 1) = k - top - 1
      BY <2>2, <1>5, <1>3 DEF StepOf
    <3> QED
      BY <3>1, <2>2, <1>1, <1>3, <1>4, RingAssumption DEF CopyIn, Slots, Index
  <2> QED
    BY <2>1, <2>2
<1>6. ASSUME NEW i \in Slots,
             \A k \in 1 .. n : StepOf(writer, k) = step => Slot(at, k - 1) # i
      PROVE  mBaseMemory'[i] = mBaseMemory[i]
  <2>1. CASE step = "top"
    <3>1. ASSUME i \in at .. at + top - 1 PROVE FALSE
      <4>1. i - at + 1 \in 1 .. n /\ i - at + 1 <= top
        BY <3>1, <1>1, <1>3 DEF Slots, Index
      <4>2. Slot(at, (i - at + 1) - 1) = i
        BY <4>1, <1>1, <1>3 DEF Slots, Index
      <4> QED
        BY <4>1, <4>2, <2>1, <1>6 DEF StepOf
    <3> QED
      BY <3>1, <2>1 DEF CopyIn
  <2>2. CASE step = "bottom"
    <3>1. ASSUME i < n - top PROVE FALSE
      <4>1. i + top + 1 \in 1 .. n /\ i + top + 1 > top
        BY <3>1, <1>1, <1>3, RingAssumption DEF Slots
      <4>2. Slot(at, (i + top + 1) - 1) = i
        BY <4>1, <1>1, <1>3, RingAssumption DEF Slots, Index
      <4> QED
        BY <4>1, <4>2, <2>2, <1>6, <1>3 DEF StepOf
    <3> QED
      BY <3>1, <2>2 DEF CopyIn
  <2> QED
    BY <2>1, <2>2
<1> QED
  BY <1>2, <1>5, <1>6

(***************************************************************************)
(* So the unread bytes, and those a read has asked for, stay as they are.  *)
(***************************************************************************)
LEMMA UnreadUntouched ==
  ASSUME IInv, NEW step \in {"top", "bottom"}, CopyIn(step)
  PROVE  \A k \in 1 .. size :
           mBaseMemory'[Slot(mReadIndex, k - 1)] = mBaseMemory[Slot(mReadIndex, k - 1)]
<1> DEFINE n == Len(writer.data)
<1>1. /\ mReadIndex \in Index /\ mWriteIndex \in Index
      /\ n \in 1 .. Capacity - 1
      /\ writer.at = mWriteIndex
      /\ size \in Nat /\ size + n < Capacity
  <2>1. n \in 1 .. Capacity - 1
    BY CopyInEffect
  <2>2. size \in Nat /\ size + n <= Limit /\ writer.at = mWriteIndex
    BY RoomIs DEF IInv, RingInv, CallInv, CopyIn, MayRun
  <2>3. mReadIndex \in Index /\ mWriteIndex \in Index
    BY DEF IInv, TypeOK, Index
  <2> QED
    BY <2>1, <2>2, <2>3, LimitBound, RingAssumption
<1>2. ASSUME NEW k \in 1 .. size, NEW j \in 1 .. n
      PROVE  Slot(writer.at, j - 1) # Slot(mReadIndex, k - 1)
  <2>1. Slot(writer.at, j - 1) = Slot(mReadIndex, size + (j - 1))
    BY <1>1, SlotAfterUnread, RingAssumption DEF size
  <2>2. /\ size + (j - 1) \in 0 .. Capacity - 1
        /\ k - 1 \in 0 .. Capacity - 1
        /\ size + (j - 1) # k - 1
    BY <1>1, RingAssumption
  <2> QED
    BY <2>1, <2>2, <1>1, SlotInjective
<1>3. \A k \in 1 .. size : Slot(mReadIndex, k - 1) \in Slots
  BY <1>1, SlotType, RingAssumption
<1> QED
  BY <1>2, <1>3, CopyInEffect

LEMMA CopyInKeeps ==
  ASSUME IInv, NEW step \in {"top", "bottom"}, CopyIn(step)
  PROVE  IInv'
<1> DEFINE n == Len(writer.data)
<1>1. /\ writer \in Call /\ writer.data \in Bytes /\ n \in Nat /\ writer.at \in Index
      /\ writer' = [writer EXCEPT !.todo = @ \ {step}]
  BY DEF IInv, TypeOK, Call, Bytes, CopyIn, Index
<1>2. /\ writer'.data = writer.data /\ writer'.at = writer.at
      /\ writer'.todo = writer.todo \ {step}
      /\ writer' \in Call
  BY <1>1 DEF Call
<1>3. mBaseMemory' \in [Slots -> Byte \cup {Junk}]
  <2> DEFINE top == TopLen(writer.at, n)
  <2>1. top \in 0 .. n
    BY <1>1, CopySlots, CopyInEffect
  <2>2. \A k \in 1 .. n : writer.data[k] \in Byte \cup {Junk}
    BY <1>1 DEF Bytes
  <2>3. \A i \in Slots : i \in writer.at .. writer.at + top - 1 => i - writer.at + 1 \in 1 .. n
    BY <1>1, <2>1 DEF Slots, Index
  <2>4. \A i \in Slots : i < n - top => i + top + 1 \in 1 .. n
    BY <1>1, <2>1, RingAssumption DEF Slots
  <2> HIDE DEF n, top
  <2> QED
    BY <2>2, <2>3, <2>4 DEF CopyIn, IInv, TypeOK, n, top
<1>4. TypeOK'
  BY <1>2, <1>3 DEF IInv, TypeOK, CopyIn
<1>5. ASSUME NEW k \in 1 .. n, Copied(writer, k)'
      PROVE  mBaseMemory'[Slot(writer.at, k - 1)] = writer.data[k]
  <2>1. StepOf(writer, k) = step \/ Copied(writer, k)
    BY <1>2, <1>5 DEF Copied, StepOf
  <2>2. CASE StepOf(writer, k) = step
    BY <2>2, CopyInEffect
  <2>3. CASE Copied(writer, k) /\ StepOf(writer, k) # step
    <3>1. mBaseMemory[Slot(writer.at, k - 1)] = writer.data[k]
      BY <2>3 DEF IInv, RingInv, CallInv, CopyIn, MayRun
    <3>2. ASSUME NEW j \in 1 .. n, StepOf(writer, j) = step
          PROVE  Slot(writer.at, j - 1) # Slot(writer.at, k - 1)
      <4>1. j - 1 \in 0 .. Capacity - 1 /\ k - 1 \in 0 .. Capacity - 1 /\ j # k
        BY <2>3, <3>2, CopyInEffect, RingAssumption
      <4> QED
        BY <4>1, <1>1, SlotInjective
    <3>3. Slot(writer.at, k - 1) \in Slots
      BY <1>1, CopyInEffect, SlotType, RingAssumption
    <3> QED
      BY <3>1, <3>2, <3>3, CopyInEffect
  <2> QED
    BY <2>1, <2>2, <2>3
<1>6. CallInv(writer, mWriteIndex)'
  <2>1. "publish" \in writer'.todo /\ writer'.at = mWriteIndex' /\ writer'.data # << >>
    BY <1>2 DEF IInv, RingInv, CallInv, CopyIn, MayRun
  <2>2. writer'.todo \subseteq Steps(writer'.at, Len(writer'.data))
    BY <1>2 DEF IInv, RingInv, CallInv
  <2> QED
    BY <1>2, <1>5, <2>1, <2>2 DEF CallInv
<1>7. CallInv(reader, mReadIndex)'
  <2>1. ASSUME reader.todo # {}, NEW k \in 1 .. Len(reader.data)
        PROVE  mBaseMemory'[Slot(reader.at, k - 1)] = mBaseMemory[Slot(reader.at, k - 1)]
    <3>1. k \in 1 .. size /\ reader.at = mReadIndex
      BY <2>1, RoomIs DEF IInv, RingInv, CallInv, TypeOK, Call, Bytes
    <3> QED
      BY <3>1, UnreadUntouched
  <2> QED
    BY <2>1 DEF IInv, RingInv, CallInv, CopyIn, Copied, StepOf
<1>8. size' = size
  BY DEF CopyIn, size
<1> QED
  BY <1>2, <1>4, <1>6, <1>7, <1>8 DEF IInv, RingInv, CopyIn, MayRun, Limit

\* What publishing a write does to the size and to the bytes between the indices.
LEMMA PublishWriteEffect ==
  ASSUME IInv, ProgramOrder, PublishWrite
  PROVE  LET n == Len(writer.data) IN
         /\ n \in 1 .. Capacity - 1
         /\ size \in Nat
         /\ mWriteIndex' \in Index
         /\ size' = size + n
         /\ size' <= Limit
         /\ writer'.todo = {}
         /\ \A k \in 1 .. n :
              mBaseMemory[Slot(mReadIndex, size + k - 1)] = writer.data[k]
<1> DEFINE n == Len(writer.data)
<1>1. /\ writer.todo = {"publish"}
      /\ writer.at = mWriteIndex
      /\ writer.data # << >>
      /\ size + n <= Limit
  BY DEF IInv, RingInv, CallInv, PublishWrite, MayRun, ProgramOrder
<1>2. /\ writer \in Call /\ writer.data \in Bytes
      /\ mReadIndex \in Index /\ mWriteIndex \in Index
  BY DEF IInv, TypeOK, Call, Index
<1>3. size \in Nat /\ size <= Limit
  BY RoomIs DEF IInv, RingInv
<1>4. n \in 1 .. Capacity - 1 /\ size + n < Capacity
  BY <1>1, <1>2, <1>3, LimitBound, RingAssumption DEF Bytes
<1>5. mWriteIndex' = IndexAfter(mWriteIndex, n) /\ mWriteIndex' \in Index
  <2>1. n + 0 < Capacity
    BY <1>4, RingAssumption
  <2> QED
    BY <2>1, <1>1, <1>2, <1>4, SlotAfterIndex DEF PublishWrite
<1>6. size' = size + n
  BY <1>2, <1>4, <1>5, SizeAfterWrite DEF size, PublishWrite
<1>7. writer'.todo = {}
  BY <1>1, <1>2 DEF PublishWrite, Call
<1>8. ASSUME NEW k \in 1 .. n
      PROVE  mBaseMemory[Slot(mReadIndex, size + k - 1)] = writer.data[k]
  <2>1. mBaseMemory[Slot(mWriteIndex, k - 1)] = writer.data[k]
    BY <1>1 DEF IInv, RingInv, CallInv, Copied, StepOf
  <2>2. k - 1 \in Nat /\ size + (k - 1) < Capacity
    BY <1>3, <1>4, RingAssumption
  <2>3. Slot(mWriteIndex, k - 1) = Slot(mReadIndex, size + (k - 1))
    BY <2>2, <1>2, SlotAfterUnread DEF size
  <2> QED
    BY <2>1, <2>3, <1>3
<1> QED
  BY <1>1, <1>3, <1>4, <1>5, <1>6, <1>7, <1>8

LEMMA PublishWriteKeeps ==
  ASSUME IInv, ProgramOrder, PublishWrite
  PROVE  IInv'
<1>1. writer' \in Call /\ writer'.todo = {}
  BY PublishWriteEffect DEF IInv, TypeOK, Call, PublishWrite
<1>2. TypeOK'
  BY <1>1, PublishWriteEffect DEF IInv, TypeOK, PublishWrite, Index
<1>3. CallInv(writer, mWriteIndex)'
  BY <1>1 DEF CallInv
<1>4. CallInv(reader, mReadIndex)'
  BY DEF IInv, RingInv, CallInv, PublishWrite, Copied, StepOf
<1>5. reader'.todo # {} => Len(reader'.data) <= size'
  BY PublishWriteEffect DEF IInv, RingInv, TypeOK, Call, Bytes, PublishWrite
<1> QED
  BY <1>1, <1>2, <1>3, <1>4, <1>5, PublishWriteEffect DEF IInv, RingInv, Limit

LEMMA StartReadKeeps ==
  ASSUME IInv, NEW maxLen \in ReadLength, StartRead(maxLen)
  PROVE  IInv'
<1> DEFINE n == AtMost(size, maxLen)
           buffer == [i \in 1 .. n |-> Junk]
<1>1. size \in Nat /\ size <= Limit /\ mReadIndex \in Index
  BY RoomIs DEF IInv, RingInv, TypeOK, Index
<1>2. n \in 1 .. Capacity - 1 /\ n <= size
  BY <1>1, LimitBound, RingAssumption DEF StartRead, AtMost
<1>3. buffer \in Bytes /\ Len(buffer) = n
  BY <1>2, BufferType
<1>4. reader' = [data |-> buffer, at |-> mReadIndex, todo |-> Steps(mReadIndex, Len(buffer))]
  BY <1>3 DEF StartRead
<1> HIDE DEF buffer
<1>5. /\ reader' \in Call
      /\ "publish" \in reader'.todo
      /\ \A k \in 1 .. Len(buffer) : ~Copied(reader', k)
  BY <1>1, <1>2, <1>3, <1>4, StartedCall
<1>6. TypeOK'
  BY <1>5 DEF IInv, TypeOK, StartRead
<1>7. CallInv(reader, mReadIndex)'
  <2>1. reader'.data = buffer /\ reader'.at = mReadIndex' /\ buffer # << >>
    BY <1>2, <1>3, <1>4 DEF StartRead
  <2>2. reader'.todo = Steps(reader'.at, Len(reader'.data))
    BY <1>4
  <2>3. ASSUME NEW k \in 1 .. Len(reader'.data) PROVE ~Copied(reader, k)'
    BY <2>1, <1>5 DEF Copied, StepOf
  <2> QED
    BY <2>1, <2>2, <2>3, <1>5 DEF CallInv
<1>8. CallInv(writer, mWriteIndex)'
  BY DEF IInv, RingInv, CallInv, StartRead, Copied, StepOf
<1>9. size' = size /\ writer' = writer
  BY DEF StartRead, size
<1> QED
  BY <1>2, <1>3, <1>4, <1>6, <1>7, <1>8, <1>9 DEF IInv, RingInv, Limit

LEMMA CopyOutKeeps ==
  ASSUME IInv, NEW step \in {"top", "bottom"}, CopyOut(step)
  PROVE  IInv' /\ got' = got /\ UNCHANGED <<mBaseMemory, mReadIndex, mWriteIndex, writer>>
<1> DEFINE n   == Len(reader.data)
           at  == reader.at
           top == TopLen(at, n)
           buffer == [i \in 1 .. n |->
                        IF step = "top" /\ i <= top THEN mBaseMemory[at + i - 1]
                        ELSE IF step = "bottom" /\ i > top THEN mBaseMemory[i - top - 1]
                        ELSE reader.data[i]]
<1>1. /\ reader \in Call /\ reader.data \in Bytes /\ n \in Nat /\ at \in Index
      /\ "publish" \in reader.todo
      /\ at = mReadIndex
      /\ reader.data # << >>
      /\ n <= size
  BY DEF IInv, RingInv, CallInv, CopyOut, MayRun, TypeOK, Call, Bytes, Index
<1>2. n \in 1 .. Capacity - 1
  BY <1>1, RoomIs, LimitBound, RingAssumption DEF IInv, RingInv, Bytes
<1>3. /\ top \in 0 .. n
      /\ \A k \in 1 .. n : k <= top => Slot(at, k - 1) = at + k - 1
      /\ \A k \in 1 .. n : k > top => Slot(at, k - 1) = k - top - 1
  BY <1>1, <1>2, CopySlots
<1>4. \A k \in 1 .. n : Slot(at, k - 1) \in Slots
  BY <1>1, <1>2, SlotType, RingAssumption
<1>5. ASSUME NEW k \in 1 .. n
      PROVE  /\ StepOf(reader, k) = step => buffer[k] = mBaseMemory[Slot(at, k - 1)]
             /\ StepOf(reader, k) # step => buffer[k] = reader.data[k]
             /\ buffer[k] \in Byte \cup {Junk}
  <2>1. StepOf(reader, k) = step => buffer[k] = mBaseMemory[Slot(at, k - 1)]
    BY <1>3 DEF StepOf
  <2>2. StepOf(reader, k) # step => buffer[k] = reader.data[k]
    BY <1>3 DEF StepOf
  <2>3. mBaseMemory[Slot(at, k - 1)] \in Byte \cup {Junk} /\ reader.data[k] \in Byte \cup {Junk}
    BY <1>1, <1>4 DEF IInv, TypeOK, Bytes
  <2> QED
    BY <2>1, <2>2, <2>3
<1>6. buffer \in Bytes /\ Len(buffer) = n
  <2>1. buffer \in [1 .. n -> Byte \cup {Junk}]
    BY <1>5
  <2> QED
    BY <2>1, <1>1, BufferType
<1>7. ReaderDid(step, buffer) /\ UNCHANGED <<mBaseMemory, mReadIndex, mWriteIndex, writer>>
  BY DEF CopyOut
<1> HIDE DEF buffer
<1>8. /\ reader'.data = buffer /\ reader'.at = at
      /\ reader'.todo = reader.todo \ {step}
      /\ reader' \in Call
      /\ got' = got
  <2>1. reader.todo # {step}
    BY <1>1
  <2>2. got' = got /\ reader' = [reader EXCEPT !.data = buffer, !.todo = @ \ {step}]
    BY <2>1, <1>7 DEF ReaderDid
  <2> QED
    BY <2>2, <1>1, <1>6 DEF Call
<1>9. TypeOK'
  BY <1>7, <1>8 DEF IInv, TypeOK
<1>10. CallInv(reader, mReadIndex)'
  <2>1. ASSUME NEW k \in 1 .. n, Copied(reader, k)'
        PROVE  mBaseMemory[Slot(at, k - 1)] = buffer[k]
    <3>1. StepOf(reader, k) = step \/ Copied(reader, k)
      BY <1>6, <1>8, <2>1 DEF Copied, StepOf
    <3>2. Copied(reader, k) => mBaseMemory[Slot(at, k - 1)] = reader.data[k]
      BY <1>1 DEF IInv, RingInv, CallInv
    <3> QED
      BY <3>1, <3>2, <1>5
  <2>2. buffer # << >>
    BY <1>2, <1>6
  <2>3. reader'.todo \subseteq Steps(reader'.at, Len(reader'.data))
    BY <1>6, <1>8 DEF IInv, RingInv, CallInv
  <2> QED
    BY <1>1, <1>6, <1>7, <1>8, <2>1, <2>2, <2>3 DEF CallInv
<1>11. CallInv(writer, mWriteIndex)'
  BY <1>7 DEF IInv, RingInv, CallInv, Copied, StepOf
<1>12. size' = size
  BY <1>7 DEF size
<1> QED
  BY <1>1, <1>6, <1>7, <1>8, <1>9, <1>10, <1>11, <1>12 DEF IInv, RingInv, Limit

\* What publishing a read does to the size and to the bytes between the indices.
LEMMA PublishReadEffect ==
  ASSUME IInv, ProgramOrder, PublishRead
  PROVE  LET n == Len(reader.data) IN
         /\ n \in 1 .. size
         /\ size \in 1 .. Capacity - 1
         /\ mReadIndex' \in Index
         /\ size' = size - n
         /\ reader'.todo = {}
         /\ got' = reader.data
         /\ \A k \in 1 .. n : reader.data[k] = mBaseMemory[Slot(mReadIndex, k - 1)]
         /\ \A k \in 1 .. size' : Slot(mReadIndex', k - 1) = Slot(mReadIndex, n + k - 1)
<1> DEFINE n == Len(reader.data)
<1>1. /\ reader.todo = {"publish"}
      /\ reader.at = mReadIndex
      /\ reader.data # << >>
      /\ n <= size
  BY DEF IInv, RingInv, CallInv, PublishRead, MayRun, ProgramOrder
<1>2. /\ reader \in Call /\ reader.data \in Bytes
      /\ mReadIndex \in Index /\ mWriteIndex \in Index
  BY DEF IInv, TypeOK, Call, Index
<1>3. size \in Nat /\ size <= Limit
  BY RoomIs DEF IInv, RingInv
<1>4. n \in 1 .. size /\ size \in 1 .. Capacity - 1 /\ n \in 1 .. Capacity - 1
  BY <1>1, <1>2, <1>3, LimitBound, RingAssumption DEF Bytes
<1>5. mReadIndex' = IndexAfter(mReadIndex, n)
  BY <1>1 DEF PublishRead
<1>6. /\ mReadIndex' \in Index
      /\ \A k \in Nat : n + k < Capacity => Slot(mReadIndex', k) = Slot(mReadIndex, n + k)
  <2>1. n + 0 < Capacity
    BY <1>4, RingAssumption
  <2> QED
    BY <2>1, <1>2, <1>4, <1>5, SlotAfterIndex
<1>7. size' = size - n
  BY <1>2, <1>3, <1>4, <1>5, SizeAfterRead, LimitBound, RingAssumption DEF size, PublishRead
<1>8. ASSUME NEW k \in 1 .. size' PROVE Slot(mReadIndex', k - 1) = Slot(mReadIndex, n + k - 1)
  <2>1. k - 1 \in Nat /\ n + (k - 1) < Capacity
    BY <1>4, <1>7, RingAssumption
  <2> QED
    BY <2>1, <1>4, <1>6
<1>9. reader'.todo = {} /\ got' = reader.data
  BY <1>1, <1>2 DEF PublishRead, ReaderDid, Call
<1>10. \A k \in 1 .. n : reader.data[k] = mBaseMemory[Slot(mReadIndex, k - 1)]
  BY <1>1 DEF IInv, RingInv, CallInv, Copied, StepOf
<1> QED
  BY <1>4, <1>6, <1>7, <1>8, <1>9, <1>10

LEMMA PublishReadKeeps ==
  ASSUME IInv, ProgramOrder, PublishRead
  PROVE  IInv'
<1>1. reader' \in Call /\ reader'.todo = {}
  BY PublishReadEffect DEF IInv, TypeOK, Call, PublishRead, ReaderDid
<1>2. TypeOK'
  BY <1>1, PublishReadEffect DEF IInv, TypeOK, PublishRead, Index, Call
<1>3. CallInv(reader, mReadIndex)'
  BY <1>1 DEF CallInv
<1>4. CallInv(writer, mWriteIndex)'
  BY DEF IInv, RingInv, CallInv, PublishRead, Copied, StepOf
<1>5. size \in Nat /\ size' \in Nat /\ size' <= size
  BY PublishReadEffect, RingAssumption
<1>6. size' <= Limit' /\ (writer'.todo # {} => size' + Len(writer'.data) <= Limit')
  BY <1>5, LimitBound DEF IInv, RingInv, PublishRead, TypeOK, Call, Bytes, Limit
<1> QED
  BY <1>1, <1>2, <1>3, <1>4, <1>6 DEF IInv, RingInv

----------------------------------------------------------------------------
(***************************************************************************)
(* IInv is an invariant, and so are the type invariant and RingInv.        *)
(***************************************************************************)
THEOREM Invariance ==
  ASSUME ProgramOrder
  PROVE  Spec => [](TypeOK /\ RingInv)
<1>1. Init => IInv
  <2> SUFFICES ASSUME Init PROVE IInv
    OBVIOUS
  <2>1. TypeOK
    BY RingAssumption DEF Init, TypeOK, Idle, Call, Bytes, Slots
  <2>2. size = 0
    BY DEF Init, size, calcSize
  <2>3. writer.todo = {} /\ reader.todo = {}
    BY DEF Init, Idle
  <2> QED
    BY <2>1, <2>2, <2>3, LimitBound DEF IInv, RingInv, CallInv
<1>2. IInv /\ [Next]_vars => IInv'
  <2> SUFFICES ASSUME IInv, [Next]_vars PROVE IInv'
    OBVIOUS
  <2>1. ASSUME NEW data \in Chunk, StartWrite(data) PROVE IInv'
    BY <2>1, StartWriteKeeps
  <2>2. ASSUME NEW step \in {"top", "bottom"}, CopyIn(step) PROVE IInv'
    BY <2>2, CopyInKeeps
  <2>3. CASE PublishWrite
    BY <2>3, PublishWriteKeeps
  <2>4. ASSUME NEW maxLen \in ReadLength, StartRead(maxLen) PROVE IInv'
    BY <2>4, StartReadKeeps
  <2>5. ASSUME NEW step \in {"top", "bottom"}, CopyOut(step) PROVE IInv'
    BY <2>5, CopyOutKeeps
  <2>6. CASE PublishRead
    BY <2>6, PublishReadKeeps
  <2>7. CASE UNCHANGED vars
    BY <2>7 DEF vars, IInv, TypeOK, RingInv, CallInv, Copied, StepOf, size, Limit
  <2> QED
    BY <2>1, <2>2, <2>3, <2>4, <2>5, <2>6, <2>7 DEF Next, Write, Read
<1> QED
  BY <1>1, <1>2, PTL DEF Spec, IInv

(***************************************************************************)
(* The indices stay within the array or at its end, and a call in progress *)
(* has a place in the ring and steps left that are its own.                *)
(***************************************************************************)
THEOREM RingTyped ==
  ASSUME ProgramOrder
  PROVE  Spec => []TypeOK
<1>1. TypeOK /\ RingInv => TypeOK
  OBVIOUS
<1> QED
  BY <1>1, Invariance, PTL

(***************************************************************************)
(* The writer fills no slot that a read in progress still may copy: its    *)
(* slots come after all unread ones, and together they do not go around.   *)
(***************************************************************************)
THEOREM CallsNeverMeet ==
  ASSUME ProgramOrder
  PROVE  Spec => []CallsApart
<1>1. IInv => CallsApart
  <2> SUFFICES ASSUME IInv, writer.todo # {}, reader.todo # {},
                      NEW j \in 0 .. Len(writer.data) - 1,
                      NEW k \in 0 .. Len(reader.data) - 1,
                      Slot(writer.at, j) = Slot(reader.at, k)
               PROVE  FALSE
    BY DEF CallsApart, Footprint
  <2>1. /\ writer.at = mWriteIndex /\ reader.at = mReadIndex
        /\ mWriteIndex \in Index /\ mReadIndex \in Index
        /\ size + Len(writer.data) <= Limit
        /\ Len(reader.data) <= size
        /\ Len(writer.data) \in Nat /\ Len(reader.data) \in Nat
    BY DEF IInv, RingInv, CallInv, TypeOK, Call, Bytes, Index
  <2>2. size \in Nat
    BY RoomIs DEF IInv, RingInv
  <2>3. j \in Nat /\ size + j \in 0 .. Capacity - 1 /\ k \in 0 .. Capacity - 1 /\ size + j # k
    BY <2>1, <2>2, LimitBound, RingAssumption
  <2>4. Slot(mWriteIndex, j) = Slot(mReadIndex, size + j)
    BY <2>1, <2>3, SlotAfterUnread, RingAssumption DEF size
  <2> QED
    BY <2>1, <2>3, <2>4, SlotInjective
<1> QED
  BY <1>1, Invariance, PTL DEF IInv

----------------------------------------------------------------------------
\* The unread bytes are a sequence of the length the indices say.
LEMMA UnreadType ==
  IInv => Unread \in Bytes /\ Len(Unread) = size /\ size \in Nat
<1> SUFFICES ASSUME IInv PROVE Unread \in Bytes /\ Len(Unread) = size /\ size \in Nat
  OBVIOUS
<1>1. size \in Nat /\ size < Capacity /\ mReadIndex \in Index
  BY RoomIs, LimitBound, RingAssumption DEF IInv, RingInv, TypeOK, Index
<1>2. \A k \in 1 .. size : Slot(mReadIndex, k - 1) \in Slots
  BY <1>1, SlotType, RingAssumption
<1>3. Unread \in [1 .. size -> Byte \cup {Junk}]
  BY <1>2 DEF Unread, IInv, TypeOK
<1> QED
  BY <1>1, <1>3, BufferType

LEMMA StartWriteRefines ==
  ASSUME IInv, NEW data \in Chunk, StartWrite(data)
  PROVE  Channel!StartWrite
<1>1. Unread' = Unread
  BY DEF StartWrite, Unread, size
<1> QED
  BY <1>1, StartWriteKeeps, UnreadType DEF Channel!StartWrite, StartWrite

LEMMA CopyInRefines ==
  ASSUME IInv, NEW step \in {"top", "bottom"}, CopyIn(step)
  PROVE  Unread' = Unread /\ UNCHANGED got
         /\ writer'.data = writer.data
         /\ ("publish" \in writer'.todo <=> "publish" \in writer.todo)
<1>1. size' = size /\ mReadIndex' = mReadIndex
  BY DEF CopyIn, size
<1>2. Unread' = Unread
  BY <1>1, UnreadUntouched DEF Unread
<1> QED
  BY <1>2 DEF CopyIn, IInv, TypeOK, Call

LEMMA PublishWriteRefines ==
  ASSUME IInv, ProgramOrder, PublishWrite
  PROVE  Channel!EndWrite
<1> DEFINE n == Len(writer.data)
<1>1. Unread \in Bytes /\ Len(Unread) = size /\ writer.data \in Bytes
  BY UnreadType DEF IInv, TypeOK, Call
<1>2. Unread' \in Bytes /\ Len(Unread') = size + n
  <2>1. IInv'
    BY PublishWriteKeeps
  <2>2. IInv' => (Unread \in Bytes /\ Len(Unread) = size /\ size \in Nat)'
    BY UnreadType, PTL
  <2> QED
    BY <2>1, <2>2, PublishWriteEffect DEF Bytes
<1>3. ASSUME NEW k \in 1 .. size + n
      PROVE  Unread'[k] = IF k <= size THEN Unread[k] ELSE writer.data[k - size]
  <2>1. size \in Nat /\ n \in Nat /\ size' = size + n
    BY PublishWriteEffect
  <2>2. Unread'[k] = mBaseMemory[Slot(mReadIndex, k - 1)]
    BY <2>1 DEF PublishWrite, Unread
  <2>3. CASE k <= size
    BY <2>1, <2>2, <2>3 DEF Unread
  <2>4. CASE k > size
    <3>1. k - size \in 1 .. n /\ size + (k - size) - 1 = k - 1
      BY <2>1, <2>4
    <3>2. mBaseMemory[Slot(mReadIndex, size + (k - size) - 1)] = writer.data[k - size]
      BY <3>1, PublishWriteEffect
    <3> QED
      BY <2>1, <2>2, <2>4, <3>1, <3>2
  <2> QED
    BY <2>1, <2>3, <2>4
<1>4. Unread' = Unread \o writer.data
  <2>1. /\ Unread \o writer.data \in Bytes
        /\ Len(Unread \o writer.data) = size + n
        /\ \A k \in 1 .. size + n : (Unread \o writer.data)[k] =
             IF k <= size THEN Unread[k] ELSE writer.data[k - size]
    BY <1>1, ConcatProperties DEF Bytes
  <2> QED
    BY <1>2, <1>3, <2>1, SeqEqual DEF Bytes
<1>5. "publish" \in writer.todo /\ writer'.todo = {} /\ got' = got
  BY PublishWriteEffect DEF PublishWrite, MayRun
<1> QED
  BY <1>4, <1>5 DEF Channel!EndWrite

LEMMA PublishReadRefines ==
  ASSUME IInv, ProgramOrder, PublishRead
  PROVE  Channel!Read
<1> DEFINE n == Len(reader.data)
<1>1. /\ Unread \in Bytes /\ Len(Unread) = size /\ reader.data \in Bytes
      /\ n \in 1 .. size /\ size \in Nat
  BY UnreadType, PublishReadEffect DEF IInv, TypeOK, Call
<1>2. Unread' \in Bytes /\ Len(Unread') = size - n
  <2>1. IInv'
    BY PublishReadKeeps
  <2>2. IInv' => (Unread \in Bytes /\ Len(Unread) = size /\ size \in Nat)'
    BY UnreadType, PTL
  <2> QED
    BY <2>1, <2>2, PublishReadEffect
<1>3. reader.data = SubSeq(Unread, 1, n)
  <2>1. \A k \in 1 .. n : reader.data[k] = Unread[k]
    BY <1>1, PublishReadEffect DEF Unread
  <2>2. /\ SubSeq(Unread, 1, n) \in Bytes
        /\ Len(SubSeq(Unread, 1, n)) = n
        /\ \A k \in 1 .. n : SubSeq(Unread, 1, n)[k] = Unread[k]
    BY <1>1 DEF Bytes
  <2> QED
    BY <1>1, <2>1, <2>2, SeqEqual DEF Bytes
<1>4. Unread' = SubSeq(Unread, n + 1, Len(Unread))
  <2>1. ASSUME NEW k \in 1 .. size - n PROVE Unread'[k] = Unread[n + k]
    <3>1. size' = size - n
      BY PublishReadEffect
    <3>2. k \in 1 .. size' /\ n + k \in 1 .. size
      BY <1>1, <3>1
    <3>3. Unread'[k] = mBaseMemory'[Slot(mReadIndex', k - 1)]
      BY <3>2 DEF Unread
    <3>4. Slot(mReadIndex', k - 1) = Slot(mReadIndex, n + k - 1)
      BY <3>2, PublishReadEffect
    <3>5. Unread[n + k] = mBaseMemory[Slot(mReadIndex, n + k - 1)]
      BY <3>2 DEF Unread
    <3> QED
      BY <3>3, <3>4, <3>5 DEF PublishRead
  <2>2. /\ SubSeq(Unread, n + 1, size) \in Bytes
        /\ Len(SubSeq(Unread, n + 1, size)) = size - n
        /\ \A k \in 1 .. size - n : SubSeq(Unread, n + 1, size)[k] = Unread[n + k]
    BY <1>1 DEF Bytes
  <2> QED
    BY <1>1, <1>2, <2>1, <2>2, SeqEqual DEF Bytes
<1>5. got' = reader.data /\ writer' = writer
  BY PublishReadEffect DEF PublishRead
<1> QED
  BY <1>1, <1>3, <1>4, <1>5 DEF Channel!Read

(***************************************************************************)
(* The ring implements the channel: every step of either call is a step of *)
(* the bounded FIFO, or invisible to its users.                            *)
(***************************************************************************)
THEOREM Refinement ==
  ASSUME ProgramOrder
  PROVE  Spec => RefinesChannel
<1>1. Init => Channel!Init
  <2> SUFFICES ASSUME Init PROVE Channel!Init
    OBVIOUS
  <2>1. size = 0 /\ writer.todo = {} /\ got = << >>
    BY DEF Init, Idle, size, calcSize
  <2>2. Unread = << >>
    BY <2>1 DEF Unread
  <2> QED
    BY <2>1, <2>2 DEF Channel!Init
<1> DEFINE chan == <<IF "publish" \in writer.todo THEN writer.data ELSE << >>, Unread, got>>
<1>2. IInv /\ [Next]_vars => [Channel!Next]_chan
  <2> SUFFICES ASSUME IInv, [Next]_vars PROVE Channel!Next \/ UNCHANGED chan
    OBVIOUS
  <2>1. ASSUME NEW data \in Chunk, StartWrite(data) PROVE Channel!Next
    BY <2>1, StartWriteRefines DEF Channel!Next
  <2>2. ASSUME NEW step \in {"top", "bottom"}, CopyIn(step) PROVE UNCHANGED chan
    BY <2>2, CopyInRefines
  <2>3. CASE PublishWrite
    BY <2>3, PublishWriteRefines DEF Channel!Next
  <2>4. ASSUME NEW maxLen \in ReadLength, StartRead(maxLen) PROVE UNCHANGED chan
    BY <2>4 DEF StartRead, Unread, size
  <2>5. ASSUME NEW step \in {"top", "bottom"}, CopyOut(step) PROVE UNCHANGED chan
    BY <2>5, CopyOutKeeps DEF Unread, size
  <2>6. CASE PublishRead
    BY <2>6, PublishReadRefines DEF Channel!Next
  <2>7. CASE UNCHANGED vars
    BY <2>7 DEF vars, Unread, size
  <2> QED
    BY <2>1, <2>2, <2>3, <2>4, <2>5, <2>6, <2>7 DEF Next, Write, Read
<1> QED
  BY <1>1, <1>2, Invariance, PTL DEF Spec, RefinesChannel, Channel!Spec, IInv

============================================================================
