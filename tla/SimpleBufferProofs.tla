------------------------- MODULE SimpleBufferProofs -------------------------
(***************************************************************************)
(* Proofs about SimpleBuffer, for every size and every sequence of calls.  *)
(* Where things lie does not depend on the order in which memcpy moves     *)
(* overlapping bytes; what the bytes are does.                             *)
(***************************************************************************)
EXTENDS SimpleBuffer, SequenceTheorems, TLAPS

Upwards == CopyOrders = {"ascending"}

\* Lengths that fit the word are what they are.
LEMMA WordIs ==
  ASSUME NEW n \in Nat, n < WordSize
  PROVE  Word(n) = n
  BY SizeAssumption DEF Word

\* A request for n bytes that does not overflow the arithmetic of growBuffer.
Fits(n) == n \in Nat /\ 2 * MaxGrowSize + n < WordSize

LEMMA RequestsFit ==
  /\ \A n \in Request : Fits(n)
  /\ \A data \in Chunk : data \in Seq(Byte) /\ Fits(Len(data))
  BY SizeAssumption DEF Fits

LEMMA SizeIs ==
  ASSUME TypeOK
  PROVE  getSize = mEndLoc - mStartLoc
  BY WordIs, SizeAssumption DEF TypeOK, getSize

LEMMA NewMaxLenIs ==
  ASSUME TypeOK, NEW n, Fits(n)
  PROVE  NewMaxLen(n) = IF 2 * mMaxLen - mEndLoc < n THEN 2 * mMaxLen + n ELSE 2 * mMaxLen
<1>1. /\ mMaxLen \in Nat /\ mEndLoc \in Nat /\ mEndLoc <= mMaxLen /\ mMaxLen <= MaxGrowSize
      /\ n \in Nat /\ 2 * MaxGrowSize + n < WordSize /\ WordSize \in Nat /\ MaxGrowSize \in Nat
  BY SizeAssumption DEF TypeOK, Fits
<1>2. Word(2 * mMaxLen) = 2 * mMaxLen
  BY <1>1, WordIs
<1>3. Word(2 * mMaxLen - mEndLoc) = 2 * mMaxLen - mEndLoc
  BY <1>1, WordIs
<1>4. Word(2 * mMaxLen + n) = 2 * mMaxLen + n
  BY <1>1, WordIs
<1> QED
  BY <1>2, <1>3, <1>4 DEF NewMaxLen

(***************************************************************************)
(* What growBuffer, or leaving the buffer alone, gives for a request of n  *)
(* bytes: a sound layout with the same live bytes, that has the room or is *)
(* untouched.                                                              *)
(***************************************************************************)
Sound(layout) ==
  /\ layout = [mem |-> layout.mem, start |-> layout.start, end |-> layout.end, max |-> layout.max]
  /\ layout.max \in 0 .. MaxGrowSize
  /\ layout.end \in 0 .. layout.max
  /\ layout.start \in 0 .. layout.end
  /\ layout.mem \in [0 .. layout.max - 1 -> Byte \cup {Junk}]

Keeps(layout) ==
  /\ mMaxLen <= layout.max
  /\ layout.end - layout.start = mEndLoc - mStartLoc
  /\ \A i \in 0 .. mEndLoc - mStartLoc - 1 :
       layout.mem[layout.start + i] = mBuffer[mStartLoc + i]

LEMMA HereIsSound ==
  ASSUME TypeOK
  PROVE  Sound(Here) /\ Keeps(Here)
  BY SizeAssumption DEF TypeOK, Here, Sound, Keeps

LEMMA SlideIsSound ==
  ASSUME TypeOK, NEW layout,
         layout = [mem |-> SlideDown(getSize, "ascending"), start |-> 0, end |-> getSize,
                   max |-> mMaxLen]
  PROVE  Sound(layout) /\ Keeps(layout)
<1> DEFINE k == mEndLoc - mStartLoc
<1>1. /\ getSize = k /\ k \in Nat /\ mStartLoc \in Nat /\ mMaxLen \in Nat
      /\ k + mStartLoc <= mMaxLen /\ mMaxLen <= MaxGrowSize
  BY SizeIs, SizeAssumption DEF TypeOK
<1>2. SlideDown(k, "ascending") =
        [i \in 0 .. mMaxLen - 1 |-> IF i < k THEN mBuffer[i + mStartLoc] ELSE mBuffer[i]]
  BY DEF SlideDown, SlideSource
<1>3. \A i \in 0 .. mMaxLen - 1 : i < k => i + mStartLoc \in 0 .. mMaxLen - 1
  BY <1>1
<1>4. SlideDown(k, "ascending") \in [0 .. mMaxLen - 1 -> Byte \cup {Junk}]
  BY <1>2, <1>3 DEF TypeOK
<1>5. \A i \in 0 .. k - 1 : SlideDown(k, "ascending")[0 + i] = mBuffer[mStartLoc + i]
  BY <1>1, <1>2
<1> QED
  BY <1>1, <1>4, <1>5, SizeAssumption DEF Sound, Keeps, TypeOK

\* Whatever the order, every byte that is moved comes from within the allocation.
LEMMA SlideStaysInside ==
  ASSUME TypeOK, mStartLoc > 0, NEW order, NEW layout,
         layout = [mem |-> SlideDown(getSize, order), start |-> 0, end |-> getSize,
                   max |-> mMaxLen]
  PROVE  Sound(layout)
<1> DEFINE k == mEndLoc - mStartLoc
<1>1. /\ getSize = k /\ k \in Nat /\ mStartLoc \in Nat \ {0} /\ mMaxLen \in Nat
      /\ k + mStartLoc <= mMaxLen /\ mMaxLen <= MaxGrowSize
  BY SizeIs, SizeAssumption DEF TypeOK
<1>2. ASSUME NEW i \in 0 .. mMaxLen - 1, i < k
      PROVE  SlideSource(i, k, order) \in 0 .. mMaxLen - 1
  <2>1. i - k \in Int /\ (i - k) % mStartLoc \in 0 .. mStartLoc - 1
    BY <1>1
  <2>2. CASE order = "ascending"
    BY <1>1, <1>2, <2>2 DEF SlideSource
  <2>3. CASE order # "ascending"
    <3>1. SlideSource(i, k, order) = k + ((i - k) % mStartLoc)
      BY <2>3 DEF SlideSource
    <3> QED
      BY <1>1, <2>1, <3>1
  <2> QED
    BY <2>2, <2>3
<1> HIDE DEF k
<1>3. SlideDown(k, order) \in [0 .. mMaxLen - 1 -> Byte \cup {Junk}]
  BY <1>2 DEF SlideDown, TypeOK
<1> QED
  BY <1>1, <1>3, SizeAssumption DEF Sound

LEMMA RelocationIsSound ==
  ASSUME TypeOK, NEW m \in Nat, mMaxLen <= m, m <= MaxGrowSize, NEW layout,
         layout = [mem |-> Relocated(m), start |-> 0, end |-> getSize, max |-> m]
  PROVE  Sound(layout) /\ Keeps(layout)
<1> DEFINE k == mEndLoc - mStartLoc
<1>1. /\ getSize = k /\ k \in Nat /\ mStartLoc \in Nat /\ mMaxLen \in Nat
      /\ k + mStartLoc <= mMaxLen
  BY SizeIs, SizeAssumption DEF TypeOK
<1>2. Relocated(m) = [i \in 0 .. m - 1 |-> IF i < k THEN mBuffer[mStartLoc + i] ELSE Junk]
  BY <1>1 DEF Relocated
<1>3. \A i \in 0 .. m - 1 : i < k => mStartLoc + i \in 0 .. mMaxLen - 1
  BY <1>1
<1>4. Relocated(m) \in [0 .. m - 1 -> Byte \cup {Junk}]
  BY <1>2, <1>3 DEF TypeOK
<1>5. \A i \in 0 .. k - 1 : Relocated(m)[0 + i] = mBuffer[mStartLoc + i]
  BY <1>1, <1>2
<1> QED
  BY <1>1, <1>4, <1>5, SizeAssumption DEF Sound, Keeps

LEMMA AvailableIs ==
  ASSUME NEW layout, Sound(layout)
  PROVE  Available(layout) = layout.max - layout.end /\ Available(layout) \in Nat
<1>1. layout.max - layout.end \in Nat /\ layout.max - layout.end < WordSize
  BY SizeAssumption DEF Sound
<1> QED
  BY <1>1, WordIs DEF Available

LEMMA EnsureRoomIsSound ==
  ASSUME TypeOK, NEW n, Fits(n), NEW layout \in EnsureRoom(n)
  PROVE  /\ Sound(layout) /\ mMaxLen <= layout.max
         /\ n <= mMaxLen - mEndLoc => layout = Here
<1>1. /\ mStartLoc \in Nat /\ mEndLoc \in Nat /\ mMaxLen \in Nat /\ MaxGrowSize \in Nat
      /\ mEndLoc <= mMaxLen /\ mMaxLen <= MaxGrowSize /\ n \in Nat
  BY SizeAssumption DEF TypeOK, Fits
<1>2. Available(Here) = mMaxLen - mEndLoc
  BY HereIsSound, AvailableIs DEF Here
<1>3. CASE layout = Here
  BY <1>1, <1>3, HereIsSound DEF Keeps
<1>4. CASE n > mMaxLen - mEndLoc /\ n < mStartLoc
  <2>1. PICK order \in CopyOrders :
          layout = [mem |-> SlideDown(getSize, order), start |-> 0, end |-> getSize,
                    max |-> mMaxLen]
    BY <1>1, <1>2, <1>4 DEF EnsureRoom, growBuffer
  <2>2. Sound(layout)
    BY <2>1, <1>1, <1>4, SlideStaysInside
  <2> QED
    BY <2>1, <2>2, <1>1, <1>4
<1>5. CASE n > mMaxLen - mEndLoc /\ n >= mStartLoc /\ layout # Here
  <2> DEFINE m == NewMaxLen(n)
  <2>1. m \in Nat /\ mMaxLen <= m
    BY <1>1, NewMaxLenIs
  <2>2. layout = [mem |-> Relocated(m), start |-> 0, end |-> getSize, max |-> m]
        /\ m <= MaxGrowSize
    BY <2>1, <1>1, <1>2, <1>5 DEF EnsureRoom, growBuffer
  <2> QED
    BY <2>1, <2>2, <1>1, <1>5, RelocationIsSound
<1>6. n <= mMaxLen - mEndLoc => layout = Here
  BY <1>1, <1>2 DEF EnsureRoom
<1> QED
  BY <1>1, <1>3, <1>4, <1>5, <1>6

\* The abstract buffer that SimpleBuffer implements.
Q == [content |-> Live, maxLen |-> mMaxLen]

LEMMA LiveType ==
  TypeOK => /\ Live \in Seq(Byte \cup {Junk})
            /\ Len(Live) = mEndLoc - mStartLoc
            /\ mEndLoc - mStartLoc \in Nat
            /\ \A i \in 1 .. mEndLoc - mStartLoc : Live[i] = mBuffer[mStartLoc + i - 1]
<1> SUFFICES ASSUME TypeOK
             PROVE  /\ Live \in Seq(Byte \cup {Junk})
                    /\ Len(Live) = mEndLoc - mStartLoc
                    /\ mEndLoc - mStartLoc \in Nat
                    /\ \A i \in 1 .. mEndLoc - mStartLoc : Live[i] = mBuffer[mStartLoc + i - 1]
  OBVIOUS
<1>1. mEndLoc - mStartLoc \in Nat
  BY SizeAssumption DEF TypeOK
<1>2. \A i \in 1 .. mEndLoc - mStartLoc : mBuffer[mStartLoc + i - 1] \in Byte \cup {Junk}
  BY SizeAssumption DEF TypeOK
<1>3. Live \in [1 .. mEndLoc - mStartLoc -> Byte \cup {Junk}]
  BY <1>2 DEF Live
<1> QED
  BY <1>1, <1>3 DEF Live

LEMMA EnsureRoomGives ==
  ASSUME TypeOK, Upwards, NEW n, Fits(n), NEW layout \in EnsureRoom(n)
  PROVE  /\ Sound(layout) /\ Keeps(layout)
         /\ n <= mMaxLen - mEndLoc => layout = Here
         /\ n <= Available(layout) => layout.max \in Contract!RoomLengths(Q, n)
         /\ n > Available(layout) => layout = Here /\ Contract!MayRefuse(Q, n)
<1> DEFINE k == mEndLoc - mStartLoc
<1>1. /\ mStartLoc \in Nat /\ mEndLoc \in Nat /\ mMaxLen \in Nat /\ MaxGrowSize \in Nat
      /\ mStartLoc <= mEndLoc /\ mEndLoc <= mMaxLen /\ mMaxLen <= MaxGrowSize
      /\ n \in Nat
  BY SizeAssumption DEF TypeOK, Fits
<1>2. Len(Q.content) = k /\ Q.maxLen = mMaxLen
  BY LiveType DEF Q
<1>3. Available(Here) = mMaxLen - mEndLoc
  BY HereIsSound, AvailableIs DEF Here
<1>4. CASE n <= mMaxLen - mEndLoc
  <2>1. layout = Here
    BY <1>1, <1>3, <1>4 DEF EnsureRoom
  <2>2. layout.max \in Contract!RoomLengths(Q, n)
    BY <2>1, <1>1, <1>2, <1>4 DEF Contract!RoomLengths, Here
  <2> QED
    BY <2>1, <2>2, <1>1, <1>3, <1>4, HereIsSound
<1>5. CASE n > mMaxLen - mEndLoc /\ n < mStartLoc
  <2>1. layout = [mem |-> SlideDown(getSize, "ascending"), start |-> 0, end |-> getSize,
                  max |-> mMaxLen]
    BY <1>1, <1>3, <1>5 DEF EnsureRoom, growBuffer, Upwards
  <2>2. Sound(layout) /\ Keeps(layout)
    BY <2>1, SlideIsSound
  <2>3. layout.max = mMaxLen /\ layout.end = k
    BY <2>1, SizeIs
  <2>4. layout.max \in Contract!RoomLengths(Q, n)
    BY <2>3, <1>1, <1>2, <1>5 DEF Contract!RoomLengths
  <2>5. n <= Available(layout)
    BY <2>2, <2>3, <1>1, <1>5, AvailableIs
  <2> QED
    BY <2>2, <2>4, <2>5, <1>1, <1>5, AvailableIs
<1>6. CASE n > mMaxLen - mEndLoc /\ n >= mStartLoc
  <2> DEFINE m == NewMaxLen(n)
  <2>1. /\ m = IF 2 * mMaxLen - mEndLoc < n THEN 2 * mMaxLen + n ELSE 2 * mMaxLen
        /\ m \in Nat /\ mMaxLen <= m /\ k + n <= m
    BY <1>1, NewMaxLenIs
  <2>2. m \in Contract!GrowthTargets(Q, n)
    BY <2>1, <1>1, <1>2, <1>6 DEF Contract!GrowthTargets, Contract!MayReallocate
  <2>3. CASE m > MaxGrowSize
    <3>1. layout = Here
      BY <2>3, <1>1, <1>3, <1>6 DEF EnsureRoom, growBuffer
    <3> QED
      BY <3>1, <2>2, <2>3, <1>1, <1>3, <1>6, HereIsSound DEF Contract!MayRefuse
  <2>4. CASE m <= MaxGrowSize
    <3>1. layout = [mem |-> Relocated(m), start |-> 0, end |-> getSize, max |-> m]
      BY <2>1, <2>4, <1>1, <1>3, <1>6 DEF EnsureRoom, growBuffer
    <3>2. Sound(layout) /\ Keeps(layout)
      BY <3>1, <2>1, <2>4, RelocationIsSound
    <3>3. layout.max = m /\ layout.end = k
      BY <3>1, SizeIs
    <3>4. n <= Available(layout)
      BY <3>2, <3>3, <2>1, <1>1, AvailableIs
    <3>5. layout.max \in Contract!RoomLengths(Q, n)
      BY <3>3, <2>2, <2>4 DEF Contract!RoomLengths
    <3> QED
      BY <3>2, <3>4, <3>5, <1>1, <1>6, AvailableIs
  <2> QED
    BY <2>1, <2>3, <2>4, <1>1
<1> QED
  BY <1>1, <1>4, <1>5, <1>6

----------------------------------------------------------------------------
\* The part of TypeOK that a layout determines.
LEMMA InstallType ==
  ASSUME TypeOK, NEW layout, Sound(layout), mMaxLen <= layout.max, Install(layout),
         lent' \in 0 .. MaxGrowSize
  PROVE  TypeOK'
  BY SizeAssumption DEF Sound, Install, TypeOK

\* Installing a layout with the same live bytes does not change the content.
LEMMA InstallKeeps ==
  ASSUME TypeOK, NEW layout, Sound(layout), Keeps(layout), Install(layout)
  PROVE  Live' = Live
<1>1. /\ mEndLoc' - mStartLoc' = mEndLoc - mStartLoc
      /\ mEndLoc - mStartLoc \in Nat
      /\ mBuffer' = layout.mem /\ mStartLoc' = layout.start
      /\ layout.start \in Nat /\ mStartLoc \in Nat
  BY SizeAssumption DEF Install, Keeps, Sound, TypeOK
<1>2. ASSUME NEW i \in 1 .. mEndLoc - mStartLoc
      PROVE  mBuffer'[mStartLoc' + i - 1] = mBuffer[mStartLoc + i - 1]
  <2>1. i - 1 \in 0 .. mEndLoc - mStartLoc - 1
    BY <1>1
  <2>2. layout.mem[layout.start + (i - 1)] = mBuffer[mStartLoc + (i - 1)]
    BY <2>1 DEF Keeps
  <2>3. layout.start + (i - 1) = layout.start + i - 1 /\ mStartLoc + (i - 1) = mStartLoc + i - 1
    BY <1>1
  <2> QED
    BY <2>2, <2>3, <1>1
<1> QED
  BY <1>1, <1>2 DEF Live

\* Appending to a layout with the room adds exactly the data.
Appended(layout, data, after) ==
  /\ Sound(after)
  /\ after.max = layout.max /\ after.start = layout.start
  /\ after.end = layout.end + Len(data)
  /\ \A i \in 0 .. layout.end - 1 : after.mem[i] = layout.mem[i]
  /\ \A i \in 1 .. Len(data) : after.mem[layout.end + i - 1] = data[i]

LEMMA AppendIsSound ==
  ASSUME NEW layout, Sound(layout), NEW data \in Seq(Byte), Len(data) <= layout.max - layout.end
  PROVE  Appended(layout, data, Append_(layout, data))
<1>0. PICK after : after = Append_(layout, data)
  OBVIOUS
<1> DEFINE n == Len(data)
           mem == [i \in 0 .. layout.max - 1 |->
                     IF i \in layout.end .. layout.end + n - 1
                       THEN data[i - layout.end + 1] ELSE layout.mem[i]]
<1>1. /\ layout.max \in Nat /\ layout.end \in Nat /\ layout.start \in Nat /\ n \in Nat
      /\ layout.start <= layout.end /\ layout.end + n <= layout.max /\ layout.max <= MaxGrowSize
      /\ DOMAIN layout.mem = 0 .. layout.max - 1
  BY SizeAssumption DEF Sound
<1>2. after = [mem |-> mem, start |-> layout.start, end |-> layout.end + n, max |-> layout.max]
  <2>1. after = [layout EXCEPT !.mem = mem, !.end = layout.end + n]
    BY <1>0, <1>1 DEF Append_, Sound
  <2>2. layout = [mem |-> layout.mem, start |-> layout.start, end |-> layout.end,
                  max |-> layout.max]
    BY DEF Sound
  <2> HIDE DEF mem, n
  <2> QED
    BY <2>1, <2>2
<1>3. \A i \in layout.end .. layout.end + n - 1 : i - layout.end + 1 \in 1 .. n
  BY <1>1
<1>4. mem \in [0 .. layout.max - 1 -> Byte \cup {Junk}]
  BY <1>3 DEF Sound
<1>5. \A i \in 0 .. layout.end - 1 : mem[i] = layout.mem[i]
  BY <1>1
<1>6. ASSUME NEW i \in 1 .. n PROVE mem[layout.end + i - 1] = data[i]
  <2>1. /\ layout.end + i - 1 \in 0 .. layout.max - 1
        /\ layout.end + i - 1 \in layout.end .. layout.end + n - 1
        /\ (layout.end + i - 1) - layout.end + 1 = i
    BY <1>1
  <2> QED
    BY <2>1
<1> HIDE DEF mem
<1>7. Sound(after)
  BY <1>1, <1>2, <1>4, SizeAssumption DEF Sound
<1>8. Appended(layout, data, after)
  BY <1>2, <1>5, <1>6, <1>7 DEF Appended
<1> QED
  BY <1>0, <1>8

(***************************************************************************)
(* Where the bytes lie after the calls that make room.                     *)
(***************************************************************************)
LEMMA AddLays ==
  ASSUME TypeOK, NEW data \in Chunk, NEW layout \in EnsureRoom(Len(data)),
         IF Len(data) <= Available(layout) THEN Install(Append_(layout, data))
                                           ELSE Install(layout),
         lent' = 0
  PROVE  /\ TypeOK'
         /\ Len(data) <= mMaxLen - mEndLoc =>
              mStartLoc' = mStartLoc /\ mMaxLen' = mMaxLen /\ mEndLoc' = mEndLoc + Len(data)
<1> DEFINE n == Len(data)
<1>1. data \in Seq(Byte) /\ Fits(n) /\ n \in Nat
  BY RequestsFit DEF Fits
<1>2. /\ Sound(layout) /\ mMaxLen <= layout.max
      /\ n <= mMaxLen - mEndLoc => layout = Here
  BY <1>1, EnsureRoomIsSound
<1>3. Available(layout) = layout.max - layout.end
  BY <1>2, AvailableIs
<1>4. lent' \in 0 .. MaxGrowSize
  BY SizeAssumption
<1>5. CASE n <= Available(layout)
  <2>1. PICK after : after = Append_(layout, data)
    OBVIOUS
  <2>2. Appended(layout, data, after)
    BY <1>1, <1>2, <1>3, <1>5, <2>1, AppendIsSound
  <2>3. /\ Sound(after) /\ after.max = layout.max /\ after.start = layout.start
        /\ after.end = layout.end + n
    BY <2>2 DEF Appended
  <2>4. Install(after)
    BY <1>5, <2>1
  <2>5. TypeOK'
    BY <1>2, <1>4, <2>3, <2>4, InstallType
  <2> QED
    BY <1>2, <2>3, <2>4, <2>5 DEF Install, Here
<1>6. CASE ~(n <= Available(layout))
  <2>1. Install(layout)
    BY <1>6
  <2>2. TypeOK'
    BY <1>2, <1>4, <2>1, InstallType
  <2>3. ~(n <= mMaxLen - mEndLoc)
    BY <1>2, <1>3, <1>6 DEF Here
  <2> QED
    BY <2>2, <2>3
<1> QED
  BY <1>5, <1>6

LEMMA ConfirmLays ==
  ASSUME TypeOK, NEW n \in Request, confirmCapacity(n)
  PROVE  TypeOK' /\ LentRoomIsThere'
<1>1. Fits(n) /\ n \in 0 .. MaxGrowSize
  BY RequestsFit, SizeAssumption
<1>2. PICK layout \in EnsureRoom(n) :
        /\ Install(layout)
        /\ lent' = IF n <= Available(layout) THEN n ELSE 0
  BY DEF confirmCapacity
<1>3. Sound(layout) /\ mMaxLen <= layout.max
  BY <1>1, EnsureRoomIsSound
<1>4. Available(layout) = layout.max - layout.end /\ Available(layout) \in Nat
  BY <1>3, AvailableIs
<1>5. TypeOK'
  BY <1>1, <1>2, <1>3, InstallType, SizeAssumption
<1>6. LentRoomIsThere'
  BY <1>1, <1>2, <1>4, SizeAssumption DEF Install, LentRoomIsThere
<1> QED
  BY <1>5, <1>6

LEMMA AppendAdds ==
  ASSUME TypeOK, NEW layout, Sound(layout), Keeps(layout), NEW data \in Seq(Byte),
         Len(data) <= layout.max - layout.end, Install(Append_(layout, data)),
         lent' \in 0 .. MaxGrowSize
  PROVE  /\ TypeOK'
         /\ mMaxLen' = layout.max
         /\ mStartLoc' = layout.start /\ mEndLoc' = layout.end + Len(data)
         /\ Live' = Live \o data
<1>0. PICK after : after = Append_(layout, data)
  OBVIOUS
<1>1. /\ Sound(after)
      /\ after.max = layout.max /\ after.start = layout.start
      /\ after.end = layout.end + Len(data)
      /\ \A i \in 0 .. layout.end - 1 : after.mem[i] = layout.mem[i]
      /\ \A i \in 1 .. Len(data) : after.mem[layout.end + i - 1] = data[i]
  <2>1. Appended(layout, data, after)
    BY <1>0, AppendIsSound
  <2> QED
    BY <2>1 DEF Appended
<1> DEFINE n == Len(data)
           k == mEndLoc - mStartLoc
<1>2. TypeOK'
  BY <1>0, <1>1, InstallType DEF Keeps
<1>3. /\ mMaxLen' = layout.max /\ mStartLoc' = layout.start /\ mEndLoc' = layout.end + n
      /\ mBuffer' = after.mem
  BY <1>0, <1>1 DEF Install
<1>4. /\ layout.start \in Nat /\ layout.end \in Nat /\ k \in Nat /\ n \in Nat
      /\ layout.end - layout.start = k /\ mStartLoc \in Nat
  <2>1. layout.start \in Nat /\ layout.end \in Nat
    BY SizeAssumption DEF Sound
  <2>2. k \in Nat /\ mStartLoc \in Nat
    BY SizeAssumption DEF TypeOK
  <2> QED
    BY <2>1, <2>2 DEF Keeps
<1>5. /\ Live' \in Seq(Byte \cup {Junk})
      /\ Len(Live') = k + n
      /\ \A i \in 1 .. k + n : Live'[i] = mBuffer'[mStartLoc' + i - 1]
  <2>1. (TypeOK => /\ Live \in Seq(Byte \cup {Junk})
                   /\ Len(Live) = mEndLoc - mStartLoc
                   /\ mEndLoc - mStartLoc \in Nat
                   /\ \A i \in 1 .. mEndLoc - mStartLoc :
                        Live[i] = mBuffer[mStartLoc + i - 1])'
    BY LiveType, PTL
  <2>2. mEndLoc' - mStartLoc' = k + n
    BY <1>3, <1>4
  <2> QED
    BY <1>2, <2>1, <2>2
<1>6. ASSUME NEW i \in 1 .. k + n
      PROVE  Live'[i] = IF i <= k THEN Live[i] ELSE data[i - k]
  <2>1. CASE i <= k
    <3>1. layout.start + i - 1 \in 0 .. layout.end - 1 /\ i - 1 \in 0 .. k - 1
          /\ layout.start + i - 1 = layout.start + (i - 1)
          /\ mStartLoc + i - 1 = mStartLoc + (i - 1)
      BY <1>4, <2>1
    <3>2. layout.mem[layout.start + (i - 1)] = mBuffer[mStartLoc + (i - 1)]
      BY <3>1 DEF Keeps
    <3>3. Live[i] = mBuffer[mStartLoc + i - 1]
      BY <2>1, <1>4, LiveType
    <3> QED
      BY <3>1, <3>2, <3>3, <1>1, <1>3, <1>5, <2>1
  <2>2. CASE i > k
    <3>1. i - k \in 1 .. n /\ layout.start + i - 1 = layout.end + (i - k) - 1
      BY <1>4, <2>2
    <3>2. after.mem[layout.end + (i - k) - 1] = data[i - k]
      BY <3>1, <1>1
    <3>3. Live'[i] = after.mem[layout.start + i - 1]
      BY <1>3, <1>5
    <3>4. ~(i <= k)
      BY <1>4, <2>2
    <3> HIDE DEF k, n
    <3> QED
      BY <3>1, <3>2, <3>3, <3>4
  <2> HIDE DEF k, n
  <2>3. i <= k \/ i > k
    BY <1>4
  <2> QED
    BY <2>1, <2>2, <2>3, <1>4
<1>7. Live' = Live \o data
  <2>1. data \in Seq(Byte \cup {Junk}) /\ Live \in Seq(Byte \cup {Junk}) /\ Len(Live) = k
    BY LiveType
  <2> HIDE DEF k
  <2>2. /\ Live \o data \in Seq(Byte \cup {Junk})
        /\ Len(Live \o data) = k + n
        /\ \A i \in 1 .. k + n : (Live \o data)[i] = IF i <= k THEN Live[i] ELSE data[i - k]
    BY <2>1, ConcatProperties
  <2> QED
    BY <1>5, <1>6, <2>2, SeqEqual
<1> QED
  BY <1>2, <1>3, <1>7

----------------------------------------------------------------------------
(***************************************************************************)
(* Each call keeps TypeOK and is a call of the contract.                   *)
(***************************************************************************)
LEMMA QAfter ==
  ASSUME NEW content, NEW len, Live' = content, mMaxLen' = len
  PROVE  Q' = [content |-> content, maxLen |-> len]
  BY DEF Q

LEMMA AddKeeps ==
  ASSUME TypeOK, Upwards, NEW data \in Chunk, NEW layout \in EnsureRoom(Len(data)),
         IF Len(data) <= Available(layout) THEN Install(Append_(layout, data))
                                           ELSE Install(layout),
         lent' = 0
  PROVE  /\ TypeOK'
         /\ \E o \in Contract!Add(Q, data) : Q' = o.buf
<1> DEFINE n == Len(data)
<1>1. data \in Seq(Byte) /\ Fits(n) /\ n \in Nat
  BY RequestsFit DEF Fits
<1>2. /\ Sound(layout) /\ Keeps(layout)
      /\ n <= Available(layout) => layout.max \in Contract!RoomLengths(Q, n)
      /\ n > Available(layout) => layout = Here /\ Contract!MayRefuse(Q, n)
  BY <1>1, EnsureRoomGives
<1>3. Available(layout) = layout.max - layout.end /\ Available(layout) \in Nat
  BY <1>2, AvailableIs
<1>4. lent' \in 0 .. MaxGrowSize
  BY SizeAssumption
<1>5. CASE n <= Available(layout)
  <2>1. TypeOK' /\ mMaxLen' = layout.max /\ Live' = Live \o data
    BY <1>1, <1>2, <1>3, <1>4, <1>5, AppendAdds
  <2> DEFINE o == [buf |-> [content |-> Q.content \o data, maxLen |-> layout.max], ok |-> TRUE]
  <2>2. o \in Contract!Add(Q, data)
    BY <1>2, <1>5 DEF Contract!Add
  <2>3. Q' = o.buf
    BY <2>1, QAfter DEF Q
  <2> QED
    BY <2>1, <2>2, <2>3
<1>6. CASE n > Available(layout)
  <2>1. layout = Here /\ Contract!MayRefuse(Q, n) /\ Install(layout)
    BY <1>1, <1>2, <1>3, <1>6
  <2>2. TypeOK'
    BY <2>1, <1>2, <1>4, InstallType DEF Keeps
  <2>3. Live' = Live /\ mMaxLen' = mMaxLen
    BY <2>1, <1>2, InstallKeeps DEF Install, Here
  <2>4. Q' = Q
    BY <2>3, QAfter DEF Q
  <2>5. [buf |-> Q, ok |-> FALSE] \in Contract!Add(Q, data)
    BY <2>1 DEF Contract!Add, Contract!Refused
  <2> QED
    BY <2>2, <2>4, <2>5
<1> QED
  BY <1>1, <1>3, <1>5, <1>6

LEMMA ConfirmKeeps ==
  ASSUME TypeOK, Upwards, NEW n \in Request, confirmCapacity(n)
  PROVE  \E o \in Contract!Reserve(Q, n) : Q' = o.buf
<1>1. Fits(n) /\ n \in 0 .. MaxGrowSize
  BY RequestsFit, SizeAssumption
<1>2. PICK layout \in EnsureRoom(n) :
        /\ Install(layout)
        /\ lent' = IF n <= Available(layout) THEN n ELSE 0
  BY DEF confirmCapacity
<1>3. /\ Sound(layout) /\ Keeps(layout)
      /\ n <= Available(layout) => layout.max \in Contract!RoomLengths(Q, n)
      /\ n > Available(layout) => layout = Here /\ Contract!MayRefuse(Q, n)
  BY <1>1, EnsureRoomGives
<1>4. Live' = Live /\ mMaxLen' = layout.max
  BY <1>2, <1>3, InstallKeeps DEF Install
<1>5. Q' = [Q EXCEPT !.maxLen = layout.max]
  BY <1>4, QAfter DEF Q
<1>6. Available(layout) \in Nat /\ n \in Nat
  BY <1>1, <1>3, AvailableIs DEF Fits
<1>7. CASE n <= Available(layout)
  <2>1. [buf |-> [Q EXCEPT !.maxLen = layout.max], ok |-> TRUE] \in Contract!Reserve(Q, n)
    BY <1>3, <1>7 DEF Contract!Reserve
  <2> QED
    BY <2>1, <1>5
<1>8. CASE n > Available(layout)
  <2>1. layout.max = mMaxLen /\ Contract!MayRefuse(Q, n)
    BY <1>3, <1>8 DEF Here
  <2>2. Q' = Q
    BY <2>1, <1>5 DEF Q
  <2>3. [buf |-> Q, ok |-> FALSE] \in Contract!Reserve(Q, n)
    BY <2>1 DEF Contract!Reserve, Contract!Refused
  <2> QED
    BY <2>2, <2>3
<1> QED
  BY <1>1, <1>7, <1>8, <1>6

LEMMA ConsumeKeeps ==
  ASSUME TypeOK, NEW n \in 0 .. MaxGrowSize, consume(n)
  PROVE  TypeOK' /\ n \in 0 .. Len(Live) /\ Q' = Contract!Take(Q, n)
<1> DEFINE k == mEndLoc - mStartLoc
<1>1. /\ Live \in Seq(Byte \cup {Junk}) /\ Len(Live) = k /\ k \in Nat
      /\ \A i \in 1 .. k : Live[i] = mBuffer[mStartLoc + i - 1]
      /\ n \in 0 .. k /\ mStartLoc \in Nat /\ mEndLoc \in Nat
  BY LiveType, SizeIs, SizeAssumption DEF consume, TypeOK
<1>2. TypeOK'
  BY <1>1, SizeAssumption DEF consume, TypeOK
<1>3. mEndLoc' - mStartLoc' = k - n /\ mBuffer' = mBuffer /\ mMaxLen' = mMaxLen
  BY <1>1 DEF consume
<1>4. /\ Live' \in Seq(Byte \cup {Junk})
      /\ Len(Live') = k - n
      /\ \A i \in 1 .. k - n : Live'[i] = mBuffer[mStartLoc' + i - 1]
  <2>1. (TypeOK => /\ Live \in Seq(Byte \cup {Junk})
                   /\ Len(Live) = mEndLoc - mStartLoc
                   /\ mEndLoc - mStartLoc \in Nat
                   /\ \A i \in 1 .. mEndLoc - mStartLoc :
                        Live[i] = mBuffer[mStartLoc + i - 1])'
    BY LiveType, PTL
  <2> QED
    BY <1>2, <1>3, <2>1
<1>5. ASSUME NEW i \in 1 .. k - n PROVE Live'[i] = Live[n + i]
  <2>1. mStartLoc' = mStartLoc + n
    BY <1>1, <1>5 DEF consume
  <2>2. n + i \in 1 .. k /\ mStartLoc' + i - 1 = mStartLoc + (n + i) - 1
    BY <1>1, <2>1
  <2> QED
    BY <2>2, <1>1, <1>4
<1>6. Live' = SubSeq(Live, n + 1, Len(Live))
  <2> HIDE DEF k
  <2>1. /\ SubSeq(Live, n + 1, k) \in Seq(Byte \cup {Junk})
        /\ Len(SubSeq(Live, n + 1, k)) = k - n
        /\ \A i \in 1 .. k - n : SubSeq(Live, n + 1, k)[i] = Live[n + i]
    BY <1>1
  <2> QED
    BY <1>1, <1>4, <1>5, <2>1, SeqEqual
<1>7. Q' = Contract!Take(Q, n)
  BY <1>3, <1>6, QAfter DEF Q, Contract!Take
<1> QED
  BY <1>1, <1>2, <1>7

LEMMA ClearKeeps ==
  ASSUME TypeOK, clear
  PROVE  TypeOK' /\ Q' = Contract!Fresh(Q.maxLen)
<1>1. TypeOK'
  BY SizeAssumption DEF clear, TypeOK
<1>2. Live' = << >> /\ mMaxLen' = mMaxLen
  BY DEF clear, Live
<1> QED
  BY <1>1, <1>2, QAfter DEF Q, Contract!Fresh

LEMMA ResetKeeps ==
  ASSUME TypeOK, NEW n \in Request, reset(n)
  PROVE  TypeOK' /\ Q' = Contract!Fresh(n)
<1>1. TypeOK'
  BY SizeAssumption DEF reset, TypeOK, Malloc
<1>2. Live' = << >> /\ mMaxLen' = n
  BY DEF reset, Live
<1> QED
  BY <1>1, <1>2, QAfter DEF Contract!Fresh

LEMMA ShrinkKeeps ==
  ASSUME TypeOK, shrinkBuffer
  PROVE  /\ TypeOK'
         /\ Len(Live') = Len(Live)
         /\ mMaxLen' \in Len(Live) .. mMaxLen
<1> DEFINE k == mEndLoc - mStartLoc
           m == IF getSize > mDefaultSize THEN getSize ELSE mDefaultSize
<1>1. /\ getSize = k /\ k \in Nat /\ Len(Live) = k
      /\ mDefaultSize \in Nat /\ mDefaultSize <= mMaxLen /\ k <= mMaxLen
      /\ mMaxLen \in Nat /\ mMaxLen <= MaxGrowSize
  BY SizeIs, LiveType, SizeAssumption DEF TypeOK
<1>2. m \in k .. mMaxLen /\ mDefaultSize <= m
  BY <1>1
<1>3. /\ mStartLoc' = 0 /\ mEndLoc' = k /\ mMaxLen' = m /\ lent' = 0
      /\ mDefaultSize' = mDefaultSize
      /\ mBuffer' = [i \in 0 .. m - 1 |-> mBuffer[i]]
  BY <1>1 DEF shrinkBuffer
<1> HIDE DEF m, k
<1>4. mBuffer' \in [0 .. m - 1 -> Byte \cup {Junk}]
  BY <1>1, <1>2, <1>3 DEF TypeOK
<1>5. TypeOK'
  BY <1>1, <1>2, <1>3, <1>4, SizeAssumption DEF TypeOK
<1>6. Len(Live') = k
  <2>1. (TypeOK => /\ Live \in Seq(Byte \cup {Junk})
                   /\ Len(Live) = mEndLoc - mStartLoc
                   /\ mEndLoc - mStartLoc \in Nat
                   /\ \A i \in 1 .. mEndLoc - mStartLoc :
                        Live[i] = mBuffer[mStartLoc + i - 1])'
    BY LiveType, PTL
  <2> QED
    BY <2>1, <1>1, <1>3, <1>5
<1> QED
  BY <1>1, <1>2, <1>3, <1>5, <1>6

----------------------------------------------------------------------------
IInv == TypeOK /\ LentRoomIsThere

\* With nothing lent, LentRoomIsThere is part of TypeOK.
LEMMA NothingLent ==
  ASSUME TypeOK', lent' = 0
  PROVE  LentRoomIsThere'
<1>1. mMaxLen' \in Int /\ mEndLoc' \in Int /\ mEndLoc' <= mMaxLen'
  BY SizeAssumption DEF TypeOK
<1>2. \A e, m \in Int : e <= m => 0 <= m - e
  OBVIOUS
<1>3. 0 <= mMaxLen' - mEndLoc'
  BY <1>1, <1>2, Zenon
<1> QED
  BY <1>3 DEF LentRoomIsThere

(***************************************************************************)
(* The layout stays sound, and a pointer that confirmCapacity lent stays   *)
(* good for the capacity asked for until the next call.                    *)
(***************************************************************************)
THEOREM Invariance == Spec => [](TypeOK /\ LentRoomIsThere)
<1>1. Init => IInv
  BY SizeAssumption DEF Init, IInv, TypeOK, LentRoomIsThere, Malloc
<1>2. IInv /\ [Next]_vars => IInv'
  <2> SUFFICES ASSUME IInv, [Next]_vars PROVE TypeOK' /\ LentRoomIsThere'
    BY DEF IInv
  <2> USE DEF IInv
  <2>1. ASSUME NEW data \in Chunk, addBuffer(data) PROVE TypeOK' /\ LentRoomIsThere'
    BY <2>1, AddLays, NothingLent DEF addBuffer
  <2>2. ASSUME NEW n \in Request, confirmCapacity(n) PROVE TypeOK' /\ LentRoomIsThere'
    BY <2>2, ConfirmLays
  <2>3. ASSUME NEW data \in Chunk, addInPlace(data) PROVE TypeOK' /\ LentRoomIsThere'
    BY <2>3, AddLays, NothingLent DEF addInPlace
  <2>4. ASSUME NEW n \in 0 .. MaxGrowSize, consume(n) PROVE TypeOK' /\ LentRoomIsThere'
    BY <2>4, ConsumeKeeps, NothingLent DEF consume
  <2>5. CASE clear
    BY <2>5, ClearKeeps, NothingLent DEF clear
  <2>6. ASSUME NEW n \in Request, reset(n) PROVE TypeOK' /\ LentRoomIsThere'
    BY <2>6, ResetKeeps, NothingLent DEF reset
  <2>7. CASE shrinkBuffer
    BY <2>7, ShrinkKeeps, NothingLent DEF shrinkBuffer
  <2>8. CASE UNCHANGED vars
    BY <2>8 DEF vars, TypeOK, LentRoomIsThere
  <2> QED
    BY <2>1, <2>2, <2>3, <2>4, <2>5, <2>6, <2>7, <2>8 DEF Next
<1> QED
  BY <1>1, <1>2, PTL DEF Spec, IInv

(***************************************************************************)
(* The two offsets stay in order and within what was allocated, and what   *)
(* was allocated within the limit that the buffer was created with.        *)
(***************************************************************************)
THEOREM BufferTyped == Spec => []TypeOK
<1>1. TypeOK /\ LentRoomIsThere => TypeOK
  OBVIOUS
<1> QED
  BY <1>1, Invariance, PTL

(***************************************************************************)
(* Adding bytes in place never moves what recv wrote: the room confirmed   *)
(* for them is still there, so addBuffer only advances the end.            *)
(***************************************************************************)
THEOREM InPlace == Spec => InPlaceAddStays
<1>1. IInv => \A data \in Chunk : addInPlace(data) =>
                mStartLoc' = mStartLoc /\ mMaxLen' = mMaxLen /\ mEndLoc' = mEndLoc + Len(data)
  <2> SUFFICES ASSUME IInv, NEW data \in Chunk, addInPlace(data)
               PROVE  mStartLoc' = mStartLoc /\ mMaxLen' = mMaxLen
                        /\ mEndLoc' = mEndLoc + Len(data)
    OBVIOUS
  <2>1. Len(data) \in Nat /\ Len(data) <= mMaxLen - mEndLoc
    BY RequestsFit, SizeAssumption DEF addInPlace, IInv, LentRoomIsThere, TypeOK
  <2> QED
    BY <2>1, AddLays DEF addInPlace, IInv
<1> QED
  BY <1>1, Invariance, PTL DEF InPlaceAddStays, IInv

(***************************************************************************)
(* SimpleBuffer implements its contract: slides, reallocations and refused *)
(* requests never lose, add or reorder a byte.                             *)
(***************************************************************************)
THEOREM Refinement ==
  ASSUME Upwards
  PROVE  Spec => RefinesByteQueue
<1>1. Init => Contract!Init
  <2> SUFFICES ASSUME Init PROVE Contract!Init
    OBVIOUS
  <2>1. Live = << >> /\ mMaxLen = DefaultSize
    BY DEF Init, Live
  <2> QED
    BY <2>1 DEF Contract!Init, Contract!Fresh
<1>2. IInv /\ [Next]_vars => [Contract!Next]_Q
  <2> SUFFICES ASSUME IInv, [Next]_vars PROVE Contract!Next \/ Q' = Q
    OBVIOUS
  <2> USE DEF IInv
  <2>1. ASSUME NEW data \in Chunk, addBuffer(data) \/ addInPlace(data) PROVE Contract!AddBytes
    <3>1. \E o \in Contract!Add(Q, data) : Q' = o.buf
      BY <2>1, AddKeeps DEF addBuffer, addInPlace
    <3> QED
      BY <3>1 DEF Contract!AddBytes, Q
  <2>2. ASSUME NEW n \in Request, confirmCapacity(n) PROVE Contract!MakeRoom
    <3>1. \E o \in Contract!Reserve(Q, n) : Q' = o.buf
      BY <2>2, ConfirmKeeps
    <3> QED
      BY <3>1 DEF Contract!MakeRoom, Q
  <2>3. ASSUME NEW n \in 0 .. MaxGrowSize, consume(n) PROVE Contract!TakeBytes
    BY <2>3, ConsumeKeeps DEF Contract!TakeBytes, Q
  <2>4. CASE clear
    BY <2>4, ClearKeeps DEF Contract!Next, Contract!Discard, Q
  <2>5. ASSUME NEW n \in Request, reset(n) PROVE Contract!Restart
    BY <2>5, ResetKeeps DEF Contract!Restart, Q
  <2>6. CASE shrinkBuffer
    BY <2>6, ShrinkKeeps DEF Contract!Next, Contract!Shrink, Q
  <2>7. CASE UNCHANGED vars
    BY <2>7 DEF vars, Q, Live
  <2> QED
    BY <2>1, <2>2, <2>3, <2>4, <2>5, <2>6, <2>7 DEF Next, Contract!Next
<1> QED
  BY <1>1, <1>2, Invariance, PTL DEF Spec, RefinesByteQueue, Contract!Spec, IInv, Q

=============================================================================
