--------------------------- MODULE SequenceLemmas ---------------------------
(***************************************************************************)
(* What the proofs about streams keep needing of sequences: a stream is    *)
(* cut in two, its first part goes, something is put at its end.           *)
(***************************************************************************)
EXTENDS SequenceTheorems, WellFoundedInduction, TLAPS

\* A sequence cut after its first n elements: how long the parts are.
LEMMA PartsType ==
  ASSUME NEW S, NEW s \in Seq(S), NEW n \in 0 .. Len(s)
  PROVE  /\ SubSeq(s, 1, n) \in Seq(S)
         /\ SubSeq(s, n + 1, Len(s)) \in Seq(S)
         /\ Len(SubSeq(s, 1, n)) = n
         /\ Len(SubSeq(s, n + 1, Len(s))) = Len(s) - n
<1>1. Len(s) \in Nat /\ \A i \in 1 .. Len(s) : s[i] \in S
  BY LenProperties, ElementOfSeq
<1>2. /\ SubSeq(s, 1, n) \in Seq(S)
      /\ Len(SubSeq(s, 1, n)) = IF 1 <= n THEN n - 1 + 1 ELSE 0
  <2>1. \A i \in 1 .. n : s[i] \in S
    BY <1>1
  <2> QED
    BY <1>1, <2>1, SubSeqProperties
<1>3. /\ SubSeq(s, n + 1, Len(s)) \in Seq(S)
      /\ Len(SubSeq(s, n + 1, Len(s))) = IF n + 1 <= Len(s) THEN Len(s) - (n + 1) + 1 ELSE 0
  <2>1. \A i \in n + 1 .. Len(s) : s[i] \in S
    BY <1>1
  <2> QED
    BY <1>1, <2>1, SubSeqProperties
<1> QED
  BY <1>1, <1>2, <1>3

\* A sequence cut in two is the two parts together.
LEMMA PartsTogether ==
  ASSUME NEW S, NEW s \in Seq(S), NEW n \in 0 .. Len(s)
  PROVE  SubSeq(s, 1, n) \o SubSeq(s, n + 1, Len(s)) = s
<1>1. Len(s) \in Nat
  BY LenProperties
<1>2. SubSeq(s, 1, n) \o SubSeq(s, n + 1, Len(s)) = SubSeq(s, 1, Len(s))
  <2>1. 1 \in 1 .. Len(s) + 1 /\ n \in 1 - 1 .. Len(s) /\ Len(s) \in n .. Len(s)
    BY <1>1
  <2> QED
    BY <2>1, ConcatAdjacentSubSeq
<1> QED
  BY <1>2, SubSeqFull

\* The two parts of a concatenation.
LEMMA ConcatParts ==
  ASSUME NEW S, NEW s \in Seq(S), NEW t \in Seq(S)
  PROVE  /\ SubSeq(s \o t, 1, Len(s)) = s
         /\ SubSeq(s \o t, Len(s) + 1, Len(s \o t)) = t
<1>1. /\ s \o t \in Seq(S)
      /\ Len(s \o t) = Len(s) + Len(t)
      /\ Len(s) \in Nat /\ Len(t) \in Nat
  BY ConcatProperties, LenProperties
<1> DEFINE a == SubSeq(s \o t, 1, Len(s))
           b == SubSeq(s \o t, Len(s) + 1, Len(s \o t))
<1>2. a \in Seq(S) /\ b \in Seq(S) /\ Len(a) = Len(s) /\ Len(b) = Len(t)
  BY <1>1, PartsType
<1>3. \A i \in 1 .. Len(s) : a[i] = s[i]
  BY <1>1, ConcatProperties, SubSeqProperties
<1>4. \A i \in 1 .. Len(t) : b[i] = t[i]
  BY <1>1, ConcatProperties, SubSeqProperties
<1>5. a = s
  BY <1>2, <1>3, SeqEqual
<1>6. b = t
  BY <1>2, <1>4, SeqEqual
<1> QED
  BY <1>5, <1>6

\* The elements of a concatenation.
LEMMA ConcatElements ==
  ASSUME NEW S, NEW s \in Seq(S), NEW t \in Seq(S)
  PROVE  /\ s \o t \in Seq(S) /\ Len(s \o t) = Len(s) + Len(t)
         /\ Len(s) \in Nat /\ Len(t) \in Nat
         /\ \A i \in 1 .. Len(s) : (s \o t)[i] = s[i]
         /\ \A j \in 1 .. Len(t) : (s \o t)[Len(s) + j] = t[j]
<1> DEFINE st == s \o t
<1>1. /\ Len(s) \in Nat /\ Len(t) \in Nat /\ st \in Seq(S)
      /\ Len(st) = Len(s) + Len(t)
      /\ \A i \in 1 .. Len(s) + Len(t) : st[i] = IF i <= Len(s) THEN s[i] ELSE t[i - Len(s)]
  BY LenProperties, ConcatProperties
<1> HIDE DEF st
<1>2. \A i \in 1 .. Len(s) : st[i] = s[i]
  BY <1>1
<1>3. ASSUME NEW j \in 1 .. Len(t)
      PROVE  st[Len(s) + j] = t[j]
  <2>1. /\ Len(s) + j \in 1 .. Len(s) + Len(t) /\ ~(Len(s) + j <= Len(s))
        /\ Len(s) + j - Len(s) = j
    BY <1>1
  <2> QED
    BY <1>1, <2>1
<1> QED
  BY <1>1, <1>2, <1>3 DEF st

\* Three sequences one after the other, however they are grouped.
Regrouped(a, b, c) == (a \o b) \o c = a \o (b \o c)

LEMMA Regroup ==
  ASSUME NEW S, NEW a \in Seq(S), NEW b \in Seq(S), NEW c \in Seq(S)
  PROVE  Regrouped(a, b, c)
  BY ConcatAssociative DEF Regrouped

\* To be the first part of a sequence is to be completed to it.
LEMMA FirstPartOf ==
  ASSUME NEW S, NEW s \in Seq(S), NEW t \in Seq(S)
  PROVE  Len(s) <= Len(t) /\ s = SubSeq(t, 1, Len(s)) <=> \E u \in Seq(S) : t = s \o u
<1>1. ASSUME Len(s) <= Len(t), s = SubSeq(t, 1, Len(s))
      PROVE  \E u \in Seq(S) : t = s \o u
  <2>1. Len(s) \in 0 .. Len(t)
    BY <1>1, LenProperties
  <2> WITNESS SubSeq(t, Len(s) + 1, Len(t)) \in Seq(S)
  <2> QED
    BY <1>1, <2>1, PartsTogether
<1>2. ASSUME NEW u \in Seq(S), t = s \o u
      PROVE  Len(s) <= Len(t) /\ s = SubSeq(t, 1, Len(s))
  BY <1>2, ConcatParts, ConcatProperties, LenProperties
<1> QED
  BY <1>1, <1>2

\* Dropping the first elements of what then grows by one.
LEMMA RestOfAppend ==
  ASSUME NEW S, NEW s \in Seq(S), NEW n \in 0 .. Len(s), NEW e \in S
  PROVE  SubSeq(Append(s, e), n + 1, Len(Append(s, e))) = Append(SubSeq(s, n + 1, Len(s)), e)
<1> DEFINE r == SubSeq(s, n + 1, Len(s))
           a == SubSeq(Append(s, e), n + 1, Len(Append(s, e)))
           b == Append(r, e)
<1>1. /\ Len(s) \in Nat
      /\ Append(s, e) \in Seq(S) /\ Len(Append(s, e)) = Len(s) + 1
      /\ r \in Seq(S) /\ Len(r) = Len(s) - n
  BY LenProperties, AppendProperties, PartsType
<1>2. b \in Seq(S) /\ Len(b) = Len(s) - n + 1
  BY <1>1, AppendProperties
<1>3. a \in Seq(S) /\ Len(a) = Len(s) - n + 1
  BY <1>1, PartsType
<1>4. \A i \in 1 .. Len(a) : a[i] = b[i]
  <2>1. \A i \in 1 .. Len(a) : a[i] = Append(s, e)[n + i]
    BY <1>1, <1>3, SubSeqProperties, ElementOfSeq
  <2>2. \A i \in 1 .. Len(r) : r[i] = s[n + i]
    BY <1>1, SubSeqProperties, ElementOfSeq
  <2> QED
    BY <1>1, <1>3, <2>1, <2>2, AppendProperties
<1> QED
  BY <1>2, <1>3, <1>4, SeqEqual

\* Something is put at the end of the second of two sequences.
AppendedBehind(s, t, e) == s \o Append(t, e) = Append(s \o t, e)

LEMMA ConcatAppend ==
  ASSUME NEW S, NEW s \in Seq(S), NEW t \in Seq(S), NEW e \in S
  PROVE  AppendedBehind(s, t, e)
<1>1. /\ <<e>> \in Seq(S) /\ s \o t \in Seq(S)
      /\ Append(t, e) = t \o <<e>>
  BY AppendIsConcat, ConcatProperties
<1>2. Append(s \o t, e) = (s \o t) \o <<e>>
  BY <1>1, AppendIsConcat
<1>3. Regrouped(s, t, <<e>>)
  BY <1>1, Regroup
<1> QED
  BY <1>1, <1>2, <1>3 DEF Regrouped, AppendedBehind

\* The first elements of the second sequence go to the end of the first.
LEMMA MoveFirst ==
  ASSUME NEW S, NEW s \in Seq(S), NEW t \in Seq(S), NEW n \in 0 .. Len(t)
  PROVE  (s \o SubSeq(t, 1, n)) \o SubSeq(t, n + 1, Len(t)) = s \o t
<1>1. SubSeq(t, 1, n) \in Seq(S) /\ SubSeq(t, n + 1, Len(t)) \in Seq(S)
  BY PartsType
<1>2. Regrouped(s, SubSeq(t, 1, n), SubSeq(t, n + 1, Len(t)))
  BY <1>1, Regroup
<1>3. SubSeq(t, 1, n) \o SubSeq(t, n + 1, Len(t)) = t
  BY PartsTogether
<1> QED
  BY <1>2, <1>3 DEF Regrouped

\* A part of a sequence: from after its a-th element to its b-th.
LEMMA PartIs ==
  ASSUME NEW S, NEW s \in Seq(S), NEW a \in Nat, NEW b \in Nat, a <= b, b <= Len(s)
  PROVE  /\ SubSeq(s, a + 1, b) \in Seq(S) /\ Len(SubSeq(s, a + 1, b)) = b - a
         /\ \A i \in 1 .. b - a : SubSeq(s, a + 1, b)[i] = s[a + i]
<1> DEFINE from == a + 1
<1>1. Len(s) \in Nat /\ \A i \in from .. b : s[i] \in S
  BY LenProperties, ElementOfSeq
<1>2. from \in Int /\ b \in Int /\ from = a + 1
  OBVIOUS
<1> HIDE DEF from
<1> DEFINE part == SubSeq(s, from, b)
<1>3. /\ part \in Seq(S)
      /\ Len(part) = IF from <= b THEN b - from + 1 ELSE 0
      /\ \A i \in 1 .. b - from + 1 : part[i] = s[from + i - 1]
  BY <1>1, <1>2, SubSeqProperties
<1> HIDE DEF part
<1>4. part \in Seq(S) /\ Len(part) = b - a
  BY <1>2, <1>3
<1>5. ASSUME NEW i \in 1 .. b - a
      PROVE  part[i] = s[a + i]
  <2>1. i \in 1 .. b - from + 1 /\ from + i - 1 = a + i
    BY <1>2
  <2> QED
    BY <1>3, <2>1
<1> QED
  BY <1>4, <1>5 DEF part, from

\* A part that goes on for one element more.
LEMMA PartGrows ==
  ASSUME NEW S, NEW s \in Seq(S), NEW a \in Nat, NEW b \in Nat, a <= b, b < Len(s)
  PROVE  SubSeq(s, a + 1, b + 1) = Append(SubSeq(s, a + 1, b), s[b + 1])
<1> DEFINE short == SubSeq(s, a + 1, b)
           c == b + 1
           long == SubSeq(s, a + 1, c)
           x == s[c]
           grown == Append(short, x)
<1>1. Len(s) \in Nat /\ c \in Nat /\ a <= c /\ c <= Len(s) /\ b <= Len(s) /\ x \in S
  BY LenProperties, ElementOfSeq
<1>2. /\ short \in Seq(S) /\ Len(short) = b - a
      /\ \A i \in 1 .. b - a : short[i] = s[a + i]
  BY <1>1, PartIs
<1>3. c = b + 1
  OBVIOUS
<1> HIDE DEF c, short
<1>4. /\ long \in Seq(S) /\ Len(long) = c - a
      /\ \A i \in 1 .. c - a : long[i] = s[a + i]
  BY <1>1, PartIs
<1> HIDE DEF long, x
<1>5. /\ grown \in Seq(S) /\ Len(grown) = b - a + 1
      /\ \A i \in 1 .. b - a : grown[i] = short[i]
      /\ grown[b - a + 1] = x
  BY <1>1, <1>2, AppendProperties
<1> HIDE DEF grown
<1>6. ASSUME NEW i \in 1 .. b - a + 1
      PROVE  grown[i] = long[i]
  <2>1. CASE i \in 1 .. b - a
    <3>1. i \in 1 .. c - a
      BY <1>3, <2>1
    <3> QED
      BY <1>2, <1>4, <1>5, <2>1, <3>1
  <2>2. CASE i = b - a + 1
    <3>1. i \in 1 .. c - a /\ a + i = c
      BY <1>3, <2>2
    <3> QED
      BY <1>4, <1>5, <2>2, <3>1 DEF x
  <2> QED
    BY <2>1, <2>2
<1>7. Len(long) = Len(grown) /\ Len(grown) = b - a + 1
  BY <1>3, <1>4, <1>5
<1>8. long = grown
  BY <1>4, <1>5, <1>6, <1>7, SeqEqual
<1> QED
  BY <1>8 DEF long, grown, short, x, c

\* The first element of a part, and the others.
LEMMA PartOff ==
  ASSUME NEW S, NEW s \in Seq(S), NEW a \in Nat, NEW b \in Nat, a < b, b <= Len(s)
  PROVE  LET part == SubSeq(s, a + 1, b)
         IN  /\ SubSeq(part, 1, 1) = <<s[a + 1]>>
             /\ SubSeq(part, 1 + 1, Len(part)) = SubSeq(s, (a + 1) + 1, b)
<1> DEFINE part == SubSeq(s, a + 1, b)
           first == SubSeq(part, 1, 1)
           others == SubSeq(part, 1 + 1, Len(part))
           c == a + 1
           rest == SubSeq(s, c + 1, b)
<1>1. c \in Nat /\ c <= b /\ a <= b /\ c = a + 1
  OBVIOUS
<1>2. /\ part \in Seq(S) /\ Len(part) = b - a
      /\ \A i \in 1 .. b - a : part[i] = s[a + i]
  BY <1>1, PartIs
<1> HIDE DEF part, c
<1>3. /\ rest \in Seq(S) /\ Len(rest) = b - c
      /\ \A i \in 1 .. b - c : rest[i] = s[c + i]
  BY <1>1, PartIs
<1>4. /\ others \in Seq(S) /\ Len(others) = b - a - 1
      /\ \A i \in 1 .. b - a - 1 : others[i] = part[1 + i]
  <2>1. 1 \in Nat /\ b - a \in Nat /\ 1 <= b - a
    BY <1>1
  <2> DEFINE all == b - a
  <2>2. all = Len(part)
    BY <1>2
  <2> HIDE DEF all
  <2>3. /\ SubSeq(part, 1 + 1, all) \in Seq(S) /\ Len(SubSeq(part, 1 + 1, all)) = all - 1
        /\ \A i \in 1 .. all - 1 : SubSeq(part, 1 + 1, all)[i] = part[1 + i]
    <3>1. all \in Nat /\ 1 <= all /\ all <= Len(part)
      BY <2>1, <2>2 DEF all
    <3> QED
      BY <1>2, <3>1, PartIs
  <2> QED
    BY <2>2, <2>3 DEF all
<1> HIDE DEF rest, others
<1>5. ASSUME NEW i \in 1 .. b - c
      PROVE  others[i] = rest[i]
  <2>1. i \in 1 .. b - a - 1 /\ 1 + i \in 1 .. b - a /\ a + (1 + i) = c + i
    BY <1>1
  <2>2. others[i] = s[a + (1 + i)]
    BY <1>2, <1>4, <2>1
  <2> QED
    BY <1>3, <2>1, <2>2
<1>6. others = rest
  <2>1. Len(others) = b - c
    BY <1>1, <1>4
  <2> QED
    BY <1>3, <1>4, <1>5, <2>1, SeqEqual
<1>7. first = <<s[c]>>
  <2>1. 1 \in 0 .. Len(part) /\ 1 \in 1 .. b - a
    BY <1>1, <1>2
  <2>2. first \in Seq(S) /\ Len(first) = 1
    BY <1>2, <2>1, PartsType
  <2>3. first[1] = part[1]
    <3>1. \A i \in 1 .. 1 : part[i] \in S
      BY <1>2, <2>1, ElementOfSeq
    <3> QED
      BY <3>1, SubSeqProperties
  <2>4. part[1] = s[c]
    BY <1>1, <1>2, <2>1
  <2> HIDE DEF first
  <2> DEFINE one == <<s[c]>>
  <2>5. s[c] \in S
    BY <1>1, LenProperties, ElementOfSeq
  <2>6. one \in Seq(S) /\ Len(one) = 1 /\ one[1] = s[c]
    BY <2>5
  <2> HIDE DEF one
  <2>7. first = one
    BY <2>2, <2>3, <2>4, <2>6, SeqEqual
  <2> QED
    BY <2>7 DEF one
<1> QED
  BY <1>6, <1>7 DEF part, first, others, rest, c

\* A part that stops earlier is a first part of it.
LEMMA PartStops ==
  ASSUME NEW S, NEW s \in Seq(S), NEW a \in Nat, NEW c \in Nat, NEW b \in Nat,
         a <= c, c <= b, b <= Len(s)
  PROVE  LET short == SubSeq(s, a + 1, c)
             long  == SubSeq(s, a + 1, b)
         IN  Len(short) <= Len(long) /\ short = SubSeq(long, 1, Len(short))
<1> DEFINE short == SubSeq(s, a + 1, c)
           long == SubSeq(s, a + 1, b)
           n == c - a
           first == SubSeq(long, 1, n)
<1>1. n \in Nat /\ n <= b - a /\ c <= Len(s) /\ a <= b /\ Len(s) \in Nat
  BY LenProperties
<1>2. /\ short \in Seq(S) /\ Len(short) = n
      /\ \A i \in 1 .. n : short[i] = s[a + i]
  BY <1>1, PartIs
<1>3. /\ long \in Seq(S) /\ Len(long) = b - a
      /\ \A i \in 1 .. b - a : long[i] = s[a + i]
  BY <1>1, PartIs
<1> HIDE DEF n, short, long
<1>4. n \in 0 .. Len(long)
  BY <1>1, <1>3
<1>5. first \in Seq(S) /\ Len(first) = n
  BY <1>3, <1>4, PartsType
<1>6. ASSUME NEW i \in 1 .. n
      PROVE  short[i] = first[i]
  <2>1. \A j \in 1 .. n : long[j] \in S
    BY <1>3, <1>4, ElementOfSeq
  <2>2. first[i] = long[i]
    BY <1>1, <2>1, SubSeqProperties
  <2>3. i \in 1 .. b - a
    BY <1>1
  <2> QED
    BY <1>2, <1>3, <2>2, <2>3
<1> HIDE DEF first
<1>7. short = first
  BY <1>2, <1>5, <1>6, SeqEqual
<1> QED
  BY <1>1, <1>2, <1>3, <1>7 DEF first, short, long, n

\* What follows the same sequence in two equal ones is the same.
LEMMA CancelLeft ==
  ASSUME NEW S, NEW s \in Seq(S), NEW t \in Seq(S), NEW u \in Seq(S), s \o t = s \o u
  PROVE  t = u
<1>1. /\ SubSeq(s \o t, Len(s) + 1, Len(s \o t)) = t
      /\ SubSeq(s \o u, Len(s) + 1, Len(s \o u)) = u
  BY ConcatParts
<1> QED
  BY <1>1

\* How long three sequences are together.
LEMMA ThreeLong ==
  ASSUME NEW S, NEW a \in Seq(S), NEW b \in Seq(S), NEW c \in Seq(S)
  PROVE  /\ (a \o b) \o c \in Seq(S) /\ Len((a \o b) \o c) = Len(a) + Len(b) + Len(c)
         /\ Len(a) \in Nat /\ Len(b) \in Nat /\ Len(c) \in Nat
<1> DEFINE ab == a \o b
<1>1. /\ ab \in Seq(S) /\ Len(ab) = Len(a) + Len(b)
      /\ Len(a) \in Nat /\ Len(b) \in Nat /\ Len(c) \in Nat
  BY ConcatProperties, LenProperties
<1> HIDE DEF ab
<1>2. ab \o c \in Seq(S) /\ Len(ab \o c) = Len(ab) + Len(c)
  BY <1>1, ConcatProperties
<1> QED
  BY <1>1, <1>2 DEF ab

(***************************************************************************)
(* Induction over the natural numbers, as the least of a set of them: what *)
(* holds of every number fails, if it fails, for a least one.              *)
(***************************************************************************)
LEMMA LeastNumber ==
  ASSUME NEW T \in SUBSET Nat, T # {}
  PROVE  \E n \in T : \A m \in T : n <= m
<1> DEFINE R == {ss \in Nat \X Nat : ss[1] < ss[2]}
<1>1. IsWellFoundedOn(R, Nat)
  BY NatLessThanWellFounded DEF OpToRel
<1>2. \E n \in T : \A m \in T : ~ (<<m, n>> \in R)
  <2> HIDE DEF R
  <2> QED
    BY <1>1, WFMin, Zenon
<1>3. ASSUME NEW m \in Nat, NEW n \in Nat, m < n
      PROVE  <<m, n>> \in R
  BY <1>3
<1>4. PICK n \in T : \A m \in T : ~ (<<m, n>> \in R)
  BY <1>2
<1>5. ASSUME NEW m \in T
      PROVE  ~ (m < n)
  <2> HIDE DEF R
  <2> QED
    BY <1>3, <1>4, Zenon
<1> QED
  BY <1>5

=============================================================================
