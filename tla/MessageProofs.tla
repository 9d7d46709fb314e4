---------------------------- MODULE MessageProofs ----------------------------
(***************************************************************************)
(* Proofs about the messages of SocketChat: the callback is given the      *)
(* texts of the peer, whole and in order, however the stream is cut, and   *)
(* each direction of a connection is a stream of texts (MessageStream).    *)
(***************************************************************************)
EXTENDS SocketChatProofs, FiniteSetTheorems

(***************************************************************************)
(* A stream that holds n texts, each followed by its delimiter.  bound[i]  *)
(* is how many bytes the first i of them take.                             *)
(***************************************************************************)
Cuts(n) == [0 .. n -> Nat]

Framing(stream, texts, n, bound) ==
  /\ bound[0] = 0 /\ bound[n] = Len(stream)
  /\ \A i \in 0 .. n : bound[i] <= bound[n]
  /\ \A i \in 1 .. n : bound[i] = bound[i - 1] + Len(texts[i]) + 2
  /\ \A i \in 1 .. n : \A j \in 1 .. Len(texts[i]) + 2 :
       stream[bound[i - 1] + j] = (texts[i] \o Delimiter)[j]

(***************************************************************************)
(* The callback of end e was given as many of the peer's texts as the      *)
(* bytes consumed so far hold, and consumed just these.                    *)
(***************************************************************************)
Taken(e, bound) ==
  LET k == Len(delivered[e])
  IN  /\ k <= sent[Peer(e)] /\ Len(consumed[e]) = bound[k]
      /\ \A i \in 1 .. k : delivered[e][i] = Script[Peer(e)][i]

Frames(e, bound) ==
  Framing(accepted[Peer(e)], Script[Peer(e)], sent[Peer(e)], bound) /\ Taken(e, bound)

(***************************************************************************)
(* The inductive invariant.  Only while no addBuffer of the peer failed: a *)
(* text or a delimiter that was refused moves all the bounds after it.     *)
(***************************************************************************)
Bounds(e) == Cuts(sent[Peer(e)])

FrameOf(e) == ~refused[Peer(e)] => \E bound \in Bounds(e) : Frames(e, bound)

SentInv == \A e \in Ends : sent[e] <= Len(Script[e])

FrameInv == SentInv /\ \A e \in Ends : FrameOf(e)

LEMMA ScriptType ==
  ASSUME NEW e \in Ends
  PROVE  /\ Script[e] \in Seq(Seq(Byte)) /\ Len(Script[e]) \in Nat
         /\ \A i \in 1 .. Len(Script[e]) : /\ Script[e][i] \in Seq(Byte)
                                           /\ Len(Script[e][i]) \in Nat
                                           /\ FirstDelimiter(Script[e][i]) = 0
<1>1. Script[e] \in Seq(Seq(Byte))
  BY SocketChatAssumption
<1>2. \A i \in 1 .. Len(Script[e]) : Script[e][i] \in Seq(Byte)
  BY <1>1, ElementOfSeq
<1> QED
  BY <1>1, <1>2, LenProperties, SocketChatAssumption

\* A text with its delimiter, byte by byte.
LEMMA FramedIs ==
  ASSUME NEW text \in Seq(Byte)
  PROVE  /\ Len(text) \in Nat
         /\ text \o Delimiter \in Seq(Byte)
         /\ Len(text \o Delimiter) = Len(text) + 2
         /\ \A j \in 1 .. Len(text) : (text \o Delimiter)[j] = text[j]
         /\ (text \o Delimiter)[Len(text) + 1] = CR
         /\ (text \o Delimiter)[Len(text) + 2] = LF
<1>1. Delimiter \in Seq(Byte) /\ Len(Delimiter) = 2 /\ Delimiter[1] = CR /\ Delimiter[2] = LF
  BY SocketChatAssumption DEF Delimiter
<1>2. Len(text) \in Nat
  BY LenProperties
<1> HIDE DEF Delimiter
<1>3. /\ text \o Delimiter \in Seq(Byte)
      /\ Len(text \o Delimiter) = Len(text) + 2
      /\ \A j \in 1 .. Len(text) + 2 : (text \o Delimiter)[j] =
                     IF j <= Len(text) THEN text[j] ELSE Delimiter[j - Len(text)]
  BY <1>1, ConcatProperties
<1> QED
  BY <1>1, <1>2, <1>3

(***************************************************************************)
(* The first delimiter in what has arrived of a text and what follows it   *)
(* is the text's own, even if the text ends in a carriage return: no       *)
(* delimiter lies within a text.                                           *)
(***************************************************************************)
LEMMA OwnDelimiter ==
  ASSUME NEW text \in Seq(Byte), FirstDelimiter(text) = 0,
         NEW content \in Seq(Byte), NEW at \in 1 .. Len(content) - 1,
         DelimiterAt(content, at), \A i \in 1 .. at - 1 : ~DelimiterAt(content, i),
         \A j \in 1 .. Len(text) + 2 :
           j <= Len(content) => content[j] = (text \o Delimiter)[j]
  PROVE  at = Len(text) + 1 /\ SubSeq(content, 1, at - 1) = text
<1>1. Len(text) \in Nat /\ Len(content) \in Nat
  BY LenProperties
<1>2. \A i \in 1 .. Len(text) - 1 : ~DelimiterAt(text, i)
  BY <1>1, FirstDelimiterIs
<1>3. /\ \A j \in 1 .. Len(text) : j <= Len(content) => content[j] = text[j]
      /\ Len(text) + 1 <= Len(content) => content[Len(text) + 1] = CR
      /\ Len(text) + 2 <= Len(content) => content[Len(text) + 2] = LF
  <2> DEFINE framed == text \o Delimiter
  <2>1. /\ \A j \in 1 .. Len(text) : framed[j] = text[j]
        /\ framed[Len(text) + 1] = CR /\ framed[Len(text) + 2] = LF
    BY FramedIs
  <2>2. \A j \in 1 .. Len(text) + 2 : j <= Len(content) => content[j] = framed[j]
    OBVIOUS
  <2> HIDE DEF framed
  <2> QED
    BY <1>1, <2>1, <2>2
<1>4. ~(at < Len(text))
  BY <1>1, <1>2, <1>3 DEF DelimiterAt
<1>5. at # Len(text)
  BY <1>1, <1>3, SocketChatAssumption DEF DelimiterAt
<1>6. at >= Len(text) + 1
  BY <1>1, <1>4, <1>5
<1>7. DelimiterAt(content, Len(text) + 1)
  BY <1>1, <1>3, <1>6 DEF DelimiterAt
<1>8. at = Len(text) + 1
  BY <1>1, <1>6, <1>7
<1>9. SubSeq(content, 1, at - 1) = text
  <2> DEFINE first == SubSeq(content, 1, Len(text))
  <2>1. Len(text) \in 0 .. Len(content)
    BY <1>1, <1>8
  <2>2. first \in Seq(Byte) /\ Len(first) = Len(text)
    BY <2>1, PartsType
  <2>3. \A j \in 1 .. Len(text) : content[j] \in Byte
    BY <1>1, <2>1, ElementOfSeq
  <2>4. \A j \in 1 .. Len(text) : first[j] = content[j]
    BY <1>1, <2>3, SubSeqProperties
  <2>5. \A j \in 1 .. Len(text) : first[j] = text[j]
    BY <1>1, <1>3, <2>1, <2>4
  <2> HIDE DEF first
  <2>6. first = text
    BY <2>2, <2>5, SeqEqual
  <2> QED
    BY <1>1, <1>8, <2>6 DEF first
<1> QED
  BY <1>8, <1>9

----------------------------------------------------------------------------
LEMMA InitFrames == Init => FrameInv
<1> SUFFICES ASSUME Init PROVE FrameInv
  OBVIOUS
<1>1. SentInv
  BY ScriptType DEF Init, SentInv
<1>2. ASSUME NEW e \in Ends
      PROVE  FrameOf(e)
  <2> DEFINE bound == [i \in 0 .. 0 |-> 0]
  <2>1. Peer(e) \in Ends
    BY PeerType
  <2>2. /\ sent[Peer(e)] = 0 /\ accepted[Peer(e)] = << >>
        /\ delivered[e] = << >> /\ consumed[e] = << >>
    BY <2>1 DEF Init
  <2>3. bound \in Bounds(e)
    BY <2>2 DEF Bounds, Cuts
  <2>4. Len(<< >>) = 0
    OBVIOUS
  <2>5. bound[0] = 0 /\ (\A i \in 0 .. 0 : bound[i] = 0)
    OBVIOUS
  <2> HIDE DEF bound
  <2>6. Frames(e, bound)
    BY <2>2, <2>4, <2>5 DEF Frames, Framing, Taken
  <2> QED
    BY <2>3, <2>6 DEF FrameOf
<1> QED
  BY <1>1, <1>2 DEF FrameInv

\* Only sendText and the callback move anything that counts here.
LEMMA OtherSteps ==
  ASSUME [Next]_vars
  PROVE  \/ \E e \in Ends : SendText(e) \/ DispatchMessage(e)
         \/ UNCHANGED <<sent, accepted, refused, delivered, consumed>>
<1> USE DEF history
<1>1. ASSUME NEW e \in Ends, Poll(e)
      PROVE  DispatchMessage(e) \/ UNCHANGED <<sent, accepted, refused, delivered, consumed>>
  BY <1>1 DEF Poll, PollStart, RecvNoRoom, RecvBytes, RecvWouldBlock, RecvEnded,
              SendBytes, SendFailed, Finish
<1>2. ASSUME NEW e \in Ends, DestructorCheck(e) \/ Tick(e) \/ Close(e) \/ Destroy(e)
      PROVE  UNCHANGED <<sent, accepted, refused, delivered, consumed>>
  BY <1>2 DEF DestructorCheck, Tick, Close, Destroy
<1>3. CASE NetworkReset \/ UNCHANGED vars
  BY <1>3 DEF NetworkReset, vars
<1> QED
  BY <1>1, <1>2, <1>3 DEF Next, App

LEMMA SameFrames ==
  ASSUME FrameInv, UNCHANGED <<sent, accepted, refused, delivered, consumed>>
  PROVE  FrameInv'
<1>1. SentInv'
  BY DEF FrameInv, SentInv
<1>2. ASSUME NEW e \in Ends PROVE FrameOf(e)'
  <2>1. FrameOf(e)
    BY DEF FrameInv
  <2> QED
    BY <2>1 DEF FrameOf, Bounds, Frames, Taken
<1> QED
  BY <1>1, <1>2 DEF FrameInv

\* One more text in the stream gets the next bound; the others stay.
LEMMA NextFraming ==
  ASSUME NEW stream \in Seq(Byte), NEW texts \in Seq(Seq(Byte)),
         NEW n \in Nat, n < Len(texts),
         NEW bound \in Cuts(n), Framing(stream, texts, n, bound)
  PROVE  \E after \in Cuts(n + 1) :
           /\ Framing(stream \o (texts[n + 1] \o Delimiter), texts, n + 1, after)
           /\ \A i \in 0 .. n : after[i] = bound[i]
<1> DEFINE text == texts[n + 1]
           framed == text \o Delimiter
           longer == stream \o framed
           after == [i \in 0 .. n + 1 |-> IF i <= n THEN bound[i] ELSE Len(stream) + Len(text) + 2]
<1>1. /\ Len(texts) \in Nat
      /\ \A i \in 1 .. Len(texts) : texts[i] \in Seq(Byte) /\ Len(texts[i]) \in Nat
  BY ElementOfSeq, LenProperties
<1>2. text \in Seq(Byte) /\ Len(text) \in Nat
  BY <1>1
<1>3. framed \in Seq(Byte) /\ Len(framed) = Len(text) + 2 /\ Len(stream) \in Nat
  BY <1>2, FramedIs, LenProperties
<1> HIDE DEF framed
<1>4. /\ Len(longer) = Len(stream) + Len(text) + 2
      /\ \A i \in 1 .. Len(stream) : longer[i] = stream[i]
      /\ \A j \in 1 .. Len(text) + 2 : longer[Len(stream) + j] = framed[j]
  <2>1. framed \in Seq(Byte)
    BY <1>3
  <2>2. /\ Len(longer) = Len(stream) + Len(framed)
        /\ \A i \in 1 .. Len(stream) : longer[i] = stream[i]
        /\ \A j \in 1 .. Len(framed) : longer[Len(stream) + j] = framed[j]
    BY <2>1, ConcatElements
  <2> HIDE DEF longer, text
  <2> QED
    BY <1>2, <1>3, <2>2
<1>5. /\ \A i \in 0 .. n : after[i] = bound[i] /\ bound[i] \in Nat
      /\ after[n + 1] = Len(stream) + Len(text) + 2
      /\ after \in Cuts(n + 1)
  <2>1. bound \in [0 .. n -> Nat]
    BY DEF Cuts
  <2> HIDE DEF text
  <2> QED
    BY <1>2, <1>3, <2>1 DEF Cuts
<1> HIDE DEF after, longer
<1>6. /\ bound[0] = 0 /\ bound[n] = Len(stream)
      /\ \A i \in 0 .. n : bound[i] <= Len(stream)
      /\ \A i \in 1 .. n : bound[i] = bound[i - 1] + Len(texts[i]) + 2
  BY DEF Framing
<1>7. /\ after[0] = 0 /\ after[n + 1] = Len(longer)
      /\ \A i \in 0 .. n + 1 : after[i] <= after[n + 1]
  <2> HIDE DEF text
  <2>1. \A i \in 0 .. n + 1 : i \in 0 .. n \/ i = n + 1
    OBVIOUS
  <2>2. ASSUME NEW i \in 0 .. n PROVE after[i] <= after[n + 1]
    <3>1. after[i] = bound[i] /\ bound[i] \in Nat /\ bound[i] <= Len(stream)
      BY <1>5, <1>6
    <3> QED
      BY <1>2, <1>3, <1>5, <3>1
  <2>3. after[n + 1] <= after[n + 1]
    BY <1>2, <1>3, <1>5
  <2>4. after[0] = 0 /\ after[n + 1] = Len(longer)
    BY <1>4, <1>5, <1>6
  <2> QED
    BY <2>1, <2>2, <2>3, <2>4
<1>8. ASSUME NEW i \in 1 .. n + 1
      PROVE  /\ after[i] = after[i - 1] + Len(texts[i]) + 2
             /\ \A j \in 1 .. Len(texts[i]) + 2 : longer[after[i - 1] + j] = (texts[i] \o Delimiter)[j]
  <2>1. i - 1 \in 0 .. n /\ after[i - 1] = bound[i - 1] /\ bound[i - 1] \in Nat
    BY <1>5
  <2>2. CASE i = n + 1
    <3>1. after[i - 1] = Len(stream)
      BY <1>6, <2>1, <2>2
    <3>2. after[i] = after[i - 1] + Len(texts[i]) + 2
      BY <1>5, <2>2, <3>1
    <3> QED
      BY <1>4, <2>2, <3>1, <3>2 DEF framed
  <2>3. CASE i \in 1 .. n
    <3>1. after[i] = after[i - 1] + Len(texts[i]) + 2
      BY <1>5, <1>6, <2>1, <2>3
    <3>2. ASSUME NEW j \in 1 .. Len(texts[i]) + 2
          PROVE  longer[after[i - 1] + j] = (texts[i] \o Delimiter)[j]
      <4>1. Len(texts[i]) \in Nat
        BY <1>1, <2>3
      <4>2. bound[i] = bound[i - 1] + Len(texts[i]) + 2 /\ bound[i] <= Len(stream)
        BY <1>6, <2>3
      <4> DEFINE before == bound[i - 1]
                 end == bound[i]
                 len == Len(texts[i])
                 all == Len(stream)
      <4>3. before + j \in 1 .. all
        <5>1. before \in Nat /\ len \in Nat /\ all \in Nat /\ j \in 1 .. len + 2
          BY <1>3, <2>1, <4>1
        <5>2. end = before + len + 2 /\ end <= all
          BY <4>2
        <5> HIDE DEF before, end, len, all
        <5> QED
          BY <5>1, <5>2
      <4>4. longer[bound[i - 1] + j] = stream[bound[i - 1] + j]
        BY <1>4, <4>3
      <4>5. stream[bound[i - 1] + j] = (texts[i] \o Delimiter)[j]
        BY <2>3 DEF Framing
      <4> QED
        BY <2>1, <4>4, <4>5
    <3> QED
      BY <3>1, <3>2
  <2>4. i = n + 1 \/ i \in 1 .. n
    OBVIOUS
  <2> QED
    BY <2>2, <2>3, <2>4, Zenon
<1>9. Framing(longer, texts, n + 1, after)
  BY <1>7, <1>8 DEF Framing
<1> QED
  BY <1>5, <1>9 DEF longer, framed

\* The end that did not send, and nothing of what concerns it changed.
LEMMA FrameAlone ==
  ASSUME NEW e \in Ends, FrameOf(e),
         sent'[Peer(e)] = sent[Peer(e)], accepted'[Peer(e)] = accepted[Peer(e)],
         refused'[Peer(e)] = refused[Peer(e)],
         delivered'[e] = delivered[e], consumed'[e] = consumed[e]
  PROVE  FrameOf(e)'
  BY DEF FrameOf, Bounds, Frames, Taken

\* A text that is sent gets the next bound.
LEMMA FramesSent ==
  ASSUME TypeOK, FrameInv, NEW s \in Ends, SendText(s)
  PROVE  FrameInv'
<1> DEFINE e == Peer(s)
           n == sent[s]
<1>1. e \in Ends /\ e # s /\ Peer(e) = s /\ \A d \in Ends : d = s \/ d = e
  BY PeerType, TwoEnds
<1>2. /\ n \in Nat /\ n < Len(Script[s])
      /\ sent' = [sent EXCEPT ![s] = n + 1]
      /\ UNCHANGED <<delivered, consumed>>
  BY DEF SendText, TypeOK
<1>3. sent'[s] = n + 1 /\ \A d \in Ends \ {s} : sent'[d] = sent[d]
  BY <1>2 DEF TypeOK
<1>4. SentInv'
  BY <1>2, <1>3, ScriptType DEF FrameInv, SentInv
<1>5. FrameOf(s)'
  <2>1. sent'[e] = sent[e] /\ accepted'[e] = accepted[e] /\ refused'[e] = refused[e]
    BY <1>1, <1>3, SendTextMoves
  <2>2. FrameOf(s)
    BY DEF FrameInv
  <2> QED
    BY <1>2, <2>1, <2>2, FrameAlone
<1>6. FrameOf(e)'
  <2> SUFFICES ASSUME ~refused'[s]
               PROVE  \E bound \in Cuts(n + 1) : Frames(e, bound)'
    BY <1>1, <1>3 DEF FrameOf, Bounds
  <2>1. /\ ~refused[s]
        /\ accepted'[s] = accepted[s] \o (Script[s][n + 1] \o Delimiter)
    BY SendTextMoves
  <2>2. PICK bound \in Cuts(n) : Frames(e, bound)
    BY <1>1, <2>1 DEF FrameInv, FrameOf, Bounds
  <2>3. accepted[s] \in Seq(Byte) /\ Script[s] \in Seq(Seq(Byte))
    BY ScriptType DEF TypeOK
  <2>4. Framing(accepted[s], Script[s], n, bound) /\ Taken(e, bound)
    BY <1>1, <2>2 DEF Frames
  <2>5. PICK after \in Cuts(n + 1) :
          /\ Framing(accepted[s] \o (Script[s][n + 1] \o Delimiter), Script[s], n + 1, after)
          /\ \A i \in 0 .. n : after[i] = bound[i]
    <3> DEFINE stream == accepted[s]
               texts == Script[s]
    <3>1. /\ stream \in Seq(Byte) /\ texts \in Seq(Seq(Byte))
          /\ n \in Nat /\ n < Len(texts) /\ bound \in Cuts(n)
          /\ Framing(stream, texts, n, bound)
      BY <1>2, <2>3, <2>4
    <3> HIDE DEF n, stream, texts
    <3>2. \E after \in Cuts(n + 1) :
            /\ Framing(stream \o (texts[n + 1] \o Delimiter), texts, n + 1, after)
            /\ \A i \in 0 .. n : after[i] = bound[i]
      BY <3>1, NextFraming
    <3> QED
      BY <3>2 DEF stream, texts
  <2>6. Taken(e, after)'
    <3>1. Len(delivered[e]) \in Nat
      BY <1>1, LenProperties DEF TypeOK
    <3> HIDE DEF e, n
    <3> QED
      BY <1>1, <1>2, <1>3, <2>4, <2>5, <3>1 DEF Taken, n
  <2>7. Frames(e, after)'
    BY <1>1, <1>3, <2>1, <2>5, <2>6 DEF Frames
  <2> QED
    BY <2>7
<1> QED
  BY <1>1, <1>4, <1>5, <1>6 DEF FrameInv

\* What follows the first part of a stream, byte by byte.
LEMMA PrefixBytes ==
  ASSUME NEW s \in Seq(Byte), NEW u \in Seq(Byte), NEW t \in Seq(Byte), Prefix(s \o u, t)
  PROVE  /\ Len(s) + Len(u) <= Len(t)
         /\ \A j \in 1 .. Len(u) : t[Len(s) + j] = u[j]
<1>1. s \o u \in Seq(Byte)
  BY ConcatProperties
<1>2. PICK v \in Seq(Byte) : t = (s \o u) \o v
  BY <1>1, PrefixIs
<1> DEFINE su == s \o u
<1>3. /\ Len(s) \in Nat /\ Len(u) \in Nat /\ Len(v) \in Nat
      /\ Len(su) = Len(s) + Len(u) /\ \A j \in 1 .. Len(u) : su[Len(s) + j] = u[j]
  BY ConcatElements, LenProperties
<1>4. t = su \o v /\ su \in Seq(Byte)
  BY <1>1, <1>2
<1> HIDE DEF su
<1>5. Len(t) = Len(su) + Len(v) /\ \A i \in 1 .. Len(su) : t[i] = su[i]
  BY <1>4, ConcatElements
<1>6. ASSUME NEW j \in 1 .. Len(u)
      PROVE  t[Len(s) + j] = u[j]
  <2>1. Len(s) + j \in 1 .. Len(su)
    BY <1>3
  <2> QED
    BY <1>3, <1>5, <2>1
<1> QED
  BY <1>3, <1>5, <1>6

\* A stream of n texts was consumed up to the end of the k-th, and content came next.
AfterTexts(stream, texts, n, bound, done, content, k) ==
  /\ stream \in Seq(Byte) /\ texts \in Seq(Seq(Byte)) /\ n \in Nat /\ n <= Len(texts)
  /\ \A i \in 1 .. n : FirstDelimiter(texts[i]) = 0
  /\ bound \in Cuts(n) /\ Framing(stream, texts, n, bound)
  /\ done \in Seq(Byte) /\ content \in Seq(Byte) /\ Prefix(done \o content, stream)
  /\ k \in 0 .. n /\ Len(done) = bound[k]

\* The first delimiter of a byte sequence is at a position.
FirstAt(content, at) ==
  /\ at \in 1 .. Len(content) - 1 /\ DelimiterAt(content, at)
  /\ \A i \in 1 .. at - 1 : ~DelimiterAt(content, i)

(***************************************************************************)
(* What is in the receive buffer begins where the last message ended.  So  *)
(* the first delimiter in it is the one that sendText put after the next   *)
(* text, and the callback is given that text.                              *)
(***************************************************************************)
LEMMA NextText ==
  ASSUME NEW stream \in Seq(Byte), NEW texts \in Seq(Seq(Byte)), NEW n \in Nat,
         NEW bound \in Cuts(n), NEW done \in Seq(Byte), NEW content \in Seq(Byte),
         NEW k \in Nat, NEW at \in Nat,
         AfterTexts(stream, texts, n, bound, done, content, k), FirstAt(content, at)
  PROVE  /\ k + 1 \in 1 .. n
         /\ SubSeq(content, 1, at - 1) = texts[k + 1]
         /\ Len(done \o SubSeq(content, 1, at + 1)) = bound[k + 1]
<1> DEFINE text == texts[k + 1]
<1>1. n <= Len(texts) /\ k \in 0 .. n /\ Len(done) = bound[k]
  BY DEF AfterTexts
<1>2. \A i \in 1 .. n : FirstDelimiter(texts[i]) = 0
  BY DEF AfterTexts
<1>3. Framing(stream, texts, n, bound)
  BY DEF AfterTexts
<1>4. Prefix(done \o content, stream)
  BY DEF AfterTexts
<1>5. at \in 1 .. Len(content) - 1 /\ DelimiterAt(content, at)
  BY DEF FirstAt
<1>6. \A i \in 1 .. at - 1 : ~DelimiterAt(content, i)
  BY DEF FirstAt
<1>7. /\ Len(content) \in Nat /\ Len(texts) \in Nat /\ bound[k] \in Nat /\ bound[n] \in Nat
      /\ \A i \in 1 .. Len(texts) : texts[i] \in Seq(Byte) /\ Len(texts[i]) \in Nat
  BY <1>1, LenProperties, ElementOfSeq DEF Cuts
<1>8. /\ bound[k] + Len(content) <= bound[n]
      /\ \A j \in 1 .. Len(content) : stream[bound[k] + j] = content[j]
  <2>1. /\ Len(done) + Len(content) <= Len(stream)
        /\ \A j \in 1 .. Len(content) : stream[Len(done) + j] = content[j]
    BY <1>4, PrefixBytes
  <2>2. bound[n] = Len(stream)
    BY <1>3 DEF Framing
  <2> QED
    BY <1>1, <2>1, <2>2
<1>9. k # n
  BY <1>5, <1>7, <1>8
<1>10. k + 1 \in 1 .. n /\ k + 1 \in 1 .. Len(texts) /\ k + 1 - 1 = k
  BY <1>1, <1>7, <1>9
<1>11. /\ text \in Seq(Byte) /\ Len(text) \in Nat /\ FirstDelimiter(text) = 0
      /\ bound[k + 1] = bound[k] + Len(text) + 2
      /\ \A j \in 1 .. Len(text) + 2 : stream[bound[k] + j] = (text \o Delimiter)[j]
  <2>1. text \in Seq(Byte) /\ Len(text) \in Nat /\ FirstDelimiter(text) = 0
    BY <1>2, <1>7, <1>10
  <2>2. \A i \in 1 .. n :
          /\ bound[i] = bound[i - 1] + Len(texts[i]) + 2
          /\ \A j \in 1 .. Len(texts[i]) + 2 : stream[bound[i - 1] + j] = (texts[i] \o Delimiter)[j]
    BY <1>3 DEF Framing
  <2> DEFINE i == k + 1
  <2>3. i \in 1 .. n /\ i - 1 = k
    BY <1>10
  <2> HIDE DEF i
  <2>4. /\ bound[i] = bound[k] + Len(texts[i]) + 2
        /\ \A j \in 1 .. Len(texts[i]) + 2 : stream[bound[k] + j] = (texts[i] \o Delimiter)[j]
    BY <2>2, <2>3
  <2> QED
    BY <2>1, <2>4 DEF i
<1> HIDE DEF text
<1>12. \A j \in 1 .. Len(text) + 2 : j <= Len(content) => content[j] = (text \o Delimiter)[j]
  <2> DEFINE framed == text \o Delimiter
  <2>1. \A j \in 1 .. Len(text) + 2 : stream[bound[k] + j] = framed[j]
    BY <1>11
  <2> HIDE DEF framed
  <2>2. \A j \in 1 .. Len(text) + 2 : j <= Len(content) => content[j] = framed[j]
    BY <1>7, <1>8, <1>11, <2>1
  <2> QED
    BY <2>2 DEF framed
<1>13. at = Len(text) + 1 /\ SubSeq(content, 1, at - 1) = text
  BY <1>5, <1>6, <1>11, <1>12, OwnDelimiter
<1>14. Len(done \o SubSeq(content, 1, at + 1)) = bound[k + 1]
  <2> DEFINE out == SubSeq(content, 1, at + 1)
  <2>1. at + 1 \in 0 .. Len(content)
    BY <1>5, <1>7
  <2>2. out \in Seq(Byte) /\ Len(out) = at + 1
    BY <2>1, PartsType
  <2> HIDE DEF out
  <2>3. Len(done \o out) = Len(done) + Len(out)
    BY <2>2, ConcatProperties
  <2>4. /\ bound[k + 1] = bound[k] + Len(text) + 2 /\ Len(text) \in Nat /\ bound[k] \in Nat
        /\ at = Len(text) + 1 /\ Len(out) = at + 1 /\ Len(done) = bound[k]
    BY <1>1, <1>7, <1>11, <1>13, <2>2
  <2>5. Len(done \o out) = bound[k + 1]
    BY <2>3, <2>4
  <2> QED
    BY <2>5 DEF out
<1> QED
  BY <1>10, <1>13, <1>14 DEF text

\* A message that is dispatched is the next text, and keeps the bounds.
LEMMA FrameDispatched ==
  ASSUME TypeOK, DispatchInv, StreamInv, FrameInv, NEW e \in Ends, DispatchMessage(e),
         NEW bound \in Bounds(e), Frames(e, bound)
  PROVE  Frames(e, bound)'
<1> DEFINE p == Peer(e)
           content == rx[e].content
           at == FirstDelimiter(content)
           done == consumed[e]
           k == Len(delivered[e])
<1>1. p \in Ends /\ p # e /\ Peer(p) = e /\ \A d \in Ends : d = e \/ d = p
  BY PeerType, TwoEnds
<1>2. UNCHANGED <<sent, accepted, refused>>
  BY DEF DispatchMessage
<1>3. /\ at \in 1 .. Len(content) - 1 /\ DelimiterAt(content, at)
      /\ \A i \in 1 .. at - 1 : ~DelimiterAt(content, i)
      /\ delivered'[e] = Append(delivered[e], SubSeq(content, 1, at - 1))
      /\ consumed'[e] = done \o SubSeq(content, 1, at + 1)
  BY DispatchMoves
<1> DEFINE n == sent[p]
           texts == Script[p]
           stream == accepted[p]
<1>4. /\ n \in Nat /\ n <= Len(texts) /\ bound \in Cuts(n)
      /\ stream \in Seq(Byte) /\ done \in Seq(Byte) /\ content \in Seq(Byte)
      /\ texts \in Seq(Seq(Byte)) /\ Len(texts) \in Nat
      /\ \A i \in 1 .. Len(texts) : FirstDelimiter(texts[i]) = 0
  BY <1>1, ScriptType, StreamTypes DEF TypeOK, FrameInv, SentInv, Bounds
<1>5. Prefix(done \o content, stream)
  <2>1. wire[e] \in Seq(Byte) /\ done \o content \in Seq(Byte)
    BY <1>4, StreamTypes, ConcatProperties
  <2>2. Prefix((done \o content) \o wire[e], stream)
    BY DEF StreamInv, StreamOf, Arrived, Received
  <2> DEFINE got == done \o content
             coming == wire[e]
  <2> HIDE DEF got, coming, stream
  <2> QED
    BY <1>4, <2>1, <2>2, PrefixOfFirst DEF got, coming
<1>6. /\ Framing(stream, texts, n, bound) /\ k \in 0 .. n /\ Len(done) = bound[k]
      /\ \A i \in 1 .. k : delivered[e][i] = texts[i]
  <2>1. k \in Nat
    BY LenProperties DEF TypeOK
  <2> QED
    BY <1>4, <2>1 DEF Frames, Taken
<1>7. \A i \in 1 .. n : FirstDelimiter(texts[i]) = 0
  <2> HIDE DEF n, texts
  <2>1. \A i \in 1 .. n : i \in 1 .. Len(texts)
    BY <1>4
  <2> QED
    BY <1>4, <2>1
<1>8. /\ k + 1 \in 1 .. n
      /\ SubSeq(content, 1, at - 1) = texts[k + 1]
      /\ Len(done \o SubSeq(content, 1, at + 1)) = bound[k + 1]
  <2>1. FirstAt(content, at)
    BY <1>3 DEF FirstAt
  <2>2. AfterTexts(stream, texts, n, bound, done, content, k)
    BY <1>4, <1>5, <1>6, <1>7 DEF AfterTexts
  <2>3. /\ stream \in Seq(Byte) /\ texts \in Seq(Seq(Byte)) /\ n \in Nat /\ bound \in Cuts(n)
        /\ done \in Seq(Byte) /\ content \in Seq(Byte) /\ k \in Nat /\ at \in Nat
    BY <1>3, <1>4, <1>6, LenProperties
  <2> HIDE DEF n, texts, stream, k, done, content, at
  <2> QED
    BY <2>1, <2>2, <2>3, NextText
<1>9. Taken(e, bound)'
  <2>1. /\ delivered'[e] = Append(delivered[e], texts[k + 1])
        /\ Len(consumed'[e]) = bound[k + 1]
    BY <1>3, <1>8
  <2>2. delivered[e] \in Seq(Seq(Byte)) /\ texts[k + 1] \in Seq(Byte)
    <3>1. delivered[e] \in Seq(Seq(Byte))
      BY DEF TypeOK
    <3>2. k + 1 \in 1 .. Len(texts)
      <4> HIDE DEF n, texts, k
      <4> QED
        BY <1>4, <1>8
    <3> QED
      BY <1>4, <3>1, <3>2, ElementOfSeq
  <2> DEFINE before == delivered[e]
             text == texts[k + 1]
             after == Append(before, text)
  <2>3. /\ Len(after) = k + 1 /\ after[k + 1] = text
        /\ \A i \in 1 .. k : after[i] = before[i]
    <3> HIDE DEF text
    <3> QED
      BY <2>2, AppendProperties, LenProperties DEF text
  <2>4. \A i \in 1 .. k + 1 : after[i] = texts[i]
    <3> HIDE DEF after, texts
    <3>1. \A i \in 1 .. k + 1 : i \in 1 .. k \/ i = k + 1
      BY <1>6
    <3> QED
      BY <1>6, <2>3, <3>1
  <2>5. k + 1 <= n
    BY <1>4, <1>8
  <2> QED
    BY <1>2, <2>1, <2>3, <2>4, <2>5 DEF Taken
<1>10. Frames(e, bound)'
  BY <1>2, <1>6, <1>9 DEF Frames
<1> QED
  BY <1>10

LEMMA FramesDispatched ==
  ASSUME TypeOK, DispatchInv, StreamInv, FrameInv, NEW e \in Ends, DispatchMessage(e)
  PROVE  FrameInv'
<1> DEFINE p == Peer(e)
<1>1. p \in Ends /\ p # e /\ Peer(p) = e /\ \A d \in Ends : d = e \/ d = p
  BY PeerType, TwoEnds
<1>2. /\ UNCHANGED <<sent, accepted, refused>>
      /\ delivered'[p] = delivered[p] /\ consumed'[p] = consumed[p]
  BY <1>1, DispatchMoves DEF DispatchMessage
<1>3. SentInv'
  BY <1>2 DEF FrameInv, SentInv
<1>4. FrameOf(p)'
  <2>1. FrameOf(p)
    BY <1>1 DEF FrameInv
  <2> QED
    BY <1>1, <1>2, <2>1, FrameAlone
<1>5. FrameOf(e)'
  <2> SUFFICES ASSUME ~refused[p]
               PROVE  \E bound \in Bounds(e) : Frames(e, bound)'
    BY <1>2 DEF FrameOf, Bounds
  <2>1. PICK bound \in Bounds(e) : Frames(e, bound)
    BY DEF FrameInv, FrameOf
  <2> QED
    BY <2>1, FrameDispatched
<1> QED
  BY <1>1, <1>3, <1>4, <1>5 DEF FrameInv

LEMMA StepFrames == IInv /\ FrameInv /\ [Next]_vars => FrameInv'
<1> SUFFICES ASSUME IInv, FrameInv, [Next]_vars PROVE FrameInv'
  OBVIOUS
<1>1. ASSUME NEW e \in Ends, SendText(e) PROVE FrameInv'
  BY <1>1, FramesSent DEF IInv
<1>2. ASSUME NEW e \in Ends, DispatchMessage(e) PROVE FrameInv'
  BY <1>2, FramesDispatched DEF IInv, DrainInv
<1>3. CASE UNCHANGED <<sent, accepted, refused, delivered, consumed>>
  BY <1>3, SameFrames
<1> QED
  BY <1>1, <1>2, <1>3, OtherSteps

LEMMA FramesAlways == Spec => []FrameInv
<1>1. Init => FrameInv
  BY InitFrames
<1>2. IInv /\ FrameInv /\ [Next]_vars => FrameInv'
  BY StepFrames
<1> QED
  BY <1>1, <1>2, Inductive, PTL DEF Spec

(***************************************************************************)
(* The callback is given the texts the peer passed to sendText, each once, *)
(* whole and in order, as long as the peer's transmit buffer never was     *)
(* full: the delimiter that _dispatchBinary finds in whatever part of the  *)
(* stream has arrived is always the one sendText put after the next text.  *)
(***************************************************************************)
THEOREM TextsInOrder == Spec => []MessagesInOrder
<1>1. TypeOK /\ FrameInv => MessagesInOrder
  <2> SUFFICES ASSUME TypeOK, FrameInv, NEW e \in Ends, ~refused[Peer(e)]
               PROVE  Prefix(delivered[e], SubSeq(Script[Peer(e)], 1, sent[Peer(e)]))
    BY DEF MessagesInOrder
  <2> DEFINE texts == Script[Peer(e)]
             n == sent[Peer(e)]
             got == delivered[e]
             k == Len(got)
             given == SubSeq(texts, 1, n)
  <2>1. /\ texts \in Seq(Seq(Byte)) /\ n \in 0 .. Len(texts) /\ Len(texts) \in Nat
        /\ got \in Seq(Seq(Byte)) /\ k \in Nat
    BY PeerType, ScriptType, LenProperties DEF TypeOK, FrameInv, SentInv
  <2>2. k <= n /\ \A i \in 1 .. k : got[i] = texts[i]
    BY DEF FrameInv, FrameOf, Frames, Taken
  <2> HIDE DEF texts, n, got
  <2>3. \A i \in 1 .. Len(texts) : texts[i] \in Seq(Byte)
    BY <2>1, ElementOfSeq
  <2>4. /\ given \in Seq(Seq(Byte)) /\ Len(given) = n
        /\ \A i \in 1 .. n : given[i] = texts[i]
    <3>1. given \in Seq(Seq(Byte)) /\ Len(given) = n
      BY <2>1, PartsType
    <3>2. \A i \in 1 .. n : given[i] = texts[i]
      BY <2>1, <2>3, SubSeqProperties
    <3> QED
      BY <3>1, <3>2
  <2> HIDE DEF given
  <2> DEFINE first == SubSeq(given, 1, k)
  <2>5. /\ first \in Seq(Seq(Byte)) /\ Len(first) = k
        /\ \A i \in 1 .. k : first[i] = given[i]
    <3>1. k \in 0 .. Len(given) /\ \A i \in 1 .. Len(given) : given[i] \in Seq(Byte)
      BY <2>1, <2>2, <2>4, ElementOfSeq
    <3>2. first \in Seq(Seq(Byte)) /\ Len(first) = k
      BY <2>4, <3>1, PartsType
    <3>3. \A i \in 1 .. k : first[i] = given[i]
      BY <2>1, <2>4, <3>1, SubSeqProperties
    <3> QED
      BY <3>2, <3>3
  <2> HIDE DEF first
  <2>6. \A i \in 1 .. k : first[i] = got[i]
    <3> HIDE DEF k
    <3>1. \A i \in 1 .. k : i \in 1 .. n
      BY <2>1, <2>2
    <3> QED
      BY <2>2, <2>4, <2>5, <3>1
  <2>7. got = first
    BY <2>1, <2>5, <2>6, SeqEqual
  <2> QED
    BY <2>2, <2>4, <2>7 DEF Prefix, first, given, got, texts, n
<1> QED
  BY <1>1, FramesAlways, Typed, PTL

----------------------------------------------------------------------------
(***************************************************************************)
(* Whole messages in a byte sequence, as Messages finds them.              *)
(***************************************************************************)
\* A function that grows at every number grows.
LEMMA Growing ==
  ASSUME NEW q \in Nat, NEW c \in [0 .. q -> Nat], \A i \in 1 .. q : c[i - 1] < c[i],
         NEW i \in 0 .. q, NEW j \in 0 .. q, i < j
  PROVE  c[i] < c[j]
<1> DEFINE T == {x \in i + 1 .. q : ~(c[i] < c[x])}
<1> SUFFICES ASSUME T # {} PROVE FALSE
  OBVIOUS
<1>1. T \in SUBSET Nat
  OBVIOUS
<1>2. PICK x \in T : \A y \in T : x <= y
  <2> HIDE DEF T
  <2> QED
    BY <1>1, LeastNumber
<1>3. /\ x \in 1 .. q /\ x - 1 \in 0 .. q /\ ~(c[i] < c[x]) /\ c[x - 1] < c[x]
      /\ c[i] \in Nat /\ c[x] \in Nat /\ c[x - 1] \in Nat /\ x >= i + 1
  OBVIOUS
<1>4. CASE x = i + 1
  BY <1>3, <1>4
<1>5. CASE x > i + 1
  <2>1. x - 1 \in i + 1 .. q /\ x - 1 \notin T
    BY <1>2, <1>3, <1>5
  <2>2. c[i] < c[x - 1]
    BY <2>1
  <2> QED
    BY <1>3, <2>2
<1> QED
  BY <1>3, <1>4, <1>5

\* How many values of a growing function there are, and how many up to the nth.
ValuesOf(d, n) == {d[x] : x \in 1 .. n}

LEMMA Counted ==
  ASSUME NEW q \in Nat, NEW d \in [1 .. q -> Nat],
         \A i, j \in 1 .. q : i < j => d[i] < d[j]
  PROVE  /\ Cardinality(ValuesOf(d, q)) = q
         /\ \A n \in 1 .. q : Cardinality(UpTo(ValuesOf(d, q), d[n])) = n
<1> DEFINE D == ValuesOf(d, q)
<1>1. \A i, j \in 1 .. q : d[i] = d[j] => i = j
  OBVIOUS
<1>2. ASSUME NEW n \in 0 .. q
      PROVE  Cardinality(ValuesOf(d, n)) = n
  <2> DEFINE I == 1 .. n
             V == {d[x] : x \in I}
             f == [x \in I |-> d[x]]
  <2>1. f \in [I -> V]
    OBVIOUS
  <2>2. \A a, b \in I : f[a] = f[b] => a = b
    BY <1>1
  <2>3. \A v \in V : \E a \in I : f[a] = v
    OBVIOUS
  <2>4. IsFiniteSet(I) /\ Cardinality(I) = n
    BY FS_Interval
  <2> HIDE DEF I, V, f
  <2>5. f \in Bijection(I, V)
    BY <2>1, <2>2, <2>3 DEF Bijection, Injection, Surjection, IsInjective
  <2>6. ExistsBijection(I, V)
    BY <2>5 DEF ExistsBijection
  <2>7. Cardinality(V) = n
    BY <2>4, <2>6, FS_Bijection
  <2> QED
    BY <2>7 DEF V, I, ValuesOf
<1>3. Cardinality(D) = q
  BY <1>2
<1>4. ASSUME NEW n \in 1 .. q
      PROVE  Cardinality(UpTo(D, d[n])) = n
  <2>1. \A x \in 1 .. q : d[x] <= d[n] <=> x <= n
    OBVIOUS
  <2>2. ASSUME NEW y \in UpTo(D, d[n])
        PROVE  y \in ValuesOf(d, n)
    <3>1. PICK x \in 1 .. q : y = d[x]
      BY DEF UpTo, ValuesOf
    <3>2. x \in 1 .. n
      BY <2>1, <3>1 DEF UpTo
    <3> QED
      BY <3>1, <3>2 DEF ValuesOf
  <2>3. ASSUME NEW y \in ValuesOf(d, n)
        PROVE  y \in UpTo(D, d[n])
    <3>1. PICK x \in 1 .. n : y = d[x]
      BY DEF ValuesOf
    <3>2. x \in 1 .. q /\ x <= n
      OBVIOUS
    <3> QED
      BY <2>1, <3>1, <3>2 DEF UpTo, ValuesOf
  <2>4. UpTo(D, d[n]) = ValuesOf(d, n)
    BY <2>2, <2>3
  <2>5. n \in 0 .. q
    OBVIOUS
  <2> QED
    BY <1>2, <2>4, <2>5
<1> QED
  BY <1>3, <1>4

\* In a text with its delimiter there is no other one.
LEMMA OnlyDelimiter ==
  ASSUME NEW text \in Seq(Byte), FirstDelimiter(text) = 0
  PROVE  /\ \A r \in 1 .. Len(text) : ~DelimiterAt(text \o Delimiter, r)
         /\ DelimiterAt(text \o Delimiter, Len(text) + 1)
         /\ (text \o Delimiter)[Len(text) + 2] # CR
<1> DEFINE framed == text \o Delimiter
<1>1. /\ Len(text) \in Nat
      /\ \A j \in 1 .. Len(text) : framed[j] = text[j]
      /\ framed[Len(text) + 1] = CR /\ framed[Len(text) + 2] = LF
  BY FramedIs
<1>2. \A i \in 1 .. Len(text) - 1 : ~DelimiterAt(text, i)
  BY <1>1, FirstDelimiterIs
<1> HIDE DEF framed
<1>3. ASSUME NEW r \in 1 .. Len(text)
      PROVE  ~DelimiterAt(framed, r)
  <2>1. CASE r = Len(text)
    BY <1>1, <2>1, SocketChatAssumption DEF DelimiterAt
  <2>2. CASE r \in 1 .. Len(text) - 1
    <3>1. framed[r] = text[r] /\ framed[r + 1] = text[r + 1]
      BY <1>1, <2>2
    <3> QED
      BY <1>2, <2>2, <3>1 DEF DelimiterAt
  <2> QED
    BY <1>1, <2>1, <2>2
<1>4. Len(text) + 1 + 1 = Len(text) + 2
  BY <1>1
<1>5. DelimiterAt(framed, Len(text) + 1) /\ framed[Len(text) + 2] # CR
  BY <1>1, <1>4, SocketChatAssumption DEF DelimiterAt
<1> QED
  BY <1>3, <1>5 DEF framed

(***************************************************************************)
(* A byte sequence that begins with texts and their delimiters, the first  *)
(* i of them up to end[i], and has no delimiter after them.                *)
(***************************************************************************)
Holding(content, texts, end) ==
  /\ end[0] = 0 /\ end[Len(texts)] <= Len(content)
  /\ \A i \in 1 .. Len(texts) : end[i] = end[i - 1] + Len(texts[i]) + 2
  /\ \A i \in 1 .. Len(texts) : \A j \in 1 .. Len(texts[i]) + 2 :
       content[end[i - 1] + j] = (texts[i] \o Delimiter)[j]
  /\ \A p \in end[Len(texts)] + 1 .. Len(content) - 1 : ~DelimiterAt(content, p)

\* Every delimiter in it is that of a text.
LEMMA DelimitersAre ==
  ASSUME NEW content \in Seq(Byte), NEW texts \in Seq(Seq(Byte)),
         \A i \in 1 .. Len(texts) : FirstDelimiter(texts[i]) = 0,
         NEW end \in [0 .. Len(texts) -> Nat], Holding(content, texts, end)
  PROVE  /\ Delimiters(content) = {end[i] - 1 : i \in 1 .. Len(texts)}
         /\ \A i \in 1 .. Len(texts) : end[i] - 1 \in Nat
         /\ \A i \in 0 .. Len(texts) : end[i] <= Len(content)
         /\ \A i, j \in 0 .. Len(texts) : i < j => end[i] < end[j]
<1> DEFINE q == Len(texts)
<1>1. /\ q \in Nat /\ Len(content) \in Nat
      /\ \A i \in 1 .. q : texts[i] \in Seq(Byte) /\ Len(texts[i]) \in Nat
  BY LenProperties, ElementOfSeq
<1>2. /\ end[0] = 0 /\ end[q] <= Len(content)
      /\ \A i \in 1 .. q : end[i] = end[i - 1] + Len(texts[i]) + 2
      /\ \A p \in end[q] + 1 .. Len(content) - 1 : ~DelimiterAt(content, p)
  BY DEF Holding
<1>3. \A i \in 1 .. q : \A j \in 1 .. Len(texts[i]) + 2 :
        content[end[i - 1] + j] = (texts[i] \o Delimiter)[j]
  BY DEF Holding
<1>4. /\ end \in [0 .. q -> Nat]
      /\ \A i \in 1 .. q : FirstDelimiter(texts[i]) = 0
  OBVIOUS
<1> HIDE DEF q
<1>5. ASSUME NEW i \in 1 .. q
      PROVE  /\ i - 1 \in 0 .. q /\ end[i - 1] \in Nat /\ end[i] \in Nat
             /\ Len(texts[i]) \in Nat /\ end[i] = end[i - 1] + Len(texts[i]) + 2
             /\ end[i - 1] < end[i]
  <2>1. i - 1 \in 0 .. q /\ i \in 0 .. q
    BY <1>1
  <2> DEFINE before == end[i - 1]
             after == end[i]
             long == Len(texts[i])
  <2>2. before \in Nat /\ after \in Nat /\ long \in Nat /\ after = before + long + 2
    BY <1>1, <1>2, <1>4, <2>1
  <2> HIDE DEF before, after, long
  <2>3. before < after
    BY <2>2
  <2> QED
    BY <2>1, <2>2, <2>3 DEF before, after, long
<1>6. \A i, j \in 0 .. q : i < j => end[i] < end[j]
  BY <1>1, <1>4, <1>5, Growing
<1>7. \A i \in 0 .. q : end[i] <= Len(content)
  <2> SUFFICES ASSUME NEW i \in 0 .. q PROVE end[i] <= Len(content)
    OBVIOUS
  <2>1. i = q \/ i < q
    BY <1>1
  <2>2. q \in 0 .. q /\ end[i] \in Nat /\ end[q] \in Nat
    BY <1>1, <1>4
  <2> QED
    BY <1>1, <1>2, <1>6, <2>1, <2>2
\* Inside a text and its delimiter.
<1>8. ASSUME NEW i \in 1 .. q, NEW r \in 1 .. Len(texts[i]) + 2
      PROVE  end[i - 1] + r \in Delimiters(content) <=> r = Len(texts[i]) + 1
  <2> DEFINE text == texts[i]
             long == Len(text)
             framed == text \o Delimiter
             before == end[i - 1]
             p == before + r
  <2>1. /\ text \in Seq(Byte) /\ long \in Nat /\ FirstDelimiter(text) = 0
        /\ end[i] = before + long + 2 /\ before \in Nat /\ end[i] <= Len(content)
    <3>1. i \in 0 .. q
      BY <1>1
    <3> QED
      BY <1>1, <1>4, <1>5, <1>7, <3>1
  <2>2. \A j \in 1 .. long + 2 : content[before + j] = framed[j]
    BY <1>3
  <2>3. /\ \A j \in 1 .. long : ~DelimiterAt(framed, j)
        /\ DelimiterAt(framed, long + 1)
        /\ framed[long + 2] # CR
    BY <2>1, OnlyDelimiter
  <2>4. r \in 1 .. long + 2
    OBVIOUS
  <2> HIDE DEF framed, long, before, text
  <2>5. before + long + 2 <= Len(content)
    BY <2>1
  <2>6. CASE r = long + 2
    <3>1. content[p] = framed[long + 2] /\ r # long + 1
      BY <2>1, <2>2, <2>4, <2>6
    <3> QED
      BY <2>3, <3>1 DEF Delimiters, DelimiterAt, before, long, text
  <2>7. CASE r \in 1 .. long + 1
    <3>1. r \in 1 .. long + 2 /\ r + 1 \in 1 .. long + 2 /\ p + 1 = before + (r + 1)
      BY <2>1, <2>7
    <3>2. content[p] = framed[r] /\ content[p + 1] = framed[r + 1]
      BY <2>2, <3>1
    <3>3. DelimiterAt(content, p) <=> DelimiterAt(framed, r)
      BY <3>2 DEF DelimiterAt
    <3>4. DelimiterAt(framed, r) <=> r = long + 1
      <4>1. r \in 1 .. long \/ r = long + 1
        BY <2>1, <2>7
      <4>2. long + 1 \notin 1 .. long
        BY <2>1
      <4> QED
        BY <2>3, <4>1, <4>2
    <3>5. p \in 1 .. Len(content) - 1
      BY <1>1, <2>1, <2>5, <2>7
    <3> HIDE DEF p
    <3>6. p \in Delimiters(content) <=> r = long + 1
      BY <3>3, <3>4, <3>5 DEF Delimiters
    <3> QED
      BY <3>6 DEF p, before, long, text
  <2>8. r = long + 2 \/ r \in 1 .. long + 1
    BY <2>1, <2>4
  <2> QED
    BY <2>6, <2>7, <2>8
<1>9. ASSUME NEW i \in 1 .. q
      PROVE  end[i] - 1 \in Delimiters(content) /\ end[i] - 1 \in Nat
  <2> DEFINE long == Len(texts[i])
             before == end[i - 1]
  <2>1. long \in Nat /\ before \in Nat /\ end[i] = before + long + 2
    BY <1>5
  <2>2. before + (long + 1) \in Delimiters(content)
    <3>1. long + 1 \in 1 .. long + 2
      BY <2>1
    <3> QED
      BY <1>8, <3>1
  <2> HIDE DEF long, before
  <2>3. end[i] - 1 = before + (long + 1) /\ before + (long + 1) \in Nat
    BY <2>1
  <2> QED
    BY <2>2, <2>3
<1>10. ASSUME NEW p \in Delimiters(content)
      PROVE  \E i \in 1 .. q : p = end[i] - 1
  <2>1. p \in 1 .. Len(content) - 1 /\ DelimiterAt(content, p) /\ p \in Nat
    BY DEF Delimiters
  <2>2. p <= end[q]
    <3>1. end[q] \in Nat
      BY <1>1, <1>4
    <3> QED
      BY <1>1, <1>2, <2>1, <3>1
  <2> DEFINE T == {x \in 0 .. q : p <= end[x]}
  <2>3. T \in SUBSET Nat /\ T # {}
    <3>1. q \in 0 .. q
      BY <1>1
    <3> QED
      BY <2>2, <3>1
  <2>4. PICK i \in T : \A y \in T : i <= y
    <3> HIDE DEF T
    <3> QED
      BY <2>3, LeastNumber
  <2>5. i \in 1 .. q /\ p <= end[i]
    BY <1>1, <1>2, <2>1, <2>4
  <2>6. end[i - 1] < p
    <3>1. i - 1 \in 0 .. q /\ i - 1 \notin T /\ end[i - 1] \in Nat
      BY <1>1, <1>5, <2>4, <2>5
    <3> QED
      BY <2>1, <3>1
  <2> HIDE DEF T
  <2> DEFINE before == end[i - 1]
             long == Len(texts[i])
             r == p - before
  <2>7. end[i] = before + long + 2 /\ long \in Nat /\ before \in Nat
    BY <1>5, <2>5
  <2>8. before < p /\ p <= before + long + 2
    BY <2>5, <2>6, <2>7
  <2>9. r \in 1 .. long + 2 => (before + r \in Delimiters(content) <=> r = long + 1)
    BY <1>8, <2>5
  <2> HIDE DEF before, long
  <2>10. r \in 1 .. long + 2 /\ before + r = p
    BY <2>1, <2>7, <2>8
  <2>11. r = long + 1
    BY <2>9, <2>10
  <2>12. p = before + long + 2 - 1
    BY <2>1, <2>7, <2>11
  <2> QED
    BY <2>5, <2>7, <2>12
<1>11. Delimiters(content) = {end[i] - 1 : i \in 1 .. q}
  BY <1>9, <1>10
<1> QED
  BY <1>6, <1>7, <1>9, <1>11 DEF q

\* So the messages are the texts.
LEMMA MessagesAre ==
  ASSUME NEW content \in Seq(Byte), NEW texts \in Seq(Seq(Byte)),
         \A i \in 1 .. Len(texts) : FirstDelimiter(texts[i]) = 0,
         NEW end \in [0 .. Len(texts) -> Nat], Holding(content, texts, end)
  PROVE  Messages(content) = texts
<1> DEFINE q == Len(texts)
           d == [i \in 1 .. q |-> end[i] - 1]
           D == Delimiters(content)
<1>1. /\ q \in Nat /\ Len(content) \in Nat
      /\ \A i \in 1 .. q : texts[i] \in Seq(Byte) /\ Len(texts[i]) \in Nat
  BY LenProperties, ElementOfSeq
<1>2. /\ D = {end[i] - 1 : i \in 1 .. q}
      /\ \A i \in 1 .. q : end[i] - 1 \in Nat
      /\ \A i \in 0 .. q : end[i] <= Len(content)
      /\ \A i, j \in 0 .. q : i < j => end[i] < end[j]
  BY DelimitersAre
<1>3. /\ end \in [0 .. q -> Nat] /\ end[0] = 0
      /\ \A i \in 1 .. q : end[i] = end[i - 1] + Len(texts[i]) + 2
  BY DEF Holding
<1>4. \A i \in 1 .. q : \A j \in 1 .. Len(texts[i]) + 2 :
        content[end[i - 1] + j] = (texts[i] \o Delimiter)[j]
  BY DEF Holding
<1> HIDE DEF q, D
<1>5. /\ d \in [1 .. q -> Nat] /\ \A i \in 1 .. q : d[i] = end[i] - 1
      /\ D = ValuesOf(d, q)
  BY <1>2 DEF ValuesOf
<1> HIDE DEF d
<1>6. ASSUME NEW i \in 1 .. q, NEW j \in 1 .. q, i < j
      PROVE  d[i] < d[j]
  <2>1. i \in 0 .. q /\ j \in 0 .. q
    BY <1>1
  <2>2. end[i] < end[j] /\ end[i] \in Nat /\ end[j] \in Nat
    BY <1>2, <1>3, <1>6, <2>1
  <2> QED
    BY <1>5, <2>2
<1>7. /\ Cardinality(D) = q
      /\ \A n \in 1 .. q : Cardinality(UpTo(D, d[n])) = n
  <2>1. \A i, j \in 1 .. q : i < j => d[i] < d[j]
    BY <1>6
  <2>2. /\ Cardinality(ValuesOf(d, q)) = q
        /\ \A n \in 1 .. q : Cardinality(UpTo(ValuesOf(d, q), d[n])) = n
    BY <1>1, <1>5, <2>1, Counted
  <2> QED
    BY <1>5, <2>2
<1>8. ASSUME NEW n \in 1 .. q
      PROVE  NthDelimiter(content, n) = end[n] - 1
  <2>1. d[n] \in D /\ Cardinality(UpTo(D, d[n])) = n
    BY <1>5, <1>7 DEF ValuesOf
  <2>2. ASSUME NEW i \in D, Cardinality(UpTo(D, i)) = n
        PROVE  i = d[n]
    <3>1. PICK x \in 1 .. q : i = d[x]
      BY <1>5 DEF ValuesOf
    <3>2. x = n
      BY <1>7, <2>2, <3>1
    <3> QED
      BY <3>1, <3>2
  <2>3. NthDelimiter(content, n) = d[n]
    BY <2>1, <2>2 DEF NthDelimiter, D
  <2> QED
    BY <1>5, <2>3
<1>9. ASSUME NEW n \in 1 .. q
      PROVE  MessageStart(content, n) = end[n - 1] + 1
  <2>1. CASE n = 1
    BY <1>3, <2>1 DEF MessageStart
  <2>2. CASE n # 1
    <3>1. n - 1 \in 1 .. q /\ end[n - 1] \in Nat
      BY <1>1, <1>3, <2>2
    <3>2. NthDelimiter(content, n - 1) = end[n - 1] - 1
      BY <1>8, <3>1
    <3>3. Len(Delimiter) = 2
      BY DEF Delimiter
    <3> QED
      BY <2>2, <3>1, <3>2, <3>3 DEF MessageStart
  <2> QED
    BY <2>1, <2>2
<1>10. ASSUME NEW n \in 1 .. q
       PROVE  SubSeq(content, MessageStart(content, n), NthDelimiter(content, n) - 1) = texts[n]
  <2> DEFINE text == texts[n]
             long == Len(text)
             framed == text \o Delimiter
             before == end[n - 1]
             from == before + 1
             to == before + long
             part == SubSeq(content, from, to)
  <2>1. /\ text \in Seq(Byte) /\ long \in Nat
        /\ end[n] = before + long + 2 /\ before \in Nat /\ end[n] <= Len(content)
    <3>1. n \in 0 .. q /\ n - 1 \in 0 .. q
      BY <1>1
    <3> QED
      BY <1>1, <1>2, <1>3, <3>1
  <2>2. \A j \in 1 .. long + 2 : content[before + j] = framed[j]
    BY <1>4
  <2>3. \A j \in 1 .. long : framed[j] = text[j]
    BY <2>1, FramedIs
  <2>4. SubSeq(content, MessageStart(content, n), NthDelimiter(content, n) - 1) = part
    <3>1. MessageStart(content, n) = before + 1 /\ NthDelimiter(content, n) = end[n] - 1
      BY <1>8, <1>9
    <3> HIDE DEF before, long
    <3>2. end[n] - 1 - 1 = before + long
      BY <2>1
    <3> QED
      BY <3>1, <3>2
  <2> HIDE DEF framed, long, before
  <2>5. \A x \in from .. to : content[x] \in Byte
    <3>1. \A x \in from .. to : x \in 1 .. Len(content)
      BY <1>1, <2>1
    <3> QED
      BY <3>1, ElementOfSeq
  <2>6. /\ part \in Seq(Byte)
        /\ Len(part) = IF from <= to THEN to - from + 1 ELSE 0
        /\ \A j \in 1 .. to - from + 1 : part[j] = content[from + j - 1]
    <3>1. from \in Int /\ to \in Int
      BY <2>1
    <3> HIDE DEF from, to
    <3> QED
      BY <2>5, <3>1, SubSeqProperties
  <2> HIDE DEF part
  <2>7. Len(part) = long /\ \A j \in 1 .. long : part[j] = content[before + j]
    BY <2>1, <2>6
  <2>8. \A j \in 1 .. long : part[j] = text[j]
    <3>1. \A j \in 1 .. long : j \in 1 .. long + 2
      BY <2>1
    <3> QED
      BY <2>2, <2>3, <2>7, <3>1
  <2>9. part = text
    BY <2>1, <2>6, <2>7, <2>8, SeqEqual DEF long
  <2> QED
    BY <2>4, <2>9
<1> DEFINE m == Messages(content)
<1>11. m = [n \in 1 .. q |-> texts[n]]
  <2>1. m = [n \in 1 .. q |-> SubSeq(content, MessageStart(content, n), NthDelimiter(content, n) - 1)]
    BY <1>7 DEF Messages, D
  <2> QED
    BY <1>10, <2>1
<1>12. texts = [n \in 1 .. q |-> texts[n]]
  BY SeqDef DEF q
<1> QED
  BY <1>11, <1>12

(***************************************************************************)
(* How many of n texts a stream holds in its first so many bytes.          *)
(***************************************************************************)
Reaches(bound, n, long, m) ==
  /\ m \in 0 .. n /\ bound[m] <= long
  /\ m < n => long < bound[m + 1]

\* The bounds of texts grow from each to the next.
LEMMA BoundsGrow ==
  ASSUME NEW stream \in Seq(Byte), NEW texts \in Seq(Seq(Byte)), NEW n \in Nat, n <= Len(texts),
         NEW bound \in Cuts(n), Framing(stream, texts, n, bound)
  PROVE  /\ \A i \in 0 .. n : bound[i] \in Nat
         /\ \A i \in 1 .. n : /\ texts[i] \in Seq(Byte) /\ Len(texts[i]) \in Nat
                              /\ bound[i] = bound[i - 1] + Len(texts[i]) + 2
         /\ \A i, j \in 0 .. n : i < j => bound[i] < bound[j]
<1>1. Len(texts) \in Nat /\ \A i \in 1 .. Len(texts) : texts[i] \in Seq(Byte) /\ Len(texts[i]) \in Nat
  BY LenProperties, ElementOfSeq
<1>2. bound \in [0 .. n -> Nat]
  BY DEF Cuts
<1>3. ASSUME NEW i \in 1 .. n
      PROVE  /\ texts[i] \in Seq(Byte) /\ Len(texts[i]) \in Nat
             /\ bound[i] = bound[i - 1] + Len(texts[i]) + 2
             /\ bound[i - 1] < bound[i]
  <2> DEFINE before == bound[i - 1]
             after == bound[i]
             long == Len(texts[i])
  <2>1. i \in 1 .. Len(texts) /\ i - 1 \in 0 .. n /\ i \in 0 .. n
    BY <1>1
  <2>2. texts[i] \in Seq(Byte) /\ long \in Nat /\ before \in Nat /\ after \in Nat
    BY <1>1, <1>2, <2>1
  <2>3. after = before + long + 2
    BY DEF Framing
  <2> HIDE DEF before, after, long
  <2>4. before < after
    BY <2>2, <2>3
  <2> QED
    BY <2>2, <2>3, <2>4 DEF before, after, long
<1>4. \A i, j \in 0 .. n : i < j => bound[i] < bound[j]
  <2>1. \A i \in 1 .. n : bound[i - 1] < bound[i]
    BY <1>3
  <2> QED
    BY <1>2, <2>1, Growing
<1> QED
  BY <1>2, <1>3, <1>4

\* Some number of texts is reached, and with fewer bytes no more.
LEMMA ReachedIs ==
  ASSUME NEW n \in Nat, NEW bound \in [0 .. n -> Nat], bound[0] = 0, NEW long \in Nat
  PROVE  \E m \in Nat : Reaches(bound, n, long, m)
<1> DEFINE T == {m \in 0 .. n : m < n => long < bound[m + 1]}
<1>1. T \in SUBSET Nat /\ n \in T
  OBVIOUS
<1>2. PICK m \in T : \A x \in T : m <= x
  <2> HIDE DEF T
  <2> QED
    BY <1>1, LeastNumber
<1>3. bound[m] <= long
  <2>1. CASE m = 0
    BY <2>1
  <2>2. CASE m # 0
    <3>1. m \in 0 .. n
      OBVIOUS
    <3>2. m - 1 \in 0 .. n /\ m - 1 < n /\ m - 1 + 1 = m /\ ~(m <= m - 1)
      BY <2>2, <3>1
    <3>3. m - 1 \notin T
      BY <1>2, <3>2
    <3>4. ~(long < bound[m]) /\ bound[m] \in Nat
      BY <3>1, <3>2, <3>3
    <3> QED
      BY <3>4
  <2> QED
    BY <2>1, <2>2
<1> QED
  BY <1>2, <1>3 DEF Reaches

LEMMA ReachedGrows ==
  ASSUME NEW n \in Nat, NEW bound \in [0 .. n -> Nat],
         \A i, j \in 0 .. n : i < j => bound[i] < bound[j],
         NEW short \in Nat, NEW long \in Nat, short <= long, NEW m \in Nat, NEW k \in Nat,
         Reaches(bound, n, short, m), Reaches(bound, n, long, k)
  PROVE  m <= k
<1> SUFFICES ASSUME k < m PROVE FALSE
  OBVIOUS
<1>1. m \in 0 .. n /\ k \in 0 .. n /\ k + 1 \in 0 .. n /\ k < n
  BY DEF Reaches
<1> DEFINE a == bound[m]
           b == bound[k + 1]
<1>2. a <= short /\ long < b
  BY <1>1 DEF Reaches
<1>3. a \in Nat /\ b \in Nat
  BY <1>1
<1>4. b <= a
  <2>1. k + 1 = m \/ k + 1 < m
    BY <1>1
  <2>2. b = a \/ b < a
    BY <1>1, <2>1
  <2> HIDE DEF a, b
  <2> QED
    BY <1>3, <2>2
<1> HIDE DEF a, b
<1> QED
  BY <1>2, <1>3, <1>4

(***************************************************************************)
(* What the bytes after some texts hold is the texts that follow, as far   *)
(* as all of their bytes are there.                                        *)
(***************************************************************************)
LEMMA Decoded ==
  ASSUME NEW stream \in Seq(Byte), NEW texts \in Seq(Seq(Byte)), NEW n \in Nat,
         NEW bound \in Cuts(n), NEW done \in Seq(Byte), NEW content \in Seq(Byte),
         NEW k \in Nat, NEW m \in Nat,
         AfterTexts(stream, texts, n, bound, done, content, k),
         Reaches(bound, n, Len(done) + Len(content), m)
  PROVE  k <= m /\ Messages(content) = SubSeq(texts, k + 1, m)
<1> DEFINE all == Len(done) + Len(content)
           start == bound[k]
           msgs == SubSeq(texts, k + 1, m)
           q == m - k
           end == [i \in 0 .. q |-> bound[k + i] - start]
<1>1. /\ n <= Len(texts) /\ k \in 0 .. n /\ Len(done) = start
      /\ Len(texts) \in Nat /\ Len(content) \in Nat /\ Len(done) \in Nat
      /\ m \in 0 .. n /\ bound[m] <= all
      /\ m < n => all < bound[m + 1]
  BY LenProperties DEF AfterTexts, Reaches
<1>2. /\ \A i \in 0 .. n : bound[i] \in Nat
      /\ \A i \in 1 .. n : /\ texts[i] \in Seq(Byte) /\ Len(texts[i]) \in Nat
                           /\ bound[i] = bound[i - 1] + Len(texts[i]) + 2
      /\ \A i, j \in 0 .. n : i < j => bound[i] < bound[j]
  BY BoundsGrow DEF AfterTexts
<1>3. /\ bound[n] = Len(stream)
      /\ \A i \in 1 .. n : \A j \in 1 .. Len(texts[i]) + 2 :
           stream[bound[i - 1] + j] = (texts[i] \o Delimiter)[j]
  BY DEF AfterTexts, Framing
<1>4. /\ all <= Len(stream)
      /\ \A j \in 1 .. Len(content) : stream[start + j] = content[j]
  <2>1. Prefix(done \o content, stream)
    BY DEF AfterTexts
  <2>2. /\ Len(done) + Len(content) <= Len(stream)
        /\ \A j \in 1 .. Len(content) : stream[Len(done) + j] = content[j]
    BY <2>1, PrefixBytes
  <2> QED
    BY <1>1, <2>2
<1>5. k <= m
  <2>1. Reaches(bound, n, start, k)
    <3>1. k < n => bound[k] < bound[k + 1]
      BY <1>1, <1>2
    <3>2. bound[k] <= bound[k]
      BY <1>1, <1>2
    <3> QED
      BY <1>1, <3>1, <3>2 DEF Reaches
  <2>2. bound \in [0 .. n -> Nat] /\ start \in Nat /\ all \in Nat /\ start <= all
    BY <1>1, <1>2 DEF Cuts
  <2> HIDE DEF start, all
  <2>3. Reaches(bound, n, all, m)
    BY DEF all
  <2> QED
    BY <1>2, <2>1, <2>2, <2>3, ReachedGrows
<1>6. q \in Nat /\ k + q = m /\ \A i \in 0 .. q : k + i \in 0 .. n
  BY <1>1, <1>5
<1> HIDE DEF q
<1>7. /\ msgs \in Seq(Seq(Byte)) /\ Len(msgs) = q
      /\ \A i \in 1 .. q : msgs[i] = texts[k + i]
  <2>1. \A x \in k + 1 .. m : texts[x] \in Seq(Byte)
    BY <1>1, <1>2
  <2>2. /\ msgs \in Seq(Seq(Byte))
        /\ Len(msgs) = IF k + 1 <= m THEN m - (k + 1) + 1 ELSE 0
        /\ \A i \in 1 .. m - (k + 1) + 1 : msgs[i] = texts[k + 1 + i - 1]
    <3> DEFINE from == k + 1
    <3>1. from \in Int /\ \A x \in from .. m : texts[x] \in Seq(Byte)
      BY <2>1
    <3> HIDE DEF from
    <3>2. /\ SubSeq(texts, from, m) \in Seq(Seq(Byte))
          /\ Len(SubSeq(texts, from, m)) = IF from <= m THEN m - from + 1 ELSE 0
          /\ \A i \in 1 .. m - from + 1 : SubSeq(texts, from, m)[i] = texts[from + i - 1]
      BY <3>1, SubSeqProperties
    <3> QED
      BY <3>2 DEF from
  <2> HIDE DEF msgs
  <2> QED
    BY <1>5, <1>6, <2>2
<1> HIDE DEF msgs
<1>8. /\ end \in [0 .. q -> Nat]
      /\ \A i \in 0 .. q : end[i] = bound[k + i] - start /\ bound[k + i] = start + end[i]
  <2>1. ASSUME NEW i \in 0 .. q
        PROVE  bound[k + i] - start \in Nat /\ bound[k + i] = start + (bound[k + i] - start)
    <3> DEFINE b == bound[k + i]
    <3>1. b \in Nat /\ start \in Nat /\ start <= b
      <4>1. k + i = k \/ k < k + i
        BY <1>6
      <4>2. b = start \/ start < b
        BY <1>1, <1>2, <1>6, <4>1
      <4>3. b \in Nat /\ start \in Nat
        BY <1>1, <1>2, <1>6
      <4> HIDE DEF b, start
      <4> QED
        BY <4>2, <4>3
    <3> HIDE DEF b, start
    <3>2. b - start \in Nat /\ b = start + (b - start)
      BY <3>1
    <3> QED
      BY <3>2 DEF b
  <2> HIDE DEF start
  <2> QED
    BY <2>1
<1> HIDE DEF end
<1>9. ASSUME NEW i \in 1 .. q
      PROVE  /\ k + i \in 1 .. n /\ i - 1 \in 0 .. q /\ i \in 0 .. q
             /\ Len(msgs[i]) \in Nat /\ end[i] \in Nat /\ end[i - 1] \in Nat
             /\ end[i] = end[i - 1] + Len(msgs[i]) + 2
  <2>1. k + i \in 1 .. n /\ i - 1 \in 0 .. q /\ i \in 0 .. q /\ (k + i) - 1 = k + (i - 1)
    BY <1>1, <1>6
  <2>2. msgs[i] = texts[k + i]
    BY <1>7
  <2> DEFINE a == end[i - 1]
             b == end[i]
             long == Len(msgs[i])
  <2>3. start + b = start + a + long + 2
    <3>1. bound[k + i] = bound[(k + i) - 1] + Len(texts[k + i]) + 2
      BY <1>2, <2>1
    <3> HIDE DEF start
    <3> QED
      BY <1>8, <2>1, <2>2, <3>1
  <2>4. start \in Nat /\ a \in Nat /\ b \in Nat /\ long \in Nat
    BY <1>1, <1>2, <1>8, <2>1, <2>2
  <2> HIDE DEF a, b, long, start
  <2>5. b = a + long + 2
    BY <2>3, <2>4
  <2> QED
    BY <2>1, <2>4, <2>5 DEF a, b, long
<1>10. end[0] = 0 /\ end[q] \in Nat /\ end[q] <= Len(content) /\ bound[m] = start + end[q]
  <2> DEFINE last == end[q]
             zero == end[0]
  <2>1. bound[m] = start + last /\ start + last <= start + Len(content)
    <3>1. q \in 0 .. q /\ k + q = m
      BY <1>6
    <3> HIDE DEF start
    <3>2. bound[k + q] = start + last
      BY <1>8, <3>1
    <3>3. bound[m] = start + last
      BY <3>1, <3>2
    <3> QED
      BY <1>1, <3>3
  <2>2. bound[k] = start + zero /\ bound[k] = start
    BY <1>6, <1>8
  <2>3. last \in Nat /\ zero \in Nat /\ start \in Nat
    BY <1>1, <1>6, <1>8
  <2> HIDE DEF last, zero, start
  <2>4. zero = 0 /\ last <= Len(content)
    BY <1>1, <2>1, <2>2, <2>3
  <2> QED
    BY <2>1, <2>3, <2>4 DEF last, zero
<1>11. \A i \in 0 .. q : end[i] <= end[q]
  <2> SUFFICES ASSUME NEW i \in 0 .. q PROVE end[i] <= end[q]
    OBVIOUS
  <2>1. i = q \/ i < q
    BY <1>6
  <2>2. \A x \in 1 .. q : end[x - 1] < end[x]
    <3> SUFFICES ASSUME NEW x \in 1 .. q PROVE end[x - 1] < end[x]
      OBVIOUS
    <3> DEFINE a == end[x - 1]
               b == end[x]
               long == Len(msgs[x])
    <3>1. b = a + long + 2 /\ a \in Nat /\ b \in Nat /\ long \in Nat
      BY <1>9
    <3> HIDE DEF a, b, long
    <3>2. a < b
      BY <3>1
    <3> QED
      BY <3>2 DEF a, b
  <2>3. i < q => end[i] < end[q]
    <3>1. q \in 0 .. q
      BY <1>6
    <3> QED
      BY <1>6, <1>8, <2>2, <3>1, Growing
  <2>4. end[i] \in Nat
    BY <1>8
  <2> QED
    BY <1>10, <2>1, <2>3, <2>4
<1>12. ASSUME NEW i \in 1 .. q, NEW j \in 1 .. Len(msgs[i]) + 2
       PROVE  content[end[i - 1] + j] = (msgs[i] \o Delimiter)[j]
  <2> DEFINE a == end[i - 1]
             b == end[i]
             long == Len(msgs[i])
             framed == msgs[i] \o Delimiter
  <2>1. b = a + long + 2 /\ a \in Nat /\ b \in Nat /\ long \in Nat /\ b <= Len(content)
    <3>1. b <= end[q] /\ b \in Nat
      BY <1>9, <1>11
    <3>2. b <= Len(content)
      BY <1>1, <1>10, <3>1
    <3> QED
      BY <1>9, <3>2
  <2>2. j \in 1 .. long + 2 /\ start \in Nat
    BY <1>1, <1>2
  <2>3. stream[start + a + j] = framed[j]
    <3>1. k + i \in 1 .. n /\ (k + i) - 1 = k + (i - 1) /\ msgs[i] = texts[k + i]
      BY <1>7, <1>9
    <3>2. stream[bound[(k + i) - 1] + j] = (texts[k + i] \o Delimiter)[j]
      <4> DEFINE x == k + i
      <4>1. x \in 1 .. n /\ j \in 1 .. Len(texts[x]) + 2
        BY <3>1
      <4> HIDE DEF x
      <4>2. stream[bound[x - 1] + j] = (texts[x] \o Delimiter)[j]
        BY <1>3, <4>1
      <4> QED
        BY <4>2 DEF x
    <3>3. bound[(k + i) - 1] = start + a
      BY <1>8, <1>9, <3>1
    <3> HIDE DEF start, a
    <3> QED
      BY <3>1, <3>2, <3>3
  <2> HIDE DEF a, b, long, framed, start
  <2>4. a + j \in 1 .. Len(content) /\ start + a + j = start + (a + j)
    BY <1>1, <2>1, <2>2
  <2>5. content[a + j] = framed[j]
    BY <1>4, <2>3, <2>4
  <2> QED
    BY <2>5 DEF a, framed
<1>13. ASSUME NEW p \in end[q] + 1 .. Len(content) - 1
       PROVE  ~DelimiterAt(content, p)
  <2> DEFINE last == end[q]
  <2>1. last \in Nat /\ start \in Nat /\ bound[m] = start + last /\ p \in last + 1 .. Len(content) - 1
    BY <1>1, <1>2, <1>10
  <2>2. start + Len(content) <= Len(stream) /\ Len(stream) \in Nat
    BY <1>1, <1>4, LenProperties
  <2> HIDE DEF last, start
  <2>3. m # n
    BY <1>1, <1>3, <2>1, <2>2
  <2>4. m + 1 \in 1 .. n /\ m + 1 - 1 = m
    BY <1>1, <2>3
  <2> DEFINE text == texts[m + 1]
             framed == text \o Delimiter
             long == Len(text)
             r == p - last
  <2>5. /\ text \in Seq(Byte) /\ long \in Nat
        /\ bound[m + 1] = start + last + long + 2
        /\ \A j \in 1 .. long + 2 : stream[start + last + j] = framed[j]
    <3> DEFINE x == m + 1
    <3>1. x \in 1 .. n /\ x - 1 = m
      BY <2>4
    <3> HIDE DEF x
    <3>2. /\ texts[x] \in Seq(Byte) /\ Len(texts[x]) \in Nat
          /\ bound[x] = bound[m] + Len(texts[x]) + 2
          /\ \A j \in 1 .. Len(texts[x]) + 2 : stream[bound[m] + j] = (texts[x] \o Delimiter)[j]
      BY <1>2, <1>3, <3>1
    <3> QED
      BY <2>1, <3>2 DEF x
  <2>6. start + Len(content) < start + last + long + 2
    BY <1>1, <2>3, <2>5 DEF start
  <2>8. \A j \in 1 .. long : ~DelimiterAt(framed, j)
    <3>1. FirstDelimiter(text) = 0
      BY <2>4 DEF AfterTexts
    <3> QED
      BY <2>5, <3>1, OnlyDelimiter
  <2> HIDE DEF framed, long, text
  <2>9. /\ r \in 1 .. long /\ r \in 1 .. long + 2 /\ r + 1 \in 1 .. long + 2
        /\ p \in 1 .. Len(content) /\ p + 1 \in 1 .. Len(content)
        /\ start + last + r = start + p /\ start + last + (r + 1) = start + (p + 1)
    BY <1>1, <2>1, <2>5, <2>6
  <2> HIDE DEF r
  <2>10. content[p] = framed[r] /\ content[p + 1] = framed[r + 1]
    <3>1. stream[start + last + r] = framed[r] /\ stream[start + last + (r + 1)] = framed[r + 1]
      BY <2>5, <2>9
    <3>2. stream[start + p] = content[p] /\ stream[start + (p + 1)] = content[p + 1]
      BY <1>4, <2>9
    <3> QED
      BY <2>9, <3>1, <3>2
  <2> QED
    BY <2>8, <2>9, <2>10 DEF DelimiterAt
<1>14. Holding(content, msgs, end)
  BY <1>7, <1>9, <1>10, <1>12, <1>13 DEF Holding
<1>15. ASSUME NEW i \in 1 .. Len(msgs)
       PROVE  FirstDelimiter(msgs[i]) = 0
  <2>1. k + i \in 1 .. n /\ msgs[i] = texts[k + i]
    BY <1>7, <1>9
  <2> QED
    BY <2>1 DEF AfterTexts
<1>16. Messages(content) = msgs
  BY <1>7, <1>8, <1>14, <1>15, MessagesAre
<1> QED
  BY <1>5, <1>16 DEF msgs

----------------------------------------------------------------------------
(***************************************************************************)
(* The texts on their way to an end: from the first that its callback was  *)
(* not given yet to the last whose bytes are all in the receive buffer, in *)
(* the kernel or, if they will be sent, in the peer's transmit buffer.     *)
(* While the connection stands that is the last text passed to sendText.   *)
(***************************************************************************)
Expects(e, bound, m) ==
  Frames(e, bound) /\ Reaches(bound, sent[Peer(e)], Len(consumed[e]) + Len(ToCome(e)), m)

WayIs(e, m) ==
  LET k == Len(delivered[e])
  IN  /\ k \in Nat /\ k <= m /\ m <= sent[Peer(e)]
      /\ ToCome(e) \in Seq(Byte) /\ OnTheirWay(e) = SubSeq(Script[Peer(e)], k + 1, m)
      /\ ~Cut => m = sent[Peer(e)]

WayInv ==
  \A e \in Ends : \A bound \in Bounds(e), m \in Nat :
    Expects(e, bound, m) => WayIs(e, m)

LEMMA ToComeIs ==
  ASSUME TypeOK, NEW e \in Ends
  PROVE  /\ ToCome(e) \in Seq(Byte)
         /\ Len(ToCome(e)) = Len(rx[e].content) + Len(wire[e])
                             + (IF Cut THEN 0 ELSE Len(tx[Peer(e)].content))
<1> DEFINE a == rx[e].content
           b == wire[e]
           c == IF Cut THEN << >> ELSE tx[Peer(e)].content
<1>1. Peer(e) \in Ends /\ << >> \in Seq(Byte) /\ Len(<< >>) = 0
  BY PeerType, EmptySeq
<1>2. a \in Seq(Byte) /\ b \in Seq(Byte) /\ tx[Peer(e)].content \in Seq(Byte)
  BY <1>1, StreamTypes
<1>3. c \in Seq(Byte) /\ Len(c) = IF Cut THEN 0 ELSE Len(tx[Peer(e)].content)
  BY <1>1, <1>2
<1>4. ToCome(e) = (a \o b) \o c
  BY DEF ToCome
<1> HIDE DEF a, b, c
<1>5. (a \o b) \o c \in Seq(Byte) /\ Len((a \o b) \o c) = Len(a) + Len(b) + Len(c)
  <2>1. a \in Seq(Byte) /\ b \in Seq(Byte) /\ c \in Seq(Byte)
    BY <1>2, <1>3
  <2> QED
    BY <2>1, ThreeLong
<1> QED
  BY <1>3, <1>4, <1>5 DEF a, b

\* What is to come continues what was consumed, up to the end if the connection stands.
LEMMA ToComeFollows ==
  ASSUME TypeOK, StreamInv, NEW e \in Ends
  PROVE  /\ Prefix(consumed[e] \o ToCome(e), accepted[Peer(e)])
         /\ ~Cut => consumed[e] \o ToCome(e) = accepted[Peer(e)]
<1> DEFINE done == consumed[e]
           a == rx[e].content
           b == wire[e]
           t == tx[Peer(e)].content
           all == accepted[Peer(e)]
<1>1. Peer(e) \in Ends /\ << >> \in Seq(Byte)
  BY PeerType, EmptySeq
<1>2. /\ done \in Seq(Byte) /\ a \in Seq(Byte) /\ b \in Seq(Byte) /\ t \in Seq(Byte)
      /\ all \in Seq(Byte)
  BY <1>1, StreamTypes
<1>3. /\ Prefix((done \o a) \o b, all)
      /\ Standing(e) => ((done \o a) \o b) \o t = all
  BY DEF StreamInv, StreamOf, Arrived, Received
<1>4. /\ Cut => ToCome(e) = (a \o b) \o << >>
      /\ ~Cut => ToCome(e) = (a \o b) \o t
  BY DEF ToCome
<1>5. ~Cut => Standing(e)
  BY <1>1 DEF Cut, Standing
<1> HIDE DEF done, a, b, t, all
<1> DEFINE ab == a \o b
<1>6. ab \in Seq(Byte) /\ ab \o << >> = ab /\ (done \o a) \o b = done \o ab
  <2>1. Regrouped(done, a, b)
    BY <1>2, Regroup
  <2>2. ab \in Seq(Byte)
    BY <1>2, ConcatProperties
  <2> HIDE DEF ab
  <2>3. ab \o << >> = ab
    BY <2>2, ConcatEmptySeq
  <2> QED
    BY <2>1, <2>2, <2>3 DEF Regrouped, ab
<1> HIDE DEF ab
<1>7. Regrouped(done, ab, t)
  BY <1>2, <1>6, Regroup
<1>8. CASE Cut
  BY <1>3, <1>4, <1>6, <1>8 DEF ab, done, all
<1>9. CASE ~Cut
  <2>1. done \o ToCome(e) = all
    BY <1>3, <1>4, <1>5, <1>6, <1>7, <1>9 DEF Regrouped, ab
  <2>2. Prefix(all, all)
    <3>1. all \o << >> = all
      BY <1>2, ConcatEmptySeq
    <3>2. Prefix(all, all \o << >>)
      BY <1>1, <1>2, StreamWhole
    <3> QED
      BY <3>1, <3>2
  <2> QED
    BY <2>1, <2>2 DEF done, all
<1> QED
  BY <1>8, <1>9

LEMMA WayAlways == IInv /\ FrameInv => WayInv
<1> SUFFICES ASSUME IInv, FrameInv, NEW e \in Ends, NEW bound \in Bounds(e), NEW m \in Nat,
                    Expects(e, bound, m)
             PROVE  WayIs(e, m)
  BY DEF WayInv
<1> DEFINE p == Peer(e)
           stream == accepted[p]
           texts == Script[p]
           n == sent[p]
           done == consumed[e]
           content == ToCome(e)
           k == Len(delivered[e])
<1>1. TypeOK /\ StreamInv /\ SentInv /\ p \in Ends
  BY PeerType DEF IInv, FrameInv
<1>2. /\ stream \in Seq(Byte) /\ done \in Seq(Byte) /\ content \in Seq(Byte)
      /\ texts \in Seq(Seq(Byte)) /\ Len(texts) \in Nat
      /\ n \in Nat /\ n <= Len(texts) /\ k \in Nat
      /\ \A i \in 1 .. Len(texts) : FirstDelimiter(texts[i]) = 0
  BY <1>1, StreamTypes, ToComeIs, ScriptType, LenProperties DEF TypeOK, SentInv
<1>3. /\ bound \in Cuts(n) /\ Framing(stream, texts, n, bound)
      /\ k <= n /\ Len(done) = bound[k]
      /\ Reaches(bound, n, Len(done) + Len(content), m)
  BY DEF Bounds, Expects, Frames, Taken
<1>4. Prefix(done \o content, stream) /\ (~Cut => done \o content = stream)
  BY <1>1, ToComeFollows
<1>5. /\ k <= m /\ Messages(content) = SubSeq(texts, k + 1, m)
      /\ m <= n /\ (~Cut => m = n)
  <2> HIDE DEF p, stream, texts, n, done, content, k
  <2>1. AfterTexts(stream, texts, n, bound, done, content, k)
    <3>1. k \in 0 .. n /\ \A i \in 1 .. n : FirstDelimiter(texts[i]) = 0
      BY <1>2, <1>3
    <3> QED
      BY <1>2, <1>3, <1>4, <3>1 DEF AfterTexts
  <2>2. k <= m /\ Messages(content) = SubSeq(texts, k + 1, m)
    <3>1. /\ stream \in Seq(Byte) /\ texts \in Seq(Seq(Byte)) /\ n \in Nat /\ bound \in Cuts(n)
          /\ done \in Seq(Byte) /\ content \in Seq(Byte) /\ k \in Nat /\ m \in Nat
      BY <1>2, <1>3
    <3>2. Reaches(bound, n, Len(done) + Len(content), m)
      BY <1>3
    <3> QED
      BY <2>1, <3>1, <3>2, Decoded
  <2>3. m \in 0 .. n /\ (m < n => Len(done) + Len(content) < bound[m + 1])
    BY <1>3 DEF Reaches
  <2>4. ASSUME ~Cut PROVE m = n
    <3>1. Len(done) + Len(content) = Len(stream)
      BY <1>2, <1>4, <2>4, ConcatProperties
    <3>2. bound[n] = Len(stream) /\ \A i \in 0 .. n : bound[i] <= bound[n] /\ bound[i] \in Nat
      BY <1>3 DEF Framing, Cuts
    <3>3. m < n => m + 1 \in 0 .. n
      BY <1>2, <2>3
    <3>4. n \in 0 .. n
      BY <1>2
    <3> QED
      BY <1>2, <2>3, <3>1, <3>2, <3>3, <3>4
  <2> QED
    BY <1>2, <2>2, <2>3, <2>4
<1> QED
  BY <1>2, <1>5 DEF WayIs, OnTheirWay

(***************************************************************************)
(* So there are some texts on their way, possibly none, and how many does  *)
(* only depend on the bounds of the texts and on what is to come.          *)
(***************************************************************************)
Ways ==
  \A e \in Ends : \A bound \in Bounds(e) :
    Frames(e, bound) => \E m \in Nat : Expects(e, bound, m) /\ WayIs(e, m)

LEMMA WaysFound == IInv /\ FrameInv => Ways
<1> SUFFICES ASSUME IInv, FrameInv, NEW e \in Ends, NEW bound \in Bounds(e), Frames(e, bound)
             PROVE  \E m \in Nat : Expects(e, bound, m) /\ WayIs(e, m)
  BY DEF Ways
<1> DEFINE n == sent[Peer(e)]
           long == Len(consumed[e]) + Len(ToCome(e))
<1>1. TypeOK /\ Peer(e) \in Ends
  BY PeerType DEF IInv
<1>2. n \in Nat /\ long \in Nat
  BY <1>1, StreamTypes, ToComeIs, LenProperties DEF TypeOK
<1>3. bound \in [0 .. n -> Nat] /\ bound[0] = 0
  BY DEF Bounds, Cuts, Frames, Framing
<1>4. PICK m \in Nat : Reaches(bound, n, long, m)
  <2> HIDE DEF n, long
  <2> QED
    BY <1>2, <1>3, ReachedIs
<1>5. Expects(e, bound, m)
  BY <1>4 DEF Expects
<1> QED
  BY <1>5, WayAlways DEF WayInv

Known == IInv /\ FrameInv /\ Ways

LEMMA KnownAlways == Spec => []Known
<1>1. IInv /\ FrameInv => Known
  BY WaysFound DEF Known
<1> QED
  BY <1>1, Inductive, FramesAlways, PTL

----------------------------------------------------------------------------
(***************************************************************************)
(* What one step does to the stream to one end, in the terms of module     *)
(* MessageStream.                                                          *)
(***************************************************************************)
Gives(e) ==
  /\ Given(Peer(e))' # << >> /\ Given(Peer(e)) = Front(Given(Peer(e))')
  /\ OnTheirWay(e)' = IF Cut THEN OnTheirWay(e) ELSE Append(OnTheirWay(e), Last(Given(Peer(e))'))
  /\ delivered'[e] = delivered[e] /\ Cut' = Cut /\ refused'[Peer(e)] = refused[Peer(e)]

Takes(e) ==
  /\ \E n \in 1 .. Len(OnTheirWay(e)) :
       /\ delivered'[e] = delivered[e] \o SubSeq(OnTheirWay(e), 1, n)
       /\ OnTheirWay(e)' = SubSeq(OnTheirWay(e), n + 1, Len(OnTheirWay(e)))
  /\ Given(Peer(e))' = Given(Peer(e)) /\ Cut' = Cut /\ refused'[Peer(e)] = refused[Peer(e)]

Loses(e) ==
  /\ Cut'
  /\ IsPrefix(OnTheirWay(e)', OnTheirWay(e))
  /\ Given(Peer(e))' = Given(Peer(e)) /\ delivered'[e] = delivered[e]
  /\ refused'[Peer(e)] = refused[Peer(e)]

Rests(e) ==
  /\ Given(Peer(e))' = Given(Peer(e)) /\ OnTheirWay(e)' = OnTheirWay(e)
  /\ delivered'[e] = delivered[e] /\ Cut' = Cut /\ refused'[Peer(e)] = refused[Peer(e)]

Moves(e) == Gives(e) \/ Takes(e) \/ Loses(e) \/ refused'[Peer(e)] \/ Rests(e)

LEMMA MovesRefine == (\A e \in Ends : Moves(e)) => Streams!Next
<1> SUFFICES ASSUME NEW e \in Ends, Moves(e)
             PROVE  Streams!Give(e) \/ Streams!Take(e) \/ Streams!Lose(e) \/ Streams!Refuse(e)
                      \/ Streams!Rest(e)
  BY DEF Streams!Next
<1> DEFINE given == [d \in Ends |-> Given(Peer(d))]
           transit == [d \in Ends |-> OnTheirWay(d)]
           cut == [d \in Ends |-> Cut]
           refusal == [d \in Ends |-> refused[Peer(d)]]
<1>1. given[e] = Given(Peer(e)) /\ given'[e] = Given(Peer(e))'
  OBVIOUS
<1>2. transit[e] = OnTheirWay(e) /\ transit'[e] = OnTheirWay(e)'
  OBVIOUS
<1>3. cut[e] = Cut /\ cut'[e] = Cut'
  BY Zenon
<1>4. refusal[e] = refused[Peer(e)] /\ refusal'[e] = refused'[Peer(e)]
  OBVIOUS
<1> HIDE DEF given, transit, cut, refusal
<1>5. CASE Gives(e)
  <2>1. /\ given'[e] # << >> /\ given[e] = Front(given'[e])
        /\ transit'[e] = IF cut[e] THEN transit[e] ELSE Append(transit[e], Last(given'[e]))
        /\ delivered'[e] = delivered[e] /\ cut'[e] = cut[e] /\ refusal'[e] = refusal[e]
    BY <1>1, <1>2, <1>3, <1>4, <1>5 DEF Gives
  <2> QED
    BY <2>1 DEF Streams!Give, given, transit, cut, refusal, Front, Last, Streams!Front, Streams!Last
<1>6. CASE Takes(e)
  <2>1. /\ \E n \in 1 .. Len(transit[e]) :
             /\ delivered'[e] = delivered[e] \o SubSeq(transit[e], 1, n)
             /\ transit'[e] = SubSeq(transit[e], n + 1, Len(transit[e]))
        /\ given'[e] = given[e] /\ cut'[e] = cut[e] /\ refusal'[e] = refusal[e]
    BY <1>1, <1>2, <1>3, <1>4, <1>6 DEF Takes
  <2> QED
    BY <2>1 DEF Streams!Take, given, transit, cut, refusal
<1>7. CASE Loses(e)
  <2>1. /\ cut'[e] /\ IsPrefix(transit'[e], transit[e])
        /\ given'[e] = given[e] /\ delivered'[e] = delivered[e] /\ refusal'[e] = refusal[e]
    BY <1>1, <1>2, <1>3, <1>4, <1>7 DEF Loses
  <2> QED
    BY <2>1 DEF Streams!Lose, given, transit, cut, refusal, IsPrefix, Streams!IsPrefix
<1>8. CASE Rests(e)
  <2>1. /\ given'[e] = given[e] /\ transit'[e] = transit[e] /\ delivered'[e] = delivered[e]
        /\ cut'[e] = cut[e] /\ refusal'[e] = refusal[e]
    BY <1>1, <1>2, <1>3, <1>4, <1>8 DEF Rests
  <2> QED
    BY <2>1 DEF Streams!Rest, given, transit, cut, refusal
<1>9. CASE refused'[Peer(e)]
  <2>1. refusal'[e]
    BY <1>4, <1>9
  <2> QED
    BY <2>1 DEF Streams!Refuse, refusal
<1> QED
  BY <1>5, <1>6, <1>7, <1>8, <1>9 DEF Moves

LEMMA InitStreamsRefine == Init => Streams!Init
<1> SUFFICES ASSUME Init, NEW e \in Ends
             PROVE  /\ Given(Peer(e)) = << >> /\ OnTheirWay(e) = << >> /\ delivered[e] = << >>
                    /\ Cut \in BOOLEAN /\ refused[Peer(e)] = FALSE
  BY Zenon DEF Streams!Init
<1>1. Peer(e) \in Ends
  BY PeerType
<1>2. Given(Peer(e)) = << >>
  <2> DEFINE texts == Script[Peer(e)]
             none == SubSeq(texts, 1, 0)
  <2>1. texts \in Seq(Seq(Byte)) /\ Len(texts) \in Nat
    BY <1>1, ScriptType
  <2>2. none \in Seq(Seq(Byte)) /\ Len(none) = 0
    <3> HIDE DEF texts
    <3>1. 0 \in 0 .. Len(texts)
      BY <2>1
    <3> QED
      BY <2>1, <3>1, PartsType
  <2>3. none = << >>
    <3> HIDE DEF none
    <3> QED
      BY <2>2, EmptySeq
  <2> QED
    BY <1>1, <2>3 DEF Init, Given
<1>3. OnTheirWay(e) = << >>
  <2>1. << >> \in Seq(Byte) /\ << >> \in Seq(Seq(Byte)) /\ Len(<< >>) = 0
    BY EmptySeq
  <2>2. << >> \o << >> = << >>
    BY <2>1, ConcatEmptySeq
  <2>3. ToCome(e) = << >>
    BY <1>1, <2>2 DEF Init, Fresh, ToCome
  <2> DEFINE nothing == << >>
             end == [i \in 0 .. 0 |-> 0]
  <2>4. /\ Len(nothing) = 0 /\ 1 .. 0 = {} /\ end[0] = 0
        /\ nothing \in Seq(Byte) /\ nothing \in Seq(Seq(Byte)) /\ end \in [0 .. 0 -> Nat]
    BY <2>1
  <2> HIDE DEF nothing, end
  <2>5. 0 + 1 .. 0 - 1 = {}
    OBVIOUS
  <2>6. Holding(nothing, nothing, end)
    BY <2>4, <2>5 DEF Holding
  <2>7. Messages(nothing) = nothing
    BY <2>4, <2>6, MessagesAre
  <2> QED
    BY <2>3, <2>7 DEF OnTheirWay, nothing
<1> QED
  BY <1>1, <1>2, <1>3 DEF Init, Cut

\* What was put at the end of a sequence is its last element, the rest comes before.
LEMMA FrontOfAppend ==
  ASSUME NEW S, NEW s \in Seq(S), NEW x \in S
  PROVE  Append(s, x) # << >> /\ Front(Append(s, x)) = s /\ Last(Append(s, x)) = x
<1> DEFINE more == Append(s, x)
<1>1. /\ Len(more) = Len(s) + 1 /\ Len(s) \in Nat /\ more[Len(s) + 1] = x
      /\ more \in Seq(S) /\ more # << >>
  BY AppendProperties, LenProperties
<1>2. SubSeq(more, 1, Len(s)) = s
  <2>1. <<x>> \in Seq(S) /\ more = s \o <<x>>
    BY AppendIsConcat
  <2> QED
    BY <2>1, ConcatParts
<1>3. Len(more) - 1 = Len(s)
  BY <1>1
<1> HIDE DEF more
<1>4. more # << >> /\ Front(more) = s /\ Last(more) = x
  BY <1>1, <1>2, <1>3 DEF Front, Last
<1> QED
  BY <1>4 DEF more

\* The stream to the peer of an end that sends a text.
LEMMA SendGives ==
  ASSUME Known, Known', NEW s \in Ends, SendText(s), NEW e \in Ends, Peer(e) = s
  PROVE  Moves(e)
<1> SUFFICES ASSUME ~refused'[s] PROVE Gives(e)
  BY DEF Moves
<1> DEFINE texts == Script[s]
           n == sent[s]
           k == Len(delivered[e])
<1>1. TypeOK
  BY DEF Known, IInv
<1>2. ~refused[s] /\ refused'[s] = refused[s]
  BY <1>1, SendTextMoves DEF TypeOK
<1>3. /\ UNCHANGED <<transport, rx, sock, wire, delivered, consumed>>
      /\ sent'[s] = n + 1 /\ n < Len(texts) /\ n \in Nat
  BY <1>1 DEF SendText, TypeOK
<1>4. Cut' = Cut
  BY <1>3 DEF Cut, Shared
<1>5. texts \in Seq(Seq(Byte)) /\ Len(texts) \in Nat /\ n + 1 \in 1 .. Len(texts)
      /\ texts[n + 1] \in Seq(Byte)
  BY <1>3, ScriptType, ElementOfSeq
<1>6. /\ Given(s)' # << >> /\ Given(s) = Front(Given(s)')
      /\ Last(Given(s)') = texts[n + 1]
  <2> DEFINE given == SubSeq(texts, 0 + 1, n)
  <2>1. Given(s) = given /\ Given(s)' = SubSeq(texts, 0 + 1, n + 1)
    BY <1>3 DEF Given
  <2> HIDE DEF texts, n
  <2>2. SubSeq(texts, 0 + 1, n + 1) = Append(given, texts[n + 1])
    BY <1>3, <1>5, PartGrows
  <2>3. given \in Seq(Seq(Byte))
    BY <1>3, <1>5, PartIs
  <2> DEFINE text == texts[n + 1]
  <2>4. text \in Seq(Byte)
    BY <1>5
  <2> HIDE DEF given, text
  <2>5. /\ Append(given, text) # << >> /\ Front(Append(given, text)) = given
        /\ Last(Append(given, text)) = text
    BY <2>3, <2>4, FrontOfAppend
  <2> QED
    BY <2>1, <2>2, <2>5 DEF text
<1>7. OnTheirWay(e)' = IF Cut THEN OnTheirWay(e) ELSE Append(OnTheirWay(e), texts[n + 1])
  <2>1. CASE Cut
    <3>1. ToCome(e)' = ToCome(e)
      BY <1>3, <1>4, <2>1 DEF ToCome
    <3> QED
      BY <2>1, <3>1 DEF OnTheirWay
  <2>2. CASE ~Cut
    <3>1. \E m \in Nat : WayIs(e, m)
      BY <1>2 DEF Known, FrameInv, FrameOf, Ways
    <3>2. \E m \in Nat : WayIs(e, m)'
      BY DEF Known, FrameInv, FrameOf, Ways
    <3>3. k \in Nat /\ k <= n /\ OnTheirWay(e) = SubSeq(texts, k + 1, n)
      BY <2>2, <3>1 DEF WayIs
    <3>4. OnTheirWay(e)' = SubSeq(texts, k + 1, n + 1)
      BY <1>3, <1>4, <2>2, <3>2 DEF WayIs
    <3> HIDE DEF texts, k, n
    <3>5. SubSeq(texts, k + 1, n + 1) = Append(SubSeq(texts, k + 1, n), texts[n + 1])
      BY <1>3, <1>5, <3>3, PartGrows
    <3> QED
      BY <2>2, <3>3, <3>4, <3>5
  <2> QED
    BY <2>1, <2>2
<1> QED
  BY <1>2, <1>3, <1>4, <1>6, <1>7 DEF Gives

\* The stream to an end, when nothing that concerns it changes.
LEMMA StreamRests ==
  ASSUME NEW e \in Ends, sent'[Peer(e)] = sent[Peer(e)],
         refused'[Peer(e)] = refused[Peer(e)], delivered'[e] = delivered[e],
         Cut' = Cut, ToCome(e)' = ToCome(e)
  PROVE  Moves(e)
  BY DEF Moves, Rests, Given, OnTheirWay

\* The stream to an end whose callback gets a message.
LEMMA DispatchTakes ==
  ASSUME Known, Known', NEW e \in Ends, DispatchMessage(e)
  PROVE  Moves(e)
<1> DEFINE p == Peer(e)
           texts == Script[p]
           n == sent[p]
           k == Len(delivered[e])
<1>1. TypeOK /\ DispatchInv /\ StreamInv /\ FrameInv /\ p \in Ends
  BY PeerType DEF Known, IInv, DrainInv
<1>2. UNCHANGED <<transport, sent, accepted, refused, tx, sock, wire>>
  BY DEF DispatchMessage
<1>3. Cut' = Cut
  BY <1>2 DEF Cut, Shared
<1>4. CASE refused'[p]
  BY <1>4 DEF Moves
<1>5. CASE ~refused'[p]
  <2>1. PICK bound \in Bounds(e) : Frames(e, bound)
    BY <1>1, <1>2, <1>5 DEF FrameInv, FrameOf
  <2>2. PICK m \in Nat : Expects(e, bound, m) /\ WayIs(e, m)
    BY <2>1 DEF Known, Ways
  <2>3. Frames(e, bound)' /\ bound \in Bounds(e)'
    BY <1>1, <1>2, <2>1, FrameDispatched DEF Bounds
  <2>4. PICK j \in Nat : Expects(e, bound, j)' /\ WayIs(e, j)'
    BY <2>3 DEF Known, Ways
  \* As much is consumed as is no more to come.
  <2>5. Len(consumed'[e]) + Len(ToCome(e)') = Len(consumed[e]) + Len(ToCome(e))
    <3> DEFINE a0 == consumed[e]
               a1 == consumed'[e]
               b0 == rx[e].content
               b1 == rx'[e].content
    <3>1. a0 \in Seq(Byte) /\ b0 \in Seq(Byte)
      BY <1>1, StreamTypes
    <3>2. a1 \in Seq(Byte) /\ b1 \in Seq(Byte)
      BY <1>1, DispatchMoves DEF Buffer
    <3>3. a1 \o b1 = a0 \o b0
      BY <1>1, DispatchMoves DEF Received
    <3>4. Len(a1) + Len(b1) = Len(a0) + Len(b0)
      <4> HIDE DEF a0, a1, b0, b1
      <4>1. Len(a1 \o b1) = Len(a1) + Len(b1) /\ Len(a0 \o b0) = Len(a0) + Len(b0)
        BY <3>1, <3>2, ConcatProperties
      <4> QED
        BY <3>3, <4>1
    <3> DEFINE c == IF Cut THEN << >> ELSE tx[p].content
    <3>5. c \in Seq(Byte) /\ wire[e] \in Seq(Byte)
      BY <1>1, StreamTypes, EmptySeq
    <3>6. ToCome(e) = (b0 \o wire[e]) \o c /\ ToCome(e)' = (b1 \o wire[e]) \o c
      BY <1>2, <1>3 DEF ToCome
    <3> DEFINE b == wire[e]
    <3> HIDE DEF a0, a1, b0, b1, b, c
    <3>7. b \in Seq(Byte) /\ Len(a0) \in Nat /\ Len(a1) \in Nat
      BY <3>1, <3>2, <3>5, LenProperties DEF b
    <3>8. /\ Len((b0 \o b) \o c) = Len(b0) + Len(b) + Len(c)
          /\ Len(b0) \in Nat /\ Len(b) \in Nat /\ Len(c) \in Nat
      BY <3>1, <3>5, <3>7, ThreeLong
    <3>9. Len((b1 \o b) \o c) = Len(b1) + Len(b) + Len(c) /\ Len(b1) \in Nat
      BY <3>2, <3>5, <3>7, ThreeLong
    <3>10. Len(a1) + Len((b1 \o b) \o c) = Len(a0) + Len((b0 \o b) \o c)
      BY <3>4, <3>7, <3>8, <3>9
    <3> QED
      BY <3>6, <3>10 DEF a0, a1, b
  <2>6. j = m
    <3> DEFINE long == Len(consumed[e]) + Len(ToCome(e))
    <3>1. Reaches(bound, n, long, m) /\ Reaches(bound, n, long, j)
      BY <1>2, <2>2, <2>4, <2>5 DEF Expects
    <3>2. /\ n \in Nat /\ n <= Len(texts) /\ accepted[p] \in Seq(Byte) /\ texts \in Seq(Seq(Byte))
          /\ bound \in Cuts(n) /\ Framing(accepted[p], texts, n, bound) /\ long \in Nat
      <4>1. n \in Nat /\ n <= Len(texts) /\ texts \in Seq(Seq(Byte))
        BY <1>1, ScriptType DEF TypeOK, FrameInv, SentInv
      <4>2. bound \in Cuts(n) /\ Framing(accepted[p], texts, n, bound)
        BY <2>1 DEF Bounds, Frames
      <4>3. accepted[p] \in Seq(Byte) /\ long \in Nat
        BY <1>1, StreamTypes, ToComeIs, LenProperties
      <4> QED
        BY <4>1, <4>2, <4>3
    <3>3. \A x, y \in 0 .. n : x < y => bound[x] < bound[y]
      <4> DEFINE stream == accepted[p]
      <4> HIDE DEF n, texts, stream
      <4> QED
        BY <3>2, BoundsGrow DEF stream
    <3> HIDE DEF n, long
    <3>4. bound \in [0 .. n -> Nat] /\ long <= long
      BY <3>2 DEF Cuts
    <3>5. m <= j /\ j <= m
      BY <3>1, <3>2, <3>3, <3>4, ReachedGrows
    <3> QED
      BY <3>5
  <2>7. /\ k \in Nat /\ Len(delivered'[e]) = k + 1 /\ k + 1 <= m
        /\ OnTheirWay(e) = SubSeq(texts, k + 1, m)
        /\ OnTheirWay(e)' = SubSeq(texts, (k + 1) + 1, m)
        /\ m <= Len(texts)
    <3>1. delivered[e] \in Seq(Seq(Byte)) /\ delivered'[e] \in Seq(Seq(Byte))
      BY <1>1, DispatchMoves DEF TypeOK
    <3>2. Len(delivered'[e]) = k + 1
      <4>1. \E x : delivered'[e] = Append(delivered[e], x)
        BY <1>1, DispatchMoves
      <4> QED
        BY <3>1, <4>1, AppendProperties
    <3>3. n \in Nat /\ n <= Len(texts) /\ Len(texts) \in Nat
      BY <1>1, ScriptType DEF TypeOK, FrameInv, SentInv
    <3> QED
      BY <1>2, <2>2, <2>4, <2>6, <3>2, <3>3 DEF WayIs
  <2>8. delivered'[e] = delivered[e] \o <<texts[k + 1]>>
    <3>1. /\ delivered[e] \in Seq(Seq(Byte)) /\ delivered'[e] \in Seq(Seq(Byte))
          /\ \E x : delivered'[e] = Append(delivered[e], x)
      BY <1>1, DispatchMoves DEF TypeOK
    <3>2. \A i \in 1 .. k + 1 : delivered'[e][i] = texts[i]
      BY <1>2, <2>3, <2>7 DEF Frames, Taken
    <3> DEFINE before == delivered[e]
               after == delivered'[e]
               text == texts[k + 1]
    <3> HIDE DEF texts
    <3>3. PICK x : after = Append(before, x)
      BY <3>1
    <3>4. after[k + 1] = text /\ k \in Nat /\ k = Len(before)
      BY <2>7, <3>2
    <3> HIDE DEF before, after, k, text
    <3>5. x = text /\ text \in Seq(Byte)
      <4>1. k + 1 \in 1 .. Len(after) /\ Len(after) = k + 1
        BY <2>7 DEF after
      <4>2. after[k + 1] \in Seq(Byte)
        BY <3>1, <4>1, ElementOfSeq DEF after
      <4>3. after[k + 1] = x
        BY <3>1, <3>3, <3>4, AppendProperties DEF before
      <4> QED
        BY <3>4, <4>2, <4>3
    <3>6. after = before \o <<text>>
      BY <3>1, <3>3, <3>5, AppendIsConcat DEF before
    <3> QED
      BY <3>6 DEF before, after, text
  <2>9. /\ SubSeq(OnTheirWay(e), 1, 1) = <<texts[k + 1]>>
        /\ SubSeq(OnTheirWay(e), 1 + 1, Len(OnTheirWay(e))) = OnTheirWay(e)'
        /\ 1 \in 1 .. Len(OnTheirWay(e))
    <3> DEFINE part == SubSeq(texts, k + 1, m)
    <3>1. texts \in Seq(Seq(Byte)) /\ Len(texts) \in Nat
      BY <1>1, ScriptType
    <3> HIDE DEF texts, k
    <3>2. k < m /\ k <= m
      BY <2>7
    <3>3. /\ SubSeq(part, 1, 1) = <<texts[k + 1]>>
          /\ SubSeq(part, 1 + 1, Len(part)) = SubSeq(texts, (k + 1) + 1, m)
      BY <2>7, <3>1, <3>2, PartOff
    <3>4. Len(part) = m - k
      BY <2>7, <3>1, <3>2, PartIs
    <3>5. 1 \in 1 .. Len(part)
      BY <2>7, <3>2, <3>4
    <3> QED
      BY <2>7, <3>3, <3>5
  <2>10. Given(p)' = Given(p) /\ refused'[p] = refused[p]
    BY <1>2 DEF Given
  <2> QED
    BY <1>3, <2>8, <2>9, <2>10 DEF Moves, Takes
<1> QED
  BY <1>4, <1>5

\* Every other step leaves what is to come to an end as it is, or ends the connection.
Shortens(e) == Cut' /\ Len(ToCome(e)') <= Len(ToCome(e))

Keeps(e) == Cut' = Cut /\ ToCome(e)' = ToCome(e)

LEMMA ShortensLoses ==
  ASSUME Known, Known', NEW e \in Ends,
         UNCHANGED <<sent, accepted, refused, delivered, consumed>>, Shortens(e)
  PROVE  Moves(e)
<1> DEFINE p == Peer(e)
           texts == Script[p]
           n == sent[p]
           k == Len(delivered[e])
<1>1. TypeOK /\ FrameInv /\ TypeOK' /\ p \in Ends
  BY PeerType DEF Known, IInv
<1>2. CASE refused'[p]
  BY <1>2 DEF Moves
<1>3. CASE ~refused'[p]
  <2>1. PICK bound \in Bounds(e) : Frames(e, bound)
    BY <1>1, <1>3 DEF FrameInv, FrameOf
  <2>2. PICK m \in Nat : Expects(e, bound, m) /\ WayIs(e, m)
    BY <2>1 DEF Known, Ways
  <2>3. Frames(e, bound)' /\ bound \in Bounds(e)'
    BY <2>1 DEF Bounds, Frames, Taken
  <2>4. PICK j \in Nat : Expects(e, bound, j)' /\ WayIs(e, j)'
    BY <2>3 DEF Known, Ways
  <2>5. n \in Nat /\ n <= Len(texts) /\ texts \in Seq(Seq(Byte)) /\ Len(texts) \in Nat
    BY <1>1, ScriptType DEF TypeOK, FrameInv, SentInv
  <2>6. j <= m
    <3> DEFINE short == Len(consumed[e]) + Len(ToCome(e)')
               long == Len(consumed[e]) + Len(ToCome(e))
    <3>1. Reaches(bound, n, short, j) /\ Reaches(bound, n, long, m)
      BY <2>2, <2>4 DEF Expects
    <3>2. short \in Nat /\ long \in Nat /\ short <= long
      <4> DEFINE a == Len(consumed[e])
                 b == Len(ToCome(e)')
                 c == Len(ToCome(e))
      <4>1. a \in Nat
        BY <1>1, StreamTypes, LenProperties
      <4>2. c \in Nat
        BY <1>1, ToComeIs, LenProperties
      <4>3. b <= c /\ b \in Nat
        <5>1. ToCome(e)' \in Seq(Byte)
          BY <2>4 DEF WayIs
        <5> QED
          BY <5>1, LenProperties DEF Shortens
      <4> HIDE DEF a, b, c
      <4> QED
        BY <4>1, <4>2, <4>3 DEF a, b, c
    <3>3. \A x, y \in 0 .. n : x < y => bound[x] < bound[y]
      <4> DEFINE stream == accepted[p]
      <4>1. bound \in Cuts(n) /\ Framing(stream, texts, n, bound) /\ stream \in Seq(Byte)
        BY <1>1, <2>1, StreamTypes DEF Bounds, Frames
      <4> HIDE DEF n, texts, stream
      <4> QED
        BY <2>5, <4>1, BoundsGrow
    <3>4. bound \in [0 .. n -> Nat]
      BY DEF Bounds, Cuts
    <3> HIDE DEF n, short, long
    <3> QED
      BY <2>5, <3>1, <3>2, <3>3, <3>4, ReachedGrows
  <2>7. /\ k \in Nat /\ k <= j /\ m <= Len(texts)
        /\ OnTheirWay(e) = SubSeq(texts, k + 1, m)
        /\ OnTheirWay(e)' = SubSeq(texts, k + 1, j)
    <3>1. m <= n
      BY <2>2 DEF WayIs
    <3> QED
      BY <2>2, <2>4, <2>5, <3>1 DEF WayIs
  <2>8. IsPrefix(OnTheirWay(e)', OnTheirWay(e))
    <3> HIDE DEF texts, k
    <3> DEFINE part == SubSeq(texts, k + 1, j)
               whole == SubSeq(texts, k + 1, m)
    <3>1. Len(part) <= Len(whole) /\ part = SubSeq(whole, 1, Len(part))
      BY <2>5, <2>6, <2>7, PartStops
    <3>2. part \in Seq(Seq(Byte))
      BY <2>5, <2>6, <2>7, PartIs
    <3>3. OnTheirWay(e)' = part /\ OnTheirWay(e) = whole
      BY <2>7
    <3> HIDE DEF part, whole
    <3>4. SubSeq(part, 1, Len(part)) = part
      BY <3>2, SubSeqFull
    <3> QED
      BY <3>1, <3>3, <3>4 DEF IsPrefix
  <2>9. Given(p)' = Given(p)
    BY DEF Given
  <2> QED
    BY <2>8, <2>9 DEF Moves, Loses, Shortens
<1> QED
  BY <1>2, <1>3

LEMMA KeepsRests ==
  ASSUME NEW e \in Ends, UNCHANGED <<sent, accepted, refused, delivered, consumed>>, Keeps(e)
  PROVE  Moves(e)
  BY StreamRests DEF Keeps

LEMMA SameContent ==
  ASSUME TypeOK, TypeOK', Quiet, consumed' = consumed, NEW e \in Ends
  PROVE  rx'[e].content = rx[e].content
<1> DEFINE done == consumed[e]
           a == rx[e].content
           b == rx'[e].content
<1>1. done \in Seq(Byte) /\ a \in Seq(Byte)
  BY StreamTypes
<1>2. b \in Seq(Byte)
  BY DEF TypeOK, Buffer
<1>3. done \o b = done \o a
  BY DEF Quiet, Received
<1> HIDE DEF done, a, b
<1>4. b = a
  BY <1>1, <1>2, <1>3, CancelLeft
<1> QED
  BY <1>4 DEF a, b

\* An end closes its socket, or the network breaks the connection.
LEMMA BreakShortens ==
  ASSUME TypeOK, TypeOK', Quiet, consumed' = consumed, Cut',
         \A d \in Ends : wire'[d] \in {wire[d], << >>}, NEW e \in Ends
  PROVE  Keeps(e) \/ Shortens(e)
<1> DEFINE a == rx[e].content
           b == wire[e]
           c == wire'[e]
           t == IF Cut THEN << >> ELSE tx[Peer(e)].content
           none == << >>
<1>1. /\ a \in Seq(Byte) /\ b \in Seq(Byte) /\ c \in Seq(Byte) /\ t \in Seq(Byte)
      /\ none \in Seq(Byte) /\ Len(none) = 0
  BY PeerType, StreamTypes, EmptySeq
<1>2. ToCome(e) = (a \o b) \o t
  BY DEF ToCome
<1>3. ToCome(e)' = (a \o c) \o none
  BY SameContent DEF ToCome
<1>4. Len(c) <= Len(b)
  BY <1>1, LenProperties
<1> HIDE DEF a, b, c, t, none
<1>5. Len((a \o c) \o none) <= Len((a \o b) \o t)
  <2>1. /\ Len((a \o b) \o t) = Len(a) + Len(b) + Len(t)
        /\ Len(a) \in Nat /\ Len(b) \in Nat /\ Len(t) \in Nat
    BY <1>1, ThreeLong
  <2>2. Len((a \o c) \o none) = Len(a) + Len(c) + Len(none) /\ Len(c) \in Nat
    BY <1>1, ThreeLong
  <2> QED
    BY <1>1, <1>4, <2>1, <2>2
<1> QED
  BY <1>2, <1>3, <1>5 DEF Shortens

LEMMA QuietKeeps ==
  ASSUME TypeOK, TypeOK', Quiet, consumed' = consumed, UNCHANGED <<sock, wire>>, NEW e \in Ends
  PROVE  Keeps(e)
<1>1. rx'[e].content = rx[e].content
  BY SameContent
<1>2. Cut' = Cut
  BY DEF Quiet, Cut, Shared
<1> QED
  BY <1>1, <1>2 DEF Keeps, ToCome, Quiet

LEMMA CloseShortens ==
  ASSUME TypeOK, TypeOK', Quiet, consumed' = consumed,
         NEW c \in Ends, NEW how \in How, Closes(c, how), NEW e \in Ends
  PROVE  Keeps(e) \/ Shortens(e)
<1>1. /\ sock'[c] = "closed"
      /\ \A d \in Ends : wire'[d] \in {wire[d], << >>}
      /\ Shared => wire' = wire
  BY CloseGives DEF Closes
<1>2. Shared' = Shared
  BY DEF Quiet, Shared
<1>3. CASE Shared
  <2>1. ~Cut /\ ~Cut'
    BY <1>2, <1>3 DEF Cut
  <2>2. ToCome(e)' = ToCome(e)
    BY <1>1, <1>3, <2>1, SameContent DEF ToCome, Quiet
  <2>3. Cut' = Cut
    BY <2>1 DEF Cut
  <2> QED
    BY <2>2, <2>3 DEF Keeps
<1>4. CASE ~Shared
  <2>1. Cut'
    BY <1>1, <1>2, <1>4 DEF Cut
  <2> QED
    BY <1>1, <2>1, BreakShortens
<1> QED
  BY <1>3, <1>4

LEMMA RecvKeeps ==
  ASSUME TypeOK, NEW c \in Ends, RecvBytes(c), NEW e \in Ends
  PROVE  Keeps(e)
<1>1. UNCHANGED <<transport, tx, sock>>
  BY DEF RecvBytes
<1>2. Cut' = Cut
  BY <1>1 DEF Cut, Shared
<1>3. rx'[e].content \o wire'[e] = rx[e].content \o wire[e]
  <2>1. CASE e = c
    BY <2>1, RecvMoves
  <2>2. CASE e # c
    BY <2>2, RecvMoves
  <2> QED
    BY <2>1, <2>2
<1> QED
  BY <1>1, <1>2, <1>3 DEF Keeps, ToCome

LEMMA SendKeeps ==
  ASSUME TypeOK, SockInv, NEW c \in Ends, SendBytes(c), NEW e \in Ends
  PROVE  Keeps(e)
<1> DEFINE p == Peer(c)
<1>1. p \in Ends /\ p # c /\ Peer(p) = c /\ \A d \in Ends : d = c \/ d = p
  BY PeerType, TwoEnds
<1>2. UNCHANGED <<transport, rx, consumed>> /\ Shared' = Shared
  BY DEF SendBytes, history, Shared
<1>3. /\ sock[c] = "open" /\ sock[p] \in {"open", "closed"}
      /\ wire'[c] = wire[c] /\ tx'[p] = tx[p]
  <2>1. sock[c] = "open" /\ wire'[c] = wire[c] /\ tx'[p] = tx[p]
    BY <1>1, SendMoves
  <2> QED
    BY <2>1 DEF SockInv
<1>4. CASE ~Shared /\ sock[p] = "closed" /\ sock'[c] = "reset" /\ wire' = wire
  <2>1. Cut /\ Cut'
    BY <1>1, <1>2, <1>4 DEF Cut
  <2>2. Cut' = Cut
    BY <2>1 DEF Cut
  <2> QED
    BY <1>2, <1>4, <2>1, <2>2 DEF Keeps, ToCome
<1>5. CASE /\ Shared \/ sock[p] # "closed"
           /\ sock' = sock
           /\ wire'[p] \o tx'[c].content = wire[p] \o tx[c].content
  <2>1. ~Cut /\ ~Cut'
    BY <1>1, <1>2, <1>3, <1>5 DEF Cut
  <2>2. Cut' = Cut
    BY <2>1 DEF Cut
  <2>3. CASE e = c
    BY <1>2, <1>3, <2>1, <2>3, <2>2 DEF Keeps, ToCome
  <2>4. CASE e = p
    <3> DEFINE a == rx[p].content
               w0 == wire[p]
               t0 == tx[c].content
               w1 == wire'[p]
               t1 == tx'[c].content
    <3>1. a \in Seq(Byte) /\ w0 \in Seq(Byte) /\ t0 \in Seq(Byte)
      BY <1>1, StreamTypes
    <3>2. w1 \in Seq(Byte) /\ t1 \in Seq(Byte)
      BY <1>1, SendMoves DEF Buffer
    <3>3. w1 \o t1 = w0 \o t0
      BY <1>5
    <3>4. ToCome(p) = (a \o w0) \o t0 /\ ToCome(p)' = (a \o w1) \o t1
      BY <1>1, <1>2, <2>1 DEF ToCome
    <3> HIDE DEF a, w0, t0, w1, t1
    <3>5. Regrouped(a, w0, t0) /\ Regrouped(a, w1, t1)
      BY <3>1, <3>2, Regroup
    <3>6. ToCome(p)' = ToCome(p)
      BY <3>3, <3>4, <3>5 DEF Regrouped
    <3> QED
      BY <2>4, <2>2, <3>6 DEF Keeps
  <2> QED
    BY <1>1, <2>3, <2>4
<1> QED
  BY <1>4, <1>5, SendMoves

LEMMA StepMoves ==
  ASSUME Known, Known', [Next]_vars, NEW e \in Ends
  PROVE  Moves(e)
<1>1. TypeOK /\ TypeOK' /\ DispatchInv /\ SockInv
  BY DEF Known, IInv, DrainInv
<1>2. ASSUME NEW s \in Ends, SendText(s)
      PROVE  Moves(e)
  <2>1. CASE Peer(e) = s
    BY <1>2, <2>1, SendGives
  <2>2. CASE Peer(e) # s
    <3> DEFINE p == Peer(e)
    <3>1. p \in Ends /\ UNCHANGED <<transport, rx, sock, wire, delivered, consumed>>
      BY <1>2, PeerType DEF SendText
    <3>2. sent'[p] = sent[p] /\ refused'[p] = refused[p] /\ tx'[p] = tx[p]
      <4>1. sent'[p] = sent[p]
        BY <1>1, <1>2, <2>2, <3>1 DEF SendText, TypeOK
      <4>2. p \in Ends \ {s}
        BY <2>2, <3>1
      <4> QED
        BY <1>1, <1>2, <4>1, <4>2, SendTextMoves
    <3>3. Cut' = Cut
      BY <3>1 DEF Cut, Shared
    <3>4. ToCome(e)' = ToCome(e)
      BY <3>1, <3>2, <3>3 DEF ToCome
    <3> QED
      BY <3>1, <3>2, <3>3, <3>4, StreamRests
  <2> QED
    BY <2>1, <2>2
<1>3. ASSUME NEW d \in Ends, DispatchMessage(d)
      PROVE  Moves(e)
  <2>1. CASE d = e
    BY <1>3, <2>1, DispatchTakes
  <2>2. CASE d # e
    <3>1. UNCHANGED <<transport, sent, refused, tx, sock, wire>>
      BY <1>3 DEF DispatchMessage
    <3>2. rx'[e] = rx[e] /\ delivered'[e] = delivered[e]
      BY <1>1, <1>3, <2>2, DispatchMoves
    <3>3. Cut' = Cut
      BY <3>1 DEF Cut, Shared
    <3>4. ToCome(e)' = ToCome(e)
      BY <3>1, <3>2, <3>3 DEF ToCome
    <3> QED
      BY <3>1, <3>2, <3>3, <3>4, StreamRests
  <2> QED
    BY <2>1, <2>2
<1>4. CASE UNCHANGED <<sent, accepted, refused, delivered, consumed>>
            /\ ~ \E d \in Ends : SendText(d) \/ DispatchMessage(d)
  <2>1. ASSUME Keeps(e) \/ Shortens(e) PROVE Moves(e)
    BY <1>4, <2>1, KeepsRests, ShortensLoses
  <2>2. ASSUME NEW d \in Ends, Quiet,
               UNCHANGED <<sock, wire, ending>> \/ \E how \in How : Closes(d, how)
        PROVE  Keeps(e) \/ Shortens(e)
    BY <1>1, <1>4, <2>2, QuietKeeps, CloseShortens
  <2>3. ASSUME NEW d \in Ends, RecvBytes(d) \/ SendBytes(d)
        PROVE  Keeps(e) \/ Shortens(e)
    BY <1>1, <2>3, RecvKeeps, SendKeeps
  <2>4. ASSUME NetworkReset
        PROVE  Keeps(e) \/ Shortens(e)
    <3>1. /\ Quiet /\ Cut'
          /\ \A d \in Ends : wire'[d] \in {wire[d], << >>}
      BY <2>4 DEF NetworkReset, history, Quiet, Received, Cut, Shared, Ends
    <3> QED
      BY <1>1, <1>4, <3>1, BreakShortens
  <2>5. ASSUME UNCHANGED vars
        PROVE  Keeps(e) \/ Shortens(e)
    <3>1. Quiet /\ UNCHANGED <<sock, wire>>
      BY <2>5 DEF vars, history, Quiet, Received
    <3> QED
      BY <1>1, <1>4, <3>1, QuietKeeps
  <2>6. ASSUME NEW d \in Ends,
               \/ Close(d) \/ Destroy(d) \/ Tick(d) \/ DestructorCheck(d)
               \/ PollStart(d) \/ RecvNoRoom(d) \/ RecvWouldBlock(d) \/ RecvEnded(d)
               \/ SendFailed(d) \/ Finish(d)
        PROVE  Keeps(e) \/ Shortens(e)
    <3>1. Quiet /\ (UNCHANGED <<sock, wire, ending>> \/ \E how \in How : Closes(d, how))
      BY <1>1, <2>6, QuietSteps
    <3> QED
      BY <2>2, <3>1
  <2>7. \/ \E d \in Ends : \/ Close(d) \/ Destroy(d) \/ Tick(d) \/ DestructorCheck(d)
                           \/ PollStart(d) \/ RecvNoRoom(d) \/ RecvWouldBlock(d) \/ RecvEnded(d)
                           \/ SendFailed(d) \/ Finish(d) \/ RecvBytes(d) \/ SendBytes(d)
        \/ NetworkReset \/ UNCHANGED vars
    BY <1>4 DEF Next, Poll, App
  <2> QED
    BY <2>1, <2>3, <2>4, <2>5, <2>6, <2>7
<1> QED
  BY <1>2, <1>3, <1>4, OtherSteps

(***************************************************************************)
(* Each direction of a connection is a stream of whole texts, as long as   *)
(* no transmit buffer was full: sendText gives one, each message that the  *)
(* callback gets takes the next, and every other step of poll, of close,   *)
(* of the destructor and of the network leaves what is on its way, or ends *)
(* the connection and loses the last of it.                                *)
(***************************************************************************)
THEOREM StreamsAreKept == Spec => RefinesStreams
<1>1. Init => Streams!Init
  BY InitStreamsRefine
<1>2. Known /\ Known' /\ [Next]_vars => [Streams!Next]_(Streams!vars)
  BY StepMoves, MovesRefine
<1> QED
  BY <1>1, <1>2, KnownAlways, PTL DEF Spec, RefinesStreams, Streams!Spec

=============================================================================
