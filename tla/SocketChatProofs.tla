-------------------------- MODULE SocketChatProofs --------------------------
(***************************************************************************)
(* Proofs about SocketChat, for every script, buffer size, read size,      *)
(* kernel capacity, transport, blocking mode and timeout.                  *)
(***************************************************************************)
EXTENDS SocketChat, SequenceLemmas

----------------------------------------------------------------------------
(***************************************************************************)
(* The buffers: what their operations return.                              *)
(***************************************************************************)
\* Whatever length an allocation gets, it is within the maximum.
LEMMA RoomType ==
  ASSUME NEW q \in Buffer, NEW n \in Nat, NEW m \in RoomLengths(q, n)
  PROVE  m \in 0 .. MaxGrowSize
<1>1. Len(q.content) \in Nat /\ q.maxLen \in 0 .. MaxGrowSize
  BY LenProperties DEF Buffer
<1> QED
  BY <1>1, SocketChatAssumption DEF RoomLengths, GrowthTargets

\* addBuffer adds all of the bytes or nothing.
LEMMA AddGives ==
  ASSUME NEW q \in Buffer, NEW bytes \in Seq(Byte), NEW r \in Add(q, bytes)
  PROVE  /\ r.buf \in Buffer /\ r.ok \in BOOLEAN
         /\ r.buf.content = q.content \o (IF r.ok THEN bytes ELSE << >>)
<1>1. Len(bytes) \in Nat /\ q.content \in Seq(Byte)
  BY LenProperties DEF Buffer
<1>2. CASE \E m \in RoomLengths(q, Len(bytes)) :
             r = [buf |-> [content |-> q.content \o bytes, maxLen |-> m], ok |-> TRUE]
  BY <1>1, <1>2, RoomType, ConcatProperties DEF Buffer
<1>3. CASE r = [buf |-> q, ok |-> FALSE]
  BY <1>1, <1>3, ConcatEmptySeq
<1> QED
  BY <1>2, <1>3 DEF Add, Refused

\* Making room leaves the bytes alone.
LEMMA ReserveGives ==
  ASSUME NEW q \in Buffer, NEW n \in Nat, NEW r \in Reserve(q, n)
  PROVE  r.buf \in Buffer /\ r.buf.content = q.content
<1>1. CASE \E m \in RoomLengths(q, n) : r = [buf |-> [q EXCEPT !.maxLen = m], ok |-> TRUE]
  BY <1>1, RoomType DEF Buffer
<1>2. CASE r = [buf |-> q, ok |-> FALSE]
  BY <1>2
<1> QED
  BY <1>1, <1>2 DEF Reserve, Refused

LEMMA FillGives ==
  ASSUME NEW q \in Buffer, NEW bytes \in Seq(Byte)
  PROVE  Fill(q, bytes) \in Buffer /\ Fill(q, bytes).content = q.content \o bytes
  BY ConcatProperties DEF Buffer, Fill

LEMMA TakeGives ==
  ASSUME NEW q \in Buffer, NEW n \in 0 .. Len(q.content)
  PROVE  /\ Take(q, n) \in Buffer
         /\ Take(q, n).content = SubSeq(q.content, n + 1, Len(q.content))
<1>1. q.content \in Seq(Byte)
  BY DEF Buffer
<1>2. SubSeq(q.content, n + 1, Len(q.content)) \in Seq(Byte)
  BY <1>1, PartsType
<1> QED
  BY <1>2 DEF Buffer, Take

\* The first delimiter of a byte sequence, if it has any.
LEMMA FirstDelimiterIs ==
  ASSUME NEW bytes \in Seq(Byte)
  PROVE  LET at == FirstDelimiter(bytes) IN
         \/ /\ at = 0
            /\ \A i \in 1 .. Len(bytes) - 1 : ~DelimiterAt(bytes, i)
         \/ /\ at \in 1 .. Len(bytes) - 1
            /\ DelimiterAt(bytes, at)
            /\ \A i \in 1 .. at - 1 : ~DelimiterAt(bytes, i)
<1> DEFINE places == {i \in 1 .. Len(bytes) - 1 : DelimiterAt(bytes, i)}
<1>1. Len(bytes) \in Nat
  BY LenProperties
<1>2. CASE places = {}
  BY <1>2 DEF FirstDelimiter
<1>3. CASE places # {}
  <2>1. places \in SUBSET Nat
    BY <1>1
  <2>2. \E i \in places : \A j \in places : i <= j
    <3> HIDE DEF places
    <3> QED
      BY <1>3, <2>1, LeastNumber
  <2>3. FirstDelimiter(bytes) \in places /\ \A j \in places : FirstDelimiter(bytes) <= j
    BY <1>3, <2>2 DEF FirstDelimiter
  <2> QED
    BY <1>1, <2>3
<1> QED
  BY <1>2, <1>3

LEMMA PeerType == \A e \in Ends : Peer(e) \in Ends /\ Peer(e) # e /\ Peer(Peer(e)) = e
  BY DEF Ends, Peer

\* The other end is the peer.
LEMMA TwoEnds == \A e, d \in Ends : d = e \/ d = Peer(e)
  BY DEF Ends, Peer

----------------------------------------------------------------------------
(***************************************************************************)
(* Types.                                                                  *)
(***************************************************************************)
LEMMA InitType == Init => TypeOK
<1> SUFFICES ASSUME Init PROVE TypeOK
  OBVIOUS
<1>1. Fresh(DefaultBufferSize) \in Buffer
  BY SocketChatAssumption DEF Fresh, Buffer
<1>2. << >> \in Seq(Byte) /\ << >> \in Seq(Seq(Byte))
  BY EmptySeq
<1>3. /\ readyState \in [Ends -> {"OPEN", "CLOSING", "CLOSED"}]
      /\ phase \in [Ends -> {"live", "dtor", "gone"}]
      /\ pc \in [Ends -> {"app", "recv", "send", "dispatch", "check", "gone"}]
      /\ sock \in [Ends -> {"none", "open", "reset", "closed"}]
  BY DEF Init, Connected, NotConnected, NotResolved, Alone
<1> QED
  BY <1>1, <1>2, <1>3, SocketChatAssumption DEF Init, TypeOK

\* Changing the value of both.
LEMMA BothChanged ==
  ASSUME NEW D, NEW T, NEW f \in [D -> T], NEW e \in D, NEW p \in D, p # e,
         \A d \in D : d = e \/ d = p, NEW a, NEW b
  PROVE  [f EXCEPT ![e] = a, ![p] = b] = [d \in D |-> IF d = e THEN a ELSE b]
  OBVIOUS

(***************************************************************************)
(* Closing a socket, whatever the transport: the end is closed, the peer   *)
(* stays as it is or is reset, and what the kernel holds stays or is lost. *)
(***************************************************************************)
How == {"eof", "error", "self", "timeout"}

LEMMA CloseGives ==
  ASSUME TypeOK, NEW e \in Ends, NEW how \in How, CloseSocket(e, how)
  PROVE  /\ sock' \in [Ends -> {"none", "open", "reset", "closed"}]
         /\ wire' \in [Ends -> Seq(Byte)]
         /\ ending' \in [Ends -> [how : {"none"} \cup How, accepted : Seq(Byte)]]
         /\ sock'[e] = "closed"
         /\ \/ sock'[Peer(e)] = sock[Peer(e)]
            \/ /\ ~Shared /\ wire[e] # << >>
               /\ sock[e] = "open" /\ sock[Peer(e)] = "open" /\ sock'[Peer(e)] = "reset"
         /\ \A d \in Ends : wire'[d] \in {wire[d], << >>}
         /\ sock'[Peer(e)] = "open" => wire'[Peer(e)] = wire[Peer(e)]
         /\ IF Shared THEN wire' = wire ELSE wire'[e] = << >>
         /\ ending'[e] = [how |-> how, accepted |-> accepted[e]]
         /\ ending'[Peer(e)] = ending[Peer(e)]
<1> DEFINE p == Peer(e)
<1>1. p \in Ends /\ p # e /\ \A d \in Ends : d = e \/ d = p
  BY PeerType, TwoEnds
<1>2. /\ ending' \in [Ends -> [how : {"none"} \cup How, accepted : Seq(Byte)]]
      /\ ending'[e] = [how |-> how, accepted |-> accepted[e]]
      /\ ending'[p] = ending[p]
  <2>1. ending \in [Ends -> [how : {"none"} \cup How, accepted : Seq(Byte)]]
    BY DEF TypeOK, How
  <2>2. [how |-> how, accepted |-> accepted[e]] \in [how : {"none"} \cup How, accepted : Seq(Byte)]
    BY DEF TypeOK
  <2> QED
    BY <1>1, <2>1, <2>2 DEF CloseSocket
<1>3. CASE Shared
  BY <1>1, <1>2, <1>3 DEF TypeOK, CloseSocket, CloseShared
<1>4. CASE ~Shared
  <2> DEFINE aborts == sock[e] = "open" /\ sock[p] = "open" /\ wire[e] # << >>
  <2>1. << >> \in Seq(Byte)
    BY EmptySeq
  <2>2. sock' = [d \in Ends |-> IF d = e THEN "closed" ELSE IF aborts THEN "reset" ELSE sock[p]]
    <3>1. sock' = [sock EXCEPT ![e] = "closed", ![p] = IF aborts THEN "reset" ELSE sock[p]]
      BY <1>4 DEF CloseSocket, CloseTcp
    <3>2. sock \in [Ends -> {"none", "open", "reset", "closed"}]
      BY DEF TypeOK
    <3> HIDE DEF p, aborts
    <3> QED
      BY <1>1, <3>1, <3>2, BothChanged
  <2>3. PICK left \in {wire[p]} \cup (IF aborts THEN {<< >>} ELSE {}) :
          wire' = [d \in Ends |-> IF d = e THEN << >> ELSE left]
    <3>1. PICK left \in {wire[p]} \cup (IF aborts THEN {<< >>} ELSE {}) :
            wire' = [wire EXCEPT ![e] = << >>, ![p] = left]
      BY <1>4 DEF CloseSocket, CloseTcp
    <3>2. wire \in [Ends -> Seq(Byte)]
      BY DEF TypeOK
    <3>3. wire' = [d \in Ends |-> IF d = e THEN << >> ELSE left]
      <4> DEFINE nothing == << >>
      <4>1. wire' = [wire EXCEPT ![e] = nothing, ![p] = left]
        BY <3>1
      <4> HIDE DEF p, aborts, nothing
      <4>2. wire' = [d \in Ends |-> IF d = e THEN nothing ELSE left]
        BY <1>1, <4>1, <3>2, BothChanged
      <4> QED
        BY <4>2 DEF nothing
    <3> QED
      BY <3>3
  <2>4. /\ sock \in [Ends -> {"none", "open", "reset", "closed"}]
        /\ wire \in [Ends -> Seq(Byte)]
    BY DEF TypeOK
  <2> HIDE DEF p
  <2>5. /\ sock' \in [Ends -> {"none", "open", "reset", "closed"}]
        /\ wire' \in [Ends -> Seq(Byte)]
    BY <1>1, <2>1, <2>2, <2>3, <2>4
  <2>6. sock'[e] = "closed" /\ sock'[p] = IF aborts THEN "reset" ELSE sock[p]
    BY <1>1, <2>2
  <2>7. wire'[e] = << >> /\ wire'[p] = left
    BY <1>1, <2>3
  <2>8. sock'[p] = "open" => left = wire[p]
    BY <2>6
  <2>9. left \in {wire[p], << >>}
    OBVIOUS
  <2> QED
    BY <1>1, <1>2, <1>4, <2>5, <2>6, <2>7, <2>8, <2>9 DEF p
<1> QED
  BY <1>3, <1>4

\* The end of the object.
LEMMA ReleaseType ==
  ASSUME TypeOK, NEW e \in Ends, Release(e)
  PROVE  /\ phase' \in [Ends -> {"live", "dtor", "gone"}]
         /\ pc' \in [Ends -> {"app", "recv", "send", "dispatch", "check", "gone"}]
         /\ sock' \in [Ends -> {"none", "open", "reset", "closed"}]
         /\ wire' \in [Ends -> Seq(Byte)]
         /\ ending' \in [Ends -> [how : {"none", "eof", "error", "self", "timeout"},
                                  accepted : Seq(Byte)]]
<1>1. CASE CloseSocket(e, "timeout")
  <2>1. {"none"} \cup How = {"none", "eof", "error", "self", "timeout"} /\ "timeout" \in How
    BY DEF How
  <2> QED
    BY <1>1, <2>1, CloseGives DEF TypeOK, Release, Goto
<1>2. CASE UNCHANGED <<sock, wire, ending>>
  BY <1>2 DEF TypeOK, Release, Goto
<1> QED
  BY <1>1, <1>2 DEF Release

\* sendText: what it puts into the transmit buffer; if nothing was ever refused that is
\* the text and the delimiter.
LEMMA SendTextMoves ==
  ASSUME TypeOK, NEW e \in Ends, SendText(e)
  PROVE  /\ tx' \in [Ends -> Buffer] /\ accepted' \in [Ends -> Seq(Byte)]
         /\ refused' \in [Ends -> BOOLEAN]
         /\ Script[e][sent[e] + 1] \in Seq(Byte) /\ Delimiter \in Seq(Byte)
         /\ \E more \in Seq(Byte) :
              /\ tx'[e].content = tx[e].content \o more
              /\ accepted'[e] = accepted[e] \o more
              /\ ~refused'[e] => ~refused[e] /\ more = Script[e][sent[e] + 1] \o Delimiter
         /\ \A d \in Ends \ {e} : tx'[d] = tx[d] /\ accepted'[d] = accepted[d]
                                  /\ refused'[d] = refused[d]
<1> DEFINE text == Script[e][sent[e] + 1]
<1>1. PICK body \in Add(tx[e], text) : \E tail \in Add(body.buf, Delimiter) :
        /\ tx' = [tx EXCEPT ![e] = tail.buf]
        /\ accepted' = [accepted EXCEPT ![e] = @ \o (IF body.ok THEN text ELSE << >>)
                                                 \o (IF tail.ok THEN Delimiter ELSE << >>)]
        /\ refused' = [refused EXCEPT ![e] = @ \/ ~body.ok \/ ~tail.ok]
  BY DEF SendText
<1>2. PICK tail \in Add(body.buf, Delimiter) :
        /\ tx' = [tx EXCEPT ![e] = tail.buf]
        /\ accepted' = [accepted EXCEPT ![e] = @ \o (IF body.ok THEN text ELSE << >>)
                                                 \o (IF tail.ok THEN Delimiter ELSE << >>)]
        /\ refused' = [refused EXCEPT ![e] = @ \/ ~body.ok \/ ~tail.ok]
  BY <1>1
<1>3. text \in Seq(Byte)
  <2>1. Script[e] \in Seq(Seq(Byte)) /\ sent[e] \in Nat
    BY SocketChatAssumption DEF TypeOK
  <2>2. sent[e] + 1 \in 1 .. Len(Script[e])
    BY <2>1, LenProperties DEF SendText
  <2> QED
    BY <2>1, <2>2, ElementOfSeq
<1>4. Delimiter \in Seq(Byte)
  BY SocketChatAssumption DEF Delimiter
<1> DEFINE one == IF body.ok THEN text ELSE << >>
           two == IF tail.ok THEN Delimiter ELSE << >>
           held == tx[e].content
           known == accepted[e]
<1>5. /\ body.buf \in Buffer /\ body.ok \in BOOLEAN
      /\ body.buf.content = held \o one
  BY <1>3, AddGives DEF TypeOK
<1>6. /\ tail.buf \in Buffer /\ tail.ok \in BOOLEAN
      /\ tail.buf.content = body.buf.content \o two
  BY <1>4, <1>5, AddGives
<1>7. one \in Seq(Byte) /\ two \in Seq(Byte)
  BY <1>3, <1>4, EmptySeq
<1>8. held \in Seq(Byte) /\ known \in Seq(Byte)
  BY DEF TypeOK, Buffer
<1>9. ~refused'[e] => ~refused[e] /\ one \o two = text \o Delimiter
  BY <1>2, <1>5, <1>6 DEF TypeOK
<1>10. /\ tx' \in [Ends -> Buffer] /\ tx'[e] = tail.buf
       /\ refused' \in [Ends -> BOOLEAN]
       /\ \A d \in Ends \ {e} : tx'[d] = tx[d] /\ refused'[d] = refused[d]
  BY <1>2, <1>5, <1>6 DEF TypeOK
<1>11. accepted' = [accepted EXCEPT ![e] = known \o one \o two]
  BY <1>2
<1> HIDE DEF one, two, held, known
<1>12. /\ one \o two \in Seq(Byte)
       /\ (known \o one) \o two \in Seq(Byte)
       /\ (known \o one) \o two = known \o (one \o two)
       /\ (held \o one) \o two = held \o (one \o two)
  <2>1. one \o two \in Seq(Byte) /\ known \o one \in Seq(Byte)
    BY <1>7, <1>8, ConcatProperties
  <2>2. (known \o one) \o two \in Seq(Byte)
    BY <1>7, <2>1, ConcatProperties
  <2>3. Regrouped(known, one, two) /\ Regrouped(held, one, two)
    BY <1>7, <1>8, Regroup
  <2> QED
    BY <2>1, <2>2, <2>3 DEF Regrouped
<1>13. /\ accepted' \in [Ends -> Seq(Byte)] /\ accepted'[e] = known \o (one \o two)
       /\ \A d \in Ends \ {e} : accepted'[d] = accepted[d]
  BY <1>11, <1>12 DEF TypeOK
<1>14. tx'[e].content = held \o (one \o two)
  BY <1>5, <1>6, <1>10, <1>12
<1> HIDE DEF text
<1>15. \E more \in Seq(Byte) :
         /\ tx'[e].content = tx[e].content \o more
         /\ accepted'[e] = accepted[e] \o more
         /\ ~refused'[e] => ~refused[e] /\ more = text \o Delimiter
  <2>1. one \o two \in Seq(Byte)
    BY <1>12
  <2> WITNESS one \o two \in Seq(Byte)
  <2> QED
    BY <1>9, <1>13, <1>14 DEF held, known
<1> QED
  BY <1>3, <1>4, <1>10, <1>13, <1>15 DEF text

\* The application's steps.
LEMMA AppType ==
  ASSUME TypeOK, NEW e \in Ends, SendText(e) \/ Close(e) \/ Destroy(e)
  PROVE  TypeOK'
<1>1. CASE SendText(e)
  <2>1. /\ tx' \in [Ends -> Buffer] /\ accepted' \in [Ends -> Seq(Byte)]
        /\ refused' \in [Ends -> BOOLEAN]
    BY <1>1, SendTextMoves
  <2>2. sent' \in [Ends -> Nat]
    BY <1>1 DEF TypeOK, SendText
  <2>3. UNCHANGED <<transport, endVars, rx, sock, wire, delivered, consumed, ending>>
    BY <1>1 DEF SendText
  <2> QED
    BY <2>1, <2>2, <2>3 DEF TypeOK, endVars
<1>2. CASE Close(e)
  BY <1>2 DEF TypeOK, Close, Closing, history
<1>3. CASE Destroy(e)
  <2>1. /\ readyState' \in [Ends -> {"OPEN", "CLOSING", "CLOSED"}]
        /\ age' \in [Ends -> 0 .. CloseTimeout]
    BY <1>3, SocketChatAssumption DEF TypeOK, Destroy, Closing
  <2>2. CASE Release(e)
    BY <1>3, <2>1, <2>2, ReleaseType DEF TypeOK, Destroy
  <2>3. CASE ~Release(e)
    BY <1>3, <2>1, <2>3 DEF TypeOK, Destroy, PollOrRelease, Goto
  <2> QED
    BY <2>2, <2>3
<1> QED
  BY <1>1, <1>2, <1>3

\* The steps of poll that leave both streams alone.
LEMMA QuietPollType ==
  ASSUME TypeOK, NEW e \in Ends,
         PollStart(e) \/ RecvNoRoom(e) \/ RecvWouldBlock(e) \/ RecvEnded(e)
           \/ SendFailed(e) \/ Finish(e)
  PROVE  TypeOK'
<1>1. \A n \in Nat : \A room \in Reserve(rx[e], n) : room.buf \in Buffer
  BY ReserveGives DEF TypeOK
<1>2. {"none"} \cup How = {"none", "eof", "error", "self", "timeout"}
      /\ "eof" \in How /\ "error" \in How /\ "self" \in How
  BY DEF How
<1>3. MaxReadSize \in Nat
  BY SocketChatAssumption
<1>4. CASE PollStart(e)
  BY <1>4 DEF TypeOK, PollStart, Goto, history
<1>5. CASE RecvNoRoom(e)
  BY <1>5 DEF TypeOK, RecvNoRoom, Goto, history
<1>6. CASE RecvWouldBlock(e)
  BY <1>1, <1>3, <1>6 DEF TypeOK, RecvWouldBlock, Goto, history
<1>7. CASE RecvEnded(e)
  <2>1. rx' \in [Ends -> Buffer]
    BY <1>1, <1>3, <1>7 DEF TypeOK, RecvEnded
  <2>2. CloseSocket(e, IF sock[e] = "reset" THEN "error" ELSE "eof")
    BY <1>7 DEF RecvEnded, Disconnect
  <2> QED
    BY <1>2, <1>7, <2>1, <2>2, CloseGives DEF TypeOK, RecvEnded, Disconnect, Goto, Place
<1>8. CASE SendFailed(e)
  <2>1. CloseSocket(e, "error")
    BY <1>8 DEF SendFailed, Disconnect
  <2> QED
    BY <1>2, <1>8, <2>1, CloseGives DEF TypeOK, SendFailed, Disconnect, Goto, Place
<1>9. CASE Finish(e)
  <2>1. /\ readyState' \in [Ends -> {"OPEN", "CLOSING", "CLOSED"}]
        /\ sock' \in [Ends -> {"none", "open", "reset", "closed"}]
        /\ wire' \in [Ends -> Seq(Byte)]
        /\ ending' \in [Ends -> [how : {"none", "eof", "error", "self", "timeout"},
                                 accepted : Seq(Byte)]]
    <3>1. CASE ClosesNow(e)
      <4>1. CloseSocket(e, "self") /\ readyState' = [readyState EXCEPT ![e] = "CLOSED"]
        BY <1>9, <3>1 DEF Finish
      <4> QED
        BY <1>2, <4>1, CloseGives DEF TypeOK
    <3>2. CASE ~ClosesNow(e)
      BY <1>9, <3>2 DEF TypeOK, Finish
    <3> QED
      BY <3>1, <3>2
  <2>2. pc' \in [Ends -> {"app", "recv", "send", "dispatch", "check", "gone"}]
    BY <1>9 DEF TypeOK, Finish, Goto, Place, Dispatching
  <2> QED
    BY <1>9, <2>1, <2>2 DEF TypeOK, Finish
<1> QED
  BY <1>4, <1>5, <1>6, <1>7, <1>8, <1>9

(***************************************************************************)
(* The three steps that move bytes: what each takes from where it takes    *)
(* it, and puts where it puts it.                                          *)
(***************************************************************************)
LEMMA RecvMoves ==
  ASSUME TypeOK, NEW e \in Ends, RecvBytes(e)
  PROVE  /\ wire[e] # << >>
         /\ rx' \in [Ends -> Buffer] /\ wire' \in [Ends -> Seq(Byte)]
         /\ rx'[e].content \o wire'[e] = rx[e].content \o wire[e]
         /\ \A d \in Ends \ {e} : rx'[d] = rx[d] /\ wire'[d] = wire[d]
<1>1. PICK room \in Reserve(rx[e], MaxReadSize), n \in 1 .. MaxReadSize :
        /\ n <= Len(wire[e])
        /\ rx' = [rx EXCEPT ![e] = Fill(room.buf, SubSeq(wire[e], 1, n))]
        /\ wire' = [wire EXCEPT ![e] = SubSeq(@, n + 1, Len(@))]
  BY DEF RecvBytes
<1> DEFINE in == SubSeq(wire[e], 1, n)
           left == SubSeq(wire[e], n + 1, Len(wire[e]))
<1>2. /\ MaxReadSize \in Nat
      /\ rx[e] \in Buffer /\ rx[e].content \in Seq(Byte) /\ wire[e] \in Seq(Byte)
  BY SocketChatAssumption DEF TypeOK, Buffer
<1>3. Len(wire[e]) \in Nat /\ n \in 0 .. Len(wire[e]) /\ wire[e] # << >>
  BY <1>1, <1>2, LenProperties, EmptySeq
<1>4. in \in Seq(Byte) /\ left \in Seq(Byte)
  BY <1>2, <1>3, PartsType
<1>10. in \o left = wire[e]
  BY <1>2, <1>3, PartsTogether
<1>5. room.buf \in Buffer /\ room.buf.content = rx[e].content
  BY <1>2, ReserveGives
<1>6. Fill(room.buf, in) \in Buffer /\ Fill(room.buf, in).content = rx[e].content \o in
  BY <1>4, <1>5, FillGives
<1>7. /\ rx' = [rx EXCEPT ![e] = Fill(room.buf, in)]
      /\ wire' = [wire EXCEPT ![e] = left]
  BY <1>1
<1> HIDE DEF in, left
<1>8. /\ rx' \in [Ends -> Buffer] /\ wire' \in [Ends -> Seq(Byte)]
      /\ rx'[e] = Fill(room.buf, in) /\ wire'[e] = left
      /\ \A d \in Ends \ {e} : rx'[d] = rx[d] /\ wire'[d] = wire[d]
  BY <1>4, <1>6, <1>7 DEF TypeOK
<1>9. (rx[e].content \o in) \o left = rx[e].content \o (in \o left)
  <2> DEFINE held == rx[e].content
  <2>1. held \in Seq(Byte)
    BY <1>2
  <2> HIDE DEF held
  <2>2. (held \o in) \o left = held \o (in \o left)
    BY <1>4, <2>1, ConcatAssociative
  <2> QED
    BY <2>2 DEF held
<1> QED
  BY <1>3, <1>6, <1>8, <1>9, <1>10

LEMMA SendMoves ==
  ASSUME TypeOK, NEW e \in Ends, SendBytes(e)
  PROVE  /\ sock[e] = "open"
         /\ sock' \in [Ends -> {"none", "open", "reset", "closed"}]
         /\ tx' \in [Ends -> Buffer] /\ wire' \in [Ends -> Seq(Byte)]
         /\ \A d \in Ends \ {e} : tx'[d] = tx[d] /\ sock'[d] = sock[d]
         /\ wire'[e] = wire[e]
         /\ \/ ~Shared /\ sock[Peer(e)] = "closed" /\ sock'[e] = "reset" /\ wire' = wire
            \/ /\ Shared \/ sock[Peer(e)] # "closed"
               /\ sock' = sock
               /\ wire'[Peer(e)] \o tx'[e].content = wire[Peer(e)] \o tx[e].content
<1> DEFINE p == Peer(e)
<1>1. PICK n \in 1 .. Len(tx[e].content) :
        /\ tx' = [tx EXCEPT ![e] = Take(@, n)]
        /\ IF ~Shared /\ sock[p] = "closed"
             THEN sock' = [sock EXCEPT ![e] = "reset"] /\ UNCHANGED wire
             ELSE /\ wire' = [wire EXCEPT ![p] = @ \o SubSeq(tx[e].content, 1, n)]
                  /\ UNCHANGED sock
  BY DEF SendBytes
<1> DEFINE out == SubSeq(tx[e].content, 1, n)
           left == SubSeq(tx[e].content, n + 1, Len(tx[e].content))
<1>2. /\ p \in Ends /\ p # e
      /\ tx[e] \in Buffer /\ tx[e].content \in Seq(Byte) /\ wire[p] \in Seq(Byte)
  BY PeerType DEF TypeOK, Buffer
<1>3. n \in 0 .. Len(tx[e].content)
  BY <1>1, <1>2, LenProperties
<1>4. out \in Seq(Byte) /\ left \in Seq(Byte)
  BY <1>2, <1>3, PartsType
<1>10. out \o left = tx[e].content
  BY <1>2, <1>3, PartsTogether
<1>5. Take(tx[e], n) \in Buffer /\ Take(tx[e], n).content = left
  BY <1>2, <1>3, TakeGives
<1>6. /\ tx' \in [Ends -> Buffer] /\ tx'[e].content = left
      /\ \A d \in Ends \ {e} : tx'[d] = tx[d]
  <2> HIDE DEF left
  <2> QED
    BY <1>1, <1>5 DEF TypeOK
<1>7. sock[e] = "open"
  BY DEF SendBytes
<1>8. CASE ~Shared /\ sock[p] = "closed"
  <2>1. sock' = [sock EXCEPT ![e] = "reset"] /\ wire' = wire
    BY <1>1, <1>8
  <2> HIDE DEF p, out, left
  <2> QED
    BY <1>2, <1>6, <1>7, <1>8, <2>1 DEF TypeOK, p
<1>9. CASE Shared \/ sock[p] # "closed"
  <2>1. wire' = [wire EXCEPT ![p] = wire[p] \o out] /\ sock' = sock
    BY <1>1, <1>9
  <2> HIDE DEF p, out, left
  <2>2. /\ wire[p] \o out \in Seq(Byte)
        /\ (wire[p] \o out) \o left = wire[p] \o (out \o left)
    <3> DEFINE held == wire[p]
    <3>1. held \in Seq(Byte)
      BY <1>2
    <3> HIDE DEF held
    <3>2. held \o out \in Seq(Byte) /\ (held \o out) \o left = held \o (out \o left)
      BY <1>4, <3>1, ConcatProperties, ConcatAssociative
    <3> QED
      BY <3>2 DEF held
  <2>3. wire' \in [Ends -> Seq(Byte)] /\ wire'[p] = wire[p] \o out /\ wire'[e] = wire[e]
    BY <1>2, <2>1, <2>2 DEF TypeOK
  <2>4. wire'[p] \o tx'[e].content = wire[p] \o tx[e].content
    BY <1>6, <1>10, <2>2, <2>3
  <2> QED
    BY <1>6, <1>7, <1>9, <2>1, <2>3, <2>4 DEF TypeOK, p
<1> QED
  BY <1>8, <1>9

(***************************************************************************)
(* A poll only goes to the callbacks when there is a whole message: with   *)
(* no delimiter in the buffer _dispatchBinary would take a byte that is    *)
(* not there.  The types depend on it.                                     *)
(***************************************************************************)
DispatchInv == \A e \in Ends : pc[e] = "dispatch" => FirstDelimiter(rx[e].content) # 0

LEMMA DispatchMoves ==
  ASSUME TypeOK, DispatchInv, NEW e \in Ends, DispatchMessage(e)
  PROVE  LET content == rx[e].content
             at      == FirstDelimiter(content)
         IN  /\ at \in 1 .. Len(content) - 1 /\ DelimiterAt(content, at)
             /\ \A i \in 1 .. at - 1 : ~DelimiterAt(content, i)
             /\ delivered' \in [Ends -> Seq(Seq(Byte))]
             /\ delivered'[e] = Append(delivered[e], SubSeq(content, 1, at - 1))
             /\ consumed' \in [Ends -> Seq(Byte)]
             /\ consumed'[e] = consumed[e] \o SubSeq(content, 1, at + 1)
             /\ rx' \in [Ends -> Buffer]
             /\ Received(e)' = Received(e)
             /\ \A d \in Ends \ {e} : /\ rx'[d] = rx[d] /\ consumed'[d] = consumed[d]
                                      /\ delivered'[d] = delivered[d]
<1> DEFINE content == rx[e].content
           at == FirstDelimiter(content)
           out == SubSeq(content, 1, at + 1)
           left == SubSeq(content, at + 2, Len(content))
           message == SubSeq(content, 1, at - 1)
<1>1. content \in Seq(Byte) /\ consumed[e] \in Seq(Byte)
  BY DEF TypeOK, Buffer
<1>2. Len(content) \in Nat
  BY <1>1, LenProperties
<1>3. /\ at \in 1 .. Len(content) - 1 /\ DelimiterAt(content, at)
      /\ \A i \in 1 .. at - 1 : ~DelimiterAt(content, i)
  <2>1. at # 0
    BY DEF DispatchMessage, DispatchInv
  <2> QED
    BY <1>1, <2>1, FirstDelimiterIs
<1>4. at + 1 \in 0 .. Len(content) /\ at - 1 \in 0 .. Len(content) /\ at + 1 + 1 = at + 2
  BY <1>2, <1>3
<1>5. out \in Seq(Byte) /\ left \in Seq(Byte) /\ message \in Seq(Byte)
  <2> HIDE DEF content, at
  <2> QED
    BY <1>1, <1>4, PartsType
<1>6. out \o left = content
  <2> HIDE DEF content, at
  <2> QED
    BY <1>1, <1>4, PartsTogether
<1>7. Take(rx[e], at + 1) \in Buffer /\ Take(rx[e], at + 1).content = left
  BY <1>4, TakeGives DEF TypeOK
<1>8. /\ delivered' = [delivered EXCEPT ![e] = Append(delivered[e], message)]
      /\ rx' = [rx EXCEPT ![e] = Take(rx[e], at + 1)]
      /\ consumed' = [consumed EXCEPT ![e] = consumed[e] \o out]
  BY DEF DispatchMessage
<1> HIDE DEF out, left, message, at, content
<1>9. rx' \in [Ends -> Buffer] /\ rx'[e].content = left /\ \A d \in Ends \ {e} : rx'[d] = rx[d]
  BY <1>7, <1>8 DEF TypeOK
<1>10. consumed[e] \o out \in Seq(Byte) /\ (consumed[e] \o out) \o left = consumed[e] \o (out \o left)
  <2> DEFINE done == consumed[e]
  <2>1. done \in Seq(Byte)
    BY <1>1
  <2> HIDE DEF done
  <2>2. done \o out \in Seq(Byte) /\ (done \o out) \o left = done \o (out \o left)
    BY <1>5, <2>1, ConcatProperties, ConcatAssociative
  <2> QED
    BY <2>2 DEF done
<1>11. /\ consumed' \in [Ends -> Seq(Byte)] /\ consumed'[e] = consumed[e] \o out
       /\ \A d \in Ends \ {e} : consumed'[d] = consumed[d]
  BY <1>8, <1>10 DEF TypeOK
<1>12. Append(delivered[e], message) \in Seq(Seq(Byte))
  BY <1>5, AppendProperties DEF TypeOK
<1>13. /\ delivered' \in [Ends -> Seq(Seq(Byte))] /\ delivered'[e] = Append(delivered[e], message)
       /\ \A d \in Ends \ {e} : delivered'[d] = delivered[d]
  BY <1>8, <1>12 DEF TypeOK
<1>14. Received(e)' = Received(e)
  BY <1>6, <1>9, <1>10, <1>11 DEF Received, content
<1> QED
  BY <1>3, <1>9, <1>11, <1>13, <1>14 DEF content, at, out, message

LEMMA PollType ==
  ASSUME TypeOK, DispatchInv, NEW e \in Ends, Poll(e)
  PROVE  TypeOK'
<1>1. CASE RecvBytes(e)
  BY <1>1, RecvMoves DEF TypeOK, RecvBytes, endVars, history
<1>2. CASE SendBytes(e)
  BY <1>2, SendMoves DEF TypeOK, SendBytes, endVars, history
<1>3. CASE DispatchMessage(e)
  <2>1. pc' \in [Ends -> {"app", "recv", "send", "dispatch", "check", "gone"}]
    BY <1>3 DEF TypeOK, DispatchMessage, Goto, Dispatching
  <2> QED
    BY <1>3, <2>1, DispatchMoves DEF TypeOK, DispatchMessage
<1> QED
  BY <1>1, <1>2, <1>3, QuietPollType DEF Poll

LEMMA OtherType ==
  ASSUME TypeOK, (\E e \in Ends : DestructorCheck(e) \/ Tick(e)) \/ NetworkReset
  PROVE  TypeOK'
<1>1. ASSUME NEW e \in Ends, DestructorCheck(e)
      PROVE  TypeOK'
  <2>1. age' \in [Ends -> 0 .. CloseTimeout]
    BY <1>1, SocketChatAssumption DEF TypeOK, DestructorCheck
  <2>2. CASE Release(e)
    BY <1>1, <2>1, <2>2, ReleaseType DEF TypeOK, DestructorCheck
  <2>3. CASE ~Release(e)
    BY <1>1, <2>1, <2>3 DEF TypeOK, DestructorCheck, PollOrRelease, Goto
  <2> QED
    BY <2>2, <2>3
<1>2. ASSUME NEW e \in Ends, Tick(e)
      PROVE  TypeOK'
  <2>1. age' \in [Ends -> 0 .. CloseTimeout]
    BY <1>2, SocketChatAssumption DEF TypeOK, Tick
  <2> QED
    BY <1>2, <2>1 DEF TypeOK, Tick, history
<1>3. CASE NetworkReset
  BY <1>3, EmptySeq DEF TypeOK, NetworkReset, endVars, history
<1> QED
  BY <1>1, <1>2, <1>3

LEMMA StutterType == TypeOK /\ UNCHANGED vars => TypeOK'
  BY DEF TypeOK, vars, endVars, history

----------------------------------------------------------------------------
(***************************************************************************)
(* Whole messages: a poll that goes to the callbacks has one, and one that *)
(* returns, and did not find the connection ended or broken, has none left.*)
(***************************************************************************)
DrainInv == DispatchInv /\ PollDrains

LEMMA InitDrains == Init => DrainInv
<1>1. FirstDelimiter(<< >>) = 0
  <2>1. << >> \in Seq(Byte) /\ Len(<< >>) = 0
    BY EmptySeq
  <2>2. 1 .. 0 - 1 = {}
    OBVIOUS
  <2> QED
    BY <2>1, <2>2 DEF FirstDelimiter
<1> QED
  BY <1>1 DEF Init, Connected, NotConnected, NotResolved, Alone, Fresh, DrainInv, DispatchInv, PollDrains

\* What an end's own step has to leave it with.
Drained(e) ==
  /\ pc'[e] = "dispatch" => FirstDelimiter(rx'[e].content) # 0
  /\ phase'[e] = "live" /\ pc'[e] = "app" /\ ending'[e].how \in {"none", "self"} =>
       FirstDelimiter(rx'[e].content) = 0

LEMMA DrainsAlone ==
  ASSUME DrainInv, NEW e \in Ends, Drained(e),
         \A d \in Ends \ {e} : /\ pc'[d] = pc[d] /\ rx'[d] = rx[d] /\ phase'[d] = phase[d]
                               /\ ending'[d] = ending[d]
  PROVE  DrainInv'
  BY DEF DrainInv, DispatchInv, PollDrains, Drained

LEMMA StepDrains == TypeOK /\ DrainInv /\ [Next]_vars => DrainInv'
<1> SUFFICES ASSUME TypeOK, DrainInv, [Next]_vars PROVE DrainInv'
  OBVIOUS
<1> USE DEF TypeOK, Goto, Place
<1>1. ASSUME NEW e \in Ends, SendText(e) \/ Close(e) \/ Tick(e)
      PROVE  DrainInv'
  BY <1>1 DEF SendText, Close, Closing, Tick, endVars, history, DrainInv, DispatchInv, PollDrains
<1>2. ASSUME NEW e \in Ends, PollStart(e) \/ RecvNoRoom(e) \/ SendBytes(e)
      PROVE  DrainInv'
  <2>1. \/ pc'[e] \in {"recv", "send"} /\ \A d \in Ends \ {e} : pc'[d] = pc[d]
        \/ pc' = pc
    BY <1>2 DEF PollStart, RecvNoRoom, SendBytes, endVars
  <2>2. UNCHANGED <<phase, rx, ending>>
    BY <1>2 DEF PollStart, RecvNoRoom, SendBytes, endVars, history
  <2> QED
    BY <2>1, <2>2 DEF DrainInv, DispatchInv, PollDrains
<1>3. ASSUME NEW e \in Ends, RecvBytes(e)
      PROVE  DrainInv'
  <2>1. pc'[e] = "recv" /\ \A d \in Ends \ {e} : rx'[d] = rx[d]
    BY <1>3, RecvMoves DEF RecvBytes, endVars
  <2> QED
    BY <1>3, <2>1, DrainsAlone DEF RecvBytes, endVars, history, Drained
<1>4. ASSUME NEW e \in Ends, RecvWouldBlock(e)
      PROVE  DrainInv'
  <2>1. pc'[e] = "send"
    BY <1>4 DEF RecvWouldBlock
  <2> QED
    BY <1>4, <2>1, DrainsAlone DEF RecvWouldBlock, history, Drained
<1>5. ASSUME NEW e \in Ends, RecvEnded(e) \/ SendFailed(e)
      PROVE  DrainInv'
  <2>1. /\ ending'[e].how \in {"eof", "error"} /\ pc'[e] \in {"app", "check"}
        /\ \A d \in Ends \ {e} : /\ pc'[d] = pc[d] /\ rx'[d] = rx[d] /\ phase'[d] = phase[d]
                                 /\ ending'[d] = ending[d]
    BY <1>5 DEF RecvEnded, SendFailed, Disconnect, CloseSocket
  <2> QED
    BY <2>1, DrainsAlone DEF Drained
<1>6. ASSUME NEW e \in Ends, Finish(e)
      PROVE  DrainInv'
  <2>1. /\ pc'[e] = IF phase[e] = "live" THEN Dispatching(rx[e]) ELSE "check"
        /\ rx' = rx /\ phase' = phase
        /\ \A d \in Ends \ {e} : pc'[d] = pc[d] /\ ending'[d] = ending[d]
    BY <1>6 DEF Finish, CloseSocket
  <2> QED
    BY <2>1, DrainsAlone DEF Drained, Dispatching
<1>7. ASSUME NEW e \in Ends, DispatchMessage(e)
      PROVE  DrainInv'
  <2>1. /\ pc'[e] = Dispatching(rx'[e])
        /\ phase' = phase /\ ending' = ending
        /\ \A d \in Ends \ {e} : pc'[d] = pc[d] /\ rx'[d] = rx[d]
    BY <1>7 DEF DispatchMessage
  <2> QED
    BY <2>1, DrainsAlone DEF Drained, Dispatching
<1>8. ASSUME NEW e \in Ends, DestructorCheck(e) \/ Destroy(e)
      PROVE  DrainInv'
  <2>1. /\ pc'[e] \in {"gone", "check", "recv"} /\ rx' = rx
        /\ \A d \in Ends \ {e} : /\ pc'[d] = pc[d] /\ phase'[d] = phase[d]
                                 /\ ending'[d] = ending[d]
    BY <1>8 DEF DestructorCheck, Destroy, Closing, PollOrRelease, Release, CloseSocket
  <2> QED
    BY <2>1, DrainsAlone DEF Drained
<1>9. CASE NetworkReset \/ UNCHANGED vars
  BY <1>9 DEF NetworkReset, vars, endVars, history, DrainInv, DispatchInv, PollDrains
<1> QED
  BY <1>1, <1>2, <1>3, <1>4, <1>5, <1>6, <1>7, <1>8, <1>9 DEF Next, Poll, App

(***************************************************************************)
(* Types hold, and with them: whole messages are given out by poll before  *)
(* it returns.                                                             *)
(***************************************************************************)
LEMMA StepType == TypeOK /\ DrainInv /\ [Next]_vars => TypeOK'
<1> SUFFICES ASSUME TypeOK, DrainInv, [Next]_vars PROVE TypeOK'
  OBVIOUS
<1>1. DispatchInv
  BY DEF DrainInv
<1> QED
  BY <1>1, AppType, PollType, OtherType, StutterType DEF Next, App

LEMMA DrainAlways == Spec => [](TypeOK /\ DrainInv)
<1>1. Init => TypeOK /\ DrainInv
  BY InitType, InitDrains
<1>2. (TypeOK /\ DrainInv) /\ [Next]_vars => (TypeOK /\ DrainInv)'
  BY StepType, StepDrains
<1> QED
  BY <1>1, <1>2, PTL DEF Spec

\* Every variable of the two ends keeps its type, whatever they and the network do.
THEOREM Typed == Spec => []TypeOK
<1>1. TypeOK /\ DrainInv => TypeOK
  OBVIOUS
<1> QED
  BY <1>1, DrainAlways, PTL

(***************************************************************************)
(* poll goes to the callback only with a whole message in the buffer, and  *)
(* when it returns it has given out every one, unless it found the         *)
(* connection ended or broken (it then returns before it looks for any).   *)
(***************************************************************************)
THEOREM Drains == Spec => [](DispatchInv /\ PollDrains)
<1>1. TypeOK /\ DrainInv => DispatchInv /\ PollDrains
  BY DEF DrainInv
<1> QED
  BY <1>1, DrainAlways, PTL

----------------------------------------------------------------------------
(***************************************************************************)
(* The sockets.  Two ends are open together, or one of them is closed; a   *)
(* poll that is under way has a socket that is not closed.                 *)
(***************************************************************************)
SockInv ==
  \A e \in Ends :
    /\ sock[e] = "open" => sock[Peer(e)] \in {"open", "closed"}
    /\ sock[e] = "none" => phase[e] # "live" /\ pc[e] # "recv"
    /\ sock[e] = "closed" => readyState[e] = "CLOSED" \/ phase[e] = "gone"
    /\ pc[e] \in {"recv", "send"} =>
         readyState[e] # "CLOSED" /\ phase[e] # "gone" /\ sock[e] # "none"
    /\ phase[e] = "gone" => pc[e] = "gone"

LEMMA InitSock == Init => SockInv
  BY PeerType DEF Init, Connected, NotConnected, NotResolved, Alone, SockInv, Ends, Peer

\* What an end's step may do to its own socket and to the peer's.
Socks(e) ==
  /\ sock'[e] = "none" => phase'[e] # "live" /\ pc'[e] # "recv"
  /\ sock'[e] = "closed" => readyState'[e] = "CLOSED" \/ phase'[e] = "gone"
  /\ pc'[e] \in {"recv", "send"} =>
       readyState'[e] # "CLOSED" /\ phase'[e] # "gone" /\ sock'[e] # "none"
  /\ phase'[e] = "gone" => pc'[e] = "gone"
  /\ \/ sock' = sock
     \/ sock'[e] = "closed" /\ sock'[Peer(e)] = sock[Peer(e)]
     \/ sock'[e] = "closed" /\ sock'[Peer(e)] = "reset" /\ sock[Peer(e)] = "open"
     \/ sock'[e] = "reset" /\ sock'[Peer(e)] = sock[Peer(e)] /\ sock[Peer(e)] # "open"

LEMMA SocksAlone ==
  ASSUME TypeOK, SockInv, NEW e \in Ends, Socks(e),
         \A d \in Ends \ {e} : /\ pc'[d] = pc[d] /\ phase'[d] = phase[d]
                               /\ readyState'[d] = readyState[d]
  PROVE  SockInv'
<1>1. /\ Peer(e) \in Ends /\ Peer(e) # e /\ Peer(Peer(e)) = e
      /\ \A d \in Ends : d = e \/ d = Peer(e)
  BY PeerType, TwoEnds
<1> DEFINE p == Peer(e)
<1>2. /\ pc'[p] = pc[p] /\ phase'[p] = phase[p] /\ readyState'[p] = readyState[p]
  BY <1>1
<1>3. /\ sock'[e] = "open" => sock'[p] \in {"open", "closed"}
      /\ sock'[p] = "open" => sock'[e] \in {"open", "closed"}
  BY <1>1 DEF SockInv, Socks
<1>4. /\ sock'[p] = "none" => phase'[p] # "live" /\ pc'[p] # "recv"
      /\ sock'[p] = "closed" => readyState'[p] = "CLOSED" \/ phase'[p] = "gone"
      /\ pc'[p] \in {"recv", "send"} =>
           readyState'[p] # "CLOSED" /\ phase'[p] # "gone" /\ sock'[p] # "none"
      /\ phase'[p] = "gone" => pc'[p] = "gone"
  BY <1>1, <1>2 DEF SockInv, Socks
<1> HIDE DEF p
<1> QED
  BY <1>1, <1>3, <1>4 DEF SockInv, Socks, p

LEMMA StepSock == TypeOK /\ SockInv /\ [Next]_vars => SockInv'
<1> SUFFICES ASSUME TypeOK, SockInv, [Next]_vars PROVE SockInv'
  OBVIOUS
<1> USE DEF TypeOK, Goto, Place
<1>1. ASSUME NEW e \in Ends, SendText(e) \/ Close(e) \/ Tick(e)
      PROVE  SockInv'
  <2>1. /\ sock' = sock /\ phase' = phase /\ pc' = pc
        /\ readyState' = readyState \/ Close(e)
    BY <1>1 DEF SendText, Close, Tick, endVars
  <2>2. CASE readyState' = readyState
    BY <2>1, <2>2, PeerType DEF SockInv
  <2>3. CASE Close(e)
    <3>1. /\ pc[e] \in {"app", "dispatch"} /\ readyState[e] = "OPEN"
          /\ \A d \in Ends \ {e} : readyState'[d] = readyState[d]
      BY <2>3 DEF Close, Closing, InApp
    <3> QED
      BY <2>1, <3>1, PeerType DEF SockInv
  <2> QED
    BY <2>1, <2>2, <2>3
<1>2. ASSUME NEW e \in Ends, PollStart(e)
      PROVE  SockInv'
  BY <1>2, PeerType DEF PollStart, SockInv
<1>3. ASSUME NEW e \in Ends, RecvNoRoom(e) \/ RecvBytes(e) \/ RecvWouldBlock(e)
      PROVE  SockInv'
  <2>1. /\ pc[e] = "recv" /\ pc'[e] \in {"recv", "send"}
        /\ sock' = sock /\ phase' = phase /\ readyState' = readyState
        /\ \A d \in Ends \ {e} : pc'[d] = pc[d]
    BY <1>3 DEF RecvNoRoom, RecvBytes, RecvWouldBlock, endVars
  <2>2. Socks(e)
    BY <2>1 DEF Socks, SockInv
  <2> QED
    BY <2>1, <2>2, SocksAlone
<1>4. ASSUME NEW e \in Ends, NEW how \in How, Disconnect(e, how), phase' = phase,
             pc[e] \in {"recv", "send"}
      PROVE  SockInv'
  <2>1. CloseSocket(e, how)
    BY <1>4 DEF Disconnect
  <2>2. Socks(e)
    <3>1. /\ sock'[e] = "closed"
          /\ \/ sock'[Peer(e)] = sock[Peer(e)]
             \/ sock[Peer(e)] = "open" /\ sock'[Peer(e)] = "reset"
      BY <1>4, <2>1, CloseGives
    <3>2. readyState'[e] = "CLOSED" /\ phase[e] # "gone" /\ pc'[e] \in {"app", "check"}
      BY <1>4 DEF Disconnect, SockInv
    <3> QED
      BY <1>4, <3>1, <3>2 DEF Socks
  <2> QED
    BY <1>4, <2>2, SocksAlone DEF Disconnect
<1>5. ASSUME NEW e \in Ends, SendBytes(e)
      PROVE  SockInv'
  <2>1. Socks(e)
    <3>1. /\ sock[e] = "open"
          /\ sock' = sock \/ /\ sock'[e] = "reset" /\ sock[Peer(e)] = "closed"
                             /\ sock'[Peer(e)] = sock[Peer(e)]
      BY <1>5, SendMoves, PeerType
    <3>2. pc[e] = "send" /\ pc' = pc /\ phase' = phase /\ readyState' = readyState
      BY <1>5 DEF SendBytes, endVars
    <3> QED
      BY <3>1, <3>2 DEF Socks, SockInv
  <2> QED
    BY <1>5, <2>1, SocksAlone DEF SendBytes, endVars
<1>6. ASSUME NEW e \in Ends, Finish(e)
      PROVE  SockInv'
  <2>1. CASE ClosesNow(e)
    <3>1. CloseSocket(e, "self")
      BY <1>6, <2>1 DEF Finish
    <3>2. Socks(e)
      <4>1. /\ sock'[e] = "closed"
            /\ \/ sock'[Peer(e)] = sock[Peer(e)]
               \/ sock[Peer(e)] = "open" /\ sock'[Peer(e)] = "reset"
        BY <3>1, CloseGives DEF How
      <4>2. /\ readyState'[e] = "CLOSED" /\ phase[e] # "gone" /\ phase' = phase
            /\ pc'[e] \in {"app", "check", "dispatch"}
        BY <1>6, <2>1 DEF Finish, Dispatching, SockInv
      <4> QED
        BY <4>1, <4>2 DEF Socks
    <3> QED
      BY <1>6, <2>1, <3>2, SocksAlone DEF Finish
  <2>2. CASE ~ClosesNow(e)
    BY <1>6, <2>2, PeerType DEF Finish, Dispatching, SockInv
  <2> QED
    BY <2>1, <2>2
<1>7. ASSUME NEW e \in Ends, DispatchMessage(e)
      PROVE  SockInv'
  BY <1>7, PeerType DEF DispatchMessage, Dispatching, SockInv
<1>8. ASSUME NEW e \in Ends, Release(e),
             \A d \in Ends \ {e} : readyState'[d] = readyState[d],
             readyState[e] = "CLOSED" => readyState'[e] = "CLOSED"
      PROVE  SockInv'
  <2>1. CASE CloseSocket(e, "timeout")
    <3>1. Socks(e)
      <4>1. /\ sock'[e] = "closed"
            /\ \/ sock'[Peer(e)] = sock[Peer(e)]
               \/ sock[Peer(e)] = "open" /\ sock'[Peer(e)] = "reset"
        BY <2>1, CloseGives DEF How
      <4>2. phase'[e] = "gone" /\ pc'[e] = "gone"
        BY <1>8 DEF Release
      <4> QED
        BY <4>1, <4>2 DEF Socks
    <3> QED
      BY <1>8, <3>1, SocksAlone DEF Release
  <2>2. CASE UNCHANGED <<sock, wire, ending>>
    <3>1. Socks(e)
      BY <1>8, <2>2 DEF Release, Socks, SockInv
    <3> QED
      BY <1>8, <3>1, SocksAlone DEF Release
  <2> QED
    BY <1>8, <2>1, <2>2 DEF Release
<1>9. ASSUME NEW e \in Ends, DestructorCheck(e) \/ Destroy(e)
      PROVE  SockInv'
  <2>1. /\ \A d \in Ends \ {e} : readyState'[d] = readyState[d]
        /\ readyState[e] = "CLOSED" => readyState'[e] = "CLOSED"
    <3>1. readyState' = readyState \/ Closing(e)
      BY <1>9 DEF DestructorCheck, Destroy
    <3> QED
      BY <3>1 DEF Closing
  <2>2. CASE Release(e)
    BY <1>8, <2>1, <2>2
  <2>3. CASE ~Release(e)
    <3>1. /\ PollOrRelease(e) /\ readyState'[e] # "CLOSED" /\ sock' = sock
      BY <1>9, <2>3 DEF DestructorCheck, Destroy, PollOrRelease
    <3>2. phase[e] # "gone"
      BY <1>9 DEF DestructorCheck, Destroy, SockInv
    <3>3. Socks(e)
      BY <2>1, <2>3, <3>1, <3>2 DEF PollOrRelease, Socks, SockInv
    <3> QED
      BY <2>1, <2>3, <3>1, <3>3, SocksAlone DEF PollOrRelease
  <2> QED
    BY <2>2, <2>3
<1>10. CASE NetworkReset
  BY <1>10, PeerType DEF NetworkReset, endVars, SockInv
<1>11. CASE UNCHANGED vars
  BY <1>11, PeerType DEF vars, endVars, SockInv
<1>12. ASSUME NEW e \in Ends, RecvEnded(e) \/ SendFailed(e)
       PROVE  SockInv'
  BY <1>4, <1>12 DEF RecvEnded, SendFailed, How
<1> QED
  BY <1>1, <1>2, <1>3, <1>5, <1>6, <1>7, <1>9, <1>10, <1>11, <1>12 DEF Next, Poll, App

----------------------------------------------------------------------------
(***************************************************************************)
(* The stream to an end.  What the end has received and what the kernel    *)
(* holds for it is, always, the first of what its peer accepted; while the *)
(* connection stands, and on shared memory always, the rest is in the      *)
(* peer's transmit buffer.                                                 *)
(* StreamIntact alone is not inductive: bytes in the kernel of a           *)
(* connection that broke may still be received.                            *)
(***************************************************************************)
Arrived(e) == Received(e) \o wire[e]

Standing(e) == Shared \/ (sock[e] = "open" /\ sock[Peer(e)] = "open")

StreamOf(e) ==
  /\ Prefix(Arrived(e), accepted[Peer(e)])
  /\ Standing(e) => Arrived(e) \o tx[Peer(e)].content = accepted[Peer(e)]

StreamInv == \A e \in Ends : StreamOf(e)

LEMMA PrefixIs ==
  ASSUME NEW s \in Seq(Byte), NEW t \in Seq(Byte)
  PROVE  Prefix(s, t) <=> \E u \in Seq(Byte) : t = s \o u
  BY FirstPartOf DEF Prefix

LEMMA PrefixOfLonger ==
  ASSUME NEW s \in Seq(Byte), NEW t \in Seq(Byte), NEW u \in Seq(Byte), Prefix(s, t)
  PROVE  Prefix(s, t \o u)
<1>1. PICK v \in Seq(Byte) : t = s \o v
  BY PrefixIs
<1>2. (s \o v) \o u = s \o (v \o u)
  BY ConcatAssociative
<1>3. v \o u \in Seq(Byte) /\ t \o u \in Seq(Byte)
  BY ConcatProperties
<1>4. t \o u = s \o (v \o u)
  BY <1>1, <1>2
<1> QED
  BY <1>3, <1>4, PrefixIs

LEMMA PrefixOfFirst ==
  ASSUME NEW s \in Seq(Byte), NEW u \in Seq(Byte), NEW t \in Seq(Byte), Prefix(s \o u, t)
  PROVE  Prefix(s, t)
<1>1. s \o u \in Seq(Byte)
  BY ConcatProperties
<1>2. PICK v \in Seq(Byte) : t = (s \o u) \o v
  BY <1>1, PrefixIs
<1>3. (s \o u) \o v = s \o (u \o v) /\ u \o v \in Seq(Byte)
  BY ConcatAssociative, ConcatProperties
<1> QED
  BY <1>2, <1>3, PrefixIs

LEMMA StreamTypes ==
  ASSUME TypeOK, NEW e \in Ends
  PROVE  /\ consumed[e] \in Seq(Byte) /\ rx[e].content \in Seq(Byte) /\ wire[e] \in Seq(Byte)
         /\ tx[e].content \in Seq(Byte) /\ accepted[e] \in Seq(Byte)
         /\ Received(e) \in Seq(Byte) /\ Arrived(e) \in Seq(Byte)
<1>1. /\ consumed[e] \in Seq(Byte) /\ rx[e].content \in Seq(Byte) /\ wire[e] \in Seq(Byte)
      /\ tx[e].content \in Seq(Byte) /\ accepted[e] \in Seq(Byte)
  BY DEF TypeOK, Buffer
<1>2. Received(e) \in Seq(Byte)
  BY <1>1, ConcatProperties DEF Received
<1>3. Arrived(e) \in Seq(Byte)
  BY <1>1, <1>2, ConcatProperties DEF Arrived
<1> QED
  BY <1>1, <1>2, <1>3

\* What has arrived stays, or what the kernel held is lost with the connection.
LEMMA StreamKept ==
  ASSUME TypeOK, NEW e \in Ends, StreamOf(e),
         accepted'[Peer(e)] = accepted[Peer(e)],
         \/ Arrived(e)' = Arrived(e)
         \/ Received(e)' = Received(e) /\ wire'[e] = << >> /\ ~Standing(e)',
         Standing(e)' => Standing(e) /\ tx'[Peer(e)].content = tx[Peer(e)].content
  PROVE  StreamOf(e)'
<1>1. Peer(e) \in Ends
  BY PeerType
<1>2. CASE Arrived(e)' = Arrived(e)
  BY <1>2 DEF StreamOf
<1>3. CASE Received(e)' = Received(e) /\ wire'[e] = << >> /\ ~Standing(e)'
  <2>1. Received(e) \in Seq(Byte) /\ wire[e] \in Seq(Byte) /\ accepted[Peer(e)] \in Seq(Byte)
    BY <1>1, StreamTypes
  <2>2. Prefix(Received(e), accepted[Peer(e)])
    BY <2>1, PrefixOfFirst DEF StreamOf, Arrived
  <2>3. Arrived(e)' = Received(e)
    <3>1. Arrived(e)' = Received(e) \o << >>
      BY <1>3 DEF Arrived
    <3> QED
      BY <2>1, <3>1, ConcatEmptySeq
  <2> QED
    BY <1>3, <2>2, <2>3 DEF StreamOf
<1> QED
  BY <1>2, <1>3

\* While the peer can send, to have all of it in order is enough.
LEMMA StreamWhole ==
  ASSUME NEW a \in Seq(Byte), NEW b \in Seq(Byte)
  PROVE  Prefix(a, a \o b)
  BY PrefixIs, ConcatProperties

LEMMA InitStream == Init => StreamInv
<1> SUFFICES ASSUME Init, NEW e \in Ends PROVE StreamOf(e)
  BY DEF StreamInv
<1>1. Peer(e) \in Ends /\ << >> \in Seq(Byte)
  BY PeerType, EmptySeq
<1>2. << >> \o << >> = << >>
  BY <1>1, ConcatEmptySeq
<1>3. Arrived(e) = << >> /\ accepted[Peer(e)] = << >> /\ tx[Peer(e)].content = << >>
  BY <1>1, <1>2 DEF Init, Fresh, Arrived, Received
<1>4. Prefix(<< >>, << >>)
  BY <1>1, <1>2, StreamWhole
<1> QED
  BY <1>2, <1>3, <1>4 DEF StreamOf

\* Steps that put nothing into a transmit buffer, take nothing out of one and receive nothing.
Quiet ==
  /\ \A d \in Ends : Received(d)' = Received(d)
  /\ UNCHANGED <<transport, tx, accepted>>

\* A connection does not come back: what is open was.
NoneOpened == \A d \in Ends : sock'[d] = "open" => sock[d] = "open"

LEMMA StreamQuiet ==
  ASSUME TypeOK, StreamInv, Quiet, NoneOpened,
         \A d \in Ends : wire'[d] = wire[d] \/ (wire'[d] = << >> /\ ~Standing(d)')
  PROVE  StreamInv'
<1> SUFFICES ASSUME NEW e \in Ends PROVE StreamOf(e)'
  BY DEF StreamInv
<1>1. Peer(e) \in Ends /\ StreamOf(e)
  BY PeerType DEF StreamInv
<1>2. Received(e)' = Received(e)
  BY DEF Quiet
<1>3. Standing(e)' => Standing(e) /\ tx'[Peer(e)].content = tx[Peer(e)].content
  BY <1>1 DEF Standing, Shared, Quiet, NoneOpened
<1>4. wire'[e] = wire[e] => Arrived(e)' = Arrived(e)
  BY <1>2 DEF Arrived
<1> QED
  BY <1>1, <1>2, <1>3, <1>4, StreamKept DEF Quiet

LEMMA StreamClose ==
  ASSUME TypeOK, StreamInv, Quiet, NEW e \in Ends, NEW how \in How, CloseSocket(e, how)
  PROVE  StreamInv'
<1> DEFINE p == Peer(e)
<1>1. /\ p \in Ends /\ p # e /\ Peer(p) = e /\ \A d \in Ends : d = e \/ d = p
  BY PeerType, TwoEnds
<1>2. /\ sock'[e] = "closed" /\ sock'[p] = "open" => sock[p] = "open" /\ wire'[p] = wire[p]
      /\ \A d \in Ends : wire'[d] \in {wire[d], << >>}
      /\ Shared => wire' = wire
  BY CloseGives
<1>3. NoneOpened
  BY <1>1, CloseGives DEF NoneOpened
<1>4. Shared' = Shared
  BY DEF Quiet, Shared
<1>5. ~Shared => ~Standing(e)' /\ ~Standing(p)'
  BY <1>1, <1>4, CloseGives DEF Standing
<1>6. \A d \in Ends : wire'[d] = wire[d] \/ (wire'[d] = << >> /\ ~Standing(d)')
  <2> SUFFICES ASSUME NEW d \in Ends
               PROVE  wire'[d] = wire[d] \/ (wire'[d] = << >> /\ ~Standing(d)')
    OBVIOUS
  <2>1. CASE Shared
    BY <1>2, <2>1
  <2>2. CASE ~Shared
    <3>1. CASE d = e
      BY <1>2, <1>5, <2>2, <3>1
    <3>2. CASE d = p
      BY <1>1, <1>2, <1>5, <2>2, <3>2
    <3> QED
      BY <1>1, <3>1, <3>2
  <2> QED
    BY <2>1, <2>2
<1> QED
  BY <1>3, <1>6, StreamQuiet

LEMMA StreamSendText ==
  ASSUME TypeOK, StreamInv, NEW e \in Ends, SendText(e)
  PROVE  StreamInv'
<1> SUFFICES ASSUME NEW d \in Ends PROVE StreamOf(d)'
  BY DEF StreamInv
<1>1. Peer(d) \in Ends /\ StreamOf(d)
  BY PeerType DEF StreamInv
<1>2. UNCHANGED <<transport, sock, wire, rx, consumed>>
  BY DEF SendText
<1>3. Arrived(d)' = Arrived(d) /\ (Standing(d)' <=> Standing(d))
  BY <1>2 DEF Arrived, Received, Standing, Shared
<1>4. CASE Peer(d) # e
  <2>1. accepted'[Peer(d)] = accepted[Peer(d)] /\ tx'[Peer(d)] = tx[Peer(d)]
    BY <1>1, <1>4, SendTextMoves
  <2> QED
    BY <1>1, <1>3, <2>1, StreamKept
<1>5. CASE Peer(d) = e
  <2>1. PICK more \in Seq(Byte) : /\ tx'[e].content = tx[e].content \o more
                                  /\ accepted'[e] = accepted[e] \o more
    BY SendTextMoves
  <2> DEFINE arrived == Arrived(d)
             held == tx[e].content
             known == accepted[e]
  <2>2. arrived \in Seq(Byte) /\ held \in Seq(Byte) /\ known \in Seq(Byte)
    BY StreamTypes
  <2>3. Prefix(arrived, known) /\ (Standing(d) => arrived \o held = known)
    BY <1>1, <1>5 DEF StreamOf
  <2> HIDE DEF arrived, held, known
  <2>4. Prefix(arrived, known \o more) /\ Regrouped(arrived, held, more)
    BY <2>2, <2>3, PrefixOfLonger, Regroup
  <2>5. Standing(d) => arrived \o (held \o more) = known \o more
    BY <2>3, <2>4 DEF Regrouped
  <2> QED
    BY <1>3, <1>5, <2>1, <2>4, <2>5 DEF StreamOf, arrived, held, known
<1> QED
  BY <1>4, <1>5

\* Receiving moves bytes from the kernel to the buffer.
LEMMA ArrivedKept ==
  ASSUME TypeOK, NEW e \in Ends, RecvBytes(e), NEW d \in Ends
  PROVE  Arrived(d)' = Arrived(d)
<1>1. consumed' = consumed
  BY DEF RecvBytes, history
<1>2. CASE d # e
  BY <1>1, <1>2, RecvMoves DEF Arrived, Received
<1>3. CASE d = e
  <2> DEFINE done == consumed[e]
             rx0 == rx[e].content
             wire0 == wire[e]
             rx1 == rx'[e].content
             wire1 == wire'[e]
  <2>1. done \in Seq(Byte) /\ rx0 \in Seq(Byte) /\ wire0 \in Seq(Byte)
    BY StreamTypes
  <2>2. rx1 \in Seq(Byte) /\ wire1 \in Seq(Byte)
    BY RecvMoves DEF Buffer
  <2>3. rx1 \o wire1 = rx0 \o wire0
    BY RecvMoves
  <2>4. Arrived(e) = (done \o rx0) \o wire0 /\ Arrived(e)' = (done \o rx1) \o wire1
    BY <1>1 DEF Arrived, Received
  <2> HIDE DEF done, rx0, wire0, rx1, wire1
  <2>5. Regrouped(done, rx0, wire0) /\ Regrouped(done, rx1, wire1)
    BY <2>1, <2>2, Regroup
  <2> QED
    BY <1>3, <2>3, <2>4, <2>5 DEF Regrouped
<1> QED
  BY <1>2, <1>3

LEMMA StreamRecv ==
  ASSUME TypeOK, StreamInv, NEW e \in Ends, RecvBytes(e)
  PROVE  StreamInv'
<1> SUFFICES ASSUME NEW d \in Ends PROVE StreamOf(d)'
  BY DEF StreamInv
<1>1. StreamOf(d)
  BY DEF StreamInv
<1>2. UNCHANGED <<transport, sock, tx, accepted>>
  BY DEF RecvBytes, history
<1>3. Standing(d)' <=> Standing(d)
  BY <1>2 DEF Standing, Shared
<1> QED
  BY <1>1, <1>2, <1>3, ArrivedKept, StreamKept

LEMMA StreamSend ==
  ASSUME TypeOK, SockInv, StreamInv, NEW e \in Ends, SendBytes(e)
  PROVE  StreamInv'
<1> DEFINE p == Peer(e)
<1>1. /\ p \in Ends /\ p # e /\ Peer(p) = e /\ \A d \in Ends : d = e \/ d = p
      /\ StreamOf(e) /\ StreamOf(p)
  BY PeerType, TwoEnds DEF StreamInv
<1>2. UNCHANGED <<transport, rx, accepted, consumed>>
  BY DEF SendBytes, history
<1>3. StreamOf(e)'
  <2>1. tx'[p] = tx[p] /\ wire'[e] = wire[e] /\ sock'[p] = sock[p] /\ (sock'[e] = "open" => sock[e] = "open")
    BY <1>1, SendMoves
  <2>2. Arrived(e)' = Arrived(e) /\ (Standing(e)' => Standing(e))
    BY <1>2, <2>1 DEF Arrived, Received, Standing, Shared
  <2> QED
    BY <1>1, <1>2, <2>1, <2>2, StreamKept
<1>4. StreamOf(p)'
  <2>1. CASE ~Shared /\ sock[p] = "closed" /\ sock'[e] = "reset" /\ wire' = wire
    <3>1. Arrived(p)' = Arrived(p) /\ ~Standing(p)'
      BY <1>1, <1>2, <2>1 DEF Arrived, Received, Standing, Shared
    <3> QED
      BY <1>1, <1>2, <3>1, StreamKept
  <2>2. CASE /\ Shared \/ sock[p] # "closed"
             /\ sock' = sock
             /\ wire'[p] \o tx'[e].content = wire[p] \o tx[e].content
    <3>1. Standing(p)
      <4>1. sock[e] = "open"
        BY SendMoves
      <4>2. sock[p] \in {"open", "closed"}
        BY <4>1 DEF SockInv
      <4> QED
        BY <1>1, <2>2, <4>1, <4>2 DEF Standing
    <3> DEFINE got == Received(p)
               wire0 == wire[p]
               tx0 == tx[e].content
               wire1 == wire'[p]
               tx1 == tx'[e].content
               known == accepted[e]
    <3>2. got \in Seq(Byte) /\ wire0 \in Seq(Byte) /\ tx0 \in Seq(Byte)
      BY <1>1, StreamTypes
    <3>3. wire1 \in Seq(Byte) /\ tx1 \in Seq(Byte)
      BY <1>1, SendMoves DEF Buffer
    <3>4. (got \o wire0) \o tx0 = known
      BY <1>1, <3>1 DEF StreamOf, Arrived
    <3>5. wire1 \o tx1 = wire0 \o tx0
      BY <2>2
    <3>6. Arrived(p)' = got \o wire1 /\ accepted'[e] = known
      BY <1>2 DEF Arrived, Received
    <3> HIDE DEF got, wire0, tx0, wire1, tx1, known
    <3>7. Regrouped(got, wire0, tx0) /\ Regrouped(got, wire1, tx1) /\ got \o wire1 \in Seq(Byte)
      BY <3>2, <3>3, Regroup, ConcatProperties
    <3>8. (got \o wire1) \o tx1 = known
      BY <3>4, <3>5, <3>7 DEF Regrouped
    <3>9. Prefix(got \o wire1, known)
      BY <3>3, <3>7, <3>8, StreamWhole
    <3> QED
      BY <1>1, <3>6, <3>8, <3>9 DEF StreamOf, tx1
  <2> QED
    BY <2>1, <2>2, SendMoves
<1> QED
  BY <1>1, <1>3, <1>4 DEF StreamInv

(***************************************************************************)
(* All other steps of an end are quiet, and may close its socket: with     *)
(* nothing left to send if it closes by itself, at the end of file if the  *)
(* peer has closed and nothing is left to receive.                         *)
(***************************************************************************)
Closes(e, how) ==
  /\ CloseSocket(e, how)
  /\ sock[e] # "closed"
  /\ how = "self" => tx[e].content = << >>
  /\ how = "eof" => ~Shared /\ sock[e] = "open" /\ sock[Peer(e)] = "closed" /\ wire[e] = << >>

LEMMA ReserveQuiet ==
  ASSUME TypeOK, NEW e \in Ends,
         \E room \in Reserve(rx[e], MaxReadSize) : rx' = [rx EXCEPT ![e] = room.buf],
         UNCHANGED <<transport, tx, accepted, consumed>>
  PROVE  Quiet
<1>1. MaxReadSize \in Nat /\ rx[e] \in Buffer
  BY SocketChatAssumption DEF TypeOK
<1>2. PICK room \in Reserve(rx[e], MaxReadSize) : rx' = [rx EXCEPT ![e] = room.buf]
  OBVIOUS
<1>3. room.buf.content = rx[e].content
  BY <1>1, ReserveGives
<1>4. \A d \in Ends : rx'[d].content = rx[d].content
  BY <1>2, <1>3 DEF TypeOK
<1>5. \A d \in Ends : Received(d)' = Received(d)
  BY <1>4 DEF Received
<1> QED
  BY <1>5 DEF Quiet

LEMMA ReleaseCloses ==
  ASSUME TypeOK, SockInv, NEW e \in Ends, Release(e)
  PROVE  UNCHANGED <<sock, wire, ending>> \/ \E how \in How : Closes(e, how)
<1>1. CASE sock[e] \in {"open", "reset"}
  <2>1. Closes(e, "timeout")
    BY <1>1 DEF Release, Closes
  <2> QED
    BY <2>1 DEF How
<1>2. CASE sock[e] \notin {"open", "reset"}
  BY <1>2 DEF Release
<1> QED
  BY <1>1, <1>2

LEMMA QuietSteps ==
  ASSUME TypeOK, DispatchInv, SockInv, NEW e \in Ends,
         \/ Close(e) \/ Destroy(e) \/ Tick(e) \/ DestructorCheck(e)
         \/ PollStart(e) \/ RecvNoRoom(e) \/ RecvWouldBlock(e) \/ RecvEnded(e)
         \/ SendFailed(e) \/ Finish(e) \/ DispatchMessage(e)
  PROVE  Quiet /\ (UNCHANGED <<sock, wire, ending>> \/ \E how \in How : Closes(e, how))
<1>1. CASE Close(e) \/ Tick(e) \/ PollStart(e) \/ RecvNoRoom(e)
  BY <1>1 DEF Close, Tick, PollStart, RecvNoRoom, history, Quiet, Received
<1>2. CASE Destroy(e) \/ DestructorCheck(e)
  <2>1. Quiet
    BY <1>2 DEF Destroy, DestructorCheck, Quiet, Received
  <2>2. Release(e) \/ UNCHANGED <<sock, wire, ending>>
    BY <1>2 DEF Destroy, DestructorCheck, PollOrRelease
  <2> QED
    BY <2>1, <2>2, ReleaseCloses
<1>3. CASE RecvWouldBlock(e)
  <2>1. Quiet
    BY <1>3, ReserveQuiet DEF RecvWouldBlock, history
  <2> QED
    BY <1>3, <2>1 DEF RecvWouldBlock, history
<1>4. CASE RecvEnded(e)
  <2>1. Quiet
    BY <1>4, ReserveQuiet DEF RecvEnded
  <2> DEFINE how == IF sock[e] = "reset" THEN "error" ELSE "eof"
  <2>2. CloseSocket(e, how)
    BY <1>4 DEF RecvEnded, Disconnect
  <2>3. sock[e] \in {"open", "reset"}
    BY <1>4 DEF RecvEnded, SockInv, TypeOK
  <2>4. Closes(e, how)
    BY <1>4, <2>2, <2>3 DEF RecvEnded, Ended, Closes
  <2> QED
    BY <2>1, <2>4 DEF How
<1>5. CASE SendFailed(e)
  <2>1. Quiet
    BY <1>5 DEF SendFailed, Quiet, Received
  <2>2. Closes(e, "error")
    BY <1>5 DEF SendFailed, Disconnect, Closes
  <2> QED
    BY <2>1, <2>2 DEF How
<1>6. CASE Finish(e)
  <2>1. Quiet
    BY <1>6 DEF Finish, Quiet, Received
  <2>2. CASE ClosesNow(e)
    <3>1. sock[e] # "closed"
      BY <1>6 DEF Finish, SockInv
    <3>2. Closes(e, "self")
      BY <1>6, <2>2, <3>1 DEF Finish, ClosesNow, Closes
    <3> QED
      BY <2>1, <3>2 DEF How
  <2>3. CASE ~ClosesNow(e)
    BY <1>6, <2>1, <2>3 DEF Finish
  <2> QED
    BY <2>2, <2>3
<1>7. CASE DispatchMessage(e)
  <2>1. \A d \in Ends : Received(d)' = Received(d)
    <3> SUFFICES ASSUME NEW d \in Ends PROVE Received(d)' = Received(d)
      OBVIOUS
    <3>1. CASE d = e
      BY <1>7, <3>1, DispatchMoves
    <3>2. CASE d # e
      BY <1>7, <3>2, DispatchMoves DEF Received
    <3> QED
      BY <3>1, <3>2
  <2> QED
    BY <1>7, <2>1 DEF DispatchMessage, Quiet
<1> QED
  BY <1>1, <1>2, <1>3, <1>4, <1>5, <1>6, <1>7

LEMMA StepStream == TypeOK /\ DispatchInv /\ SockInv /\ StreamInv /\ [Next]_vars => StreamInv'
<1> SUFFICES ASSUME TypeOK, DispatchInv, SockInv, StreamInv, [Next]_vars PROVE StreamInv'
  OBVIOUS
<1>1. ASSUME Quiet, UNCHANGED <<sock, wire>>
      PROVE  StreamInv'
  BY <1>1, StreamQuiet DEF NoneOpened
<1>2. ASSUME NEW e \in Ends, Quiet,
             UNCHANGED <<sock, wire, ending>> \/ \E how \in How : Closes(e, how)
      PROVE  StreamInv'
  BY <1>1, <1>2, StreamClose DEF Closes
<1>3. CASE NetworkReset
  <2>1. Quiet /\ NoneOpened
    BY <1>3 DEF NetworkReset, history, Quiet, Received, NoneOpened
  <2>2. \A d \in Ends : wire'[d] = wire[d] \/ (wire'[d] = << >> /\ ~Standing(d)')
    <3> SUFFICES ASSUME NEW d \in Ends
                 PROVE  wire'[d] = wire[d] \/ (wire'[d] = << >> /\ ~Standing(d)')
      OBVIOUS
    <3>1. sock'[Peer(d)] = "reset" /\ wire'[d] \in {wire[d], << >>} /\ ~Shared'
      BY <1>3, PeerType DEF NetworkReset, Shared
    <3> QED
      BY <3>1 DEF Standing
  <2> QED
    BY <2>1, <2>2, StreamQuiet
<1>4. CASE UNCHANGED vars
  BY <1>1, <1>4 DEF vars, history, Quiet, Received
<1> QED
  BY <1>2, <1>3, <1>4, QuietSteps, StreamSendText, StreamRecv, StreamSend DEF Next, Poll, App

----------------------------------------------------------------------------
(***************************************************************************)
(* How an end's socket was closed.  An end that closed by itself left the  *)
(* peer, whose socket is still open, all it had accepted; one that saw the *)
(* end of file had a peer that closed before.  So no end closes twice, and *)
(* nothing arrives at one that saw the end.                                *)
(***************************************************************************)
EndOf(e) ==
  /\ sock[e] # "closed" => ending[e].how = "none"
  /\ ending[e].how = "eof" => ~Shared /\ sock[Peer(e)] = "closed" /\ wire[e] = << >>
  /\ ~Shared /\ ending[Peer(e)].how = "self" /\ sock[e] = "open" =>
       Arrived(e) = ending[Peer(e)].accepted
  /\ ending[Peer(e)].how = "self" /\ ending[e].how = "eof" =>
       Received(e) = ending[Peer(e)].accepted

EndingInv == \A e \in Ends : EndOf(e)

LEMMA InitEnding == Init => EndingInv
  BY PeerType DEF Init, EndingInv, EndOf

LEMMA EndingKept ==
  ASSUME EndingInv, NEW e \in Ends, ending' = ending, transport' = transport,
         \A d \in Ends : sock[d] = "closed" <=> sock'[d] = "closed",
         sock'[e] = "open" => sock[e] = "open",
         sock[Peer(e)] = "closed" /\ wire[e] = << >> => wire'[e] = << >>,
         ~Shared /\ sock[Peer(e)] = "closed" /\ sock[e] = "open" /\ sock'[e] = "open" =>
           Arrived(e)' = Arrived(e),
         wire[e] = << >> => Received(e)' = Received(e)
  PROVE  EndOf(e)'
<1>1. Peer(e) \in Ends /\ EndOf(e) /\ EndOf(Peer(e))
  BY PeerType DEF EndingInv
<1>2. ending[Peer(e)].how = "self" => sock[Peer(e)] = "closed"
  BY <1>1 DEF EndOf
<1>3. ending[e].how = "eof" => wire[e] = << >> /\ sock[Peer(e)] = "closed" /\ ~Shared
  BY <1>1 DEF EndOf
<1>4. /\ sock'[e] # "closed" => ending'[e].how = "none"
      /\ ending'[e].how = "eof" => ~Shared' /\ sock'[Peer(e)] = "closed" /\ wire'[e] = << >>
  BY <1>1, <1>3 DEF EndOf, Shared
<1>5. ~Shared' /\ ending'[Peer(e)].how = "self" /\ sock'[e] = "open" =>
        Arrived(e)' = ending'[Peer(e)].accepted
  BY <1>1, <1>2 DEF EndOf, Shared
<1>6. ending'[Peer(e)].how = "self" /\ ending'[e].how = "eof" =>
        Received(e)' = ending'[Peer(e)].accepted
  BY <1>1, <1>3 DEF EndOf
<1> QED
  BY <1>4, <1>5, <1>6 DEF EndOf

LEMMA EndingClose ==
  ASSUME TypeOK, SockInv, StreamInv, EndingInv, Quiet, NEW e \in Ends, NEW how \in How, Closes(e, how)
  PROVE  EndingInv'
<1> DEFINE p == Peer(e)
<1>1. /\ p \in Ends /\ p # e /\ Peer(p) = e /\ \A d \in Ends : d = e \/ d = p
      /\ EndOf(e) /\ EndOf(p) /\ StreamOf(p)
  BY PeerType, TwoEnds DEF EndingInv, StreamInv
<1>2. /\ sock'[e] = "closed"
      /\ sock'[p] = sock[p] \/ (sock[p] = "open" /\ sock'[p] = "reset")
      /\ sock'[p] = "open" => wire'[p] = wire[p]
      /\ wire'[e] \in {wire[e], << >>}
      /\ ending'[e] = [how |-> how, accepted |-> accepted[e]]
      /\ ending'[p] = ending[p]
  BY CloseGives DEF Closes
<1>3. /\ Shared' = Shared /\ Received(e)' = Received(e) /\ Received(p)' = Received(p)
  BY <1>1 DEF Quiet, Shared
<1>4. ending[p].how # "eof"
  BY <1>1 DEF EndOf, Closes
<1>5. EndOf(e)'
  <2>1. how = "eof" => /\ ~Shared /\ sock[e] = "open" /\ sock[p] = "closed" /\ wire[e] = << >>
    BY DEF Closes
  <2>2. how = "eof" => Arrived(e) = Received(e)
    BY <2>1, StreamTypes, ConcatEmptySeq DEF Arrived
  <2>3. how = "eof" /\ ending[p].how = "self" => Received(e) = ending[p].accepted
    BY <1>1, <2>1, <2>2 DEF EndOf
  <2>4. ending'[e].how = how
    BY <1>2
  <2>5. ending'[e].how = "eof" => ~Shared' /\ sock'[p] = "closed" /\ wire'[e] = << >>
    BY <1>2, <1>3, <2>1, <2>4
  <2> QED
    BY <1>2, <1>3, <2>3, <2>4, <2>5 DEF EndOf
<1>6. EndOf(p)'
  <2>1. sock'[p] # "closed" => ending'[p].how = "none"
    BY <1>1, <1>2 DEF EndOf
  <2>2. ~Shared' /\ ending'[e].how = "self" /\ sock'[p] = "open" =>
          Arrived(p)' = ending'[e].accepted
    <3> SUFFICES ASSUME how = "self", sock'[p] = "open"
                 PROVE  Arrived(p)' = accepted[e]
      BY <1>2
    <3>1. sock[p] = "open" /\ wire'[p] = wire[p]
      BY <1>2
    <3>2. sock[e] = "open"
      BY <1>1, <3>1 DEF SockInv, Closes
    <3>3. Arrived(p) \o << >> = accepted[e]
      BY <1>1, <3>1, <3>2 DEF StreamOf, Standing, Closes
    <3>4. Arrived(p)' = Arrived(p)
      BY <1>3, <3>1 DEF Arrived
    <3> QED
      BY <1>1, <3>3, <3>4, StreamTypes, ConcatEmptySeq
  <2>3. ending'[p].how # "eof"
    BY <1>2, <1>4
  <2> QED
    BY <1>1, <2>1, <2>2, <2>3 DEF EndOf
<1> QED
  BY <1>1, <1>5, <1>6 DEF EndingInv

LEMMA StepEnding ==
  TypeOK /\ DispatchInv /\ SockInv /\ StreamInv /\ EndingInv /\ [Next]_vars => EndingInv'
<1> SUFFICES ASSUME TypeOK, DispatchInv, SockInv, StreamInv, EndingInv, [Next]_vars
             PROVE  EndingInv'
  OBVIOUS
<1>1. ASSUME Quiet, UNCHANGED <<sock, wire, ending>>
      PROVE  EndingInv'
  <2> SUFFICES ASSUME NEW d \in Ends PROVE EndOf(d)'
    BY DEF EndingInv
  <2>1. Received(d)' = Received(d) /\ Arrived(d)' = Arrived(d) /\ transport' = transport
    BY <1>1 DEF Quiet, Arrived
  <2> QED
    BY <1>1, <2>1, EndingKept
<1>2. ASSUME NEW e \in Ends, Quiet,
             UNCHANGED <<sock, wire, ending>> \/ \E how \in How : Closes(e, how)
      PROVE  EndingInv'
  BY <1>1, <1>2, EndingClose
<1>3. ASSUME NEW e \in Ends, SendText(e)
      PROVE  EndingInv'
  <2> SUFFICES ASSUME NEW d \in Ends PROVE EndOf(d)'
    BY DEF EndingInv
  <2>1. UNCHANGED <<transport, rx, sock, wire, consumed, ending>>
    BY <1>3 DEF SendText
  <2>2. Received(d)' = Received(d) /\ Arrived(d)' = Arrived(d)
    BY <2>1 DEF Received, Arrived
  <2> QED
    BY <2>1, <2>2, EndingKept
<1>4. ASSUME NEW e \in Ends, RecvBytes(e)
      PROVE  EndingInv'
  <2> SUFFICES ASSUME NEW d \in Ends PROVE EndOf(d)'
    BY DEF EndingInv
  <2>1. UNCHANGED <<transport, sock, consumed, ending>>
    BY <1>4 DEF RecvBytes, history
  <2>2. Arrived(d)' = Arrived(d)
    BY <1>4, ArrivedKept
  <2>3. wire[d] = << >> => wire'[d] = << >> /\ Received(d)' = Received(d)
    <3>1. CASE d = e
      BY <1>4, <3>1, RecvMoves
    <3>2. CASE d # e
      BY <1>4, <2>1, <3>2, RecvMoves DEF Received
    <3> QED
      BY <3>1, <3>2
  <2> QED
    BY <2>1, <2>2, <2>3, EndingKept
<1>5. ASSUME NEW e \in Ends, SendBytes(e)
      PROVE  EndingInv'
  <2> SUFFICES ASSUME NEW d \in Ends PROVE EndOf(d)'
    BY DEF EndingInv
  <2>1. UNCHANGED <<transport, rx, consumed, ending>>
    BY <1>5 DEF SendBytes, history
  <2>2. Received(d)' = Received(d)
    BY <2>1 DEF Received
  <2>3. /\ sock[e] = "open"
        /\ \A c \in Ends : c # e => sock'[c] = sock[c]
        /\ sock'[e] \in {"open", "reset"}
        /\ wire'[e] = wire[e]
    BY <1>5, SendMoves
  <2>4. sock[Peer(d)] = "closed" => wire'[d] = wire[d]
    <3>1. CASE d = e
      BY <2>3, <3>1
    <3>2. CASE d # e
      BY <2>3, <3>2, PeerType, TwoEnds
    <3> QED
      BY <3>1, <3>2
  <2>5. sock[Peer(d)] = "closed" => Arrived(d)' = Arrived(d)
    BY <2>2, <2>4 DEF Arrived
  <2> QED
    BY <2>1, <2>2, <2>3, <2>4, <2>5, EndingKept
<1>6. CASE NetworkReset
  <2> SUFFICES ASSUME NEW d \in Ends PROVE EndOf(d)'
    BY DEF EndingInv
  <2>1. /\ UNCHANGED <<transport, rx, consumed, ending>>
        /\ \A c \in Ends : sock[c] = "open" /\ sock'[c] = "reset" /\ wire'[c] \in {wire[c], << >>}
    BY <1>6 DEF NetworkReset, history
  <2>2. Received(d)' = Received(d)
    BY <2>1 DEF Received
  <2> QED
    BY <2>1, <2>2, EndingKept
<1>7. CASE UNCHANGED vars
  BY <1>1, <1>7 DEF vars, history, Quiet, Received
<1> QED
  BY <1>2, <1>3, <1>4, <1>5, <1>6, <1>7, QuietSteps DEF Next, Poll, App

----------------------------------------------------------------------------
\* The inductive invariant.
IInv == TypeOK /\ DrainInv /\ SockInv /\ StreamInv /\ EndingInv

LEMMA Inductive == Spec => []IInv
<1>1. Init => IInv
  BY InitType, InitDrains, InitSock, InitStream, InitEnding DEF IInv
<1>2. IInv /\ [Next]_vars => IInv'
  BY StepType, StepDrains, StepSock, StepStream, StepEnding DEF IInv, DrainInv
<1> QED
  BY <1>1, <1>2, PTL DEF Spec

(***************************************************************************)
(* What an end has received is always the first of what its peer's buffer  *)
(* accepted, and no byte is missing between the two ends of a connection   *)
(* that stands: through growing buffers, partial sends and reads, resets,  *)
(* closes and destructors.                                                 *)
(***************************************************************************)
THEOREM StreamStaysIntact == Spec => []StreamIntact
<1>1. IInv => StreamIntact
  <2> SUFFICES ASSUME IInv, NEW e \in Ends
               PROVE  /\ Prefix(Received(e), accepted[Peer(e)])
                      /\ sock[e] = "open" /\ sock[Peer(e)] = "open" =>
                           Received(e) \o wire[e] \o tx[Peer(e)].content = accepted[Peer(e)]
    BY DEF StreamIntact
  <2>1. Peer(e) \in Ends /\ TypeOK /\ StreamOf(e)
    BY PeerType DEF IInv, StreamInv
  <2>2. Prefix(Received(e), accepted[Peer(e)])
    BY <2>1, StreamTypes, PrefixOfFirst DEF StreamOf, Arrived
  <2> QED
    BY <2>1, <2>2 DEF StreamOf, Standing, Arrived
<1> QED
  BY <1>1, Inductive, PTL

(***************************************************************************)
(* An end that sees the end of file of a peer that closed by itself has    *)
(* every byte the peer had accepted when it closed.                        *)
(***************************************************************************)
THEOREM EndsClean == Spec => []CleanEnd
<1>1. IInv => CleanEnd
  BY DEF IInv, EndingInv, EndOf, CleanEnd
<1> QED
  BY <1>1, Inductive, PTL

=============================================================================
