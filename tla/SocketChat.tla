----------------------------- MODULE SocketChat -----------------------------
(***************************************************************************)
(* The two ends of one chat connection.  Each end is a SocketChatImpl:     *)
(* a transmit and a receive SimpleBuffer (by their contract, module        *)
(* ByteQueue), a non-blocking socket, and a poll that its application      *)
(* calls over and over from one thread.  Everything an end does between    *)
(* two system calls is one step, so the ends interleave at recv and send,  *)
(* and the application acts between polls and in the message callback.     *)
(*                                                                         *)
(* The kernel's TCP connection is modelled from the way the code uses it:  *)
(* a bounded byte stream each way, an end of file after an orderly close,  *)
(* and a reset when an end closes with unread bytes, writes to a closed    *)
(* peer, or the network fails.  A WsocketSharedMemory is the same stream   *)
(* (module SPSC), of which neither end ever learns that the other closed   *)
(* it; how the two get hold of one is module SharedSocket.                 *)
(***************************************************************************)
EXTENDS ByteQueue, SequencesExt

CONSTANTS
  Byte,                 \* byte values
  CR, LF,               \* the two bytes of the message delimiter
  Script,               \* Script[e]: the texts end e's application sends, in order
  DefaultBufferSize,    \* DEFAULT_TRANSMIT_BUFFER_SIZE, DEFAULT_RECEIVE_BUFFER_SIZE
  MaxReadSize,          \* DEFAULT_MAX_READ_SIZE
  SocketCapacity,       \* bytes the kernel holds in one direction
  Transports,           \* the kinds of socket in use, of "tcp" and "shared"
  Blocking,             \* the ends whose TCP socket is in blocking mode
  CloseTimeout          \* CLOSE_TIMEOUT, in ticks of the clock

Ends == {"client", "server"}

Peer(e) == IF e = "client" THEN "server" ELSE "client"

Delimiter == <<CR, LF>>

\* Taking any carriage return for a delimiter.
DelimiterAtCR(bytes, i) == bytes[i] = CR

\* Position of the first byte of the first delimiter of a byte sequence, 0: none.
DelimiterAt(bytes, i) == bytes[i] = CR /\ bytes[i + 1] = LF

FirstDelimiter(bytes) ==
  LET at == {i \in 1 .. Len(bytes) - 1 : DelimiterAt(bytes, i)}
  IN  IF at = {} THEN 0 ELSE CHOOSE i \in at : \A j \in at : i <= j

ASSUME SocketChatAssumption ==
  /\ CR \in Byte /\ LF \in Byte /\ CR # LF
  /\ Script \in [Ends -> Seq(Seq(Byte))]
  /\ \A e \in Ends : \A n \in 1 .. Len(Script[e]) : FirstDelimiter(Script[e][n]) = 0
  /\ MaxGrowSize \in Nat /\ DefaultBufferSize \in 1 .. MaxGrowSize
  /\ MaxReadSize \in Nat \ {0}
  /\ SocketCapacity \in Nat \ {0}
  /\ Transports \subseteq {"tcp", "shared"} /\ Transports # {}
  /\ Blocking \subseteq Ends
  /\ CloseTimeout \in Nat \ {0}

VARIABLES
  transport,    \* what mSocket of both ends is
  readyState,   \* mReadyState of each end
  phase,        \* "live", in the destructor ("dtor"), or "gone"
  pc,           \* where in poll, or in the destructor's loop, each end is
  tx, rx,       \* mTransmitBuffer, mReceiveBuffer
  sock,         \* "none" (mSocket is null), "open", "reset" or "closed"
  wire,         \* wire[e]: bytes the kernel holds for end e to receive
  age           \* time since the destructor's Timer was last (re)started

endVars == <<readyState, phase, pc, age>>

\* What happened so far; the code keeps none of it.
VARIABLES
  sent,         \* how many texts were passed to sendText
  accepted,     \* the bytes that sendText got into the transmit buffer
  refused,      \* whether some addBuffer of sendText failed
  delivered,    \* the messages passed to receiveMessage
  consumed,     \* the bytes consumed from the receive buffer
  ending        \* how the end's socket was closed, and what was accepted by then

history == <<sent, accepted, refused, delivered, consumed, ending>>

vars == <<transport, endVars, tx, rx, sock, wire, history>>

----------------------------------------------------------------------------
Shared == transport = "shared"

(***************************************************************************)
(* The client's connection may be refused: it has no socket, and create    *)
(* deletes the object at once.  Or the name of the host is unknown, and    *)
(* hostname_connect returns 1, which isValid takes for a socket: every     *)
(* call on it fails.  In both cases nothing ever runs at the other end.    *)
(***************************************************************************)
Alone(own, other) == [e \in Ends |-> IF e = "client" THEN own ELSE other]

Connected ==
  /\ readyState = [e \in Ends |-> "OPEN"]
  /\ phase = [e \in Ends |-> "live"]
  /\ pc = [e \in Ends |-> "app"]
  /\ sock = [e \in Ends |-> "open"]

NotConnected ==
  /\ readyState = Alone("CLOSING", "CLOSED")
  /\ phase = Alone("dtor", "gone")
  /\ pc = Alone("check", "gone")
  /\ sock = Alone("none", "closed")

NotResolved ==
  /\ ~Shared
  /\ readyState = Alone("OPEN", "CLOSED")
  /\ phase = Alone("live", "gone")
  /\ pc = Alone("app", "gone")
  /\ sock = Alone("reset", "closed")

Init ==
  /\ transport \in Transports
  /\ Connected \/ NotConnected \/ NotResolved
  /\ tx = [e \in Ends |-> Fresh(DefaultBufferSize)]
  /\ rx = [e \in Ends |-> Fresh(DefaultBufferSize)]
  /\ wire = [e \in Ends |-> << >>]
  /\ age = [e \in Ends |-> 0]
  /\ sent = [e \in Ends |-> 0]
  /\ accepted = [e \in Ends |-> << >>]
  /\ refused = [e \in Ends |-> FALSE]
  /\ delivered = [e \in Ends |-> << >>]
  /\ consumed = [e \in Ends |-> << >>]
  /\ ending = [e \in Ends |-> [how |-> "none", accepted |-> << >>]]

Goto(e, place) == pc' = [pc EXCEPT ![e] = place]

Place(e, afterPoll) == IF phase[e] = "live" THEN afterPoll ELSE "check"

(***************************************************************************)
(* mSocket->close().  Closing a TCP connection with unread bytes resets    *)
(* it, and the peer may then lose what it has not received yet; otherwise  *)
(* it still receives all of it, and then the end of file.                  *)
(***************************************************************************)
CloseTcp(e) ==
  LET aborts == sock[e] = "open" /\ sock[Peer(e)] = "open" /\ wire[e] # << >>
  IN  /\ sock' = [sock EXCEPT ![e] = "closed",
                              ![Peer(e)] = IF aborts THEN "reset" ELSE @]
      /\ \E left \in {wire[Peer(e)]} \cup (IF aborts THEN {<< >>} ELSE {}) :
           wire' = [wire EXCEPT ![e] = << >>, ![Peer(e)] = left]

\* Closing a shared memory socket does nothing; this end has done with it.
CloseShared(e) == sock' = [sock EXCEPT ![e] = "closed"] /\ UNCHANGED wire

CloseSocket(e, how) ==
  /\ IF Shared THEN CloseShared(e) ELSE CloseTcp(e)
  /\ ending' = [ending EXCEPT ![e] = [how |-> how, accepted |-> accepted[e]]]

----------------------------------------------------------------------------
(***************************************************************************)
(* The application, between two polls or in a message callback.            *)
(***************************************************************************)
InApp(e) == phase[e] = "live" /\ pc[e] \in {"app", "dispatch"}

\* sendText: the text and the delimiter are added one after the other, and
\* neither result is looked at.
SendText(e) ==
  /\ InApp(e)
  /\ sent[e] < Len(Script[e])
  /\ LET text == Script[e][sent[e] + 1] IN
     \E body \in Add(tx[e], text) :
       \E tail \in Add(body.buf, Delimiter) :
         /\ tx' = [tx EXCEPT ![e] = tail.buf]
         /\ accepted' = [accepted EXCEPT ![e] = @ \o (IF body.ok THEN text ELSE << >>)
                                                  \o (IF tail.ok THEN Delimiter ELSE << >>)]
         /\ refused' = [refused EXCEPT ![e] = @ \/ ~body.ok \/ ~tail.ok]
  /\ sent' = [sent EXCEPT ![e] = @ + 1]
  /\ UNCHANGED <<transport, endVars, rx, sock, wire, delivered, consumed, ending>>

Closing(e) ==
  readyState' = [readyState EXCEPT ![e] = IF @ \in {"CLOSING", "CLOSED"} THEN @ ELSE "CLOSING"]

\* close
Close(e) ==
  /\ InApp(e)
  /\ readyState[e] = "OPEN"
  /\ Closing(e)
  /\ UNCHANGED <<transport, phase, pc, age, tx, rx, sock, wire, history>>

----------------------------------------------------------------------------
(***************************************************************************)
(* poll.  A closed end only waits (nullSelect), which changes nothing.     *)
(***************************************************************************)
PollStart(e) ==
  /\ phase[e] = "live" /\ pc[e] = "app"
  /\ readyState[e] # "CLOSED"
  /\ Goto(e, "recv")
  /\ UNCHANGED <<transport, readyState, phase, age, tx, rx, sock, wire, history>>

\* Without its break the receive or send loop goes on with a closed socket.
DisconnectWithoutBreak(e, how) ==
  /\ CloseSocket(e, how)
  /\ readyState' = [readyState EXCEPT ![e] = "CLOSED"]
  /\ Goto(e, pc[e])

\* The socket failed or the peer closed: poll closes and returns at once.
Disconnect(e, how) ==
  /\ CloseSocket(e, how)
  /\ readyState' = [readyState EXCEPT ![e] = "CLOSED"]
  /\ Goto(e, Place(e, "app"))

\* Taking the end of file for a socket that would block.
EndedByReset(e) == ~Shared /\ wire[e] = << >> /\ sock[e] = "reset"

\* No bytes to receive, and none will come: recv returns 0, or fails.
Ended(e) == ~Shared /\ wire[e] = << >> /\ (sock[e] = "reset" \/ sock[Peer(e)] = "closed")

\* Having nothing to do, a call on e's socket returns and does not wait.
Returns(e) == Shared \/ e \notin Blocking

\* The receive buffer has no room for a read: leave the receive loop.
RecvNoRoom(e) ==
  /\ pc[e] = "recv"
  /\ \E room \in Reserve(rx[e], MaxReadSize) : ~room.ok
  /\ Goto(e, "send")
  /\ UNCHANGED <<transport, readyState, phase, age, tx, rx, sock, wire, history>>

\* recv returned some bytes: keep them and read on.
RecvBytes(e) ==
  /\ pc[e] = "recv"
  /\ \E room \in Reserve(rx[e], MaxReadSize), n \in 1 .. MaxReadSize :
       /\ room.ok
       /\ n <= Len(wire[e])
       /\ rx' = [rx EXCEPT ![e] = Fill(room.buf, SubSeq(wire[e], 1, n))]
       /\ wire' = [wire EXCEPT ![e] = SubSeq(@, n + 1, Len(@))]
  /\ UNCHANGED <<transport, endVars, tx, sock, history>>

\* recv returned -1 and wouldBlock: leave the receive loop.
RecvWouldBlock(e) ==
  /\ pc[e] = "recv"
  /\ wire[e] = << >> /\ ~Ended(e)
  /\ Returns(e)
  /\ \E room \in Reserve(rx[e], MaxReadSize) :
       room.ok /\ rx' = [rx EXCEPT ![e] = room.buf]
  /\ Goto(e, "send")
  /\ UNCHANGED <<transport, readyState, phase, age, tx, sock, wire, history>>

\* recv returned 0, or -1 with another error.
RecvEnded(e) ==
  /\ pc[e] = "recv"
  /\ Ended(e)
  /\ \E room \in Reserve(rx[e], MaxReadSize) :
       room.ok /\ rx' = [rx EXCEPT ![e] = room.buf]
  /\ Disconnect(e, IF sock[e] = "reset" THEN "error" ELSE "eof")
  /\ UNCHANGED <<transport, phase, age, tx, sent, accepted, refused, delivered, consumed>>

\* send took some bytes.  Those sent to a closed peer are lost and cause a reset.
SendBytes(e) ==
  /\ pc[e] = "send"
  /\ sock[e] = "open"
  /\ \E n \in 1 .. Len(tx[e].content) :
       /\ n <= SocketCapacity - Len(wire[Peer(e)])
       /\ tx' = [tx EXCEPT ![e] = Take(@, n)]
       /\ IF ~Shared /\ sock[Peer(e)] = "closed"
            THEN sock' = [sock EXCEPT ![e] = "reset"] /\ UNCHANGED wire
            ELSE /\ wire' = [wire EXCEPT ![Peer(e)] = @ \o SubSeq(tx[e].content, 1, n)]
                 /\ UNCHANGED sock
  /\ UNCHANGED <<transport, endVars, rx, history>>

SendFailed(e) ==
  /\ pc[e] = "send"
  /\ tx[e].content # << >>
  /\ sock[e] = "reset"
  /\ Disconnect(e, "error")
  /\ UNCHANGED <<transport, phase, age, tx, rx, sent, accepted, refused, delivered, consumed>>

SendWouldBlock(e) ==
  sock[e] = "open" /\ Len(wire[Peer(e)]) >= SocketCapacity /\ Returns(e)

\* A dispatch that wants more than two bytes overlooks the empty message.
DispatchingLonger(buffer) ==
  IF Len(buffer.content) > 2 /\ FirstDelimiter(buffer.content) # 0 THEN "dispatch" ELSE "app"

\* Where a poll with a callback goes on: to the next whole message, or it returns.
Dispatching(buffer) == IF FirstDelimiter(buffer.content) # 0 THEN "dispatch" ELSE "app"

\* Dropping the "not" of the test makes it close with bytes left to send.
ClosesUnflushed(e) == tx[e].content # << >> /\ readyState[e] = "CLOSING"

ClosesNow(e) == tx[e].content = << >> /\ readyState[e] = "CLOSING"

(***************************************************************************)
(* Nothing left to send, or send returned -1 and wouldBlock.  A closing    *)
(* end that has sent everything closes.  Then come the callbacks, if poll  *)
(* was given any (the destructor gives none).                              *)
(***************************************************************************)
Finish(e) ==
  /\ pc[e] = "send"
  /\ tx[e].content = << >> \/ SendWouldBlock(e)
  /\ IF ClosesNow(e)
       THEN /\ CloseSocket(e, "self")
            /\ readyState' = [readyState EXCEPT ![e] = "CLOSED"]
       ELSE UNCHANGED <<readyState, sock, wire, ending>>
  /\ Goto(e, Place(e, Dispatching(rx[e])))
  /\ UNCHANGED <<transport, phase, age, tx, rx, sent, accepted, refused, delivered, consumed>>

(***************************************************************************)
(* _dispatchBinary: one message, up to the first delimiter, to the         *)
(* callback; then it and the delimiter are consumed.                       *)
(***************************************************************************)
DispatchMessage(e) ==
  LET content == rx[e].content
      at      == FirstDelimiter(content)
  IN  /\ pc[e] = "dispatch"
      /\ delivered' = [delivered EXCEPT ![e] = Append(@, SubSeq(content, 1, at - 1))]
      /\ rx' = [rx EXCEPT ![e] = Take(@, at + 1)]
      /\ consumed' = [consumed EXCEPT ![e] = @ \o SubSeq(content, 1, at + 1)]
      /\ Goto(e, Dispatching(rx'[e]))
      /\ UNCHANGED <<transport, readyState, phase, age, tx, sock, wire, sent, accepted, refused, ending>>

----------------------------------------------------------------------------
(***************************************************************************)
(* The destructor: close, then poll until the state is CLOSED or the timer *)
(* says so.  poll on a null socket returns at once.                        *)
(***************************************************************************)
\* mSocket->release() and the end of the object.
Release(e) ==
  /\ phase' = [phase EXCEPT ![e] = "gone"]
  /\ Goto(e, "gone")
  /\ IF sock[e] \in {"open", "reset"} THEN CloseSocket(e, "timeout")
                                      ELSE UNCHANGED <<sock, wire, ending>>

\* The loop's condition, and its call of poll.
PollOrRelease(e) ==
  IF readyState'[e] = "CLOSED"
    THEN Release(e)
    ELSE /\ phase' = [phase EXCEPT ![e] = "dtor"]
         /\ Goto(e, IF sock[e] = "none" THEN "check" ELSE "recv")
         /\ UNCHANGED <<sock, wire, ending>>

Destroy(e) ==
  /\ phase[e] = "live" /\ pc[e] = "app"
  /\ Closing(e)
  /\ age' = [age EXCEPT ![e] = 0]
  /\ PollOrRelease(e)
  /\ UNCHANGED <<transport, tx, rx, sent, accepted, refused, delivered, consumed>>

\* t.getElapsedSeconds() >= CLOSE_TIMEOUT; getElapsedSeconds restarts the timer.
DestructorCheck(e) ==
  /\ pc[e] = "check"
  /\ age' = [age EXCEPT ![e] = 0]
  /\ UNCHANGED readyState
  /\ IF age[e] >= CloseTimeout THEN Release(e) ELSE PollOrRelease(e)
  /\ UNCHANGED <<transport, tx, rx, sent, accepted, refused, delivered, consumed>>

Tick(e) ==
  /\ phase[e] = "dtor"
  /\ age[e] < CloseTimeout
  /\ age' = [age EXCEPT ![e] = @ + 1]
  /\ UNCHANGED <<transport, readyState, phase, pc, tx, rx, sock, wire, history>>

\* The network breaks the connection; bytes on their way may be lost.
NetworkReset ==
  /\ ~Shared
  /\ \A e \in Ends : sock[e] = "open"
  /\ sock' = [e \in Ends |-> "reset"]
  /\ \E lost \in SUBSET Ends : wire' = [e \in Ends |-> IF e \in lost THEN << >> ELSE wire[e]]
  /\ UNCHANGED <<transport, endVars, tx, rx, history>>

----------------------------------------------------------------------------
\* The steps of an end that only need its thread to run.
Poll(e) ==
  \/ PollStart(e)
  \/ RecvNoRoom(e) \/ RecvBytes(e) \/ RecvWouldBlock(e) \/ RecvEnded(e)
  \/ SendBytes(e) \/ SendFailed(e)
  \/ Finish(e) \/ DispatchMessage(e)

App(e) == SendText(e) \/ Close(e) \/ Destroy(e)

Next ==
  \/ \E e \in Ends : Poll(e) \/ DestructorCheck(e) \/ App(e) \/ Tick(e)
  \/ NetworkReset

Spec == Init /\ [][Next]_vars

(***************************************************************************)
(* Both programs poll in an endless loop and time passes; nothing obliges  *)
(* an application to send or close, or the network to fail.                *)
(***************************************************************************)
Fairness ==
  \A e \in Ends : WF_vars(Poll(e)) /\ WF_vars(DestructorCheck(e)) /\ WF_vars(Tick(e))

FairSpec == Spec /\ Fairness

----------------------------------------------------------------------------
Buffer == [content : Seq(Byte), maxLen : 0 .. MaxGrowSize]

TypeOK ==
  /\ transport \in Transports
  /\ readyState \in [Ends -> {"OPEN", "CLOSING", "CLOSED"}]
  /\ phase \in [Ends -> {"live", "dtor", "gone"}]
  /\ pc \in [Ends -> {"app", "recv", "send", "dispatch", "check", "gone"}]
  /\ tx \in [Ends -> Buffer] /\ rx \in [Ends -> Buffer]
  /\ sock \in [Ends -> {"none", "open", "reset", "closed"}]
  /\ wire \in [Ends -> Seq(Byte)]
  /\ age \in [Ends -> 0 .. CloseTimeout]
  /\ sent \in [Ends -> Nat]
  /\ accepted \in [Ends -> Seq(Byte)]
  /\ refused \in [Ends -> BOOLEAN]
  /\ delivered \in [Ends -> Seq(Seq(Byte))]
  /\ consumed \in [Ends -> Seq(Byte)]
  /\ ending \in [Ends -> [how : {"none", "eof", "error", "self", "timeout"},
                          accepted : Seq(Byte)]]

Prefix(s, t) == Len(s) <= Len(t) /\ s = SubSeq(t, 1, Len(s))

Received(e) == consumed[e] \o rx[e].content

(***************************************************************************)
(* The bytes an end has received are, in order, the first of those its     *)
(* peer accepted for transmission, through both growing buffers, partial   *)
(* sends, partial reads and resets; and while the connection stands every  *)
(* other byte is still in the kernel or in the peer's transmit buffer.     *)
(***************************************************************************)
StreamIntact ==
  \A e \in Ends : LET p == Peer(e) IN
    /\ Prefix(Received(e), accepted[p])
    /\ sock[e] = "open" /\ sock[p] = "open" =>
         Received(e) \o wire[e] \o tx[p].content = accepted[p]

(***************************************************************************)
(* The callback is given the texts the peer passed to sendText, each once, *)
(* whole and in order, as long as the peer's transmit buffer never was     *)
(* full: a delimiter cut in two by a read never splits or joins messages.  *)
(***************************************************************************)
MessagesInOrder ==
  \A e \in Ends : ~refused[Peer(e)] => 
    Prefix(delivered[e], SubSeq(Script[Peer(e)], 1, sent[Peer(e)]))

(***************************************************************************)
(* Each direction of the connection is the stream of whole texts that the  *)
(* server and its clients take it for (module MessageStream).  The texts   *)
(* on their way are the whole messages in the bytes that the receive       *)
(* buffer, the kernel and the transmit buffer hold; what is in the         *)
(* transmit buffer of a TCP connection that is cut will not be sent.       *)
(***************************************************************************)
Delimiters(bytes) == {i \in 1 .. Len(bytes) - 1 : DelimiterAt(bytes, i)}

UpTo(positions, i) == {j \in positions : j <= i}

NthDelimiter(bytes, n) ==
  CHOOSE i \in Delimiters(bytes) : Cardinality(UpTo(Delimiters(bytes), i)) = n

MessageStart(bytes, n) == IF n = 1 THEN 1 ELSE NthDelimiter(bytes, n - 1) + Len(Delimiter)

Messages(bytes) ==
  [n \in 1 .. Cardinality(Delimiters(bytes)) |->
     SubSeq(bytes, MessageStart(bytes, n), NthDelimiter(bytes, n) - 1)]

Cut == ~Shared /\ \E e \in Ends : sock[e] # "open"

ToCome(e) == rx[e].content \o wire[e] \o (IF Cut THEN << >> ELSE tx[Peer(e)].content)

OnTheirWay(e) == Messages(ToCome(e))

Given(e) == SubSeq(Script[e], 1, sent[e])

\* The stream to each end.
Streams == INSTANCE MessageStream WITH
  Channel <- Ends,
  given   <- [e \in Ends |-> Given(Peer(e))],
  transit <- [e \in Ends |-> OnTheirWay(e)],
  taken   <- delivered,
  cut     <- [e \in Ends |-> Cut],
  refused <- [e \in Ends |-> refused[Peer(e)]]

RefinesStreams == Streams!Spec

(***************************************************************************)
(* When poll returns, no whole message is left in the receive buffer: also *)
(* when it was this poll that flushed the last byte and closed.  Only a    *)
(* poll that finds the connection ended or broken leaves some behind.      *)
(***************************************************************************)
PollDrains ==
  \A e \in Ends : phase[e] = "live" /\ pc[e] = "app" /\ ending[e].how \in {"none", "self"} =>
    FirstDelimiter(rx[e].content) = 0

(***************************************************************************)
(* An end that closes by itself has flushed first: a peer that then sees   *)
(* the end of file has received every byte accepted before the close (what *)
(* sendText accepts after it stays in the transmit buffer).                *)
(***************************************************************************)
CleanEnd ==
  \A e \in Ends : ending[Peer(e)].how = "self" /\ ending[e].how = "eof" =>
    Received(e) = ending[Peer(e)].accepted

(***************************************************************************)
(* The receive buffer of an end is stuffed with the beginning of a message *)
(* that does not fit: it may refuse room for another read, and what is in  *)
(* it cannot be dispatched.  Its polls then receive nothing any more.      *)
(***************************************************************************)
Stuffed(e) == FirstDelimiter(rx[e].content) = 0 /\ MayRefuse(rx[e], MaxReadSize)

(***************************************************************************)
(* While both ends live and the connection stands, every text sent reaches *)
(* the other end's callback, unless that end is stuffed for ever.          *)
(***************************************************************************)
Undisturbed == \A e \in Ends : sock[e] = "open" /\ phase[e] = "live" /\ ~refused[e]

Delivery ==
  \A e \in Ends : \A n \in 1 .. Len(Script[e]) :
    sent[e] >= n ~> Len(delivered[Peer(e)]) >= n \/ ~Undisturbed \/ []Stuffed(Peer(e))

(***************************************************************************)
(* poll is non-blocking: every call returns, whatever the peer does.       *)
(***************************************************************************)
PollReturns == \A e \in Ends : pc[e] \in {"recv", "send"} ~> pc[e] \in {"app", "check"}

(***************************************************************************)
(* An end that is closing closes, or its destructor gives up waiting, as   *)
(* long as the peer's program keeps running: a poll that flushes the last  *)
(* byte, or finds the connection gone, ends the session.  What keeps it    *)
(* from closing is only that it has bytes left for which the other         *)
(* direction has no room for ever, because the peer is stuffed, or has     *)
(* done with a shared memory socket.                                       *)
(***************************************************************************)
Unheard(e) == Stuffed(Peer(e)) \/ (Shared /\ sock[Peer(e)] = "closed")

ClosingEnds ==
  \A e \in Ends : readyState[e] = "CLOSING" /\ sock[e] # "none" ~>
    \/ readyState[e] = "CLOSED" \/ phase[e] = "gone"
    \/ [](Unheard(e) /\ tx[e].content # << >> /\ Len(wire[Peer(e)]) = SocketCapacity)

(***************************************************************************)
(* An end whose TCP connection broke, or whose peer closed it, finds out:  *)
(* its connection is CLOSED in the end, whatever it still has to send, to  *)
(* receive or to dispatch.  There is one exception: an end that is stuffed *)
(* and has nothing to send makes no call of recv or send any more, and     *)
(* never learns of it.                                                     *)
(***************************************************************************)
EndIsNoticed ==
  \A e \in Ends : ~Shared /\ (sock[e] = "reset" \/ sock[Peer(e)] = "closed") ~>
    \/ readyState[e] = "CLOSED" \/ phase[e] = "gone" \/ sock[e] = "none"
    \/ [](Stuffed(e) /\ tx[e].content = << >>)

(***************************************************************************)
(* What comments of the code say and the code does not do.                 *)
(***************************************************************************)
\* Every whole message received has been given to the callback when poll returns.
ReceivedIsDelivered ==
  \A e \in Ends : phase[e] = "live" /\ pc[e] = "app" => FirstDelimiter(rx[e].content) = 0

\* The destructor ends, after CLOSE_TIMEOUT at the latest.
DestructorEnds == \A e \in Ends : phase[e] = "dtor" ~> phase[e] = "gone"

============================================================================
