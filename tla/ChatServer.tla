----------------------------- MODULE ChatServer -----------------------------
(***************************************************************************)
(* The chat server (class SimpleServer) with its clients.  One thread runs *)
(* the server: it accepts a connection, takes a line from the console,     *)
(* drops closed connections, then polls every client in turn and echoes    *)
(* what it said to all.                                                    *)
(*                                                                         *)
(* Connections and consoles are used by their contracts.  A connection,    *)
(* module SocketChat, is a stream of whole messages each way, in order, of *)
(* which the rest may be lost when the connection ends.  A console, module *)
(* InputLine, gives each line once and in order.                           *)
(***************************************************************************)
EXTENDS Integers, FiniteSets, SequencesExt

CONSTANTS
  Line,        \* the texts users type
  Typed,       \* the lines typed at the server's console, in order
  Client,      \* the client programs that may connect, each once
  Says,        \* Says[c]: the lines the user of client c types, in order
  Patient,     \* the clients whose user waits for the echo of the last line
  Fragile,     \* the clients whose connection the network may break
  Reading,     \* the clients that go on polling; the others may stop at any time
  QuitWords,   \* "bye", "quit" and "exit"
  Window       \* messages the kernel holds for a client that does not read

ASSUME ChatAssumption ==
  /\ Typed \in Seq(Line)
  /\ "console" \notin Client
  /\ Says \in [Client -> Seq(Line)]
  /\ Patient \subseteq Client /\ Fragile \subseteq Client /\ Reading \subseteq Client
  /\ QuitWords \subseteq Line
  /\ Window \in Nat \ {0}

\* The server program.
VARIABLES
  pc,         \* the part of run its thread is in
  exit,       \* a quit word was typed at the console
  taken,      \* how many lines were taken from the console
  mClients,   \* the connections, in the order of their arrival
  at,         \* position in mClients of the client to be polled next
  ready,      \* ready[c]: the server's mReadyState for c, "none" before it accepts c
  tx          \* tx[c]: messages in the server's transmit buffer for c

\* The network and the clients.
VARIABLES
  listening,  \* mServerSocket is there: the port could be bound
  blocking,   \* accepted sockets are in blocking mode
  backlog,    \* connections the kernel has made and the server not yet accepted
  up,         \* up[c]: messages sent by c that the server has not taken out yet
  down,       \* down[c]: messages the server has sent that c has not taken out yet
  user,       \* user[c]: where the client program of c is
  cut,        \* cut[c]: client c found its connection closed or broken
  said        \* said[c]: how many lines the user of c has typed

\* What happened so far; the code keeps none of it.
VARIABLES
  log,        \* the messages broadcast, in order
  from,       \* from[c]: how many were broadcast before c was accepted
  seen        \* seen[c]: the messages client c has shown

server == <<pc, exit, taken, mClients, at, ready, tx>>
client == <<user, cut, said, seen>>

vars == <<server, listening, blocking, backlog, up, down, client, log, from>>

Message == [by : Client \cup {"console"}, text : Line]

\* The server cannot listen on a port that is taken, and then runs without a socket.
server_connect == listening \in BOOLEAN

\* accept gives a socket in blocking mode on POSIX systems, and one in the mode of the
\* listening socket on Windows; pollServer leaves it as it is.
AcceptedSockets == blocking \in BOOLEAN

Init ==
  /\ pc = "accept"
  /\ exit = FALSE
  /\ taken = 0
  /\ mClients = << >>
  /\ at = 1
  /\ ready = [c \in Client |-> "none"]
  /\ tx = [c \in Client |-> << >>]
  /\ server_connect
  /\ AcceptedSockets
  /\ backlog = {}
  /\ up = [c \in Client |-> << >>]
  /\ down = [c \in Client |-> << >>]
  /\ user = [c \in Client |-> "away"]
  /\ cut = [c \in Client |-> FALSE]
  /\ said = [c \in Client |-> 0]
  /\ log = << >>
  /\ from = [c \in Client |-> 0]
  /\ seen = [c \in Client |-> << >>]

Members == {mClients[i] : i \in 1 .. Len(mClients)}

First(s, n) == SubSeq(s, 1, n)
Rest(s, n) == SubSeq(s, n + 1, Len(s))

----------------------------------------------------------------------------
(***************************************************************************)
(* The server, one part of its loop after the other.                       *)
(***************************************************************************)
\* pollServer returns one new connection, or null.
pollServer(c) == listening /\ c \in backlog

Accept ==
  /\ pc = "accept"
  /\ pc' = "input"
  /\ \/ \E c \in Client :
          /\ pollServer(c)
          /\ mClients' = Append(mClients, c)
          /\ ready' = [ready EXCEPT ![c] = "OPEN"]
          /\ from' = [from EXCEPT ![c] = Len(log)]
          /\ backlog' = backlog \ {c}
     \/ /\ \A c \in Client : ~pollServer(c)
        /\ UNCHANGED <<mClients, ready, from, backlog>>
  /\ UNCHANGED <<listening, blocking, exit, taken, at, tx, up, down, client, log>>

\* Sending to every client but the one that spoke.
BroadcastToOthers(message, queues) ==
  /\ tx' = [c \in Client |-> IF c \in Members /\ c # message.by
                               THEN Append(queues[c], message) ELSE queues[c]]
  /\ log' = Append(log, message)

\* sendText to each client; queues are the transmit buffers before it.
Broadcast(message, queues) ==
  /\ tx' = [c \in Client |-> IF c \in Members THEN Append(queues[c], message)
                                              ELSE queues[c]]
  /\ log' = Append(log, message)

\* getInputLine, which may have a line, and what is done with it.
Input ==
  /\ pc = "input"
  /\ pc' = "reap"
  /\ \/ UNCHANGED <<taken, exit, tx, log>>
     \/ /\ taken < Len(Typed)
        /\ taken' = taken + 1
        /\ LET line == Typed[taken + 1] IN
           IF line \in QuitWords
             THEN exit' = TRUE /\ UNCHANGED <<tx, log>>
             ELSE Broadcast([by |-> "console", text |-> line], tx) /\ UNCHANGED exit
  /\ UNCHANGED <<listening, blocking, mClients, at, ready, backlog, up, down, client, from>>

isConnected(c) == ready[c] # "CLOSED"

IsFirstClosed(i) ==
  ~isConnected(mClients[i]) /\ \A j \in 1 .. i - 1 : isConnected(mClients[j])

\* Moving the last connection into the place of a closed one and not shortening the list.
Overwrite(i) == [mClients EXCEPT ![i] = mClients[Len(mClients)]]

Erase(i) == RemoveAt(mClients, i)

\* The first closed connection is deleted, and the list is looked through anew.
DropClosed ==
  /\ pc = "reap"
  /\ \E i \in DOMAIN mClients : IsFirstClosed(i) /\ mClients' = Erase(i)
  /\ at' = 1
  /\ UNCHANGED <<pc, listening, blocking, exit, taken, ready, tx, backlog, up, down, client,
                 log, from>>

\* The round of polls ends with the last client, and with exit set it was the last.
AfterClient(i) == IF i < Len(mClients') THEN "echo" ELSE IF exit THEN "quit" ELSE "accept"

\* No connection is closed: poll them from the first on.
Reap ==
  /\ pc = "reap"
  /\ \A c \in Members : isConnected(c)
  /\ at' = 1
  /\ UNCHANGED mClients
  /\ pc' = AfterClient(0)
  /\ UNCHANGED <<listening, blocking, exit, taken, ready, tx, backlog, up, down, client,
                 log, from>>

----------------------------------------------------------------------------
(***************************************************************************)
(* getMessage: poll one client.  poll first takes in what has arrived,     *)
(* then sends what it can, then calls receiveMessage for each message; of  *)
(* several messages in one poll only the last is kept.  On a blocking      *)
(* socket it goes on receiving, and the server waits, until the connection *)
(* ends (or its receive buffer, of 512 MB, is full: not modelled).         *)
(***************************************************************************)
HungUp(c) == user[c] = "gone" \/ cut[c]

\* A send that keeps in the buffer what it has sent.
UnsentKept(c, n) == tx

\* The transmit buffers once n messages to c are sent.
Unsent(c, n) == [tx EXCEPT ![c] = Rest(@, n)]

Sendable(c) == LET free == Window - Len(down[c])
               IN  IF Len(tx[c]) <= free THEN Len(tx[c]) ELSE free

\* Messages are handed to the callback and left in the receive buffer.
KeepOnDispatch(c, n) == UNCHANGED up

Consume(c, n) == up' = [up EXCEPT ![c] = Rest(@, n)]

\* Lowering mHaveMessage after the poll instead of before it.
NothingKept(c, n) == << >>

\* mMessage after the callback was called for the first n messages of c.
Kept(c, n) == IF n = 0 THEN << >> ELSE <<up[c][n]>>

PollClient(c) ==
  /\ ~blocking
  /\ \E n \in 0 .. Len(up[c]) :
       /\ n = 0 => up[c] = << >>
       /\ Consume(c, n)
       /\ down' = [down EXCEPT ![c] = @ \o First(tx[c], Sendable(c))]
       /\ IF Kept(c, n) = << >>
            THEN tx' = Unsent(c, Sendable(c)) /\ UNCHANGED log
            ELSE Broadcast([by |-> c, text |-> Kept(c, n)[1]], Unsent(c, Sendable(c)))
       /\ UNCHANGED ready

\* poll found the connection closed or broken: it gives no message, even if it has some.
LoseClient(c) ==
  /\ HungUp(c)
  /\ ready' = [ready EXCEPT ![c] = "CLOSED"]
  /\ up' = [up EXCEPT ![c] = << >>]
  /\ down' = [down EXCEPT ![c] = << >>]
  /\ UNCHANGED <<tx, log>>

Echo ==
  /\ pc = "echo"
  /\ PollClient(mClients[at]) \/ LoseClient(mClients[at])
  /\ at' = at + 1
  /\ UNCHANGED mClients
  /\ pc' = AfterClient(at)
  /\ UNCHANGED <<listening, blocking, exit, taken, backlog, client, from>>

(***************************************************************************)
(* The destructor of SimpleServer deletes the connections one after the    *)
(* other.  The destructor of each polls without a callback until all is    *)
(* sent and it closes, or it finds the connection ended; connections not   *)
(* yet accepted end with the listening socket.                             *)
(***************************************************************************)
Flush(c) ==
  /\ ~blocking
  /\ down' = [down EXCEPT ![c] = @ \o First(tx[c], Sendable(c))]
  /\ tx' = Unsent(c, Sendable(c))
  /\ ready' = [ready EXCEPT ![c] = IF tx'[c] = << >> THEN "CLOSED" ELSE @]
  /\ UNCHANGED <<up, log>>

ClosePoll ==
  /\ pc = "quit" /\ mClients # << >>
  /\ LET c == Head(mClients) IN isConnected(c) /\ (Flush(c) \/ LoseClient(c))
  /\ UNCHANGED <<pc, mClients, at, listening, blocking, exit, taken, backlog, client, from>>

\* CLOSE_TIMEOUT passes between two looks at the timer, which each look restarts.
GiveUp ==
  /\ pc = "quit" /\ mClients # << >>
  /\ ~blocking
  /\ isConnected(Head(mClients))
  /\ ready' = [ready EXCEPT ![Head(mClients)] = "CLOSED"]
  /\ UNCHANGED <<pc, mClients, at, listening, blocking, exit, taken, tx, backlog, up, down,
                 client, log, from>>

Delete ==
  /\ pc = "quit" /\ mClients # << >>
  /\ ~isConnected(Head(mClients))
  /\ mClients' = Erase(1)
  /\ at' = 1
  /\ UNCHANGED <<pc, listening, blocking, exit, taken, ready, tx, backlog, up, down, client,
                 log, from>>

Quit ==
  /\ pc = "quit" /\ mClients = << >>
  /\ pc' = "done"
  /\ backlog' = {}
  /\ UNCHANGED <<listening, blocking, exit, taken, mClients, at, ready, tx, up, down, client,
                 log, from>>

Server == Accept \/ Input \/ DropClosed \/ Reap \/ Echo \/ ClosePoll \/ Delete \/ Quit

----------------------------------------------------------------------------
(***************************************************************************)
(* The client programs.                                                    *)
(***************************************************************************)
Connect(c) ==
  /\ user[c] = "away"
  /\ listening /\ pc # "done"
  /\ user' = [user EXCEPT ![c] = "chatting"]
  /\ backlog' = backlog \cup {c}
  /\ UNCHANGED <<server, listening, blocking, up, down, cut, said, log, from, seen>>

\* A patient user goes on once his last line has come back.
Ready(c) ==
  c \in Patient /\ said[c] > 0 =>
    \E i \in 1 .. Len(seen[c]) : seen[c][i] = [by |-> c, text |-> Says[c][said[c]]]

Send(c, text) ==
  /\ up' = IF cut[c] THEN up ELSE [up EXCEPT ![c] = Append(@, text)]
  /\ UNCHANGED user

\* A quit word is sent and polled for like any line; then the program deletes its
\* connection, which need not have sent all.
Leave(c, text) ==
  /\ user' = [user EXCEPT ![c] = "gone"]
  /\ \E n \in 0 .. Len(up[c]) + 1 :
       up' = IF cut[c] THEN up ELSE [up EXCEPT ![c] = First(Append(@, text), n)]

\* The user types a line, which is sent.
Say(c) ==
  LET text == Says[c][said[c] + 1]
  IN  /\ user[c] = "chatting"
      /\ said[c] < Len(Says[c])
      /\ Ready(c)
      /\ said' = [said EXCEPT ![c] = @ + 1]
      /\ IF text \in QuitWords THEN Leave(c, text) ELSE Send(c, text)
      /\ UNCHANGED <<server, listening, blocking, backlog, down, cut, log, from, seen>>

\* poll of a client: what has arrived is shown; or the end of the connection is
\* noticed, and then what arrived with it is not shown.
ServerLeft(c) == pc = "done" \/ ready[c] = "CLOSED"

ClientPoll(c) ==
  /\ user[c] = "chatting" /\ ~cut[c]
  /\ \/ /\ down[c] # << >>
        /\ seen' = [seen EXCEPT ![c] = @ \o down[c]]
        /\ UNCHANGED cut
     \/ /\ ServerLeft(c)
        /\ cut' = [cut EXCEPT ![c] = TRUE]
        /\ UNCHANGED seen
  /\ down' = [down EXCEPT ![c] = << >>]
  /\ UNCHANGED <<server, listening, blocking, backlog, up, user, said, log, from>>

\* The network breaks a connection.
Break(c) ==
  /\ c \in Fragile
  /\ user[c] = "chatting" /\ ~cut[c]
  /\ cut' = [cut EXCEPT ![c] = TRUE]
  /\ \E n \in 0 .. Len(up[c]) : up' = [up EXCEPT ![c] = First(@, n)]
  /\ down' = [down EXCEPT ![c] = << >>]
  /\ UNCHANGED <<server, listening, blocking, backlog, user, said, log, from, seen>>

ClientStep(c) == Connect(c) \/ Say(c) \/ ClientPoll(c) \/ Break(c)

Next == Server \/ GiveUp \/ \E c \in Client : ClientStep(c)

Spec == Init /\ [][Next]_vars

\* The server loops without end, and so do the clients in Reading; no user is obliged to
\* type, the network need not fail and no time-out need ever expire.
FairSpec ==
  /\ Spec
  /\ WF_vars(Server)
  /\ \A c \in Reading : WF_vars(ClientPoll(c))

----------------------------------------------------------------------------
Queue == Seq(Message)

TypeOK ==
  /\ pc \in {"accept", "input", "reap", "echo", "quit", "done"}
  /\ exit \in BOOLEAN
  /\ taken \in 0 .. Len(Typed)
  /\ mClients \in Seq(Client) /\ Cardinality(Members) = Len(mClients)
  /\ at \in 1 .. Len(mClients) + 1
  /\ ready \in [Client -> {"none", "OPEN", "CLOSED"}]
  /\ tx \in [Client -> Queue] /\ down \in [Client -> Queue] /\ seen \in [Client -> Queue]
  /\ up \in [Client -> Seq(Line)]
  /\ listening \in BOOLEAN /\ blocking \in BOOLEAN
  /\ backlog \subseteq Client
  /\ user \in [Client -> {"away", "chatting", "gone"}]
  /\ cut \in [Client -> BOOLEAN]
  /\ said \in [Client -> Nat] /\ \A c \in Client : said[c] <= Len(Says[c])
  /\ from \in [Client -> Nat] /\ \A c \in Client : from[c] <= Len(log)
  /\ log \in Queue

Prefix(s, t) == Len(s) <= Len(t) /\ s = First(t, Len(s))

(***************************************************************************)
(* All clients are shown the same conversation: what a client has been     *)
(* shown is, without gap or repetition, what was broadcast since the       *)
(* server accepted it, its own lines and the console's included, and all   *)
(* the rest is on its way while the connection stands.                     *)
(***************************************************************************)
SameConversation ==
  \A c \in Client :
    /\ Prefix(seen[c], Rest(log, from[c]))
    /\ c \in Members /\ ~HungUp(c) => seen[c] \o down[c] \o tx[c] = Rest(log, from[c])

(***************************************************************************)
(* Towards each client, the server with its clients behaves as a stream of *)
(* texts does (module MessageStream), which is what module SocketChat      *)
(* shows a connection to be: what is broadcast to a client is given to it  *)
(* once, and shown in order or lost with the connection.                   *)
(***************************************************************************)
Ended(c) == HungUp(c) \/ ready[c] = "CLOSED"

Streams == INSTANCE MessageStream WITH
  Channel <- Client,
  given   <- [c \in Client |-> IF ready[c] = "none" THEN << >> ELSE Rest(log, from[c])],
  transit <- [c \in Client |-> IF HungUp(c) THEN << >>
                               ELSE IF Ended(c) THEN down[c] ELSE down[c] \o tx[c]],
  taken   <- seen,
  cut     <- [c \in Client |-> Ended(c)],
  refused <- [c \in Client |-> FALSE]

UsesStreams == Streams!Spec

By(c) == {i \in 1 .. Len(log) : log[i].by = c}

(***************************************************************************)
(* What the server broadcasts in a client's name are lines of that client, *)
(* in the order it said them and none twice.                               *)
(***************************************************************************)
EchoesInOrder ==
  \A c \in Client : \E position \in [By(c) -> 1 .. said[c]] :
    /\ \A i \in By(c) : Says[c][position[i]] = log[i].text
    /\ \A i, j \in By(c) : j < i => position[j] < position[i]

Chatting(c) == user[c] = "chatting" /\ ~cut[c] /\ ~exit

(***************************************************************************)
(* On non-blocking sockets, a user who waits for the echo of each line     *)
(* before he types the next one gets every line echoed, whatever the       *)
(* others do, also those that stop reading.                                *)
(***************************************************************************)
PatientAreEchoed ==
  \A c \in Patient : \A n \in 1 .. Len(Says[c]) :
    said[c] >= n ~> \/ [by |-> c, text |-> Says[c][n]] \in {log[i] : i \in 1 .. Len(log)}
                    \/ ~Chatting(c) \/ blocking

(***************************************************************************)
(* On non-blocking sockets, what is broadcast is shown by every client     *)
(* that was connected then, as long as it stays and goes on polling and    *)
(* the server runs, even if others have stopped reading.                   *)
(***************************************************************************)
AllAreTold ==
  \A c \in Reading : \A n \in 1 .. Len(Typed) + Cardinality(Client) :
    c \in Members /\ Len(log) - from[c] >= n ~>
      Len(seen[c]) >= n \/ ~Chatting(c) \/ blocking

(***************************************************************************)
(* What a comment of the code says and the code does not do: every message *)
(* a poll takes from a client is echoed.                                   *)
(***************************************************************************)
EveryMessageIsEchoed ==
  [][\A c \in Client : Echo /\ ready'[c] = "OPEN" =>
       Len(log') - Len(log) >= Len(up[c]) - Len(up'[c])]_vars

============================================================================
