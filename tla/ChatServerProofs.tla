-------------------------- MODULE ChatServerProofs --------------------------
(***************************************************************************)
(* Proofs about ChatServer: the list of connections is sound, and whatever *)
(* the clients, the console and the network do, all clients are shown the  *)
(* same conversation.                                                      *)
(***************************************************************************)
EXTENDS ChatServer, SequenceLemmas, FiniteSetTheorems

----------------------------------------------------------------------------
(***************************************************************************)
(* Types.  The server's loop over the connections stays inside the list    *)
(* only because no connection is added or erased while it runs.            *)
(***************************************************************************)
Distinct(s) == \A i, j \in 1 .. Len(s) : s[i] = s[j] => i = j

ListInv ==
  /\ Distinct(mClients)
  /\ pc = "echo" => at <= Len(mClients)
  /\ pc = "done" => mClients = << >> /\ backlog = {}

\* Where a connection is, from the client's connect to its end.
ConnectionInv ==
  \A c \in Client :
    /\ user[c] = "away" => c \notin backlog /\ ready[c] = "none"
    /\ c \in backlog => ready[c] = "none"
    /\ c \in Members => ready[c] # "none"
    /\ ready[c] = "OPEN" => c \in Members
    /\ ready[c] = "CLOSED" => HungUp(c) \/ pc \in {"quit", "done"}
    /\ Len(down[c]) <= Window

----------------------------------------------------------------------------
\* A queue cut after its first n messages.
LEMMA CutType ==
  ASSUME NEW S, NEW s \in Seq(S), NEW n \in Nat, n <= Len(s)
  PROVE  /\ First(s, n) \in Seq(S) /\ Rest(s, n) \in Seq(S)
         /\ Len(First(s, n)) = n /\ Len(Rest(s, n)) = Len(s) - n
         /\ First(s, n) \o Rest(s, n) = s
<1>1. n \in 0 .. Len(s)
  BY LenProperties
<1> QED
  BY <1>1, PartsType, PartsTogether DEF First, Rest

LEMMA Constants ==
  /\ Typed \in Seq(Line) /\ Len(Typed) \in Nat
  /\ \A i \in 1 .. Len(Typed) : Typed[i] \in Line
  /\ "console" \notin Client /\ Window \in Nat
  /\ \A c \in Client : /\ Says[c] \in Seq(Line) /\ Len(Says[c]) \in Nat
                       /\ \A i \in 1 .. Len(Says[c]) : Says[c][i] \in Line
<1>1. ASSUME NEW c \in Client
      PROVE  Says[c] \in Seq(Line)
  BY ChatAssumption
<1> QED
  BY <1>1, ChatAssumption, ElementOfSeq, LenProperties

\* The list of connections and the set of its members.
Elements(s) == {s[i] : i \in 1 .. Len(s)}

LEMMA MembersType ==
  ASSUME TypeOK
  PROVE  /\ Len(mClients) \in Nat /\ mClients \in Seq(Client)
         /\ \A i \in 1 .. Len(mClients) : mClients[i] \in Client /\ mClients[i] \in Members
         /\ Members \subseteq Client /\ Members = Elements(mClients)
<1>1. mClients \in Seq(Client)
  BY DEF TypeOK
<1>2. \A i \in 1 .. Len(mClients) : mClients[i] \in Client
  BY <1>1, ElementOfSeq
<1> QED
  BY <1>1, <1>2, LenProperties DEF Members, Elements

\* In a list without repetition there are as many members as places.
LEMMA DistinctCount ==
  ASSUME NEW S, NEW s \in Seq(S), Distinct(s)
  PROVE  Cardinality(Elements(s)) = Len(s)
<1> DEFINE n == Len(s)
<1>1. n \in Nat
  BY LenProperties
<1>2. s \in Bijection(1 .. n, Elements(s))
  <2>1. s \in [1 .. n -> Elements(s)]
    BY LenProperties DEF Elements
  <2> QED
    BY <2>1 DEF Bijection, Injection, Surjection, IsInjective, Elements, Distinct
<1>3. ExistsBijection(1 .. n, Elements(s))
  BY <1>2 DEF ExistsBijection
<1> HIDE DEF n
<1>4. IsFiniteSet(1 .. n) /\ Cardinality(1 .. n) = n
  BY <1>1, FS_Interval
<1>5. Cardinality(Elements(s)) = n
  BY <1>3, <1>4, FS_Bijection
<1> QED
  BY <1>5 DEF n

\* A new connection goes to the end of the list.
LEMMA AppendDistinct ==
  ASSUME NEW S, NEW s \in Seq(S), Distinct(s), NEW e \in S, e \notin Elements(s)
  PROVE  /\ Append(s, e) \in Seq(S) /\ Len(Append(s, e)) = Len(s) + 1
         /\ Distinct(Append(s, e)) /\ Elements(Append(s, e)) = Elements(s) \cup {e}
<1> DEFINE t == Append(s, e)
<1>1. /\ t \in Seq(S) /\ Len(s) \in Nat /\ Len(t) = Len(s) + 1
      /\ t[Len(s) + 1] = e /\ \A i \in 1 .. Len(s) : t[i] = s[i]
  BY AppendProperties, LenProperties
<1> HIDE DEF t
<1>2. \A i \in 1 .. Len(t) : i \in 1 .. Len(s) \/ i = Len(s) + 1
  BY <1>1
<1>3. \A i \in 1 .. Len(s) : s[i] # e
  BY DEF Elements
<1>4. Distinct(t)
  BY <1>1, <1>2, <1>3 DEF Distinct
<1>5. Elements(t) = Elements(s) \cup {e}
  <2>1. \A i \in 1 .. Len(s) : i \in 1 .. Len(t)
    BY <1>1
  <2>2. Len(s) + 1 \in 1 .. Len(t)
    BY <1>1
  <2> QED
    BY <1>1, <1>2, <2>1, <2>2 DEF Elements
<1> QED
  BY <1>1, <1>4, <1>5 DEF t

\* A connection is erased, and those after it move up.
LEMMA RemoveDistinct ==
  ASSUME NEW S, NEW s \in Seq(S), Distinct(s), NEW i \in 1 .. Len(s)
  PROVE  /\ RemoveAt(s, i) \in Seq(S) /\ Len(RemoveAt(s, i)) = Len(s) - 1
         /\ Distinct(RemoveAt(s, i)) /\ Elements(RemoveAt(s, i)) = Elements(s) \ {s[i]}
<1> DEFINE before == SubSeq(s, 1, i - 1)
           after == SubSeq(s, i + 1, Len(s))
           t == before \o after
<1>1. Len(s) \in Nat /\ i - 1 \in 0 .. Len(s) /\ i \in 0 .. Len(s)
  BY LenProperties
<1>2. /\ before \in Seq(S) /\ Len(before) = i - 1
      /\ after \in Seq(S) /\ Len(after) = Len(s) - i
  BY <1>1, PartsType
<1>3. \A j \in 1 .. i - 1 : before[j] = s[j]
  BY <1>1, <1>2, ElementOfSeq, SubSeqProperties
<1>4. \A j \in 1 .. Len(s) - i : after[j] = s[i + j]
  BY <1>1, <1>2, ElementOfSeq, SubSeqProperties
<1> HIDE DEF before, after
<1>5. /\ t \in Seq(S) /\ Len(t) = Len(s) - 1
      /\ \A j \in 1 .. i - 1 : t[j] = before[j]
      /\ \A j \in 1 .. Len(s) - i : t[i - 1 + j] = after[j]
  <2>1. before \in Seq(S) /\ after \in Seq(S)
    BY <1>2
  <2>2. /\ t \in Seq(S) /\ Len(t) = Len(before) + Len(after)
        /\ \A j \in 1 .. Len(before) : t[j] = before[j]
        /\ \A j \in 1 .. Len(after) : t[Len(before) + j] = after[j]
    BY <2>1, ConcatElements
  <2> HIDE DEF t
  <2> QED
    BY <1>1, <1>2, <2>2
<1> HIDE DEF t
<1>6. \A j \in 1 .. i - 1 : t[j] = s[j]
  BY <1>1, <1>3, <1>5
<1>7. ASSUME NEW j \in i .. Len(s) - 1
      PROVE  t[j] = s[j + 1]
  <2> DEFINE k == j - (i - 1)
  <2>1. k \in 1 .. Len(s) - i /\ i - 1 + k = j /\ i + k = j + 1
    BY <1>1
  <2> HIDE DEF k
  <2>2. t[i - 1 + k] = after[k] /\ after[k] = s[i + k]
    BY <1>4, <1>5, <2>1
  <2> QED
    BY <2>1, <2>2
<1>8. \A j \in 1 .. Len(t) : j \in 1 .. i - 1 \/ j \in i .. Len(s) - 1
  BY <1>1, <1>5
<1>9. Distinct(t)
  <2> DEFINE place(j) == IF j <= i - 1 THEN j ELSE j + 1
  <2>1. \A j \in 1 .. Len(t) : t[j] = s[place(j)] /\ place(j) \in 1 .. Len(s)
    BY <1>1, <1>6, <1>7, <1>8
  <2>2. \A j, k \in 1 .. Len(t) : place(j) = place(k) => j = k
    BY <1>1, <1>5
  <2> HIDE DEF place
  <2> QED
    BY <2>1, <2>2 DEF Distinct
<1>10. Elements(t) \subseteq Elements(s) \ {s[i]}
  <2> SUFFICES ASSUME NEW j \in 1 .. Len(t)
               PROVE  t[j] \in Elements(s) /\ t[j] # s[i]
    BY DEF Elements
  <2>1. CASE j \in 1 .. i - 1
    BY <1>1, <1>6, <2>1 DEF Elements, Distinct
  <2>2. CASE j \in i .. Len(s) - 1
    BY <1>1, <1>7, <2>2 DEF Elements, Distinct
  <2> QED
    BY <1>8, <2>1, <2>2
<1>11. Elements(s) \ {s[i]} \subseteq Elements(t)
  <2> SUFFICES ASSUME NEW j \in 1 .. Len(s), j # i
               PROVE  s[j] \in Elements(t)
    BY DEF Elements
  <2>1. CASE j < i
    <3>1. j \in 1 .. Len(t) /\ t[j] = s[j]
      BY <1>1, <1>5, <1>6, <2>1
    <3> QED
      BY <3>1 DEF Elements
  <2>2. CASE j > i
    <3>1. j - 1 \in i .. Len(s) - 1 /\ j - 1 \in 1 .. Len(t) /\ j - 1 + 1 = j
      BY <1>1, <1>5, <2>2
    <3>2. t[j - 1] = s[j]
      BY <1>7, <3>1
    <3> QED
      BY <3>1, <3>2 DEF Elements
  <2> QED
    BY <1>1, <2>1, <2>2
<1> QED
  BY <1>5, <1>9, <1>10, <1>11 DEF RemoveAt, t, before, after

----------------------------------------------------------------------------
\* What the actions do to the queues.
QueuesType ==
  /\ tx \in [Client -> Queue] /\ down \in [Client -> Queue] /\ seen \in [Client -> Queue]
  /\ up \in [Client -> Seq(Line)] /\ log \in Queue

LEMMA QueueTypes ==
  ASSUME TypeOK, NEW c \in Client
  PROVE  /\ tx[c] \in Queue /\ down[c] \in Queue /\ seen[c] \in Queue /\ log \in Queue
         /\ up[c] \in Seq(Line) /\ Len(tx[c]) \in Nat /\ Len(down[c]) \in Nat
         /\ Len(seen[c]) \in Nat /\ Len(log) \in Nat /\ Len(up[c]) \in Nat
  BY LenProperties DEF TypeOK, Queue

\* A message goes to the log and to the transmit buffer of every member.
LEMMA BroadcastMoves ==
  ASSUME TypeOK, NEW message \in Message, NEW queues \in [Client -> Queue],
         Broadcast(message, queues)
  PROVE  /\ tx' \in [Client -> Queue] /\ log' \in Queue
         /\ log' = Append(log, message) /\ Len(log') = Len(log) + 1
         /\ \A c \in Client : tx'[c] = IF c \in Members THEN Append(queues[c], message) ELSE queues[c]
<1>1. /\ tx' = [c \in Client |-> IF c \in Members THEN Append(queues[c], message) ELSE queues[c]]
      /\ log' = Append(log, message)
  BY DEF Broadcast
<1>2. ASSUME NEW c \in Client
      PROVE  Append(queues[c], message) \in Queue
  BY AppendProperties DEF Queue
<1>3. log' \in Queue /\ Len(log') = Len(log) + 1
  BY <1>1, AppendProperties DEF TypeOK, Queue
<1> QED
  BY <1>1, <1>2, <1>3

\* A poll that finds the connection standing: of n messages it takes the last is broadcast.
\* n messages of c are taken and k are sent to it, which leaves the transmit buffers queues.
PollGives(c, n, k, queues) ==
  /\ up' \in [Client -> Seq(Line)] /\ up'[c] = Rest(up[c], n)
  /\ \A d \in Client \ {c} : up'[d] = up[d] /\ down'[d] = down[d]
  /\ down' \in [Client -> Queue] /\ down'[c] = down[c] \o First(tx[c], k)
  /\ Len(down'[c]) <= Window
  /\ ready' = ready
  /\ tx' \in [Client -> Queue] /\ log' \in Queue
  /\ queues[c] = Rest(tx[c], k)
  /\ \A d \in Client \ {c} : queues[d] = tx[d]
  /\ \/ n = 0 /\ tx' = queues /\ log' = log
     \/ /\ n > 0
        /\ [by |-> c, text |-> up[c][n]] \in Message
        /\ Broadcast([by |-> c, text |-> up[c][n]], queues)

\* As much is sent to a client as the kernel has room for.
LEMMA SentMoves ==
  ASSUME TypeOK, NEW c \in Client, Len(down[c]) <= Window
  PROVE  LET k == Sendable(c) IN
         /\ k \in 0 .. Len(tx[c])
         /\ Unsent(c, k) \in [Client -> Queue] /\ Unsent(c, k)[c] = Rest(tx[c], k)
         /\ \A d \in Client \ {c} : Unsent(c, k)[d] = tx[d]
         /\ \A after : after = [down EXCEPT ![c] = @ \o First(tx[c], k)] =>
              /\ after \in [Client -> Queue] /\ after[c] = down[c] \o First(tx[c], k)
              /\ Len(after[c]) <= Window /\ \A d \in Client \ {c} : after[d] = down[d]
<1> DEFINE k == Sendable(c)
<1>1. /\ tx[c] \in Queue /\ down[c] \in Queue /\ Len(tx[c]) \in Nat /\ Len(down[c]) \in Nat
  BY QueueTypes
<1>2. k \in 0 .. Len(tx[c]) /\ k + Len(down[c]) <= Window
  <2> DEFINE toSend == Len(tx[c])
             sentBefore == Len(down[c])
  <2>1. Window \in Nat /\ toSend \in Nat /\ sentBefore \in Nat /\ sentBefore <= Window
    BY <1>1, Constants
  <2>2. k = IF toSend <= Window - sentBefore THEN toSend ELSE Window - sentBefore
    BY DEF Sendable
  <2> HIDE DEF k, toSend, sentBefore
  <2>3. k \in 0 .. toSend /\ k + sentBefore <= Window
    BY <2>1, <2>2
  <2> QED
    BY <2>3 DEF toSend, sentBefore
<1> HIDE DEF k
<1>3. /\ Rest(tx[c], k) \in Queue /\ First(tx[c], k) \in Queue /\ Len(First(tx[c], k)) = k
  <2>1. tx[c] \in Seq(Message) /\ k \in Nat /\ k <= Len(tx[c])
    BY <1>1, <1>2 DEF Queue
  <2> QED
    BY <2>1, CutType DEF Queue
<1>4. /\ down[c] \o First(tx[c], k) \in Queue
      /\ Len(down[c] \o First(tx[c], k)) = Len(down[c]) + k
  BY <1>1, <1>3, ConcatProperties DEF Queue
<1>5. ASSUME NEW after, after = [down EXCEPT ![c] = @ \o First(tx[c], k)]
      PROVE  /\ after \in [Client -> Queue] /\ after[c] = down[c] \o First(tx[c], k)
             /\ Len(after[c]) <= Window /\ \A d \in Client \ {c} : after[d] = down[d]
  <2> DEFINE more == down[c] \o First(tx[c], k)
             before == Len(down[c])
  <2>1. more \in Queue /\ after = [down EXCEPT ![c] = more] /\ down \in [Client -> Queue]
    BY <1>4, <1>5 DEF TypeOK
  <2>2. Len(more) = before + k /\ before \in Nat /\ Window \in Nat
        /\ k \in Nat /\ k + before <= Window
    BY <1>1, <1>2, <1>4, Constants
  <2> HIDE DEF more, before
  <2>3. Len(more) <= Window
    BY <2>2
  <2>4. after \in [Client -> Queue] /\ after[c] = more /\ \A d \in Client \ {c} : after[d] = down[d]
    BY <2>1
  <2> QED
    BY <2>3, <2>4 DEF more
<1>6. /\ Unsent(c, k) \in [Client -> Queue] /\ Unsent(c, k)[c] = Rest(tx[c], k)
      /\ \A d \in Client \ {c} : Unsent(c, k)[d] = tx[d]
  BY <1>3 DEF Unsent, TypeOK
<1> QED
  BY <1>2, <1>5, <1>6 DEF k

LEMMA PollMoves ==
  ASSUME TypeOK, NEW c \in Client, Len(down[c]) <= Window, PollClient(c)
  PROVE  \E n \in 0 .. Len(up[c]), k \in 0 .. Len(tx[c]), queues \in [Client -> Queue] :
           PollGives(c, n, k, queues)
<1> DEFINE k == Sendable(c)
           queues == Unsent(c, k)
<1>1. PICK n \in 0 .. Len(up[c]) :
        /\ Consume(c, n)
        /\ down' = [down EXCEPT ![c] = @ \o First(tx[c], k)]
        /\ IF Kept(c, n) = << >>
             THEN tx' = Unsent(c, k) /\ UNCHANGED log
             ELSE Broadcast([by |-> c, text |-> Kept(c, n)[1]], Unsent(c, k))
        /\ UNCHANGED ready
  BY DEF PollClient
<1>2. up[c] \in Seq(Line) /\ Len(up[c]) \in Nat
  BY QueueTypes
<1>3. /\ k \in 0 .. Len(tx[c])
      /\ queues \in [Client -> Queue] /\ queues[c] = Rest(tx[c], k)
      /\ \A d \in Client \ {c} : queues[d] = tx[d]
      /\ down' \in [Client -> Queue] /\ down'[c] = down[c] \o First(tx[c], k)
      /\ Len(down'[c]) <= Window /\ \A d \in Client \ {c} : down'[d] = down[d]
  BY <1>1, SentMoves
<1>4. up' = [up EXCEPT ![c] = Rest(up[c], n)] /\ Rest(up[c], n) \in Seq(Line)
  BY <1>1, <1>2, CutType DEF Consume
<1>5. up' \in [Client -> Seq(Line)] /\ up'[c] = Rest(up[c], n) /\ \A d \in Client \ {c} : up'[d] = up[d]
  BY <1>4 DEF TypeOK
<1> HIDE DEF k, queues
<1>6. \/ Kept(c, n) = << >> /\ tx' = queues /\ log' = log
      \/ Kept(c, n) # << >> /\ Broadcast([by |-> c, text |-> Kept(c, n)[1]], queues)
  BY <1>1 DEF queues
<1>7. CASE n = 0
  <2>1. tx' = queues /\ log' = log
    BY <1>6, <1>7 DEF Kept
  <2>2. tx' \in [Client -> Queue] /\ log' \in Queue
    BY <1>3, <2>1 DEF TypeOK
  <2>3. PollGives(c, n, k, queues)
    BY <1>1, <1>3, <1>5, <1>7, <2>1, <2>2 DEF PollGives
  <2> QED
    BY <1>3, <2>3
<1>8. CASE n > 0
  <2>1. up[c][n] \in Line
    BY <1>2, <1>8, ElementOfSeq
  <2>2. [by |-> c, text |-> up[c][n]] \in Message
    BY <2>1 DEF Message
  <2>3. Broadcast([by |-> c, text |-> up[c][n]], queues)
    <3>1. Kept(c, n) = <<up[c][n]>>
      BY <1>8 DEF Kept
    <3> QED
      BY <1>6, <3>1
  <2>4. tx' \in [Client -> Queue] /\ log' \in Queue
    BY <1>3, <2>2, <2>3, BroadcastMoves
  <2>5. PollGives(c, n, k, queues)
    BY <1>1, <1>3, <1>5, <1>8, <2>2, <2>3, <2>4 DEF PollGives
  <2> QED
    BY <1>3, <2>5
<1>9. n = 0 \/ n > 0
  BY <1>2
<1> QED
  BY <1>7, <1>8, <1>9, Zenon

\* A poll of the destructor, which sends k messages and closes the connection after the last.
FlushGives(c, k) ==
  /\ down' \in [Client -> Queue] /\ down'[c] = down[c] \o First(tx[c], k)
  /\ Len(down'[c]) <= Window
  /\ tx' \in [Client -> Queue] /\ tx'[c] = Rest(tx[c], k)
  /\ ready' \in [Client -> {"none", "OPEN", "CLOSED"}]
  /\ ready'[c] = IF tx'[c] = << >> THEN "CLOSED" ELSE ready[c]
  /\ \A d \in Client \ {c} : down'[d] = down[d] /\ tx'[d] = tx[d] /\ ready'[d] = ready[d]
  /\ up' = up /\ log' = log

LEMMA FlushMoves ==
  ASSUME TypeOK, NEW c \in Client, Len(down[c]) <= Window, Flush(c)
  PROVE  \E k \in 0 .. Len(tx[c]) : FlushGives(c, k)
<1> DEFINE k == Sendable(c)
<1>1. /\ down' = [down EXCEPT ![c] = @ \o First(tx[c], k)] /\ tx' = Unsent(c, k)
      /\ ready' = [ready EXCEPT ![c] = IF tx'[c] = << >> THEN "CLOSED" ELSE @]
      /\ up' = up /\ log' = log
  BY DEF Flush
<1>2. /\ k \in 0 .. Len(tx[c])
      /\ tx' \in [Client -> Queue] /\ tx'[c] = Rest(tx[c], k)
      /\ \A d \in Client \ {c} : tx'[d] = tx[d]
      /\ down' \in [Client -> Queue] /\ down'[c] = down[c] \o First(tx[c], k)
      /\ Len(down'[c]) <= Window /\ \A d \in Client \ {c} : down'[d] = down[d]
  BY <1>1, SentMoves
<1>3. /\ ready' \in [Client -> {"none", "OPEN", "CLOSED"}]
      /\ ready'[c] = IF tx'[c] = << >> THEN "CLOSED" ELSE ready[c]
      /\ \A d \in Client \ {c} : ready'[d] = ready[d]
  BY <1>1 DEF TypeOK
<1> HIDE DEF k
<1>4. FlushGives(c, k)
  BY <1>1, <1>2, <1>3 DEF FlushGives
<1> QED
  BY <1>2, <1>4

\* A poll that finds it closed or broken, whatever was on its way.
LEMMA LoseMoves ==
  ASSUME TypeOK, NEW c \in Client, LoseClient(c)
  PROVE  /\ HungUp(c) /\ tx' = tx /\ log' = log
         /\ ready' \in [Client -> {"none", "OPEN", "CLOSED"}] /\ ready'[c] = "CLOSED"
         /\ up' \in [Client -> Seq(Line)] /\ up'[c] = << >>
         /\ down' \in [Client -> Queue] /\ down'[c] = << >>
         /\ \A d \in Client \ {c} : ready'[d] = ready[d] /\ up'[d] = up[d] /\ down'[d] = down[d]
<1>1. << >> \in Queue /\ << >> \in Seq(Line)
  BY EmptySeq DEF Queue
<1> QED
  BY <1>1 DEF LoseClient, TypeOK

----------------------------------------------------------------------------
\* Every action keeps the types, the list and what is known of the connections.
Basic == TypeOK /\ ListInv /\ ConnectionInv

LEMMA InitBasic == Init => Basic
<1> SUFFICES ASSUME Init PROVE Basic
  OBVIOUS
<1>1. mClients = << >> /\ at = 1 /\ Len(<< >>) = 0 /\ << >> \in Seq(Client)
  BY EmptySeq DEF Init
<1>2. Members = {}
  BY <1>1 DEF Members
<1>3. Distinct(mClients)
  BY <1>1 DEF Distinct
<1>4. Cardinality(Members) = Len(mClients)
  BY <1>1, <1>2, FS_EmptySet
<1>5. << >> \in Queue /\ << >> \in Seq(Line)
  BY EmptySeq DEF Queue
<1>6. TypeOK
  <2>1. at \in 1 .. Len(mClients) + 1 /\ mClients \in Seq(Client)
    BY <1>1
  <2>2. taken \in 0 .. Len(Typed) /\ \A c \in Client : said[c] <= Len(Says[c])
    BY Constants DEF Init
  <2>3. log = << >> /\ Len(log) = 0 /\ \A c \in Client : from[c] = 0
    BY <1>1 DEF Init
  <2>4. /\ tx \in [Client -> Queue] /\ down \in [Client -> Queue] /\ seen \in [Client -> Queue]
        /\ up \in [Client -> Seq(Line)] /\ log \in Queue
    BY <1>5 DEF Init
  <2>5. /\ ready \in [Client -> {"none", "OPEN", "CLOSED"}]
        /\ user \in [Client -> {"away", "chatting", "gone"}] /\ cut \in [Client -> BOOLEAN]
        /\ said \in [Client -> Nat] /\ from \in [Client -> Nat]
    BY DEF Init
  <2>6. /\ pc \in {"accept", "input", "reap", "echo", "quit", "done"} /\ exit \in BOOLEAN
        /\ listening \in BOOLEAN /\ blocking \in BOOLEAN /\ backlog \subseteq Client
    BY DEF Init, server_connect, AcceptedSockets
  <2>7. \A c \in Client : from[c] <= Len(log)
    BY <2>3
  <2> QED
    BY <1>4, <2>1, <2>2, <2>4, <2>5, <2>6, <2>7 DEF TypeOK
<1>7. ListInv
  BY <1>3 DEF Init, ListInv
<1>8. ConnectionInv
  BY <1>1, <1>2, Constants DEF Init, ConnectionInv
<1> QED
  BY <1>6, <1>7, <1>8 DEF Basic

LEMMA AcceptBasic == ASSUME Basic, Accept PROVE Basic'
<1> USE DEF Basic
<1>1. CASE UNCHANGED <<mClients, ready, from, backlog>>
  <2>1. pc' = "input" /\ UNCHANGED <<listening, blocking, exit, taken, at, tx, up, down, client, log>>
    BY DEF Accept
  <2>2. TypeOK'
    BY <1>1, <2>1 DEF TypeOK, Members, client
  <2>3. ListInv'
    BY <1>1, <2>1 DEF ListInv
  <2>4. ConnectionInv'
    BY <1>1, <2>1 DEF ConnectionInv, Members, HungUp, client, Accept
  <2> QED
    BY <2>2, <2>3, <2>4
<1>2. ASSUME NEW c \in Client, pollServer(c),
             mClients' = Append(mClients, c), ready' = [ready EXCEPT ![c] = "OPEN"],
             from' = [from EXCEPT ![c] = Len(log)], backlog' = backlog \ {c}
      PROVE  Basic'
  <2>1. /\ pc = "accept" /\ pc' = "input"
        /\ UNCHANGED <<listening, blocking, exit, taken, at, tx, up, down, user, cut, said, seen, log>>
    BY DEF Accept, client
  <2>2. c \in backlog /\ ready[c] = "none" /\ user[c] # "away" /\ c \notin Members
    BY <1>2 DEF pollServer, ConnectionInv
  <2>3. /\ mClients' \in Seq(Client) /\ Len(mClients') = Len(mClients) + 1
        /\ Distinct(mClients') /\ Elements(mClients') = Members \cup {c}
    BY <1>2, <2>2, MembersType, AppendDistinct DEF ListInv
  <2>4. Members' = Members \cup {c} /\ Cardinality(Members') = Len(mClients')
    BY <2>3, DistinctCount DEF Members, Elements
  <2>5. at \in 1 .. Len(mClients') + 1
    BY <2>3, MembersType DEF TypeOK
  <2>6. /\ ready' \in [Client -> {"none", "OPEN", "CLOSED"}] /\ ready'[c] = "OPEN"
        /\ \A d \in Client \ {c} : ready'[d] = ready[d]
    BY <1>2 DEF TypeOK
  <2>7. from' \in [Client -> Nat] /\ \A d \in Client : from'[d] <= Len(log)
    BY <1>2, LenProperties DEF TypeOK, Queue
  <2>8. backlog' \subseteq Client
    BY <1>2 DEF TypeOK
  <2>9. TypeOK'
    BY <2>1, <2>3, <2>4, <2>5, <2>6, <2>7, <2>8 DEF TypeOK
  <2>10. ListInv'
    BY <2>1, <2>3 DEF ListInv
  <2>11. ConnectionInv'
    BY <1>2, <2>1, <2>2, <2>4, <2>6 DEF ConnectionInv, HungUp
  <2> QED
    BY <2>9, <2>10, <2>11
<1> QED
  BY <1>1, <1>2 DEF Accept

LEMMA InputBasic == ASSUME Basic, Input PROVE Basic'
<1> USE DEF Basic
<1>1. /\ pc = "input" /\ pc' = "reap"
      /\ UNCHANGED <<listening, blocking, mClients, at, ready, backlog, up, down, user, cut, said, seen, from>>
  BY DEF Input, client
<1>2. /\ taken' \in 0 .. Len(Typed) /\ exit' \in BOOLEAN
      /\ tx' \in [Client -> Queue] /\ log' \in Queue /\ Len(log') >= Len(log)
  <2>1. CASE UNCHANGED <<taken, exit, tx, log>>
    BY <2>1, LenProperties DEF TypeOK, Queue
  <2>2. CASE taken < Len(Typed) /\ taken' = taken + 1
    <3>1. taken' \in 0 .. Len(Typed) /\ Typed[taken + 1] \in Line
      BY <2>2, Constants DEF TypeOK
    <3>2. CASE exit' = TRUE /\ UNCHANGED <<tx, log>>
      BY <3>1, <3>2, LenProperties DEF TypeOK, Queue
    <3>3. CASE Broadcast([by |-> "console", text |-> Typed[taken + 1]], tx) /\ UNCHANGED exit
      <4>1. [by |-> "console", text |-> Typed[taken + 1]] \in Message /\ Len(log) \in Nat
        BY <3>1, LenProperties DEF Message, TypeOK, Queue
      <4>2. /\ tx' \in [Client -> Queue] /\ log' \in Queue /\ Len(log') = Len(log) + 1
        BY <3>3, <4>1, BroadcastMoves DEF TypeOK
      <4> QED
        BY <3>1, <3>3, <4>1, <4>2 DEF TypeOK
    <3>4. CASE UNCHANGED <<taken, exit, tx, log>>
      BY <2>1, <3>4
    <3>5. \/ UNCHANGED <<taken, exit, tx, log>>
          \/ exit' = TRUE /\ UNCHANGED <<tx, log>>
          \/ Broadcast([by |-> "console", text |-> Typed[taken + 1]], tx) /\ UNCHANGED exit
      BY DEF Input
    <3> QED
      BY <3>2, <3>3, <3>4, <3>5
  <2> QED
    BY <2>1, <2>2 DEF Input
<1>3. Members' = Members
  BY <1>1 DEF Members
<1>4. \A c \in Client : from[c] <= Len(log')
  BY <1>2, LenProperties DEF TypeOK, Queue
<1>5. TypeOK'
  BY <1>1, <1>2, <1>3, <1>4 DEF TypeOK
<1>6. ListInv' /\ ConnectionInv'
  BY <1>1, <1>3 DEF ListInv, ConnectionInv, HungUp
<1> QED
  BY <1>5, <1>6

\* The first connection of a list that is not empty.
LEMMA HeadIs ==
  ASSUME TypeOK, mClients # << >>
  PROVE  1 \in 1 .. Len(mClients) /\ Head(mClients) = mClients[1]
<1>1. mClients \in Seq(Client) /\ Len(mClients) \in Nat /\ Len(mClients) # 0
  BY EmptySeq, LenProperties DEF TypeOK
<1> QED
  BY <1>1

LEMMA DropBasic == ASSUME Basic, DropClosed \/ Delete PROVE Basic'
<1> USE DEF Basic
<1>1. PICK i \in 1 .. Len(mClients) : ready[mClients[i]] = "CLOSED" /\ mClients' = RemoveAt(mClients, i)
  <2>1. CASE DropClosed
    BY <2>1, MembersType, LenProperties DEF DropClosed, Erase, IsFirstClosed, isConnected
  <2>2. CASE Delete
    BY <2>2, HeadIs DEF Delete, Erase, isConnected
  <2> QED
    BY <2>1, <2>2
<1>2. /\ pc # "echo" /\ pc # "done" /\ at' = 1
      /\ UNCHANGED <<pc, listening, blocking, exit, taken, ready, tx, backlog, up, down, user, cut, said,
                     seen, log, from>>
  BY DEF DropClosed, Delete, client
<1>3. i \in 1 .. Len(mClients) /\ mClients[i] \in Client /\ ready[mClients[i]] = "CLOSED"
  BY <1>1, MembersType
<1>4. /\ mClients' \in Seq(Client) /\ Len(mClients') = Len(mClients) - 1
      /\ Distinct(mClients') /\ Elements(mClients') = Members \ {mClients[i]}
  BY <1>1, <1>3, MembersType, RemoveDistinct DEF ListInv
<1>5. Members' = Members \ {mClients[i]} /\ Cardinality(Members') = Len(mClients')
  BY <1>4, DistinctCount DEF Members, Elements
<1>6. at' \in 1 .. Len(mClients') + 1
  BY <1>2, <1>3, <1>4, MembersType
<1>7. TypeOK'
  BY <1>2, <1>4, <1>5, <1>6 DEF TypeOK
<1>8. ListInv'
  BY <1>2, <1>4 DEF ListInv
<1>9. ConnectionInv'
  BY <1>2, <1>3, <1>5 DEF ConnectionInv, HungUp
<1> QED
  BY <1>7, <1>8, <1>9

LEMMA ReapBasic == ASSUME Basic, Reap PROVE Basic'
<1> USE DEF Basic
<1>1. /\ pc = "reap" /\ at' = 1 /\ pc' = AfterClient(0)
      /\ UNCHANGED <<mClients, listening, blocking, exit, taken, ready, tx, backlog, up, down, user, cut,
                     said, seen, log, from>>
  BY DEF Reap, client
<1>2. Members' = Members /\ Len(mClients) \in Nat
  BY <1>1, MembersType DEF Members
<1>3. pc' \in {"echo", "quit", "accept"} /\ (pc' = "echo" => 1 <= Len(mClients))
  BY <1>1, <1>2 DEF AfterClient
<1>4. TypeOK'
  BY <1>1, <1>2, <1>3 DEF TypeOK
<1>5. ListInv' /\ ConnectionInv'
  BY <1>1, <1>2, <1>3 DEF ListInv, ConnectionInv, HungUp
<1> QED
  BY <1>4, <1>5

LEMMA EchoBasic == ASSUME Basic, Echo PROVE Basic'
<1> USE DEF Basic
<1> DEFINE c == mClients[at]
<1>1. /\ pc = "echo"
      /\ PollClient(c) \/ LoseClient(c)
      /\ at' = at + 1 /\ pc' = AfterClient(at)
      /\ UNCHANGED <<mClients, listening, blocking, exit, taken, backlog, user, cut, said, seen, from>>
  BY DEF Echo, client
<1>2. /\ at \in 1 .. Len(mClients) /\ Len(mClients) \in Nat
      /\ c \in Client /\ c \in Members /\ Len(down[c]) <= Window
  <2>1. at \in 1 .. Len(mClients) /\ Len(mClients) \in Nat
    BY <1>1, MembersType DEF ListInv, TypeOK
  <2>2. c \in Client /\ c \in Members
    BY <2>1, MembersType
  <2> QED
    BY <1>1, <2>1, <2>2 DEF ConnectionInv
<1> HIDE DEF c
<1>3. Members' = Members
  BY <1>1 DEF Members
<1>4. /\ at' \in 1 .. Len(mClients) + 1 /\ pc' \in {"echo", "quit", "accept"}
      /\ (pc' = "echo" => at' <= Len(mClients))
  BY <1>1, <1>2 DEF AfterClient
<1>5. /\ QueuesType' /\ Len(log') >= Len(log)
      /\ ready' \in [Client -> {"none", "OPEN", "CLOSED"}]
      /\ \A d \in Client \ {c} : ready'[d] = ready[d] /\ down'[d] = down[d]
      /\ Len(down'[c]) <= Window
      /\ ready'[c] = ready[c] \/ (ready'[c] = "CLOSED" /\ HungUp(c))
  <2>1. CASE LoseClient(c)
    <3>1. /\ HungUp(c) /\ tx' = tx /\ log' = log
          /\ ready' \in [Client -> {"none", "OPEN", "CLOSED"}] /\ ready'[c] = "CLOSED"
          /\ up' \in [Client -> Seq(Line)] /\ down' \in [Client -> Queue] /\ down'[c] = << >>
          /\ \A d \in Client \ {c} : ready'[d] = ready[d] /\ down'[d] = down[d]
      BY <1>2, <2>1, LoseMoves
    <3>2. QueuesType'
      BY <1>1, <3>1 DEF QueuesType, TypeOK
    <3>3. Len(log') >= Len(log)
      BY <1>2, <3>1, QueueTypes
    <3>4. Len(down'[c]) <= Window
      BY <3>1, Constants
    <3> QED
      BY <3>1, <3>2, <3>3, <3>4
  <2>2. CASE PollClient(c)
    <3> PICK n \in 0 .. Len(up[c]), k \in 0 .. Len(tx[c]), queues \in [Client -> Queue] :
          PollGives(c, n, k, queues)
      BY <1>2, <2>2, PollMoves
    <3>1. /\ up' \in [Client -> Seq(Line)]
          /\ \A d \in Client \ {c} : up'[d] = up[d] /\ down'[d] = down[d]
          /\ down' \in [Client -> Queue] /\ Len(down'[c]) <= Window
          /\ ready' = ready
          /\ tx' \in [Client -> Queue] /\ log' \in Queue
          /\ \/ log' = log
             \/ /\ [by |-> c, text |-> up[c][n]] \in Message
                /\ Broadcast([by |-> c, text |-> up[c][n]], queues)
      BY DEF PollGives
    <3>2. Len(log') >= Len(log)
      <4>1. log' = log \/ Len(log') = Len(log) + 1
        BY <3>1, BroadcastMoves
      <4> QED
        BY <1>2, <4>1, QueueTypes
    <3>3. QueuesType'
      BY <1>1, <3>1 DEF QueuesType, TypeOK
    <3>4. ready' = ready /\ ready \in [Client -> {"none", "OPEN", "CLOSED"}]
      BY <3>1 DEF TypeOK
    <3>5. \A d \in Client \ {c} : down'[d] = down[d]
      BY <3>1
    <3>6. Len(down'[c]) <= Window
      BY <3>1
    <3> QED
      BY <3>2, <3>3, <3>4, <3>5, <3>6
  <2> QED
    BY <1>1, <2>1, <2>2
<1>6. \A d \in Client : from[d] <= Len(log')
  <2>1. Len(log) \in Nat /\ Len(log') \in Nat /\ Len(log') >= Len(log)
    BY <1>5, LenProperties DEF TypeOK, QueuesType, Queue
  <2>2. \A d \in Client : from[d] \in Nat /\ from[d] <= Len(log)
    BY DEF TypeOK
  <2> QED
    BY <2>1, <2>2
<1>7. TypeOK'
  BY <1>1, <1>3, <1>4, <1>5, <1>6 DEF TypeOK, QueuesType
<1>8. ListInv'
  BY <1>1, <1>4 DEF ListInv
<1>9. ConnectionInv'
  <2>1. pc \notin {"quit", "done"}
    BY <1>1
  <2>2. \A d \in Client : HungUp(d)' = HungUp(d)
    BY <1>1 DEF HungUp
  <2> QED
    BY <1>1, <1>2, <1>3, <1>5, <2>1, <2>2 DEF ConnectionInv
<1> QED
  BY <1>7, <1>8, <1>9

\* A poll of the destructor of the first connection.
LEMMA ClosePollBasic == ASSUME Basic, ClosePoll PROVE Basic'
<1> USE DEF Basic
<1> DEFINE c == Head(mClients)
<1>1. /\ pc = "quit" /\ mClients # << >> /\ isConnected(c)
      /\ Flush(c) \/ LoseClient(c)
      /\ UNCHANGED <<pc, mClients, at, listening, blocking, exit, taken, backlog, user, cut,
                     said, seen, from>>
  BY DEF ClosePoll, client
<1>2. c \in Client /\ c \in Members /\ Len(down[c]) <= Window
  BY <1>1, HeadIs, MembersType DEF ConnectionInv
<1> HIDE DEF c
<1>3. Members' = Members
  BY <1>1 DEF Members
<1>4. /\ QueuesType' /\ log' = log
      /\ ready' \in [Client -> {"none", "OPEN", "CLOSED"}]
      /\ \A d \in Client \ {c} : ready'[d] = ready[d] /\ down'[d] = down[d]
      /\ Len(down'[c]) <= Window
      /\ ready'[c] = ready[c] \/ ready'[c] = "CLOSED"
  <2>1. CASE LoseClient(c)
    <3>1. /\ tx' = tx /\ log' = log
          /\ ready' \in [Client -> {"none", "OPEN", "CLOSED"}] /\ ready'[c] = "CLOSED"
          /\ up' \in [Client -> Seq(Line)] /\ down' \in [Client -> Queue] /\ down'[c] = << >>
          /\ \A d \in Client \ {c} : ready'[d] = ready[d] /\ down'[d] = down[d]
      BY <1>2, <2>1, LoseMoves
    <3>2. QueuesType'
      BY <1>1, <3>1 DEF QueuesType, TypeOK
    <3>3. Len(down'[c]) <= Window
      BY <3>1, Constants
    <3> QED
      BY <3>1, <3>2, <3>3
  <2>2. CASE Flush(c)
    <3> PICK k \in 0 .. Len(tx[c]) : FlushGives(c, k)
      BY <1>2, <2>2, FlushMoves
    <3>1. QueuesType'
      BY <1>1 DEF FlushGives, QueuesType, TypeOK
    <3> QED
      BY <3>1 DEF FlushGives
  <2> QED
    BY <1>1, <2>1, <2>2
<1>5. TypeOK'
  BY <1>1, <1>3, <1>4 DEF TypeOK, QueuesType
<1>6. ListInv'
  BY <1>1 DEF ListInv
<1>7. ConnectionInv'
  <2>1. \A d \in Client : HungUp(d)' = HungUp(d)
    BY <1>1 DEF HungUp
  <2> QED
    BY <1>1, <1>2, <1>3, <1>4, <2>1 DEF ConnectionInv
<1> QED
  BY <1>5, <1>6, <1>7

LEMMA GiveUpBasic == ASSUME Basic, GiveUp PROVE Basic'
<1> USE DEF Basic
<1> DEFINE c == Head(mClients)
<1>1. /\ pc = "quit" /\ mClients # << >> /\ ready' = [ready EXCEPT ![c] = "CLOSED"]
      /\ UNCHANGED <<pc, mClients, at, listening, blocking, exit, taken, tx, backlog, up, down,
                     user, cut, said, seen, log, from>>
  BY DEF GiveUp, client
<1>2. c \in Client /\ c \in Members /\ Members' = Members
  BY <1>1, HeadIs, MembersType DEF Members
<1> HIDE DEF c
<1>3. /\ ready' \in [Client -> {"none", "OPEN", "CLOSED"}] /\ ready'[c] = "CLOSED"
      /\ \A d \in Client \ {c} : ready'[d] = ready[d]
  BY <1>1, <1>2 DEF TypeOK
<1>4. TypeOK'
  BY <1>1, <1>2, <1>3 DEF TypeOK
<1>5. ListInv' /\ ConnectionInv'
  BY <1>1, <1>2, <1>3 DEF ListInv, ConnectionInv, HungUp
<1> QED
  BY <1>4, <1>5

LEMMA QuitBasic == ASSUME Basic, Quit PROVE Basic'
<1> USE DEF Basic
<1>1. /\ pc' = "done" /\ mClients = << >> /\ backlog' = {}
      /\ UNCHANGED <<mClients, at, ready, tx, listening, blocking, exit, taken, up, down, user,
                     cut, said, seen, log, from>>
  BY DEF Quit, client
<1>2. Members' = Members
  BY <1>1 DEF Members
<1>3. TypeOK'
  BY <1>1, <1>2 DEF TypeOK
<1>4. ListInv' /\ ConnectionInv'
  BY <1>1, <1>2 DEF ListInv, ConnectionInv, HungUp
<1> QED
  BY <1>3, <1>4

LEMMA ConnectBasic == ASSUME Basic, NEW c \in Client, Connect(c) PROVE Basic'
<1> USE DEF Basic
<1>1. /\ user[c] = "away" /\ pc # "done"
      /\ user' = [user EXCEPT ![c] = "chatting"] /\ backlog' = backlog \cup {c}
      /\ UNCHANGED <<pc, exit, taken, mClients, at, ready, tx, listening, blocking, up, down, cut, said,
                     log, from, seen>>
  BY DEF Connect, server
<1>2. Members' = Members
  BY <1>1 DEF Members
<1>3. TypeOK'
  BY <1>1, <1>2 DEF TypeOK
<1>4. ListInv'
  BY <1>1 DEF ListInv
<1>5. ConnectionInv'
  <2>1. /\ user'[c] = "chatting" /\ \A d \in Client \ {c} : user'[d] = user[d]
    BY <1>1 DEF TypeOK
  <2>2. ready[c] = "none"
    BY <1>1 DEF ConnectionInv
  <2> QED
    BY <1>1, <1>2, <2>1, <2>2 DEF ConnectionInv, HungUp
<1> QED
  BY <1>3, <1>4, <1>5

\* What a client takes out of its queues or puts into them, none is longer than it was but up[c].
LEMMA SayMoves ==
  ASSUME TypeOK, NEW c \in Client, Say(c)
  PROVE  LET text == Says[c][said[c] + 1] IN
         /\ user[c] = "chatting" /\ said[c] < Len(Says[c])
         /\ said' \in [Client -> Nat] /\ said'[c] = said[c] + 1
         /\ text \in Line
         /\ up' \in [Client -> Seq(Line)]
         /\ user' \in [Client -> {"away", "chatting", "gone"}]
         /\ \A d \in Client \ {c} : said'[d] = said[d] /\ up'[d] = up[d] /\ user'[d] = user[d]
         /\ \/ user'[c] = "chatting"
            \/ user'[c] = "gone"
         /\ \/ up'[c] = up[c] /\ cut[c]
            \/ ~cut[c] /\ up'[c] = Append(up[c], text)
            \/ ~cut[c] /\ user'[c] = "gone" /\ \E n \in 0 .. Len(up[c]) + 1 : up'[c] = First(Append(up[c], text), n)
<1> DEFINE text == Says[c][said[c] + 1]
<1>1. /\ user[c] = "chatting" /\ said[c] < Len(Says[c]) /\ said' = [said EXCEPT ![c] = said[c] + 1]
      /\ Leave(c, text) \/ Send(c, text)
  BY DEF Say
<1>2. text \in Line
  BY <1>1, Constants DEF TypeOK
<1>3. /\ up[c] \in Seq(Line) /\ Append(up[c], text) \in Seq(Line)
      /\ Len(Append(up[c], text)) = Len(up[c]) + 1 /\ Len(up[c]) \in Nat
  BY <1>2, QueueTypes, AppendProperties
<1>4. /\ said' \in [Client -> Nat] /\ said'[c] = said[c] + 1
      /\ \A d \in Client \ {c} : said'[d] = said[d]
  BY <1>1 DEF TypeOK
<1> HIDE DEF text
<1>5. CASE Send(c, text)
  <2>1. /\ user' = user /\ \/ cut[c] /\ up' = up
                           \/ ~cut[c] /\ up' = [up EXCEPT ![c] = Append(up[c], text)]
    BY <1>5 DEF Send
  <2>2. user'[c] = "chatting" /\ user' \in [Client -> {"away", "chatting", "gone"}]
    BY <1>1, <2>1 DEF TypeOK
  <2>3. /\ up' \in [Client -> Seq(Line)] /\ \A d \in Client \ {c} : up'[d] = up[d]
        /\ (cut[c] /\ up'[c] = up[c]) \/ (~cut[c] /\ up'[c] = Append(up[c], text))
    BY <1>3, <2>1 DEF TypeOK
  <2> QED
    BY <1>1, <1>2, <1>4, <2>1, <2>2, <2>3 DEF text
<1>6. CASE Leave(c, text)
  <2>1. PICK n \in 0 .. Len(up[c]) + 1 :
          up' = IF cut[c] THEN up ELSE [up EXCEPT ![c] = First(Append(up[c], text), n)]
    BY <1>6 DEF Leave
  <2>2. First(Append(up[c], text), n) \in Seq(Line)
    <3>1. n \in Nat /\ n <= Len(Append(up[c], text))
      BY <1>3
    <3>2. Append(up[c], text) \in Seq(Line)
      BY <1>3
    <3> QED
      BY <3>1, <3>2, CutType
  <2>3. /\ user' \in [Client -> {"away", "chatting", "gone"}] /\ user'[c] = "gone"
        /\ \A d \in Client \ {c} : user'[d] = user[d]
    BY <1>6 DEF Leave, TypeOK
  <2>4. /\ up' \in [Client -> Seq(Line)] /\ \A d \in Client \ {c} : up'[d] = up[d]
        /\ (cut[c] /\ up'[c] = up[c]) \/ (~cut[c] /\ up'[c] = First(Append(up[c], text), n))
    BY <2>1, <2>2 DEF TypeOK
  <2> QED
    BY <1>1, <1>2, <1>4, <2>3, <2>4 DEF text
<1> QED
  BY <1>1, <1>5, <1>6

LEMMA SayBasic == ASSUME Basic, NEW c \in Client, Say(c) PROVE Basic'
<1> USE DEF Basic
<1>1. UNCHANGED <<pc, exit, taken, mClients, at, ready, tx, listening, blocking, backlog, down, cut, log,
                  from, seen>>
  BY DEF Say, server
<1>2. /\ user[c] = "chatting" /\ said' \in [Client -> Nat] /\ said'[c] = said[c] + 1
      /\ said[c] < Len(Says[c])
      /\ up' \in [Client -> Seq(Line)] /\ user' \in [Client -> {"away", "chatting", "gone"}]
      /\ \A d \in Client \ {c} : said'[d] = said[d] /\ user'[d] = user[d]
      /\ user'[c] \in {"chatting", "gone"}
  BY SayMoves
<1>3. Members' = Members
  BY <1>1 DEF Members
<1>4. \A d \in Client : said'[d] <= Len(Says[d])
  <2>1. said[c] \in Nat /\ Len(Says[c]) \in Nat /\ \A d \in Client : said[d] <= Len(Says[d])
    BY Constants DEF TypeOK
  <2>2. said'[c] <= Len(Says[c])
    BY <1>2, <2>1
  <2> QED
    BY <1>2, <2>1, <2>2
<1>5. TypeOK'
  BY <1>1, <1>2, <1>3, <1>4 DEF TypeOK
<1>6. ListInv' /\ ConnectionInv'
  BY <1>1, <1>2, <1>3 DEF ListInv, ConnectionInv, HungUp
<1> QED
  BY <1>5, <1>6

LEMMA ClientPollMoves ==
  ASSUME TypeOK, NEW c \in Client, ClientPoll(c) \/ Break(c)
  PROVE  /\ user[c] = "chatting" /\ ~cut[c]
         /\ cut' \in [Client -> BOOLEAN]
         /\ seen' \in [Client -> Queue] /\ up' \in [Client -> Seq(Line)]
         /\ down' \in [Client -> Queue] /\ down'[c] = << >>
         /\ \A d \in Client \ {c} : /\ cut'[d] = cut[d] /\ down'[d] = down[d]
                                    /\ seen'[d] = seen[d] /\ up'[d] = up[d]
         /\ \/ /\ down[c] # << >> /\ cut' = cut /\ up' = up
               /\ seen'[c] = seen[c] \o down[c]
            \/ /\ cut'[c] = TRUE /\ seen' = seen
               /\ \E n \in 0 .. Len(up[c]) : up'[c] = First(up[c], n)
<1>1. /\ seen[c] \in Queue /\ down[c] \in Queue /\ up[c] \in Seq(Line) /\ << >> \in Queue
      /\ seen[c] \o down[c] \in Queue /\ Len(up[c]) \in Nat
  BY QueueTypes, ConcatProperties, EmptySeq DEF Queue
<1>2. First(up[c], Len(up[c])) = up[c]
  BY <1>1, SubSeqFull DEF First
<1>3. CASE ClientPoll(c)
  <2>1. /\ down' = [down EXCEPT ![c] = << >>] /\ up' = up /\ user[c] = "chatting" /\ ~cut[c]
        /\ \/ down[c] # << >> /\ seen' = [seen EXCEPT ![c] = seen[c] \o down[c]] /\ cut' = cut
           \/ cut' = [cut EXCEPT ![c] = TRUE] /\ seen' = seen
    BY <1>3 DEF ClientPoll
  <2>2. /\ down' \in [Client -> Queue] /\ down'[c] = << >>
        /\ \A d \in Client \ {c} : down'[d] = down[d]
    BY <1>1, <2>1 DEF TypeOK
  <2>3. CASE down[c] # << >> /\ seen' = [seen EXCEPT ![c] = seen[c] \o down[c]] /\ cut' = cut
    BY <1>1, <2>1, <2>2, <2>3 DEF TypeOK
  <2>4. CASE cut' = [cut EXCEPT ![c] = TRUE] /\ seen' = seen
    BY <1>1, <1>2, <2>1, <2>2, <2>4 DEF TypeOK
  <2> QED
    BY <2>1, <2>3, <2>4
<1>4. CASE Break(c)
  <2>1. PICK n \in 0 .. Len(up[c]) : up' = [up EXCEPT ![c] = First(up[c], n)]
    BY <1>4 DEF Break
  <2>2. First(up[c], n) \in Seq(Line)
    BY <1>1, CutType
  <2>3. /\ user[c] = "chatting" /\ ~cut[c] /\ down' = [down EXCEPT ![c] = << >>]
        /\ cut' = [cut EXCEPT ![c] = TRUE] /\ seen' = seen
    BY <1>4 DEF Break
  <2> QED
    BY <1>1, <2>1, <2>2, <2>3 DEF TypeOK
<1> QED
  BY <1>3, <1>4

LEMMA ClientPollBasic ==
  ASSUME Basic, NEW c \in Client, ClientPoll(c) \/ Break(c)
  PROVE  Basic'
<1> USE DEF Basic
<1>1. UNCHANGED <<pc, exit, taken, mClients, at, ready, tx, listening, blocking, backlog, user, said, log,
                  from>>
  BY DEF ClientPoll, Break, server
<1>2. /\ cut' \in [Client -> BOOLEAN]
      /\ seen' \in [Client -> Queue] /\ up' \in [Client -> Seq(Line)]
      /\ down' \in [Client -> Queue] /\ down'[c] = << >>
      /\ \A d \in Client \ {c} : cut'[d] = cut[d] /\ down'[d] = down[d]
      /\ ~cut[c]
  BY ClientPollMoves
<1>3. Members' = Members
  BY <1>1 DEF Members
<1>4. TypeOK'
  BY <1>1, <1>2, <1>3 DEF TypeOK
<1>5. ListInv'
  BY <1>1 DEF ListInv
<1>6. ConnectionInv'
  <2>1. Len(<< >>) = 0 /\ 0 <= Window
    BY Constants
  <2>2. \A d \in Client : HungUp(d) => HungUp(d)'
    BY <1>1, <1>2 DEF HungUp
  <2>3. \A d \in Client : Len(down'[d]) <= Window
    <3>1. Len(down'[c]) <= Window
      BY <1>2, <2>1
    <3> QED
      BY <1>2, <3>1 DEF ConnectionInv
  <2> QED
    BY <1>1, <1>3, <2>2, <2>3 DEF ConnectionInv
<1> QED
  BY <1>4, <1>5, <1>6

LEMMA StutterBasic == ASSUME Basic, UNCHANGED vars PROVE Basic'
<1>1. UNCHANGED <<pc, exit, taken, mClients, at, ready, tx, listening, blocking, backlog, up, down, user, cut,
                  said, seen, log, from>>
  BY DEF vars, server, client
<1>2. Members' = Members
  BY <1>1 DEF Members
<1>3. TypeOK' /\ ListInv'
  BY <1>1, <1>2 DEF Basic, TypeOK, ListInv
<1>4. ConnectionInv'
  BY <1>1, <1>2 DEF Basic, ConnectionInv, HungUp
<1> QED
  BY <1>3, <1>4 DEF Basic

LEMMA StepBasic == Basic /\ [Next]_vars => Basic'
  BY AcceptBasic, InputBasic, DropBasic, ReapBasic, EchoBasic, ClosePollBasic, GiveUpBasic,
     QuitBasic, ConnectBasic, SayBasic, ClientPollBasic, StutterBasic
  DEF Next, Server, ClientStep

LEMMA BasicAlways == Spec => []Basic
<1>1. Init => Basic
  BY InitBasic
<1>2. Basic /\ [Next]_vars => Basic'
  BY StepBasic
<1> QED
  BY <1>1, <1>2, PTL DEF Spec

(***************************************************************************)
(* Every connection is in the list once, and the loop over the list stays  *)
(* in it, whoever connects, leaves or breaks in the middle of a round.     *)
(***************************************************************************)
THEOREM ListIsSound == Spec => []TypeOK
<1>1. Basic => TypeOK
  BY DEF Basic
<1> QED
  BY <1>1, BasicAlways, PTL

----------------------------------------------------------------------------
(***************************************************************************)
(* The stream to one client: s is what it has shown, d what is on its way  *)
(* and t what the server has still to send, of all that it is owed, r.     *)
(* While the connection stands nothing is missing between them; this is    *)
(* stronger than SameConversation, which says nothing of d once the client *)
(* is no longer in the list, where it goes on showing what it was sent.    *)
(***************************************************************************)
Begins(s, r) == \E u \in Queue : s \o u = r

Flow(accepted, standing, member, s, d, t, r) ==
  /\ ~accepted => s = << >> /\ d = << >> /\ t = << >>
  /\ Begins(s, r)
  /\ standing => Begins(s \o d, r)
  /\ standing /\ member => s \o (d \o t) = r

LEMMA QueueOps ==
  /\ << >> \in Queue
  /\ \A a, b \in Queue : a \o b \in Queue
  /\ \A a \in Queue : << >> \o a = a /\ a \o << >> = a
  /\ \A a \in Queue, m \in Message : Append(a, m) \in Queue /\ Append(a, m) = a \o <<m>> /\ <<m>> \in Queue
<1>1. << >> \in Queue
  BY EmptySeq DEF Queue
<1>2. \A a, b \in Queue : a \o b \in Queue
  BY ConcatProperties DEF Queue
<1>3. \A a \in Queue : << >> \o a = a /\ a \o << >> = a
  BY ConcatEmptySeq DEF Queue
<1>4. ASSUME NEW a \in Queue, NEW m \in Message
      PROVE  Append(a, m) \in Queue /\ Append(a, m) = a \o <<m>> /\ <<m>> \in Queue
  <2>1. a \in Seq(Message)
    BY DEF Queue
  <2> QED
    BY <2>1, AppendProperties, AppendIsConcat DEF Queue
<1> QED
  BY <1>1, <1>2, <1>3, <1>4

\* What begins a stream begins it when it is longer.
LEMMA BeginsLonger ==
  ASSUME NEW s \in Queue, NEW r \in Queue, NEW m \in Message, Begins(s, r)
  PROVE  Begins(s, Append(r, m))
<1>1. PICK u \in Queue : s \o u = r
  BY DEF Begins
<1>2. Append(u, m) \in Queue /\ Append(u, m) = u \o <<m>> /\ Append(r, m) = r \o <<m>> /\ <<m>> \in Queue
  BY QueueOps
<1>3. Regrouped(s, u, <<m>>)
  BY <1>2, Regroup DEF Queue
<1>4. s \o Append(u, m) = Append(r, m)
  BY <1>1, <1>2, <1>3 DEF Regrouped
<1> QED
  BY <1>2, <1>4 DEF Begins

\* A message is broadcast.
LEMMA FlowBroadcast ==
  ASSUME NEW accepted \in BOOLEAN, NEW standing \in BOOLEAN, NEW member \in BOOLEAN,
         NEW s \in Queue, NEW d \in Queue, NEW t \in Queue, NEW r \in Queue,
         Flow(accepted, standing, member, s, d, t, r), member => accepted,
         NEW m \in Message, NEW u \in Queue, u = IF member THEN Append(t, m) ELSE t
  PROVE  Flow(accepted, standing, member, s, d, u, Append(r, m))
<1>1. Begins(s, Append(r, m))
  BY BeginsLonger DEF Flow
<1>2. standing => Begins(s \o d, Append(r, m))
  BY BeginsLonger, QueueOps DEF Flow
<1>3. ASSUME standing, member
      PROVE  s \o (d \o Append(t, m)) = Append(r, m)
  <2>1. /\ Append(t, m) = t \o <<m>> /\ Append(r, m) = r \o <<m>> /\ <<m>> \in Queue
        /\ d \o t \in Queue
    BY QueueOps
  <2>2. Regrouped(d, t, <<m>>) /\ Regrouped(s, d \o t, <<m>>)
    BY <2>1, Regroup DEF Queue
  <2>3. s \o (d \o t) = r
    BY <1>3 DEF Flow
  <2> QED
    BY <2>1, <2>2, <2>3 DEF Regrouped
<1> QED
  BY <1>1, <1>2, <1>3 DEF Flow

\* Messages are sent to a client.
LEMMA FlowSend ==
  ASSUME NEW standing \in BOOLEAN,
         NEW s \in Queue, NEW d \in Queue, NEW t \in Queue, NEW r \in Queue,
         Flow(TRUE, standing, TRUE, s, d, t, r), NEW k \in 0 .. Len(t)
  PROVE  /\ First(t, k) \in Queue /\ Rest(t, k) \in Queue /\ d \o First(t, k) \in Queue
         /\ (d \o First(t, k)) \o Rest(t, k) = d \o t
         /\ Flow(TRUE, standing, TRUE, s, d \o First(t, k), Rest(t, k), r)
<1> DEFINE a == First(t, k)
           b == Rest(t, k)
<1>1. a \in Queue /\ b \in Queue /\ a \o b = t
  <2>1. t \in Seq(Message) /\ k \in Nat /\ k <= Len(t)
    BY LenProperties DEF Queue
  <2> QED
    BY <2>1, CutType DEF Queue
<1> HIDE DEF a, b
<1>2. d \o a \in Queue /\ Regrouped(d, a, b) /\ s \o (d \o a) \in Queue /\ Regrouped(s, d \o a, b)
  BY <1>1, QueueOps, Regroup DEF Queue
<1>3. (d \o a) \o b = d \o t
  BY <1>1, <1>2 DEF Regrouped
<1>4. ASSUME standing
      PROVE  s \o ((d \o a) \o b) = r /\ Begins(s \o (d \o a), r)
  <2>1. s \o ((d \o a) \o b) = r
    BY <1>3, <1>4 DEF Flow
  <2> QED
    BY <1>1, <1>2, <2>1 DEF Regrouped, Begins
<1>5. Flow(TRUE, standing, TRUE, s, d \o a, b, r)
  BY <1>4 DEF Flow
<1> QED
  BY <1>1, <1>2, <1>3, <1>5 DEF a, b

\* A client takes out and shows what has arrived.
LEMMA FlowShow ==
  ASSUME NEW accepted \in BOOLEAN, NEW member \in BOOLEAN,
         NEW s \in Queue, NEW d \in Queue, NEW t \in Queue, NEW r \in Queue,
         Flow(accepted, TRUE, member, s, d, t, r)
  PROVE  Flow(accepted, TRUE, member, s \o d, << >>, t, r)
<1>1. s \o d \in Queue /\ Regrouped(s, d, t) /\ (s \o d) \o << >> = s \o d /\ << >> \o t = t
  BY QueueOps, Regroup DEF Queue
<1>2. ~accepted => s \o d = << >> /\ t = << >>
  BY QueueOps DEF Flow
<1>3. Begins(s \o d, r) /\ Begins((s \o d) \o << >>, r)
  BY <1>1 DEF Flow
<1>4. member => (s \o d) \o (<< >> \o t) = r
  BY <1>1 DEF Flow, Regrouped
<1> QED
  BY <1>2, <1>3, <1>4 DEF Flow

\* A connection leaves the list, ends, or loses what was on its way.
LEMMA FlowEnds ==
  ASSUME NEW accepted \in BOOLEAN, NEW standing \in BOOLEAN, NEW member \in BOOLEAN,
         NEW s, NEW d, NEW t, NEW r,
         Flow(accepted, standing, member, s, d, t, r),
         NEW still \in BOOLEAN, NEW within \in BOOLEAN, still => standing, within => member,
         NEW d1, NEW t1, d1 = d \/ (~still /\ (~accepted => d1 = << >>)),
         t1 = t \/ ((~still \/ ~within) /\ (~accepted => t1 = << >>))
  PROVE  Flow(accepted, still, within, s, d1, t1, r)
  BY DEF Flow

----------------------------------------------------------------------------
\* All that a client is owed: what was broadcast since it was accepted.
Owed(c) == Rest(log, from[c])

StreamOf(c) ==
  Flow(ready[c] # "none", ~HungUp(c), c \in Members, seen[c], down[c], tx[c], Owed(c))

\* Nothing is broadcast to a client before it is accepted, nor counted as owed to it.
StreamInv == \A c \in Client : StreamOf(c)

LEMMA OwedType ==
  ASSUME TypeOK, NEW c \in Client
  PROVE  /\ Owed(c) \in Queue
         /\ \A m \in Message : log' = Append(log, m) /\ from' = from => Owed(c)' = Append(Owed(c), m)
<1>1. log \in Seq(Message) /\ from[c] \in 0 .. Len(log)
  BY LenProperties DEF TypeOK, Queue
<1>2. Owed(c) \in Queue
  BY <1>1, PartsType DEF Owed, Rest, Queue
<1>3. ASSUME NEW m \in Message, log' = Append(log, m), from' = from
      PROVE  Owed(c)' = Append(Owed(c), m)
  BY <1>1, <1>3, RestOfAppend DEF Owed, Rest
<1> QED
  BY <1>2, <1>3

LEMMA FlowTypes ==
  ASSUME TypeOK, NEW c \in Client
  PROVE  /\ seen[c] \in Queue /\ down[c] \in Queue /\ tx[c] \in Queue /\ Owed(c) \in Queue
         /\ (ready[c] # "none") \in BOOLEAN /\ (~HungUp(c)) \in BOOLEAN /\ (c \in Members) \in BOOLEAN
  BY QueueTypes, OwedType

\* A step that does not add to the stream of c, and may end it.
LEMMA StreamKept ==
  ASSUME TypeOK, NEW c \in Client, StreamOf(c),
         seen'[c] = seen[c], Owed(c)' = Owed(c),
         ready'[c] = "none" <=> ready[c] = "none",
         HungUp(c) => HungUp(c)', c \in Members' => c \in Members,
         down'[c] = down[c] \/ (HungUp(c)' /\ down'[c] = << >>),
         tx'[c] = tx[c]
  PROVE  StreamOf(c)'
<1>1. Flow(ready[c] # "none", ~HungUp(c), c \in Members, seen[c], down[c], tx[c], Owed(c))
  BY DEF StreamOf
<1>2. Flow(ready[c] # "none", ~HungUp(c)', c \in Members', seen[c], down'[c], tx[c], Owed(c))
  BY <1>1 DEF Flow
<1> QED
  BY <1>2 DEF StreamOf

LEMMA InitStreams == Init => StreamInv
<1> SUFFICES ASSUME Init, NEW c \in Client PROVE StreamOf(c)
  BY DEF StreamInv
<1>1. Members = {}
  <2>1. Len(<< >>) = 0
    OBVIOUS
  <2> QED
    BY <2>1 DEF Init, Members
<1>2. seen[c] = << >> /\ down[c] = << >> /\ tx[c] = << >> /\ ready[c] = "none"
  BY DEF Init
<1>3. << >> \in Queue /\ << >> \o << >> = << >>
  BY QueueOps
<1>4. Owed(c) = << >>
  <2>1. log = << >> /\ from[c] = 0
    BY DEF Init
  <2> QED
    BY <2>1 DEF Owed, Rest
<1>5. Begins(<< >>, << >>)
  BY <1>3 DEF Begins
<1> QED
  BY <1>1, <1>2, <1>3, <1>4, <1>5 DEF StreamOf, Flow

\* A broadcast, by the console or in the name of a client whose own queue was already sent from.
LEMMA BroadcastStreams ==
  ASSUME Basic, NEW c \in Client, NEW m \in Message,
         NEW d \in Queue, NEW t \in Queue,
         Flow(ready[c] # "none", ~HungUp(c), c \in Members, seen[c], d, t, Owed(c)),
         seen'[c] = seen[c], down'[c] = d, tx'[c] = IF c \in Members THEN Append(t, m) ELSE t,
         log' = Append(log, m), from' = from, ready' = ready,
         HungUp(c)' <=> HungUp(c), Members' = Members
  PROVE  StreamOf(c)'
<1>1. Owed(c)' = Append(Owed(c), m)
  BY OwedType DEF Basic
<1>2. c \in Members => ready[c] # "none"
  BY DEF Basic, ConnectionInv
<1>3. tx'[c] \in Queue
  BY QueueOps
<1>4. seen[c] \in Queue /\ Owed(c) \in Queue
  BY FlowTypes DEF Basic
<1>5. Flow(ready[c] # "none", ~HungUp(c), c \in Members, seen[c], d, tx'[c], Append(Owed(c), m))
  <2> DEFINE accepted == ready[c] # "none"
             standing == ~HungUp(c)
             member == c \in Members
             s == seen[c]
             r == Owed(c)
             u == tx'[c]
  <2>1. accepted \in BOOLEAN /\ standing \in BOOLEAN /\ member \in BOOLEAN
    BY FlowTypes DEF Basic
  <2>2. s \in Queue /\ r \in Queue /\ u \in Queue
    BY <1>3, <1>4
  <2>3. Flow(accepted, standing, member, s, d, t, r) /\ (member => accepted)
        /\ u = IF member THEN Append(t, m) ELSE t
    BY <1>2
  <2> HIDE DEF accepted, standing, member, s, r, u
  <2>4. Flow(accepted, standing, member, s, d, u, Append(r, m))
    BY <2>1, <2>2, <2>3, FlowBroadcast
  <2> QED
    BY <2>4 DEF accepted, standing, member, s, r, u
<1> QED
  BY <1>1, <1>5 DEF StreamOf

LEMMA AcceptStreams == ASSUME Basic, StreamInv, Accept PROVE StreamInv'
<1> USE DEF Basic
<1> SUFFICES ASSUME NEW d \in Client PROVE StreamOf(d)'
  BY DEF StreamInv
<1>1. /\ StreamOf(d) /\ UNCHANGED <<tx, down, seen, log, user, cut>>
      /\ (HungUp(d)' <=> HungUp(d))
  BY DEF StreamInv, Accept, client, HungUp
<1>2. CASE UNCHANGED <<mClients, ready, from, backlog>>
  <2>1. Members' = Members /\ Owed(d)' = Owed(d)
    BY <1>1, <1>2 DEF Members, Owed
  <2> QED
    BY <1>1, <1>2, <2>1, StreamKept
<1>3. ASSUME NEW c \in Client, pollServer(c),
             mClients' = Append(mClients, c), ready' = [ready EXCEPT ![c] = "OPEN"],
             from' = [from EXCEPT ![c] = Len(log)], backlog' = backlog \ {c}
      PROVE  StreamOf(d)'
  <2>1. c \in backlog /\ ready[c] = "none" /\ c \notin Members
    BY <1>3 DEF pollServer, ConnectionInv
  <2>2. Members' = Members \cup {c}
    BY <1>3, <2>1, MembersType, AppendDistinct DEF ListInv, Members, Elements
  <2>3. CASE d # c
    <3>1. ready'[d] = ready[d] /\ Owed(d)' = Owed(d)
      BY <1>1, <1>3, <2>3 DEF TypeOK, Owed
    <3> QED
      BY <1>1, <2>2, <2>3, <3>1, StreamKept
  <2>4. CASE d = c
    <3>1. seen[d] = << >> /\ down[d] = << >> /\ tx[d] = << >>
      BY <1>1, <2>1, <2>4 DEF StreamOf, Flow
    <3>2. Owed(d)' = << >>
      <4>1. Owed(d)' = Rest(log, Len(log)) /\ Len(log) \in Nat /\ log \in Seq(Message)
        BY <1>1, <1>3, <2>4, LenProperties DEF TypeOK, Owed, Queue
      <4>2. Len(Rest(log, Len(log))) = 0 /\ Rest(log, Len(log)) \in Seq(Message)
        BY <4>1, CutType
      <4> QED
        BY <4>1, <4>2, EmptySeq
    <3>3. << >> \in Queue /\ << >> \o << >> = << >>
      BY QueueOps
    <3>4. Begins(<< >>, << >>)
      BY <3>3 DEF Begins
    <3>5. ready'[d] # "none"
      BY <1>3, <2>4 DEF TypeOK
    <3> QED
      BY <1>1, <3>1, <3>2, <3>3, <3>4, <3>5 DEF StreamOf, Flow
  <2> QED
    BY <2>3, <2>4
<1> QED
  BY <1>2, <1>3 DEF Accept

LEMMA InputStreams == ASSUME Basic, StreamInv, Input PROVE StreamInv'
<1> USE DEF Basic
<1> SUFFICES ASSUME NEW d \in Client PROVE StreamOf(d)'
  BY DEF StreamInv
<1>1. /\ StreamOf(d) /\ UNCHANGED <<mClients, ready, down, seen, from, user, cut>>
      /\ (HungUp(d)' <=> HungUp(d)) /\ Members' = Members
  BY DEF StreamInv, Input, client, HungUp, Members
<1>2. CASE UNCHANGED <<tx, log>>
  <2>1. Owed(d)' = Owed(d)
    BY <1>1, <1>2 DEF Owed
  <2> QED
    BY <1>1, <1>2, <2>1, StreamKept
<1>3. ASSUME taken < Len(Typed), Broadcast([by |-> "console", text |-> Typed[taken + 1]], tx)
      PROVE  StreamOf(d)'
  <2> DEFINE m == [by |-> "console", text |-> Typed[taken + 1]]
  <2>1. Typed[taken + 1] \in Line
    BY <1>3, Constants DEF TypeOK
  <2>2. m \in Message
    BY <2>1 DEF Message
  <2> HIDE DEF m
  <2>3. log' = Append(log, m) /\ tx'[d] = IF d \in Members THEN Append(tx[d], m) ELSE tx[d]
    BY <1>3 DEF Broadcast, m
  <2>4. down[d] \in Queue /\ tx[d] \in Queue
    BY FlowTypes
  <2> QED
    BY <1>1, <2>2, <2>3, <2>4, BroadcastStreams DEF StreamOf
<1> QED
  BY <1>2, <1>3 DEF Input

LEMMA DropStreams == ASSUME Basic, StreamInv, DropClosed \/ Delete PROVE StreamInv'
<1> USE DEF Basic
<1> SUFFICES ASSUME NEW d \in Client PROVE StreamOf(d)'
  BY DEF StreamInv
<1>1. PICK i \in 1 .. Len(mClients) : mClients' = RemoveAt(mClients, i)
  <2>1. CASE DropClosed
    BY <2>1, MembersType, LenProperties DEF DropClosed, Erase
  <2>2. CASE Delete
    BY <2>2, HeadIs DEF Delete, Erase
  <2> QED
    BY <2>1, <2>2
<1>2. Members' \subseteq Members
  <2>1. i \in 1 .. Len(mClients) /\ mClients \in Seq(Client) /\ Distinct(mClients)
    BY MembersType DEF ListInv
  <2>2. Elements(RemoveAt(mClients, i)) \subseteq Elements(mClients)
    BY <2>1, RemoveDistinct
  <2> QED
    BY <1>1, <2>2 DEF Members, Elements
<1>3. StreamOf(d) /\ UNCHANGED <<ready, tx, down, seen, log, from, user, cut>>
  BY DEF StreamInv, DropClosed, Delete, client
<1>4. (HungUp(d)' <=> HungUp(d)) /\ Owed(d)' = Owed(d)
  BY <1>3 DEF HungUp, Owed
<1> QED
  BY <1>2, <1>3, <1>4, StreamKept

LEMMA EchoStreams == ASSUME Basic, StreamInv, Echo PROVE StreamInv'
<1> USE DEF Basic
<1> DEFINE c == mClients[at]
<1> SUFFICES ASSUME NEW d \in Client PROVE StreamOf(d)'
  BY DEF StreamInv
<1>1. /\ pc = "echo" /\ StreamOf(d)
      /\ PollClient(c) \/ LoseClient(c)
      /\ UNCHANGED <<mClients, user, cut, seen, from>>
  BY DEF Echo, client, StreamInv
<1>2. c \in Client /\ c \in Members /\ Len(down[c]) <= Window /\ ready[c] # "none"
  <2>1. at \in 1 .. Len(mClients) /\ Len(mClients) \in Nat
    BY <1>1, MembersType DEF ListInv, TypeOK
  <2>2. c \in Client /\ c \in Members
    BY <2>1, MembersType
  <2> QED
    BY <1>1, <2>1, <2>2 DEF ConnectionInv
<1> HIDE DEF c
<1>3. Members' = Members /\ (HungUp(d)' <=> HungUp(d))
  BY <1>1 DEF Members, HungUp
<1>4. CASE LoseClient(c)
  <2>1. /\ HungUp(c) /\ tx' = tx /\ log' = log /\ ready'[c] = "CLOSED" /\ down'[c] = << >>
        /\ \A e \in Client \ {c} : ready'[e] = ready[e] /\ down'[e] = down[e]
    BY <1>2, <1>4, LoseMoves
  <2>2. Owed(d)' = Owed(d)
    BY <1>1, <2>1 DEF Owed
  <2> QED
    BY <1>1, <1>2, <1>3, <2>1, <2>2, StreamKept
<1>5. CASE PollClient(c)
  <2> PICK n \in 0 .. Len(up[c]), k \in 0 .. Len(tx[c]), queues \in [Client -> Queue] :
        PollGives(c, n, k, queues)
    BY <1>2, <1>5, PollMoves
  <2>1. /\ \A e \in Client \ {c} : down'[e] = down[e]
        /\ down'[c] = down[c] \o First(tx[c], k)
        /\ ready' = ready
    BY DEF PollGives
  <2>2. /\ queues[c] = Rest(tx[c], k)
        /\ \A e \in Client \ {c} : queues[e] = tx[e]
        /\ \/ tx' = queues /\ log' = log
           \/ /\ [by |-> c, text |-> up[c][n]] \in Message
              /\ Broadcast([by |-> c, text |-> up[c][n]], queues)
    BY DEF PollGives
  <2>3. /\ seen[d] \in Queue /\ down[d] \in Queue /\ tx[d] \in Queue /\ Owed(d) \in Queue
    BY FlowTypes
  <2>4. /\ down'[d] \in Queue /\ queues[d] \in Queue
        /\ Flow(ready[d] # "none", ~HungUp(d), d \in Members, seen[d], down'[d], queues[d], Owed(d))
    <3>1. CASE d # c
      BY <1>1, <2>1, <2>2, <2>3, <3>1 DEF StreamOf
    <3>2. CASE d = c
      <4>1. Flow(TRUE, ~HungUp(d), TRUE, seen[d], down[d], tx[d], Owed(d))
        BY <1>1, <1>2, <3>2 DEF StreamOf
      <4>2. /\ down[d] \o First(tx[d], k) \in Queue
            /\ Flow(TRUE, ~HungUp(d), TRUE, seen[d], down[d] \o First(tx[d], k), Rest(tx[d], k), Owed(d))
        BY <2>3, <3>2, <4>1, FlowSend
      <4> QED
        BY <1>2, <2>1, <2>2, <3>2, <4>2
    <3> QED
      BY <3>1, <3>2
  <2>5. CASE tx' = queues /\ log' = log
    <3>1. Owed(d)' = Owed(d)
      BY <1>1, <2>5 DEF Owed
    <3> QED
      BY <1>1, <1>3, <2>1, <2>4, <2>5, <3>1 DEF StreamOf
  <2>6. ASSUME [by |-> c, text |-> up[c][n]] \in Message,
               Broadcast([by |-> c, text |-> up[c][n]], queues)
        PROVE  StreamOf(d)'
    <3> DEFINE m == [by |-> c, text |-> up[c][n]]
    <3>1. /\ m \in Message /\ log' = Append(log, m)
          /\ tx'[d] = IF d \in Members THEN Append(queues[d], m) ELSE queues[d]
      BY <2>6 DEF Broadcast
    <3> HIDE DEF m
    <3> QED
      BY <1>1, <1>3, <2>1, <2>4, <3>1, BroadcastStreams
  <2> QED
    BY <2>2, <2>5, <2>6
<1> QED
  BY <1>1, <1>4, <1>5

\* The connection the destructor is at: the first of the list, and open.
AtHead(c) == c \in Client /\ c \in Members /\ ready[c] = "OPEN" /\ Len(down[c]) <= Window

LEMMA HeadIsOpen ==
  ASSUME Basic, mClients # << >>, isConnected(Head(mClients))
  PROVE  AtHead(Head(mClients))
<1> DEFINE c == Head(mClients)
<1>1. c \in Client /\ c \in Members
  BY HeadIs, MembersType DEF Basic
<1> HIDE DEF c
<1>2. ready[c] \in {"none", "OPEN", "CLOSED"} /\ ready[c] # "none" /\ Len(down[c]) <= Window
  BY <1>1 DEF Basic, TypeOK, ConnectionInv
<1>3. c = Head(mClients) => ready[c] # "CLOSED"
  BY DEF isConnected
<1> QED
  BY <1>1, <1>2, <1>3 DEF AtHead, c

LEMMA ClosePollStreams == ASSUME Basic, StreamInv, ClosePoll PROVE StreamInv'
<1> USE DEF Basic
<1> DEFINE c == Head(mClients)
<1> SUFFICES ASSUME NEW d \in Client PROVE StreamOf(d)'
  BY DEF StreamInv
<1>1. /\ StreamOf(d) /\ AtHead(c)
      /\ Flush(c) \/ LoseClient(c)
      /\ UNCHANGED <<mClients, user, cut, seen, from>>
  BY HeadIsOpen DEF ClosePoll, client, StreamInv
<1> HIDE DEF c
<1>2. c \in Client /\ c \in Members /\ Len(down[c]) <= Window /\ ready[c] # "none"
  BY <1>1 DEF AtHead
<1>3. Members' = Members /\ (HungUp(d)' <=> HungUp(d))
  BY <1>1 DEF Members, HungUp
<1>4. CASE LoseClient(c)
  <2>1. /\ HungUp(c) /\ tx' = tx /\ log' = log /\ ready'[c] = "CLOSED" /\ down'[c] = << >>
        /\ \A e \in Client \ {c} : ready'[e] = ready[e] /\ down'[e] = down[e]
    BY <1>2, <1>4, LoseMoves
  <2>2. Owed(d)' = Owed(d)
    BY <1>1, <2>1 DEF Owed
  <2> QED
    BY <1>1, <1>2, <1>3, <2>1, <2>2, StreamKept
<1>5. CASE Flush(c)
  <2> PICK k \in 0 .. Len(tx[c]) : FlushGives(c, k)
    BY <1>2, <1>5, FlushMoves
  <2>1. Owed(d)' = Owed(d)
    BY <1>1 DEF Owed, FlushGives
  <2>2. CASE d # c
    <3>1. ready'[d] = ready[d] /\ tx'[d] = tx[d] /\ down'[d] = down[d]
      BY <2>2 DEF FlushGives
    <3> QED
      BY <1>1, <1>3, <2>1, <3>1, StreamKept
  <2>3. CASE d = c
    <3> DEFINE standing == ~HungUp(d)
               s0 == seen[d]
               d0 == down[d]
               t == tx[d]
               r == Owed(d)
    <3>1. s0 \in Queue /\ d0 \in Queue /\ t \in Queue /\ r \in Queue /\ standing \in BOOLEAN
      BY FlowTypes
    <3>2. Flow(TRUE, standing, TRUE, s0, d0, t, r) /\ k \in 0 .. Len(t)
      BY <1>1, <1>2, <2>3 DEF StreamOf
    <3>3. down'[d] = d0 \o First(t, k) /\ tx'[d] = Rest(t, k) /\ ready'[d] # "none"
      BY <1>2, <2>3 DEF FlushGives
    <3> HIDE DEF standing, s0, d0, t, r
    <3>4. Flow(TRUE, standing, TRUE, s0, d0 \o First(t, k), Rest(t, k), r)
      BY <3>1, <3>2, FlowSend
    <3> QED
      BY <1>1, <1>2, <1>3, <2>1, <2>3, <3>3, <3>4 DEF StreamOf, standing, s0, r
  <2> QED
    BY <2>2, <2>3
<1> QED
  BY <1>1, <1>4, <1>5

LEMMA GiveUpStreams == ASSUME Basic, StreamInv, GiveUp PROVE StreamInv'
<1> USE DEF Basic
<1> DEFINE c == Head(mClients)
<1> SUFFICES ASSUME NEW d \in Client PROVE StreamOf(d)'
  BY DEF StreamInv
<1>1. /\ StreamOf(d) /\ AtHead(c) /\ ready' = [ready EXCEPT ![c] = "CLOSED"]
      /\ UNCHANGED <<mClients, tx, down, user, cut, seen, log, from>>
  BY HeadIsOpen DEF GiveUp, client, StreamInv
<1> HIDE DEF c
<1>2. Members' = Members /\ (HungUp(d)' <=> HungUp(d)) /\ Owed(d)' = Owed(d)
  BY <1>1 DEF Members, HungUp, Owed
<1>3. ready'[d] = "none" <=> ready[d] = "none"
  BY <1>1 DEF AtHead, TypeOK
<1> QED
  BY <1>1, <1>2, <1>3, StreamKept

\* A client's own steps, but for what it shows, can only end its stream.
LEMMA ClientStreams ==
  ASSUME Basic, StreamInv, NEW c \in Client, ClientStep(c)
  PROVE  StreamInv'
<1> USE DEF Basic
<1> SUFFICES ASSUME NEW d \in Client PROVE StreamOf(d)'
  BY DEF StreamInv
<1>1. /\ StreamOf(d) /\ UNCHANGED <<mClients, ready, tx, log, from>>
  BY DEF StreamInv, ClientStep, Connect, Say, ClientPoll, Break, server
<1>2. Owed(d)' = Owed(d) /\ Members' = Members
  BY <1>1 DEF Owed, Members
<1>3. CASE Connect(c)
  <2>1. UNCHANGED <<down, cut, seen>> /\ user[c] = "away" /\ user' = [user EXCEPT ![c] = "chatting"]
    BY <1>3 DEF Connect
  <2>2. HungUp(d) => HungUp(d)'
    BY <2>1 DEF HungUp, TypeOK
  <2> QED
    BY <1>1, <1>2, <2>1, <2>2, StreamKept
<1>4. CASE Say(c)
  <2>1. UNCHANGED <<down, cut, seen>>
    BY <1>4 DEF Say
  <2>2. user[c] = "chatting" /\ \A e \in Client \ {c} : user'[e] = user[e]
    BY <1>4, SayMoves
  <2>3. HungUp(d) => HungUp(d)'
    BY <2>1, <2>2 DEF HungUp
  <2> QED
    BY <1>1, <1>2, <2>1, <2>3, StreamKept
<1>5. CASE ClientPoll(c) \/ Break(c)
  <2>1. /\ user' = user /\ user[c] = "chatting" /\ ~cut[c] /\ down'[c] = << >>
        /\ \A e \in Client \ {c} : cut'[e] = cut[e] /\ down'[e] = down[e] /\ seen'[e] = seen[e]
        /\ \/ cut' = cut /\ seen'[c] = seen[c] \o down[c]
           \/ cut'[c] = TRUE /\ seen' = seen
    BY <1>5, ClientPollMoves DEF ClientPoll, Break
  <2>2. CASE d # c
    <3>1. HungUp(d)' <=> HungUp(d)
      BY <2>1, <2>2 DEF HungUp
    <3> QED
      BY <1>1, <1>2, <2>1, <2>2, <3>1, StreamKept
  <2>3. CASE d = c /\ cut'[c] = TRUE /\ seen' = seen
    <3>1. HungUp(d)'
      BY <2>3 DEF HungUp
    <3> QED
      BY <1>1, <1>2, <2>1, <2>3, <3>1, StreamKept
  <2>4. CASE d = c /\ cut' = cut /\ seen'[c] = seen[c] \o down[c]
    <3>1. ~HungUp(d) /\ ~HungUp(d)'
      BY <2>1, <2>4 DEF HungUp
    <3> DEFINE accepted == ready[d] # "none"
               member == d \in Members
               s0 == seen[d]
               d0 == down[d]
               t == tx[d]
               r == Owed(d)
    <3>2. accepted \in BOOLEAN /\ member \in BOOLEAN
      OBVIOUS
    <3>3. s0 \in Queue /\ d0 \in Queue /\ t \in Queue /\ r \in Queue
      BY FlowTypes
    <3>4. Flow(accepted, TRUE, member, s0, d0, t, r)
      BY <1>1, <3>1 DEF StreamOf
    <3> HIDE DEF accepted, member, s0, d0, t, r
    <3>5. Flow(accepted, TRUE, member, s0 \o d0, << >>, t, r)
      BY <3>2, <3>3, <3>4, FlowShow
    <3> QED
      BY <1>1, <1>2, <2>1, <2>4, <3>1, <3>5 DEF StreamOf, accepted, member, s0, d0, t, r
  <2> QED
    BY <2>1, <2>2, <2>3, <2>4
<1> QED
  BY <1>3, <1>4, <1>5 DEF ClientStep

LEMMA StepStreams == Basic /\ StreamInv /\ [Next]_vars => StreamInv'
<1> SUFFICES ASSUME Basic, StreamInv, [Next]_vars PROVE StreamInv'
  OBVIOUS
<1>1. CASE UNCHANGED <<mClients, ready, tx, down, user, cut, seen, log, from>>
  <2>1. ASSUME NEW d \in Client
        PROVE  StreamOf(d)'
    <3>1. /\ StreamOf(d) /\ Owed(d)' = Owed(d) /\ (HungUp(d)' <=> HungUp(d)) /\ Members' = Members
      BY <1>1 DEF StreamInv, Owed, HungUp, Members
    <3> QED
      BY <1>1, <3>1, StreamKept DEF Basic
  <2> QED
    BY <2>1 DEF StreamInv
<1>2. CASE Reap \/ Quit \/ UNCHANGED vars
  BY <1>1, <1>2 DEF Reap, Quit, vars, server, client
<1> QED
  BY <1>2, AcceptStreams, InputStreams, DropStreams, EchoStreams, ClosePollStreams,
     GiveUpStreams, ClientStreams
  DEF Next, Server

LEMMA StreamsAlways == Spec => [](Basic /\ StreamInv)
<1>1. Init => Basic /\ StreamInv
  BY InitBasic, InitStreams
<1>2. Basic /\ StreamInv /\ [Next]_vars => (Basic /\ StreamInv)'
  BY StepBasic, StepStreams
<1> QED
  BY <1>1, <1>2, PTL DEF Spec

(***************************************************************************)
(* All clients are shown the same conversation, for any number of clients, *)
(* any lines typed in any order, and whatever the kernel holds back.       *)
(***************************************************************************)
THEOREM OneConversation == Spec => []SameConversation
<1>1. ASSUME Basic, StreamInv
      PROVE  SameConversation
  <2> SUFFICES ASSUME NEW c \in Client
               PROVE  /\ Prefix(seen[c], Rest(log, from[c]))
                      /\ (c \in Members /\ ~HungUp(c)
                            => seen[c] \o down[c] \o tx[c] = Rest(log, from[c]))
    BY DEF SameConversation
  <2> DEFINE s == seen[c]
             d == down[c]
             t == tx[c]
             r == Owed(c)
  <2>1. s \in Seq(Message) /\ d \in Seq(Message) /\ t \in Seq(Message) /\ r \in Seq(Message)
    BY <1>1, FlowTypes DEF Basic, Queue
  <2>2. /\ Begins(s, r)
        /\ (c \in Members /\ ~HungUp(c) => s \o (d \o t) = r)
    BY <1>1 DEF StreamInv, StreamOf, Flow
  <2> HIDE DEF s, d, t, r
  <2>3. \E u \in Seq(Message) : r = s \o u
    BY <2>2 DEF Begins, Queue
  <2>4. Prefix(s, r)
    BY <2>1, <2>3, FirstPartOf DEF Prefix, First
  <2>5. Regrouped(s, d, t)
    BY <2>1, Regroup
  <2> QED
    BY <2>2, <2>4, <2>5 DEF Regrouped, s, d, t, r, Owed
<1> QED
  BY <1>1, StreamsAlways, PTL

----------------------------------------------------------------------------
(***************************************************************************)
(* The server uses each connection as a stream of texts: what one step     *)
(* does to the stream of one client, in the terms of module MessageStream. *)
(***************************************************************************)
Given(c) == IF ready[c] = "none" THEN << >> ELSE Owed(c)

Transit(c) == IF HungUp(c) THEN << >>
              ELSE IF Ended(c) THEN down[c] ELSE down[c] \o tx[c]

Gives(c) ==
  /\ Given(c)' # << >> /\ Given(c) = Front(Given(c)')
  /\ Transit(c)' = IF Ended(c) THEN Transit(c) ELSE Append(Transit(c), Last(Given(c)'))
  /\ seen'[c] = seen[c] /\ Ended(c)' = Ended(c)

Takes(c) ==
  /\ \E n \in 1 .. Len(Transit(c)) :
       /\ seen'[c] = seen[c] \o SubSeq(Transit(c), 1, n)
       /\ Transit(c)' = SubSeq(Transit(c), n + 1, Len(Transit(c)))
  /\ Given(c)' = Given(c) /\ Ended(c)' = Ended(c)

Loses(c) ==
  /\ Ended(c)'
  /\ IsPrefix(Transit(c)', Transit(c))
  /\ Given(c)' = Given(c) /\ seen'[c] = seen[c]

Rests(c) ==
  /\ Given(c)' = Given(c) /\ Transit(c)' = Transit(c) /\ seen'[c] = seen[c]
  /\ Ended(c)' = Ended(c)

Moves(c) == Gives(c) \/ Takes(c) \/ Loses(c) \/ Rests(c)

LEMMA MovesRefine == (\A c \in Client : Moves(c)) => Streams!Next
<1> SUFFICES ASSUME NEW c \in Client, Moves(c)
             PROVE  Streams!Give(c) \/ Streams!Take(c) \/ Streams!Lose(c) \/ Streams!Refuse(c)
                      \/ Streams!Rest(c)
  BY DEF Streams!Next
<1> DEFINE given == [d \in Client |-> IF ready[d] = "none" THEN << >> ELSE Rest(log, from[d])]
           transit == [d \in Client |-> IF HungUp(d) THEN << >>
                                        ELSE IF Ended(d) THEN down[d] ELSE down[d] \o tx[d]]
           ended == [d \in Client |-> Ended(d)]
<1>1. given[c] = Given(c) /\ given'[c] = Given(c)'
  BY DEF Given, Owed
<1>2. transit[c] = Transit(c) /\ transit'[c] = Transit(c)'
  BY DEF Transit, Ended, HungUp
<1>3. ended[c] = Ended(c) /\ ended'[c] = Ended(c)'
  BY Zenon
<1>4. CASE Gives(c)
  <2> HIDE DEF given, transit, ended
  <2>1. /\ given'[c] # << >> /\ given[c] = Front(given'[c])
        /\ transit'[c] = IF ended[c] THEN transit[c] ELSE Append(transit[c], Last(given'[c]))
        /\ seen'[c] = seen[c] /\ ended'[c] = ended[c]
    BY <1>1, <1>2, <1>3, <1>4 DEF Gives
  <2> QED
    BY <2>1 DEF Streams!Give, given, transit, ended, Front, Last, Streams!Front, Streams!Last
<1>5. CASE Takes(c)
  BY <1>5 DEF Takes, Streams!Take, Given, Transit, Owed, Ended, HungUp
<1>6. CASE Loses(c)
  <2> HIDE DEF given, transit, ended
  <2>1. /\ ended'[c] /\ IsPrefix(transit'[c], transit[c])
        /\ given'[c] = given[c] /\ seen'[c] = seen[c]
    BY <1>1, <1>2, <1>3, <1>6 DEF Loses
  <2> QED
    BY <2>1 DEF Streams!Lose, given, transit, ended, IsPrefix, Streams!IsPrefix
<1>7. CASE Rests(c)
  BY <1>7 DEF Rests, Streams!Rest, Given, Transit, Owed, Ended, HungUp
<1> QED
  BY <1>4, <1>5, <1>6, <1>7 DEF Moves

LEMMA TransitType ==
  ASSUME TypeOK, NEW c \in Client
  PROVE  Transit(c) \in Queue
<1>1. down[c] \in Queue /\ tx[c] \in Queue
  BY FlowTypes
<1>2. down[c] \o tx[c] \in Queue /\ << >> \in Queue
  BY <1>1, QueueOps
<1> QED
  BY <1>1, <1>2 DEF Transit

LEMMA PartIsPrefix ==
  ASSUME NEW a \in Queue, NEW b \in Queue
  PROVE  IsPrefix(<< >>, a) /\ IsPrefix(a, a) /\ IsPrefix(a, a \o b)
<1>1. a \in Seq(Message) /\ b \in Seq(Message) /\ << >> \in Seq(Message)
  BY QueueOps DEF Queue
<1>2. << >> \o a = a /\ a \o << >> = a
  BY QueueOps
<1>3. ASSUME NEW x \in Seq(Message), NEW y \in Seq(Message)
      PROVE  IsPrefix(x, x \o y)
  <2>1. SubSeq(x \o y, 1, Len(x)) = x
    BY ConcatParts
  <2>2. Len(x) <= Len(x \o y)
    BY ConcatProperties, LenProperties
  <2>3. SubSeq(x, 1, Len(x)) = x
    BY SubSeqFull
  <2> QED
    BY <2>1, <2>2, <2>3 DEF IsPrefix
<1> QED
  BY <1>1, <1>2, <1>3

\* Until the server quits, a connection it has closed is one the client or the network ended.
LEMMA EndedIs ==
  ASSUME Basic, pc \notin {"quit", "done"}, NEW c \in Client
  PROVE  /\ Ended(c) <=> HungUp(c)
         /\ Transit(c) = IF HungUp(c) THEN << >> ELSE down[c] \o tx[c]
         /\ ready[c] # "none" /\ ~HungUp(c) => c \in Members
<1>1. Ended(c) <=> HungUp(c)
  BY DEF Ended, Basic, ConnectionInv
<1>2. ready[c] # "none" /\ ~HungUp(c) => ready[c] = "OPEN"
  BY <1>1 DEF Ended, Basic, TypeOK
<1> QED
  BY <1>1, <1>2 DEF Transit, Basic, ConnectionInv

\* Messages may pass from the transmit buffer to the kernel, which is not seen.
LEMMA StillMoves ==
  ASSUME Basic, NEW c \in Client, NEW d, NEW t,
         \/ d = down[c] /\ t = tx[c]
         \/ (Ended(c) => HungUp(c)) /\ d \o t = down[c] \o tx[c],
         ready'[c] = ready[c], Owed(c)' = Owed(c), HungUp(c)' = HungUp(c), seen'[c] = seen[c],
         down'[c] = d, tx'[c] = t
  PROVE  Moves(c)
<1>1. Given(c)' = Given(c) /\ Ended(c)' = Ended(c)
  BY DEF Given, Ended
<1>2. Transit(c)' = Transit(c)
  <2>1. CASE d = down[c] /\ t = tx[c]
    BY <1>1, <2>1 DEF Transit
  <2>2. CASE (Ended(c) => HungUp(c)) /\ d \o t = down[c] \o tx[c]
    BY <1>1, <2>2 DEF Transit
  <2> QED
    BY <2>1, <2>2
<1> QED
  BY <1>1, <1>2 DEF Moves, Rests

LEMMA BroadcastGives ==
  ASSUME Basic, pc \notin {"quit", "done"}, NEW c \in Client, NEW m \in Message,
         NEW d \in Queue, NEW t \in Queue, d \o t = down[c] \o tx[c],
         ready[c] = "none" => d = down[c] /\ t = tx[c],
         ready' = ready, log' = Append(log, m), from' = from, HungUp(c)' = HungUp(c),
         seen'[c] = seen[c], down'[c] = d,
         tx'[c] = IF c \in Members THEN Append(t, m) ELSE t
  PROVE  Moves(c)
<1> USE DEF Basic
<1>1. Ended(c)' = Ended(c)
  BY DEF Ended
<1>2. CASE ready[c] = "none"
  <2>1. c \notin Members
    BY <1>2 DEF ConnectionInv
  <2>2. Given(c)' = Given(c) /\ Transit(c)' = Transit(c)
    BY <1>1, <1>2, <2>1 DEF Given, Transit
  <2> QED
    BY <1>1, <2>2 DEF Moves, Rests
<1>3. CASE ready[c] # "none"
  <2>1. Given(c) = Owed(c) /\ Given(c)' = Append(Owed(c), m) /\ Owed(c) \in Seq(Message)
    BY <1>3, OwedType DEF Given, Queue
  <2>2. Given(c)' # << >> /\ Front(Given(c)') = Given(c) /\ Last(Given(c)') = m
    <3> DEFINE owed == Owed(c)
               more == Append(owed, m)
    <3>1. owed \in Seq(Message)
      BY <2>1
    <3> HIDE DEF owed
    <3>2. /\ Len(more) = Len(owed) + 1 /\ Len(owed) \in Nat /\ more[Len(owed) + 1] = m
          /\ more \in Seq(Message) /\ more # << >>
      BY <3>1, AppendProperties, LenProperties
    <3>3. SubSeq(more, 1, Len(owed)) = owed
      <4>1. <<m>> \in Seq(Message) /\ more = owed \o <<m>>
        BY <3>1, QueueOps DEF Queue
      <4> QED
        BY <3>1, <4>1, ConcatParts
    <3>4. Len(more) - 1 = Len(owed)
      BY <3>2
    <3> HIDE DEF more
    <3>5. more # << >> /\ Front(more) = owed /\ Last(more) = m
      BY <3>2, <3>3, <3>4 DEF Front, Last
    <3> QED
      BY <2>1, <3>5 DEF owed, more
  <2>3. Transit(c)' = IF Ended(c) THEN Transit(c) ELSE Append(Transit(c), m)
    <3>1. CASE HungUp(c)
      BY <1>1, <3>1, EndedIs DEF Transit
    <3>2. CASE ~HungUp(c)
      <4>1. c \in Members /\ ~Ended(c) /\ Transit(c) = down[c] \o tx[c]
        BY <1>3, <3>2, EndedIs
      <4>2. Transit(c)' = d \o Append(t, m)
        BY <1>1, <3>2, <4>1 DEF Transit
      <4>3. Append(t, m) = t \o <<m>> /\ <<m>> \in Queue /\ d \o t \in Queue
            /\ Append(d \o t, m) = (d \o t) \o <<m>>
        BY QueueOps
      <4>4. Regrouped(d, t, <<m>>)
        BY <4>3, Regroup DEF Queue
      <4> QED
        BY <4>1, <4>2, <4>3, <4>4 DEF Regrouped
    <3> QED
      BY <3>1, <3>2
  <2> QED
    BY <1>1, <2>2, <2>3 DEF Moves, Gives
<1> QED
  BY <1>2, <1>3

\* A connection ends, and something of what was on its way with it.
LEMMA EndMoves ==
  ASSUME NEW c \in Client, Ended(c)', ready'[c] = "none" <=> ready[c] = "none",
         Owed(c)' = Owed(c), seen'[c] = seen[c],
         NEW rest \in Queue, Transit(c)' \in Queue,
         Transit(c) = Transit(c)' \o rest
  PROVE  Moves(c)
<1>1. Given(c)' = Given(c)
  BY DEF Given
<1>2. IsPrefix(Transit(c)', Transit(c))
  BY PartIsPrefix
<1> QED
  BY <1>1, <1>2 DEF Moves, Loses

LEMMA AllLost ==
  ASSUME Basic, NEW c \in Client, HungUp(c)', ready'[c] = "none" <=> ready[c] = "none",
         Owed(c)' = Owed(c), seen'[c] = seen[c]
  PROVE  Moves(c)
<1>1. Ended(c)' /\ Transit(c)' = << >>
  BY DEF Ended, Transit
<1>2. Transit(c) \in Queue /\ << >> \in Queue /\ Transit(c) = << >> \o Transit(c)
  BY TransitType, QueueOps DEF Basic
<1> QED
  BY <1>1, <1>2, EndMoves

LEMMA AcceptMoves == ASSUME Basic, StreamInv, Accept, NEW d \in Client PROVE Moves(d)
<1> USE DEF Basic
<1>1. /\ StreamOf(d) /\ UNCHANGED <<tx, down, seen, log, user, cut>>
      /\ HungUp(d)' = HungUp(d)
  BY DEF StreamInv, Accept, client, HungUp
<1>2. CASE UNCHANGED <<ready, from>>
  <2>1. Owed(d)' = Owed(d)
    BY <1>1, <1>2 DEF Owed
  <2> QED
    BY <1>1, <1>2, <2>1, StillMoves
<1>3. ASSUME NEW c \in Client, pollServer(c), ready' = [ready EXCEPT ![c] = "OPEN"],
             from' = [from EXCEPT ![c] = Len(log)]
      PROVE  Moves(d)
  <2>1. CASE d # c
    <3>1. ready'[d] = ready[d] /\ Owed(d)' = Owed(d)
      BY <1>1, <1>3, <2>1 DEF TypeOK, Owed
    <3> QED
      BY <1>1, <3>1, StillMoves
  <2>2. CASE d = c
    <3>1. ready[d] = "none"
      BY <1>3, <2>2 DEF pollServer, ConnectionInv
    <3>2. ready'[d] = "OPEN"
      BY <1>3, <2>2 DEF TypeOK
    <3>3. down[d] = << >> /\ tx[d] = << >>
      BY <1>1, <3>1 DEF StreamOf, Flow
    <3>4. Given(d) = << >> /\ Given(d)' = << >>
      <4>1. Owed(d)' = Rest(log, Len(log)) /\ Len(log) \in Nat /\ log \in Seq(Message)
        BY <1>1, <1>3, <2>2, LenProperties DEF TypeOK, Owed, Queue
      <4>2. Len(Rest(log, Len(log))) = 0 /\ Rest(log, Len(log)) \in Seq(Message)
        BY <4>1, CutType
      <4>3. Owed(d)' = << >>
        BY <4>1, <4>2, EmptySeq
      <4> QED
        BY <3>1, <3>2, <4>3 DEF Given
    <3>5. << >> \o << >> = << >>
      BY QueueOps
    <3>6. Ended(d)' = Ended(d)
      BY <1>1, <3>1, <3>2 DEF Ended
    <3>7. Transit(d)' = Transit(d)
      BY <1>1, <3>3, <3>5 DEF Transit
    <3> QED
      BY <1>1, <3>4, <3>6, <3>7 DEF Moves, Rests
  <2> QED
    BY <2>1, <2>2
<1> QED
  BY <1>2, <1>3 DEF Accept

LEMMA InputMoves == ASSUME Basic, StreamInv, Input, NEW d \in Client PROVE Moves(d)
<1> USE DEF Basic
<1>1. /\ pc \notin {"quit", "done"} /\ UNCHANGED <<ready, down, seen, from, user, cut>>
      /\ HungUp(d)' = HungUp(d)
  BY DEF Input, client, HungUp
<1>2. CASE UNCHANGED <<tx, log>>
  <2>1. Owed(d)' = Owed(d)
    BY <1>1, <1>2 DEF Owed
  <2> QED
    BY <1>1, <1>2, <2>1, StillMoves
<1>3. ASSUME taken < Len(Typed), Broadcast([by |-> "console", text |-> Typed[taken + 1]], tx)
      PROVE  Moves(d)
  <2> DEFINE m == [by |-> "console", text |-> Typed[taken + 1]]
  <2>1. Typed[taken + 1] \in Line
    BY <1>3, Constants DEF TypeOK
  <2>2. m \in Message
    BY <2>1 DEF Message
  <2> HIDE DEF m
  <2>3. log' = Append(log, m) /\ tx'[d] = IF d \in Members THEN Append(tx[d], m) ELSE tx[d]
    BY <1>3 DEF Broadcast, m
  <2>4. down[d] \in Queue /\ tx[d] \in Queue
    BY FlowTypes
  <2> QED
    BY <1>1, <2>2, <2>3, <2>4, BroadcastGives
<1> QED
  BY <1>2, <1>3 DEF Input

LEMMA EchoMoves == ASSUME Basic, StreamInv, Echo, NEW d \in Client PROVE Moves(d)
<1> USE DEF Basic
<1> DEFINE c == mClients[at]
<1>1. /\ pc = "echo"
      /\ PollClient(c) \/ LoseClient(c)
      /\ UNCHANGED <<user, cut, seen, from>>
      /\ HungUp(d)' = HungUp(d)
  BY DEF Echo, client, HungUp
<1>2. c \in Client /\ Len(down[c]) <= Window /\ ready[c] # "none"
  <2>1. at \in 1 .. Len(mClients)
    BY <1>1, MembersType DEF ListInv, TypeOK
  <2>2. c \in Client /\ c \in Members
    BY <2>1, MembersType
  <2> QED
    BY <1>1, <2>2 DEF ConnectionInv
<1> HIDE DEF c
<1>3. CASE LoseClient(c)
  <2>1. /\ HungUp(c) /\ tx' = tx /\ log' = log /\ ready'[c] = "CLOSED"
        /\ \A e \in Client \ {c} : ready'[e] = ready[e] /\ down'[e] = down[e]
    BY <1>2, <1>3, LoseMoves
  <2>2. Owed(d)' = Owed(d)
    BY <1>1, <2>1 DEF Owed
  <2>3. CASE d # c
    BY <1>1, <2>1, <2>2, <2>3, StillMoves
  <2>4. CASE d = c
    BY <1>1, <1>2, <2>1, <2>2, <2>4, AllLost
  <2> QED
    BY <2>3, <2>4
<1>4. CASE PollClient(c)
  <2> PICK n \in 0 .. Len(up[c]), k \in 0 .. Len(tx[c]), queues \in [Client -> Queue] :
        PollGives(c, n, k, queues)
    BY <1>2, <1>4, PollMoves
  <2>1. /\ ready' = ready
        /\ down' \in [Client -> Queue] /\ down'[c] = down[c] \o First(tx[c], k)
        /\ queues[c] = Rest(tx[c], k)
        /\ \A e \in Client \ {c} : queues[e] = tx[e] /\ down'[e] = down[e]
        /\ \/ tx' = queues /\ log' = log
           \/ /\ [by |-> c, text |-> up[c][n]] \in Message
              /\ Broadcast([by |-> c, text |-> up[c][n]], queues)
    BY DEF PollGives
  <2>2. /\ down'[d] \in Queue /\ queues[d] \in Queue
        /\ down'[d] \o queues[d] = down[d] \o tx[d]
    <3>1. CASE d # c
      BY <2>1, <3>1
    <3>2. CASE d = c
      <4>1. /\ tx[c] \in Seq(Message) /\ down[c] \in Seq(Message)
            /\ k \in Nat /\ k <= Len(tx[c])
        BY <1>2, QueueTypes DEF Queue
      <4> DEFINE sent == First(tx[c], k)
                 unsent == Rest(tx[c], k)
      <4>2. sent \in Seq(Message) /\ unsent \in Seq(Message) /\ sent \o unsent = tx[c]
        BY <4>1, CutType
      <4>3. down'[d] = down[c] \o sent /\ queues[d] = unsent
        BY <2>1, <3>2
      <4> HIDE DEF sent, unsent
      <4>4. Regrouped(down[c], sent, unsent)
        BY <4>1, <4>2, Regroup
      <4> QED
        BY <2>1, <3>2, <4>2, <4>3, <4>4 DEF Regrouped
    <3> QED
      BY <3>1, <3>2
  <2>3. CASE tx' = queues /\ log' = log
    <3>1. Owed(d)' = Owed(d)
      BY <1>1, <2>3 DEF Owed
    <3> QED
      BY <1>1, <2>1, <2>2, <2>3, <3>1, EndedIs, StillMoves
  <2>4. ASSUME [by |-> c, text |-> up[c][n]] \in Message,
               Broadcast([by |-> c, text |-> up[c][n]], queues)
        PROVE  Moves(d)
    <3> DEFINE m == [by |-> c, text |-> up[c][n]]
    <3>1. /\ m \in Message /\ log' = Append(log, m)
          /\ tx'[d] = IF d \in Members THEN Append(queues[d], m) ELSE queues[d]
      BY <2>4 DEF Broadcast
    <3> HIDE DEF m
    <3>2. ready[d] = "none" => down'[d] = down[d] /\ queues[d] = tx[d]
      BY <1>2, <2>1
    <3> QED
      BY <1>1, <2>1, <2>2, <3>1, <3>2, BroadcastGives
  <2> QED
    BY <2>1, <2>3, <2>4
<1> QED
  BY <1>1, <1>3, <1>4

\* Sending to the client goes unseen; closing the connection then loses nothing.
LEMMA ClosePollMoves == ASSUME Basic, StreamInv, ClosePoll, NEW d \in Client PROVE Moves(d)
<1> USE DEF Basic
<1> DEFINE c == Head(mClients)
<1>1. /\ AtHead(c)
      /\ Flush(c) \/ LoseClient(c)
      /\ UNCHANGED <<user, cut, seen, from>>
      /\ HungUp(d)' = HungUp(d)
  BY HeadIsOpen DEF ClosePoll, client, HungUp
<1> HIDE DEF c
<1>2. c \in Client /\ Len(down[c]) <= Window /\ ready[c] = "OPEN"
  BY <1>1 DEF AtHead
<1>3. CASE LoseClient(c)
  <2>1. /\ HungUp(c) /\ tx' = tx /\ log' = log /\ ready'[c] = "CLOSED"
        /\ \A e \in Client \ {c} : ready'[e] = ready[e] /\ down'[e] = down[e]
    BY <1>2, <1>3, LoseMoves
  <2>2. Owed(d)' = Owed(d)
    BY <1>1, <2>1 DEF Owed
  <2>3. CASE d # c
    BY <1>1, <2>1, <2>2, <2>3, StillMoves
  <2>4. CASE d = c
    BY <1>1, <1>2, <2>1, <2>2, <2>4, AllLost
  <2> QED
    BY <2>3, <2>4
<1>4. CASE Flush(c)
  <2> PICK k \in 0 .. Len(tx[c]) : FlushGives(c, k)
    BY <1>2, <1>4, FlushMoves
  <2>1. Owed(d)' = Owed(d)
    BY <1>1 DEF Owed, FlushGives
  <2>2. CASE d # c
    <3>1. ready'[d] = ready[d] /\ down'[d] = down[d] /\ tx'[d] = tx[d]
      BY <2>2 DEF FlushGives
    <3> QED
      BY <1>1, <2>1, <3>1, StillMoves
  <2>3. CASE d = c
    <3> DEFINE sent == First(tx[c], k)
               unsent == Rest(tx[c], k)
    <3>1. /\ tx[c] \in Seq(Message) /\ down[c] \in Seq(Message)
          /\ k \in Nat /\ k <= Len(tx[c])
      BY <1>2, QueueTypes DEF Queue
    <3>2. sent \in Seq(Message) /\ unsent \in Seq(Message) /\ sent \o unsent = tx[c]
      BY <3>1, CutType
    <3>3. /\ down'[d] = down[c] \o sent /\ tx'[d] = unsent
          /\ ready'[d] = IF unsent = << >> THEN "CLOSED" ELSE "OPEN"
      BY <1>2, <2>3 DEF FlushGives
    <3> HIDE DEF sent, unsent
    <3>4. Regrouped(down[c], sent, unsent) /\ down[c] \o sent \in Seq(Message)
      BY <3>1, <3>2, Regroup, ConcatProperties
    <3>5. (down[c] \o sent) \o unsent = down[c] \o tx[c]
      BY <3>2, <3>4 DEF Regrouped
    <3>6. CASE HungUp(d)
      <4>1. ready'[d] = "none" <=> ready[d] = "none"
        BY <1>2, <2>3, <3>3
      <4> QED
        BY <1>1, <2>1, <3>6, <4>1, AllLost
    <3>7. CASE ~HungUp(d) /\ unsent = << >>
      <4>1. ready'[d] = "CLOSED" /\ Transit(d)' = down[c] \o sent /\ Ended(d)'
        BY <1>1, <3>3, <3>7 DEF Transit, Ended
      <4>2. Transit(d) = down[c] \o tx[c]
        BY <1>2, <2>3, <3>7 DEF Transit, Ended
      <4>3. Transit(d)' \in Queue /\ unsent \in Queue /\ Transit(d) = Transit(d)' \o unsent
        BY <3>2, <3>4, <3>5, <4>1, <4>2 DEF Queue
      <4>4. ready'[d] = "none" <=> ready[d] = "none"
        BY <1>2, <2>3, <4>1
      <4> QED
        BY <1>1, <2>1, <4>1, <4>3, <4>4, EndMoves
    <3>8. CASE unsent # << >>
      <4>1. ready'[d] = ready[d] /\ (Ended(d) => HungUp(d))
        BY <1>2, <2>3, <3>3, <3>8 DEF Ended
      <4> QED
        BY <1>1, <2>1, <2>3, <3>3, <3>5, <4>1, StillMoves
    <3> QED
      BY <3>6, <3>7, <3>8
  <2> QED
    BY <2>2, <2>3
<1> QED
  BY <1>1, <1>3, <1>4

\* Giving up loses what was still to be sent.
LEMMA GiveUpMoves == ASSUME Basic, StreamInv, GiveUp, NEW d \in Client PROVE Moves(d)
<1> USE DEF Basic
<1> DEFINE c == Head(mClients)
<1>1. /\ AtHead(c) /\ ready' = [ready EXCEPT ![c] = "CLOSED"]
      /\ UNCHANGED <<tx, down, user, cut, seen, log, from>>
  BY HeadIsOpen DEF GiveUp, client
<1> HIDE DEF c
<1>2. HungUp(d)' = HungUp(d) /\ Owed(d)' = Owed(d)
  BY <1>1 DEF HungUp, Owed
<1>3. CASE d # c
  <2>1. ready'[d] = ready[d]
    BY <1>1, <1>3 DEF TypeOK
  <2> QED
    BY <1>1, <1>2, <2>1, StillMoves
<1>4. CASE d = c
  <2>1. ready[d] = "OPEN" /\ ready'[d] = "CLOSED"
    BY <1>1, <1>4 DEF AtHead, TypeOK
  <2>2. CASE HungUp(d)
    BY <1>1, <1>2, <2>1, <2>2, AllLost
  <2>3. CASE ~HungUp(d)
    <3>1. Ended(d)' /\ Transit(d)' = down[d] /\ Transit(d) = down[d] \o tx[d]
      BY <1>1, <1>2, <2>1, <2>3 DEF Transit, Ended
    <3>2. down[d] \in Queue /\ tx[d] \in Queue
      BY FlowTypes
    <3> QED
      BY <1>1, <1>2, <2>1, <3>1, <3>2, EndMoves
  <2> QED
    BY <2>2, <2>3
<1> QED
  BY <1>3, <1>4

LEMMA ClientMoves ==
  ASSUME Basic, StreamInv, NEW c \in Client, ClientStep(c), NEW d \in Client
  PROVE  Moves(d)
<1> USE DEF Basic
<1>1. UNCHANGED <<ready, tx, log, from>> /\ Owed(d)' = Owed(d)
  BY DEF ClientStep, Connect, Say, ClientPoll, Break, server, Owed
<1>2. CASE Connect(c)
  <2>1. UNCHANGED <<down, cut, seen>> /\ user[c] = "away" /\ user' = [user EXCEPT ![c] = "chatting"]
    BY <1>2 DEF Connect
  <2>2. HungUp(d)' = HungUp(d)
    BY <2>1 DEF HungUp, TypeOK
  <2> QED
    BY <1>1, <2>1, <2>2, StillMoves
<1>3. CASE Say(c)
  <2>1. UNCHANGED <<down, cut, seen>>
    BY <1>3 DEF Say
  <2>2. user[c] = "chatting" /\ \A e \in Client \ {c} : user'[e] = user[e]
    BY <1>3, SayMoves
  <2>3. HungUp(d)' = HungUp(d) \/ HungUp(d)'
    BY <2>1, <2>2 DEF HungUp
  <2> QED
    BY <1>1, <2>1, <2>3, StillMoves, AllLost
<1>4. CASE ClientPoll(c) \/ Break(c)
  <2>1. /\ user' = user /\ user[c] = "chatting" /\ ~cut[c] /\ down'[c] = << >>
        /\ \A e \in Client \ {c} : cut'[e] = cut[e] /\ down'[e] = down[e] /\ seen'[e] = seen[e]
        /\ \/ cut' = cut /\ seen'[c] = seen[c] \o down[c] /\ down[c] # << >>
           \/ cut'[c] = TRUE /\ seen' = seen
    BY <1>4, ClientPollMoves DEF ClientPoll, Break
  <2>2. CASE d # c
    <3>1. HungUp(d)' = HungUp(d)
      BY <2>1, <2>2 DEF HungUp
    <3> QED
      BY <1>1, <2>1, <2>2, <3>1, StillMoves
  <2>3. CASE d = c /\ cut'[c] = TRUE /\ seen' = seen
    <3>1. HungUp(d)'
      BY <2>3 DEF HungUp
    <3> QED
      BY <1>1, <2>3, <3>1, AllLost
  <2>4. CASE d = c /\ cut' = cut /\ seen'[c] = seen[c] \o down[c] /\ down[c] # << >>
    <3>1. ~HungUp(d) /\ ~HungUp(d)' /\ HungUp(d)' = HungUp(d)
      BY <2>1, <2>4 DEF HungUp
    <3> DEFINE got == down[d]
               more == IF Ended(d) THEN << >> ELSE tx[d]
               transit == Transit(d)
    <3>2. got \in Seq(Message) /\ more \in Seq(Message) /\ got # << >>
      BY <2>4, FlowTypes, QueueOps DEF Queue
    <3>3. transit = got \o more
      <4>1. down[d] = down[d] \o << >>
        BY FlowTypes, QueueOps
      <4> QED
        BY <3>1, <4>1 DEF Transit
    <3>4. Ended(d)' = Ended(d) /\ Given(d)' = Given(d)
      BY <1>1, <3>1 DEF Ended, Given
    <3>5. Transit(d)' = more
      <4>1. tx[d] = << >> \o tx[d]
        BY FlowTypes, QueueOps
      <4> QED
        BY <1>1, <2>1, <2>4, <3>1, <3>4, <4>1 DEF Transit
    <3>6. seen'[d] = seen[d] \o got
      BY <2>4
    <3> HIDE DEF got, more, transit
    <3>7. /\ SubSeq(transit, 1, Len(got)) = got
          /\ SubSeq(transit, Len(got) + 1, Len(transit)) = more
      BY <3>2, <3>3, ConcatParts
    <3>8. Len(got) \in 1 .. Len(transit)
      <4>1. Len(transit) = Len(got) + Len(more) /\ Len(got) \in Nat /\ Len(more) \in Nat
        BY <3>2, <3>3, ConcatElements
      <4>2. Len(got) # 0
        BY <3>2, EmptySeq
      <4> QED
        BY <4>1, <4>2
    <3> QED
      BY <3>4, <3>5, <3>6, <3>7, <3>8 DEF Moves, Takes, transit
  <2> QED
    BY <2>1, <2>2, <2>3, <2>4
<1> QED
  BY <1>2, <1>3, <1>4 DEF ClientStep

LEMMA StepMoves == Basic /\ StreamInv /\ [Next]_vars => \A d \in Client : Moves(d)
<1> SUFFICES ASSUME Basic, StreamInv, [Next]_vars, NEW d \in Client PROVE Moves(d)
  OBVIOUS
<1>1. CASE UNCHANGED <<ready, tx, down, user, cut, seen, log, from>>
  <2>1. Owed(d)' = Owed(d) /\ HungUp(d)' = HungUp(d)
    BY <1>1 DEF Owed, HungUp
  <2> QED
    BY <1>1, <2>1, StillMoves
<1>2. CASE DropClosed \/ Reap \/ Delete \/ Quit \/ UNCHANGED vars
  BY <1>1, <1>2 DEF DropClosed, Reap, Delete, Quit, vars, server, client
<1> QED
  BY <1>2, AcceptMoves, InputMoves, EchoMoves, ClosePollMoves, GiveUpMoves, ClientMoves
  DEF Next, Server

LEMMA InitStreamsRefine == Init => Streams!Init
<1> SUFFICES ASSUME Init, NEW c \in Client PROVE
      /\ Given(c) = << >> /\ Transit(c) = << >> /\ seen[c] = << >> /\ Ended(c) \in BOOLEAN
  BY Zenon DEF Streams!Init, Given, Transit, Owed
<1>1. << >> \o << >> = << >>
  BY QueueOps
<1> QED
  BY <1>1 DEF Init, Given, Transit, Ended, HungUp

(***************************************************************************)
(* The server uses its connections as streams of texts: every step of the  *)
(* server, of a client or of the network is, for each client, a text       *)
(* given, texts taken in order, the rest lost, or nothing.                 *)
(***************************************************************************)
THEOREM StreamsAreUsed == Spec => UsesStreams
<1>1. Init => Streams!Init
  BY InitStreamsRefine
<1>2. Basic /\ StreamInv /\ [Next]_vars => [Streams!Next]_(Streams!vars)
  BY StepMoves, MovesRefine
<1> QED
  BY <1>1, <1>2, StreamsAlways, PTL DEF Spec, UsesStreams, Streams!Spec

----------------------------------------------------------------------------
(***************************************************************************)
(* The stream from one client.  Of the lines it has typed the server has   *)
(* polled the first b, and those that are on their way, u, follow them; if *)
(* the connection stands they go up to the last line typed, the nth.       *)
(***************************************************************************)
Unpolled(c, u, b, n) ==
  /\ b + Len(u) <= n
  /\ \A j \in 1 .. Len(u) : u[j] = Says[c][b + j]

\* The messages of a log in c's name, and that they are some of c's first b lines, in order.
SaidBy(l, c) == {i \in 1 .. Len(l) : l[i].by = c}

InOrder(l, c, b) ==
  \E position \in [SaidBy(l, c) -> 1 .. b] :
    /\ \A i \in SaidBy(l, c) : Says[c][position[i]] = l[i].text
    /\ \A i, j \in SaidBy(l, c) : j < i => position[j] < position[i]

\* EchoesInOrder alone would not exclude that a line still on its way is one already echoed.
EchoOf(c) ==
  \E b \in 0 .. said[c] :
    /\ Unpolled(c, up[c], b, said[c])
    /\ HungUp(c) \/ b + Len(up[c]) = said[c]
    /\ InOrder(log, c, b)

EchoInv == \A c \in Client : EchoOf(c)

LEMMA CutElements ==
  ASSUME NEW S, NEW s \in Seq(S), NEW n \in 0 .. Len(s)
  PROVE  /\ \A j \in 1 .. n : First(s, n)[j] = s[j]
         /\ \A j \in 1 .. Len(s) - n : Rest(s, n)[j] = s[n + j]
<1> DEFINE a == First(s, n)
           b == Rest(s, n)
<1>1. n \in Nat /\ n <= Len(s) /\ Len(s) \in Nat
  BY LenProperties
<1>2. a \in Seq(S) /\ b \in Seq(S) /\ Len(a) = n /\ Len(b) = Len(s) - n /\ a \o b = s
  BY <1>1, CutType
<1> HIDE DEF a, b
<1>3. /\ \A j \in 1 .. Len(a) : (a \o b)[j] = a[j]
      /\ \A j \in 1 .. Len(b) : (a \o b)[Len(a) + j] = b[j]
  <2>1. a \in Seq(S) /\ b \in Seq(S)
    BY <1>2
  <2> QED
    BY <2>1, ConcatElements
<1> QED
  BY <1>2, <1>3 DEF a, b

LEMMA UnpolledCut ==
  ASSUME NEW c \in Client, NEW u \in Seq(Line), NEW b \in Nat, NEW n \in Nat,
         Unpolled(c, u, b, n), NEW k \in 0 .. Len(u)
  PROVE  /\ Unpolled(c, First(u, k), b, n)
         /\ Unpolled(c, Rest(u, k), b + k, n)
         /\ (b + k) + Len(Rest(u, k)) = b + Len(u)
         /\ k > 0 => u[k] = Says[c][b + k]
         /\ b + k \in 0 .. n
<1> DEFINE before == First(u, k)
           after == Rest(u, k)
<1>1. k \in Nat /\ k <= Len(u) /\ Len(u) \in Nat
  BY LenProperties
<1>2. Len(before) = k /\ Len(after) = Len(u) - k
  BY <1>1, CutType
<1>3. /\ \A j \in 1 .. k : before[j] = u[j]
      /\ \A j \in 1 .. Len(u) - k : after[j] = u[k + j]
  BY CutElements
<1>4. b + Len(u) <= n /\ \A j \in 1 .. Len(u) : u[j] = Says[c][b + j]
  BY DEF Unpolled
<1> HIDE DEF before, after
<1>5. Unpolled(c, before, b, n)
  <2>1. b + Len(before) <= n
    BY <1>1, <1>2, <1>4
  <2>2. \A j \in 1 .. Len(before) : before[j] = Says[c][b + j]
    BY <1>1, <1>2, <1>3, <1>4
  <2> QED
    BY <2>1, <2>2 DEF Unpolled
<1>6. (b + k) + Len(after) = b + Len(u)
  BY <1>1, <1>2
<1>7. Unpolled(c, after, b + k, n)
  <2>1. ASSUME NEW j \in 1 .. Len(after)
        PROVE  after[j] = Says[c][b + k + j]
    <3>1. k + j \in 1 .. Len(u) /\ b + (k + j) = b + k + j
      BY <1>1, <1>2
    <3> QED
      BY <1>2, <1>3, <1>4, <3>1
  <2> QED
    BY <1>4, <1>6, <2>1 DEF Unpolled
<1>8. (k > 0 => u[k] = Says[c][b + k]) /\ b + k \in 0 .. n
  BY <1>1, <1>4
<1> QED
  BY <1>5, <1>6, <1>7, <1>8 DEF before, after

\* A message of somebody else, or of c with one of its later lines, is put at the end of the log.
LEMMA OrderAppend ==
  ASSUME NEW c \in Client, NEW l \in Queue, NEW m \in Message, NEW b \in Nat, NEW d \in Nat,
         InOrder(l, c, b), b <= d,
         m.by = c => b < d /\ m.text = Says[c][d]
  PROVE  InOrder(Append(l, m), c, d)
<1> DEFINE t == Append(l, m)
           n == Len(l)
<1>1. /\ n \in Nat /\ Len(t) = n + 1 /\ t[n + 1] = m
      /\ \A i \in 1 .. n : t[i] = l[i]
  BY AppendProperties, LenProperties DEF Queue
<1>2. PICK position \in [SaidBy(l, c) -> 1 .. b] :
        /\ \A i \in SaidBy(l, c) : Says[c][position[i]] = l[i].text
        /\ \A i, j \in SaidBy(l, c) : j < i => position[j] < position[i]
  BY DEF InOrder
<1>3. SaidBy(l, c) \subseteq 1 .. n
  BY DEF SaidBy
<1> HIDE DEF t, n
<1>4. CASE m.by # c
  <2>1. SaidBy(t, c) = SaidBy(l, c)
    BY <1>1, <1>4 DEF SaidBy, n
  <2>2. position \in [SaidBy(l, c) -> 1 .. d]
    BY <1>2
  <2>3. \A i \in SaidBy(l, c) : t[i] = l[i]
    BY <1>1, <1>3
  <2>4. \A i \in SaidBy(l, c) : Says[c][position[i]] = t[i].text
    BY <1>2, <2>3
  <2>5. InOrder(t, c, d)
    BY <1>2, <2>1, <2>2, <2>4, Zenon DEF InOrder
  <2> QED
    BY <2>5 DEF t
<1>5. CASE m.by = c
  <2> DEFINE place == [i \in SaidBy(t, c) |-> IF i = n + 1 THEN d ELSE position[i]]
  <2>1. SaidBy(t, c) = SaidBy(l, c) \cup {n + 1} /\ n + 1 \notin SaidBy(l, c)
    <3>1. \A i \in 1 .. Len(t) : i \in 1 .. n \/ i = n + 1
      BY <1>1
    <3>2. n + 1 \in 1 .. Len(t) /\ \A i \in 1 .. n : i \in 1 .. Len(t)
      BY <1>1
    <3>3. n + 1 \notin 1 .. n
      BY <1>1
    <3> QED
      BY <1>1, <1>3, <1>5, <3>1, <3>2, <3>3 DEF SaidBy, n
  <2>2. /\ \A i \in SaidBy(l, c) : i < n + 1 /\ i # n + 1 /\ i \in Nat
    BY <1>1, <1>3
  <2>3. /\ place[n + 1] = d /\ \A i \in SaidBy(l, c) : place[i] = position[i]
        /\ place = [i \in SaidBy(t, c) |-> place[i]]
    BY <2>1, <2>2
  <2>4. \A i \in SaidBy(l, c) : position[i] \in 1 .. b
    BY <1>2
  <2> HIDE DEF place
  <2>5. place \in [SaidBy(t, c) -> 1 .. d]
    <3>1. \A i \in SaidBy(t, c) : place[i] \in 1 .. d
      BY <1>5, <2>1, <2>3, <2>4
    <3> QED
      BY <2>3, <3>1
  <2>6. \A i \in SaidBy(t, c) : Says[c][place[i]] = t[i].text
    BY <1>1, <1>2, <1>3, <1>5, <2>1, <2>3
  <2>7. ASSUME NEW i \in SaidBy(t, c), NEW j \in SaidBy(t, c), j < i
        PROVE  place[j] < place[i]
    <3>1. CASE i \in SaidBy(l, c) /\ j \in SaidBy(l, c)
      BY <1>2, <2>3, <2>7, <3>1
    <3>2. CASE i = n + 1 /\ j \in SaidBy(l, c)
      BY <1>5, <2>3, <2>4, <3>2
    <3>3. CASE j = n + 1
      BY <1>1, <2>1, <2>2, <2>7, <3>3
    <3> QED
      BY <2>1, <3>1, <3>2, <3>3
  <2>8. InOrder(t, c, d)
    BY <2>5, <2>6, <2>7, Zenon DEF InOrder
  <2> QED
    BY <2>8 DEF t
<1> QED
  BY <1>4, <1>5

LEMMA OrderLater ==
  ASSUME NEW c \in Client, NEW l \in Queue, NEW b \in Nat, NEW d \in Nat,
         InOrder(l, c, b), b <= d
  PROVE  InOrder(l, c, d)
<1>1. PICK position \in [SaidBy(l, c) -> 1 .. b] :
        /\ \A i \in SaidBy(l, c) : Says[c][position[i]] = l[i].text
        /\ \A i, j \in SaidBy(l, c) : j < i => position[j] < position[i]
  BY DEF InOrder
<1>2. position \in [SaidBy(l, c) -> 1 .. d]
  BY <1>1
<1> QED
  BY <1>1, <1>2, Zenon DEF InOrder

----------------------------------------------------------------------------
LEMMA InitEchoes == Init => EchoInv
<1> SUFFICES ASSUME Init, NEW c \in Client PROVE EchoOf(c)
  BY DEF EchoInv
<1>1. up[c] = << >> /\ said[c] = 0 /\ log = << >> /\ Len(<< >>) = 0
  BY DEF Init
<1>2. Unpolled(c, << >>, 0, 0) /\ 0 + Len(<< >>) = 0
  BY DEF Unpolled
<1>3. InOrder(<< >>, c, 0)
  <2>1. SaidBy(<< >>, c) = {}
    BY DEF SaidBy
  <2> DEFINE position == [i \in {} |-> 0]
  <2>2. position \in [SaidBy(<< >>, c) -> 1 .. 0]
    BY <2>1
  <2> HIDE DEF position
  <2> QED
    BY <2>1, <2>2 DEF InOrder
<1> QED
  BY <1>1, <1>2, <1>3 DEF EchoOf

\* What is not polled keeps its place while nothing is added in c's name.
LEMMA EchoKept ==
  ASSUME TypeOK, NEW c \in Client, EchoOf(c),
         up'[c] = up[c] \/ (up'[c] = << >> /\ HungUp(c)'), said'[c] = said[c],
         HungUp(c)' <=> HungUp(c),
         \/ log' = log
         \/ \E m \in Message : m.by # c /\ log' = Append(log, m)
  PROVE  EchoOf(c)'
<1>1. PICK b \in 0 .. said[c] :
        /\ Unpolled(c, up[c], b, said[c]) /\ InOrder(log, c, b)
        /\ HungUp(c) \/ b + Len(up[c]) = said[c]
  BY DEF EchoOf
<1>2. said[c] \in Nat /\ b \in Nat /\ log \in Queue /\ up[c] \in Seq(Line) /\ b <= said[c]
  BY <1>1, QueueTypes DEF TypeOK
<1>3. InOrder(log', c, b)
  <2>1. ASSUME NEW m \in Message, m.by # c
        PROVE  InOrder(Append(log, m), c, b)
    <3>1. log \in Queue /\ b \in Nat /\ InOrder(log, c, b) /\ b <= b
      BY <1>1, <1>2
    <3> QED
      BY <2>1, <3>1, OrderAppend
  <2> QED
    BY <1>1, <2>1
<1>4. Unpolled(c, up'[c], b, said[c]) /\ (HungUp(c)' \/ b + Len(up'[c]) = said[c])
  <2>1. CASE up'[c] = up[c]
    BY <1>1, <2>1
  <2>2. CASE up'[c] = << >> /\ HungUp(c)'
    <3>1. Len(<< >>) = 0 /\ b + 0 <= said[c]
      BY <1>2
    <3> QED
      BY <2>2, <3>1 DEF Unpolled
  <2> QED
    BY <2>1, <2>2
<1>5. b \in 0 .. said'[c]
  BY <1>1
<1> QED
  BY <1>3, <1>4, <1>5 DEF EchoOf

LEMMA InputEchoes == ASSUME TypeOK, EchoInv, Input PROVE EchoInv'
<1> SUFFICES ASSUME NEW c \in Client PROVE EchoOf(c)'
  BY DEF EchoInv
<1>1. EchoOf(c) /\ UNCHANGED <<up, said, user, cut>> /\ (HungUp(c)' <=> HungUp(c))
  BY DEF EchoInv, Input, client, HungUp
<1>2. log' = log \/ \E m \in Message : m.by # c /\ log' = Append(log, m)
  <2>1. ASSUME taken < Len(Typed), Broadcast([by |-> "console", text |-> Typed[taken + 1]], tx)
        PROVE  \E m \in Message : m.by # c /\ log' = Append(log, m)
    <3> DEFINE m == [by |-> "console", text |-> Typed[taken + 1]]
    <3>1. Typed[taken + 1] \in Line
      BY <2>1, Constants DEF TypeOK
    <3>2. m \in Message /\ m.by # c /\ log' = Append(log, m)
      BY <2>1, <3>1, Constants DEF Message, Broadcast
    <3> QED
      BY <3>2
  <2> QED
    BY <2>1 DEF Input
<1> QED
  BY <1>1, <1>2, EchoKept

LEMMA EchoEchoes == ASSUME Basic, EchoInv, Echo PROVE EchoInv'
<1> USE DEF Basic
<1> DEFINE c == mClients[at]
<1> SUFFICES ASSUME NEW d \in Client PROVE EchoOf(d)'
  BY DEF EchoInv
<1>1. /\ pc = "echo" /\ EchoOf(d)
      /\ PollClient(c) \/ LoseClient(c)
      /\ UNCHANGED <<user, cut, said>>
      /\ (HungUp(d)' <=> HungUp(d))
  BY DEF Echo, client, HungUp, EchoInv
<1>2. c \in Client /\ Len(down[c]) <= Window
  <2>1. at \in 1 .. Len(mClients)
    BY <1>1, MembersType DEF ListInv, TypeOK
  <2>2. c \in Client
    BY <2>1, MembersType
  <2> QED
    BY <1>1, <2>2 DEF ConnectionInv
<1> HIDE DEF c
<1>3. CASE LoseClient(c)
  <2>1. /\ HungUp(c) /\ log' = log /\ up'[c] = << >>
        /\ \A e \in Client \ {c} : up'[e] = up[e]
    BY <1>2, <1>3, LoseMoves
  <2>2. up'[d] = up[d] \/ (up'[d] = << >> /\ HungUp(d)')
    BY <1>1, <2>1
  <2> QED
    BY <1>1, <2>1, <2>2, EchoKept
<1>4. CASE PollClient(c)
  <2> PICK n \in 0 .. Len(up[c]), k \in 0 .. Len(tx[c]), queues \in [Client -> Queue] :
        PollGives(c, n, k, queues)
    BY <1>2, <1>4, PollMoves
  <2>1. /\ up'[c] = Rest(up[c], n) /\ \A e \in Client \ {c} : up'[e] = up[e]
        /\ \/ n = 0 /\ log' = log
           \/ /\ n > 0 /\ [by |-> c, text |-> up[c][n]] \in Message
              /\ log' = Append(log, [by |-> c, text |-> up[c][n]])
    BY DEF PollGives, Broadcast
  <2>2. CASE d # c
    <3>1. log' = log \/ \E m \in Message : m.by # d /\ log' = Append(log, m)
      BY <2>1, <2>2
    <3> QED
      BY <1>1, <2>1, <2>2, <3>1, EchoKept
  <2>3. CASE d = c
    <3>1. PICK b \in 0 .. said[c] :
            /\ Unpolled(c, up[c], b, said[c]) /\ InOrder(log, c, b)
            /\ HungUp(c) \/ b + Len(up[c]) = said[c]
      BY <1>1, <2>3 DEF EchoOf
    <3>2. /\ said[c] \in Nat /\ b \in Nat /\ log \in Queue /\ up[c] \in Seq(Line)
          /\ n \in Nat /\ b + n \in Nat
      BY <1>2, <3>1, QueueTypes DEF TypeOK
    <3>3. /\ Unpolled(c, Rest(up[c], n), b + n, said[c])
          /\ (b + n) + Len(Rest(up[c], n)) = b + Len(up[c])
          /\ n > 0 => up[c][n] = Says[c][b + n]
          /\ b + n \in 0 .. said[c]
      <4>1. said[c] \in Nat /\ b \in Nat /\ up[c] \in Seq(Line) /\ c \in Client
        BY <1>2, <3>2
      <4>2. Unpolled(c, up[c], b, said[c])
        BY <3>1
      <4>3. Unpolled(c, Rest(up[c], n), b + n, said[c])
        BY <4>1, <4>2, UnpolledCut
      <4>4. (b + n) + Len(Rest(up[c], n)) = b + Len(up[c])
        BY <4>1, <4>2, UnpolledCut
      <4>5. n > 0 => up[c][n] = Says[c][b + n]
        BY <4>1, <4>2, UnpolledCut
      <4>6. b + n \in 0 .. said[c]
        BY <4>1, <4>2, UnpolledCut
      <4> QED
        BY <4>3, <4>4, <4>5, <4>6
    <3>4. InOrder(log', c, b + n)
      <4>1. CASE n = 0
        BY <2>1, <3>1, <3>2, <4>1
      <4>2. CASE n > 0
        <5> DEFINE m == [by |-> c, text |-> up[c][n]]
        <5>1. /\ m \in Message /\ m.by = c /\ m.text = Says[c][b + n] /\ log' = Append(log, m)
              /\ b < b + n /\ b <= b + n
          BY <2>1, <3>2, <3>3, <4>2
        <5> HIDE DEF m
        <5> QED
          BY <1>2, <3>1, <3>2, <5>1, OrderAppend
      <4> QED
        BY <3>2, <4>1, <4>2
    <3> DEFINE polled == b + n
    <3>5. /\ Unpolled(d, up'[d], polled, said'[d]) /\ polled \in 0 .. said'[d]
          /\ HungUp(d)' \/ polled + Len(up'[d]) = said'[d]
      <4>1. up'[d] = Rest(up[c], n) /\ said'[d] = said[c] /\ (HungUp(d)' <=> HungUp(c))
        BY <1>1, <2>1, <2>3
      <4> QED
        BY <2>3, <3>1, <3>3, <4>1
    <3>6. InOrder(log', d, polled)
      BY <2>3, <3>4
    <3> HIDE DEF polled
    <3> QED
      BY <3>5, <3>6 DEF EchoOf
  <2> QED
    BY <2>2, <2>3
<1> QED
  BY <1>1, <1>3, <1>4

LEMMA ClosePollEchoes == ASSUME Basic, EchoInv, ClosePoll PROVE EchoInv'
<1> USE DEF Basic
<1> DEFINE c == Head(mClients)
<1> SUFFICES ASSUME NEW d \in Client PROVE EchoOf(d)'
  BY DEF EchoInv
<1>1. /\ EchoOf(d) /\ AtHead(c)
      /\ Flush(c) \/ LoseClient(c)
      /\ UNCHANGED <<user, cut, said>>
      /\ (HungUp(d)' <=> HungUp(d))
  BY HeadIsOpen DEF ClosePoll, client, HungUp, EchoInv
<1> HIDE DEF c
<1>2. CASE LoseClient(c)
  <2>1. /\ HungUp(c) /\ log' = log /\ up'[c] = << >>
        /\ \A e \in Client \ {c} : up'[e] = up[e]
    BY <1>1, <1>2, LoseMoves DEF AtHead
  <2>2. up'[d] = up[d] \/ (up'[d] = << >> /\ HungUp(d)')
    BY <1>1, <2>1
  <2> QED
    BY <1>1, <2>1, <2>2, EchoKept
<1>3. CASE Flush(c)
  <2>1. up' = up /\ log' = log
    BY <1>3 DEF Flush
  <2> QED
    BY <1>1, <2>1, EchoKept
<1> QED
  BY <1>1, <1>2, <1>3

LEMMA SayEchoes == ASSUME TypeOK, EchoInv, NEW c \in Client, Say(c) PROVE EchoInv'
<1> SUFFICES ASSUME NEW d \in Client PROVE EchoOf(d)'
  BY DEF EchoInv
<1> DEFINE text == Says[c][said[c] + 1]
<1>1. /\ user[c] = "chatting" /\ said[c] < Len(Says[c])
      /\ said'[c] = said[c] + 1 /\ text \in Line
      /\ \A e \in Client \ {c} : said'[e] = said[e] /\ up'[e] = up[e] /\ user'[e] = user[e]
      /\ \/ up'[c] = up[c] /\ cut[c]
         \/ ~cut[c] /\ up'[c] = Append(up[c], text)
         \/ /\ ~cut[c] /\ user'[c] = "gone"
            /\ \E n \in 0 .. Len(up[c]) + 1 : up'[c] = First(Append(up[c], text), n)
  BY SayMoves
<1>2. EchoOf(d) /\ log' = log /\ cut' = cut
  BY DEF EchoInv, Say
<1>3. CASE d # c
  <2>1. HungUp(d)' <=> HungUp(d)
    BY <1>1, <1>2, <1>3 DEF HungUp
  <2> QED
    BY <1>1, <1>2, <1>3, <2>1, EchoKept
<1>4. CASE d = c
  <2>1. PICK b \in 0 .. said[c] :
          /\ Unpolled(c, up[c], b, said[c]) /\ InOrder(log, c, b)
          /\ HungUp(c) \/ b + Len(up[c]) = said[c]
    BY <1>2, <1>4 DEF EchoOf
  <2>2. /\ said[c] \in Nat /\ b \in Nat /\ up[c] \in Seq(Line) /\ Len(up[c]) \in Nat
        /\ b \in 0 .. said'[c]
    <3>1. said[c] \in Nat /\ up[c] \in Seq(Line) /\ Len(up[c]) \in Nat
      BY QueueTypes DEF TypeOK
    <3> QED
      BY <1>1, <2>1, <3>1
  <2>3. InOrder(log', c, b)
    BY <1>2, <2>1
  <2> HIDE DEF text
  <2>4. CASE cut[c] /\ up'[c] = up[c]
    <3>1. HungUp(c)'
      BY <1>2, <2>4 DEF HungUp
    <3>2. Unpolled(c, up'[c], b, said'[c])
      BY <1>1, <2>1, <2>2, <2>4 DEF Unpolled
    <3> QED
      BY <1>4, <2>2, <2>3, <3>1, <3>2 DEF EchoOf
  <2>5. CASE ~cut[c]
    <3> DEFINE u == up[c]
               typed == said[c]
               more == Append(u, text)
    <3>1. u \in Seq(Line) /\ b \in Nat /\ typed \in Nat
      BY <2>2
    <3>2. /\ Unpolled(c, u, b, typed) /\ b + Len(u) = typed
          /\ text \in Line /\ text = Says[c][typed + 1]
      BY <1>1, <2>1, <2>5 DEF HungUp, text
    <3> HIDE DEF u, typed
    <3>3. Unpolled(c, more, b, typed + 1) /\ b + Len(more) = typed + 1
      <4>1. /\ Len(more) = Len(u) + 1 /\ Len(u) \in Nat /\ more[Len(u) + 1] = text
            /\ \A j \in 1 .. Len(u) : more[j] = u[j]
        BY <3>1, <3>2, AppendProperties, LenProperties
      <4> HIDE DEF more
      <4>2. b + Len(more) = typed + 1 /\ b + Len(more) <= typed + 1
        BY <3>1, <3>2, <4>1
      <4>3. ASSUME NEW j \in 1 .. Len(more)
            PROVE  more[j] = Says[c][b + j]
        <5>1. CASE j \in 1 .. Len(u)
          BY <3>2, <4>1, <5>1 DEF Unpolled
        <5>2. CASE j = Len(u) + 1
          <6>1. b + j = typed + 1
            BY <3>1, <3>2, <4>1, <5>2
          <6> QED
            BY <3>2, <4>1, <5>2, <6>1
        <5> QED
          BY <4>1, <5>1, <5>2
      <4> QED
        BY <4>2, <4>3 DEF Unpolled
    <3>4. more \in Seq(Line) /\ Len(more) = Len(u) + 1
      BY <3>1, <3>2, AppendProperties
    <3> HIDE DEF more
    <3>5. CASE up'[c] = more
      BY <1>1, <1>4, <2>2, <2>3, <3>3, <3>5 DEF EchoOf, typed
    <3>6. ASSUME user'[c] = "gone", NEW n \in 0 .. Len(more), up'[c] = First(more, n)
          PROVE  EchoOf(d)'
      <4>1. Unpolled(c, more, b, typed + 1) /\ typed + 1 \in Nat
        BY <3>1, <3>3
      <4>2. Unpolled(c, First(more, n), b, typed + 1)
        BY <3>1, <3>4, <4>1, UnpolledCut
      <4>3. HungUp(c)'
        BY <3>6 DEF HungUp
      <4>4. Unpolled(c, up'[c], b, said'[c])
        BY <1>1, <3>6, <4>2 DEF typed
      <4> QED
        BY <1>4, <2>2, <2>3, <4>3, <4>4 DEF EchoOf
    <3> QED
      BY <1>1, <2>5, <3>4, <3>5, <3>6 DEF text, more, u
  <2> QED
    BY <1>1, <2>4, <2>5 DEF text
<1> QED
  BY <1>3, <1>4

LEMMA PollEchoes ==
  ASSUME TypeOK, EchoInv, NEW c \in Client, ClientPoll(c) \/ Break(c)
  PROVE  EchoInv'
<1> SUFFICES ASSUME NEW d \in Client PROVE EchoOf(d)'
  BY DEF EchoInv
<1>1. EchoOf(d) /\ UNCHANGED <<log, said, user>>
  BY DEF EchoInv, ClientPoll, Break
<1>2. /\ \A e \in Client \ {c} : cut'[e] = cut[e] /\ up'[e] = up[e]
      /\ \/ cut' = cut /\ up' = up
         \/ /\ cut'[c] = TRUE
            /\ \E n \in 0 .. Len(up[c]) : up'[c] = First(up[c], n)
  BY ClientPollMoves
<1>3. CASE up'[d] = up[d] /\ cut'[d] = cut[d]
  <2>1. HungUp(d)' <=> HungUp(d)
    BY <1>1, <1>3 DEF HungUp
  <2> QED
    BY <1>1, <1>3, <2>1, EchoKept
<1>4. ASSUME d = c, cut'[c] = TRUE, NEW n \in 0 .. Len(up[c]), up'[c] = First(up[c], n)
      PROVE  EchoOf(d)'
  <2>1. PICK b \in 0 .. said[c] :
          /\ Unpolled(c, up[c], b, said[c]) /\ InOrder(log, c, b)
          /\ HungUp(c) \/ b + Len(up[c]) = said[c]
    BY <1>1, <1>4 DEF EchoOf
  <2>2. /\ said[c] \in Nat /\ b \in Nat /\ up[c] \in Seq(Line)
    BY <2>1, QueueTypes DEF TypeOK
  <2>3. Unpolled(c, up[c], b, said[c])
    BY <2>1
  <2>4. Unpolled(c, First(up[c], n), b, said[c])
    BY <1>4, <2>2, <2>3, UnpolledCut
  <2>5. HungUp(c)'
    BY <1>4 DEF HungUp
  <2>6. Unpolled(c, up'[c], b, said'[c]) /\ InOrder(log', c, b) /\ b \in 0 .. said'[c]
    BY <1>1, <1>4, <2>1, <2>4
  <2> QED
    BY <1>4, <2>5, <2>6 DEF EchoOf
<1> QED
  BY <1>2, <1>3, <1>4

LEMMA StepEchoes == Basic /\ EchoInv /\ [Next]_vars => EchoInv'
<1> SUFFICES ASSUME Basic, EchoInv, [Next]_vars PROVE EchoInv'
  OBVIOUS
<1> USE DEF Basic
<1>1. ASSUME UNCHANGED <<up, said, log, cut>>, \A c \in Client : HungUp(c)' <=> HungUp(c)
      PROVE  EchoInv'
  <2>1. ASSUME NEW c \in Client
        PROVE  EchoOf(c)'
    BY <1>1, EchoKept DEF EchoInv
  <2> QED
    BY <2>1 DEF EchoInv
<1>2. CASE Accept \/ DropClosed \/ Reap \/ GiveUp \/ Delete \/ Quit \/ UNCHANGED vars
  <2>1. UNCHANGED <<up, said, log, cut, user>>
    BY <1>2 DEF Accept, DropClosed, Reap, GiveUp, Delete, Quit, vars, client
  <2> QED
    BY <1>1, <2>1 DEF HungUp
<1>3. ASSUME NEW c \in Client, Connect(c)
      PROVE  EchoInv'
  <2>1. UNCHANGED <<up, said, log, cut>> /\ user[c] = "away" /\ user' = [user EXCEPT ![c] = "chatting"]
    BY <1>3 DEF Connect
  <2>2. \A d \in Client : HungUp(d)' <=> HungUp(d)
    BY <2>1 DEF HungUp, TypeOK
  <2> QED
    BY <1>1, <2>1, <2>2
<1> QED
  BY <1>2, <1>3, InputEchoes, EchoEchoes, ClosePollEchoes, SayEchoes, PollEchoes
  DEF Next, Server, ClientStep

LEMMA EchoesAlways == Spec => [](Basic /\ EchoInv)
<1>1. Init => Basic /\ EchoInv
  BY InitBasic, InitEchoes
<1>2. Basic /\ EchoInv /\ [Next]_vars => (Basic /\ EchoInv)'
  BY StepBasic, StepEchoes
<1> QED
  BY <1>1, <1>2, PTL DEF Spec

(***************************************************************************)
(* Nobody is quoted with a line he has not typed, nor twice with one, nor  *)
(* out of order, whenever connections break and polls take several lines   *)
(* of which only the last is echoed.                                       *)
(***************************************************************************)
THEOREM EchoesAreTrue == Spec => []EchoesInOrder
<1>1. ASSUME Basic, EchoInv
      PROVE  EchoesInOrder
  <2> SUFFICES ASSUME NEW c \in Client
               PROVE  InOrder(log, c, said[c])
    BY DEF EchoesInOrder, InOrder, By, SaidBy
  <2>1. PICK b \in 0 .. said[c] : InOrder(log, c, b)
    BY <1>1 DEF EchoInv, EchoOf
  <2>2. said[c] \in Nat /\ b \in Nat /\ b <= said[c] /\ log \in Queue
    BY <1>1, <2>1 DEF Basic, TypeOK
  <2> QED
    BY <2>1, <2>2, OrderLater
<1> QED
  BY <1>1, EchoesAlways, PTL

=============================================================================
