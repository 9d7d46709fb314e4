------------------------- MODULE SharedSocketProofs -------------------------
(***************************************************************************)
(* Proofs about SharedSocket: however often the two programs start, fail   *)
(* and end, and in whatever order, a client the server counts has its      *)
(* rings, and nothing that goes into them is lost.                         *)
(***************************************************************************)
EXTENDS SharedSocket, SequenceLemmas, FiniteSetTheorems

At(p, place, f) == pc[p] = place /\ file[p] = f

\* The server has made the file and not yet gone on to the next.
Making(f) == At("server", "zero", f) \/ At("server", "map", f)

\* It has both files, and initialises the rings.
Initialising == pc["server"] \in {"init", "clear", "number"}

(***************************************************************************)
(* What the programs know of each other.  A client can use a ring only     *)
(* while it has its file mapped, and then the server cannot make the file  *)
(* anew; so a client that found the ring it writes to usable found it so   *)
(* after the server, in this order, had stamped the ring it reads from.    *)
(***************************************************************************)
ServerViews ==
  /\ pc["server"] = "off" => view["server"] = NoView
  /\ pc["server"] \in {"off", "open", "zero", "map"} => view["server"]["clientFile"] = "none"
  /\ Initialising => \A f \in File : view["server"][f] # "none"

ClientViews == \A f \in header["client"] : view["client"][f] # "none"

\* The client's ring is not stamped before the server's.
StampedInOrder ==
  /\ Making("clientFile") \/ At("server", "init", "serverFile") =>
       ~stamped["clientFile"] /\ "clientFile" \notin header["client"]
  /\ (Initialising /\ ~At("server", "init", "serverFile")) \/ pc["server"] = "up" =>
       stamped["serverFile"]

BothOrNone ==
  /\ Initialising \/ pc["server"] = "up"
  /\ pc["client"] \in {"join", "up"}
  /\ "clientFile" \in header["client"] /\ view["client"]["serverFile"] = "full"
  => "serverFile" \in header["client"]

MeetingInv == ServerViews /\ ClientViews /\ StampedInOrder /\ BothOrNone

\* Every run has a number, and what a run is called after its end is not known before it.
Numbered == pc["client"] # "off" => runs["client"] > 0

\* A run of the client counts from its join on, and has its ring for writing.
JoinedHasRing ==
  runs["client"] \in joined =>
    pc["client"] = "off" \/ (pc["client"] = "up" /\ "clientFile" \in header["client"])

\* What is in the client's file is from its runs so far, and from this one only once it is up.
FromRuns(sent) ==
  \A i \in 1 .. Len(sent) :
    /\ sent[i].run <= runs["client"]
    /\ pc["client"] \notin {"off", "up"} => sent[i].run # runs["client"]

CountedInv == JoinedHasRing /\ FromRuns(put["clientFile"])

\* The server has the file in hand, and has not started its loop.
Holds(f) == pc["server"] # "up" /\ (Making(f) \/ view["server"][f] # "none")

Cleared == At("server", "number", "clientFile")

\* What is in the ring the client writes to is all but the first n pieces it was given.
Keeps(n) ==
  ring["clientFile"] = SubSeq(put["clientFile"], n + 1, Len(put["clientFile"]))

(***************************************************************************)
(* What is in the rings while the server sets them up.  A client that was  *)
(* let in too early may write all the time, but the server reads nothing   *)
(* before its loop, and it has no socket to write to before that.          *)
(***************************************************************************)
ServerPieces ==
  /\ got["serverFile"] \o ring["serverFile"] = put["serverFile"]
  /\ Holds("serverFile") => put["serverFile"] = << >>

ClientPieces ==
  /\ Holds("clientFile") => got["clientFile"] = << >>
  /\ Holds("clientFile") /\ ~Cleared => ring["clientFile"] = put["clientFile"]
  /\ Cleared => \E n \in 0 .. Len(put["clientFile"]) : Keeps(n)
  /\ pc["server"] = "up" => \E n \in 0 .. Len(put["clientFile"]) : Lost(n)

PiecesInv == ServerPieces /\ ClientPieces

----------------------------------------------------------------------------
(***************************************************************************)
(* Types.                                                                  *)
(***************************************************************************)
TypeInv == TypeOK /\ Numbered

\* How many pieces a run has sent is a number.
LEMMA SentCounts ==
  ASSUME TypeOK, NEW p \in Process
  PROVE  Cardinality(Sent(p)) \in Nat
<1>1. put[Outgoing(p)] \in Seq(Piece)
  BY DEF TypeOK, Outgoing, File
<1>2. Len(put[Outgoing(p)]) \in Nat /\ DOMAIN put[Outgoing(p)] = 1 .. Len(put[Outgoing(p)])
  BY <1>1, LenProperties
<1>3. IsFiniteSet(DOMAIN put[Outgoing(p)])
  BY <1>2, FS_Interval
<1>4. Sent(p) \subseteq DOMAIN put[Outgoing(p)]
  BY DEF Sent
<1>5. IsFiniteSet(Sent(p))
  BY <1>3, <1>4, FS_Subset
<1> QED
  BY <1>5, FS_CardinalityType

\* What a program writes is a piece.
LEMMA PieceType ==
  ASSUME TypeInv
  PROVE  \A p \in Process : [run |-> runs[p], part |-> Cardinality(Sent(p)) + 1] \in Piece
<1> SUFFICES ASSUME NEW p \in Process
             PROVE  [run |-> runs[p], part |-> Cardinality(Sent(p)) + 1] \in Piece
  OBVIOUS
<1> DEFINE count == Cardinality(Sent(p))
<1>1. count \in Nat /\ runs[p] \in Nat
  BY SentCounts DEF TypeInv, TypeOK
<1> HIDE DEF count
<1>2. [run |-> runs[p], part |-> count + 1] \in Piece
  BY <1>1 DEF Piece
<1> QED
  BY <1>2 DEF count

LEMMA TypesAtStart == Init => TypeInv
<1> SUFFICES ASSUME Init
             PROVE  TypeInv
  OBVIOUS
<1>1. << >> \in Seq(Piece) /\ Len(<< >>) = 0
  BY EmptySeq
<1>2. RingSize \in Nat
  BY SharedAssumption
<1>3. /\ ring \in [File -> Seq(Piece)] /\ \A f \in File : Len(ring[f]) <= RingSize
      /\ put \in [File -> Seq(Piece)] /\ got \in [File -> Seq(Piece)]
  BY <1>1, <1>2 DEF Init
<1>4. /\ size \in [File -> {"absent", "empty", "full"}]
      /\ stamped \in [File -> BOOLEAN]
      /\ sequence \in Nat
  BY DEF Init
<1>5. /\ pc \in [Process -> {"off", "open", "zero", "map", "init", "clear", "number", "join",
                              "up", "down"}]
      /\ file \in [Process -> File]
      /\ measured \in {"empty", "full"}
      /\ view \in [Process -> [File -> {"none", "empty", "full"}]]
      /\ header \in [Process -> SUBSET File]
  BY DEF Init, NoView, File
<1>6. /\ mFirst \in BOOLEAN /\ runs \in [Process -> Nat]
      /\ joined \subseteq 1 .. runs["client"] /\ late \in BOOLEAN
  BY DEF Init
<1>7. Numbered
  BY DEF Init, Numbered, Process
<1> QED
  BY <1>3, <1>4, <1>5, <1>6, <1>7, Zenon DEF TypeInv, TypeOK

\* Where a program goes is a place it can be at.
Placed ==
  /\ pc \in [Process -> {"off", "open", "zero", "map", "init", "clear", "number", "join",
                         "up", "down"}]
  /\ file \in [Process -> File]

LEMMA AfterFilePlaces ==
  ASSUME TypeOK, NEW p \in Process, NEW views, AfterFile(p, views)
  PROVE  Placed' /\ pc' = [pc EXCEPT ![p] = pc'[p]] /\ pc'[p] \in {"open", "init", "down"}
  BY DEF TypeOK, AfterFile, Turn, Goto, Placed, Process, File, InitOrder, Outgoing, Incoming

LEMMA StartTypes ==
  ASSUME TypeInv, NEW p \in Process, Start(p)
  PROVE  TypeInv'
<1>1. /\ runs' \in [Process -> Nat] /\ runs'["client"] >= runs["client"]
      /\ runs["client"] \in Nat
      /\ pc'["client"] # "off" => runs'["client"] > 0
      /\ Placed'
  BY DEF TypeInv, TypeOK, Numbered, Start, Turn, Goto, Placed, Process, File
<1>2. joined' \subseteq 1 .. runs'["client"]
  <2>1. joined \subseteq 1 .. runs["client"] /\ joined' = joined
    BY DEF TypeInv, TypeOK, Start, history
  <2>2. runs'["client"] \in Nat
    BY <1>1 DEF Process
  <2> QED
    BY <1>1, <2>1, <2>2
<1>3. mFirst' \in BOOLEAN /\ late' \in BOOLEAN
  BY DEF TypeInv, TypeOK, Start
<1> QED
  BY <1>1, <1>2, <1>3 DEF TypeInv, TypeOK, Numbered, Placed, Start, files, history

LEMMA CreateFreshTypes ==
  ASSUME TypeInv, CreateFresh
  PROVE  TypeInv'
<1>1. << >> \in Seq(Piece) /\ Len(<< >>) = 0 /\ RingSize \in Nat
  BY EmptySeq, SharedAssumption
<1>2. /\ ring' \in [File -> Seq(Piece)] /\ \A f \in File : Len(ring'[f]) <= RingSize
      /\ put' \in [File -> Seq(Piece)] /\ got' \in [File -> Seq(Piece)]
  BY <1>1 DEF TypeInv, TypeOK, CreateFresh, Process
<1>3. joined' \subseteq 1 .. runs'["client"] /\ sequence' \in Nat
  BY DEF TypeInv, TypeOK, CreateFresh
<1>4. /\ pc' \in [Process -> {"off", "open", "zero", "map", "init", "clear", "number", "join",
                              "up", "down"}]
      /\ Numbered'
  BY DEF TypeInv, TypeOK, Numbered, CreateFresh, Goto, Process
<1>5. /\ size' \in [File -> {"absent", "empty", "full"}]
      /\ stamped' \in [File -> BOOLEAN]
  BY DEF TypeInv, TypeOK, CreateFresh
<1> QED
  BY <1>2, <1>3, <1>4, <1>5 DEF TypeInv, TypeOK, CreateFresh

LEMMA CreateFailsTypes ==
  ASSUME TypeInv, CreateFails
  PROVE  TypeInv'
  BY AfterFilePlaces
  DEF TypeInv, TypeOK, Numbered, Process, File, files, objects, history,
      Placed, CreateFails

LEMMA WriteZerosTypes ==
  ASSUME TypeInv, WriteZeros
  PROVE  TypeInv'
  BY DEF TypeInv, TypeOK, Numbered, Process, File, files, objects, history,
      WriteZeros, Goto

LEMMA MeasureFileTypes ==
  ASSUME TypeInv, MeasureFile
  PROVE  TypeInv'
  BY AfterFilePlaces
  DEF TypeInv, TypeOK, Numbered, Process, File, files, objects, history,
      Placed, MeasureFile, Goto

LEMMA MapFileTypes ==
  ASSUME TypeInv, NEW p \in Process, MapFile(p)
  PROVE  TypeInv'
  BY AfterFilePlaces
  DEF TypeInv, TypeOK, Numbered, Process, File, files, objects, history,
      Placed, MapFile

LEMMA StampTypes ==
  ASSUME TypeInv, Stamp
  PROVE  TypeInv'
  BY DEF TypeInv, TypeOK, Numbered, Process, File, files, objects, history,
      Stamp, Goto

LEMMA ClearIndicesTypes ==
  ASSUME TypeInv, ClearIndices
  PROVE  TypeInv'
  BY EmptySeq, SharedAssumption
  DEF TypeInv, TypeOK, Numbered, Process, File, files, objects, history,
      ClearIndices, Goto

LEMMA ResetSequenceTypes ==
  ASSUME TypeInv, ResetSequence
  PROVE  TypeInv'
<1>1. Placed'
  BY DEF TypeInv, TypeOK, ResetSequence, AfterRing, Turn, Goto, Placed, Process, File,
     InitOrder, Outgoing, Incoming
<1>2. pc'["client"] = pc["client"]
  BY DEF TypeInv, TypeOK, ResetSequence, AfterRing, Turn, Goto, Process
<1>3. joined' \subseteq 1 .. runs'["client"] /\ sequence' \in Nat
  BY DEF TypeInv, TypeOK, ResetSequence
<1> QED
  BY <1>1, <1>2, <1>3 DEF TypeInv, TypeOK, Numbered, Placed, ResetSequence

LEMMA InitClientTypes ==
  ASSUME TypeInv, InitClient
  PROVE  TypeInv'
  BY DEF TypeInv, TypeOK, Numbered, Process, File, files, objects, history,
      InitClient, CheckHeader, AfterRing, Turn, Goto,
      InitOrder, Outgoing, Incoming

LEMMA JoinTypes ==
  ASSUME TypeInv, Join
  PROVE  TypeInv'
<1>1. /\ runs["client"] \in Nat /\ runs["client"] > 0 /\ sequence \in Nat
      /\ joined \subseteq 1 .. runs["client"]
  BY DEF TypeInv, TypeOK, Numbered, Join, Process
<1>2. /\ joined' = joined \/ joined' = joined \cup {runs["client"]}
      /\ sequence' = sequence \/ sequence' = sequence + 1
      /\ runs' = runs
  BY DEF Join
<1>3. joined' \subseteq 1 .. runs'["client"] /\ sequence' \in Nat
  <2>1. runs["client"] \in 1 .. runs["client"]
    BY <1>1
  <2>2. joined' \subseteq 1 .. runs["client"]
    BY <1>1, <1>2, <2>1
  <2> QED
    BY <1>1, <1>2, <2>2
<1>4. /\ pc' \in [Process -> {"off", "open", "zero", "map", "init", "clear", "number", "join",
                              "up", "down"}]
      /\ Numbered'
  BY <1>1, <1>2 DEF TypeInv, TypeOK, Numbered, Join, Goto, Process
<1> QED
  BY <1>3, <1>4 DEF TypeInv, TypeOK, Join

LEMMA PollServerTypes ==
  ASSUME TypeInv, PollServer
  PROVE  TypeInv'
  BY DEF TypeInv, TypeOK, Numbered, Process, File, files, objects, history,
      PollServer

\* A piece goes in at the end of a ring that has room.
LEMMA SendTypes ==
  ASSUME TypeInv, NEW p \in Process, Send(p)
  PROVE  TypeInv'
<1> DEFINE f     == Outgoing(p)
           piece == [run |-> runs[p], part |-> Cardinality(Sent(p)) + 1]
<1>1. f \in File /\ piece \in Piece
  BY PieceType DEF Outgoing, Process, File
<1>2. /\ ring' = [ring EXCEPT ![f] = Append(ring[f], piece)]
      /\ put' = [put EXCEPT ![f] = Append(put[f], piece)]
      /\ Len(ring[f]) < RingSize
  BY DEF Send, HasRoom
<1>3. ring \in [File -> Seq(Piece)] /\ put \in [File -> Seq(Piece)]
  BY DEF TypeInv, TypeOK
<1> HIDE DEF f, piece
<1>4. /\ ring[f] \in Seq(Piece) /\ put[f] \in Seq(Piece)
  BY <1>1, <1>3
<1>5. /\ Append(ring[f], piece) \in Seq(Piece) /\ Append(put[f], piece) \in Seq(Piece)
      /\ Len(Append(ring[f], piece)) = Len(ring[f]) + 1 /\ Len(ring[f]) \in Nat
  BY <1>1, <1>4, AppendProperties, LenProperties
<1>6. Len(ring[f]) + 1 <= RingSize
  BY <1>2, <1>5, SharedAssumption
<1>7. /\ ring' \in [File -> Seq(Piece)] /\ put' \in [File -> Seq(Piece)]
      /\ \A g \in File : Len(ring'[g]) <= RingSize
  <2>1. \A g \in File : Len(ring[g]) <= RingSize
    BY DEF TypeInv, TypeOK
  <2> QED
    BY <1>1, <1>2, <1>3, <1>5, <1>6, <2>1
<1> QED
  BY <1>7 DEF TypeInv, TypeOK, Numbered, Send, objects

\* The first pieces of the ring come out of it.
LEMMA ReceiveTypes ==
  ASSUME TypeInv, NEW p \in Process, Receive(p)
  PROVE  TypeInv'
<1> DEFINE f == Incoming(p)
<1>1. f \in File
  BY DEF Incoming, File
<1>2. PICK n \in 1 .. Len(ring[f]) :
        /\ got' = [got EXCEPT ![f] = got[f] \o SubSeq(ring[f], 1, n)]
        /\ ring' = [ring EXCEPT ![f] = SubSeq(ring[f], n + 1, Len(ring[f]))]
  BY DEF Receive, Readable
<1>3. ring \in [File -> Seq(Piece)] /\ got \in [File -> Seq(Piece)]
  BY DEF TypeInv, TypeOK
<1> HIDE DEF f
<1>4. ring[f] \in Seq(Piece) /\ got[f] \in Seq(Piece)
  BY <1>1, <1>3
<1>5. Len(ring[f]) \in Nat /\ n \in 0 .. Len(ring[f])
  BY <1>4, LenProperties
<1>6. /\ SubSeq(ring[f], 1, n) \in Seq(Piece)
      /\ SubSeq(ring[f], n + 1, Len(ring[f])) \in Seq(Piece)
      /\ Len(SubSeq(ring[f], n + 1, Len(ring[f]))) = Len(ring[f]) - n
  BY <1>4, <1>5, PartsType
<1>7. got[f] \o SubSeq(ring[f], 1, n) \in Seq(Piece)
  BY <1>4, <1>6, ConcatProperties
<1>8. /\ ring' \in [File -> Seq(Piece)] /\ got' \in [File -> Seq(Piece)]
      /\ \A g \in File : Len(ring'[g]) <= RingSize
  <2>1. \A g \in File : Len(ring[g]) <= RingSize
    BY DEF TypeInv, TypeOK
  <2>2. Len(ring[f]) - n <= RingSize
    BY <1>1, <1>5, <2>1, SharedAssumption
  <2> QED
    BY <1>1, <1>2, <1>3, <1>6, <1>7, <2>1, <2>2
<1> QED
  BY <1>8 DEF TypeInv, TypeOK, Numbered, Receive, objects

LEMMA EndedTypes ==
  ASSUME TypeInv, NEW p \in Process, Ended(p)
  PROVE  TypeInv'
  BY DEF TypeInv, TypeOK, Numbered, Process, File, files, objects, history,
      Ended, Goto, NoView

LEMMA TypesStay == TypeInv /\ [Next]_vars => TypeInv'
<1> SUFFICES ASSUME TypeInv, [Next]_vars
             PROVE  TypeInv'
  OBVIOUS
<1>1. ASSUME NEW p \in Process, Start(p) \/ Send(p) \/ Exit(p)
      PROVE  TypeInv'
  BY <1>1, StartTypes, SendTypes, EndedTypes DEF Exit
<1>2. CASE ServerStep
  BY <1>2, CreateFreshTypes, CreateFailsTypes, WriteZerosTypes, MapFileTypes, StampTypes,
     ClearIndicesTypes, ResetSequenceTypes, PollServerTypes, ReceiveTypes
     DEF ServerStep, Process
<1>3. CASE ClientStep
  BY <1>3, MeasureFileTypes, MapFileTypes, InitClientTypes, JoinTypes, ReceiveTypes, EndedTypes
     DEF ClientStep, ReadFault, Process
<1>4. CASE WriteFault("client")
  BY <1>4, EndedTypes DEF WriteFault, Process
<1>5. CASE UNCHANGED vars
  BY <1>5 DEF TypeInv, TypeOK, Numbered, vars, files, objects, history
<1> QED
  BY <1>1, <1>2, <1>3, <1>4, <1>5 DEF Next

LEMMA TypesHold == Spec => []TypeInv
  BY TypesAtStart, TypesStay, PTL DEF Spec

(***************************************************************************)
(* Every variable of the two programs and of their files keeps its type,   *)
(* a ring never holds more than it has room for, and only runs of the      *)
(* client that were started count in the sequence number.                  *)
(***************************************************************************)
THEOREM Typed == Spec => []TypeOK
<1>1. TypeInv => TypeOK
  BY DEF TypeInv
<1> QED
  BY <1>1, TypesHold, PTL

----------------------------------------------------------------------------
(***************************************************************************)
(* How the two meet.                                                       *)
(***************************************************************************)
LEMMA MeetingAtStart == Init => MeetingInv
  BY DEF Init, MeetingInv, ServerViews, ClientViews, StampedInOrder, BothOrNone, Making, At,
     Initialising, Process, File, NoView

LEMMA StartMeets ==
  ASSUME TypeInv, MeetingInv, NEW p \in Process, Start(p)
  PROVE  MeetingInv'
  BY DEF TypeInv, TypeOK, MeetingInv, ServerViews, ClientViews, StampedInOrder, BothOrNone,
      Making, At, Initialising, Process, File, files, objects, history,
      Start, Turn, Goto, NoView

LEMMA CreateFreshMeets ==
  ASSUME TypeInv, MeetingInv, CreateFresh
  PROVE  MeetingInv'
  BY DEF TypeInv, TypeOK, MeetingInv, ServerViews, ClientViews, StampedInOrder, BothOrNone,
      Making, At, Initialising, Process, File, files, objects, history,
      CreateFresh, Mapped, Goto

LEMMA CreateFailsMeets ==
  ASSUME TypeInv, MeetingInv, CreateFails
  PROVE  MeetingInv'
  BY DEF TypeInv, TypeOK, MeetingInv, ServerViews, ClientViews, StampedInOrder, BothOrNone,
      Making, At, Initialising, Process, File, files, objects, history,
      CreateFails, AfterFile, Turn, Goto, InitOrder, Outgoing, Incoming

LEMMA WriteZerosMeets ==
  ASSUME TypeInv, MeetingInv, WriteZeros
  PROVE  MeetingInv'
  BY DEF TypeInv, TypeOK, MeetingInv, ServerViews, ClientViews, StampedInOrder, BothOrNone,
      Making, At, Initialising, Process, File, files, objects, history,
      WriteZeros, Goto

LEMMA MeasureFileMeets ==
  ASSUME TypeInv, MeetingInv, MeasureFile
  PROVE  MeetingInv'
  BY DEF TypeInv, TypeOK, MeetingInv, ServerViews, ClientViews, StampedInOrder, BothOrNone,
      Making, At, Initialising, Process, File, files, objects, history,
      MeasureFile, AfterFile, Turn, Goto

LEMMA MapFileMeets ==
  ASSUME TypeInv, MeetingInv, NEW p \in Process, MapFile(p)
  PROVE  MeetingInv'
  BY DEF TypeInv, TypeOK, MeetingInv, ServerViews, ClientViews, StampedInOrder, BothOrNone,
      Making, At, Initialising, Process, File, files, objects, history,
      MapFile, AfterFile, Turn, Goto, InitOrder, Outgoing, Incoming

LEMMA StampMeets ==
  ASSUME TypeInv, MeetingInv, Stamp
  PROVE  MeetingInv'
  BY DEF TypeInv, TypeOK, MeetingInv, ServerViews, ClientViews, StampedInOrder, BothOrNone,
      Making, At, Initialising, Process, File, files, objects, history,
      Stamp, Goto

LEMMA ClearIndicesMeets ==
  ASSUME TypeInv, MeetingInv, ClearIndices
  PROVE  MeetingInv'
  BY DEF TypeInv, TypeOK, MeetingInv, ServerViews, ClientViews, StampedInOrder, BothOrNone,
      Making, At, Initialising, Process, File, files, objects, history,
      ClearIndices, Goto

LEMMA ResetSequenceMeets ==
  ASSUME TypeInv, MeetingInv, ResetSequence
  PROVE  MeetingInv'
  BY DEF TypeInv, TypeOK, MeetingInv, ServerViews, ClientViews, StampedInOrder, BothOrNone,
      Making, At, Initialising, Process, File, files, objects, history,
      ResetSequence, AfterRing, Turn, Goto, InitOrder, Outgoing, Incoming

LEMMA InitClientMeets ==
  ASSUME TypeInv, MeetingInv, InitClient
  PROVE  MeetingInv'
  BY DEF TypeInv, TypeOK, MeetingInv, ServerViews, ClientViews, StampedInOrder, BothOrNone,
      Making, At, Initialising, Process, File, files, objects, history,
      InitClient, CheckHeader, AfterRing, Turn, Goto, InitOrder, Outgoing, Incoming

LEMMA JoinMeets ==
  ASSUME TypeInv, MeetingInv, Join
  PROVE  MeetingInv'
  BY DEF TypeInv, TypeOK, MeetingInv, ServerViews, ClientViews, StampedInOrder, BothOrNone,
      Making, At, Initialising, Process, File, files, objects, history,
      Join, Goto

LEMMA EndedMeets ==
  ASSUME TypeInv, MeetingInv, NEW p \in Process, Ended(p)
  PROVE  MeetingInv'
  BY DEF TypeInv, TypeOK, MeetingInv, ServerViews, ClientViews, StampedInOrder, BothOrNone,
      Making, At, Initialising, Process, File, files, objects, history,
      Ended, Goto, NoView

LEMMA MeetingStays == TypeInv /\ MeetingInv /\ [Next]_vars => MeetingInv'
<1> SUFFICES ASSUME TypeInv, MeetingInv, [Next]_vars
             PROVE  MeetingInv'
  OBVIOUS
<1>1. ASSUME NEW p \in Process, Start(p) \/ Exit(p)
      PROVE  MeetingInv'
  BY <1>1, StartMeets, EndedMeets DEF Exit
<1>2. CASE \/ PollServer \/ UNCHANGED vars
           \/ \E p \in Process : Send(p) \/ Receive(p)
  BY <1>2 DEF MeetingInv, ServerViews, ClientViews, StampedInOrder, BothOrNone, Making, At,
     Initialising, PollServer, Send, Receive, vars, files, objects
<1>3. CASE ServerStep /\ ~PollServer /\ ~Receive("server")
  BY <1>3, CreateFreshMeets, CreateFailsMeets, WriteZerosMeets, MapFileMeets, StampMeets,
     ClearIndicesMeets, ResetSequenceMeets DEF ServerStep, Process
<1>4. CASE ClientStep /\ ~Receive("client")
  BY <1>4, MeasureFileMeets, MapFileMeets, InitClientMeets, JoinMeets, EndedMeets
     DEF ClientStep, ReadFault, Process
<1>5. CASE WriteFault("client")
  BY <1>5, EndedMeets DEF WriteFault, Process
<1> QED
  BY <1>1, <1>2, <1>3, <1>4, <1>5 DEF Next, ServerStep, ClientStep, Process

----------------------------------------------------------------------------
(***************************************************************************)
(* Which runs of the client count.                                         *)
(***************************************************************************)
LEMMA CountedAtStart == Init => CountedInv
<1> SUFFICES ASSUME Init
             PROVE  CountedInv
  OBVIOUS
<1>1. put["clientFile"] = << >> /\ Len(<< >>) = 0
  BY EmptySeq DEF Init, File
<1> QED
  BY <1>1 DEF Init, CountedInv, JoinedHasRing, FromRuns, Process

\* A run that starts is later than all that left something.
LEMMA StartCounts ==
  ASSUME TypeInv, CountedInv, NEW p \in Process, Start(p)
  PROVE  CountedInv'
<1>1. /\ runs["client"] \in Nat /\ joined \subseteq 1 .. runs["client"]
      /\ put["clientFile"] \in Seq(Piece)
      /\ joined' = joined /\ put' = put /\ header' = header
  BY DEF TypeInv, TypeOK, Start, Process, File, files, history
<1>2. \A i \in 1 .. Len(put["clientFile"]) : put["clientFile"][i].run \in Nat
  <2>1. put["clientFile"] \in Seq(Piece)
    BY <1>1
  <2>2. \A i \in 1 .. Len(put["clientFile"]) : put["clientFile"][i] \in Piece
    BY <2>1, ElementOfSeq
  <2> QED
    BY <2>2 DEF Piece
<1>3. CASE p = "client"
  <2>1. runs'["client"] = runs["client"] + 1
    BY <1>3 DEF Start, TypeInv, TypeOK, Process
  <2>2. runs'["client"] \notin joined
    BY <1>1, <2>1
  <2>3. \A i \in 1 .. Len(put["clientFile"]) : put["clientFile"][i].run <= runs["client"]
    BY DEF CountedInv, FromRuns
  <2>4. \A i \in 1 .. Len(put["clientFile"]) :
          /\ put["clientFile"][i].run <= runs'["client"]
          /\ put["clientFile"][i].run # runs'["client"]
    BY <1>1, <1>2, <2>1, <2>3
  <2> QED
    BY <1>1, <2>2, <2>4 DEF CountedInv, JoinedHasRing, FromRuns
<1>4. CASE p = "server"
  <2>1. runs'["client"] = runs["client"] /\ pc'["client"] = pc["client"]
    BY <1>4 DEF Start, Turn, Goto, TypeInv, TypeOK, Process
  <2> QED
    BY <1>1, <2>1 DEF CountedInv, JoinedHasRing, FromRuns
<1> QED
  BY <1>3, <1>4 DEF Process

LEMMA CreateFreshCounts ==
  ASSUME TypeInv, CountedInv, CreateFresh
  PROVE  CountedInv'
  BY DEF TypeInv, TypeOK, CountedInv, JoinedHasRing, FromRuns, Process, File,
      files, objects, history,
      CreateFresh, Goto

LEMMA CreateFailsCounts ==
  ASSUME TypeInv, CountedInv, CreateFails
  PROVE  CountedInv'
  BY DEF TypeInv, TypeOK, CountedInv, JoinedHasRing, FromRuns, Process, File,
      files, objects, history,
      CreateFails, AfterFile, Turn, Goto

LEMMA WriteZerosCounts ==
  ASSUME TypeInv, CountedInv, WriteZeros
  PROVE  CountedInv'
  BY DEF TypeInv, TypeOK, CountedInv, JoinedHasRing, FromRuns, Process, File,
      files, objects, history,
      WriteZeros, Goto

LEMMA MeasureFileCounts ==
  ASSUME TypeInv, CountedInv, MeasureFile
  PROVE  CountedInv'
  BY DEF TypeInv, TypeOK, CountedInv, JoinedHasRing, FromRuns, Process, File,
      files, objects, history,
      MeasureFile, AfterFile, Turn, Goto

LEMMA MapFileCounts ==
  ASSUME TypeInv, CountedInv, NEW p \in Process, MapFile(p)
  PROVE  CountedInv'
  BY DEF TypeInv, TypeOK, CountedInv, JoinedHasRing, FromRuns, Process, File,
      files, objects, history,
      MapFile, AfterFile, Turn, Goto

LEMMA StampCounts ==
  ASSUME TypeInv, CountedInv, Stamp
  PROVE  CountedInv'
  BY DEF TypeInv, TypeOK, CountedInv, JoinedHasRing, FromRuns, Process, File,
      files, objects, history,
      Stamp, Goto

LEMMA ClearIndicesCounts ==
  ASSUME TypeInv, CountedInv, ClearIndices
  PROVE  CountedInv'
  BY DEF TypeInv, TypeOK, CountedInv, JoinedHasRing, FromRuns, Process, File,
      files, objects, history,
      ClearIndices, Goto

LEMMA ResetSequenceCounts ==
  ASSUME TypeInv, CountedInv, ResetSequence
  PROVE  CountedInv'
  BY DEF TypeInv, TypeOK, CountedInv, JoinedHasRing, FromRuns, Process, File,
      files, objects, history,
      ResetSequence, AfterRing, Turn, Goto

LEMMA InitClientCounts ==
  ASSUME TypeInv, CountedInv, InitClient
  PROVE  CountedInv'
  BY DEF TypeInv, TypeOK, CountedInv, JoinedHasRing, FromRuns, Process, File,
      files, objects, history,
      InitClient, CheckHeader, AfterRing, Turn, Goto

LEMMA JoinCounts ==
  ASSUME TypeInv, CountedInv, Join
  PROVE  CountedInv'
  BY DEF TypeInv, TypeOK, CountedInv, JoinedHasRing, FromRuns, Process, File,
      files, objects, history,
      Join, Goto, Outgoing

LEMMA EndedCounts ==
  ASSUME TypeInv, CountedInv, NEW p \in Process, Ended(p)
  PROVE  CountedInv'
  BY DEF TypeInv, TypeOK, CountedInv, JoinedHasRing, FromRuns, Process, File,
      files, objects, history,
      Ended, Goto

\* A piece has the number of the run that sends it.
LEMMA SendCounts ==
  ASSUME TypeInv, CountedInv, NEW p \in Process, Send(p)
  PROVE  CountedInv'
<1>1. UNCHANGED <<pc, runs, header, joined>>
  BY DEF Send, objects
<1>2. CASE p = "server"
  <2>1. put'["clientFile"] = put["clientFile"]
    BY <1>2 DEF Send, Outgoing, TypeInv, TypeOK, File
  <2> QED
    BY <1>1, <2>1 DEF CountedInv, JoinedHasRing, FromRuns
<1>3. CASE p = "client"
  <2> DEFINE piece == [run |-> runs["client"], part |-> Cardinality(Sent("client")) + 1]
             sent  == put["clientFile"]
  <2>1. /\ put'["clientFile"] = Append(sent, piece)
        /\ pc["client"] = "up"
    BY <1>3 DEF Send, Connected, Outgoing, TypeInv, TypeOK, File
  <2>2. sent \in Seq(Piece) /\ piece \in Piece /\ runs["client"] \in Nat
    BY PieceType DEF TypeInv, TypeOK, Process, File
  <2>3. piece.run = runs["client"]
    OBVIOUS
  <2>4. \A i \in 1 .. Len(sent) : sent[i].run <= runs["client"]
    BY DEF CountedInv, FromRuns
  <2> HIDE DEF piece, sent
  <2>5. /\ Len(Append(sent, piece)) = Len(sent) + 1 /\ Len(sent) \in Nat
        /\ \A i \in 1 .. Len(sent) + 1 :
             Append(sent, piece)[i] = IF i <= Len(sent) THEN sent[i] ELSE piece
    BY <2>2, AppendProperties, LenProperties
  <2>6. \A i \in 1 .. Len(Append(sent, piece)) : Append(sent, piece)[i].run <= runs["client"]
    BY <2>2, <2>3, <2>4, <2>5
  <2> QED
    BY <1>1, <2>1, <2>6 DEF CountedInv, JoinedHasRing, FromRuns
<1> QED
  BY <1>2, <1>3 DEF Process

LEMMA CountedStays == TypeInv /\ CountedInv /\ [Next]_vars => CountedInv'
<1> SUFFICES ASSUME TypeInv, CountedInv, [Next]_vars
             PROVE  CountedInv'
  OBVIOUS
<1>1. ASSUME NEW p \in Process, Start(p) \/ Send(p) \/ Exit(p)
      PROVE  CountedInv'
  BY <1>1, StartCounts, SendCounts, EndedCounts DEF Exit
<1>2. CASE \/ PollServer \/ UNCHANGED vars
           \/ \E p \in Process : Receive(p)
  BY <1>2 DEF CountedInv, JoinedHasRing, FromRuns, PollServer, Receive, vars, files, objects,
     history
<1>3. CASE ServerStep /\ ~PollServer /\ ~Receive("server")
  BY <1>3, CreateFreshCounts, CreateFailsCounts, WriteZerosCounts, MapFileCounts, StampCounts,
     ClearIndicesCounts, ResetSequenceCounts DEF ServerStep, Process
<1>4. CASE ClientStep /\ ~Receive("client")
  BY <1>4, MeasureFileCounts, MapFileCounts, InitClientCounts, JoinCounts, EndedCounts
     DEF ClientStep, ReadFault, Process
<1>5. CASE WriteFault("client")
  BY <1>5, EndedCounts DEF WriteFault, Process
<1> QED
  BY <1>1, <1>2, <1>3, <1>4, <1>5 DEF Next, ServerStep, ClientStep, Process

LEMMA MeetingHolds == Spec => [](TypeInv /\ MeetingInv /\ CountedInv)
  BY TypesAtStart, TypesStay, MeetingAtStart, MeetingStays, CountedAtStart, CountedStays, PTL
     DEF Spec

(***************************************************************************)
(* A client that got into the sequence number of a server that is up has   *)
(* both its rings, however often the two were started, failed and ended    *)
(* before, and in whatever order their constructors ran.                   *)
(***************************************************************************)
THEOREM JoinedMeet == Spec => []JoinedIsUsable
<1>1. TypeInv /\ MeetingInv /\ CountedInv => JoinedIsUsable
  BY DEF TypeInv, TypeOK, MeetingInv, BothOrNone, CountedInv, JoinedHasRing, JoinedIsUsable,
     Process, File
<1> QED
  BY <1>1, MeetingHolds, PTL

----------------------------------------------------------------------------
(***************************************************************************)
(* The pieces.                                                             *)
(***************************************************************************)
LEMMA PiecesAtStart == Init => PiecesInv
<1> SUFFICES ASSUME Init
             PROVE  PiecesInv
  OBVIOUS
<1>1. << >> \o << >> = << >>
  BY EmptySeq, ConcatEmptySeq
<1>2. \A f \in File : ring[f] = << >> /\ put[f] = << >> /\ got[f] = << >>
  BY DEF Init
<1>3. pc["server"] = "off"
  BY DEF Init, Process
<1> QED
  BY <1>1, <1>2, <1>3 DEF PiecesInv, ServerPieces, ClientPieces, Cleared, At, File

\* A step that moves no piece, and by which the server gets nothing into its hands.
QuietStep ==
  /\ UNCHANGED <<put, got, ring, joined>>
  /\ Holds("serverFile")' => Holds("serverFile")
  /\ Holds("clientFile")' => Holds("clientFile") /\ (~Cleared' => ~Cleared)
  /\ Cleared' => Cleared
  /\ pc'["server"] = "up" => pc["server"] = "up"

LEMMA QuietKeeps ==
  ASSUME PiecesInv, QuietStep
  PROVE  PiecesInv'
  BY DEF PiecesInv, ServerPieces, ClientPieces, QuietStep, Keeps, Lost

LEMMA QuietSteps ==
  ASSUME TypeInv, MeetingInv, NEW p \in Process,
         \/ Start(p) \/ CreateFails \/ WriteZeros \/ MeasureFile \/ MapFile(p)
         \/ Stamp \/ InitClient \/ PollServer \/ Ended(p) \/ UNCHANGED vars
  PROVE  QuietStep
<1>1. CASE Start(p)
  BY <1>1 DEF TypeInv, TypeOK, MeetingInv, ServerViews, QuietStep, Holds, Cleared, Making, At,
      Process, File, files, objects, history,
      Start, Turn, Goto, NoView
<1>2. CASE CreateFails
  BY <1>2 DEF TypeInv, TypeOK, MeetingInv, ServerViews, QuietStep, Holds, Cleared, Making, At,
      Process, File, files, objects, history,
      CreateFails, AfterFile, Turn, Goto
<1>3. CASE WriteZeros
  BY <1>3 DEF TypeInv, TypeOK, MeetingInv, ServerViews, QuietStep, Holds, Cleared, Making, At,
      Process, File, files, objects, history,
      WriteZeros, Goto
<1>4. CASE MeasureFile
  BY <1>4 DEF TypeInv, TypeOK, MeetingInv, ServerViews, QuietStep, Holds, Cleared, Making, At,
      Process, File, files, objects, history,
      MeasureFile, AfterFile, Turn, Goto
<1>5. CASE MapFile(p)
  BY <1>5 DEF TypeInv, TypeOK, MeetingInv, ServerViews, QuietStep, Holds, Cleared, Making, At,
      Process, File, files, objects, history,
      MapFile, AfterFile, Turn, Goto
<1>6. CASE Stamp
  BY <1>6 DEF TypeInv, TypeOK, MeetingInv, ServerViews, QuietStep, Holds, Cleared, Making, At,
      Process, File, files, objects, history,
      Stamp, Goto
<1>7. CASE InitClient
  BY <1>7 DEF TypeInv, TypeOK, MeetingInv, ServerViews, QuietStep, Holds, Cleared, Making, At,
      Process, File, files, objects, history,
      InitClient, CheckHeader, AfterRing, Turn, Goto
<1>8. CASE PollServer
  BY <1>8 DEF TypeInv, TypeOK, MeetingInv, ServerViews, QuietStep, Holds, Cleared, Making, At,
      Process, File, files, objects, history,
      PollServer
<1>9. CASE Ended(p)
  BY <1>9 DEF TypeInv, TypeOK, MeetingInv, ServerViews, QuietStep, Holds, Cleared, Making, At,
      Process, File, files, objects, history,
      Ended, Goto, NoView
<1>10. CASE UNCHANGED vars
  BY <1>10 DEF TypeInv, TypeOK, MeetingInv, ServerViews, QuietStep, Holds, Cleared, Making, At,
      Process, File, files, objects, history,
      vars
<1> QED
  BY <1>1, <1>2, <1>3, <1>4, <1>5, <1>6, <1>7, <1>8, <1>9, <1>10

\* The file is made: it and its history are empty.
LEMMA CreateFreshPieces ==
  ASSUME TypeInv, MeetingInv, PiecesInv, CreateFresh
  PROVE  PiecesInv'
<1>1. << >> \o << >> = << >>
  BY EmptySeq, ConcatEmptySeq
<1>2. /\ pc["server"] = "open" /\ pc'["server"] = "zero"
      /\ UNCHANGED <<file, view>> /\ file["server"] \in File
      /\ view["server"]["clientFile"] = "none"
      /\ view["server"][file["server"]] = "none"
  BY DEF TypeInv, TypeOK, MeetingInv, ServerViews, CreateFresh, Goto, Mapped, Process
<1>3. \A f \in File :
        IF f = file["server"]
          THEN ring'[f] = << >> /\ put'[f] = << >> /\ got'[f] = << >>
          ELSE ring'[f] = ring[f] /\ put'[f] = put[f] /\ got'[f] = got[f]
  BY <1>2 DEF TypeInv, TypeOK, CreateFresh
<1>4. CASE file["server"] = "serverFile"
  <2>1. ServerPieces'
    BY <1>1, <1>3, <1>4 DEF ServerPieces, File
  <2>2. ~Holds("clientFile")' /\ ~Cleared'
    BY <1>2, <1>4 DEF Holds, Making, Cleared, At
  <2> QED
    BY <1>2, <2>1, <2>2 DEF PiecesInv, ClientPieces
<1>5. CASE file["server"] = "clientFile"
  <2>1. Holds("serverFile")' => Holds("serverFile")
    BY <1>2, <1>5 DEF Holds, Making, At
  <2>2. ServerPieces'
    BY <1>3, <1>5, <2>1 DEF PiecesInv, ServerPieces, File
  <2>3. /\ got'["clientFile"] = << >> /\ ring'["clientFile"] = put'["clientFile"]
        /\ ~Cleared'
    BY <1>2, <1>3, <1>5 DEF Cleared, At, File
  <2> QED
    BY <1>2, <2>2, <2>3 DEF PiecesInv, ClientPieces
<1> QED
  BY <1>2, <1>4, <1>5 DEF File

\* The ring is cleared: what a client wrote into it before is lost.
LEMMA ClearIndicesPieces ==
  ASSUME TypeInv, MeetingInv, PiecesInv, ClearIndices
  PROVE  PiecesInv'
<1>1. /\ pc["server"] = "clear" /\ pc'["server"] = "number"
      /\ UNCHANGED <<file, view, put, got>> /\ file["server"] \in File
      /\ \A f \in File : ring'[f] = IF f = file["server"] THEN << >> ELSE ring[f]
  BY DEF TypeInv, TypeOK, ClearIndices, Goto, Process, history
<1>2. Holds("serverFile") /\ Holds("clientFile") /\ ~Cleared
  BY <1>1 DEF MeetingInv, ServerViews, Initialising, Holds, Cleared, At, File
<1>3. /\ put["serverFile"] = << >> /\ got["clientFile"] = << >>
      /\ ring["clientFile"] = put["clientFile"]
      /\ got["serverFile"] \o ring["serverFile"] = put["serverFile"]
  BY <1>2 DEF PiecesInv, ServerPieces, ClientPieces
<1>4. got["serverFile"] = << >> /\ ring["serverFile"] = << >>
  <2>1. got["serverFile"] \in Seq(Piece) /\ ring["serverFile"] \in Seq(Piece)
    BY DEF TypeInv, TypeOK, File
  <2>2. got["serverFile"] \o ring["serverFile"] = << >>
    BY <1>3
  <2> QED
    BY <2>1, <2>2, ConcatEqualIffEmpty
<1>5. ServerPieces'
  <2>1. ring'["serverFile"] = ring["serverFile"]
    BY <1>1, <1>4 DEF File
  <2> QED
    BY <1>1, <1>3, <2>1 DEF ServerPieces
<1>6. CASE file["server"] = "serverFile"
  <2>1. ring'["clientFile"] = ring["clientFile"] /\ ~Cleared'
    BY <1>1, <1>6 DEF Cleared, At, File
  <2> QED
    BY <1>1, <1>3, <1>5, <2>1 DEF PiecesInv, ClientPieces
<1>7. CASE file["server"] = "clientFile"
  <2>1. Cleared' /\ ring'["clientFile"] = << >>
    BY <1>1, <1>7 DEF Cleared, At, File
  <2>2. Len(put["clientFile"]) \in Nat
    <3>1. put["clientFile"] \in Seq(Piece)
      BY DEF TypeInv, TypeOK, File
    <3> QED
      BY <3>1, LenProperties
  <2>3. SubSeq(put["clientFile"], Len(put["clientFile"]) + 1, Len(put["clientFile"])) = << >>
    BY <2>2, SubSeqEmpty
  <2>4. \E n \in 0 .. Len(put'["clientFile"]) : Keeps(n)'
    <3>1. Len(put["clientFile"]) \in 0 .. Len(put["clientFile"])
      BY <2>2
    <3> QED
      BY <1>1, <2>1, <2>3, <3>1 DEF Keeps
  <2> QED
    BY <1>1, <1>3, <1>5, <2>1, <2>4 DEF PiecesInv, ClientPieces
<1> QED
  BY <1>1, <1>6, <1>7 DEF File

\* The server starts its loop, and forgets the clients that counted before.
LEMMA ResetSequencePieces ==
  ASSUME TypeInv, MeetingInv, PiecesInv, ResetSequence
  PROVE  PiecesInv'
<1>1. /\ pc["server"] = "number" /\ UNCHANGED <<view, ring, put, got>>
      /\ file["server"] \in File
  BY DEF TypeInv, TypeOK, ResetSequence, Process
<1>2. Holds("serverFile") /\ Holds("clientFile")
  BY <1>1 DEF MeetingInv, ServerViews, Initialising, Holds, File
<1>3. ServerPieces'
  BY <1>1, <1>2 DEF PiecesInv, ServerPieces
<1>4. got["clientFile"] = << >>
  BY <1>2 DEF PiecesInv, ClientPieces
<1>5. CASE file["server"] = "serverFile"
  <2>1. pc'["server"] = "init" /\ ~Cleared /\ ~Cleared'
    BY <1>1, <1>5 DEF TypeInv, TypeOK, ResetSequence, AfterRing, Turn, Goto, InitOrder,
       Outgoing, Cleared, At, Process
  <2>2. ring["clientFile"] = put["clientFile"]
    BY <1>2, <2>1 DEF PiecesInv, ClientPieces
  <2> QED
    BY <1>1, <1>3, <1>4, <2>1, <2>2 DEF PiecesInv, ClientPieces
<1>6. CASE file["server"] = "clientFile"
  <2>1. pc'["server"] = "up" /\ joined' = {} /\ Cleared
    BY <1>1, <1>6 DEF TypeInv, TypeOK, ResetSequence, AfterRing, Turn, Goto, InitOrder,
       Outgoing, Cleared, At, Process
  <2>2. ~Holds("clientFile")' /\ ~Cleared'
    BY <2>1 DEF Holds, Cleared, At
  <2>3. PICK n \in 0 .. Len(put["clientFile"]) : Keeps(n)
    BY <2>1 DEF PiecesInv, ClientPieces
  <2>4. got["clientFile"] \o ring["clientFile"] = ring["clientFile"]
    <3>1. ring["clientFile"] \in Seq(Piece)
      BY DEF TypeInv, TypeOK, File
    <3> QED
      BY <1>4, <3>1, ConcatEmptySeq
  <2>5. Lost(n)'
    BY <1>1, <2>1, <2>3, <2>4 DEF Keeps, Lost
  <2> QED
    BY <1>1, <1>3, <2>2, <2>5 DEF PiecesInv, ClientPieces
<1> QED
  BY <1>1, <1>5, <1>6 DEF File

\* A client that comes to count has sent nothing yet.
LEMMA JoinPieces ==
  ASSUME TypeInv, CountedInv, PiecesInv, Join
  PROVE  PiecesInv'
<1>1. /\ UNCHANGED <<file, view, put, got, ring>>
      /\ pc["client"] = "join" /\ pc'["server"] = pc["server"]
      /\ joined' \subseteq joined \cup {runs["client"]}
  BY DEF TypeInv, TypeOK, Join, Goto, Process
<1>2. /\ Holds("serverFile")' = Holds("serverFile")
      /\ Holds("clientFile")' = Holds("clientFile")
      /\ Cleared' = Cleared
  BY <1>1 DEF Holds, Making, Cleared, At
<1>3. ASSUME NEW n \in 0 .. Len(put["clientFile"]), Lost(n)
      PROVE  Lost(n)'
  <2>1. Len(put["clientFile"]) \in Nat
    <3>1. put["clientFile"] \in Seq(Piece)
      BY DEF TypeInv, TypeOK, File
    <3> QED
      BY <3>1, LenProperties
  <2>2. \A i \in 1 .. n : put["clientFile"][i].run # runs["client"]
    BY <1>1, <2>1 DEF CountedInv, FromRuns
  <2> QED
    BY <1>1, <1>3, <2>2 DEF Lost
<1>4. /\ ServerPieces'
      /\ \A n : Keeps(n)' = Keeps(n)
  BY <1>1, <1>2 DEF PiecesInv, ServerPieces, Keeps
<1> QED
  BY <1>1, <1>2, <1>3, <1>4 DEF PiecesInv, ClientPieces

\* A program that is up gets no file, and does not go back to the making of one.
LEMMA Unmoved ==
  ASSUME UNCHANGED <<pc, file, view>>
  PROVE  /\ Holds("serverFile")' = Holds("serverFile")
         /\ Holds("clientFile")' = Holds("clientFile")
         /\ Cleared' = Cleared
  BY DEF Holds, Making, Cleared, At

\* What the server sends: it is up.
LEMMA ServerSendsPieces ==
  ASSUME TypeInv, PiecesInv, Send("server")
  PROVE  PiecesInv'
<1> DEFINE piece == [run |-> runs["server"], part |-> Cardinality(Sent("server")) + 1]
<1>1. piece \in Piece
  BY PieceType DEF Process
<1>2. /\ UNCHANGED <<pc, file, view, got, joined>> /\ pc["server"] = "up"
      /\ ring' = [ring EXCEPT !["serverFile"] = Append(ring["serverFile"], piece)]
      /\ put' = [put EXCEPT !["serverFile"] = Append(put["serverFile"], piece)]
  BY DEF Send, Connected, Outgoing, objects
<1> HIDE DEF piece
<1>3. /\ ring["serverFile"] \in Seq(Piece) /\ put["serverFile"] \in Seq(Piece)
      /\ got["serverFile"] \in Seq(Piece)
  BY DEF TypeInv, TypeOK, File
<1>4. /\ ring'["serverFile"] = Append(ring["serverFile"], piece)
      /\ put'["serverFile"] = Append(put["serverFile"], piece)
      /\ ring'["clientFile"] = ring["clientFile"] /\ put'["clientFile"] = put["clientFile"]
  BY <1>2 DEF TypeInv, TypeOK, File
<1>5. AppendedBehind(got["serverFile"], ring["serverFile"], piece)
  BY <1>1, <1>3, ConcatAppend
<1>6. ServerPieces'
  <2>1. ~Holds("serverFile")'
    BY <1>2 DEF Holds
  <2> QED
    BY <1>2, <1>4, <1>5, <2>1 DEF PiecesInv, ServerPieces, AppendedBehind
<1>7. ClientPieces'
  <2>1. /\ ring'["clientFile"] = ring["clientFile"] /\ put'["clientFile"] = put["clientFile"]
        /\ UNCHANGED <<pc, file, view, got, joined>>
    BY <1>2, <1>4
  <2>2. /\ \A n : Keeps(n)' = Keeps(n)
        /\ \A n : Lost(n)' = Lost(n)
    BY <2>1 DEF Keeps, Lost
  <2> QED
    BY <2>1, <2>2, Unmoved DEF PiecesInv, ClientPieces
<1> QED
  BY <1>6, <1>7 DEF PiecesInv

\* What a client sends, wherever the server is.
LEMMA ClientSendsPieces ==
  ASSUME TypeInv, PiecesInv, Send("client")
  PROVE  PiecesInv'
<1> DEFINE piece == [run |-> runs["client"], part |-> Cardinality(Sent("client")) + 1]
           sent  == put["clientFile"]
           left  == ring["clientFile"]
           taken == got["clientFile"]
<1>1. piece \in Piece
  BY PieceType DEF Process
<1>2. /\ UNCHANGED <<pc, file, view, got, joined>>
      /\ ring' = [ring EXCEPT !["clientFile"] = Append(left, piece)]
      /\ put' = [put EXCEPT !["clientFile"] = Append(sent, piece)]
  BY DEF Send, Outgoing, objects
<1> HIDE DEF piece
<1>3. left \in Seq(Piece) /\ sent \in Seq(Piece) /\ taken \in Seq(Piece)
  BY DEF TypeInv, TypeOK, File
<1>4. /\ ring'["clientFile"] = Append(left, piece)
      /\ put'["clientFile"] = Append(sent, piece)
      /\ ring'["serverFile"] = ring["serverFile"] /\ put'["serverFile"] = put["serverFile"]
  BY <1>2 DEF TypeInv, TypeOK, File
<1>5. ServerPieces'
  BY <1>2, <1>4, Unmoved DEF PiecesInv, ServerPieces
<1>6. /\ Len(sent) \in Nat /\ Len(Append(sent, piece)) = Len(sent) + 1
      /\ \A i \in 1 .. Len(sent) : Append(sent, piece)[i] = sent[i]
  BY <1>1, <1>3, AppendProperties, LenProperties
<1>7. \A n \in 0 .. Len(sent) : n \in 0 .. Len(put'["clientFile"])
  BY <1>4, <1>6
<1>8. ASSUME NEW n \in 0 .. Len(sent)
      PROVE  SubSeq(Append(sent, piece), n + 1, Len(Append(sent, piece)))
               = Append(SubSeq(sent, n + 1, Len(sent)), piece)
  BY <1>1, <1>3, RestOfAppend
<1>9. ASSUME NEW n \in 0 .. Len(sent), Keeps(n)
      PROVE  Keeps(n)'
  BY <1>4, <1>8, <1>9 DEF Keeps
<1>10. ASSUME NEW n \in 0 .. Len(sent), Lost(n)
       PROVE  Lost(n)'
  <2>1. AppendedBehind(taken, left, piece)
    BY <1>1, <1>3, ConcatAppend
  <2>2. \A i \in 1 .. n : Append(sent, piece)[i].run \notin joined
    BY <1>6, <1>10 DEF Lost
  <2>3. taken \o left = SubSeq(sent, n + 1, Len(sent))
    BY <1>10 DEF Lost
  <2>4. /\ got'["clientFile"] \o ring'["clientFile"]
             = SubSeq(put'["clientFile"], n + 1, Len(put'["clientFile"]))
        /\ \A i \in 1 .. n : put'["clientFile"][i].run \notin joined'
    <3>1. /\ got'["clientFile"] = taken /\ joined' = joined
          /\ ring'["clientFile"] = Append(left, piece)
          /\ put'["clientFile"] = Append(sent, piece)
      BY <1>2, <1>4
    <3>2. /\ taken \o Append(left, piece) = Append(taken \o left, piece)
          /\ SubSeq(Append(sent, piece), n + 1, Len(Append(sent, piece)))
               = Append(SubSeq(sent, n + 1, Len(sent)), piece)
      BY <1>8, <2>1 DEF AppendedBehind
    <3> HIDE DEF sent, left, taken
    <3> QED
      BY <2>2, <2>3, <3>1, <3>2, Zenon
  <2> QED
    BY <2>4, Zenon DEF Lost
<1>11. ClientPieces'
  <2>1. ClientPieces
    BY DEF PiecesInv
  <2>2. Holds("clientFile")' => got'["clientFile"] = << >>
    BY <1>2, <2>1, Unmoved DEF ClientPieces
  <2>3. Holds("clientFile")' /\ ~Cleared' => ring'["clientFile"] = put'["clientFile"]
    BY <1>2, <1>4, <2>1, Unmoved DEF ClientPieces
  <2>4. ASSUME Cleared'
        PROVE  \E n \in 0 .. Len(put'["clientFile"]) : Keeps(n)'
    <3>1. PICK n \in 0 .. Len(sent) : Keeps(n)
      BY <1>2, <2>1, <2>4, Unmoved DEF ClientPieces
    <3> QED
      BY <1>7, <1>9, <3>1
  <2>5. ASSUME pc'["server"] = "up"
        PROVE  \E n \in 0 .. Len(put'["clientFile"]) : Lost(n)'
    <3>1. PICK n \in 0 .. Len(sent) : Lost(n)
      BY <1>2, <2>1, <2>5 DEF ClientPieces
    <3> QED
      BY <1>7, <1>10, <3>1
  <2> QED
    BY <2>2, <2>3, <2>4, <2>5 DEF ClientPieces
<1> QED
  BY <1>5, <1>11 DEF PiecesInv

\* What a program reads goes from the one end of its ring to what it got.
LEMMA ReceivePieces ==
  ASSUME TypeInv, PiecesInv, NEW p \in Process, Receive(p)
  PROVE  PiecesInv'
<1> DEFINE f == Incoming(p)
<1>1. f \in File
  BY DEF Incoming, File
<1>2. PICK n \in 1 .. Len(ring[f]) :
        /\ got' = [got EXCEPT ![f] = got[f] \o SubSeq(ring[f], 1, n)]
        /\ ring' = [ring EXCEPT ![f] = SubSeq(ring[f], n + 1, Len(ring[f]))]
  BY DEF Receive, Readable
<1>3. UNCHANGED <<pc, file, view, put, joined>> /\ pc[p] = "up"
  BY DEF Receive, Connected, objects
<1>4. ring \in [File -> Seq(Piece)] /\ got \in [File -> Seq(Piece)]
  BY DEF TypeInv, TypeOK
<1>5. ring[f] \in Seq(Piece) /\ got[f] \in Seq(Piece)
  BY <1>1, <1>4
<1>6. n \in 0 .. Len(ring[f])
  BY <1>5, LenProperties
<1>7. (got[f] \o SubSeq(ring[f], 1, n)) \o SubSeq(ring[f], n + 1, Len(ring[f]))
        = got[f] \o ring[f]
  BY <1>5, <1>6, MoveFirst
<1>8. got'[f] \o ring'[f] = got[f] \o ring[f]
  BY <1>1, <1>2, <1>4, <1>7
<1>9. \A g \in File : g # f => ring'[g] = ring[g] /\ got'[g] = got[g]
  BY <1>1, <1>2, <1>4
<1>10. CASE p = "server"
  <2>1. /\ got'["clientFile"] \o ring'["clientFile"]
             = got["clientFile"] \o ring["clientFile"]
        /\ ring'["serverFile"] = ring["serverFile"] /\ got'["serverFile"] = got["serverFile"]
    BY <1>8, <1>9, <1>10 DEF Incoming, File
  <2>2. ~Holds("clientFile")' /\ ~Cleared'
    BY <1>3, <1>10 DEF Holds, Cleared, At
  <2>3. \A m : Lost(m)' = Lost(m)
    BY <1>3, <2>1 DEF Lost
  <2> QED
    BY <1>3, <2>1, <2>2, <2>3, Unmoved DEF PiecesInv, ServerPieces, ClientPieces
<1>11. CASE p = "client"
  <2>1. /\ got'["serverFile"] \o ring'["serverFile"]
             = got["serverFile"] \o ring["serverFile"]
        /\ ring'["clientFile"] = ring["clientFile"] /\ got'["clientFile"] = got["clientFile"]
    BY <1>8, <1>9, <1>11 DEF Incoming, File
  <2>2. /\ \A m : Keeps(m)' = Keeps(m)
        /\ \A m : Lost(m)' = Lost(m)
    BY <1>3, <2>1 DEF Keeps, Lost
  <2> QED
    BY <1>3, <2>1, <2>2, Unmoved DEF PiecesInv, ServerPieces, ClientPieces
<1> QED
  BY <1>10, <1>11 DEF Process

LEMMA PiecesStay ==
  TypeInv /\ MeetingInv /\ CountedInv /\ PiecesInv /\ [Next]_vars => PiecesInv'
<1> SUFFICES ASSUME TypeInv, MeetingInv, CountedInv, PiecesInv, [Next]_vars
             PROVE  PiecesInv'
  OBVIOUS
<1>1. ASSUME NEW p \in Process, Start(p) \/ Exit(p) \/ ReadFault(p) \/ WriteFault(p)
      PROVE  PiecesInv'
  BY <1>1, QuietSteps, QuietKeeps DEF Exit, ReadFault, WriteFault
<1>2. ASSUME NEW p \in Process, Send(p) \/ Receive(p)
      PROVE  PiecesInv'
  BY <1>2, ServerSendsPieces, ClientSendsPieces, ReceivePieces DEF Process
<1>3. CASE ServerStep /\ ~Receive("server")
  <2>1. CASE CreateFresh \/ ClearIndices \/ ResetSequence
    BY <2>1, CreateFreshPieces, ClearIndicesPieces, ResetSequencePieces
  <2>2. CASE CreateFails \/ WriteZeros \/ MapFile("server") \/ Stamp \/ PollServer
    BY <2>2, QuietSteps, QuietKeeps DEF Process
  <2> QED
    BY <1>3, <2>1, <2>2 DEF ServerStep
<1>4. CASE ClientStep /\ ~Receive("client") /\ ~ReadFault("client")
  <2>1. CASE MeasureFile \/ MapFile("client") \/ InitClient
    BY <2>1, QuietSteps, QuietKeeps DEF Process
  <2> QED
    BY <1>4, <2>1, JoinPieces DEF ClientStep
<1>5. CASE UNCHANGED vars
  BY <1>5, QuietSteps, QuietKeeps DEF Process
<1> QED
  BY <1>1, <1>2, <1>3, <1>4, <1>5 DEF Next, ServerStep, ClientStep, Process

(***************************************************************************)
(* Nothing is lost between two programs that found each other: what a      *)
(* counted client has written since the server's loop began was read in    *)
(* order or is in the ring, whatever clients end, begin and write into the *)
(* ring the server is still clearing; and so is all that the server wrote. *)
(***************************************************************************)
THEOREM NothingIsLost == Spec => []NothingLost
<1>1. PiecesInv => NothingLost
  BY DEF PiecesInv, ServerPieces, ClientPieces, NothingLost
<1>2. Spec => [](TypeInv /\ MeetingInv /\ CountedInv /\ PiecesInv)
  BY TypesAtStart, TypesStay, MeetingAtStart, MeetingStays, CountedAtStart, CountedStays,
     PiecesAtStart, PiecesStay, PTL DEF Spec
<1> QED
  BY <1>1, <1>2, PTL

=============================================================================
