---------------------------- MODULE SharedSocket ----------------------------
(***************************************************************************)
(* Two programs that talk through shared memory (WsocketSharedMemory over  *)
(* MemoryMap): how they start up, meet, send, end and start again.  Each   *)
(* maps two files, a ring of class SPSC in each: the server writes into    *)
(* the server file and reads the client file, the client the reverse.  The *)
(* server makes the files anew and initialises the rings; a client checks  *)
(* them, and counts up a sequence number by which the server notices it.   *)
(* Nothing else orders the two.                                            *)
(*                                                                         *)
(* A ring is a bounded FIFO here, which is what module SPSC is shown to    *)
(* implement.  The files are those of the Windows build of MemoryMap; the  *)
(* operating system refuses to truncate a file that a process has mapped,  *)
(* and unmaps the files of a process that ends.                            *)
(***************************************************************************)
EXTENDS Integers, Sequences, FiniteSets

CONSTANTS
  Starts,     \* how often each program is started
  Pieces,     \* how many pieces one run of a program sends
  RingSize    \* the pieces a ring holds

ASSUME SharedAssumption ==
  /\ Starts \in [{"server", "client"} -> Nat]
  /\ Pieces \in [{"server", "client"} -> Nat]
  /\ RingSize \in Nat \ {0}

Process == {"server", "client"}
File == {"serverFile", "clientFile"}

\* The files of mWriter and mReader.
Outgoing(p) == IF p = "server" THEN "serverFile" ELSE "clientFile"
Incoming(p) == IF p = "server" THEN "clientFile" ELSE "serverFile"

\* What each file holds.
VARIABLES
  size,       \* "absent", "empty" or "full"
  stamped,    \* the header's mVersionNumber and mBufferSize have been stored
  ring,       \* the pieces between the ring's two indices
  sequence    \* mSequenceNumber of the client file; no one looks at the other's

\* The processes and their WsocketSharedMemory objects.
VARIABLES
  pc,         \* where in its constructor each process is; "up" with a socket, "down" without
  file,       \* the file at hand
  measured,   \* the size of that file when the client looked
  view,       \* view[p][f]: mMapSize of p's view of f, "none" if it has none
  header,     \* the files of the rings whose mHeader is set
  mFirst,     \* the server has accepted no client yet
  runs        \* how often each was started

\* What happened so far; the code keeps none of it.
VARIABLES
  put, got,   \* the pieces that went into and came out of each ring since the file was made
  joined,     \* the runs of the client that count in the sequence number
  late        \* the client was started with this run of the server up

files == <<size, stamped, ring, sequence>>
objects == <<pc, file, measured, view, header, mFirst>>
history == <<put, got, joined>>

vars == <<files, objects, runs, history, late>>

\* Initialising the reader's ring before the writer's.
ReaderFirst(p) == <<Incoming(p), Outgoing(p)>>

\* The order in which the constructor initialises the two rings.
InitOrder(p) == <<Outgoing(p), Incoming(p)>>

NoView == [f \in File |-> "none"]

\* The files may be there from earlier, with a ring that was in use.
Init ==
  /\ \E old \in BOOLEAN :
       /\ size = [f \in File |-> IF old THEN "full" ELSE "absent"]
       /\ stamped = [f \in File |-> old]
       /\ sequence = IF old THEN 1 ELSE 0
  /\ ring = [f \in File |-> << >>]
  /\ pc = [p \in Process |-> "off"]
  /\ file = [p \in Process |-> "serverFile"]
  /\ measured = "empty"
  /\ view = [p \in Process |-> NoView]
  /\ header = [p \in Process |-> {}]
  /\ mFirst = TRUE
  /\ runs = [p \in Process |-> 0]
  /\ put = [f \in File |-> << >>]
  /\ got = [f \in File |-> << >>]
  /\ joined = {}
  /\ late = FALSE

Goto(p, place) == pc' = [pc EXCEPT ![p] = place]

Turn(p, place, f) == Goto(p, place) /\ file' = [file EXCEPT ![p] = f]

----------------------------------------------------------------------------
(***************************************************************************)
(* MemoryMap::createMemoryMap, for the server file and then the client     *)
(* file.                                                                   *)
(***************************************************************************)
Start(p) ==
  /\ pc[p] = "off"
  /\ runs[p] < Starts[p]
  /\ runs' = [runs EXCEPT ![p] = @ + 1]
  /\ Turn(p, "open", "serverFile")
  /\ mFirst' = IF p = "server" THEN TRUE ELSE mFirst
  /\ late' = (p = "client" /\ pc["server"] = "up")
  /\ UNCHANGED <<files, measured, view, header, history>>

(***************************************************************************)
(* A file is done with.  The constructor goes on with the other one even   *)
(* if this one failed.  With both views the rings are initialised, the     *)
(* writer's first.  Otherwise create returns null: the server's loop runs  *)
(* without a socket, the client hangs in the destructor of SocketChat, and *)
(* the view they do have is never unmapped.                                *)
(***************************************************************************)
AfterFile(p, views) ==
  IF file[p] = "serverFile" THEN Turn(p, "open", "clientFile")
  ELSE IF \A f \in File : views[f] # "none" THEN Turn(p, "init", InitOrder(p)[1])
  ELSE Turn(p, "down", file[p])

Mapped(f) == \E p \in Process : view[p][f] # "none"

\* CREATE_ALWAYS, the server's: the file is made, or emptied.
CreateFresh ==
  LET f == file["server"] IN
  /\ pc["server"] = "open"
  /\ ~Mapped(f)
  /\ size' = [size EXCEPT ![f] = "empty"]
  /\ stamped' = [stamped EXCEPT ![f] = FALSE]
  /\ ring' = [ring EXCEPT ![f] = << >>]
  /\ put' = [put EXCEPT ![f] = << >>]
  /\ got' = [got EXCEPT ![f] = << >>]
  /\ sequence' = IF f = "clientFile" THEN 0 ELSE sequence
  /\ joined' = IF f = "clientFile" THEN {} ELSE joined
  /\ Goto("server", "zero")
  /\ UNCHANGED <<file, measured, view, header, mFirst, runs, late>>

\* A client that runs has the file mapped.
CreateFails ==
  /\ pc["server"] = "open"
  /\ Mapped(file["server"])
  /\ AfterFile("server", view["server"])
  /\ UNCHANGED <<files, measured, view, header, mFirst, runs, history, late>>

\* WriteFile of zeros.
WriteZeros ==
  /\ pc["server"] = "zero"
  /\ size' = [size EXCEPT ![file["server"]] = "full"]
  /\ Goto("server", "map")
  /\ UNCHANGED <<stamped, ring, sequence, file, measured, view, header, mFirst, runs, history, late>>

\* OPEN_EXISTING, the client's, and how long the file is.
MeasureFile ==
  /\ pc["client"] = "open"
  /\ IF size[file["client"]] = "absent"
       THEN AfterFile("client", view["client"]) /\ UNCHANGED measured
       ELSE /\ measured' = size[file["client"]]
            /\ Goto("client", "map")
            /\ UNCHANGED file
  /\ UNCHANGED <<files, view, header, mFirst, runs, history, late>>

\* An empty file cannot be mapped.  The client believes the length it saw before.
MapFile(p) ==
  LET f    == file[p]
      seen == IF p = "server" THEN "full" ELSE measured
  IN  /\ pc[p] = "map"
      /\ view' = IF size[f] = "empty" THEN view ELSE [view EXCEPT ![p][f] = seen]
      /\ AfterFile(p, view'[p])
      /\ UNCHANGED <<files, measured, header, mFirst, runs, history, late>>

----------------------------------------------------------------------------
(***************************************************************************)
(* SPSC::init and the rest of the constructor.                             *)
(***************************************************************************)
AfterRing(p, place) ==
  IF file[p] = InitOrder(p)[1] THEN Turn(p, "init", InitOrder(p)[2])
                               ELSE Turn(p, place, file[p])

\* The server stores version and size: two stores, of which the second alone makes the header
\* pass a client's check, so that they are one step;
Stamp ==
  LET f == file["server"] IN
  /\ pc["server"] = "init"
  /\ stamped' = [stamped EXCEPT ![f] = TRUE]
  /\ header' = [header EXCEPT !["server"] = @ \cup {f}]
  /\ Goto("server", "clear")
  /\ UNCHANGED <<size, ring, sequence, file, measured, view, mFirst, runs, history, late>>

\* then the two indices, one step as well;
ClearIndices ==
  /\ pc["server"] = "clear"
  /\ ring' = [ring EXCEPT ![file["server"]] = << >>]
  /\ Goto("server", "number")
  /\ UNCHANGED <<size, stamped, sequence, file, measured, view, header, mFirst, runs, history, late>>

\* then the sequence number.
ResetSequence ==
  LET resets == file["server"] = "clientFile" IN
  /\ pc["server"] = "number"
  /\ sequence' = IF resets THEN 0 ELSE sequence
  /\ joined' = IF resets THEN {} ELSE joined
  /\ AfterRing("server", "up")
  /\ UNCHANGED <<size, stamped, ring, measured, view, header, mFirst, runs, put, got, late>>

\* Setting the indices on the client's side too.
CheckAndClear(f) ==
  /\ header' = [header EXCEPT !["client"] =
                  IF stamped[f] /\ view["client"][f] = "full" THEN @ \cup {f} ELSE @]
  /\ ring' = [ring EXCEPT ![f] = << >>]

\* The client uses a ring whose version and size are right.
CheckHeader(f) ==
  /\ header' = [header EXCEPT !["client"] =
                  IF stamped[f] /\ view["client"][f] = "full" THEN @ \cup {f} ELSE @]
  /\ UNCHANGED ring

InitClient ==
  /\ pc["client"] = "init"
  /\ CheckHeader(file["client"])
  /\ AfterRing("client", "join")
  /\ UNCHANGED <<size, stamped, sequence, measured, view, mFirst, runs, history, late>>

\* incrementSequenceNumber, which needs the writer's ring.  The result of init is not
\* looked at: create returns the socket in any case.
Join ==
  LET counts == Outgoing("client") \in header["client"] IN
  /\ pc["client"] = "join"
  /\ sequence' = IF counts THEN sequence + 1 ELSE sequence
  /\ joined' = IF counts THEN joined \cup {runs["client"]} ELSE joined
  /\ Goto("client", "up")
  /\ UNCHANGED <<size, stamped, ring, file, measured, view, header, mFirst, runs, put, got, late>>

----------------------------------------------------------------------------
(***************************************************************************)
(* Two programs that are up.                                               *)
(***************************************************************************)
\* Taking a single client for none.
SeesMoreThanOne == sequence > 1

\* getSequenceNumber differs from the 0 that mSequenceNumber still is.
SeesClient == sequence # 0

\* pollServer returns the server's own object, once.
PollServer ==
  /\ pc["server"] = "up"
  /\ mFirst
  /\ SeesClient
  /\ mFirst' = FALSE
  /\ UNCHANGED <<files, pc, file, measured, view, header, runs, history, late>>

Connected(p) == pc[p] = "up" /\ (p = "server" => ~mFirst)

Sent(p) == {i \in DOMAIN put[Outgoing(p)] : put[Outgoing(p)][i].run = runs[p]}

\* Writing into a full ring.
AlwaysRoom(f) == TRUE

HasRoom(f) == Len(ring[f]) < RingSize

Send(p) ==
  LET f     == Outgoing(p)
      piece == [run |-> runs[p], part |-> Cardinality(Sent(p)) + 1]
  IN  /\ Connected(p)
      /\ header[p] = File
      /\ piece.part <= Pieces[p]
      /\ HasRoom(f)
      /\ ring' = [ring EXCEPT ![f] = Append(@, piece)]
      /\ put' = [put EXCEPT ![f] = Append(@, piece)]
      /\ UNCHANGED <<size, stamped, sequence, objects, runs, got, joined, late>>

\* Leaving the last piece in the ring.
NotTheLast(f) == 1 .. Len(ring[f]) - 1

\* How many pieces a read may take.
Readable(f) == 1 .. Len(ring[f])

Receive(p) ==
  LET f == Incoming(p) IN
  /\ Connected(p)
  /\ f \in header[p]
  /\ \E n \in Readable(f) :
       /\ got' = [got EXCEPT ![f] = @ \o SubSeq(ring[f], 1, n)]
       /\ ring' = [ring EXCEPT ![f] = SubSeq(@, n + 1, Len(@))]
  /\ UNCHANGED <<size, stamped, sequence, objects, runs, put, joined, late>>

Ended(p) ==
  /\ Goto(p, "off")
  /\ view' = [view EXCEPT ![p] = NoView]
  /\ header' = [header EXCEPT ![p] = {}]
  /\ UNCHANGED <<files, file, measured, mFirst, runs, history, late>>

\* A process may end, or be ended, at any time.
Exit(p) == pc[p] # "off" /\ Ended(p)

\* read, or write, of a ring whose mHeader is null; a poll always reads.
ReadFault(p) == Connected(p) /\ Incoming(p) \notin header[p] /\ Ended(p)

WriteFault(p) == Connected(p) /\ Outgoing(p) \notin header[p] /\ Ended(p)

ServerStep ==
  \/ CreateFresh \/ CreateFails \/ WriteZeros \/ MapFile("server")
  \/ Stamp \/ ClearIndices \/ ResetSequence
  \/ PollServer \/ Receive("server")

ClientStep ==
  \/ MeasureFile \/ MapFile("client") \/ InitClient \/ Join
  \/ Receive("client") \/ ReadFault("client")

Next ==
  \/ ServerStep \/ ClientStep
  \/ \E p \in Process : Start(p) \/ Send(p) \/ Exit(p)
  \/ WriteFault("client")

Spec == Init /\ [][Next]_vars

\* Programs that were started go on, and poll in their loops.  No one need start or end
\* a program, or have something to send.
FairSpec == Spec /\ WF_vars(ServerStep) /\ WF_vars(ClientStep)

----------------------------------------------------------------------------
Piece == [run : Nat, part : Nat]

TypeOK ==
  /\ size \in [File -> {"absent", "empty", "full"}]
  /\ stamped \in [File -> BOOLEAN]
  /\ ring \in [File -> Seq(Piece)] /\ \A f \in File : Len(ring[f]) <= RingSize
  /\ sequence \in Nat
  /\ pc \in [Process -> {"off", "open", "zero", "map", "init", "clear", "number", "join",
                         "up", "down"}]
  /\ file \in [Process -> File]
  /\ measured \in {"empty", "full"}
  /\ view \in [Process -> [File -> {"none", "empty", "full"}]]
  /\ header \in [Process -> SUBSET File]
  /\ mFirst \in BOOLEAN
  /\ runs \in [Process -> Nat]
  /\ put \in [File -> Seq(Piece)] /\ got \in [File -> Seq(Piece)]
  /\ joined \subseteq 1 .. runs["client"]
  /\ late \in BOOLEAN

(***************************************************************************)
(* A client that the server counts can talk to it: whatever the order in   *)
(* which the two programs start, fail and start again, a client that got   *)
(* into the sequence number of a server that is up has both its rings,     *)
(* unless it looked at the length of the server file in the moment between *)
(* its creation and its filling.  (A client that is not counted may lack   *)
(* them: its init failed, which create does not notice.)                   *)
(***************************************************************************)
JoinedIsUsable ==
  /\ pc["server"] = "up" /\ pc["client"] = "up"
  /\ runs["client"] \in joined
  /\ view["client"]["serverFile"] = "full"
  => header["client"] = File

(***************************************************************************)
(* Nothing a counted client writes is lost, repeated or reordered, by the  *)
(* server's initialisation, by programs that end, or by later clients that *)
(* find the rings in use; nor is anything the server writes.  What is lost *)
(* with the clearing of the client's ring are the first pieces, and those  *)
(* of clients that were counted too early, which the server forgets.       *)
(***************************************************************************)
Lost(n) ==
  LET sent == put["clientFile"] IN
  /\ got["clientFile"] \o ring["clientFile"] = SubSeq(sent, n + 1, Len(sent))
  /\ \A i \in 1 .. n : sent[i].run \notin joined

NothingLost ==
  pc["server"] = "up" =>
    /\ \E n \in 0 .. Len(put["clientFile"]) : Lost(n)
    /\ got["serverFile"] \o ring["serverFile"] = put["serverFile"]

(***************************************************************************)
(* A client that is started when the server is up gets a socket it can     *)
(* use, and the server is connected, unless one of them ends.              *)
(***************************************************************************)
LateStartersMeet ==
  late /\ pc["client"] = "open" ~>
    \/ pc["client"] = "up" /\ header["client"] = File /\ pc["server"] = "up" /\ ~mFirst
    \/ pc["client"] = "off" \/ pc["server"] # "up"

(***************************************************************************)
(* The server gets every piece that a client it counts has sent, even from *)
(* a client that has ended since.                                          *)
(***************************************************************************)
JoinedAreHeard ==
  \A r \in 1 .. Starts["client"], n \in 1 .. Pieces["client"] :
    LET piece == [run |-> r, part |-> n]
        In(s) == \E i \in DOMAIN s : s[i] = piece
    IN  pc["server"] = "up" /\ r \in joined /\ In(put["clientFile"]) ~>
          In(got["clientFile"]) \/ pc["server"] # "up"

============================================================================
