# Verification of socketchat

TLA+ models, model checking and machine-checked proofs for the code under `src/`:
a small library for line-oriented chat over sockets (`ext/socketchat`), a console
reader (`src/InputLine.cpp`) and two programs, `app/TestServer` and `app/TestClient`.
Source lines below are relative to `src/`.

## The system

| Part | State | Operations | Hard because |
|---|---|---|---|
| **SimpleBuffer** (`SimpleBuffer.cpp`) | one allocation, start and end of the live bytes | `addBuffer`, `confirmCapacity` + in-place add, `consume`, `clear`, `reset`, `shrinkBuffer` | three ways of making room, refusal at the maximum, a pointer lent to `recv` |
| **SocketChat** (`socketchat.cpp`) | `mReadyState`, transmit and receive SimpleBuffer, a socket | `sendText`, `close`, `poll` (receive, send, close, dispatch), destructor | partial reads and sends, a delimiter cut in two, closing while data is on its way, a time-out |
| **Wsocket** (`wsocket.cpp`) | a socket descriptor | `create`, `receive`, `send`, `close`, `wouldBlock`, `pollServer` | the kernel: end of file, resets, a full window, blocking mode; ways to fail at the start |
| **SPSC** (`SPSC.h`) | a byte ring and two indices in shared memory | `read`, `write`, `init`, sequence number | two processes without a lock; memory order |
| **Shared memory socket** (`socketsharedmemory.cpp`), **MemoryMap** | two mapped files with a ring each; `mFirst` | create or open, measure and map the files, `init` of the rings, sequence number, `pollServer`, `receive`, `send` | two programs that start, fail, end and start again with nothing to order them |
| **InputLine** (`InputLine.cpp`) | one line buffer, `mHaveNewData`, `mExit` | worker loop, `getInputLine`, `release` | two threads, one buffer |
| **TestServer** | the vector of connections, one `mMessage` each | accept, console, drop closed, poll and echo, shutdown | clients come, speak and go at any time |
| **TestClient** | one SocketChat | type, send, show, leave | |
| Timer, wplatform | a start time | | `getElapsedSeconds` restarts the timer |

The programs call `poll` of each SocketChat from one thread; `poll` moves bytes
between the socket and the two buffers and calls `receiveMessage` for each whole
message. The server's callback keeps the message for the loop, which queues it for
every client. Console lines come from the InputLine's own thread. The shared memory
socket takes the place of a TCP socket under a SocketChat and is itself two SPSC rings.

What makes each part correct:

- SimpleBuffer is a FIFO of bytes; lent room stays; only requests past the maximum are refused.
- SocketChat delivers the texts passed to `sendText` whole, once and in order; `poll`
  returns; closing flushes first and comes to an end.
- SPSC is a bounded FIFO under every interleaving and never stalls.
- Two programs on shared memory that find each other can talk: both rings are ready on
  both sides, and no start, end or restart loses or repeats what was written.
- InputLine returns each line once, in order and untorn.
- The server shows all its clients the same conversation.

## Modules

| Module | Models | Used by |
|---|---|---|
| `ByteQueue` | the contract of SimpleBuffer as operators on a record: bytes held, length of the allocation, *sets* of outcomes because the layout is hidden | `ByteQueueSpec`, `SocketChat` |
| `ByteQueueSpec` | the same contract as a state machine | refinement target of `SimpleBuffer` |
| `SimpleBuffer` | `SimpleBufferImpl`, byte by byte with 32-bit sizes | |
| `MessageStream` | a stream of texts on each of several channels, such as the two directions of a connection | refinement target of `SocketChat` and `ChatServer` |
| `SocketChat` | two `SocketChatImpl` ends, their applications, and the TCP connection or shared memory between them | |
| `ByteChannel` | abstract bounded FIFO with a producer and a consumer | refinement target of `SPSC` |
| `SPSC` | `read` and `write`, one step per shared access | |
| `SharedSocket` | `WsocketSharedMemory` over `MemoryMapImpl` in a server and a client program, `SPSC::init`, the sequence number | |
| `InputLine` | worker and `getInputLine`, one step per shared access | |
| `ChatServer` | `SimpleServer::run`, `ClientConnection`, the client programs | |
| `SequenceLemmas` | parts, joins, positions and moves of sequences | the proofs |
| `SimpleBufferProofs`, `SPSCProofs`, `InputLineProofs`, `SocketChatProofs`, `SharedSocketProofs`, `ChatServerProofs` | theorems about the module of the same name | |
| `MessageProofs` | the theorems about whole messages and the stream refinement, on top of `SocketChatProofs` | |
| `MC...` | constants for TLC | |

The modules are stacked by contract. `SocketChat` uses buffers only through `ByteQueue`, and
`SimpleBuffer` is shown to implement exactly that (`RefinesByteQueue`, model-checked and
proved). Between `SocketChat` and `ChatServer` stands `MessageStream`: a stream of whole
texts of which the last may be lost when the connection is cut. Each direction of a
connection implements it (`RefinesStreams`, model-checked and proved; the texts on their way
are decoded from the bytes in the two buffers and the kernel, so that partial sends, partial
reads and cut delimiters are no steps at all). `ChatServer` takes the messages to a client
to be such a stream: `UsesStreams` shows that what it does with each of them, gives,
deliveries and losses, is within the contract. It does not show the converse, that the
server would tolerate every stream the contract allows; that `ChatServer` has messages for
its unit, and not bytes, is an abstraction that the two refinements bound from both sides
and no theorem states. `ChatServer` uses consoles as sequences of lines, which is what
`InputLine` shows (`LinesOnce`, `LinesComeThrough`). `SharedSocket`, and `SocketChat` on
shared memory, use a ring as a bounded FIFO, which `SPSC` is shown to implement.

### How they correspond to the code

**SimpleBuffer.** Variables carry the names of the fields; `mBuffer` is a function on
`0 .. mMaxLen - 1`. `growBuffer` is the set of layouts the function can leave: a set,
because the `memcpy` of line 108 may overlap and then depends on the order in which the
library moves bytes (`CopyOrders`). `lent` is a ghost: the room behind the pointer last
returned by `confirmCapacity`. Sums of sizes are taken modulo `WordSize`;
`SizeAssumption` says that none wraps, which the 512 MB maximum of the chat layer
guarantees. `shrinkBuffer` (lines 188-205) never installs the allocation it fills; the
contract therefore promises only the number of bytes after it. No program calls it.

**SocketChat.** Everything an end does between two system calls is one step: `PollStart`,
one step per outcome of `recv` (`RecvBytes`, `RecvWouldBlock`, `RecvEnded`, or
`RecvNoRoom` when `confirmCapacity` fails), one per outcome of `send` (`SendBytes`,
`SendFailed`), `Finish` (the send loop ends; a closing end with nothing left closes) and
`DispatchMessage` for each callback, in which the application may again send and close.
`Destroy` and `DestructorCheck` are the destructor's loop with its timer; `Tick` is the
clock. A client whose connect failed starts in its destructor with a null socket, as
`create` deletes it (`NotConnected`); one whose host name is unknown starts with a socket
on which every call fails, because `hostname_connect` returns 1 and `isValid` accepts it
(`NotResolved`). `transport` says what `mSocket` is: a shared memory socket never blocks,
never fails, and closing it does nothing (`CloseShared`), so its peer is told nothing and
fills the ring. `NetworkReset`, and the loss of unread data when an end closes with
bytes still to read, are the environment. `sent`, `accepted`, `delivered`, `consumed`,
`refused` and `ending` are history variables. The log file is left out.

**SPSC.** A call loads the other side's index once (`StartWrite`, `StartRead`), copies up
to two segments (`CopyIn`, `CopyOut` with `"top"` and `"bottom"`) and stores its own index
(`PublishWrite`, `PublishRead`). `todo` holds the accesses still to come; with
`RelaxedPublish` they happen in any order, which is what `memory_order_relaxed` allows.
`write` subtracts the reserved byte twice (lines 118 and 176), so the ring holds at most
`Capacity - 2` bytes. A call that moves nothing is a stutter.

**SharedSocket.** A process runs the constructor of `WsocketSharedMemory` one system call,
or one group of stores to shared memory, at a time: the header (version and size, of which
only both pass a client's check), the two indices, the sequence number. `pc` is where it is:
for each file `open` (the server's `CreateFresh` or `CreateFails`, the client's
`MeasureFile`), `zero` (`WriteZeros`), `map` (`MapFile`); then for each ring, the writer's
first, `init` (the client's `CheckHeader`, the server's `Stamp`), `clear` and `number` (the
server's other stores); the client's `join` (`incrementSequenceNumber`); and `up`. A process
without both views is `down`. `header[p]` is the rings whose `mHeader` is not null; a poll
of a connection that lacks one follows the null pointer and ends the program (`ReadFault`,
`WriteFault`). `Exit` ends a program at any time, and `Start` starts it again. The model is
of the Windows build, the only one that creates the files; the operating system's part is
that a file some process has mapped cannot be truncated (`Mapped`) and that a process that
ends loses its views. A process that is `down` keeps the view it got, for the destructor of
`MemoryMapImpl` never unmaps (lines 119-129). `put` and `got` are the pieces written to and
read from each ring since its file was made, `joined` the runs of the client that the
sequence number counts.

**InputLine.** The worker's places are `loop` (tests `mExit`), `slot` (tests
`mHaveNewData`), `clear`, `fgets`, `publish`; the caller's are `copy` and `free`. The mutex
is locked by `getInputLine` alone and so orders nothing; it is left out. A line longer than
the 512-byte buffer is several elements of `Typed`. A line that begins with NUL is `Empty`
to `strlen` (line 30): the worker passes over it and looks at `mExit` again. `EndsAfter`
says whether the input ends, after which `fgets` fails at once, for ever.

**ChatServer.** `pc` is the part of the loop in `run`: accept, console (`Input`), erase the
closed connections (`DropClosed`, one connection at a time, from the first on; `Reap` when
none is left), poll one client after the other (`Echo`), and the destructor, which for the
first connection of the list polls until it has closed (`ClosePoll`) or gives up (`GiveUp`,
never obliged to happen: each look restarts the timer), then deletes it (`Delete`), and ends
after the last (`Quit`). Messages are the unit. `tx` is the server's transmit buffer, `down`
what the kernel and the client hold, `up` everything a client sent and the server has not
taken out. `listening` says whether the server got its port: without it, it runs with a null
`mServerSocket` and accepts no one. `blocking` says whether accepted sockets are in blocking
mode, as they are on POSIX (`wsocket.cpp:311`): the server then waits in the poll of the
first client until that connection ends, and only `LoseClient` takes it further (that a full
receive buffer of 512 MB ends the wait as well is left out). `PollClient` follows the order
of `poll`: take in what has arrived, send what fits, then the callback, which keeps only the
last message. `LoseClient` is a poll that finds the connection ended. A user is `Patient` if
he waits for his echo before typing on. The programs of the clients in `Reading` go on
polling; the others may stop reading for good at any time.

## Runs

| Run | Question | Result |
|---|---|---|
| `simplebuffer` | Does the buffer implement the byte queue? | yes |
| `socketchat` | Safety of two ends, over TCP and over shared memory | holds |
| `socketchat_live` | Streams of whole texts, delivery, returning polls, closing, noticing the other's end | holds |
| `socketchat_close` | Are all received messages given to the callback? (`socketchat.h:49-50`) | no: a poll that sees the end drops them |
| `socketchat_destructor` | Does the destructor give up after its time-out? (`socketchat.cpp:65`) | no: the timer restarts at each look |
| `socketchat_blocking` | Does `poll` return on an accepted POSIX socket? (`socketchat.h:46`) | no: it is in blocking mode |
| `spsc` | Is the ring a FIFO that keeps flowing? | yes, in program order |
| `spsc_relaxed` | ... with relaxed index stores? (`SPSC.h:10`) | no: it returns bytes never written |
| `sharedsocket` | Do two programs on shared memory meet, and lose nothing, in any order of starts and ends? | yes, with the exceptions below |
| `inputline` | Is the hand-over of lines correct? | yes |
| `chatserver` | Same conversation for all, over streams of texts; on non-blocking sockets, echoes | holds |
| `chatserver_batch` | Is every message echoed? (`TestServer.cpp:176-177`) | no: of two in one poll, the last |

Bounds, and why they are enough:

- `simplebuffer`: allocations of 2 to 8 bytes, chunks of 1 to 3, requests 0, 2, 3.
  Doubling once and twice, the extra growth, sliding with and without overlap, refusal
  and the in-place add all happen. Two byte values suffice to see order and loss.
- `socketchat`: two texts from the client (the second ends in a carriage return), an empty
  one from the server, one-byte reads, a two-byte kernel window, buffers of 3 that may grow
  once to 6. So every delimiter is cut, sends are partial, and both buffers reallocate,
  and refuse. The live run has one text each way, buffers of 4 and reads of 2, so that both
  ends send, close and break off at once, and the client's text with its delimiter fills the
  buffer: an end is stuffed (below) for a moment, and for ever if the peer goes when the
  delimiter is still to come. Growth is in the safety run. Both runs start with either
  transport, and connected, refused or unresolved.
- `spsc`: 5 slots, writes of 1 to 4 bytes, reads of 1, 2, 4: every index position, wrap
  and split, empty and full.
- `sharedsocket`: the server is started twice, the client three times, from no files or
  from files left by earlier programs; two pieces of each client run and one of each server
  run in rings that are full with one. So either may start first, fail half-way, end at
  every point and find what its predecessor left.
- `inputline`: seven lines, two of which begin with NUL, and the end of the input, the
  buffer being reused throughout.
- `chatserver`: a patient and an impatient client who sends two messages (the second a quit
  word), a console that speaks once and then stops the server, a window of one message so
  that a client that does not read fills it. Only the impatient client's connection may
  break, and only he may stop reading. Accepted sockets of either mode; the two liveness
  properties are about non-blocking ones.

What `socketchat_live` does not promise, and why:

- An end is `Stuffed` when its receive buffer holds no delimiter and may refuse room for
  another read: `poll` then leaves the receive loop before `recv`
  (`socketchat.cpp:114-117`), at this call and all later ones. `Delivery` excludes a
  receiver that stays stuffed. `EndIsNoticed` excludes an end that stays stuffed and has
  nothing to send, for it makes no system call any more that could tell it. `ClosingEnds`
  excludes an end with bytes left for a peer that stays stuffed, while the wire is full.
- `ClosingEnds` also excludes an end with more to send than the ring takes when the peer has
  closed its shared memory socket: `close` tells it nothing, and the ring stays full
  (`Unheard`).
- A text that `sendText` could not buffer is not promised at all (`refused`): its delimiter
  may be sent without it, so that `MessagesInOrder` and `RefinesStreams` end there too.

The run reaches each of these exceptions: TLC finds each of the three properties violated if
its exception is dropped.

What `sharedsocket` does not promise, and why:

- A client may join while the server is still initialising: the server's store of zero
  (`SPSC.h:50`) then wipes out its increment, and `pollServer` never sees it. Such a client
  is not in `joined`, and `LateStartersMeet` is about clients started when the server is up.
- A client that measured the server file before the server filled it has `mMapSize` 0: its
  reader is not initialised, `create` does not look at the result, and the client counts
  itself all the same (`MemoryMap.cpp:48`, `socketsharedmemory.cpp:40-42`).
  `JoinedIsUsable` excludes exactly this case; TLC finds it if the exclusion is dropped.
- The server accepts once (`mFirst`). A second client joins the conversation of the first,
  and finds in the ring what the first has left there.

`growBuffer` calls `memcpy` on overlapping ranges (`SimpleBuffer.cpp:108`), which the
language leaves undefined. `simplebuffer`, and of the theorems the one about content
(`Refinement`), assume that it copies in ascending order; with `"descending"` in
`CopyOrders` TLC finds the content corrupted. The offsets and the lent room do not depend
on the order, and are proved for every one.

Deadlock is checked for SimpleBuffer and SPSC, which always have a step. It is off
where the system may stop: after both ends are gone (SocketChat), when the worker has
ended or waits for input (InputLine), after the server is done (ChatServer), when no
program is left to start (SharedSocket).

### Fairness

Weak fairness only, on threads that run endless loops: each end's poll and destructor loop
and the clock (SocketChat), the reader's and the writer's calls (SPSC), the worker and the
main loop's `getInputLine` (InputLine), the server's loop and the polls of the clients in
`Reading` (ChatServer), a started program's constructor and its polls, with or without a
connection (SharedSocket). Both programs poll in a `while` loop without a wait of their own
(`TestServer.cpp:121`, `TestClient.cpp:46`). No user need type, send, close or quit, and the
network need not fail, and a destructor need not give up. `PatientAreEchoed` and
`AllAreTold` are about non-blocking accepted sockets, for on blocking ones one silent client
holds the server up (`socketchat_blocking`). KeepsFlowing supposes that both sides keep
calling with something to write and room to read into, as the two polling processes do while
data is there.

## Proofs

Proved by TLAPS for every value of the constants, from the modules' named assumptions.
Every invariant that a passing run checks is a theorem. Each strengthening below was first
checked by TLC as an invariant of the component's run.

- **SocketChat** (`SocketChatProofs`, from `SocketChatAssumption`), for every script
  without delimiters inside the texts, all buffer sizes, windows, transports and
  interleavings. The inductive invariant is the conjunction of five parts, each proved from
  the ones before it.
    - `TypeOK` is inductive only with `DispatchInv`: `_dispatchBinary` takes bytes up to the
    first delimiter, which must exist when the place is `dispatch`. `DrainInv` adds
    `PollDrains` (`Drains`): a poll that returns has left no whole message behind, also if
    it was the one that flushed and closed. A poll that found the connection ended or broken
    leaves what it has (`socketchat_close`), and during a callback there is a message left.
  - `SockInv` ties the two sockets and the places of the polls: both ends are open or one
    of them is closed, and a poll under way has a socket it has not closed.
  - `StreamInv` gives `StreamIntact` (`StreamStaysIntact`). `StreamIntact` is not inductive: bytes
    that the kernel holds for an end whose connection broke may still be received. So the
    bytes *arrived* (received or in the kernel) are a prefix of what the peer accepted,
    always; and while the connection stands (`Standing`: both sockets open, or shared
    memory, which outlives a close), the peer's transmit buffer is the rest.
  - `EndingInv` gives `CleanEnd` (`EndsClean`): an end that closed by itself left all it
    had accepted in the kernel, as it closes only with an empty transmit buffer; and an end
    that saw the end of file had emptied the kernel first.
- **Whole messages** (`MessageProofs`): `TextsInOrder` proves `MessagesInOrder` from the
  bytes. `FrameInv` says that there are bounds in the stream of accepted bytes, between which stand
  the texts with their delimiters, and that what an end consumed stops at the bound of the
  last text delivered. The step is `OwnDelimiter`: a text without a delimiter in it,
  followed by CR LF, has its first delimiter at its own end even if it ends in CR. Then
  `NextText`: the first delimiter in the receive buffer, which is a prefix of the rest of
  the stream, ends the next text. The invariant holds as long as `addBuffer` refused
  nothing (`refused`), as does the property.
- **The streams of whole texts** (`StreamsAreKept` in `MessageProofs`, for
  `RefinesStreams`): each step is, in each direction, a `Give`, `Take`, `Lose`, `Refuse` or
  `Rest` of `MessageStream`.
  - The decoding. `Messages` cuts bytes at their delimiters, the n-th being the one that n
    delimiters lie at or before. The bounds of `FrameInv` are those positions
    (`DelimitersAre`, `MessagesAre`), so that the bytes that are still to come after text k
    decode to the texts k+1 to m, m being the last text whose bytes are all there
    (`Reaches`, `Decoded`). No induction over bytes is needed: the count of delimiters up
    to a bound is a cardinality, fixed by the bijection with `1 .. n`.
  - `Ways` states this of every state (`WaysFound`, from `StreamInv` and `FrameInv`).
  - The steps. `SendText` adds the text at the end, `DispatchMessage` takes one, and every
    other step either keeps the bytes to come as they are (`Keeps`: they move from buffer to
    kernel to buffer) or ends the connection and leaves a first part of them (`Shortens`),
    which loses whole texts from the end. A refused `addBuffer` ends the promise (`Refuse`).
- **ChatServer** (`ChatServerProofs`, from `ChatAssumption`), for any number of clients,
  lines and window.
  - `Basic` is `TypeOK /\ ListInv /\ ConnectionInv`: the list has no connection twice,
    the loop's index is in it, and where a connection is (backlog, list, erased) agrees
    with what is in its queues. `TypeOK` depends on it (`ListIsSound`).
  - `SameConversation` (`OneConversation`) needs `StreamInv`, which follows a client after
    it left the list, when it goes on showing what it had been sent: seen, on its way and
    still to send are a prefix of all broadcast since it was accepted, and all of it while
    the connection stands.
  - `UsesStreams` (`StreamsAreUsed`): each step is, for every client, a `Give`, `Take`,
    `Lose` or `Rest` of its stream. A broadcast gives to all, a poll may broadcast
    only after it has taken in and sent.
  - `EchoesInOrder` (`EchoesAreTrue`) needs `EchoInv`: the lines on their way to the server
    follow those already polled. Without it a line still on its way might be one already
    echoed.
- **SharedSocket** (`SharedSocketProofs`, from `SharedAssumption`), for any number of
  starts, ends and pieces and every size of the ring.
  - `Typed`: with `Numbered`, every run of a client has a number.
  - `JoinedIsUsable` (`JoinedMeet`) by `MeetingInv`. The server stamps its own ring first
    (`StampedInOrder`), and cannot make a file anew that a client has mapped (`ServerViews`,
    `ClientViews`); so a client that found the second ring usable, with the whole of the
    server's file mapped, found the first one usable too (`BothOrNone`).
  - `NothingLost` (`NothingIsLost`) by `CountedInv` and `PiecesInv`. `init` clears the
    indices (`clear`) after the header, so a client let in early loses what it has written
    by then, but the counter is cleared after that (`Cleared`) and such a client is not in
    `joined`. `ClientPieces` therefore says, before the clear, that nothing is lost yet;
    after it, that what is lost is a first part that uncounted runs wrote; and once the server is
    up, that from then on the ring is a FIFO.
- **SPSC** (`SPSCProofs`, under `ProgramOrder`: `RelaxedPublish = FALSE`). The inductive
  invariant is `TypeOK /\ RingInv` (`Invariance`, `RingTyped`). Type correctness is not inductive: that a copy stays
  in the array, and that an index wraps at most once, needs that a pending write plus what
  is unread is within the limit, that a pending read is within what is unread, and that
  copied slots still hold what was copied; `RingInv` says this of both calls. From it
  `CallsNeverMeet` (the footprints of the two calls are disjoint) and `Refinement` (each
  step of the ring is a step of `ByteChannel`, or none: the store of an index is the step
  that counts, and copies stutter).
- **SimpleBuffer** (`SimpleBufferProofs`). `TypeOK /\ LentRoomIsThere` is inductive
  (`BufferTyped`, `Invariance`), whatever the order in which `memcpy` moves overlapping
  bytes: a slide changes content, never the layout (`SlideStaysInside`). The room lent is
  needed to know that the in-place add neither slides nor reallocates (`InPlace`).
  `Refinement` shows each operation as an outcome `ByteQueue` allows, refusals included;
  it alone assumes `Upwards`, that line 108 moves bytes in ascending order.
- **InputLine** (`InputLineProofs`). `InputTypeOK /\ SlotInv /\ LinesOnce` is inductive
  (`ThreadsTyped`, `SlotIsSound`, `EachLineOnce`); `SlotInv` relates the flag to the places
  of both threads and to the buffer, without which a returned line could not be known to be
  the next one typed. `NeverTorn` follows.

Only model-checked:

- Every liveness property: fairness and ENABLED are outside the prover's reach.
- The behaviours under relaxed stores and descending copies, which violate the properties.

## Not modelled, and why

- `select`, socket options, record files and the log file: input and output only.
- Playback sockets: used by no program. Recording is compiled out, and writes the bytes
  alone (`wsocket.cpp:165-167`, the lengths are commented out) where playback expects them
  after their lengths (lines 384-396).
- `MemoryMap` on POSIX: opens for reading only and never creates, so that no shared memory
  socket can be used.
- `wplatform`: wrappers without state.
- Undefined behaviour after an object is freed: InputLine's detached worker
  (`InputLine.cpp:48`), and the server program on shared memory, which deletes its listening
  socket with the connection (`socketsharedmemory.cpp:74`).
- A callback that deletes or polls its own connection; SIGPIPE.
- Windows and POSIX differ in accepted sockets: `Blocking` covers both.

## Plan

1. *Done*: SimpleBuffer and its contract; SocketChat over it, on TCP and on shared memory;
   SPSC and its channel; SharedSocket; InputLine; ChatServer.
2. *Done*: the theorems above. They state every invariant and every safety action property
   of every passing run: the action property `InPlaceAddStays` and the refinements by SPSC,
   SimpleBuffer, SocketChat and ChatServer. What the runs check beyond them is liveness.
3. Left: safety facts behind the liveness properties that can be stated without ENABLED
   (such as that each iteration of `poll` makes the buffer or the wire shorter), and an
   abstract specification of `SharedSocket` (a sequence number with a server and clients)
   that it implements.
