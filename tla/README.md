# SimpleTCP in TLA+

A TLA+ model of SimpleTCP, the C++ library under `SimpleTCP_lib/` that runs the
TCP three-way handshake in user space, over UDP datagrams on `127.0.0.1`. The
modules model what the code does, not what RFC 793 asks for. Where the two, or
the code and its own comments and tests, differ, a run shows it (see
[Findings](#findings)).

## The system

A program calls `SimpleTCP::initialize`, which opens one raw socket and starts
the *listening thread*, then `SimpleTCP::open`, passively (wait for a SYN) or
actively (send one). Everything else happens in the library's threads.

| Component | State | Operations |
|---|---|---|
| `SimpleTCP` | `tcbMap` (local port → block), `listenSocket`, the static `errorMessage` | `initialize`, `listenNewConnections`, `open`; `send` and `receive` are stubs |
| `TCPMessageStateMachineImpl` | `mutex_` | `processRawIPMessage` (listening thread), `sendSYNMessage` (user's thread), `processUDPMessage` (thread of a block) |
| `TransmissionControlBlock` | `state`, `iss`, `snd_una`, `snd_nxt`, `irs`, `rcv_nxt`, `passive`, `connectionSocket`, `threadLaunched`, its `LocalConnection` | the senders (`sendSYN`, `sendSYNACK`, `sendRST`, `sendEstablishedACK`), the handlers of LISTEN, SYN_SENT and SYN_RECEIVED, `launchTCBThread` |
| `LocalConnection` | local and foreign port, `foreignSockaddrr` | `createLocalSocket` (bind, adopt the port bound), `createForeignSocketAddress` |
| `SocketFactoryWin`, `TCPFacadeWin` | the operating system's sockets | `createUDPSocket`, `getSocketPort`, `send`, `receive` |
| `TCPHeader`, `UDPHeader`, `IPv4Header`, `byteop` | none | parse, fill, `calculateChecksum` (no caller) |
| the handshake tests and their mocks | the block of a section, `receiveMessageQueue`, `sendMessageQueue`; the static `errorMessage` and launched threads outlive a section | 27 sections, in any order of the four test cases |
| the two programs | none | `initialize`, one `open()`, and nothing |

### How they interact

* The **user's thread** in `open()` puts a block in `tcbMap`; for an active open
  `sendSYNMessage` then takes the mutex, binds a socket to an ephemeral port,
  sends the SYN, moves the block in `tcbMap` to that port and launches the
  block's thread.
* The **listening thread** of every process reads a raw socket. It drops a
  segment whose source port is a key of `tcbMap` ("our own call", looked up under
  the mutex); looks the destination port up *without* the mutex; answers for a
  closed port with a reset, sent from a socket it binds to that port for the
  purpose; and otherwise hands the segment to the block, which asserts that it
  is in LISTEN. A SYN makes the block bind a socket of its own, answer from that
  new port and launch its thread.
* The **thread of a block** reads the block's socket, copies `state` without a
  lock and dispatches on the copy.

Three threads write a block and none of them takes a lock for it. What keeps
them apart, where something does, is the protocol: which state allows which
thread to act. That argument is what most of the properties, and all of the
proofs, are about.

### What is hard, and what makes each component correct

| Component | Hard | Correct when |
|---|---|---|
| Block | three threads without a lock; the SYN,ACK leaves before the variables it implies are written; a listener that is reset and used again; wrap-around of the numbers | the copied state is still true when it is used; nobody disturbs a half-sent SYN,ACK; the sequence variables fit the state; only a number in the window of our SYN establishes; resets are not answered; the states follow RFC 793's diagram and a failure leaves its reason |
| State machine | a lookup under the mutex, another one not; answering for closed ports; segments of one's own | own segments are not handled; exchanges of resets end; `tcbMap` finds each block under the port it is reachable at |
| Two processes | lost, duplicated, reordered segments, a client that vanishes and whose segments remain | a server that is ESTABLISHED has a client that is, with the same ports and numbers; a SYN that is heard leads to a connection; a reset due for a listener whose client is gone gets there |
| `SimpleTCP::open` | several callers at once; a socket, a `bind` or a `recv` that fails; an ephemeral port someone listens on; a returned copy that owns the block's address | the handle a caller gets finds its block, nobody sees a null block, the address is freed once, the mutex comes back, and a process that lost its sockets ends: each except in the cases its property names |
| Tests | what one section leaves for the next, threads it leaves behind, numbers drawn at random | a section passes by its own doing, for every draw |

## Modules

| Module | Models | |
|---|---|---|
| `Segments` | `TCPHeader` (the fields a handler reads), `uint32_t` arithmetic | constants `Port`, `NoPort`, `MaxSeq` |
| `TCB` | `TransmissionControlBlock`, `LocalConnection` | one operator per sender and handler, from block and segment to an *effect*: the block it leaves, the segments it sends, the error it reports |
| `ConnectionStates` | what a user may rely on | abstract specification: the edges of the state diagram the code supports, and the reason of each failure |
| `TCBThreads` | one block and the three threads that touch it | any segment may arrive at any time, on either socket; implements `ConnectionStates` |
| `Handshake` | what two ends may rely on | abstract specification: a server opens only with a client that opened on its answer |
| `SimpleTCP` | several processes on one address: `open()`, the mutex, `tcbMap`, both kinds of socket, closed ports, the network, processes that end | composes the operators of `TCB`; implements `Handshake` |
| `OpenCalls` | one process from `initialize` on, with several callers of `open()` and failing sockets: `tcbMap`, the mutex, the handles, the address | segments and states reduced to what these depend on |
| `HandshakeTests` | `TCPHandshakeTest.cpp` and the mocks | the sections as a table, run over the operators of `TCB` |
| `WireFormat` | `fillSendBuffer`, `parseTCPHeader`, `byteop`, `parseIPv4Header`, `parseUDPHeader` | pure operators on sequences of bytes |
| `SegmentReading` | one segment, filled in and read from a UDP or a raw socket | uses `WireFormat`; one action per turn of the loop over the options |
| `MCTCBThreads`, `MCSimpleTCP`, `MCSegmentReading`, `MCOpenCalls`, `MCHandshakeTests` | the instances that are model-checked | |
| `TCB_proofs` | types and outcomes of the operators of `TCB` | lemmas only, used by all the others but `OpenCalls_proofs` |
| `TCBThreads_proofs` | inductive invariant, action properties and refinement of `TCBThreads` | |
| `SimpleTCP_proofs` | inductive invariant of `SimpleTCP` about ports, keys and types | |
| `SimpleTCP_agreement_proofs` | ... about numbers: the two ends of a connection; and that no process dies | extends `SimpleTCP_proofs` |
| `SimpleTCP_refinement_proofs` | `SimpleTCP` implements `Handshake` | extends `SimpleTCP_agreement_proofs` |
| `OpenCalls_proofs` | inductive invariant of `OpenCalls` | |
| `HandshakeTests_proofs` | inductive invariant of `HandshakeTests` | |
| `SegmentReading_proofs` | inductive invariant of `SegmentReading`, on every header and every list of options | |

`Segments` ← `TCB` ← (`TCBThreads`, `SimpleTCP`, `HandshakeTests`); `OpenCalls`
stands alone. Names are those of the code.
Operators whose comment starts with "Mutant" are plausible bugs of the
definition that follows them; they take part in nothing, and each property is
tried against one of them.

### Correspondence

*Atomic steps.* A handler is one action, with one exception: `sendSYNACK` run by
the listening thread is two (`ListenerHandles`, then `ListenerAnswered`), split
where the segment leaves. The block may already have a thread then, and
its answer can arrive before `state` is written. Inside the thread of a block the split makes no difference:
it is the only reader of its socket, and the listening thread touches a block
only in LISTEN, which no handler of that thread passes through. Likewise
`processRawIPMessage` is split between the two lookups (`RawReceives`, `Finds`)
and around the socket that is bound for a reset (`ClosedBinds`,
`ClosedReplies`), `open()` between `emplace` and `sendSYNMessage`, and
`sendSYNMessage` after the send (`SendsSYN`, `Rekeys`), holding the mutex in
between. `processUDPMessage` is split at the copy of the state
(`ReaderReceives`, `ReaderHandles`). An operation on `tcbMap` is one step: that
two threads in a `std::unordered_map` at once is undefined behaviour is noted
under [Not modelled](#not-modelled).

*`OpenCalls`* splits `open()` further, at every point where a second caller or the
listening thread can get between: the lookup, `emplace`, `tcbMap[localPort]` before the
mutex, the mutex, the send, the new key, and the copy that is returned; and the
listening thread between `createLocalSocket` and `processPacketListenState`. A
block, its `LocalConnection` and the handle are named by the call that creates
them. Of a segment it keeps the ports and whether it is a SYN, a reset or
anything else; of a block's state whether it is LISTEN, SYN_SENT, SYN_RECEIVED
or one in which nothing is processed. Any of these segments may arrive whenever
the raw socket works; a block's thread may make any step its state allows.
A process that ended has no memory left (`Ends`).

*`HandshakeTests`.* Catch2 runs a test case once for each of its sections, from the
beginning; so a section is arranged, processed and required
(`Arranges`, `Processes`, `GoesOn`), and only `errorMessage` and the threads live on.
The mock of the socket keeps a pointer to a local array. What the code under test
reads through it is undefined: `Processes` reads the segment that was put
there, `ProcessesGarbage` anything else, and the properties that speak of the
outcome of a section say so (`intact`).

*`SimpleTCP` as `Handshake`.* A client is calling from its SYN on, open when
ESTABLISHED; a server is answering from the moment its SYN,ACK leaves, which is
before its state says so. They are joined when the client has the numbers and
ports of the server's last answer.

*Data* (of the modules above the wire). Ports are model values. Windows, checksums, options, payload, the bits
URG and PSH, timeouts and printed messages are left out: no handler reads them.
Sequence numbers are `0 .. MaxSeq` with the wrap-around of the type and the
code's plain unsigned comparisons. `generateISS` returns any number
(`TCBThreads`) or an unused member of `ISS` (`SimpleTCP`).

*Sockets* are sets of segments read in any order: datagrams are reordered, and
identical copies merge. Under `Fault` they are lost and duplicated.

### Assumptions about the environment

* `assert()` is compiled in, as in the default build; a failed one ends the
  process (`aborted`). An exception nobody catches in a detached thread does the
  same (`terminated`).
* `RawCopy`: whether a raw socket also receives a datagram for a port that a UDP
  socket is bound to. That is up to the system; `faults` and `leftovers` take
  TRUE, the other runs FALSE, the setting in which handshakes complete
  reliably.
* The system does not give an ephemeral port twice, and users do not listen on
  ephemeral ports (`PortAssumption`).
* In `SimpleTCP`, draws are neither equal nor adjacent and not at the wrap
  (`ISSAssumption`): they are 32-bit random numbers. `TCBThreads` has every
  number.
* In `SimpleTCP`, each process calls `open()` from one thread, as both `main.cpp`
  do, the caller keeps the `LocalConnection` it was given, and calls of the
  socket library succeed, except the `bind` of the reset socket. `OpenCalls` is
  there for the rest: callers meet, discard what they get, listen on ephemeral ports, and
  whatever is in `Failure` may fail at any call. In both, each call of the instance
  is made at most once.
* A user who gets an exception from `open()` goes on (`OpenCalls`). One who gets `false`
  from `initialize()` stops, as both programs do.
* `setsockopt` in `initialize()` fails, as it must without a value; the code throws
  if it does not.

## Runs

`TCBThreads` (`MaxSeq` = 2, so three numbers, with the wrap-around within reach
of every increment; one ephemeral port, because the only block takes only one;
segments with every combination of control bits, every acknowledgment number
and the two sequence numbers whose increments differ in kind):

| Run | Shows |
|---|---|
| `tcb` | A block of either kind: types, `SnapshotHolds`, `AnswerUndisturbed`, `SequenceVariables`, `PeerIsHeard`, `EstablishedByAck`, `ResetNotAnswered`, and that it implements `ConnectionStates` |
| `iss_at_wrap` | finding: the ACK of ISS `UINT32_MAX` is refused |

`SimpleTCP`:

| Run | Instance | Shows |
|---|---|---|
| `handshake` | one client, one listener, opened in either order; fairness | the two implement `Handshake`; `OwnSynFiltered`, `MapFollowsPort`, `NobodyDies`; a SYN that is heard leads to `Connected` (`HandshakeCompletes`); the talk ends (`SegmentsSettle`) |
| `reconnect` | two clients in two processes, together or in any order, of a listener that opened before them; the first may vanish at any moment; segments are lost | `Handshake` across the reset and reuse of the listener (`ImplementsHandshake`) |
| `leftovers` | the two clients one after the other, raw sockets see everything | the one way the listener is reset while the first client's ACK still waits: a copy of the SYN,ACK that is answered after the client is gone. The old ACK is refused (`Agreement`), no two clients hold the same answer (`AnswersAreUnique`), and a reset that is due for the listener is neither dropped by a filter nor sent astray (`ResetReachesListener`) |
| `faults` | one client that may vanish and a server that also calls back, from the port it may be listening on; segments duplicated and reordered; raw sockets see everything | what survives the failed assertions still agrees |
| `second_client`, `own_calls`, `send_next` | | findings |

`reconnect` needs the step `AcceptOld` of `Handshake`, which `handshake` does
without (`Orphans`). The reset that answers for a vanished client may be sent by
more than one process, and a reset is not compared with any number in SYN_RECEIVED:
the second one can take back the answer to the *next* client, which opens on it
and stays half-open. TLC found this when the refinement was first tried without
that step.

`OpenCalls` and `HandshakeTests`:

| Run | Instance | Shows |
|---|---|---|
| `open` | one process: a listener and two clients on one port (`Together`), or a listener and a client on a port each (`Apart`); two ephemeral ports, one of which is the listener's; every call may fail; the listener's user discards the handle; fairness | a null block needs two clients at once on a port, whatever collides (`NullBlockNeedsTwoCallers`); handles lose their block only so, or when a segment gets between a listener's `emplace` and the copy of its handle (`HandlesFindTheirBlock`); the address is freed twice, or used when freed, only by callers that discard a handle which has one (`HeapCorruptedByDroppers`); the listening thread gets the mutex unless a SYN failed (`ListenerGetsMutex`); `WSACleanup` ends the process (`CleanupEndsProcess`) |
| `tests` | every order of the test cases, every number drawn, garbage of every kind in the dead buffer, between the ports of the tests or from port 0 to port 0 | every section passes, except one that acknowledges a `snd_nxt` that wrapped to 0, which fails (`SectionsPass`); none passes on an error message of an earlier one (`ErrorsAreOwn`); where only silence is required nothing was changed (`SilenceIsADrop`); threads that end the program come from `TCB_Listen` and `TCB_SynSent` (`StrayThreadsAreOfHandshakes`) |

Bounds. In `open` two ephemeral ports let a client's port collide with the
listener's and run out; the segments are those to the listener and a SYN to an
ephemeral port. A third call on one port is what meets the null block or the
listener that the others left there. One caller that discards its handle is enough for
each way to free an address twice or use it then, and a listener is the harder
case: its handle has an address only if a segment was faster. In `tests` eight numbers are more than
the tests' offsets from an ISS (-3 to +3) span, so none of them coincide. Five would
do (`WidthAssumption`); with four the section that refuses `ISS - 3` sends what the one
that accepts `ISS + 1` sends, and TLC reports it.

Fairness of `open`. While calls of `open()` can go on one of them does (each has a few
steps, so none is passed over for ever), the listening thread goes on unless it waits for a segment or
the mutex, and a `recv()` on a socket that `WSACleanup` took away returns. A call that may fail
need not.

`SegmentReading`:

| Run | Shows |
|---|---|
| `reading` | every header the senders fill in, with numbers at the edges of bytes, is laid out as in RFC 793 (`FilledAsRFC793`); it and segments of other programs, with every list of RFC 793 options of up to two words, are read back as they were meant from either socket, and from the mock of the tests (`ParsedAsSent`, `RawHeadersAgree`), with the length that a closed port acknowledges (`SegLenIsPayload`); the loop over the options ends (`ParsingEnds`), inside the header (`OptionsWithinHeader`). |

The reference, `Layout`, states the header as ten words with weights, apart from
the shifts and bit indexes of the code, so an error that filling and parsing
share would show too. 32-bit numbers are pairs of halves. Two words of options
reach each branch of the loop from each other and fill the header the
library sends (28 bytes). `ParsingEnds` assumes only that the code runs on.
With `SegLenIsPayload`, the library's own segments (no payload) have `segLen` 0, as
`closedReply` of `SimpleTCP` takes it.

Bounds of `SimpleTCP`. Four numbers to draw (three where three suffice) are one more than the
SYNs and SYN,ACKs that the instance sends in its longest history; a run that has drawn all cannot
answer once more. `MaxSeq` leaves a gap between them.
Three ephemeral ports serve two clients and a listener. `Monotonic` is a state
constraint: of the orders in which numbers can be drawn, the increasing and the
decreasing one are explored, since the code compares a number only with one
drawn earlier. `MaxBacklog` (no raw socket has more than two segments waiting) keeps `leftovers` and
`faults` small enough to explore. `ListenerFirst` leaves the order in which a client and its
listener open to `handshake`, and stops where a process both clients need has died;
`OneAfterTheOther` adds to it what cuts the histories of `leftovers` down to those
it is about; the bugs their properties are tried against show within them.
Loss is a fault of `reconnect` and not of `faults`, where a segment that is never read
stands for a lost one. `EphemeralSymmetry` is used in three runs that have no liveness property. `CHECK_DEADLOCK FALSE` throughout: a system that has settled, or
whose processes ended, stops, rightly.

Fairness of `handshake`. Weak fairness of each thread's step: the threads are
loops that wait only in `recv()` and for the mutex, and `sendSYNMessage`
gives the mutex back. There is no fairness for users: nobody must call
`open()`. `HandshakeCompletes` therefore starts from a SYN in the raw socket of a
process that is listening.

## Proofs

### One block and its threads

`TCBThreads_proofs` proves, for every set of ports, every `MaxSeq`, active and
passive blocks and every set of incoming segments, that `IInv` is inductive:

    IInv == TypeOK /\ SnapshotHolds /\ AnswerUndisturbed /\ SequenceVariables
              /\ PeerIsHeard /\ Roles

None of the safety properties is inductive alone, and they depend on each
other in a circle:

* `SnapshotHolds` survives a step of the listening thread because that thread
  changes a state only from LISTEN. For its second half, `ListenerAnswered`,
  that the block *is* in LISTEN is `AnswerUndisturbed`.
* `AnswerUndisturbed` survives a step of the block's thread because the handlers
  run only if the copy says SYN_SENT or SYN_RECEIVED, which by `SnapshotHolds` is
  then the state itself, and that is not LISTEN.
* `SequenceVariables` after `sendEstablishedACK` needs that the block was in
  SYN_SENT (`SnapshotHolds` again), and after `ListenerAnswered` that `rcv_nxt` and
  `irs` are still those of the first half (`AnswerUndisturbed`).
* `Roles` adds which kind of block each state belongs to, that a thread that
  handles a segment was launched, that a socket is on an ephemeral port, and that nothing fails
  before the launch.

The lemmas of `TCB_proofs` first type every operator of `TCB`, then say what each
handler can result in (`ListenOutcome`, `ReaderOutcome`, `ListenEffect`, `ReaderEffect`);
there is one invariance lemma per action.

The second half of the module derives from `IInv`: `EstablishedOnlyInWindow` (with
`SequenceVariables` the two window tests of the code admit only the numbers that
`EstablishedByAck` names, whatever the wrap-around: in SYN_SENT the number after the ISS, in
SYN_RECEIVED the ISS itself, too), `NoResetForReset`, and
`BlockImplementsConnection`, the refinement of `ConnectionStates`. So each
property of the passing runs of `TCBThreads` is a theorem.

### Several processes

For every set of processes, calls and ports, with every fault of the network,
whichever processes may exit, and with either setting of `RawCopy`.

`SimpleTCP_proofs`: `PortInv` is inductive, and gives `TypeCorrect`, `CallsFiltered`
(`OwnSynFiltered`) and `MapCorrect` (`MapFollowsPort`).

    PortInv == TypeOK /\ Blocks /\ PortsDiffer /\ KeysOwned /\ BlocksFound
                 /\ PortsKnown /\ SocketsReceive /\ AnswerOwned /\ OwnSynFiltered

`OwnSynFiltered` is not inductive: that the filter finds the block of an active
connection takes `BlocksFound`, that it does so also for a SYN it reads while
`sendSYNMessage` is between the send and the new key takes the mutex, and that no
segment that passed the filter *becomes* one's own when a socket is bound takes
`PortsKnown`: every port in a segment on its way was given before, so it is not
given again. That a key moves to where nobody else's is takes `PortsDiffer` and
`KeysOwned`.

`SimpleTCP_agreement_proofs`: `AgreementInv` is inductive, and gives `EndsAgree`
(`Agreement`) and `AnswersUnique` (`AnswersAreUnique`).

    AgreementInv == PortInv /\ Connections /\ Threads /\ InTransit

The argument is about who can know a number. A number is drawn once. A SYN,ACK in
flight carries a number drawn for it, and as long as the block that drew it stands
by its answer the segment has that block's ports and acknowledges its client
(`SynAckSegments`, `NamesAnswer`). An ACK in flight acknowledges an answer that an
active block opened on (`AckSegments`); so a passive block that accepts one has a
client that is open with its number (`EstablishedBlocks`), and the client has the ports
and numbers of the block (`OpenedBlocks`). An old ACK, of a client that is gone, does not
fit: the listener drew another number when it was used again. `Threads` says, as for
`TCBThreads`, that the copied state still holds when it is used and that nobody
touches a block between the halves of its answer; `Delivered`, that a connection socket
holds what was sent to its port, without which an answer could be taken by another client.

`ResetsGetThrough` (`ResetReachesListener`) follows from `AgreementInv` where nothing is lost,
whoever exits and whatever is duplicated. A reset is due while a SYN,ACK of a listener that waits
for its client is with a process's listening thread, or the reset itself waits for the
listener. The filter lets the answer pass, because no block is under the port it came from
(`KeysOwned`, `PortsDiffer`); the reset is delivered, because the listener keeps its socket;
and the listener's thread handles it as in SYN_RECEIVED. `PassesOn` says what each action
leaves of it.

The same module proves `NobodyDies` (`ProcessesSurvive`), which is about who may send to whom
and does not hold of every instance, under `OneClientPerPort`: two processes, with any number of
calls each, losses and exits; no copies in raw sockets, no duplication; no two calls dial
one port, and none dials the port that an active call of the other process was asked for.
None of these is dispensable: on instances that meet all but one of them (not kept as runs) TLC finds
a process that dies.

    SurvivalInv == AgreementInv /\ Origins /\ Raws

`Origins`: a segment to a port that users name is the SYN of the one client that dials it
(`DialledPorts`), anything but a reset comes from a socket that is bound for good (`Sources`),
a SYN,ACK acknowledges the client that gets it (`RepliesFit`), and a listener that has a socket
got it for a client (`PeersDialled`). `Raws`: what a listening thread reads is to a port that no
connection socket has, since what is sent to such a port is delivered there (`RawUnbound`), and a
SYN is read once, so that nothing else finds the listener that answered it (`SynOnce`). Hence the
assertion holds where a block is found, and where none is found the port is free to bind.

`SimpleTCP_refinement_proofs` proves from `AgreementInv` that every step is one of
`Handshake` or changes nothing its ends see (`HandshakeImplemented`): `SendsSYN` is `Dial`,
the first half of `sendSYNACK` is `Answer`, the client's `sendEstablishedACK` is `Accept` or
`AcceptOld`, the server's ACK is `Confirm`, a reset is `ListenAgain`, `Reset` or `Fail`, and the
end of a process, whose blocks the mapping keeps as they were, is a stutter, or
`ListenAgain` if it comes between the halves of `sendSYNACK`. Where some process may exit
(`MayExit # {}`, as in `reconnect` and `leftovers`), `AgreementInv` is enough, for then the
mapping lets an answer be taken back under a client that is opening on it. Where none may,
`Handshake` is without that step (`Orphans`), and the proof assumes `OneClientPerPort`, as in
`handshake`: with several clients a process that aborts does what one that exits does. The
invariant is

    KeptInv == SurvivalInv /\ every process is up /\ OnlyAcksReturn /\ AnswersStand

A listener that has answered takes its answer back only for a reset or a second SYN, and none
ever goes to the port it answered from (`OnlyAcksReturn`): the resets of listening threads
answer SYNs (`HeardAreSYNs`) and those of listeners go to their clients, which send nothing but
ACKs. So each SYN,ACK on its way has a listener that stands by it (`AnswersStand`).

### The callers of `open()`

`OpenCalls_proofs`: `OpenInv` is inductive for every set of calls, ports and failures, and
gives `TypeCorrect`, `NoNullBlockAlone` (`NullBlockNeedsTwoCallers`), `HandlesLeadHome`
(`HandlesFindTheirBlock`) and `HeapSoundForKeepers` (`HeapCorruptedByDroppers`).

    OpenInv == TypeOK /\ HeapKnown /\ Answering /\ CallersInv

`CallersInv` follows each call from its lookup to its handle: what it finds under
its port if it met nobody there (`KeptOnPort`, `KeptPassive`, `KeptActive`), that nobody else has
or dials its block (`Unborn`, `KeptUndialled`), and that whoever did meet somebody is in
`shared` (`Meet`). The key that `sendSYNMessage` inserts is free because the system gave the
port only now and nobody else moves a key meanwhile: that is what the mutex is for
(`Dials`). `operator[]` inserts a null pointer where the key of a call that is in
`sendSYNMessage` is gone, and only another client's `erase` removes a key (`NullBlocks`). TLC
had the property with the way out that a port collided; the proof did not need
that, and the property now says less of what may go wrong. A freed address has a caller that
dropped it, and `HeapKnown` is kept because no handle loses its address.

### The handshake tests

`HandshakeTests_proofs` proves every property of the `tests` run, for every width of the
numbers from five on, every set of ports, every buffer contents and every order
of the test cases: `TypeCorrect`, `SectionsPassOrWrap` (`SectionsPass`), `NoErrorIsInherited`
(`ErrorsAreOwn`), `SilenceDrops` (`SilenceIsADrop`), `StrayThreads`
(`StrayThreadsAreOfHandshakes`).

    TestsInv == TypeOK /\ test \in [case : TestCase, section : Nat] /\ Snapshot
                  /\ AsArranged /\ AsHandled /\ ThreadsLaunched

When a section's requirements are evaluated, the state does not show how it got there.
`AsArranged` and `AsHandled` recover it: some ISS and some number drawn gave this block and this
segment, and the handler of the block's state, given them, left what is there. `SectionIsRight` is
then arithmetic on those numbers with the wrap-around, one lemma per test case (`ClosedIsRight`,
`ListenIsRight`, `SynSentIsRight`, `SynReceivedIsRight`). `ThreadsLaunched` needs that a
section of the other two test cases launches nothing even if it is handed garbage. An attempt at
that proof corrected the model: it had looked a segment up in `tcbMap` with port 0 standing for
"no block", so that garbage from and to port 0 reached a listener in a section of `TCB_Closed`.
`processRawIPMessage` now takes the keys of `tcbMap`, none in `TCB_Closed`, and the run includes
that garbage.

### Filling in and reading headers

`SegmentReading_proofs` proves the five invariants of the `reading` run, for every header the
senders may fill in and every segment of another program: `HeadersFilledAsRFC793`,
`HeadersParsedAsSent`, `LoopWithinHeader`, `SegmentLengthRight`, `FixedOffsetsAgree`.

    ReadInv == the buffer is Layout(segment), from offset on
                 /\ optionIndex is where an option starts, or the end of the header,
                    and no end of the list comes before it
                 /\ header is the sender's, with the last size listed before optionIndex

The loop is a sequence of steps, so what it computes is an invariant and needs no
induction over the list. For that the options are a function on the offsets where they
start (`WellFormed`), and not a sequence that would have to be flattened. Under the invariant
are the lemmas about bytes: that the shifts and masks of `fillSendBuffer` and
`parseTCPHeader` and the weights of `Layout` are the same number (`ControlWordBytes`,
`ControlByte`, `MixedRead`: the reserved bits lie across two bytes, below a field of four bits and
above the six flags), that appending field after field builds the layout
(`FillIsLayout`), and what the headers in front hold at the offsets the code takes for granted
(`DatagramPrefix`, `MockPrefix`, `PrefixRead`).

### Assumptions

Those named in the modules: `MaxSeq` is positive, `NoPort` is no port, users' and
ephemeral ports are ports (for `SimpleTCP`, disjoint), incoming segments are
headers, calls are records of the right types; `TestAssumption`: the ports of the tests are
ports, of which the client's local one is its own, and `ANY_NUMBER` is not 0; `WidthAssumption`: there are at least five numbers (the code has
2^32); `ISSAssumption`: the numbers `SimpleTCP` draws are below the wrap and not adjacent;
`SentAssumption`: the library's headers have the seven words `constructSendTCPHeader` gives
them; and `ForeignAssumption`: other programs' segments have options as RFC 793 wants them (of the
three kinds it defines, one after the other, zeros after the end of the list) and fit in a datagram. Nothing is assumed of the number of processes, calls,
ports or segments, except by `ProcessesSurvive` and, where no process may exit, by
`HandshakeImplemented` (`OneClientPerPort`).

### Model-checked only

Liveness (`HandshakeCompletes`, `SegmentsSettle`, `ListenerGetsMutex`, `CleanupEndsProcess`,
`ParsingEnds`): fairness and ENABLED are beyond the proof system. Every other property of a
passing run is stated by a theorem.

## Findings

* `second_client` — a second SYN (or any segment for its key) at a block that has
  left LISTEN fails `assert(state == LISTEN)` and ends the server process.
* `own_calls` — a passive block keeps its listening port as key while it sends
  from another, so "Filter calls we make by ourself" does not filter its SYN,ACK
  when that reaches the raw socket.
* `iss_at_wrap` — with ISS `UINT32_MAX`, the ACK that the handshake test expects to
  establish the connection is answered with a reset.
* `send_next` — `sendEstablishedACK` advances `SND.NXT` for an ACK without data; the
  client's next number is one past what the server expects.

What the passing runs allow, because the code does it, a user should know too:

* Both programs discard what `open()` returns. Its destructor frees the address the
  block sends to (`Drops`); an active block then uses freed memory and frees it again.
* An active `open()` on a port that this process listens on returns a handle and
  dials nobody (`OpenJoins`).
* A SYN that cannot be sent for want of a socket leaves the mutex locked: the process
  lives on and hears nothing (`SynThrows`).
* A passive handle is useless when a SYN came before it was copied: `localPort` has
  moved, the key has not.
* In SYN_RECEIVED a segment that acknowledges the ISS, and so nothing, establishes the
  connection: `snd_una <= ackNumber` in line 214 of `TransmissionControlBlock.cpp` admits
  `snd_una`, which is the ISS. RFC 793 writes the test this way. It holds of an active block
  after a simultaneous open, too; in SYN_SENT the test is strict.
* The test section "SYN bit is ON" of `TCB_Closed` sets FIN.

## Not modelled

* Malformed options (a kind without its value), options and data beyond the 28
  bytes that a block's thread receives, and options in the IPv4 header: outside
  what a peer of the library sends.
* `calculateChecksum`: no caller, and its pseudo-header lacks the protocol.
* The undefined draw of `generateISS` (line 125 of `TransmissionControlBlock.cpp`): the
  models take any number for what it returns.
* `send`, `receive`: stubs. `close`, `abort`: declared only.
* Segments too short to parse: the library never sends one.
* The singletons' holders: a pointer set once. Of the programs, reading the
  environment.
* What the build makes of two threads inside `tcbMap` at once (`open()` and the listening
  thread share no lock): no set of outcomes could be justified from the source.
* An exception that leaves `open()` in a program that does not catch it ends the
  process; the models go on, which is the harder case.
* The race on `SimpleTCP::errorMessage` (a string assigned by several threads): modelled as
  an atomic assignment.
* A vanished client frees the listener only through the reset sent for its
  port, which arrives if a raw socket has its SYN,ACK and nothing is lost
  (`ResetReachesListener`). A SYN,ACK that dies unread in the client's own socket, a segment that
  is lost, or an ACK or a reset read before `state = SYN_RECEIVED` on a listener
  used again leaves it half-open: there is no retransmission. A SYN that finds
  no listener leaves its client in SYN_SENT: the reset's acknowledgment
  does not count the SYN, and `timeout` is not used. The runs contain these
  histories; no property denies them.

## Plan

1. *Done:* `Segments`, `TCB`, `ConnectionStates`, `TCBThreads`, `SimpleTCP`; the
   proofs about `TCBThreads`; `WireFormat` and `SegmentReading`; `Handshake` and the
   refinement; `OpenCalls`; `HandshakeTests`.
2. *Done:* the proofs about `SimpleTCP` (`TypeOK`, `OwnSynFiltered`, `MapFollowsPort`, `Agreement`,
   `AnswersAreUnique`, `ResetReachesListener`, `NobodyDies`, the refinement of `Handshake`), `OpenCalls`, `HandshakeTests` and
   `SegmentReading`.
3. Three processes answering for the same closed port; the build without assertions.
