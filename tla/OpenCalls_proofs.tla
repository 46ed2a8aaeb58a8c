-------------------------- MODULE OpenCalls_proofs --------------------------
(***************************************************************************)
(* Proofs about one process from initialize() on: what callers that keep   *)
(* to ports of their own can rely on, whatever fails, whichever ports the  *)
(* system gives and however the threads of the process interleave.         *)
(***************************************************************************)
EXTENDS OpenCalls, TLAPS

-----------------------------------------------------------------------------
(***************************************************************************)
(* The inductive invariant.  The null pointer and the handles are decided  *)
(* by what a call still finds in tcbMap at each point of open(), so most   *)
(* of it says that of the calls that met nobody on their port, and that    *)
(* the mutex keeps a block's new port out of the map until sendSYNMessage  *)
(* has moved the key.                                                      *)
(***************************************************************************)

\* The calls that count as under way in UnderWay.
Busy(c) == pc[c] \in {"insert", "syn", "lock", "rekey"}

\* Who is in sendSYNMessage is active; once the SYN is out, it holds the mutex, and
\* no key but a user's leads to the port of the new socket.
Dials(c) ==
    /\ pc[c] \in {"syn", "lock", "rekey"} => ~c.passive
    /\ pc[c] = "rekey" =>
           /\ dialled[c] \in Call
           /\ mutex = c
           /\ tcb[dialled[c]].connectionSocket
           /\ \/ tcb[dialled[c]].localPort \in UserPort
              \/ tcbMap[tcb[dialled[c]].localPort] = NoKey

\* Only a passive block listens, and its port is its socket's if it has one.
BlockKnown(b) ==
    /\ tcb[b].state = "LISTEN" => b.passive
    /\ tcb[b].connectionSocket => tcb[b].localPort \in bound
    /\ ~tcb[b].connectionSocket => tcb[b].localPort = b.localPort

\* A key is a port of a user or of a socket, and a user's port that no socket has
\* leads to a call on that port.
KeyKnown(q) ==
    tcbMap[q] # NoKey =>
        /\ q \in UserPort \/ q \in bound
        /\ tcbMap[q] \in Call => q = tcbMap[q].localPort \/ q \in bound

\* Calls that are under way on one port at the same time are remembered.
Meet(c, d) ==
    c # d /\ c.localPort = d.localPort /\ Busy(c) /\ Busy(d) => c \in shared

\* Two clients met on one port.
TwoCallers ==
    \E c, d \in shared : /\ c # d /\ c.localPort = d.localPort
                         /\ ~c.passive /\ ~d.passive

\* Where the null pointer is, and where it is about to be inserted.
NullBlocks ==
    /\ \A c \in Call : pc[c] = "syn" /\ tcbMap[c.localPort] = NoKey => TwoCallers
    /\ \A q \in Port : tcbMap[q] = NullBlock => TwoCallers
    /\ \A c \in Call : dialled[c] = NullBlock => TwoCallers
    /\ status = "crashed" => TwoCallers

\* Nobody has the block of a call that has not inserted it.
Unborn(c) ==
    pc[c] \in {"never", "todo", "insert"} =>
        /\ \A q \in Port : tcbMap[q] # c
        /\ \A d \in Call : dialled[d] # c

\* A call that met nobody, in a process whose ports never collided.
Alone(c) == ~PortCollides /\ c \notin shared

\* What such a call finds under its port ...
KeptOnPort(c) ==
    /\ pc[c] = "insert" => tcbMap[c.localPort] = NoKey
    /\ pc[c] \in {"syn", "lock", "rekey"} => tcbMap[c.localPort] = c
    /\ pc[c] \in {"lock", "rekey"} => dialled[c] = c

\* ... and a passive one for good ...
KeptPassive(c) ==
    c.passive /\ pc[c] \in {"return", "returned", "dropped"} =>
        /\ tcbMap[c.localPort] = c
        /\ \A d \in Call : d # c /\ d.localPort = c.localPort => ~Busy(d)

\* ... while the block of an active one has left that port for its socket's ...
KeptActive(c) ==
    ~c.passive /\ pc[c] \in {"return", "returned", "dropped"} =>
        /\ tcbMap[c.localPort] # c
        /\ pc[c] = "return" => tcb[c].connectionSocket /\ tcbMap[tcb[c].localPort] = c
        /\ pc[c] # "return" => handle[c].localPort \in bound /\ tcbMap[handle[c].localPort] = c

\* ... and nobody else dials it before open() has copied its LocalConnection.
KeptUndialled(c) ==
    pc[c] \in {"syn", "lock", "rekey", "return"} =>
        \A d \in Call : d # c /\ pc[d] \in {"lock", "rekey"} => dialled[d] # c

Kept(c) ==
    Alone(c) => KeptOnPort(c) /\ KeptPassive(c) /\ KeptActive(c) /\ KeptUndialled(c)

\* Who dials which block, and what the map says of it.
CallersInv ==
    /\ \A c \in Call : Dials(c) /\ BlockKnown(c) /\ Unborn(c) /\ Kept(c)
    /\ \A q \in Port : KeyKnown(q)
    /\ \A c, d \in Call : Meet(c, d)
    /\ NullBlocks

\* A freed address has its dropper, and so has a corrupted heap.
HeapKnown ==
    /\ \A b \in Call : tcb[b].address = "freed" =>
                           pc[b] = "dropped" /\ handle[b].address # "nullptr"
    /\ HeapCorruptedByDroppers

\* The block that the listening thread answers for is there.
Answering == listener.at = "answer" => listener.block \in Call

OpenInv == TypeOK /\ HeapKnown /\ Answering /\ CallersInv

-----------------------------------------------------------------------------
(***************************************************************************)
(* Facts about the constants, and about the end of the process.            *)
(***************************************************************************)

\* The idle listening thread has the type of one.
LEMMA IdleType ==
    Idle \in [at : {"receive", "filter", "find", "answer"},
              segment : Segment, block : Call \cup {NoKey}]
<1>1. PICK q : q \in Port
  BY PortAssumption
<1>2. [sourcePort |-> q, destinationPort |-> q, control |-> "SYN"] \in Segment
  BY <1>1 DEF Segment
<1>3. (CHOOSE h \in Segment : TRUE) \in Segment
  BY <1>2
<1> QED
  BY <1>3 DEF Idle

\* The port of a call is a port, and NoKey, NullBlock and Nobody are no calls.
LEMMA CallFacts ==
    /\ \A c \in Call : c.localPort \in Port /\ c.localPort \in UserPort
    /\ \A c \in Call : c.passive \in BOOLEAN
    /\ \A c \in Call : c # NoKey /\ c # NullBlock /\ c # Nobody
    /\ NoKey # NullBlock
  BY CallAssumption, PortAssumption

\* How the process ends in each of the steps that end it, all of which a process
\* that is up or starts can take.
Died ==
    \E how \in {"failed", "terminated", "aborted", "crashed"} :
        /\ Ends(how)
        /\ winsock' \in BOOLEAN
        /\ how = "crashed" => \/ \E q \in Port : tcbMap[q] = NullBlock
                              \/ \E c \in Call : dialled[c] = NullBlock

\* Nothing that the invariant is about survives the process, but bound and shared.
LEMMA DiedKeeps ==
    ASSUME OpenInv, Died
    PROVE  OpenInv'
<1>1. PICK how \in {"failed", "terminated", "aborted", "crashed"} :
          /\ Ends(how) /\ winsock' \in BOOLEAN
          /\ how = "crashed" => \/ \E q \in Port : tcbMap[q] = NullBlock
                                \/ \E c \in Call : dialled[c] = NullBlock
  BY DEF Died
<1> USE <1>1 DEF Ends
<1>2. ASSUME NEW c \in Call
      PROVE  NewTCB(c) \in [state : {"LISTEN", "SYN_SENT", "SYN_RECEIVED", "OTHER"},
                            localPort : Port, address : {"nullptr", "live", "freed"},
                            connectionSocket : BOOLEAN, threadLaunched : BOOLEAN]
  BY CallFacts DEF NewTCB
<1>3. ASSUME NEW c \in Call
      PROVE  NewHandle(c) \in [localPort : Port, address : {"nullptr", "own", "old"}]
  BY CallFacts DEF NewHandle
<1>4. TypeOK'
  BY <1>2, <1>3, IdleType DEF OpenInv, TypeOK
<1>5. HeapKnown' /\ Answering'
  BY DEF HeapKnown, HeapCorruptedByDroppers, Answering, NewTCB, Idle
<1>6. ASSUME NEW c \in Call
      PROVE  /\ pc'[c] = "todo" /\ dialled'[c] = NoKey
             /\ tcb'[c] = NewTCB(c)
  OBVIOUS
<1>7. \A q \in Port : tcbMap'[q] = NoKey
  OBVIOUS
<1>8. ASSUME NEW c \in Call
      PROVE  (Dials(c) /\ BlockKnown(c) /\ Unborn(c) /\ Kept(c))'
  <2>1. Dials(c)' /\ Kept(c)'
    BY <1>6 DEF Dials, Kept, KeptOnPort, KeptPassive, KeptActive, KeptUndialled
  <2>2. BlockKnown(c)'
    BY <1>6 DEF BlockKnown, NewTCB
  <2>3. Unborn(c)'
    BY <1>6, <1>7, CallFacts DEF Unborn
  <2> QED
    BY <2>1, <2>2, <2>3
<1>9. (\A q \in Port : KeyKnown(q))' /\ (\A c, d \in Call : Meet(c, d))'
  BY <1>6, <1>7 DEF KeyKnown, Meet, Busy
<1>10. NullBlocks'
  <2>1. TwoCallers' <=> TwoCallers
    BY DEF TwoCallers
  <2>2. status' = "crashed" => TwoCallers
    BY DEF OpenInv, CallersInv, NullBlocks
  <2> QED
    BY <2>1, <2>2, <1>6, <1>7, CallFacts DEF NullBlocks
<1> QED
  BY <1>4, <1>5, <1>8, <1>9, <1>10 DEF OpenInv, CallersInv

\* The steps that end the process, each for its reason.
Dies ==
    \/ InitializeFails \/ RawReceiveThrows \/ ClosedThrows \/ ListenerCrashes
    \/ \E c \in Call : \/ OpenCrashes(c) \/ SynCrashes(c)
                       \/ ListenerAborts(c) \/ ListenerThrows(c) \/ BlockReceiveThrows(c)

\* All of them do, with a null pointer for a crash.
LEMMA DiesDies ==
    ASSUME TypeOK, Dies
    PROVE  Died
<1>1. winsock \in BOOLEAN
  BY DEF TypeOK
<1>2. CASE InitializeFails \/ RawReceiveThrows \/ ClosedThrows
  BY <1>1, <1>2 DEF InitializeFails, RawReceiveThrows, ClosedThrows, Died
<1>3. CASE ListenerCrashes
  <2>1. listener.segment.destinationPort \in Port
    BY DEF TypeOK, Segment
  <2> QED
    BY <1>1, <1>3, <2>1 DEF ListenerCrashes, Finds, Died
<1>4. ASSUME NEW c \in Call, OpenCrashes(c)
      PROVE  Died
  BY <1>1, <1>4, CallFacts DEF OpenCrashes, Died
<1>5. ASSUME NEW c \in Call, SynCrashes(c)
      PROVE  Died
  BY <1>1, <1>5 DEF SynCrashes, Died
<1>6. ASSUME NEW c \in Call, ListenerAborts(c) \/ ListenerThrows(c) \/ BlockReceiveThrows(c)
      PROVE  Died
  BY <1>1, <1>6 DEF ListenerAborts, ListenerThrows, BlockReceiveThrows, Died
<1> QED
  BY <1>2, <1>3, <1>4, <1>5, <1>6 DEF Dies

-----------------------------------------------------------------------------
(***************************************************************************)
(* The types.                                                              *)
(***************************************************************************)
Block == [state : {"LISTEN", "SYN_SENT", "SYN_RECEIVED", "OTHER"},
          localPort : Port,
          address : {"nullptr", "live", "freed"},
          connectionSocket : BOOLEAN,
          threadLaunched : BOOLEAN]

Handle == [localPort : Port, address : {"nullptr", "own", "old"}]

\* What is left of a block.
LEMMA BlockTypes ==
    ASSUME NEW t \in Block, NEW q \in Port
    PROVE  /\ [t EXCEPT !.connectionSocket = TRUE, !.localPort = q, !.state = "SYN_SENT"] \in Block
           /\ [t EXCEPT !.connectionSocket = TRUE, !.localPort = q] \in Block
           /\ [t EXCEPT !.state = "SYN_RECEIVED", !.threadLaunched = TRUE] \in Block
  BY DEF Block

\* What the two ways to use an address leave is of its type.
LEMMA AddressTypes ==
    ASSUME TypeOK, NEW b \in Call, NEW t \in Block,
           createForeignSocketAddress(b, t) \/ sendTCPSegment(b, t)
    PROVE  /\ status' \in {status, "corrupted"}
           /\ tcb' \in [Call -> Block]
           /\ handle' \in [Call -> Handle]
<1>1. tcb \in [Call -> Block] /\ handle \in [Call -> Handle]
  BY DEF TypeOK, Block, Handle
<1>2. [t EXCEPT !.address = "live"] \in Block
  BY DEF Block
<1>3. Outdated(b) \in Handle
  BY <1>1 DEF Outdated, Handle
<1> QED
  BY <1>1, <1>2, <1>3 DEF createForeignSocketAddress, sendTCPSegment

\* The steps of open() preserve the types.
LEMMA CallTypes ==
    ASSUME OpenInv, NEW c \in Call,
           \/ OpenFindsNothing(c) \/ OpenJoins(c) \/ OpenThrows(c)
           \/ OpenInserts(c) \/ OpenReturns(c) \/ Drops(c)
           \/ SynLooksUp(c) \/ SynThrows(c) \/ SynRekeys(c)
           \/ \E q \in EphemeralPort : SynSends(c, q)
    PROVE  TypeOK'
<1> USE CallFacts
<1>1. TypeOK /\ tcb \in [Call -> Block] /\ handle \in [Call -> Handle]
  BY DEF OpenInv, TypeOK, Block, Handle
<1>2. CASE OpenFindsNothing(c)
  <2>1. UnderWay(c.localPort) \subseteq Call /\ shared \subseteq Call
    BY <1>1 DEF UnderWay, TypeOK
  <2>2. shared' \subseteq Call
    BY <1>2, <2>1 DEF OpenFindsNothing
  <2> QED
    BY <1>1, <1>2, <2>2 DEF TypeOK, OpenFindsNothing
<1>3. CASE OpenJoins(c) \/ OpenThrows(c)
  BY <1>1, <1>3 DEF TypeOK, OpenJoins, OpenThrows
<1>4. CASE OpenInserts(c)
  BY <1>1, <1>4 DEF TypeOK, OpenInserts
<1>5. CASE OpenReturns(c)
  <2>1. handle' \in [Call -> Handle]
    BY <1>1, <1>5 DEF OpenReturns, Block, Handle
  <2> QED
    BY <1>1, <1>5, <2>1 DEF TypeOK, OpenReturns, Handle
<1>6. CASE Drops(c)
  <2>1. tcb' \in [Call -> Block]
    BY <1>1, <1>6 DEF Drops, Block
  <2> QED
    BY <1>1, <1>6, <2>1 DEF TypeOK, Drops, Block
<1>7. CASE SynLooksUp(c)
  BY <1>1, <1>7 DEF TypeOK, SynLooksUp
<1>8. CASE SynThrows(c)
  BY <1>1, <1>8 DEF TypeOK, SynThrows, Locks
<1>9. CASE SynRekeys(c)
  <2>1. dialled[c] \in Call
    BY <1>9 DEF SynRekeys, OpenInv, CallersInv, Dials
  <2>2. tcb' \in [Call -> Block]
    BY <1>1, <1>9, <2>1 DEF SynRekeys, Block
  <2>3. Rekeyed(c) \in [Port -> Call \cup {NoKey, NullBlock}]
    BY <1>1, <2>1 DEF TypeOK, Rekeyed, Block
  <2> QED
    BY <1>1, <1>9, <2>2, <2>3 DEF TypeOK, SynRekeys, Block
<1>10. ASSUME NEW q \in EphemeralPort, SynSends(c, q)
      PROVE  TypeOK'
  <2>1. dialled[c] \in Call /\ q \in Port
    BY <1>1, <1>10, PortAssumption DEF TypeOK, SynSends, Locks
  <2>2. [tcb[dialled[c]] EXCEPT !.connectionSocket = TRUE, !.localPort = q,
                                !.state = "SYN_SENT"] \in Block
    BY <1>1, <2>1, BlockTypes
  <2>3. /\ status' \in {status, "corrupted"}
        /\ tcb' \in [Call -> Block]
        /\ handle' \in [Call -> Handle]
    BY <1>1, <1>10, <2>1, <2>2, AddressTypes DEF SynSends
  <2> QED
    BY <1>1, <1>10, <2>1, <2>3 DEF TypeOK, SynSends, Locks, Block, Handle
<1> QED
  BY <1>2, <1>3, <1>4, <1>5, <1>6, <1>7, <1>8, <1>9, <1>10

\* So do those of the listening thread and of the blocks' threads.
LEMMA ThreadTypes ==
    ASSUME TypeOK,
           \/ Initializes \/ Filters \/ ClosedReplies
           \/ \E h \in Incoming : RawReceives(h)
           \/ \E b \in Call : \/ ListenerIgnores(b)
                              \/ \E q \in EphemeralPort : ListenerBinds(b, q)
                              \/ BlockEstablishes(b) \/ BlockAnswers(b) \/ BlockMoves(b)
           \/ ListenerAnswers /\ listener.block \in Call
    PROVE  TypeOK'
<1>1. tcb \in [Call -> Block] /\ handle \in [Call -> Handle]
  BY DEF TypeOK, Block, Handle
<1>2. CASE Initializes \/ Filters \/ ClosedReplies
  BY <1>2, IdleType DEF TypeOK, Initializes, Filters, ClosedReplies
<1>3. ASSUME NEW h \in Incoming, RawReceives(h)
      PROVE  TypeOK'
  <2>1. h \in Segment
    BY IncomingAssumption
  <2> QED
    BY <1>3, <2>1, IdleType DEF TypeOK, RawReceives
<1>4. ASSUME NEW b \in Call, ListenerIgnores(b)
      PROVE  TypeOK'
  BY <1>4, IdleType DEF TypeOK, ListenerIgnores
<1>5. ASSUME NEW b \in Call, NEW q \in EphemeralPort, ListenerBinds(b, q)
      PROVE  TypeOK'
  <2>1. q \in Port
    BY PortAssumption
  <2>2. tcb[b] \in Block
    BY <1>1
  <2>3. [tcb[b] EXCEPT !.connectionSocket = TRUE, !.localPort = q] \in Block
    BY <2>1, <2>2, BlockTypes
  <2>4. \/ tcb' = tcb
        \/ tcb' = [tcb EXCEPT ![b] = [tcb[b] EXCEPT !.connectionSocket = TRUE, !.localPort = q]]
    BY <1>1, <1>5 DEF ListenerBinds, Block
  <2>5. tcb' \in [Call -> Block]
    BY <1>1, <2>3, <2>4
  <2> QED
    BY <1>5, <2>1, <2>5 DEF TypeOK, ListenerBinds, Block
<1>6. ASSUME NEW b \in Call, BlockEstablishes(b)
      PROVE  TypeOK'
  <2>1. [tcb[b] EXCEPT !.state = "OTHER"] \in Block
    BY <1>1 DEF Block
  <2>2. /\ status' \in {status, "corrupted"}
        /\ tcb' \in [Call -> Block]
        /\ handle' \in [Call -> Handle]
    BY <1>6, <2>1, AddressTypes DEF BlockEstablishes
  <2> QED
    BY <1>6, <2>2 DEF TypeOK, BlockEstablishes, Block, Handle
<1>7. ASSUME NEW b \in Call, BlockAnswers(b)
      PROVE  TypeOK'
  <2>1. PICK next \in {"SYN_SENT", "SYN_RECEIVED", "OTHER"} :
            sendTCPSegment(b, [tcb[b] EXCEPT !.state = next])
    BY <1>7 DEF BlockAnswers
  <2>2. [tcb[b] EXCEPT !.state = next] \in Block
    BY <1>1 DEF Block
  <2>3. /\ status' \in {status, "corrupted"}
        /\ tcb' \in [Call -> Block]
        /\ handle' \in [Call -> Handle]
    BY <2>1, <2>2, AddressTypes
  <2> QED
    BY <1>7, <2>3 DEF TypeOK, BlockAnswers, Block, Handle
<1>8. ASSUME NEW b \in Call, BlockMoves(b)
      PROVE  TypeOK'
  <2>1. tcb' \in [Call -> Block]
    BY <1>1, <1>8 DEF BlockMoves, Block
  <2> QED
    BY <1>8, <2>1 DEF TypeOK, BlockMoves, Block
<1>9. CASE ListenerAnswers /\ listener.block \in Call
  <2> DEFINE b == listener.block
  <2>1. PICK t : /\ createForeignSocketAddress(b, t)
                 /\ t = IF listener.segment.control = "SYN"
                        THEN [tcb[b] EXCEPT !.state = "SYN_RECEIVED", !.threadLaunched = TRUE]
                        ELSE tcb[b]
    BY <1>9 DEF ListenerAnswers
  <2>2. t \in Block
    BY <1>1, <1>9, <2>1, BlockTypes, PortAssumption
  <2>3. /\ status' \in {status, "corrupted"}
        /\ tcb' \in [Call -> Block]
        /\ handle' \in [Call -> Handle]
    BY <1>9, <2>1, <2>2, AddressTypes
  <2> QED
    BY <1>9, <2>3, IdleType DEF TypeOK, ListenerAnswers, Block, Handle
<1> QED
  BY <1>2, <1>3, <1>4, <1>5, <1>6, <1>7, <1>8, <1>9

-----------------------------------------------------------------------------
(***************************************************************************)
(* The heap.                                                               *)
(***************************************************************************)
\* To use an address is safe unless somebody dropped it, and no handle loses its own.
LEMMA AddressUsed ==
    ASSUME TypeOK, HeapKnown, Up, NEW b \in Call, NEW t \in Block,
           \/ createForeignSocketAddress(b, t)
           \/ sendTCPSegment(b, t) /\ t.address = tcb[b].address,
           \A d \in Call : pc[d] = "dropped" => pc'[d] = "dropped"
    PROVE  HeapKnown'
<1>1. tcb \in [Call -> Block] /\ handle \in [Call -> Handle]
  BY DEF TypeOK, Block, Handle
<1>2. ASSUME NEW d \in Call
      PROVE  handle[d].address # "nullptr" => handle'[d].address # "nullptr"
  BY <1>1 DEF createForeignSocketAddress, sendTCPSegment, Outdated, Handle
<1>3. ASSUME NEW d \in Call, tcb'[d].address = "freed"
      PROVE  tcb[d].address = "freed"
  BY <1>1, <1>3 DEF createForeignSocketAddress, sendTCPSegment, Block
<1>4. status' = "corrupted" => tcb[b].address = "freed"
  BY DEF createForeignSocketAddress, sendTCPSegment, Up
<1> QED
  BY <1>2, <1>3, <1>4 DEF HeapKnown, HeapCorruptedByDroppers

\* A step that uses no address, discards no handle and returns none.
LEMMA AddressUnused ==
    ASSUME TypeOK, HeapKnown, status' \in {status, "up"}, UNCHANGED handle,
           \A d \in Call : /\ tcb'[d].address = tcb[d].address
                           /\ pc[d] = "dropped" => pc'[d] = "dropped"
    PROVE  HeapKnown'
  BY DEF HeapKnown, HeapCorruptedByDroppers

\* The steps of open() preserve what is known of the heap.
LEMMA CallHeap ==
    ASSUME OpenInv, NEW c \in Call,
           \/ OpenFindsNothing(c) \/ OpenJoins(c) \/ OpenThrows(c)
           \/ OpenInserts(c) \/ OpenReturns(c) \/ Drops(c)
           \/ SynLooksUp(c) \/ SynThrows(c) \/ SynRekeys(c)
           \/ \E q \in EphemeralPort : SynSends(c, q)
    PROVE  HeapKnown'
<1> USE CallFacts
<1>1. /\ TypeOK /\ HeapKnown
      /\ tcb \in [Call -> Block] /\ handle \in [Call -> Handle]
      /\ pc \in [Call -> {"never", "todo", "insert", "syn", "lock", "rekey", "return",
                          "returned", "joined", "dropped", "threw"}]
  BY DEF OpenInv, TypeOK, Block, Handle
<1>2. CASE \/ OpenFindsNothing(c) \/ OpenJoins(c) \/ OpenThrows(c)
           \/ OpenInserts(c) \/ SynLooksUp(c) \/ SynThrows(c)
  <2>1. /\ status' = status /\ UNCHANGED handle /\ UNCHANGED tcb
        /\ \A d \in Call : pc[d] = "dropped" => pc'[d] = "dropped"
    BY <1>1, <1>2 DEF OpenFindsNothing, OpenJoins, OpenThrows, OpenInserts, SynLooksUp,
                      SynThrows, Locks
  <2> QED
    BY <1>1, <2>1, AddressUnused
<1>3. CASE OpenReturns(c)
  <2>1. /\ status' # "corrupted" /\ UNCHANGED tcb
        /\ \A d \in Call : /\ pc[d] = "dropped" => pc'[d] = "dropped"
                           /\ pc[d] = "dropped" => handle'[d] = handle[d]
    BY <1>1, <1>3 DEF OpenReturns, Up
  <2> QED
    BY <1>1, <2>1 DEF HeapKnown, HeapCorruptedByDroppers
<1>4. CASE Drops(c)
  <2>1. /\ UNCHANGED handle /\ pc'[c] = "dropped"
        /\ \A d \in Call : /\ pc[d] = "dropped" => pc'[d] = "dropped"
                           /\ d # c => tcb'[d] = tcb[d]
        /\ tcb'[c].address = "freed" => tcb[c].address = "freed" \/ handle[c].address = "own"
        /\ status' = "corrupted" => handle[c].address = "old"
    BY <1>1, <1>4 DEF Drops, Up, Block
  <2> QED
    BY <1>1, <2>1 DEF HeapKnown, HeapCorruptedByDroppers
<1>5. CASE SynRekeys(c)
  <2>1. /\ status' = status /\ UNCHANGED handle
        /\ \A d \in Call : /\ pc[d] = "dropped" => pc'[d] = "dropped"
                           /\ tcb'[d].address = tcb[d].address
    BY <1>1, <1>5 DEF SynRekeys, Block
  <2> QED
    BY <1>1, <2>1, AddressUnused
<1>6. ASSUME NEW q \in EphemeralPort, SynSends(c, q)
      PROVE  HeapKnown'
  <2>1. dialled[c] \in Call /\ q \in Port /\ Up
    BY <1>1, <1>6, PortAssumption DEF TypeOK, SynSends, Locks
  <2>2. [tcb[dialled[c]] EXCEPT !.connectionSocket = TRUE, !.localPort = q,
                                !.state = "SYN_SENT"] \in Block
    BY <1>1, <2>1, BlockTypes
  <2>3. \A d \in Call : pc[d] = "dropped" => pc'[d] = "dropped"
    BY <1>1, <1>6 DEF SynSends, Locks
  <2> QED
    BY <1>1, <1>6, <2>1, <2>2, <2>3, AddressUsed DEF SynSends
<1> QED
  BY <1>2, <1>3, <1>4, <1>5, <1>6

\* So do those of the listening thread and of the blocks' threads.
LEMMA ThreadHeap ==
    ASSUME TypeOK, HeapKnown,
           \/ Initializes \/ Filters \/ ClosedReplies
           \/ \E h \in Incoming : RawReceives(h)
           \/ \E b \in Call : \/ ListenerIgnores(b)
                              \/ \E q \in EphemeralPort : ListenerBinds(b, q)
                              \/ BlockEstablishes(b) \/ BlockAnswers(b) \/ BlockMoves(b)
           \/ ListenerAnswers /\ listener.block \in Call
    PROVE  HeapKnown'
<1>1. tcb \in [Call -> Block] /\ handle \in [Call -> Handle]
  BY DEF TypeOK, Block, Handle
<1>2. CASE \/ Initializes \/ Filters \/ ClosedReplies
           \/ \E h \in Incoming : RawReceives(h)
           \/ \E b \in Call : ListenerIgnores(b)
  <2>1. status' \in {status, "up"} /\ UNCHANGED <<handle, tcb, pc>>
    BY <1>2 DEF Initializes, Filters, ClosedReplies, RawReceives, ListenerIgnores
  <2> QED
    BY <2>1, AddressUnused
<1>3. ASSUME NEW b \in Call, NEW q \in EphemeralPort, ListenerBinds(b, q)
      PROVE  HeapKnown'
  <2>1. status' = status /\ UNCHANGED <<handle, pc>>
    BY <1>3 DEF ListenerBinds
  <2>2. \/ tcb' = tcb
        \/ tcb' = [tcb EXCEPT ![b] = [tcb[b] EXCEPT !.connectionSocket = TRUE, !.localPort = q]]
    BY <1>1, <1>3 DEF ListenerBinds, Block
  <2> DEFINE t == [tcb[b] EXCEPT !.connectionSocket = TRUE, !.localPort = q]
  <2>3. t.address = tcb[b].address
    BY <1>1 DEF Block
  <2>4. \A d \in Call : tcb'[d].address = tcb[d].address
    BY <1>1, <2>2, <2>3
  <2> QED
    BY <2>1, <2>4, AddressUnused
<1>4. ASSUME NEW b \in Call, BlockEstablishes(b)
      PROVE  HeapKnown'
  <2>1. [tcb[b] EXCEPT !.state = "OTHER"] \in Block
    BY <1>1 DEF Block
  <2> QED
    BY <1>4, <2>1, AddressUsed DEF BlockEstablishes, Serves
<1>5. ASSUME NEW b \in Call, BlockAnswers(b)
      PROVE  HeapKnown'
  <2>1. PICK next \in {"SYN_SENT", "SYN_RECEIVED", "OTHER"} :
            sendTCPSegment(b, [tcb[b] EXCEPT !.state = next])
    BY <1>5 DEF BlockAnswers
  <2>2. /\ [tcb[b] EXCEPT !.state = next] \in Block
        /\ [tcb[b] EXCEPT !.state = next].address = tcb[b].address
    BY <1>1 DEF Block
  <2> QED
    BY <1>5, <2>1, <2>2, AddressUsed DEF BlockAnswers, Serves
<1>6. ASSUME NEW b \in Call, BlockMoves(b)
      PROVE  HeapKnown'
  <2>1. /\ status' = status /\ UNCHANGED <<handle, pc>>
        /\ \A d \in Call : tcb'[d].address = tcb[d].address
    BY <1>1, <1>6 DEF BlockMoves, Block
  <2> QED
    BY <2>1, AddressUnused
<1>7. CASE ListenerAnswers /\ listener.block \in Call
  <2> DEFINE b == listener.block
  <2>1. PICK t : /\ createForeignSocketAddress(b, t)
                 /\ t = IF listener.segment.control = "SYN"
                        THEN [tcb[b] EXCEPT !.state = "SYN_RECEIVED", !.threadLaunched = TRUE]
                        ELSE tcb[b]
    BY <1>7 DEF ListenerAnswers
  <2>2. t \in Block
    BY <1>1, <1>7, <2>1, BlockTypes, PortAssumption
  <2> QED
    BY <1>7, <2>1, <2>2, AddressUsed DEF ListenerAnswers
<1> QED
  BY <1>2, <1>3, <1>4, <1>5, <1>6, <1>7

-----------------------------------------------------------------------------
(***************************************************************************)
(* The callers.  First the steps that neither take a call further nor      *)
(* change the map or a port.                                               *)
(***************************************************************************)
Quiet ==
    /\ UNCHANGED <<pc, dialled, tcbMap, mutex, bound, shared>>
    /\ status' # "crashed"
    /\ \A c \in Call :
           /\ tcb'[c].localPort = tcb[c].localPort
           /\ tcb'[c].connectionSocket = tcb[c].connectionSocket
           /\ tcb'[c].state = "LISTEN" => tcb[c].state = "LISTEN" \/ c.passive
           /\ handle'[c].localPort = handle[c].localPort

\* They preserve what is known of the callers.
LEMMA QuietKeeps ==
    ASSUME TypeOK, CallersInv, Quiet
    PROVE  CallersInv'
<1> USE DEF Quiet
<1>1. ASSUME NEW c \in Call
      PROVE  (Dials(c) /\ BlockKnown(c) /\ Unborn(c) /\ Kept(c))'
  <2>1. Dials(c) /\ BlockKnown(c) /\ Unborn(c) /\ Kept(c)
    BY DEF CallersInv
  <2>2. Dials(c)'
    BY <2>1 DEF Dials
  <2>3. BlockKnown(c)'
    BY <2>1 DEF BlockKnown
  <2>4. Unborn(c)'
    BY <2>1 DEF Unborn
  <2>5. Kept(c)'
    BY <2>1 DEF Kept, Alone, PortCollides, KeptOnPort, KeptPassive, KeptActive,
                KeptUndialled, Busy
  <2> QED
    BY <2>2, <2>3, <2>4, <2>5
<1>2. (\A q \in Port : KeyKnown(q))' /\ (\A c, d \in Call : Meet(c, d))'
  BY DEF CallersInv, KeyKnown, Meet, Busy
<1>3. NullBlocks'
  BY DEF CallersInv, NullBlocks, TwoCallers
<1> QED
  BY <1>1, <1>2, <1>3 DEF CallersInv

\* Most steps of the listening thread and of the blocks' threads are such.
LEMMA QuietSteps ==
    ASSUME TypeOK, Answering,
           \/ Initializes \/ Filters \/ ClosedReplies \/ ListenerAnswers
           \/ \E h \in Incoming : RawReceives(h)
           \/ \E b \in Call : \/ ListenerIgnores(b)
                              \/ BlockEstablishes(b) \/ BlockAnswers(b) \/ BlockMoves(b)
    PROVE  Quiet /\ Answering'
<1>1. tcb \in [Call -> Block] /\ handle \in [Call -> Handle]
  BY DEF TypeOK, Block, Handle
<1>2. CASE \/ Initializes \/ Filters \/ ClosedReplies
           \/ \E h \in Incoming : RawReceives(h)
           \/ \E b \in Call : ListenerIgnores(b)
  <2>1. Quiet
    BY <1>2 DEF Initializes, Filters, ClosedReplies, RawReceives, ListenerIgnores, Finds, Up,
                Quiet
  <2>2. CASE Initializes
    BY <2>1, <2>2 DEF Initializes, Answering
  <2>3. CASE ClosedReplies \/ \E b \in Call : ListenerIgnores(b)
    BY <2>1, <2>3 DEF ClosedReplies, ListenerIgnores, Idle, Answering
  <2>4. CASE Filters
    BY <2>1, <2>4 DEF Filters, Idle, TypeOK, Answering
  <2>5. CASE \E h \in Incoming : RawReceives(h)
    BY <2>1, <2>5 DEF RawReceives, Idle, Answering
  <2> QED
    BY <1>2, <2>2, <2>3, <2>4, <2>5
<1>3. ASSUME NEW b \in Call, NEW t \in Block,
             createForeignSocketAddress(b, t) \/ sendTCPSegment(b, t),
             Up,
             t.localPort = tcb[b].localPort,
             t.connectionSocket = tcb[b].connectionSocket,
             t.state = "LISTEN" => tcb[b].state = "LISTEN",
             UNCHANGED <<pc, dialled, tcbMap, mutex, bound, shared>>
      PROVE  Quiet
  <2>1. status' # "crashed"
    BY <1>3 DEF Up, createForeignSocketAddress, sendTCPSegment
  <2>2. ASSUME NEW c \in Call
        PROVE  handle'[c].localPort = handle[c].localPort
    BY <1>1, <1>3 DEF createForeignSocketAddress, sendTCPSegment, Outdated, Handle
  <2>3. ASSUME NEW c \in Call
        PROVE  /\ tcb'[c].localPort = tcb[c].localPort
               /\ tcb'[c].connectionSocket = tcb[c].connectionSocket
               /\ tcb'[c].state = "LISTEN" => tcb[c].state = "LISTEN"
    BY <1>1, <1>3 DEF createForeignSocketAddress, sendTCPSegment, Block
  <2> QED
    BY <1>3, <2>1, <2>2, <2>3 DEF Quiet
<1>4. ASSUME NEW b \in Call, BlockEstablishes(b)
      PROVE  Quiet /\ Answering'
  <2>1. PICK t : t = [tcb[b] EXCEPT !.state = "OTHER"]
    OBVIOUS
  <2>2. /\ t \in Block
        /\ t.localPort = tcb[b].localPort /\ t.connectionSocket = tcb[b].connectionSocket
        /\ t.state = "OTHER"
    BY <1>1, <2>1 DEF Block
  <2> QED
    BY <1>3, <1>4, <2>1, <2>2 DEF BlockEstablishes, Serves, Answering
<1>5. ASSUME NEW b \in Call, BlockAnswers(b)
      PROVE  Quiet /\ Answering'
  <2>1. PICK next \in {"SYN_SENT", "SYN_RECEIVED", "OTHER"} :
            sendTCPSegment(b, [tcb[b] EXCEPT !.state = next])
    BY <1>5 DEF BlockAnswers
  <2>2. PICK t : t = [tcb[b] EXCEPT !.state = next]
    OBVIOUS
  <2>3. /\ t \in Block
        /\ t.localPort = tcb[b].localPort /\ t.connectionSocket = tcb[b].connectionSocket
        /\ t.state # "LISTEN"
    BY <1>1, <2>2 DEF Block
  <2> QED
    BY <1>3, <1>5, <2>1, <2>2, <2>3 DEF BlockAnswers, Serves, Answering
<1>6. ASSUME NEW b \in Call, BlockMoves(b)
      PROVE  Quiet /\ Answering'
  <2>1. ASSUME NEW c \in Call
        PROVE  /\ tcb'[c].localPort = tcb[c].localPort
               /\ tcb'[c].connectionSocket = tcb[c].connectionSocket
               /\ tcb'[c].state = "LISTEN" => tcb[c].state = "LISTEN" \/ c.passive
    BY <1>1, <1>6 DEF BlockMoves, Block
  <2> QED
    BY <1>6, <2>1 DEF BlockMoves, Serves, Up, Quiet, Answering
<1>7. CASE ListenerAnswers
  <2>1. PICK b \in Call : b = listener.block
    BY <1>7 DEF ListenerAnswers, Answering
  <2>2. PICK t : /\ createForeignSocketAddress(b, t)
                 /\ t = IF listener.segment.control = "SYN"
                        THEN [tcb[b] EXCEPT !.state = "SYN_RECEIVED", !.threadLaunched = TRUE]
                        ELSE tcb[b]
    BY <1>7, <2>1 DEF ListenerAnswers
  <2>3. /\ t \in Block
        /\ t.localPort = tcb[b].localPort /\ t.connectionSocket = tcb[b].connectionSocket
        /\ t.state = "LISTEN" => tcb[b].state = "LISTEN"
    BY <1>1, <2>2 DEF Block
  <2> QED
    BY <1>3, <1>7, <2>2, <2>3 DEF ListenerAnswers, Answering, Idle
<1> QED
  BY <1>2, <1>4, <1>5, <1>6, <1>7

-----------------------------------------------------------------------------
(***************************************************************************)
(* Then the steps of open() and sendSYNMessage, each for what it takes     *)
(* from the invariant: that who met nobody still finds its block.          *)
(***************************************************************************)
\* A call that finds nothing under its port is under way, and has met those who are.
LEMMA FindsNothingKeeps ==
    ASSUME TypeOK, CallersInv, NEW c \in Call, OpenFindsNothing(c)
    PROVE  CallersInv'
<1> USE CallFacts
<1>1. /\ status = "up" /\ status' # "crashed" /\ pc[c] = "todo"
      /\ \A d \in Call : pc'[d] = IF d = c THEN "insert" ELSE pc[d]
      /\ UNCHANGED <<dialled, tcbMap, tcb, handle, mutex, bound>>
      /\ tcbMap[c.localPort] = NoKey /\ shared \subseteq shared'
      /\ \A d \in Call : d.localPort = c.localPort /\ Busy(d) => d \in shared' /\ c \in shared'
  BY DEF OpenFindsNothing, UnderWay, Busy, Up, TypeOK
<1>2. ASSUME NEW d \in Call
      PROVE  (Dials(d) /\ BlockKnown(d) /\ Unborn(d) /\ Kept(d))'
  <2>1. Dials(d) /\ BlockKnown(d) /\ Unborn(d) /\ Kept(d)
    BY DEF CallersInv
  <2>2. Dials(d)'
    BY <1>1, <2>1 DEF Dials
  <2>3. BlockKnown(d)'
    BY <1>1, <2>1 DEF BlockKnown
  <2>4. Unborn(d)'
    BY <1>1, <2>1 DEF Unborn
  <2>5. ASSUME Alone(d)'
        PROVE  (KeptOnPort(d) /\ KeptPassive(d) /\ KeptActive(d) /\ KeptUndialled(d))'
    <3>1. /\ Alone(d) /\ KeptOnPort(d) /\ KeptPassive(d)
          /\ KeptActive(d) /\ KeptUndialled(d)
      BY <1>1, <2>1, <2>5 DEF Kept, Alone, PortCollides
    <3>2. KeptOnPort(d)'
      BY <1>1, <3>1 DEF KeptOnPort
    <3>3. KeptPassive(d)'
      BY <1>1, <3>1 DEF KeptPassive, Busy
    <3>4. KeptActive(d)'
      BY <1>1, <3>1 DEF KeptActive
    <3>5. KeptUndialled(d)'
      BY <1>1, <3>1 DEF KeptUndialled
    <3> QED
      BY <3>2, <3>3, <3>4, <3>5
  <2> QED
    BY <2>2, <2>3, <2>4, <2>5 DEF Kept
<1>3. ASSUME NEW q \in Port
      PROVE  KeyKnown(q)'
  BY <1>1 DEF CallersInv, KeyKnown
<1>4. ASSUME NEW a \in Call, NEW b \in Call
      PROVE  Meet(a, b)'
  BY <1>1 DEF CallersInv, Meet, Busy
<1>5. NullBlocks'
  BY <1>1 DEF CallersInv, NullBlocks, TwoCallers
<1> QED
  BY <1>2, <1>3, <1>4, <1>5 DEF CallersInv

\* A call that joins or throws is over.
LEMMA RefusedKeeps ==
    ASSUME TypeOK, CallersInv, NEW c \in Call, OpenJoins(c) \/ OpenThrows(c)
    PROVE  CallersInv'
<1> USE CallFacts
<1>1. /\ status = "up" /\ status' # "crashed" /\ pc[c] = "todo"
      /\ \A d \in Call : pc'[d] = IF d = c THEN pc'[c] ELSE pc[d]
      /\ pc'[c] \in {"joined", "threw"}
      /\ UNCHANGED <<dialled, tcbMap, tcb, handle, mutex, bound, shared>>
  BY DEF OpenJoins, OpenThrows, Up, TypeOK
<1>2. ASSUME NEW d \in Call
      PROVE  (Dials(d) /\ BlockKnown(d) /\ Unborn(d) /\ Kept(d))'
  <2>1. Dials(d) /\ BlockKnown(d) /\ Unborn(d) /\ Kept(d)
    BY DEF CallersInv
  <2>2. Dials(d)'
    BY <1>1, <2>1 DEF Dials
  <2>3. BlockKnown(d)'
    BY <1>1, <2>1 DEF BlockKnown
  <2>4. Unborn(d)'
    BY <1>1, <2>1 DEF Unborn
  <2>5. ASSUME Alone(d)'
        PROVE  (KeptOnPort(d) /\ KeptPassive(d) /\ KeptActive(d) /\ KeptUndialled(d))'
    <3>1. /\ Alone(d) /\ KeptOnPort(d) /\ KeptPassive(d)
          /\ KeptActive(d) /\ KeptUndialled(d)
      BY <1>1, <2>1, <2>5 DEF Kept, Alone, PortCollides
    <3>2. KeptOnPort(d)'
      BY <1>1, <3>1 DEF KeptOnPort
    <3>3. KeptPassive(d)'
      BY <1>1, <3>1 DEF KeptPassive, Busy
    <3>4. KeptActive(d)'
      BY <1>1, <3>1 DEF KeptActive
    <3>5. KeptUndialled(d)'
      BY <1>1, <3>1 DEF KeptUndialled
    <3> QED
      BY <3>2, <3>3, <3>4, <3>5
  <2> QED
    BY <2>2, <2>3, <2>4, <2>5 DEF Kept
<1>3. ASSUME NEW q \in Port
      PROVE  KeyKnown(q)'
  BY <1>1 DEF CallersInv, KeyKnown
<1>4. ASSUME NEW a \in Call, NEW b \in Call
      PROVE  Meet(a, b)'
  BY <1>1 DEF CallersInv, Meet, Busy
<1>5. NullBlocks'
  BY <1>1 DEF CallersInv, NullBlocks, TwoCallers
<1> QED
  BY <1>2, <1>3, <1>4, <1>5 DEF CallersInv

\* emplace gives a call that met nobody its key, and else leaves what is there.
LEMMA InsertsKeeps ==
    ASSUME TypeOK, CallersInv, NEW c \in Call, OpenInserts(c)
    PROVE  CallersInv'
<1> USE CallFacts
<1>1. /\ status = "up" /\ status' # "crashed" /\ pc[c] = "insert"
      /\ \A d \in Call : pc'[d] = IF d = c THEN pc'[c] ELSE pc[d]
      /\ pc'[c] = IF c.passive THEN "return" ELSE "syn"
      /\ UNCHANGED <<dialled, tcb, handle, mutex, bound, shared>>
      /\ \A q \in Port : tcbMap'[q] = IF q = c.localPort /\ tcbMap[q] = NoKey THEN c ELSE tcbMap[q]
  BY DEF OpenInserts, Up, TypeOK
<1>2. \A b \in Call : tcb[b].localPort \in Port /\ handle[b].localPort \in Port
  BY DEF TypeOK
<1>3. ASSUME NEW d \in Call, d # c, d.localPort = c.localPort, Busy(d)
      PROVE  c \in shared /\ d \in shared
  BY <1>1, <1>3 DEF CallersInv, Meet, Busy
<1>4. ASSUME NEW d \in Call
      PROVE  (Dials(d) /\ BlockKnown(d) /\ Unborn(d) /\ Kept(d))'
  <2>1. Dials(d) /\ BlockKnown(d) /\ Unborn(d) /\ Kept(d)
    BY DEF CallersInv
  <2>2. Dials(d)'
    BY <1>1, <1>2, <2>1 DEF Dials
  <2>3. BlockKnown(d)'
    BY <1>1, <2>1 DEF BlockKnown
  <2>4. Unborn(d)'
    BY <1>1, <2>1 DEF Unborn
  <2>5. ASSUME Alone(d)'
        PROVE  (KeptOnPort(d) /\ KeptPassive(d) /\ KeptActive(d) /\ KeptUndialled(d))'
    <3>1. /\ Alone(d) /\ KeptOnPort(d) /\ KeptPassive(d)
          /\ KeptActive(d) /\ KeptUndialled(d)
      BY <1>1, <2>1, <2>5 DEF Kept, Alone, PortCollides
    <3>2. KeptOnPort(d)'
      BY <1>1, <1>3, <3>1 DEF KeptOnPort, Alone, Busy
    <3>3. KeptPassive(d)'
      <4>1. CASE d = c
        BY <1>1, <1>3, <3>1, <4>1 DEF KeptPassive, KeptOnPort, Busy, Alone
      <4>2. CASE d # c
        BY <1>1, <3>1, <4>2 DEF KeptPassive, Busy
      <4> QED
        BY <4>1, <4>2
    <3>4. KeptActive(d)'
      BY <1>1, <1>2, <3>1 DEF KeptActive
    <3>5. KeptUndialled(d)'
      BY <1>1, <2>1, <3>1 DEF KeptUndialled, Unborn
    <3> QED
      BY <3>2, <3>3, <3>4, <3>5
  <2> QED
    BY <2>2, <2>3, <2>4, <2>5 DEF Kept
<1>5. ASSUME NEW q \in Port
      PROVE  KeyKnown(q)'
  BY <1>1 DEF CallersInv, KeyKnown
<1>6. ASSUME NEW a \in Call, NEW b \in Call
      PROVE  Meet(a, b)'
  BY <1>1 DEF CallersInv, Meet, Busy
<1>7. NullBlocks'
  BY <1>1 DEF CallersInv, NullBlocks, TwoCallers
<1> QED
  BY <1>4, <1>5, <1>6, <1>7 DEF CallersInv

\* open() copies the port that leads to the block.
LEMMA ReturnsKeeps ==
    ASSUME TypeOK, CallersInv, NEW c \in Call, OpenReturns(c)
    PROVE  CallersInv'
<1> USE CallFacts
<1>1. /\ status = "up" /\ status' # "crashed" /\ pc[c] = "return"
      /\ \A d \in Call : pc'[d] = IF d = c THEN "returned" ELSE pc[d]
      /\ UNCHANGED <<dialled, tcbMap, tcb, mutex, bound, shared>>
      /\ \A d \in Call :
             handle'[d].localPort = IF d = c THEN tcb[c].localPort ELSE handle[d].localPort
  BY DEF OpenReturns, Up, TypeOK
<1>2. ASSUME NEW d \in Call
      PROVE  (Dials(d) /\ BlockKnown(d) /\ Unborn(d) /\ Kept(d))'
  <2>1. Dials(d) /\ BlockKnown(d) /\ Unborn(d) /\ Kept(d)
    BY DEF CallersInv
  <2>2. Dials(d)'
    BY <1>1, <2>1 DEF Dials
  <2>3. BlockKnown(d)'
    BY <1>1, <2>1 DEF BlockKnown
  <2>4. Unborn(d)'
    BY <1>1, <2>1 DEF Unborn
  <2>5. ASSUME Alone(d)'
        PROVE  (KeptOnPort(d) /\ KeptPassive(d) /\ KeptActive(d) /\ KeptUndialled(d))'
    <3>1. /\ Alone(d) /\ KeptOnPort(d) /\ KeptPassive(d)
          /\ KeptActive(d) /\ KeptUndialled(d)
      BY <1>1, <2>1, <2>5 DEF Kept, Alone, PortCollides
    <3>2. KeptOnPort(d)'
      BY <1>1, <3>1 DEF KeptOnPort
    <3>3. KeptPassive(d)'
      BY <1>1, <3>1 DEF KeptPassive, Busy
    <3>4. KeptActive(d)'
      BY <1>1, <2>1, <3>1 DEF KeptActive, BlockKnown
    <3>5. KeptUndialled(d)'
      BY <1>1, <3>1 DEF KeptUndialled
    <3> QED
      BY <3>2, <3>3, <3>4, <3>5
  <2> QED
    BY <2>2, <2>3, <2>4, <2>5 DEF Kept
<1>3. ASSUME NEW q \in Port
      PROVE  KeyKnown(q)'
  BY <1>1 DEF CallersInv, KeyKnown
<1>4. ASSUME NEW a \in Call, NEW b \in Call
      PROVE  Meet(a, b)'
  BY <1>1 DEF CallersInv, Meet, Busy
<1>5. NullBlocks'
  BY <1>1 DEF CallersInv, NullBlocks, TwoCallers
<1> QED
  BY <1>2, <1>3, <1>4, <1>5 DEF CallersInv

\* Who discards a handle leaves the map alone.
LEMMA DropsKeeps ==
    ASSUME TypeOK, CallersInv, NEW c \in Call, Drops(c)
    PROVE  CallersInv'
<1> USE CallFacts
<1>1. /\ status = "up" /\ status' # "crashed" /\ pc[c] = "returned"
      /\ \A d \in Call : pc'[d] = IF d = c THEN "dropped" ELSE pc[d]
      /\ UNCHANGED <<dialled, tcbMap, handle, mutex, bound, shared>>
      /\ \A d \in Call : /\ tcb'[d].localPort = tcb[d].localPort
                         /\ tcb'[d].connectionSocket = tcb[d].connectionSocket
                         /\ tcb'[d].state = tcb[d].state
  BY DEF Drops, Up, TypeOK
<1>2. ASSUME NEW d \in Call
      PROVE  (Dials(d) /\ BlockKnown(d) /\ Unborn(d) /\ Kept(d))'
  <2>1. Dials(d) /\ BlockKnown(d) /\ Unborn(d) /\ Kept(d)
    BY DEF CallersInv
  <2>2. Dials(d)'
    BY <1>1, <2>1 DEF Dials
  <2>3. BlockKnown(d)'
    BY <1>1, <2>1 DEF BlockKnown
  <2>4. Unborn(d)'
    BY <1>1, <2>1 DEF Unborn
  <2>5. ASSUME Alone(d)'
        PROVE  (KeptOnPort(d) /\ KeptPassive(d) /\ KeptActive(d) /\ KeptUndialled(d))'
    <3>1. /\ Alone(d) /\ KeptOnPort(d) /\ KeptPassive(d)
          /\ KeptActive(d) /\ KeptUndialled(d)
      BY <1>1, <2>1, <2>5 DEF Kept, Alone, PortCollides
    <3>2. KeptOnPort(d)'
      BY <1>1, <3>1 DEF KeptOnPort
    <3>3. KeptPassive(d)'
      BY <1>1, <3>1 DEF KeptPassive, Busy
    <3>4. KeptActive(d)'
      BY <1>1, <3>1 DEF KeptActive
    <3>5. KeptUndialled(d)'
      BY <1>1, <3>1 DEF KeptUndialled
    <3> QED
      BY <3>2, <3>3, <3>4, <3>5
  <2> QED
    BY <2>2, <2>3, <2>4, <2>5 DEF Kept
<1>3. ASSUME NEW q \in Port
      PROVE  KeyKnown(q)'
  BY <1>1 DEF CallersInv, KeyKnown
<1>4. ASSUME NEW a \in Call, NEW b \in Call
      PROVE  Meet(a, b)'
  BY <1>1 DEF CallersInv, Meet, Busy
<1>5. NullBlocks'
  BY <1>1 DEF CallersInv, NullBlocks, TwoCallers
<1> QED
  BY <1>2, <1>3, <1>4, <1>5 DEF CallersInv


\* operator[] finds the block of a call that met nobody, and inserts the null pointer
\* only if another client has taken the block of this one away.
LEMMA LooksUpKeeps ==
    ASSUME TypeOK, CallersInv, NEW c \in Call, SynLooksUp(c)
    PROVE  CallersInv'
<1> USE CallFacts
<1>1. /\ status = "up" /\ status' # "crashed" /\ pc[c] = "syn"
      /\ \A d \in Call : pc'[d] = IF d = c THEN "lock" ELSE pc[d]
      /\ UNCHANGED <<tcb, handle, mutex, bound, shared>>
      /\ \A d \in Call : d # c => dialled'[d] = dialled[d]
      /\ dialled'[c] = IF tcbMap[c.localPort] = NoKey THEN NullBlock ELSE tcbMap[c.localPort]
      /\ \A q \in Port : tcbMap'[q] = IF q = c.localPort /\ tcbMap[q] = NoKey
                                      THEN NullBlock ELSE tcbMap[q]
  BY DEF SynLooksUp, Up, TypeOK
<1>2. \A b \in Call : tcb[b].localPort \in Port /\ handle[b].localPort \in Port
  BY DEF TypeOK
<1>3. ASSUME NEW d \in Call, d # c, d.localPort = c.localPort, Busy(d)
      PROVE  c \in shared /\ d \in shared
  BY <1>1, <1>3 DEF CallersInv, Meet, Busy
<1>4. ASSUME NEW d \in Call
      PROVE  (Dials(d) /\ BlockKnown(d) /\ Unborn(d) /\ Kept(d))'
  <2>1. Dials(d) /\ BlockKnown(d) /\ Unborn(d) /\ Kept(d)
    BY DEF CallersInv
  <2>2. Dials(d)'
    BY <1>1, <1>2, <2>1 DEF Dials
  <2>3. BlockKnown(d)'
    BY <1>1, <2>1 DEF BlockKnown
  <2>4. Unborn(d)'
    BY <1>1, <2>1 DEF Unborn
  <2>5. ASSUME Alone(d)'
        PROVE  (KeptOnPort(d) /\ KeptPassive(d) /\ KeptActive(d) /\ KeptUndialled(d))'
    <3>1. /\ Alone(d) /\ KeptOnPort(d) /\ KeptPassive(d)
          /\ KeptActive(d) /\ KeptUndialled(d)
      BY <1>1, <2>1, <2>5 DEF Kept, Alone, PortCollides
    <3>2. KeptOnPort(d)'
      BY <1>1, <1>3, <3>1 DEF KeptOnPort, Alone, Busy
    <3>3. KeptPassive(d)'
      BY <1>1, <3>1 DEF KeptPassive, Busy
    <3>4. KeptActive(d)'
      BY <1>1, <1>2, <3>1 DEF KeptActive
    <3>5. KeptUndialled(d)'
      <4>1. ASSUME d # c, pc[d] \in {"syn", "lock", "rekey", "return"}
            PROVE  tcbMap[c.localPort] # d
        <5>1. CASE d.localPort = c.localPort
          BY <1>1, <1>3, <3>1, <4>1, <5>1 DEF KeptPassive, KeptActive, Busy, Alone
        <5>2. CASE d.localPort # c.localPort
          BY <3>1, <4>1, <5>2 DEF CallersInv, KeyKnown, Alone, PortCollides
        <5> QED
          BY <5>1, <5>2
      <4> QED
        BY <1>1, <3>1, <4>1 DEF KeptUndialled
    <3> QED
      BY <3>2, <3>3, <3>4, <3>5
  <2> QED
    BY <2>2, <2>3, <2>4, <2>5 DEF Kept
<1>5. ASSUME NEW q \in Port
      PROVE  KeyKnown(q)'
  BY <1>1 DEF CallersInv, KeyKnown
<1>6. ASSUME NEW a \in Call, NEW b \in Call
      PROVE  Meet(a, b)'
  BY <1>1 DEF CallersInv, Meet, Busy
<1>7. NullBlocks'
  BY <1>1 DEF CallersInv, NullBlocks, TwoCallers
<1> QED
  BY <1>4, <1>5, <1>6, <1>7 DEF CallersInv

\* The block gets a new port, which no key leads to but a user's.
LEMMA SendsKeeps ==
    ASSUME TypeOK, CallersInv, NEW c \in Call, NEW p \in EphemeralPort, SynSends(c, p)
    PROVE  CallersInv'
<1> USE CallFacts
<1>1. /\ status = "up" /\ status' # "crashed" /\ pc[c] = "lock"
      /\ \A d \in Call : pc'[d] = IF d = c THEN "rekey" ELSE pc[d]
      /\ UNCHANGED <<dialled, tcbMap, shared>>
      /\ dialled[c] \in Call
      /\ mutex = Nobody /\ mutex' = c
      /\ p \notin bound /\ bound' = bound \cup {p}
  BY DEF SynSends, Locks, createForeignSocketAddress, Up, TypeOK
<1>2. \A d \in Call : handle'[d].localPort = handle[d].localPort
  BY <1>1 DEF SynSends, createForeignSocketAddress, Outdated, TypeOK
<1>3. PICK t : /\ t = [tcb[dialled[c]] EXCEPT !.connectionSocket = TRUE, !.localPort = p,
                                             !.state = "SYN_SENT"]
               /\ createForeignSocketAddress(dialled[c], t)
  BY DEF SynSends
<1>4. t \in Block /\ t.localPort = p /\ t.connectionSocket /\ t.state = "SYN_SENT" /\ p \in Port
  <2>1. tcb[dialled[c]] \in Block /\ p \in Port
    BY <1>1, PortAssumption DEF TypeOK, Block
  <2> QED
    BY <1>3, <2>1, BlockTypes DEF Block
<1>5. /\ tcb'[dialled[c]].localPort = p
      /\ tcb'[dialled[c]].connectionSocket
      /\ tcb'[dialled[c]].state = "SYN_SENT"
      /\ \A d \in Call : d # dialled[c] => tcb'[d] = tcb[d]
  BY <1>1, <1>3, <1>4 DEF createForeignSocketAddress, TypeOK, Block
<1>6. ASSUME NEW d \in Call
      PROVE  (Dials(d) /\ BlockKnown(d) /\ Unborn(d) /\ Kept(d))'
  <2>1. Dials(d) /\ BlockKnown(d) /\ Unborn(d) /\ Kept(d)
    BY DEF CallersInv
  <2>2. Dials(d)'
    BY <1>1, <1>4, <1>5, <2>1 DEF Dials, CallersInv, KeyKnown
  <2>3. BlockKnown(d)'
    BY <1>1, <1>5, <2>1 DEF BlockKnown
  <2>4. Unborn(d)'
    BY <1>1, <2>1 DEF Unborn
  <2>5. ASSUME Alone(d)'
        PROVE  (KeptOnPort(d) /\ KeptPassive(d) /\ KeptActive(d) /\ KeptUndialled(d))'
    <3>1. /\ Alone(d) /\ KeptOnPort(d) /\ KeptPassive(d)
          /\ KeptActive(d) /\ KeptUndialled(d)
      BY <1>1, <2>1, <2>5 DEF Kept, Alone, PortCollides
    <3>2. KeptOnPort(d)'
      BY <1>1, <3>1 DEF KeptOnPort
    <3>3. KeptPassive(d)'
      BY <1>1, <3>1 DEF KeptPassive, Busy
    <3>4. KeptActive(d)'
      BY <1>1, <1>2, <1>5, <3>1 DEF KeptActive, KeptUndialled
    <3>5. KeptUndialled(d)'
      BY <1>1, <3>1 DEF KeptUndialled
    <3> QED
      BY <3>2, <3>3, <3>4, <3>5
  <2> QED
    BY <2>2, <2>3, <2>4, <2>5 DEF Kept
<1>7. ASSUME NEW q \in Port
      PROVE  KeyKnown(q)'
  BY <1>1 DEF CallersInv, KeyKnown
<1>8. ASSUME NEW a \in Call, NEW b \in Call
      PROVE  Meet(a, b)'
  BY <1>1 DEF CallersInv, Meet, Busy
<1>9. NullBlocks'
  BY <1>1 DEF CallersInv, NullBlocks, TwoCallers
<1> QED
  BY <1>6, <1>7, <1>8, <1>9 DEF CallersInv

\* The mutex is lost with a call that is over.
LEMMA ThrowsKeeps ==
    ASSUME TypeOK, CallersInv, NEW c \in Call, SynThrows(c)
    PROVE  CallersInv'
<1> USE CallFacts
<1>1. /\ status = "up" /\ status' # "crashed" /\ pc[c] = "lock"
      /\ \A d \in Call : pc'[d] = IF d = c THEN "threw" ELSE pc[d]
      /\ UNCHANGED <<dialled, tcbMap, tcb, handle, bound, shared>>
      /\ mutex = Nobody
  BY DEF SynThrows, Locks, Up, TypeOK
<1>2. ASSUME NEW d \in Call
      PROVE  (Dials(d) /\ BlockKnown(d) /\ Unborn(d) /\ Kept(d))'
  <2>1. Dials(d) /\ BlockKnown(d) /\ Unborn(d) /\ Kept(d)
    BY DEF CallersInv
  <2>2. Dials(d)'
    BY <1>1, <2>1 DEF Dials
  <2>3. BlockKnown(d)'
    BY <1>1, <2>1 DEF BlockKnown
  <2>4. Unborn(d)'
    BY <1>1, <2>1 DEF Unborn
  <2>5. ASSUME Alone(d)'
        PROVE  (KeptOnPort(d) /\ KeptPassive(d) /\ KeptActive(d) /\ KeptUndialled(d))'
    <3>1. /\ Alone(d) /\ KeptOnPort(d) /\ KeptPassive(d)
          /\ KeptActive(d) /\ KeptUndialled(d)
      BY <1>1, <2>1, <2>5 DEF Kept, Alone, PortCollides
    <3>2. KeptOnPort(d)'
      BY <1>1, <3>1 DEF KeptOnPort
    <3>3. KeptPassive(d)'
      BY <1>1, <3>1 DEF KeptPassive, Busy
    <3>4. KeptActive(d)'
      BY <1>1, <3>1 DEF KeptActive
    <3>5. KeptUndialled(d)'
      BY <1>1, <3>1 DEF KeptUndialled
    <3> QED
      BY <3>2, <3>3, <3>4, <3>5
  <2> QED
    BY <2>2, <2>3, <2>4, <2>5 DEF Kept
<1>3. ASSUME NEW q \in Port
      PROVE  KeyKnown(q)'
  BY <1>1 DEF CallersInv, KeyKnown
<1>4. ASSUME NEW a \in Call, NEW b \in Call
      PROVE  Meet(a, b)'
  BY <1>1 DEF CallersInv, Meet, Busy
<1>5. NullBlocks'
  BY <1>1 DEF CallersInv, NullBlocks, TwoCallers
<1> QED
  BY <1>2, <1>3, <1>4, <1>5 DEF CallersInv

\* The key of a call that met nobody moves to the new port of its block.
LEMMA RekeysKeeps ==
    ASSUME TypeOK, CallersInv, NEW c \in Call, SynRekeys(c)
    PROVE  CallersInv'
<1> USE CallFacts
<1>1. /\ status = "up" /\ status' # "crashed" /\ pc[c] = "rekey"
      /\ \A d \in Call : pc'[d] = IF d = c THEN "return" ELSE pc[d]
      /\ UNCHANGED <<dialled, handle, bound, shared>>
      /\ mutex = c /\ dialled[c] \in Call /\ ~c.passive
  BY DEF SynRekeys, CallersInv, Dials, Up, TypeOK
<1>2. \A b \in Call : tcb[b].localPort \in Port /\ handle[b].localPort \in Port
  BY DEF TypeOK
<1>3. ASSUME NEW d \in Call, d # c, d.localPort = c.localPort, Busy(d)
      PROVE  c \in shared /\ d \in shared
  BY <1>1, <1>3 DEF CallersInv, Meet, Busy
<1>4. \A b \in Call : /\ tcb'[b].localPort = tcb[b].localPort
                      /\ tcb'[b].connectionSocket = tcb[b].connectionSocket
                      /\ tcb'[b].state = tcb[b].state
  BY DEF SynRekeys, TypeOK
<1>5. PICK k \in bound : /\ k = tcb[dialled[c]].localPort
                         /\ k \in UserPort \/ tcbMap[k] = NoKey
  BY <1>1 DEF CallersInv, Dials, BlockKnown
<1>6. \A q \in Port :
          tcbMap'[q] = IF q = k /\ (q = c.localPort \/ tcbMap[q] = NoKey) THEN dialled[c]
                       ELSE IF q = c.localPort THEN NoKey ELSE tcbMap[q]
  <2>1. k \in Port /\ c.localPort \in Port /\ dialled[c] # NoKey
    BY <1>1, <1>5 DEF TypeOK
  <2> DEFINE erased == [tcbMap EXCEPT ![c.localPort] = NoKey]
  <2>2. tcbMap' = IF erased[tcb[dialled[c]].localPort] = NoKey
                  THEN [erased EXCEPT ![tcb[dialled[c]].localPort] = dialled[c]] ELSE erased
    BY DEF SynRekeys, Rekeyed
  <2>3. erased \in [Port -> Call \cup {NoKey, NullBlock}]
    BY DEF TypeOK
  <2>4. \A q \in Port : erased[q] = IF q = c.localPort THEN NoKey ELSE tcbMap[q]
    BY DEF TypeOK
  <2> HIDE DEF erased
  <2>5. tcbMap' = IF erased[k] = NoKey THEN [erased EXCEPT ![k] = dialled[c]] ELSE erased
    BY <1>5, <2>2
  <2> QED
    BY <2>1, <2>3, <2>4, <2>5
<1>7. ASSUME NEW d \in Call
      PROVE  (Dials(d) /\ BlockKnown(d) /\ Unborn(d) /\ Kept(d))'
  <2>1. Dials(d) /\ BlockKnown(d) /\ Unborn(d) /\ Kept(d)
    BY DEF CallersInv
  <2>2. Dials(d)'
    BY <1>1, <1>4, <2>1 DEF Dials
  <2>3. BlockKnown(d)'
    BY <1>1, <1>4, <2>1 DEF BlockKnown
  <2>4. Unborn(d)'
    BY <1>1, <1>6, <2>1 DEF Unborn
  <2>5. ASSUME Alone(d)'
        PROVE  (KeptOnPort(d) /\ KeptPassive(d) /\ KeptActive(d) /\ KeptUndialled(d))'
    <3>1. /\ Alone(d) /\ KeptOnPort(d) /\ KeptPassive(d)
          /\ KeptActive(d) /\ KeptUndialled(d)
      BY <1>1, <2>1, <2>5 DEF Kept, Alone, PortCollides
    <3>2. KeptOnPort(d)'
      BY <1>1, <1>3, <1>6, <3>1 DEF KeptOnPort, Alone, PortCollides, Busy
    <3>3. KeptPassive(d)'
      BY <1>1, <1>6, <3>1 DEF KeptPassive, Busy, Alone, PortCollides
    <3>4. KeptActive(d)'
      <4>1. CASE d = c
        <5>1. dialled[c] = c
          BY <1>1, <3>1, <4>1 DEF KeptOnPort
        <5>2. tcb[dialled[c]].connectionSocket /\ k = tcb[dialled[c]].localPort
          BY <1>1, <1>5 DEF CallersInv, Dials
        <5>3. k \in Port /\ k \notin UserPort
          BY <1>2, <1>5, <3>1, <5>1 DEF Alone, PortCollides
        <5>4. tcbMap'[k] = c /\ tcbMap'[c.localPort] = NoKey
          BY <1>5, <1>6, <5>1, <5>3
        <5> QED
          BY <1>1, <1>4, <4>1, <5>1, <5>2, <5>4 DEF KeptActive
      <4>2. CASE d # c
        BY <1>1, <1>2, <1>4, <1>6, <2>1, <3>1, <4>2
        DEF KeptActive, BlockKnown, Alone, PortCollides
      <4> QED
        BY <4>1, <4>2
    <3>5. KeptUndialled(d)'
      BY <1>1, <3>1 DEF KeptUndialled
    <3> QED
      BY <3>2, <3>3, <3>4, <3>5
  <2> QED
    BY <2>2, <2>3, <2>4, <2>5 DEF Kept
<1>8. ASSUME NEW q \in Port
      PROVE  KeyKnown(q)'
  BY <1>1, <1>5, <1>6 DEF CallersInv, KeyKnown
<1>9. ASSUME NEW a \in Call, NEW b \in Call
      PROVE  Meet(a, b)'
  BY <1>1 DEF CallersInv, Meet, Busy
<1>10. NullBlocks'
  BY <1>1, <1>3, <1>6 DEF CallersInv, NullBlocks, TwoCallers, Dials, Busy
<1> QED
  BY <1>7, <1>8, <1>9, <1>10 DEF CallersInv

\* A listening block gets a port of its own, and keeps its key.
LEMMA BindsKeeps ==
    ASSUME TypeOK, CallersInv, NEW b \in Call, NEW p \in EphemeralPort, ListenerBinds(b, p)
    PROVE  CallersInv'
<1> USE CallFacts
<1>1. /\ status = "up" /\ status' # "crashed" /\ tcb[b].state = "LISTEN"
      /\ UNCHANGED <<pc, dialled, tcbMap, handle, mutex, shared>>
      /\ bound \subseteq bound'
      /\ \A d \in Call : /\ d # b \/ tcb[b].connectionSocket => tcb'[d] = tcb[d]
                         /\ tcb'[d].state = tcb[d].state
  BY DEF ListenerBinds, Finds, Up, TypeOK
<1>2. ASSUME ~tcb[b].connectionSocket
      PROVE  tcb'[b].localPort \in bound' /\ tcb'[b].connectionSocket
  BY <1>2 DEF ListenerBinds, TypeOK
<1>3. ASSUME NEW d \in Call
      PROVE  (Dials(d) /\ BlockKnown(d) /\ Unborn(d) /\ Kept(d))'
  <2>1. Dials(d) /\ BlockKnown(d) /\ Unborn(d) /\ Kept(d)
    BY DEF CallersInv
  <2>2. Dials(d)'
    BY <1>1, <1>2, <2>1 DEF Dials
  <2>3. BlockKnown(d)'
    BY <1>1, <1>2, <2>1 DEF BlockKnown
  <2>4. Unborn(d)'
    BY <1>1, <2>1 DEF Unborn
  <2>5. ASSUME Alone(d)'
        PROVE  (KeptOnPort(d) /\ KeptPassive(d) /\ KeptActive(d) /\ KeptUndialled(d))'
    <3>1. /\ Alone(d) /\ KeptOnPort(d) /\ KeptPassive(d)
          /\ KeptActive(d) /\ KeptUndialled(d)
      BY <1>1, <2>1, <2>5 DEF Kept, Alone, PortCollides
    <3>2. KeptOnPort(d)'
      BY <1>1, <3>1 DEF KeptOnPort
    <3>3. KeptPassive(d)'
      BY <1>1, <3>1 DEF KeptPassive, Busy
    <3>4. KeptActive(d)'
      BY <1>1, <2>1, <3>1 DEF KeptActive, BlockKnown
    <3>5. KeptUndialled(d)'
      BY <1>1, <3>1 DEF KeptUndialled
    <3> QED
      BY <3>2, <3>3, <3>4, <3>5
  <2> QED
    BY <2>2, <2>3, <2>4, <2>5 DEF Kept
<1>4. ASSUME NEW q \in Port
      PROVE  KeyKnown(q)'
  BY <1>1 DEF CallersInv, KeyKnown
<1>5. ASSUME NEW a \in Call, NEW d \in Call
      PROVE  Meet(a, d)'
  BY <1>1 DEF CallersInv, Meet, Busy
<1>6. NullBlocks'
  BY <1>1 DEF CallersInv, NullBlocks, TwoCallers
<1> QED
  BY <1>3, <1>4, <1>5, <1>6 DEF CallersInv


-----------------------------------------------------------------------------
(***************************************************************************)
(* The invariant holds, and with it what the runs check.                   *)
(***************************************************************************)
\* A process that is not up yet: no call has begun, and the map is empty.
LEMMA OpenInit ==
    ASSUME Init
    PROVE  OpenInv
<1> USE CallFacts
<1>1. ASSUME NEW c \in Call
      PROVE  /\ NewTCB(c) \in Block /\ NewTCB(c).address = "nullptr"
             /\ NewTCB(c).localPort = c.localPort /\ ~NewTCB(c).connectionSocket
             /\ NewTCB(c).state = "LISTEN" => c.passive
             /\ NewHandle(c) \in Handle
  BY DEF NewTCB, NewHandle, Block, Handle
<1>2. \A c \in Call : tcb[c] = NewTCB(c) /\ pc[c] \in {"never", "todo"} /\ dialled[c] = NoKey
  BY DEF Init
<1>3. \A q \in Port : tcbMap[q] = NoKey
  BY DEF Init
<1>4. TypeOK
  <2>1. pc \in [Call -> {"never", "todo"}]
    BY DEF Init
  <2>2. tcb \in [Call -> Block] /\ handle \in [Call -> Handle]
    BY <1>1 DEF Init
  <2>3. \A c \in Call : pc[c] \notin {"lock", "rekey"}
    BY <1>2
  <2> QED
    BY <2>1, <2>2, <2>3, IdleType DEF Init, TypeOK, Block, Handle
<1>5. HeapKnown /\ Answering
  BY <1>1, <1>2 DEF Init, HeapKnown, HeapCorruptedByDroppers, Answering, Idle
<1>6. ASSUME NEW c \in Call
      PROVE  Dials(c) /\ BlockKnown(c) /\ Unborn(c) /\ Kept(c)
  BY <1>1, <1>2, <1>3 DEF Dials, BlockKnown, Unborn, Kept, KeptOnPort, KeptPassive,
                          KeptActive, KeptUndialled
<1>7. (\A q \in Port : KeyKnown(q)) /\ (\A c, d \in Call : Meet(c, d))
  BY <1>2, <1>3 DEF KeyKnown, Meet, Busy
<1>8. NullBlocks
  BY <1>2, <1>3 DEF Init, NullBlocks
<1> QED
  BY <1>4, <1>5, <1>6, <1>7, <1>8 DEF OpenInv, CallersInv

\* Each step preserves the invariant.
LEMMA OpenStep ==
    ASSUME OpenInv, [Next]_vars
    PROVE  OpenInv'
<1>1. TypeOK /\ HeapKnown /\ Answering /\ CallersInv
  BY DEF OpenInv
<1>2. CASE Dies
  BY <1>1, <1>2, DiesDies, DiedKeeps
<1>3. CASE \/ Initializes \/ Filters \/ ClosedReplies \/ ListenerAnswers
           \/ \E h \in Incoming : RawReceives(h)
           \/ \E b \in Call : \/ ListenerIgnores(b)
                              \/ BlockEstablishes(b) \/ BlockAnswers(b) \/ BlockMoves(b)
  <2>1. ListenerAnswers => listener.block \in Call
    BY <1>1 DEF ListenerAnswers, Answering
  <2>2. TypeOK' /\ HeapKnown'
    BY <1>1, <1>3, <2>1, ThreadTypes, ThreadHeap
  <2>3. Answering' /\ CallersInv'
    BY <1>1, <1>3, QuietSteps, QuietKeeps
  <2> QED
    BY <2>2, <2>3 DEF OpenInv
<1>4. ASSUME NEW b \in Call, NEW q \in EphemeralPort, ListenerBinds(b, q)
      PROVE  OpenInv'
  <2>1. TypeOK' /\ HeapKnown' /\ CallersInv'
    BY <1>1, <1>4, ThreadTypes, ThreadHeap, BindsKeeps
  <2>2. Answering'
    BY <1>1, <1>4 DEF ListenerBinds, Answering, TypeOK
  <2> QED
    BY <2>1, <2>2 DEF OpenInv
<1>5. ASSUME NEW c \in Call,
             \/ OpenFindsNothing(c) \/ OpenJoins(c) \/ OpenThrows(c)
             \/ OpenInserts(c) \/ OpenReturns(c) \/ Drops(c)
             \/ SynLooksUp(c) \/ SynThrows(c) \/ SynRekeys(c)
             \/ \E q \in EphemeralPort : SynSends(c, q)
      PROVE  OpenInv'
  <2>1. TypeOK' /\ HeapKnown'
    BY <1>5, CallTypes, CallHeap
  <2>2. CallersInv'
    BY <1>1, <1>5, FindsNothingKeeps, RefusedKeeps, InsertsKeeps, ReturnsKeeps, DropsKeeps,
       LooksUpKeeps, SendsKeeps, ThrowsKeeps, RekeysKeeps
  <2>3. Answering'
    BY <1>1, <1>5 DEF OpenFindsNothing, OpenJoins, OpenThrows, OpenInserts, OpenReturns, Drops,
                      SynLooksUp, SynThrows, SynRekeys, SynSends, Answering
  <2> QED
    BY <2>1, <2>2, <2>3 DEF OpenInv
<1>6. CASE UNCHANGED vars
  BY <1>1, <1>6 DEF vars, OpenInv, TypeOK, HeapKnown, HeapCorruptedByDroppers, Answering,
                    CallersInv, Dials, BlockKnown, Unborn, Kept, Alone, PortCollides,
                    KeptOnPort, KeptPassive, KeptActive, KeptUndialled, KeyKnown, Meet, Busy,
                    NullBlocks, TwoCallers
<1> QED
  BY <1>2, <1>3, <1>4, <1>5, <1>6
  DEF Next, OpenBegins, OpenContinues, ListenerWorks, Dies

\* Everything that is proved of one process, as an invariant of the specification.
THEOREM OpenInvariance == Spec => []OpenInv
<1>1. Init => OpenInv
  BY OpenInit
<1>2. OpenInv /\ [Next]_vars => OpenInv'
  BY OpenStep
<1> QED
  BY <1>1, <1>2, PTL DEF Spec

\* TypeOK: the types, and that whoever waits for the mutex has looked up a block.
THEOREM TypeCorrect == Spec => []TypeOK
<1>1. OpenInv => TypeOK
  BY DEF OpenInv
<1> QED
  BY <1>1, OpenInvariance, PTL

\* NullBlockNeedsTwoCallers: operator[] of sendSYNMessage inserts a null pointer, and
\* the process dies of one, only after two clients met on one port.
THEOREM NoNullBlockAlone == Spec => []NullBlockNeedsTwoCallers
<1>1. OpenInv => NullBlockNeedsTwoCallers
  BY DEF OpenInv, CallersInv, NullBlocks, TwoCallers, NullBlockNeedsTwoCallers
<1> QED
  BY <1>1, OpenInvariance, PTL

\* HandlesFindTheirBlock: send() and receive() find the block of a handle, unless
\* callers met, a port collided or a passive connection moved before its copy.
THEOREM HandlesLeadHome == Spec => []HandlesFindTheirBlock
<1>1. OpenInv => HandlesFindTheirBlock
  BY DEF OpenInv, CallersInv, Kept, Alone, KeptPassive, KeptActive, HandlesFindTheirBlock,
         Found
<1> QED
  BY <1>1, OpenInvariance, PTL

\* HeapCorruptedByDroppers: no address is deleted twice or used after it was deleted
\* in a process whose callers keep the handles they got an address in.
THEOREM HeapSoundForKeepers == Spec => []HeapCorruptedByDroppers
<1>1. OpenInv => HeapCorruptedByDroppers
  BY DEF OpenInv, HeapKnown
<1> QED
  BY <1>1, OpenInvariance, PTL

=============================================================================
