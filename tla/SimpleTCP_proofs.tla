-------------------------- MODULE SimpleTCP_proofs --------------------------
(***************************************************************************)
(* Proofs about several processes on one address: which block is found     *)
(* under which port, whose segments are filtered, and that the types hold, *)
(* for every set of processes, calls, ports and sequence numbers, and      *)
(* whatever the network does.                                              *)
(***************************************************************************)
EXTENDS SimpleTCP, TCB_proofs

-----------------------------------------------------------------------------
(***************************************************************************)
(* The inductive invariant.  MapFollowsPort and OwnSynFiltered say what is *)
(* under a key and which segment is being handled; they are kept because a *)
(* key never leads elsewhere than KeysOwned says, every block that must be *)
(* found is found, two sockets never share a port, and a port in a segment *)
(* on its way is one that no socket can be given again.                    *)
(***************************************************************************)

\* The segments that some thread has yet to handle.
InFlight(h) ==
    \/ \E p \in Process : \/ h \in raw[p]
                          \/ listener[p].at # "receive" /\ h = listener[p].segment
    \/ \E c \in Call : \/ h \in udp[c]
                       \/ reader[c].at = "handle" /\ h = reader[c].segment

\* A port that no socket may be given any more, or that none ever is.
Known(q) ==
    q \in EphemeralPort => \E c \in Call : tcb[c].connectionSocket /\ tcb[c].localPort = q

\* The block is under the key that sendSYNMessage moves it to.
Moved(c) == ~c.passive /\ tcb[c].connectionSocket /\ opening[c] = "done"

\* What kind a block is of, how far open() is, and which port the block has.
Blocks ==
    \A c \in Call :
        /\ tcb[c].passive = c.passive
        /\ IF tcb[c].connectionSocket THEN tcb[c].localPort \in EphemeralPort
                                      ELSE tcb[c].localPort = c.localPort
        /\ tcb[c].state = "LISTEN" => c.passive
        /\ opening[c] \in {"syn", "rekey"} => ~c.passive
        /\ ~c.passive /\ opening[c] \in {"todo", "syn"} => ~tcb[c].connectionSocket
        /\ opening[c] = "rekey" => tcb[c].connectionSocket

\* No two sockets have one port.
PortsDiffer ==
    \A c, d \in Call :
        /\ tcb[c].connectionSocket /\ tcb[d].connectionSocket
        /\ tcb[c].localPort = tcb[d].localPort
        => c = d

\* What a key of tcbMap leads to, and the keys that must lead to a block.
KeysOwned ==
    \A p \in Process, q \in Port, c \in Call :
        tcbMap[p][q] = c =>
            c.process = p /\ (q = c.localPort \/ (Moved(c) /\ q = tcb[c].localPort))

BlocksFound ==
    \A c \in Call :
        /\ opening[c] \in {"syn", "rekey"} \/ (c.passive /\ tcb[c].connectionSocket) =>
               tcbMap[c.process][c.localPort] = c
        /\ Moved(c) => /\ tcbMap[c.process][tcb[c].localPort] = c
                       /\ tcbMap[c.process][c.localPort] # c

\* The ports in segments and blocks were given before.
PortsKnown ==
    /\ \A h \in TCPHeader : InFlight(h) =>
          /\ h.sourcePort \in Port /\ Known(h.sourcePort)
          /\ h.destinationPort \in Port /\ Known(h.destinationPort)
    /\ \A c \in Call :
          /\ Known(tcb[c].foreignPort)
          /\ tcb[c].connectionSocket => tcb[c].foreignPort \in Port

\* Only a connection socket receives.
SocketsReceive ==
    \A c \in Call : udp[c] # {} \/ reader[c].at = "handle" => tcb[c].connectionSocket

\* A thread that answers has a block of its process to answer for.
AnswerOwned ==
    \A p \in Process : listener[p].at = "answer" =>
        /\ listener[p].block \in Call
        /\ listener[p].block.process = p
        /\ listener[p].block.passive

PortInv ==
    /\ TypeOK /\ Blocks /\ PortsDiffer /\ KeysOwned /\ BlocksFound
    /\ PortsKnown /\ SocketsReceive /\ AnswerOwned /\ OwnSynFiltered

-----------------------------------------------------------------------------
(***************************************************************************)
(* What the actions have in common.                                        *)
(***************************************************************************)

\* Calls, their ports and the draws are of the types the blocks take.
LEMMA Constants ==
    /\ \A c \in Call : /\ c.process \in Process /\ c.passive \in BOOLEAN
                       /\ c.localPort \in UserPort /\ c.localPort \in PortNumber
                       /\ c.foreignPort \in PortNumber
                       /\ ~c.passive => c.foreignPort \in UserPort
    /\ \A q \in UserPort : q \in Port /\ q \notin EphemeralPort
    /\ \A q \in EphemeralPort : q \in Port /\ q \in PortNumber /\ q \notin UserPort
    /\ NoPort \notin EphemeralPort /\ NoTCB \notin Call
    /\ ISS \subseteq SeqNumber
<1>1. \A c \in Call : /\ c.process \in Process /\ c.passive \in BOOLEAN
                      /\ c.localPort \in UserPort /\ c.foreignPort \in UserPort \cup {NoPort}
                      /\ ~c.passive => c.foreignPort # NoPort
  BY CallAssumption
<1>2. ISS \subseteq SeqNumber
  BY ISSAssumption, MaxSeqAssumption DEF SeqNumber
<1> QED
  BY <1>1, <1>2, PortAssumption, EnvironmentAssumption, NoPortAssumption DEF PortNumber

\* A thread that waits in recv() is where TypeOK lets it be.
LEMMA IdleTypes ==
    /\ ListenerIdle \in [at      : {"receive", "find", "reply", "answer"},
                         segment : TCPHeader, block : Call \cup {NoTCB}]
    /\ ReaderIdle \in [at : {"receive", "handle"}, segment : TCPHeader, state : State]
    /\ ListenerIdle.at = "receive" /\ ReaderIdle.at = "receive"
<1>1. noHeader \in TCPHeader
  BY EmptyHeaderType DEF noHeader, PortNumber
<1> QED
  BY <1>1 DEF ListenerIdle, ReaderIdle, State

\* Transmit adds nothing to a socket but what was sent, and to a connection socket
\* only what was sent to its port.
LEMMA Transmitted ==
    ASSUME TypeOK, NEW S \in SUBSET TCPHeader, Transmit(S)
    PROVE  /\ raw' \in [Process -> SUBSET TCPHeader]
           /\ udp' \in [Call -> SUBSET TCPHeader]
           /\ \A p \in Process : \A h \in raw'[p] : h \in raw[p] \/ h \in S
           /\ \A c \in Call : \A h \in udp'[c] :
                  \/ h \in udp[c]
                  \/ /\ h \in S /\ tcb[c].connectionSocket
                     /\ tcb[c].localPort = h.destinationPort
BY DEF Transmit, TypeOK, Holds

\* An effect applied to a block changes that block alone.
LEMMA Applied ==
    ASSUME TypeOK, NEW c \in Call, NEW e \in Effect, NEW i \in ISS, Apply(c, e, i)
    PROVE  /\ tcb' \in [Call -> TransmissionControlBlock]
           /\ errorMessage' \in [Process -> ErrorMessage]
           /\ drawn' \in SUBSET ISS
           /\ tcb'[c] = e.tcb
           /\ \A d \in Call : d # c => tcb'[d] = tcb[d]
           /\ e.out \in SUBSET TCPHeader
           /\ Transmit(e.out)
BY Constants DEF Apply, TypeOK, Effect

\* What is left in a socket was there.
LEMMA LeftOver ==
    ASSUME NEW S, NEW h, NEW left \in Taken(S, h)
    PROVE  left \subseteq S
BY DEF Taken

\* A port that is known stays known while no socket is closed or moved.
LEMMA KnownStays ==
    ASSUME \A c \in Call : tcb[c].connectionSocket =>
               tcb'[c].connectionSocket /\ tcb'[c].localPort = tcb[c].localPort
    PROVE  \A q : Known(q) => Known(q)'
BY DEF Known

\* The port of a block is known, and is one.
LEMMA OwnPort ==
    ASSUME Blocks, NEW c \in Call
    PROVE  tcb[c].localPort \in Port /\ Known(tcb[c].localPort)
BY Constants DEF Blocks, Known

\* A step that leaves the blocks, tcbMap and the calls alone keeps the invariant if
\* every segment is one that was there or an answer to it, and the listening
\* threads answer nothing new and let no segment past the filter.
LEMMA SameBlocks ==
    ASSUME PortInv, TypeOK', UNCHANGED <<opening, tcbMap, tcb>>,
           \A h \in TCPHeader : InFlight(h)' =>
               \E k \in TCPHeader : /\ InFlight(k)
                                    /\ {h.sourcePort, h.destinationPort} =
                                          {k.sourcePort, k.destinationPort},
           SocketsReceive',
           \A p \in Process :
               /\ listener'[p].at = "answer" => listener'[p] = listener[p]
               /\ listener'[p].at # "receive" =>
                     \/ /\ listener[p].at # "receive"
                        /\ listener'[p].segment = listener[p].segment
                     \/ \A c \in Call : tcb[c].connectionSocket
                                        /\ c.process = p /\ ~c.passive =>
                            tcb[c].localPort # listener'[p].segment.sourcePort
    PROVE  PortInv'
<1>1. Blocks' /\ PortsDiffer'
  BY DEF PortInv, Blocks, PortsDiffer
<1>2. KeysOwned' /\ BlocksFound'
  BY DEF PortInv, KeysOwned, BlocksFound, Moved
<1>3. PortsKnown'
  <2>1. \A q : Known(q) => Known(q)'
    BY DEF Known
  <2>2. ASSUME NEW h \in TCPHeader, InFlight(h)'
        PROVE  /\ h.sourcePort \in Port /\ Known(h.sourcePort)
               /\ h.destinationPort \in Port /\ Known(h.destinationPort)
    <3> PICK k \in TCPHeader : /\ InFlight(k)
                               /\ {h.sourcePort, h.destinationPort} =
                                     {k.sourcePort, k.destinationPort}
      BY <2>2
    <3>1. /\ k.sourcePort \in Port /\ Known(k.sourcePort)
          /\ k.destinationPort \in Port /\ Known(k.destinationPort)
      BY DEF PortInv, PortsKnown
    <3>2. /\ h.sourcePort \in {k.sourcePort, k.destinationPort}
          /\ h.destinationPort \in {k.sourcePort, k.destinationPort}
      OBVIOUS
    <3> QED
      BY <3>1, <3>2
  <2> QED
    BY <2>1, <2>2 DEF PortInv, PortsKnown
<1>4. AnswerOwned'
  BY DEF PortInv, AnswerOwned
<1>5. OwnSynFiltered'
  BY DEF PortInv, OwnSynFiltered, Sockets
<1> QED
  BY <1>1, <1>2, <1>3, <1>4, <1>5 DEF PortInv

\* A process that ends takes its threads and what its sockets held with it.
LEMMA EndsInvariant ==
    ASSUME PortInv, NEW p \in Process,
           NEW how \in {"aborted", "terminated", "exited"}, Ends(p, how)
    PROVE  PortInv'
<1> USE DEF Ends
<1>1. /\ \A x \in Process : /\ raw'[x] \subseteq raw[x]
                            /\ listener'[x] \in {listener[x], ListenerIdle}
      /\ \A c \in Call : /\ udp'[c] \subseteq udp[c]
                         /\ reader'[c] \in {reader[c], ReaderIdle}
  BY DEF PortInv, TypeOK
<1>2. TypeOK'
  BY IdleTypes DEF PortInv, TypeOK
<1>3. \A h \in TCPHeader : InFlight(h)' => InFlight(h)
  BY <1>1, IdleTypes DEF InFlight
<1>4. SocketsReceive'
  BY <1>1, IdleTypes DEF PortInv, SocketsReceive
<1>5. \A x \in Process : listener'[x].at # "receive" => listener'[x] = listener[x]
  BY <1>1, IdleTypes
<1> QED
  BY <1>2, <1>3, <1>4, <1>5, SameBlocks

\* A block that handles a segment, or sends its SYN, keeps its socket and takes for
\* its peer a port that is known; what it sends goes from its own port to that one.
LEMMA AppliedPorts ==
    ASSUME PortInv, NEW c \in Call, NEW e \in Effect, NEW i \in ISS, Apply(c, e, i),
           FromTo(e), e.out # {} => e.tcb.connectionSocket,
           tcb[c].connectionSocket =>
               e.tcb.connectionSocket /\ e.tcb.localPort = tcb[c].localPort,
           e.tcb.connectionSocket =>
               e.tcb.localPort \in EphemeralPort /\ e.tcb.foreignPort \in Port,
           Known(e.tcb.foreignPort),
           \A p \in Process : listener'[p].at # "receive" =>
               listener[p].at # "receive" /\ listener'[p].segment = listener[p].segment,
           \A d \in Call : reader'[d].at = "handle" => reader'[d] = reader[d]
    PROVE  PortsKnown' /\ SocketsReceive'
<1> USE DEF PortInv
<1>1. /\ tcb'[c] = e.tcb
      /\ \A d \in Call : d # c => tcb'[d] = tcb[d]
      /\ e.out \in SUBSET TCPHeader /\ Transmit(e.out)
  BY Applied
<1>2. /\ \A p \in Process : \A h \in raw'[p] : h \in raw[p] \/ h \in e.out
      /\ \A d \in Call : \A h \in udp'[d] :
             h \in udp[d] \/ (h \in e.out /\ tcb[d].connectionSocket)
  BY <1>1, Transmitted
<1>3. \A q : Known(q) => Known(q)'
  <2>1. \A d \in Call : tcb[d].connectionSocket =>
            tcb'[d].connectionSocket /\ tcb'[d].localPort = tcb[d].localPort
    BY <1>1
  <2> QED
    BY <2>1, KnownStays
<1>4. ASSUME NEW h \in e.out
      PROVE  /\ h.sourcePort \in Port /\ Known(h.sourcePort)'
             /\ h.destinationPort \in Port /\ Known(h.destinationPort)'
  <2>1. h.sourcePort = e.tcb.localPort /\ h.destinationPort = e.tcb.foreignPort
    BY DEF FromTo
  <2>2. e.tcb.connectionSocket
    BY <1>4
  <2>3. Known(e.tcb.localPort)'
    BY <1>1, <2>2 DEF Known
  <2> QED
    BY <1>3, <2>1, <2>2, <2>3, Constants
<1>5. \A h \in TCPHeader : InFlight(h)' => InFlight(h) \/ h \in e.out
  BY <1>2 DEF InFlight
<1>6. PortsKnown'
  <2>1. ASSUME NEW d \in Call
        PROVE  (/\ Known(tcb[d].foreignPort)
                /\ tcb[d].connectionSocket => tcb[d].foreignPort \in Port)'
    <3>1. \E f : f = tcb'[d].foreignPort /\ Known(f)
      BY <1>1 DEF PortsKnown
    <3>2. tcb'[d].connectionSocket => tcb'[d].foreignPort \in Port
      BY <1>1 DEF PortsKnown
    <3> QED
      BY <1>3, <3>1, <3>2 DEF Known
  <2>2. ASSUME NEW h \in TCPHeader, InFlight(h)'
        PROVE  /\ h.sourcePort \in Port /\ Known(h.sourcePort)'
               /\ h.destinationPort \in Port /\ Known(h.destinationPort)'
    BY <1>3, <1>4, <1>5, <2>2 DEF PortsKnown
  <2> QED
    BY <2>1, <2>2 DEF PortsKnown
<1>7. SocketsReceive'
  <2>1. \A d \in Call : tcb[d].connectionSocket => tcb'[d].connectionSocket
    BY <1>1
  <2>2. \A d \in Call : udp'[d] # {} => udp[d] # {} \/ tcb[d].connectionSocket
    BY <1>2
  <2> QED
    BY <2>1, <2>2 DEF SocketsReceive
<1> QED
  BY <1>6, <1>7

-----------------------------------------------------------------------------
(***************************************************************************)
(* The actions.                                                            *)
(***************************************************************************)

\* The invariant holds initially.
LEMMA InitInvariant == Init => PortInv
<1> SUFFICES ASSUME Init PROVE PortInv
  OBVIOUS
<1> USE DEF Init
<1>1. \A c \in Call : newTCB(c.localPort, c.passive) \in TransmissionControlBlock
  BY Constants, NewType
<1>2. TypeOK
  BY <1>1, IdleTypes DEF TypeOK, ErrorMessage
<1>3. \A c \in Call : /\ tcb[c].passive = c.passive /\ ~tcb[c].connectionSocket
                      /\ tcb[c].localPort = c.localPort /\ tcb[c].foreignPort = NoPort
                      /\ tcb[c].state = "LISTEN" => c.passive
                      /\ opening[c] = "todo"
  BY DEF newTCB
<1>4. Blocks /\ PortsDiffer
  BY <1>3 DEF Blocks, PortsDiffer
<1>5. KeysOwned /\ BlocksFound
  BY <1>3, Constants DEF KeysOwned, BlocksFound, Moved
<1>6. PortsKnown
  BY <1>3, Constants, IdleTypes DEF PortsKnown, InFlight, Known
<1>7. SocketsReceive /\ AnswerOwned /\ OwnSynFiltered
  BY IdleTypes DEF SocketsReceive, AnswerOwned, OwnSynFiltered
<1> QED
  BY <1>2, <1>4, <1>5, <1>6, <1>7 DEF PortInv

\* processRawIPMessage, first lookup: what it reads and keeps.
LEMMA RawReceived ==
    ASSUME TypeOK, NEW p \in Process, NEW h \in raw[p], RawReceives(p, h)
    PROVE  /\ \A x \in Process : raw'[x] \subseteq raw[x]
           /\ \A x \in Process : x # p => listener'[x] = listener[x]
           /\ \/ listener[p].at = "receive" /\ listener'[p] = listener[p]
              \/ /\ tcbMap[p][h.sourcePort] = NoTCB
                 /\ listener'[p].at = "find" /\ listener'[p].segment = h
<1> USE DEF RawReceives, TypeOK
<1>1. \A x \in Process : raw'[x] \subseteq raw[x]
  BY LeftOver
<1>2. /\ \A x \in Process : x # p => listener'[x] = listener[x]
      /\ \/ listener[p].at = "receive" /\ listener'[p] = listener[p]
         \/ /\ tcbMap[p][h.sourcePort] = NoTCB
            /\ listener'[p].at = "find" /\ listener'[p].segment = h
  OBVIOUS
<1> QED
  BY <1>1, <1>2

\* No active connection of this process is
\* missed: the mutex is free, so its block is under the port the segment came from.
LEMMA RawReceivesInvariant ==
    ASSUME PortInv, NEW p \in Process, NEW h \in raw[p], RawReceives(p, h)
    PROVE  PortInv'
<1> USE DEF RawReceives
<1>0. h \in TCPHeader /\ InFlight(h)
  BY DEF PortInv, TypeOK, InFlight
<1>1. \A x \in Process : raw'[x] \subseteq raw[x]
  BY RawReceived DEF PortInv
<1>2. /\ \A x \in Process : x # p => listener'[x] = listener[x]
      /\ \/ listener'[p] = listener[p]
         \/ /\ tcbMap[p][h.sourcePort] = NoTCB
            /\ listener'[p].at = "find" /\ listener'[p].segment = h
  BY RawReceived DEF PortInv
<1>3. TypeOK'
  <2>1. raw' \in [Process -> SUBSET TCPHeader]
    BY LeftOver DEF PortInv, TypeOK
  <2>2. [listener[p] EXCEPT !.at = "find", !.segment = h] \in
            [at      : {"receive", "find", "reply", "answer"},
             segment : TCPHeader, block : Call \cup {NoTCB}]
    <3>1. listener[p] \in [at      : {"receive", "find", "reply", "answer"},
                           segment : TCPHeader, block : Call \cup {NoTCB}]
      BY DEF PortInv, TypeOK
    <3> QED
      BY <1>0, <3>1
  <2> QED
    BY <2>1, <2>2 DEF PortInv, TypeOK
<1>4. \A k \in TCPHeader : InFlight(k)' => InFlight(k)
  BY <1>1, <1>2 DEF InFlight
<1>5. SocketsReceive'
  BY DEF PortInv, SocketsReceive
<1>6. ASSUME tcbMap[p][h.sourcePort] = NoTCB,
             NEW c \in Call, tcb[c].connectionSocket, c.process = p, ~c.passive
      PROVE  tcb[c].localPort # h.sourcePort
  <2>1. opening[c] # "rekey"
    BY <1>6 DEF MutexFree
  <2>2. Moved(c)
    BY <1>6, <2>1 DEF Moved, PortInv, Blocks, TypeOK
  <2> QED
    BY <1>6, <2>2, Constants DEF PortInv, BlocksFound
<1> QED
  BY <1>2, <1>3, <1>4, <1>5, <1>6, SameBlocks

\* processRawIPMessage for a port that no block has: nothing, or the socket for the
\* reset, or the end of the process.
LEMMA ClosedInvariant ==
    ASSUME PortInv, NEW p \in Process,
           ClosedIgnores(p) \/ ClosedBinds(p) \/ ClosedTerminates(p)
    PROVE  PortInv'
<1>1. CASE ClosedTerminates(p)
  BY <1>1, EndsInvariant DEF ClosedTerminates
<1>2. CASE ClosedIgnores(p) \/ ClosedBinds(p)
  <2> USE <1>2 DEF ClosedIgnores, ClosedBinds, Finds
  <2>1. /\ \A x \in Process : x # p => listener'[x] = listener[x]
        /\ \/ listener'[p].at = "receive"
           \/ /\ listener[p].at = "find" /\ listener'[p].at = "reply"
              /\ listener'[p].segment = listener[p].segment
    BY IdleTypes DEF PortInv, TypeOK
  <2>2. TypeOK'
    <3>1. [listener[p] EXCEPT !.at = "reply"] \in
              [at      : {"receive", "find", "reply", "answer"},
               segment : TCPHeader, block : Call \cup {NoTCB}]
      <4>1. listener[p] \in [at      : {"receive", "find", "reply", "answer"},
                             segment : TCPHeader, block : Call \cup {NoTCB}]
        BY DEF PortInv, TypeOK
      <4> QED
        BY <4>1
    <3>2. CASE ClosedBinds(p)
      BY <3>1, <3>2 DEF PortInv, TypeOK
    <3>3. CASE ClosedIgnores(p)
      BY <3>3, IdleTypes DEF PortInv, TypeOK
    <3> QED
      BY <3>2, <3>3
  <2>3. \A k \in TCPHeader : InFlight(k)' => InFlight(k)
    BY <2>1 DEF InFlight
  <2>4. SocketsReceive'
    BY DEF PortInv, SocketsReceive
  <2> QED
    BY <2>1, <2>2, <2>3, <2>4, SameBlocks
<1> QED
  BY <1>1, <1>2

\* The reset for a closed port goes back to where the segment came from.
LEMMA ClosedRepliesInvariant ==
    ASSUME PortInv, NEW p \in Process, ClosedReplies(p)
    PROVE  PortInv'
<1> USE DEF ClosedReplies
<1> DEFINE h == listener[p].segment
           S == {closedReply(h)}
<1>0. h \in TCPHeader /\ InFlight(h)
  BY DEF PortInv, TypeOK, InFlight
<1>1. /\ closedReply(h) \in TCPHeader
      /\ closedReply(h).sourcePort = h.destinationPort
      /\ closedReply(h).destinationPort = h.sourcePort
  BY <1>0, ClosedReply
<1>2. /\ raw' \in [Process -> SUBSET TCPHeader]
      /\ udp' \in [Call -> SUBSET TCPHeader]
      /\ \A x \in Process : \A k \in raw'[x] : k \in raw[x] \/ k = closedReply(h)
      /\ \A c \in Call : \A k \in udp'[c] :
             k \in udp[c] \/ (k = closedReply(h) /\ tcb[c].connectionSocket)
  <2> HIDE DEF h
  <2>1. S \in SUBSET TCPHeader /\ Transmit(S)
    BY <1>1 DEF h
  <2> HIDE DEF S
  <2>2. /\ raw' \in [Process -> SUBSET TCPHeader]
        /\ udp' \in [Call -> SUBSET TCPHeader]
        /\ \A x \in Process : \A k \in raw'[x] : k \in raw[x] \/ k \in S
        /\ \A c \in Call : \A k \in udp'[c] :
               k \in udp[c] \/ (k \in S /\ tcb[c].connectionSocket)
    BY <2>1, Transmitted DEF PortInv
  <2> QED
    BY <2>2 DEF S
<1>3. \A x \in Process : listener'[x].at # "receive" => listener'[x] = listener[x]
  BY IdleTypes DEF PortInv, TypeOK
<1>4. TypeOK'
  BY <1>2, IdleTypes DEF PortInv, TypeOK
<1>5. \A k \in TCPHeader : InFlight(k)' => InFlight(k) \/ k = closedReply(h)
  BY <1>2, <1>3 DEF InFlight
<1>6. SocketsReceive'
  BY <1>2 DEF PortInv, SocketsReceive
<1>7. \A k \in TCPHeader : InFlight(k)' =>
          \E g \in TCPHeader : /\ InFlight(g)
                               /\ {k.sourcePort, k.destinationPort} =
                                     {g.sourcePort, g.destinationPort}
  BY <1>0, <1>1, <1>5
<1> QED
  BY <1>3, <1>4, <1>6, <1>7, SameBlocks

\* processUDPMessage up to the copy of the state.
LEMMA ReaderReceivesInvariant ==
    ASSUME PortInv, NEW c \in Call, NEW h \in udp[c], ReaderReceives(c, h)
    PROVE  PortInv'
<1> USE DEF ReaderReceives
<1>0. h \in TCPHeader
  BY DEF PortInv, TypeOK
<1>1. /\ udp' \in [Call -> SUBSET TCPHeader]
      /\ \A d \in Call : udp'[d] \subseteq udp[d]
  BY LeftOver DEF PortInv, TypeOK
<1>2. /\ \A d \in Call : d # c => reader'[d] = reader[d]
      /\ reader'[c].segment = h
  BY DEF PortInv, TypeOK
<1>3. TypeOK'
  BY <1>0, <1>1 DEF PortInv, TypeOK, TransmissionControlBlock
<1>4. \A k \in TCPHeader : InFlight(k)' => InFlight(k)
  BY <1>1, <1>2 DEF InFlight
<1>5. SocketsReceive'
  BY <1>1, <1>2 DEF PortInv, SocketsReceive
<1> QED
  BY <1>3, <1>4, <1>5, SameBlocks

\* The network loses a segment.
LEMMA LosesInvariant ==
    ASSUME PortInv, Loses
    PROVE  PortInv'
<1> USE DEF Loses
<1>1. raw \in [Process -> SUBSET TCPHeader] /\ udp \in [Call -> SUBSET TCPHeader]
  BY DEF PortInv, TypeOK
<1>2. /\ raw' \in [Process -> SUBSET TCPHeader]
      /\ udp' \in [Call -> SUBSET TCPHeader]
  <2>1. CASE udp' = udp /\ \E p \in Process : \E h : raw' = [raw EXCEPT ![p] = @ \ {h}]
    BY <1>1, <2>1
  <2>2. CASE raw' = raw /\ \E c \in Call : \E h : udp' = [udp EXCEPT ![c] = @ \ {h}]
    BY <1>1, <2>2
  <2> QED
    BY <2>1, <2>2
<1>3. /\ \A p \in Process : raw'[p] \subseteq raw[p]
      /\ \A c \in Call : udp'[c] \subseteq udp[c]
  <2>1. CASE udp' = udp /\ \E p \in Process : \E h : raw' = [raw EXCEPT ![p] = @ \ {h}]
    BY <1>1, <2>1
  <2>2. CASE raw' = raw /\ \E c \in Call : \E h : udp' = [udp EXCEPT ![c] = @ \ {h}]
    BY <1>1, <2>2
  <2> QED
    BY <2>1, <2>2
<1>4. TypeOK'
  BY <1>2 DEF PortInv, TypeOK
<1>5. \A h \in TCPHeader : InFlight(h)' => InFlight(h)
  BY <1>3 DEF InFlight
<1>6. SocketsReceive'
  BY <1>3 DEF PortInv, SocketsReceive
<1> QED
  BY <1>4, <1>5, <1>6, SameBlocks

\* open() for a port that is in tcbMap.
LEMMA OpenExistingInvariant ==
    ASSUME PortInv, NEW c \in Call, OpenExisting(c)
    PROVE  PortInv'
<1> USE DEF OpenExisting, OpenBegins, PortInv
<1>1. /\ opening'[c] = "done" /\ opening[c] = "todo"
      /\ \A d \in Call : d # c => opening'[d] = opening[d]
  BY DEF TypeOK
<1>2. TypeOK'
  BY DEF TypeOK
<1>3. \A d \in Call : Moved(d)' <=> Moved(d)
  BY <1>1 DEF Moved, Blocks
<1>4. Blocks' /\ PortsDiffer'
  BY <1>1 DEF Blocks, PortsDiffer
<1>5. KeysOwned' /\ BlocksFound'
  BY <1>1, <1>3 DEF KeysOwned, BlocksFound
<1>6. PortsKnown' /\ SocketsReceive' /\ AnswerOwned'
  <2>1. \A q : Known(q) => Known(q)'
    BY DEF Known
  <2>2. \A h : InFlight(h)' => InFlight(h)
    BY DEF InFlight
  <2> QED
    BY <2>1, <2>2 DEF PortsKnown, SocketsReceive, AnswerOwned
<1>7. OwnSynFiltered'
  BY DEF OwnSynFiltered, Sockets
<1> QED
  BY <1>2, <1>4, <1>5, <1>6, <1>7

\* open() creates a block and emplaces it.
LEMMA OpenInsertsInvariant ==
    ASSUME PortInv, NEW c \in Call, OpenInserts(c)
    PROVE  PortInv'
<1> USE DEF OpenInserts, OpenBegins, PortInv
<1>1. /\ opening'[c] = IF c.passive THEN "done" ELSE "syn"
      /\ opening[c] = "todo"
      /\ \A d \in Call : d # c => opening'[d] = opening[d]
  BY DEF TypeOK
<1>2. /\ tcbMap' \in [Process -> [Port -> Call \cup {NoTCB}]]
      /\ tcbMap'[c.process][c.localPort] = c
      /\ \A p \in Process, q \in Port :
             p # c.process \/ q # c.localPort => tcbMap'[p][q] = tcbMap[p][q]
  BY Constants DEF TypeOK
<1>3. TypeOK'
  BY <1>2 DEF TypeOK
<1>4. \A d \in Call : Moved(d)' <=> Moved(d)
  BY <1>1 DEF Moved, Blocks
<1>5. Blocks' /\ PortsDiffer'
  BY <1>1 DEF Blocks, PortsDiffer
<1>6. KeysOwned'
  BY <1>2, <1>4, Constants DEF KeysOwned
<1>7. BlocksFound'
  <2>1. ASSUME NEW d \in Call, NEW q \in Port, tcbMap[d.process][q] = d
        PROVE  tcbMap'[d.process][q] = d
    BY <1>2, <2>1, Constants
  <2>2. ASSUME NEW d \in Call, Moved(d), tcbMap[d.process][d.localPort] # d
        PROVE  tcbMap'[d.process][d.localPort] # d
    <3>1. d # c
      BY <1>1, <2>2 DEF Moved
    <3> QED
      BY <1>2, <2>2, <3>1, Constants
  <2>3. \A d \in Call : tcb[d].localPort \in Port
    BY OwnPort
  <2>4. ASSUME NEW d \in Call,
               opening'[d] \in {"syn", "rekey"} \/ (d.passive /\ tcb[d].connectionSocket)
        PROVE  tcbMap'[d.process][d.localPort] = d
    <3>1. CASE d = c
      BY <1>2, <3>1
    <3>2. CASE d # c
      BY <1>1, <2>1, <2>4, <3>2, Constants DEF BlocksFound
    <3> QED
      BY <3>1, <3>2
  <2> QED
    BY <1>4, <2>1, <2>2, <2>3, <2>4 DEF BlocksFound
<1>8. PortsKnown' /\ SocketsReceive' /\ AnswerOwned'
  <2>1. \A q : Known(q) => Known(q)'
    BY DEF Known
  <2>2. \A h : InFlight(h)' => InFlight(h)
    BY DEF InFlight
  <2> QED
    BY <2>1, <2>2 DEF PortsKnown, SocketsReceive, AnswerOwned
<1>9. OwnSynFiltered'
  BY DEF OwnSynFiltered, Sockets
<1> QED
  BY <1>3, <1>5, <1>6, <1>7, <1>8, <1>9

\* sendSYNMessage up to the send: the new port is in no block and no segment.
LEMMA SendsSYNInvariant ==
    ASSUME PortInv, NEW c \in Call, NEW q \in EphemeralPort, NEW i \in ISS,
           SendsSYN(c, q, i)
    PROVE  PortInv'
<1> USE DEF PortInv
<1> DEFINE e == sendSYN(tcb[c], q, c.foreignPort, i)
<1>1. /\ opening[c] = "syn" /\ Unused(q) /\ Apply(c, e, i)
      /\ UNCHANGED <<status, tcbMap, listener, reader>>
      /\ opening' = [opening EXCEPT ![c] = "rekey"]
  BY DEF SendsSYN
<1>2. ~c.passive /\ ~tcb[c].connectionSocket /\ tcb[c] \in TransmissionControlBlock
  BY <1>1 DEF Blocks, TypeOK
<1>3. /\ e \in Effect /\ FromTo(e)
      /\ e.tcb.connectionSocket /\ e.tcb.localPort = q
      /\ e.tcb.foreignPort = c.foreignPort /\ c.foreignPort \in UserPort
      /\ e.tcb.passive = tcb[c].passive /\ e.tcb.state = "SYN_SENT"
  BY <1>2, Constants, SendSYNType, SYNSent
<1> HIDE DEF e
<1>4. /\ tcb'[c] = e.tcb
      /\ \A d \in Call : d # c => tcb'[d] = tcb[d]
      /\ opening'[c] = "rekey"
      /\ \A d \in Call : d # c => opening'[d] = opening[d]
  BY <1>1, <1>3, Applied DEF TypeOK
<1>5. TypeOK'
  <2>1. /\ tcb' \in [Call -> TransmissionControlBlock]
        /\ errorMessage' \in [Process -> ErrorMessage]
        /\ drawn' \in SUBSET ISS
        /\ raw' \in [Process -> SUBSET TCPHeader]
        /\ udp' \in [Call -> SUBSET TCPHeader]
    BY <1>1, <1>3, Applied, Transmitted
  <2> QED
    BY <1>1, <2>1 DEF TypeOK
<1>6. \A d \in Call : Moved(d)' <=> Moved(d)
  BY <1>1, <1>4 DEF Moved
<1>7. Blocks'
  BY <1>2, <1>3, <1>4 DEF Blocks
<1>8. PortsDiffer'
  BY <1>1, <1>3, <1>4 DEF PortsDiffer, Unused
<1>9. KeysOwned' /\ BlocksFound'
  BY <1>1, <1>4, <1>6 DEF KeysOwned, BlocksFound, Moved
<1>10. PortsKnown' /\ SocketsReceive'
  <2>1. Known(e.tcb.foreignPort) /\ e.tcb.foreignPort \in Port
    BY <1>3, Constants DEF Known
  <2> QED
    BY <1>1, <1>2, <1>3, <2>1, AppliedPorts
<1>11. AnswerOwned'
  BY <1>1 DEF AnswerOwned
<1>12. OwnSynFiltered'
  <2>1. ASSUME NEW p \in Process, listener[p].at # "receive"
        PROVE  q # listener[p].segment.sourcePort
    <3>1. listener[p].segment \in TCPHeader /\ InFlight(listener[p].segment)
      BY <2>1 DEF TypeOK, InFlight
    <3>2. Known(listener[p].segment.sourcePort)
      BY <3>1 DEF PortsKnown
    <3> QED
      BY <1>1, <3>2 DEF Known, Unused
  <2> QED
    BY <1>1, <1>3, <1>4, <2>1 DEF OwnSynFiltered, Sockets
<1> QED
  BY <1>5, <1>7, <1>8, <1>9, <1>10, <1>11, <1>12

\* The rest of sendSYNMessage: the new key is free, for no other block has its port
\* and no user asks for one.
LEMMA RekeysInvariant ==
    ASSUME PortInv, NEW c \in Call, Rekeys(c)
    PROVE  PortInv'
<1> USE DEF PortInv
<1> DEFINE p == c.process
           q == tcb[c].localPort
<1>1. /\ opening[c] = "rekey" /\ ~c.passive /\ tcb[c].connectionSocket
      /\ p \in Process /\ q \in EphemeralPort /\ q \in Port
      /\ c.localPort \in UserPort /\ c.localPort \in Port /\ q # c.localPort
      /\ tcbMap[p][c.localPort] = c
  BY Constants DEF Rekeys, Blocks, BlocksFound
<1>2. tcbMap[p][q] = NoTCB
  <2>1. ASSUME NEW d \in Call, tcbMap[p][q] = d PROVE FALSE
    <3>1. q = d.localPort \/ (Moved(d) /\ q = tcb[d].localPort)
      BY <1>1, <2>1 DEF KeysOwned
    <3>2. q # d.localPort
      BY <1>1, Constants
    <3>3. d = c
      BY <1>1, <3>1, <3>2 DEF PortsDiffer, Moved
    <3> QED
      BY <1>1, <3>1, <3>2, <3>3 DEF Moved
  <2>2. tcbMap[p][q] \in Call \cup {NoTCB}
    BY <1>1 DEF TypeOK
  <2> QED
    BY <2>1, <2>2
<1>3. /\ tcbMap' \in [Process -> [Port -> Call \cup {NoTCB}]]
      /\ tcbMap'[p][q] = c /\ tcbMap'[p][c.localPort] = NoTCB
      /\ \A x \in Process, y \in Port :
             x # p \/ y \notin {q, c.localPort} => tcbMap'[x][y] = tcbMap[x][y]
  <2> DEFINE erased == [tcbMap[p] EXCEPT ![c.localPort] = NoTCB]
  <2>1. erased[q] = NoTCB /\ erased \in [Port -> Call \cup {NoTCB}]
    BY <1>1, <1>2 DEF TypeOK
  <2>2. tcbMap' = [tcbMap EXCEPT ![p] = [erased EXCEPT ![q] = c]]
    BY <1>1, <2>1 DEF Rekeys, TypeOK
  <2> QED
    BY <1>1, <2>1, <2>2 DEF TypeOK
<1>4. /\ tcb' = [tcb EXCEPT ![c].threadLaunched = TRUE]
      /\ opening'[c] = "done"
      /\ \A d \in Call : d # c => opening'[d] = opening[d]
      /\ UNCHANGED <<status, errorMessage, listener, reader, raw, udp, drawn>>
      /\ opening' \in [Call -> {"todo", "syn", "rekey", "done"}]
  BY DEF Rekeys, TypeOK
<1>5. /\ tcb' \in [Call -> TransmissionControlBlock]
      /\ \A d \in Call : /\ tcb'[d].passive = tcb[d].passive
                         /\ tcb'[d].state = tcb[d].state
                         /\ tcb'[d].connectionSocket = tcb[d].connectionSocket
                         /\ tcb'[d].localPort = tcb[d].localPort
                         /\ tcb'[d].foreignPort = tcb[d].foreignPort
  <2>1. tcb \in [Call -> TransmissionControlBlock]
    BY DEF TypeOK
  <2>2. \A d \in Call : d # c => tcb'[d] = tcb[d]
    BY <1>4, <2>1
  <2>3. tcb'[c] = [tcb[c] EXCEPT !.threadLaunched = TRUE]
    BY <1>4, <2>1
  <2>4. tcb'[c] \in TransmissionControlBlock
    BY <2>1, <2>3 DEF TransmissionControlBlock
  <2>5. tcb' \in [Call -> TransmissionControlBlock]
    BY <1>4, <2>1, <2>2, <2>4
  <2> QED
    BY <2>1, <2>2, <2>3, <2>5 DEF TransmissionControlBlock
<1>6. TypeOK'
  BY <1>3, <1>4, <1>5 DEF TypeOK
<1>7. Moved(c)' /\ \A d \in Call : d # c => (Moved(d)' <=> Moved(d))
  BY <1>1, <1>4, <1>5 DEF Moved
<1>8. Blocks' /\ PortsDiffer'
  BY <1>1, <1>4, <1>5 DEF Blocks, PortsDiffer
<1>9. KeysOwned'
  <2>1. ASSUME NEW x \in Process, NEW y \in Port, NEW d \in Call, tcbMap'[x][y] = d
        PROVE  d.process = x /\ (y = d.localPort \/ (Moved(d)' /\ y = tcb'[d].localPort))
    <3>1. CASE x = p /\ y = q
      BY <1>1, <1>3, <1>5, <1>7, <2>1, <3>1
    <3>2. CASE x = p /\ y = c.localPort
      BY <1>3, <2>1, <3>2, Constants
    <3>3. CASE x # p \/ y \notin {q, c.localPort}
      BY <1>1, <1>3, <1>5, <1>7, <2>1, <3>3 DEF KeysOwned
    <3> QED
      BY <3>1, <3>2, <3>3
  <2> QED
    BY <2>1 DEF KeysOwned
<1>10. BlocksFound'
  <2>1. ASSUME NEW d \in Call, d # c, NEW y \in Port, tcbMap[d.process][y] = d
        PROVE  tcbMap'[d.process][y] = d
    BY <1>1, <1>2, <1>3, <2>1, Constants
  <2>2. ASSUME NEW d \in Call, d # c, tcbMap[d.process][d.localPort] # d
        PROVE  tcbMap'[d.process][d.localPort] # d
    BY <1>1, <1>3, <2>2, Constants
  <2>3. \A d \in Call : tcb[d].localPort \in Port /\ d.localPort \in Port
    BY OwnPort, Constants
  <2>4. ASSUME NEW d \in Call, d # c
        PROVE  /\ \/ opening'[d] \in {"syn", "rekey"}
                  \/ d.passive /\ tcb'[d].connectionSocket
                  => tcbMap'[d.process][d.localPort] = d
               /\ Moved(d)' => /\ tcbMap'[d.process][tcb'[d].localPort] = d
                               /\ tcbMap'[d.process][d.localPort] # d
    BY <1>4, <1>5, <1>7, <2>1, <2>2, <2>3, <2>4 DEF BlocksFound
  <2> QED
    BY <1>1, <1>3, <1>4, <1>5, <2>4, Constants DEF BlocksFound
<1>11. PortsKnown' /\ SocketsReceive' /\ AnswerOwned'
  <2>1. \A x : Known(x) <=> Known(x)'
    BY <1>5 DEF Known
  <2>2. \A h : InFlight(h)' => InFlight(h)
    BY <1>4 DEF InFlight
  <2>3. \A d \in Call : Known(tcb[d].foreignPort)'
    <3> TAKE d \in Call
    <3>1. Known(tcb[d].foreignPort) /\ tcb'[d].foreignPort = tcb[d].foreignPort
      BY <1>5 DEF PortsKnown
    <3> QED
      BY <1>5, <3>1 DEF Known
  <2> QED
    BY <1>4, <1>5, <2>1, <2>2, <2>3 DEF PortsKnown, SocketsReceive, AnswerOwned
<1>12. OwnSynFiltered'
  BY <1>4, <1>5 DEF OwnSynFiltered, Sockets
<1> QED
  BY <1>6, <1>8, <1>9, <1>10, <1>11, <1>12

\* A listening thread that hands a segment to a block handles it for a passive call
\* of its own process, and the segment is one that was sent.
LEMMA Found ==
    ASSUME PortInv, NEW p \in Process, NEW c \in Call, Finds(p, c), tcb[c].state = "LISTEN"
    PROVE  /\ c.process = p /\ c.passive
           /\ tcbMap[p][c.localPort] = c
           /\ listener[p].segment \in TCPHeader /\ InFlight(listener[p].segment)
           /\ listener[p].segment.destinationPort = c.localPort
<1> USE DEF PortInv
<1> DEFINE h == listener[p].segment
<1>1. h \in TCPHeader /\ InFlight(h) /\ tcbMap[p][h.destinationPort] = c
  BY DEF Finds, TypeOK, InFlight
<1>2. h.destinationPort \in Port
  BY <1>1 DEF PortsKnown
<1>3. c.passive
  BY DEF Blocks
<1>4. c.process = p /\ h.destinationPort = c.localPort
  BY <1>1, <1>2, <1>3 DEF KeysOwned, Moved
<1> QED
  BY <1>1, <1>3, <1>4

\* processListeningSocketMessage: a passive block gets its socket, and may answer.
LEMMA ListenerHandlesInvariant ==
    ASSUME PortInv, NEW p \in Process, NEW c \in Call,
           NEW q \in EphemeralPort, NEW i \in ISS, ListenerHandles(p, c, q, i)
    PROVE  PortInv'
<1> USE DEF PortInv
<1> DEFINE h == listener[p].segment
           t == tcb[c]
           e == processListeningSocketMessage(t, h, q, i)
<1>1. /\ Finds(p, c) /\ t.state = "LISTEN"
      /\ Unused(q) \/ t.connectionSocket
      /\ Apply(c, e, i)
      /\ listener' = [listener EXCEPT ![p] =
             IF AnswersSYN(h) THEN [@ EXCEPT !.at = "answer", !.block = c]
                              ELSE ListenerIdle]
      /\ UNCHANGED <<status, opening, tcbMap, reader>>
  BY DEF ListenerHandles
<1>2. /\ c.process = p /\ c.passive /\ tcbMap[p][c.localPort] = c
      /\ h \in TCPHeader /\ InFlight(h) /\ t \in TransmissionControlBlock
      /\ listener[p].at = "find"
  BY <1>1, Found DEF TypeOK, Finds
<1>3. /\ e \in Effect /\ FromTo(e)
      /\ e.tcb.state = t.state /\ e.tcb.passive = t.passive
      /\ t.connectionSocket => e.tcb.connectionSocket
      /\ e.tcb.localPort = IF e.tcb.connectionSocket /\ ~t.connectionSocket
                           THEN q ELSE t.localPort
      /\ e.tcb.foreignPort \in {t.foreignPort, h.sourcePort}
      /\ ~e.tcb.connectionSocket => e.out = {}
      /\ e.tcb.connectionSocket /\ ~t.connectionSocket => e.tcb.foreignPort = h.sourcePort
  BY <1>2, Constants, ListenEffect, ListenPorts
<1> HIDE DEF e
<1>4. /\ tcb'[c] = e.tcb
      /\ \A d \in Call : d # c => tcb'[d] = tcb[d]
  BY <1>1, <1>3, Applied
<1>5. /\ \/ listener'[p] = ListenerIdle
         \/ /\ listener'[p].at = "answer" /\ listener'[p].block = c
            /\ listener'[p].segment = listener[p].segment
      /\ \A x \in Process : x # p => listener'[x] = listener[x]
      /\ listener'[p] \in [at      : {"receive", "find", "reply", "answer"},
                           segment : TCPHeader, block : Call \cup {NoTCB}]
  <2>1. listener[p] \in [at      : {"receive", "find", "reply", "answer"},
                         segment : TCPHeader, block : Call \cup {NoTCB}]
    BY DEF TypeOK
  <2> DEFINE l == [listener[p] EXCEPT !.at = "answer", !.block = c]
  <2>2. /\ l.at = "answer" /\ l.block = c /\ l.segment = listener[p].segment
        /\ l \in [at      : {"receive", "find", "reply", "answer"},
                  segment : TCPHeader, block : Call \cup {NoTCB}]
    BY <2>1
  <2>3. listener'[p] = IF AnswersSYN(h) THEN l ELSE ListenerIdle
    BY <1>1 DEF TypeOK
  <2>4. \A x \in Process : x # p => listener'[x] = listener[x]
    BY <1>1 DEF TypeOK
  <2> HIDE DEF l, h
  <2> QED
    BY <2>2, <2>3, <2>4, IdleTypes
<1>6. TypeOK'
  <2>1. /\ tcb' \in [Call -> TransmissionControlBlock]
        /\ errorMessage' \in [Process -> ErrorMessage]
        /\ drawn' \in SUBSET ISS
        /\ raw' \in [Process -> SUBSET TCPHeader]
        /\ udp' \in [Call -> SUBSET TCPHeader]
    BY <1>1, <1>3, Applied, Transmitted
  <2>2. listener' \in [Process -> [at      : {"receive", "find", "reply", "answer"},
                                   segment : TCPHeader, block : Call \cup {NoTCB}]]
    BY <1>1, <1>5 DEF TypeOK
  <2> QED
    BY <1>1, <2>1, <2>2 DEF TypeOK
<1>7. \A d \in Call : Moved(d)' <=> Moved(d)
  BY <1>1, <1>2, <1>4 DEF Moved
<1>8. Blocks'
  BY <1>1, <1>2, <1>3, <1>4 DEF Blocks
<1>9. PortsDiffer'
  BY <1>1, <1>3, <1>4 DEF PortsDiffer, Unused
<1>10. KeysOwned' /\ BlocksFound'
  BY <1>1, <1>2, <1>4, <1>7 DEF KeysOwned, BlocksFound, Moved
<1>11. PortsKnown' /\ SocketsReceive'
  <2>1. /\ Known(e.tcb.foreignPort)
        /\ e.tcb.connectionSocket => e.tcb.foreignPort \in Port
    BY <1>2, <1>3 DEF PortsKnown
  <2>2. e.tcb.connectionSocket => e.tcb.localPort \in EphemeralPort
    BY <1>3 DEF Blocks
  <2>3. \A x \in Process : listener'[x].at # "receive" =>
            listener[x].at # "receive" /\ listener'[x].segment = listener[x].segment
    BY <1>2, <1>5, IdleTypes
  <2>4. \A d \in Call : reader'[d] = reader[d]
    BY <1>1
  <2>5. t.connectionSocket => e.tcb.localPort = t.localPort
    BY <1>3
  <2> QED
    BY <1>1, <1>3, <2>1, <2>2, <2>3, <2>4, <2>5, AppliedPorts
<1>12. AnswerOwned'
  BY <1>2, <1>5, IdleTypes DEF AnswerOwned
<1>13. OwnSynFiltered'
  <2>1. \A d \in Call : ~d.passive => tcb'[d] = tcb[d]
    BY <1>2, <1>4
  <2>2. \A x \in Process : listener'[x].at # "receive" =>
            listener[x].at # "receive" /\ listener'[x].segment = listener[x].segment
    BY <1>2, <1>5, IdleTypes
  <2> QED
    BY <2>1, <2>2 DEF OwnSynFiltered, Sockets
<1> QED
  BY <1>6, <1>8, <1>9, <1>10, <1>11, <1>12, <1>13

\* The rest of sendSYNACK and launchTCBThread.
LEMMA ListenerAnsweredInvariant ==
    ASSUME PortInv, NEW p \in Process, ListenerAnswered(p)
    PROVE  PortInv'
<1> USE DEF PortInv
<1> DEFINE c == listener[p].block
           u == [synAckDone(tcb[c]) EXCEPT !.threadLaunched = TRUE]
<1>1. /\ c \in Call /\ c.process = p /\ c.passive
      /\ tcb[c] \in TransmissionControlBlock
      /\ tcb' = [tcb EXCEPT ![c] = u]
      /\ listener' = [listener EXCEPT ![p] = ListenerIdle]
      /\ UNCHANGED <<status, opening, tcbMap, errorMessage, reader, raw, udp, drawn>>
  BY DEF ListenerAnswered, AnswerOwned, TypeOK
<1>2. /\ u \in TransmissionControlBlock /\ u.state = "SYN_RECEIVED"
      /\ u.passive = tcb[c].passive
      /\ u.localPort = tcb[c].localPort /\ u.foreignPort = tcb[c].foreignPort
      /\ u.connectionSocket = tcb[c].connectionSocket
  <2>1. PICK v : v = synAckDone(tcb[c])
    OBVIOUS
  <2>2. /\ v \in TransmissionControlBlock /\ v.state = "SYN_RECEIVED"
        /\ v.passive = tcb[c].passive
        /\ v.localPort = tcb[c].localPort /\ v.foreignPort = tcb[c].foreignPort
        /\ v.connectionSocket = tcb[c].connectionSocket
    BY <1>1, <2>1, SynAckDoneType, SYNACKDone
  <2>3. u = [v EXCEPT !.threadLaunched = TRUE]
    BY <2>1
  <2> HIDE DEF u, c
  <2> QED
    BY <2>2, <2>3 DEF TransmissionControlBlock
<1> HIDE DEF u
<1>3. /\ tcb'[c] = u /\ \A d \in Call : d # c => tcb'[d] = tcb[d]
      /\ tcb' \in [Call -> TransmissionControlBlock]
  BY <1>1, <1>2 DEF TypeOK
<1> HIDE DEF c
<1>4. \A d \in Call : /\ tcb'[d].passive = tcb[d].passive
                      /\ tcb'[d].state = "LISTEN" => tcb[d].state = "LISTEN"
                      /\ tcb'[d].connectionSocket = tcb[d].connectionSocket
                      /\ tcb'[d].localPort = tcb[d].localPort
                      /\ tcb'[d].foreignPort = tcb[d].foreignPort
  BY <1>1, <1>2, <1>3
<1>5. /\ \A x \in Process : listener'[x].at # "receive" => listener'[x] = listener[x]
      /\ listener' \in [Process -> [at      : {"receive", "find", "reply", "answer"},
                                    segment : TCPHeader, block : Call \cup {NoTCB}]]
  BY <1>1, IdleTypes DEF TypeOK
<1>6. TypeOK'
  BY <1>1, <1>3, <1>5 DEF TypeOK
<1>7. \A d \in Call : Moved(d)' <=> Moved(d)
  BY <1>1, <1>4 DEF Moved
<1>8. Blocks' /\ PortsDiffer'
  BY <1>1, <1>4 DEF Blocks, PortsDiffer
<1>9. KeysOwned' /\ BlocksFound'
  BY <1>1, <1>4, <1>7 DEF KeysOwned, BlocksFound
<1>10. PortsKnown' /\ SocketsReceive' /\ AnswerOwned'
  <2>1. \A x : Known(x) <=> Known(x)'
    BY <1>4 DEF Known
  <2>2. \A h : InFlight(h)' => InFlight(h)
    BY <1>1, <1>5 DEF InFlight
  <2>3. \A d \in Call : Known(tcb[d].foreignPort)'
    <3> TAKE d \in Call
    <3>1. Known(tcb[d].foreignPort) /\ tcb'[d].foreignPort = tcb[d].foreignPort
      BY <1>4 DEF PortsKnown
    <3> QED
      BY <1>4, <3>1 DEF Known
  <2> QED
    BY <1>1, <1>4, <1>5, <2>1, <2>2, <2>3 DEF PortsKnown, SocketsReceive, AnswerOwned
<1>11. OwnSynFiltered'
  BY <1>4, <1>5 DEF OwnSynFiltered, Sockets
<1> QED
  BY <1>6, <1>8, <1>9, <1>10, <1>11

\* The rest of processUDPMessage.
LEMMA ReaderHandlesInvariant ==
    ASSUME PortInv, NEW c \in Call, NEW i \in ISS, ReaderHandles(c, i)
    PROVE  PortInv'
<1> USE DEF PortInv
<1> DEFINE h == reader[c].segment
           s == reader[c].state
           t == tcb[c]
           e == processUDPMessage(t, s, h, i)
<1>1. /\ reader[c].at = "handle" /\ Apply(c, e, i)
      /\ reader' = [reader EXCEPT ![c] = ReaderIdle]
      /\ UNCHANGED <<status, opening, tcbMap, listener>>
  BY DEF ReaderHandles
<1>2. /\ t \in TransmissionControlBlock /\ h \in TCPHeader /\ s \in State
      /\ InFlight(h) /\ t.connectionSocket
  BY <1>1 DEF TypeOK, InFlight, SocketsReceive
<1>3. /\ e \in Effect /\ FromTo(e)
      /\ e.tcb.passive = t.passive
      /\ e.tcb.connectionSocket /\ e.tcb.localPort = t.localPort
      /\ e.tcb.foreignPort \in {t.foreignPort, h.sourcePort}
      /\ e.tcb.state = "LISTEN" => t.passive \/ t.state = "LISTEN"
  BY <1>2, Constants, ReaderEffect, ReaderPorts DEF FollowsSynReceived
<1> HIDE DEF e
<1>4. /\ tcb'[c] = e.tcb
      /\ \A d \in Call : d # c => tcb'[d] = tcb[d]
  BY <1>1, <1>3, Applied
<1>5. /\ \A d \in Call : reader'[d].at = "handle" => reader'[d] = reader[d]
      /\ reader' \in [Call -> [at : {"receive", "handle"}, segment : TCPHeader,
                               state : State]]
  BY <1>1, IdleTypes DEF TypeOK
<1>6. TypeOK'
  <2>1. /\ tcb' \in [Call -> TransmissionControlBlock]
        /\ errorMessage' \in [Process -> ErrorMessage]
        /\ drawn' \in SUBSET ISS
        /\ raw' \in [Process -> SUBSET TCPHeader]
        /\ udp' \in [Call -> SUBSET TCPHeader]
    BY <1>1, <1>3, Applied, Transmitted
  <2> QED
    BY <1>1, <1>5, <2>1 DEF TypeOK
<1>7. \A d \in Call : Moved(d)' <=> Moved(d)
  BY <1>1, <1>2, <1>3, <1>4 DEF Moved
<1>8. Blocks' /\ PortsDiffer'
  BY <1>1, <1>2, <1>3, <1>4 DEF Blocks, PortsDiffer
<1>9. KeysOwned' /\ BlocksFound'
  BY <1>1, <1>2, <1>3, <1>4, <1>7 DEF KeysOwned, BlocksFound
<1>10. PortsKnown' /\ SocketsReceive'
  <2>1. Known(e.tcb.foreignPort) /\ e.tcb.foreignPort \in Port
    BY <1>2, <1>3 DEF PortsKnown
  <2>2. e.tcb.localPort \in EphemeralPort
    BY <1>2, <1>3 DEF Blocks
  <2> QED
    BY <1>1, <1>3, <1>5, <2>1, <2>2, AppliedPorts
<1>11. AnswerOwned'
  BY <1>1 DEF AnswerOwned
<1>12. OwnSynFiltered'
  BY <1>1, <1>2, <1>3, <1>4 DEF OwnSynFiltered, Sockets
<1> QED
  BY <1>6, <1>8, <1>9, <1>10, <1>11, <1>12

-----------------------------------------------------------------------------
(***************************************************************************)
(* The theorems.                                                           *)
(***************************************************************************)

\* Every step of every thread, and of the network, keeps the invariant.
LEMMA StepInvariant == PortInv /\ [Next]_vars => PortInv'
<1> SUFFICES ASSUME PortInv, [Next]_vars PROVE PortInv'
  OBVIOUS
<1>1. ASSUME NEW c \in Call,
             OpenExisting(c) \/ OpenInserts(c) \/ OpenContinues(c)
      PROVE  PortInv'
  BY <1>1, OpenExistingInvariant, OpenInsertsInvariant, SendsSYNInvariant,
     RekeysInvariant DEF OpenContinues
<1>2. ASSUME NEW c \in Call, ReaderReads(c) \/ ReaderWorks(c)
      PROVE  PortInv'
  BY <1>2, ReaderReceivesInvariant, ReaderHandlesInvariant DEF ReaderReads, ReaderWorks
<1>3. ASSUME NEW p \in Process, ListenerReads(p) \/ Exits(p)
      PROVE  PortInv'
  BY <1>3, RawReceivesInvariant, EndsInvariant DEF ListenerReads, Exits
<1>4. ASSUME NEW p \in Process, ListenerWorks(p)
      PROVE  PortInv'
  <2>1. CASE \/ ClosedIgnores(p) \/ ClosedBinds(p) \/ ClosedTerminates(p)
             \/ ClosedReplies(p) \/ ListenerAnswered(p)
    BY <2>1, ClosedInvariant, ClosedRepliesInvariant, ListenerAnsweredInvariant
  <2>2. ASSUME NEW c \in Call, ListenerAborts(p, c)
        PROVE  PortInv'
    BY <2>2, EndsInvariant DEF ListenerAborts
  <2>3. ASSUME NEW c \in Call, NEW q \in EphemeralPort, NEW i \in ISS,
               ListenerHandles(p, c, q, i)
        PROVE  PortInv'
    BY <2>3, ListenerHandlesInvariant
  <2> QED
    BY <1>4, <2>1, <2>2, <2>3 DEF ListenerWorks
<1>5. CASE UNCHANGED vars
  <2>1. \A h : InFlight(h)' <=> InFlight(h)
    BY <1>5 DEF vars, InFlight
  <2>2. TypeOK' /\ SocketsReceive'
    BY <1>5 DEF vars, PortInv, TypeOK, SocketsReceive
  <2> QED
    BY <1>5, <2>1, <2>2, SameBlocks DEF vars
<1> QED
  BY <1>1, <1>2, <1>3, <1>4, <1>5, LosesInvariant DEF Next

\* The invariant holds always.
THEOREM PortInvariance == Spec => []PortInv
BY InitInvariant, StepInvariant, PTL DEF Spec

\* The variables always have their types: no key, block, socket or thread ever
\* holds anything else, in any number of processes.
THEOREM TypeCorrect == Spec => []TypeOK
<1>1. PortInv => TypeOK
  BY DEF PortInv
<1> QED
  BY <1>1, PortInvariance, PTL

\* The filter of processRawIPMessage misses no segment of an active connection of its
\* process, although the block is put under a first key, and looked up, before it has
\* the port that its SYN is sent from.  Of a passive connection, which stays under its
\* listening port, this does not hold (run own_calls).
THEOREM CallsFiltered == Spec => []OwnSynFiltered
<1>1. PortInv => OwnSynFiltered
  BY DEF PortInv
<1> QED
  BY <1>1, PortInvariance, PTL

\* tcbMap finds every block, and under one key only: open() and sendSYNMessage
\* never lose a block and never leave one under two keys.
THEOREM MapCorrect == Spec => []MapFollowsPort
<1>1. PortInv => MapFollowsPort
  <2> SUFFICES ASSUME PortInv, NEW c \in Call
               PROVE  /\ opening[c] \in {"syn", "rekey"} => Keys(c) = {c.localPort}
                      /\ opening[c] = "done" /\ ~c.passive /\ tcb[c].connectionSocket =>
                             Keys(c) = {tcb[c].localPort}
                      /\ c.passive => Keys(c) \subseteq {c.localPort}
                      /\ c.passive /\ tcb[c].connectionSocket => Keys(c) # {}
    BY DEF MapFollowsPort
  <2> USE DEF PortInv
  <2>1. /\ c.process \in Process /\ c.localPort \in Port /\ tcb[c].localPort \in Port
        /\ \A q \in Keys(c) : q = c.localPort \/ (Moved(c) /\ q = tcb[c].localPort)
    BY OwnPort, Constants DEF KeysOwned, Keys
  <2>2. CASE opening[c] \in {"syn", "rekey"}
    <3>1. ~Moved(c) /\ c.localPort \in Keys(c)
      BY <2>1, <2>2 DEF Moved, BlocksFound, Keys
    <3>2. Keys(c) = {c.localPort}
      BY <2>1, <3>1
    <3> QED
      BY <2>2, <3>2 DEF Blocks
  <2>3. CASE Moved(c)
    <3>1. tcb[c].localPort \in Keys(c) /\ c.localPort \notin Keys(c)
      BY <2>1, <2>3 DEF BlocksFound, Keys
    <3>2. Keys(c) = {tcb[c].localPort}
      BY <2>1, <3>1
    <3> QED
      BY <2>3, <3>2 DEF Moved
  <2>4. CASE c.passive
    BY <2>1, <2>4 DEF Moved, Blocks, BlocksFound, Keys
  <2>5. CASE ~c.passive /\ opening[c] \notin {"syn", "rekey"} /\ ~Moved(c)
    BY <2>5 DEF Moved
  <2> QED
    BY <2>2, <2>3, <2>4, <2>5
<1> QED
  BY <1>1, PortInvariance, PTL

=============================================================================
