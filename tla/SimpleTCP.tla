------------------------------ MODULE SimpleTCP ------------------------------
(***************************************************************************)
(* Several processes that use the library on one loopback address.  In     *)
(* each process run the user's thread, which calls open(); the listening   *)
(* thread, which reads the raw socket; and one thread per connection.  The *)
(* threads share tcbMap and the blocks in it; the mutex of the state       *)
(* machine covers one lookup of the listening thread and sendSYNMessage,   *)
(* and nothing else.                                                       *)
(*                                                                         *)
(* A block is named by the call of open() that creates it.  Sockets are    *)
(* sets of received segments, read in any order.                           *)
(***************************************************************************)
EXTENDS TCB

CONSTANTS
    Process,        \* the processes
    Call,           \* the calls of open() their users may make, each once
    UserPort,       \* the ports users pass to open()
    EphemeralPort,  \* the ports the system gives to sockets that ask for any
    ISS,            \* the sequence numbers that generateISS() may draw
    RawCopy,        \* a raw socket also gets what a UDP socket is bound to
    Fault,          \* what the network may do: "loss", "duplication"
    MayExit,        \* the processes whose user may end them
    NoTCB           \* the value of a key that is not in tcbMap

ASSUME CallAssumption ==
    /\ Call \subseteq [process : Process, localPort : UserPort,
                        foreignPort : UserPort \cup {NoPort}, passive : BOOLEAN]
    /\ \A c \in Call : ~c.passive => c.foreignPort # NoPort

ASSUME PortAssumption ==
    /\ UserPort \cup EphemeralPort \subseteq Port
    /\ UserPort \cap EphemeralPort = {}

\* Draws are random: no two of them are equal or adjacent, and none is at the
\* wrap-around (module TCBThreads has every number).
ASSUME ISSAssumption ==
    ISS \subseteq 1 .. MaxSeq - 1 /\ \A i \in ISS : i + 1 \notin ISS

ASSUME EnvironmentAssumption ==
    /\ RawCopy \in BOOLEAN
    /\ Fault \subseteq {"loss", "duplication"}
    /\ MayExit \subseteq Process
    /\ NoTCB \notin Call

VARIABLES
    status,         \* of a process: "up", or how it ended
    opening,        \* of a call: how far open() is
    tcbMap,         \* of a process: from local port to block
    tcb,            \* the blocks
    errorMessage,   \* of a process: SimpleTCP::errorMessage
    listener,       \* of a process: where its listening thread is
    reader,         \* of a block: where its thread is
    raw,            \* of a process: what its raw socket has received
    udp,            \* of a block: what its connection socket has received
    drawn           \* the sequence numbers generateISS() has returned

vars == <<status, opening, tcbMap, tcb, errorMessage, listener, reader,
          raw, udp, drawn>>

ListenerIdle == [at |-> "receive", segment |-> noHeader, block |-> NoTCB]
ReaderIdle   == [at |-> "receive", segment |-> noHeader, state |-> "CLOSED"]

TypeOK ==
    /\ status \in [Process -> {"up", "aborted", "terminated", "exited"}]
    /\ opening \in [Call -> {"todo", "syn", "rekey", "done"}]
    /\ tcbMap \in [Process -> [Port -> Call \cup {NoTCB}]]
    /\ tcb \in [Call -> TransmissionControlBlock]
    /\ errorMessage \in [Process -> ErrorMessage]
    /\ listener \in [Process -> [at      : {"receive", "find", "reply", "answer"},
                                 segment : TCPHeader,
                                 block   : Call \cup {NoTCB}]]
    /\ reader \in [Call -> [at : {"receive", "handle"}, segment : TCPHeader,
                            state : State]]
    /\ raw \in [Process -> SUBSET TCPHeader]
    /\ udp \in [Call -> SUBSET TCPHeader]
    /\ drawn \in SUBSET ISS

Init ==
    /\ status = [p \in Process |-> "up"]
    /\ opening = [c \in Call |-> "todo"]
    /\ tcbMap = [p \in Process |-> [q \in Port |-> NoTCB]]
    /\ tcb = [c \in Call |-> newTCB(c.localPort, c.passive)]
    /\ errorMessage = [p \in Process |-> "NO_ERROR"]
    /\ listener = [p \in Process |-> ListenerIdle]
    /\ reader = [c \in Call |-> ReaderIdle]
    /\ raw = [p \in Process |-> {}]
    /\ udp = [c \in Call |-> {}]
    /\ drawn = {}

-----------------------------------------------------------------------------
(***************************************************************************)
(* Sockets.                                                                *)
(***************************************************************************)
Up(p) == status[p] = "up"

\* The connection socket of block c is bound to q.
Holds(c, q) == Up(c.process) /\ tcb[c].connectionSocket /\ tcb[c].localPort = q

\* The listening thread of p holds q while it answers for a closed port.
Answers(p, q) ==
    Up(p) /\ listener[p].at = "reply" /\ listener[p].segment.destinationPort = q

Bound(q) == (\E c \in Call : Holds(c, q)) \/ (\E p \in Process : Answers(p, q))

\* The system never gives the same ephemeral port twice.
Unused(q) == \A c \in Call : tcb[c].connectionSocket => tcb[c].localPort # q

\* The segments S leave.  A datagram goes to the socket bound to its destination
\* port; the raw sockets get it when there is none, or always if RawCopy.
Transmit(S) ==
    /\ raw' = [p \in Process |-> raw[p] \cup
                  {h \in S : Up(p) /\ (RawCopy \/ ~Bound(h.destinationPort))}]
    /\ udp' = [c \in Call |-> udp[c] \cup
                  {h \in S : Holds(c, h.destinationPort)}]

\* What is left in a socket after h was read from it.
Taken(S, h) == IF "duplication" \in Fault THEN {S, S \ {h}} ELSE {S \ {h}}

\* The process is gone, and with it what its sockets held.
Ends(p, how) ==
    /\ status' = [status EXCEPT ![p] = how]
    /\ raw' = [raw EXCEPT ![p] = {}]
    /\ udp' = [c \in Call |-> IF c.process = p THEN {} ELSE udp[c]]
    /\ listener' = [listener EXCEPT ![p] = ListenerIdle]
    /\ reader' = [c \in Call |-> IF c.process = p THEN ReaderIdle ELSE reader[c]]
    /\ UNCHANGED <<opening, tcbMap, tcb, errorMessage, drawn>>

\* A sender of a SYN calls generateISS(), and nobody else does.
Draws(e) == \E h \in e.out : "SYN" \in h.control

\* Block c handled a segment, or sent its SYN, with the effect e; i is the
\* number drawn.
Apply(c, e, i) ==
    /\ Draws(e) => i \notin drawn
    /\ drawn' = IF Draws(e) THEN drawn \cup {i} ELSE drawn
    /\ tcb' = [tcb EXCEPT ![c] = e.tcb]
    /\ errorMessage' = IF e.error = "unchanged" THEN errorMessage
                       ELSE [errorMessage EXCEPT ![c.process] = e.error]
    /\ Transmit(e.out)

-----------------------------------------------------------------------------
(***************************************************************************)
(* The user's thread.  A process calls open() from one thread, so a call   *)
(* begins when no other is under way.                                      *)
(***************************************************************************)
OpenBegins(c) ==
    /\ Up(c.process)
    /\ opening[c] = "todo"
    /\ \A d \in Call : d.process = c.process => opening[d] \in {"todo", "done"}

\* The port is in tcbMap: open() returns or throws, and changes nothing.
OpenExisting(c) ==
    /\ OpenBegins(c)
    /\ tcbMap[c.process][c.localPort] # NoTCB
    /\ opening' = [opening EXCEPT ![c] = "done"]
    /\ UNCHANGED <<status, tcbMap, tcb, errorMessage, listener, reader, raw, udp, drawn>>

\* The block is created and put in tcbMap, without the mutex.
OpenInserts(c) ==
    /\ OpenBegins(c)
    /\ tcbMap[c.process][c.localPort] = NoTCB
    /\ tcbMap' = [tcbMap EXCEPT ![c.process][c.localPort] = c]
    /\ opening' = [opening EXCEPT ![c] = IF c.passive THEN "done" ELSE "syn"]
    /\ UNCHANGED <<status, tcb, errorMessage, listener, reader, raw, udp, drawn>>

\* sendSYNMessage takes the mutex and sends the SYN.
SendsSYN(c, q, i) ==
    /\ Up(c.process) /\ opening[c] = "syn"
    /\ Unused(q)
    /\ Apply(c, sendSYN(tcb[c], q, c.foreignPort, i), i)
    /\ opening' = [opening EXCEPT ![c] = "rekey"]
    /\ UNCHANGED <<status, tcbMap, listener, reader>>

\* Mutant: the block stays reachable under the port the user asked for.
RekeysKeepingOld(c) ==
    /\ Up(c.process) /\ opening[c] = "rekey"
    /\ tcbMap' = [tcbMap EXCEPT ![c.process][tcb[c].localPort] = c]
    /\ tcb' = [tcb EXCEPT ![c].threadLaunched = TRUE]
    /\ opening' = [opening EXCEPT ![c] = "done"]
    /\ UNCHANGED <<status, errorMessage, listener, reader, raw, udp, drawn>>

\* It moves the block to the key of its new port, launches the block's thread
\* and gives the mutex back.  An emplace on a key that is taken does nothing.
Rekeys(c) ==
    /\ Up(c.process) /\ opening[c] = "rekey"
    /\ tcbMap' = [tcbMap EXCEPT ![c.process] =
                     LET erased == [@ EXCEPT ![c.localPort] = NoTCB]
                         q      == tcb[c].localPort
                     IN  IF erased[q] = NoTCB THEN [erased EXCEPT ![q] = c]
                                              ELSE erased]
    /\ tcb' = [tcb EXCEPT ![c].threadLaunched = TRUE]
    /\ opening' = [opening EXCEPT ![c] = "done"]
    /\ UNCHANGED <<status, errorMessage, listener, reader, raw, udp, drawn>>

MutexFree(p) == \A c \in Call : c.process = p => opening[c] # "rekey"

-----------------------------------------------------------------------------
(***************************************************************************)
(* The listening thread.                                                   *)
(***************************************************************************)
\* Mutant: the source port is looked up without the mutex.
RawReceivesUnlocked(p, h) ==
    /\ Up(p) /\ listener[p].at = "receive"
    /\ h \in raw[p]
    /\ \E left \in Taken(raw[p], h) : raw' = [raw EXCEPT ![p] = left]
    /\ tcbMap[p][h.sourcePort] = NoTCB
    /\ listener' = [listener EXCEPT ![p] = [@ EXCEPT !.at = "find", !.segment = h]]
    /\ UNCHANGED <<status, opening, tcbMap, tcb, errorMessage, reader, udp, drawn>>

\* A segment whose source port is a key of tcbMap is one of our own calls and is
\* dropped; the lookup needs the mutex.
RawReceives(p, h) ==
    /\ Up(p) /\ listener[p].at = "receive"
    /\ h \in raw[p] /\ MutexFree(p)
    /\ \E left \in Taken(raw[p], h) : raw' = [raw EXCEPT ![p] = left]
    /\ listener' = IF tcbMap[p][h.sourcePort] # NoTCB THEN listener
                   ELSE [listener EXCEPT ![p] = [@ EXCEPT !.at = "find", !.segment = h]]
    /\ UNCHANGED <<status, opening, tcbMap, tcb, errorMessage, reader, udp, drawn>>

\* The lookup of the destination port, which does not take the mutex.
Finds(p, b) ==
    /\ Up(p) /\ listener[p].at = "find"
    /\ tcbMap[p][listener[p].segment.destinationPort] = b

\* Nobody is at that port, and the segment is a reset.
ClosedIgnores(p) ==
    /\ Finds(p, NoTCB)
    /\ "RST" \in listener[p].segment.control
    /\ listener' = [listener EXCEPT ![p] = ListenerIdle]
    /\ UNCHANGED <<status, opening, tcbMap, tcb, errorMessage, reader, raw, udp, drawn>>

\* Nobody is at that port: the answer needs a socket bound to it for a while.
ClosedBinds(p) ==
    /\ Finds(p, NoTCB)
    /\ "RST" \notin listener[p].segment.control
    /\ ~Bound(listener[p].segment.destinationPort)
    /\ listener' = [listener EXCEPT ![p].at = "reply"]
    /\ UNCHANGED <<status, opening, tcbMap, tcb, errorMessage, reader, raw, udp, drawn>>

\* bind() fails: createUDPSocket throws, and nothing in this thread catches.
ClosedTerminates(p) ==
    /\ Finds(p, NoTCB)
    /\ "RST" \notin listener[p].segment.control
    /\ Bound(listener[p].segment.destinationPort)
    /\ Ends(p, "terminated")

ClosedReplies(p) ==
    /\ Up(p) /\ listener[p].at = "reply"
    /\ Transmit({closedReply(listener[p].segment)})
    /\ listener' = [listener EXCEPT ![p] = ListenerIdle]
    /\ UNCHANGED <<status, opening, tcbMap, tcb, errorMessage, reader, drawn>>

\* assert(state == LISTEN)
ListenerAborts(p, c) ==
    /\ Finds(p, c)
    /\ tcb[c].state # "LISTEN"
    /\ Ends(p, "aborted")

\* processListeningSocketMessage, up to the send.
ListenerHandles(p, c, q, i) ==
    /\ Finds(p, c)
    /\ tcb[c].state = "LISTEN"
    /\ Unused(q) \/ tcb[c].connectionSocket
    /\ LET h == listener[p].segment
       IN  /\ Apply(c, processListeningSocketMessage(tcb[c], h, q, i), i)
           /\ listener' = [listener EXCEPT ![p] =
                  IF AnswersSYN(h) THEN [@ EXCEPT !.at = "answer", !.block = c]
                                   ELSE ListenerIdle]
    /\ UNCHANGED <<status, opening, tcbMap, reader>>

\* Mutant: the SYN is answered and nobody reads the reply.
ListenerAnsweredUnread(p) ==
    /\ Up(p) /\ listener[p].at = "answer"
    /\ tcb' = [tcb EXCEPT ![listener[p].block] = synAckDone(@)]
    /\ listener' = [listener EXCEPT ![p] = ListenerIdle]
    /\ UNCHANGED <<status, opening, tcbMap, errorMessage, reader, raw, udp, drawn>>

\* The rest of sendSYNACK, then launchTCBThread.
ListenerAnswered(p) ==
    /\ Up(p) /\ listener[p].at = "answer"
    /\ tcb' = [tcb EXCEPT ![listener[p].block] =
                  [synAckDone(@) EXCEPT !.threadLaunched = TRUE]]
    /\ listener' = [listener EXCEPT ![p] = ListenerIdle]
    /\ UNCHANGED <<status, opening, tcbMap, errorMessage, reader, raw, udp, drawn>>

-----------------------------------------------------------------------------
(***************************************************************************)
(* The thread of a connection, as in TCBThreads.                           *)
(***************************************************************************)
ReaderReceives(c, h) ==
    /\ Up(c.process) /\ tcb[c].threadLaunched
    /\ reader[c].at = "receive"
    /\ h \in udp[c]
    /\ \E left \in Taken(udp[c], h) : udp' = [udp EXCEPT ![c] = left]
    /\ reader' = [reader EXCEPT ![c] =
                     [at |-> "handle", segment |-> h, state |-> tcb[c].state]]
    /\ UNCHANGED <<status, opening, tcbMap, tcb, errorMessage, listener, raw, drawn>>

ReaderHandles(c, i) ==
    /\ Up(c.process) /\ reader[c].at = "handle"
    /\ Apply(c, processUDPMessage(tcb[c], reader[c].state, reader[c].segment, i), i)
    /\ reader' = [reader EXCEPT ![c] = ReaderIdle]
    /\ UNCHANGED <<status, opening, tcbMap, listener>>

-----------------------------------------------------------------------------
(***************************************************************************)
(* What the library does not do itself.                                    *)
(***************************************************************************)
Exits(p) == p \in MayExit /\ Up(p) /\ Ends(p, "exited")

Loses ==
    /\ "loss" \in Fault
    /\ \/ \E p \in Process : \E h \in raw[p] :
              raw' = [raw EXCEPT ![p] = @ \ {h}] /\ udp' = udp
       \/ \E c \in Call : \E h \in udp[c] :
              udp' = [udp EXCEPT ![c] = @ \ {h}] /\ raw' = raw
    /\ UNCHANGED <<status, opening, tcbMap, tcb, errorMessage, listener, reader, drawn>>

-----------------------------------------------------------------------------
OpenContinues(c) ==
    \/ \E q \in EphemeralPort, i \in ISS : SendsSYN(c, q, i)
    \/ Rekeys(c)

ListenerReads(p) == \E h \in raw[p] : RawReceives(p, h)

ListenerWorks(p) ==
    \/ ClosedIgnores(p) \/ ClosedBinds(p) \/ ClosedTerminates(p) \/ ClosedReplies(p)
    \/ \E c \in Call : \/ ListenerAborts(p, c)
                       \/ \E q \in EphemeralPort, i \in ISS : ListenerHandles(p, c, q, i)
    \/ ListenerAnswered(p)

ReaderReads(c) == \E h \in udp[c] : ReaderReceives(c, h)

ReaderWorks(c) == \E i \in ISS : ReaderHandles(c, i)

Next ==
    \/ \E c \in Call : \/ OpenExisting(c) \/ OpenInserts(c) \/ OpenContinues(c)
                       \/ ReaderReads(c) \/ ReaderWorks(c)
    \/ \E p \in Process : ListenerReads(p) \/ ListenerWorks(p) \/ Exits(p)
    \/ Loses

Spec == Init /\ [][Next]_vars

\* The threads are loops without waits other than recv() and the mutex: each one
\* that can run does.  Users need not call open().
Fairness ==
    /\ \A c \in Call : /\ WF_vars(OpenContinues(c))
                       /\ WF_vars(ReaderReads(c)) /\ WF_vars(ReaderWorks(c))
    /\ \A p \in Process : WF_vars(ListenerReads(p)) /\ WF_vars(ListenerWorks(p))

FairSpec == Spec /\ Fairness

-----------------------------------------------------------------------------
(***************************************************************************)
(* Safety.                                                                 *)
(***************************************************************************)

Sockets == {c \in Call : tcb[c].connectionSocket}

\* The listening thread never works on a segment that an active connection of
\* its own process sent, even when it sees the SYN before sendSYNMessage has
\* moved the block to the port the SYN came from (processRawIPMessage, "Filter
\* calls we make by ourself").
OwnSynFiltered ==
    \A p \in Process : listener[p].at # "receive" =>
        \A c \in Sockets : c.process = p /\ ~c.passive =>
            tcb[c].localPort # listener[p].segment.sourcePort

\* The comment of that filter, for every connection.
OwnCallsFiltered ==
    \A p \in Process : listener[p].at # "receive" =>
        \A c \in Sockets : c.process = p =>
            tcb[c].localPort # listener[p].segment.sourcePort

\* The two ends of a connection agree on its ports and numbers.
Joined(a, b) ==
    /\ tcb[a].localPort = tcb[b].foreignPort
    /\ tcb[b].localPort = tcb[a].foreignPort
    /\ tcb[a].rcv_nxt = tcb[b].snd_nxt /\ tcb[a].irs = tcb[b].iss
    /\ tcb[b].rcv_nxt = Inc(tcb[a].iss) /\ tcb[b].irs = tcb[a].iss

\* A passive connection is ESTABLISHED only with an active one that is, with
\* the same ports and numbers, whatever was lost, duplicated or left over from
\* an earlier client (sendSYNACK, sendEstablishedACK,
\* processSynReceivedSocketMessage).
Agreement ==
    \A b \in Call : b.passive /\ tcb[b].state = "ESTABLISHED" =>
        \E a \in Call : /\ ~a.passive /\ tcb[a].state = "ESTABLISHED"
                        /\ Joined(a, b)

(***************************************************************************)
(* The handshake that its two ends see, module Handshake.  A server is     *)
(* answering from the moment its SYN,ACK leaves.                           *)
(***************************************************************************)
Clients == {c \in Call : ~c.passive}
Servers == {c \in Call : c.passive}

clientView(a) ==
    CASE tcb[a].state \in {"SYN_SENT", "SYN_RECEIVED"}    -> "calling"
      [] tcb[a].state \in {"ESTABLISHED", "CLOSE_WAIT"}   -> "open"
      [] tcb[a].state = "CLOSED" /\ tcb[a].connectionSocket -> "failed"
      [] OTHER                                            -> "closed"

serverView(b) ==
    CASE \/ tcb[b].state = "SYN_RECEIVED"
         \/ listener[b.process].at = "answer" /\ listener[b.process].block = b
                                                        -> "answering"
      [] tcb[b].state \in {"ESTABLISHED", "CLOSE_WAIT"} -> "open"
      [] tcb[b].state = "CLOSED"                        -> "failed"
      [] OTHER                                          -> "listening"

\* The client has the numbers of the answer that the server gave last.
AnsweredBy(a, b) ==
    /\ tcb[a].irs = tcb[b].iss /\ tcb[b].irs = tcb[a].iss
    /\ tcb[a].rcv_nxt = Inc(tcb[b].iss) /\ tcb[b].rcv_nxt = Inc(tcb[a].iss)
    /\ tcb[a].localPort = tcb[b].foreignPort
    /\ tcb[b].localPort = tcb[a].foreignPort

TwoEnds == INSTANCE Handshake WITH
    Client <- Clients,
    Server <- Servers,
    Orphans <- MayExit # {},
    client <- [a \in Clients |-> clientView(a)],
    server <- [b \in Servers |-> serverView(b)],
    joined <- {p \in Clients \X Servers :
                   /\ AnsweredBy(p[1], p[2])
                   /\ clientView(p[1]) = "open"
                   /\ serverView(p[2]) \in {"answering", "open"}}

\* Every step of the threads of all processes, and every loss and exit, is a step
\* of that handshake or one its ends do not see.
ImplementsHandshake == TwoEnds!Spec

\* An active connection that is ESTABLISHED has the number of a SYN,ACK that one
\* listener sent to it and to nobody else: no two clients share an answer.
AnswersAreUnique ==
    \A a, b \in Call :
        tcb[a].state = "ESTABLISHED" /\ tcb[b].state = "ESTABLISHED"
            /\ ~a.passive /\ ~b.passive /\ a # b => tcb[a].irs # tcb[b].irs

\* Process p will answer the SYN,ACK of a listener that waits for its client in
\* the client's place, or a reset waits for the listener already.
IsAnswerOf(b, h) ==
    /\ h.control = {"SYN", "ACK"}
    /\ h.sourcePort = tcb[b].localPort /\ h.destinationPort = tcb[b].foreignPort

ResetDue(b, p) ==
    /\ b.passive /\ tcb[b].state = "SYN_RECEIVED"
    /\ \/ \E h \in raw[p] : IsAnswerOf(b, h)
       \/ listener[p].at \in {"find", "reply"} /\ IsAnswerOf(b, listener[p].segment)
       \/ \E h \in udp[b] : "RST" \in h.control
       \/ /\ reader[b].at = "handle" /\ reader[b].state = "SYN_RECEIVED"
          /\ "RST" \in reader[b].segment.control

\* Where nothing is lost, a listener whose SYN,ACK reached a raw socket is not
\* forgotten: the segment passes the filter, finds no block, is answered with a
\* reset, the reset goes to the socket the answer came from, and the block's thread
\* handles it in SYN_RECEIVED.  Until then one of these is under way, whatever else
\* the listener reads, unless a process that has it in hand ends.
ResetReachesListener ==
    [][\A b \in Call, p \in Process :
          ResetDue(b, p) /\ Up(p)' /\ Up(b.process)' =>
              ResetDue(b, p)' \/ tcb'[b].state # "SYN_RECEIVED"]_vars

\* tcbMap finds every block, under one key: the port its user asked for until a
\* SYN moves an active one to the port it was sent from (sendSYNMessage).
Keys(c) == {q \in Port : tcbMap[c.process][q] = c}

MapFollowsPort ==
    \A c \in Call :
        /\ opening[c] \in {"syn", "rekey"} => Keys(c) = {c.localPort}
        /\ opening[c] = "done" /\ ~c.passive /\ tcb[c].connectionSocket =>
               Keys(c) = {tcb[c].localPort}
        /\ c.passive => Keys(c) \subseteq {c.localPort}
        /\ c.passive /\ tcb[c].connectionSocket => Keys(c) # {}

\* While one client connects to one listener no process dies: no segment reaches
\* a block through tcbMap in a state other than LISTEN, and no port is bound
\* when the listening thread needs it.
NobodyDies == \A p \in Process : status[p] \in {"up", "exited"}

\* assert(state == LISTEN): a segment that the listening thread finds a block
\* for, finds it listening.
ListenAssertion == \A p \in Process : status[p] # "aborted"

\* SND.NXT, "send next", of one end is RCV.NXT, "receive next", of the other: the
\* first data either sends is the data its peer waits for.
NumbersMeet ==
    \A a, b \in Call : Joined(a, b) /\ tcb[b].state = "ESTABLISHED" =>
        tcb[a].snd_nxt = tcb[b].rcv_nxt

-----------------------------------------------------------------------------
(***************************************************************************)
(* Liveness, under FairSpec.                                               *)
(***************************************************************************)
Dialled(a, b) ==
    /\ b.passive /\ opening[b] = "done" /\ tcb[b].state = "LISTEN"
    /\ ~a.passive /\ tcb[a].state = "SYN_SENT"
    /\ \E h \in raw[b.process] : /\ h.control = {"SYN"}
                                 /\ h.sourcePort = tcb[a].localPort
                                 /\ h.destinationPort = b.localPort

Connected(a, b) ==
    tcb[a].state = "ESTABLISHED" /\ tcb[b].state = "ESTABLISHED" /\ Joined(a, b)

\* A SYN that reaches the raw socket of a listener's process leads to a
\* connection that is ESTABLISHED on both sides.
HandshakeCompletes ==
    \A a, b \in Call : Dialled(a, b) ~> Connected(a, b)

\* The processes stop talking: no exchange of resets or acknowledgments goes on
\* forever, and every segment is read.
SegmentsSettle ==
    <>[](/\ \A p \in Process : raw[p] = {} /\ listener[p].at = "receive"
         /\ \A c \in Call : Up(c.process) => udp[c] = {} /\ reader[c].at = "receive")

=============================================================================
