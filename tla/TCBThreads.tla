----------------------------- MODULE TCBThreads -----------------------------
(***************************************************************************)
(* One transmission control block and the three threads that touch it:     *)
(*   - the user's thread, which sends the SYN of an active open and        *)
(*     launches the block's thread;                                        *)
(*   - the listening thread, which hands the block every segment from the  *)
(*     raw socket whose destination is the block's port;                   *)
(*   - the block's own thread, which receives on the connection socket.    *)
(* The block takes no lock: the listening thread and the block's thread    *)
(* interleave freely.  Any segment may arrive at any time (the peer is not *)
(* modelled here), so what holds here holds whoever is on the other side.  *)
(*                                                                         *)
(* The build is the default one, with assert() compiled in: a failed       *)
(* assertion ends the process.                                             *)
(***************************************************************************)
EXTENDS TCB

CONSTANTS
    UserPort,       \* the local port the user passed to open()
    EphemeralPort,  \* the ports the system may give a connection socket
    Incoming        \* the segments that may arrive

ASSUME OpenAssumption ==
    /\ UserPort \in Port
    /\ EphemeralPort \subseteq Port

ASSUME IncomingAssumption == Incoming \subseteq TCPHeader

VARIABLES
    tcb,            \* the block
    errorMessage,   \* SimpleTCP::errorMessage
    listener,       \* where the listening thread is, and its segment
    reader,         \* where the block's thread is, its segment and the state it read
    out,            \* the segments sent by the last step
    aborted         \* assert(state == LISTEN) failed: the process is gone

vars == <<tcb, errorMessage, listener, reader, out, aborted>>

ListenerIdle == [at |-> "receive", segment |-> noHeader]
ReaderIdle   == [at |-> "receive", segment |-> noHeader, state |-> "CLOSED"]

TypeOK ==
    /\ tcb \in TransmissionControlBlock
    /\ errorMessage \in ErrorMessage
    /\ listener \in [at : {"receive", "handle", "answer"}, segment : TCPHeader]
    /\ reader \in [at : {"receive", "handle"}, segment : TCPHeader, state : State]
    /\ out \in SUBSET TCPHeader
    /\ aborted \in BOOLEAN

\* The block was made by a passive OPEN or by an active one.
Init ==
    /\ \E passive \in BOOLEAN : tcb = newTCB(UserPort, passive)
    /\ errorMessage = "NO_ERROR"
    /\ listener = ListenerIdle
    /\ reader = ReaderIdle
    /\ out = {}
    /\ aborted = FALSE

\* Apply what a handler does to the block.
Apply(e) ==
    /\ tcb' = e.tcb
    /\ out' = e.out
    /\ errorMessage' = IF e.error = "unchanged" THEN errorMessage ELSE e.error

-----------------------------------------------------------------------------
\* The user's thread, inside open(): sendSYN, then launchTCBThread.  A block
\* is opened once: it was made by the same call of open().
OpenActive(q, p, i) ==
    /\ ~tcb.passive /\ ~tcb.threadLaunched /\ tcb.state = "CLOSED"
    /\ LET e == sendSYN(tcb, q, p, i)
       IN  Apply([e EXCEPT !.tcb.threadLaunched = TRUE])
    /\ UNCHANGED <<listener, reader, aborted>>

-----------------------------------------------------------------------------
\* The listening thread has a segment for this block.
ListenerReceives(h) ==
    /\ listener = ListenerIdle
    /\ listener' = [at |-> "handle", segment |-> h]
    /\ out' = {}
    /\ UNCHANGED <<tcb, errorMessage, reader, aborted>>

\* assert(state == LISTEN)
ListenerAborts ==
    /\ listener.at = "handle"
    /\ tcb.state # "LISTEN"
    /\ aborted' = TRUE
    /\ out' = {}
    /\ UNCHANGED <<tcb, errorMessage, listener, reader>>

\* Mutant: the handler runs in whatever state the block is.
ListenerHandlesUnasserted(q, i) ==
    /\ listener.at = "handle"
    /\ Apply(processListeningSocketMessage(tcb, listener.segment, q, i))
    /\ listener' = IF AnswersSYN(listener.segment)
                   THEN [listener EXCEPT !.at = "answer"] ELSE ListenerIdle
    /\ UNCHANGED <<reader, aborted>>

\* processListeningSocketMessage, up to the send.
ListenerHandles(q, i) ==
    /\ listener.at = "handle"
    /\ tcb.state = "LISTEN"
    /\ Apply(processListeningSocketMessage(tcb, listener.segment, q, i))
    /\ listener' = IF AnswersSYN(listener.segment)
                   THEN [listener EXCEPT !.at = "answer"] ELSE ListenerIdle
    /\ UNCHANGED <<reader, aborted>>

\* Mutant: the SYN is answered and nobody reads the reply.
ListenerAnsweredUnread ==
    /\ listener.at = "answer"
    /\ tcb' = synAckDone(tcb)
    /\ listener' = ListenerIdle
    /\ out' = {}
    /\ UNCHANGED <<errorMessage, reader, aborted>>

\* The rest of sendSYNACK, then launchTCBThread.
ListenerAnswered ==
    /\ listener.at = "answer"
    /\ tcb' = [synAckDone(tcb) EXCEPT !.threadLaunched = TRUE]
    /\ listener' = ListenerIdle
    /\ out' = {}
    /\ UNCHANGED <<errorMessage, reader, aborted>>

-----------------------------------------------------------------------------
\* The block's thread receives a segment and copies the state.
ReaderReceives(h) ==
    /\ tcb.threadLaunched
    /\ reader = ReaderIdle
    /\ reader' = [at |-> "handle", segment |-> h, state |-> tcb.state]
    /\ out' = {}
    /\ UNCHANGED <<tcb, errorMessage, listener, aborted>>

\* It runs the handler of the state it copied.
ReaderHandles(i) ==
    /\ reader.at = "handle"
    /\ Apply(processUDPMessage(tcb, reader.state, reader.segment, i))
    /\ reader' = ReaderIdle
    /\ UNCHANGED <<listener, aborted>>

-----------------------------------------------------------------------------
UserThread == \E q \in EphemeralPort, p \in Port, i \in SeqNumber :
                  OpenActive(q, p, i)

ListeningThread ==
    \/ \E h \in Incoming : ListenerReceives(h)
    \/ ListenerAborts
    \/ \E q \in EphemeralPort, i \in SeqNumber : ListenerHandles(q, i)
    \/ ListenerAnswered

TCBThread == \/ \E h \in Incoming : ReaderReceives(h)
             \/ \E i \in SeqNumber : ReaderHandles(i)

Next == ~aborted /\ (UserThread \/ ListeningThread \/ TCBThread)

Spec == Init /\ [][Next]_vars

-----------------------------------------------------------------------------
(***************************************************************************)
(* Safety.                                                                 *)
(***************************************************************************)

Synchronized == {"SYN_SENT", "SYN_RECEIVED", "ESTABLISHED", "CLOSE_WAIT"}

\* The thread of the block may act on the state it copied although it copied
\* it without a lock: whenever that state has a handler, the block is still in
\* it (processUDPMessage, the local copy of tcb->state).
SnapshotHolds ==
    reader.at = "handle" /\ reader.state \in {"SYN_SENT", "SYN_RECEIVED"}
        => tcb.state = reader.state

\* Between the two halves of sendSYNACK, with the SYN,ACK already on its way,
\* no other thread disturbs the block: it still listens, and what the second
\* half will build on is what the SYN brought.
AnswerUndisturbed ==
    listener.at = "answer" =>
        /\ tcb.state = "LISTEN"
        /\ tcb.irs = listener.segment.sequenceNumber
        /\ tcb.rcv_nxt = Inc(tcb.irs)
        /\ tcb.foreignPort = listener.segment.sourcePort

\* The sequence variables a handler leaves fit the state it leaves: while the
\* SYN is unacknowledged it is the only thing in flight, and once the
\* connection is up the numbers are those of the handshake that made it
\* (sendSYN, sendSYNACK, sendEstablishedACK).
SequenceVariables ==
    /\ tcb.state \in {"SYN_SENT", "SYN_RECEIVED"} =>
           tcb.snd_una = tcb.iss /\ tcb.snd_nxt = Inc(tcb.iss)
    /\ tcb.state \in {"SYN_RECEIVED", "ESTABLISHED", "CLOSE_WAIT"} =>
           tcb.rcv_nxt = Inc(tcb.irs)
    /\ tcb.state = "ESTABLISHED" =>
           \/ tcb.snd_una = tcb.iss /\ tcb.snd_nxt = Inc(tcb.iss)
           \/ /\ ~tcb.passive
              /\ tcb.snd_una = Inc(tcb.iss)
              /\ tcb.snd_nxt = Inc(Inc(tcb.iss))

\* A connection that waits for a segment of its peer has a thread to read it,
\* and that thread has a socket to read from (launchTCBThread is called once,
\* and a block that listens again keeps both).
PeerIsHeard ==
    /\ tcb.state \in Synchronized => tcb.threadLaunched
    /\ tcb.threadLaunched \/ listener.at = "answer" =>
           tcb.connectionSocket /\ tcb.localPort \in EphemeralPort

\* A connection becomes ESTABLISHED only on a segment with ACK and without RST that
\* is in the window of the SYN this block sent last: in SYN_SENT only on the number
\* right after its ISS, in SYN_RECEIVED on that or on the ISS.  The ISS acknowledges
\* nothing; "snd_una <= ackNumber" admits it, to an active block that a simultaneous
\* open left in SYN_RECEIVED as well.
EstablishedByAck ==
    [][tcb.state # "ESTABLISHED" /\ tcb'.state = "ESTABLISHED" =>
          /\ "ACK" \in reader.segment.control
          /\ "RST" \notin reader.segment.control
          /\ reader.segment.ackNumber \in
                IF tcb.state = "SYN_SENT" THEN {Inc(tcb.iss)}
                                          ELSE {tcb.iss, Inc(tcb.iss)}]_vars

\* Neither thread answers a reset with a reset, so two endpoints cannot keep
\* resetting each other.  (A segment with both RST and SYN but not ACK, which no
\* endpoint of this library sends, is answered in SYN_SENT: with SYN,ACK.)
SendsReset == \E h \in out' : "RST" \in h.control

ResetNotAnswered ==
    [][/\ reader.at = "handle" /\ reader' = ReaderIdle /\ SendsReset
             => "RST" \notin reader.segment.control
       /\ listener.at = "handle" /\ listener'.at # "handle" /\ SendsReset
             => "RST" \notin listener.segment.control]_vars

\* The block implements the connection its user sees: every step of the three
\* threads is a step of ConnectionStates or leaves state and error alone.
Connection == INSTANCE ConnectionStates WITH passive <- tcb.passive,
                                             state <- tcb.state,
                                             error <- errorMessage

ImplementsConnection == Connection!Spec

(***************************************************************************)
(* What the tests say of SYN_SENT: a SYN,ACK that acknowledges ISS + 1     *)
(* establishes the connection, whatever ISS was drawn.                     *)
(***************************************************************************)
AcknowledgesISS ==
    /\ reader.at = "handle" /\ reader.state = "SYN_SENT"
    /\ reader.segment.control = {"SYN", "ACK"}
    /\ reader.segment.ackNumber = Inc(tcb.iss)

AckOfIssEstablishes ==
    [][AcknowledgesISS /\ reader' = ReaderIdle => tcb'.state = "ESTABLISHED"]_vars

=============================================================================
