-------------------------- MODULE TCBThreads_proofs --------------------------
(***************************************************************************)
(* Proofs about one transmission control block and its threads, for every  *)
(* set of ports, every width of the sequence numbers and every set of      *)
(* segments that may arrive: its invariants, what makes a connection       *)
(* ESTABLISHED, which segments are answered with a reset, and that the     *)
(* block implements the connection of ConnectionStates.                    *)
(***************************************************************************)
EXTENDS TCBThreads, TCB_proofs

-----------------------------------------------------------------------------
(***************************************************************************)
(* The inductive invariant.  Roles is what the safety invariants need to   *)
(* be inductive: which states belong to which kind of block, that nobody   *)
(* reads or answers without the thread, the socket and the port it takes,  *)
(* and that nothing fails before the thread of the block is launched.      *)
(***************************************************************************)
Roles ==
    /\ tcb.state = "SYN_SENT" => ~tcb.passive
    /\ tcb.state = "LISTEN" => tcb.passive
    /\ tcb.connectionSocket => tcb.localPort \in EphemeralPort
    /\ reader.at = "handle" => tcb.threadLaunched
    /\ ~tcb.threadLaunched => errorMessage = "NO_ERROR"

IInv ==
    /\ TypeOK
    /\ SnapshotHolds
    /\ AnswerUndisturbed
    /\ SequenceVariables
    /\ PeerIsHeard
    /\ Roles

\* An effect applied to the block keeps the types of what Apply assigns.
LEMMA ApplyType ==
    ASSUME TypeOK, NEW e \in Effect, Apply(e)
    PROVE  /\ tcb' \in TransmissionControlBlock
           /\ out' \in SUBSET TCPHeader
           /\ errorMessage' \in ErrorMessage
BY DEF TypeOK, Effect, Apply

\* A thread that waits in recv() is where TypeOK lets it be.
LEMMA IdleTypes ==
    /\ ListenerIdle \in [at : {"receive", "handle", "answer"}, segment : TCPHeader]
    /\ ReaderIdle \in [at : {"receive", "handle"}, segment : TCPHeader, state : State]
<1>1. noHeader \in TCPHeader
  BY EmptyHeaderType DEF noHeader, PortNumber
<1> QED
  BY <1>1 DEF ListenerIdle, ReaderIdle, State

\* The invariant holds initially.
LEMMA InitInvariant == Init => IInv
<1> SUFFICES ASSUME Init PROVE IInv
  OBVIOUS
<1> USE DEF Init
<1> PICK passive \in BOOLEAN : tcb = newTCB(UserPort, passive)
  OBVIOUS
<1>1. tcb \in TransmissionControlBlock
  BY NewType, OpenAssumption DEF PortNumber
<1>2. TypeOK
  BY <1>1, IdleTypes DEF TypeOK, ErrorMessage
<1>3. listener.at = "receive" /\ reader.at = "receive"
  BY DEF ListenerIdle, ReaderIdle
<1>4. SnapshotHolds /\ AnswerUndisturbed
  BY <1>3 DEF SnapshotHolds, AnswerUndisturbed
<1>5. SequenceVariables /\ PeerIsHeard /\ Roles
  BY <1>3, OpenAssumption DEF SequenceVariables, PeerIsHeard, Roles, newTCB, Synchronized
<1> QED
  BY <1>2, <1>4, <1>5 DEF IInv

\* sendSYNMessage.
LEMMA OpenActiveInvariant ==
    ASSUME IInv, NEW q \in EphemeralPort, NEW p \in Port, NEW i \in SeqNumber,
           OpenActive(q, p, i)
    PROVE  IInv'
<1> DEFINE e == sendSYN(tcb, q, p, i)
           f == [e EXCEPT !.tcb.threadLaunched = TRUE]
<1>1. q \in PortNumber /\ p \in PortNumber
  BY OpenAssumption DEF PortNumber
<1>2. f \in Effect
  <2>1. e \in Effect
    BY <1>1, SendSYNType DEF IInv, TypeOK
  <2> HIDE DEF e
  <2> QED
    BY <2>1 DEF Effect, TransmissionControlBlock
<1>3. Apply(f)
  BY DEF OpenActive
<1>4. TypeOK'
  <2> HIDE DEF f
  <2> QED
    BY <1>2, <1>3, ApplyType DEF IInv, TypeOK, OpenActive
<1>5. /\ tcb'.state = "SYN_SENT" /\ tcb'.threadLaunched
      /\ tcb'.connectionSocket /\ tcb'.localPort = q
      /\ tcb'.passive = tcb.passive
      /\ tcb'.iss = i /\ tcb'.snd_una = i /\ tcb'.snd_nxt = Inc(i)
  BY <1>3 DEF IInv, TypeOK, Apply, sendSYN, Sends, createLocalSocket,
              createForeignSocketAddress, TransmissionControlBlock
<1>6. reader' = reader /\ listener' = listener /\ ~tcb.threadLaunched /\ ~tcb.passive
      /\ tcb.state = "CLOSED"
  BY DEF OpenActive
<1>7. reader.at # "handle" /\ listener.at # "answer"
  BY <1>6 DEF IInv, Roles, AnswerUndisturbed
<1>8. SnapshotHolds' /\ AnswerUndisturbed'
  BY <1>6, <1>7 DEF SnapshotHolds, AnswerUndisturbed
<1>9. SequenceVariables' /\ PeerIsHeard' /\ Roles'
  BY <1>5, <1>6, <1>7 DEF SequenceVariables, PeerIsHeard, Roles, IInv
<1> QED
  BY <1>4, <1>8, <1>9 DEF IInv

\* processRawIPMessage hands over a segment.
LEMMA ListenerReceivesInvariant ==
    ASSUME IInv, NEW h \in Incoming, ListenerReceives(h)
    PROVE  IInv'
<1> USE DEF ListenerReceives
<1>1. TypeOK'
  BY IncomingAssumption DEF IInv, TypeOK
<1>2. listener.at = "receive" /\ listener'.at = "handle"
  BY DEF ListenerIdle
<1>3. SnapshotHolds' /\ AnswerUndisturbed' /\ SequenceVariables' /\ Roles'
  BY <1>2 DEF IInv, SnapshotHolds, AnswerUndisturbed, SequenceVariables, Roles
<1>4. PeerIsHeard'
  BY <1>2 DEF IInv, PeerIsHeard
<1> QED
  BY <1>1, <1>3, <1>4 DEF IInv

\* The assertion fails.
LEMMA ListenerAbortsInvariant ==
    ASSUME IInv, ListenerAborts
    PROVE  IInv'
<1> USE DEF ListenerAborts
<1>1. TypeOK'
  BY DEF IInv, TypeOK
<1>2. SnapshotHolds' /\ AnswerUndisturbed' /\ SequenceVariables' /\ PeerIsHeard' /\ Roles'
  BY DEF IInv, SnapshotHolds, AnswerUndisturbed, SequenceVariables, PeerIsHeard, Roles
<1> QED
  BY <1>1, <1>2 DEF IInv

\* processListeningSocketMessage, run by the listening thread.
LEMMA ListenerHandlesInvariant ==
    ASSUME IInv, NEW q \in EphemeralPort, NEW i \in SeqNumber, ListenerHandles(q, i)
    PROVE  IInv'
<1> DEFINE h == listener.segment
           e == processListeningSocketMessage(tcb, h, q, i)
<1>1. q \in PortNumber /\ h \in TCPHeader /\ tcb \in TransmissionControlBlock
  BY OpenAssumption DEF IInv, TypeOK, PortNumber
<1>2. /\ Apply(e) /\ tcb.state = "LISTEN" /\ listener.at = "handle"
      /\ listener' = IF AnswersSYN(h) THEN [listener EXCEPT !.at = "answer"] ELSE ListenerIdle
      /\ reader' = reader /\ aborted' = aborted
  BY DEF ListenerHandles
<1>3. e \in Effect
  BY <1>1, ListenEffect
<1>4. /\ tcb'.state = "LISTEN" /\ tcb'.passive = tcb.passive
      /\ tcb'.threadLaunched = tcb.threadLaunched
      /\ tcb'.connectionSocket =>
            \/ tcb'.localPort = q
            \/ tcb.connectionSocket /\ tcb'.localPort = tcb.localPort
      /\ tcb.connectionSocket => tcb'.connectionSocket
      /\ errorMessage' = errorMessage
      /\ AnswersSYN(h) =>
            /\ tcb'.connectionSocket
            /\ tcb'.irs = h.sequenceNumber
            /\ tcb'.rcv_nxt = Inc(h.sequenceNumber)
            /\ tcb'.foreignPort = h.sourcePort
  <2>1. tcb' = e.tcb /\ (e.error = "unchanged" => errorMessage' = errorMessage)
    BY <1>2 DEF Apply
  <2> QED
    BY <1>1, <1>2, <2>1, ListenEffect
<1> HIDE DEF e
<1>5. /\ tcb' \in TransmissionControlBlock /\ out' \in SUBSET TCPHeader
      /\ errorMessage' \in ErrorMessage
  BY <1>2, <1>3, ApplyType DEF IInv
<1>6. \/ listener' = ListenerIdle
      \/ listener'.at = "answer" /\ listener'.segment = h /\ AnswersSYN(h)
         /\ listener' = [listener EXCEPT !.at = "answer"]
  BY <1>2 DEF IInv, TypeOK
<1>7. TypeOK'
  BY <1>2, <1>5, <1>6, IdleTypes DEF IInv, TypeOK
<1>8. SnapshotHolds'
  BY <1>2 DEF IInv, SnapshotHolds
<1>9. AnswerUndisturbed'
  BY <1>4, <1>6 DEF AnswerUndisturbed, ListenerIdle
<1>10. SequenceVariables'
  BY <1>4 DEF SequenceVariables
<1>11. PeerIsHeard' /\ Roles'
  BY <1>2, <1>4, <1>6 DEF IInv, PeerIsHeard, Roles, Synchronized, ListenerIdle
<1> QED
  BY <1>7, <1>8, <1>9, <1>10, <1>11 DEF IInv

\* The second half of sendSYNACK builds on the first, which nobody disturbed.
LEMMA ListenerAnsweredInvariant ==
    ASSUME IInv, ListenerAnswered
    PROVE  IInv'
<1> DEFINE t == synAckDone(tcb)
<1>1. t \in TransmissionControlBlock
  BY SynAckDoneType DEF IInv, TypeOK
<1>2. /\ tcb'.state = "SYN_RECEIVED" /\ tcb'.passive = tcb.passive
      /\ tcb'.threadLaunched
      /\ tcb'.connectionSocket = tcb.connectionSocket /\ tcb'.localPort = tcb.localPort
      /\ tcb'.iss = tcb.iss /\ tcb'.snd_una = tcb.iss /\ tcb'.snd_nxt = Inc(tcb.iss)
      /\ tcb'.irs = tcb.irs /\ tcb'.rcv_nxt = tcb.rcv_nxt
  BY DEF ListenerAnswered, synAckDone, IInv, TypeOK, TransmissionControlBlock
<1>3. /\ listener.at = "answer" /\ listener' = ListenerIdle /\ reader' = reader
      /\ tcb' = [t EXCEPT !.threadLaunched = TRUE] /\ out' = {}
      /\ UNCHANGED <<errorMessage, aborted>>
  BY DEF ListenerAnswered
<1>4. tcb.state = "LISTEN" /\ tcb.rcv_nxt = Inc(tcb.irs) /\ tcb.connectionSocket
  BY <1>3 DEF IInv, AnswerUndisturbed, PeerIsHeard
<1>5. TypeOK'
  <2>1. tcb' \in TransmissionControlBlock
    <3> HIDE DEF t
    <3> QED
      BY <1>1, <1>3 DEF TransmissionControlBlock
  <2> QED
    BY <1>3, <2>1, IdleTypes DEF IInv, TypeOK
<1>6. SnapshotHolds'
  BY <1>3, <1>4 DEF IInv, SnapshotHolds
<1>7. AnswerUndisturbed'
  BY <1>3 DEF AnswerUndisturbed, ListenerIdle
<1>8. SequenceVariables'
  BY <1>2, <1>4 DEF SequenceVariables
<1>9. PeerIsHeard' /\ Roles'
  BY <1>2, <1>3, <1>4 DEF IInv, PeerIsHeard, Roles
<1> QED
  BY <1>5, <1>6, <1>7, <1>8, <1>9 DEF IInv

\* The block's thread copies the state: right now the copy is true.
LEMMA ReaderReceivesInvariant ==
    ASSUME IInv, NEW h \in Incoming, ReaderReceives(h)
    PROVE  IInv'
<1> USE DEF ReaderReceives
<1>1. TypeOK'
  <2>1. tcb.state \in State /\ h \in TCPHeader
    BY IncomingAssumption DEF IInv, TypeOK, TransmissionControlBlock
  <2> QED
    BY <2>1 DEF IInv, TypeOK
<1>2. SnapshotHolds' /\ AnswerUndisturbed' /\ SequenceVariables' /\ PeerIsHeard' /\ Roles'
  BY DEF IInv, SnapshotHolds, AnswerUndisturbed, SequenceVariables, PeerIsHeard, Roles
<1> QED
  BY <1>1, <1>2 DEF IInv

\* processUDPMessage, run by the block's thread on the state it copied.
LEMMA ReaderHandlesInvariant ==
    ASSUME IInv, NEW i \in SeqNumber, ReaderHandles(i)
    PROVE  IInv'
<1> DEFINE e == processUDPMessage(tcb, reader.state, reader.segment, i)
           t == e.tcb
<1>1. /\ tcb \in TransmissionControlBlock /\ reader.state \in State
      /\ reader.segment \in TCPHeader
  BY DEF IInv, TypeOK
<1>2. /\ reader.at = "handle" /\ Apply(e) /\ reader' = ReaderIdle
      /\ UNCHANGED <<listener, aborted>>
  BY DEF ReaderHandles
<1> e = processUDPMessage(tcb, reader.state, reader.segment, i)
  OBVIOUS
<1> HIDE DEF e
<1>3. /\ e \in Effect
      /\ t.passive = tcb.passive /\ t.threadLaunched = tcb.threadLaunched
      /\ t.connectionSocket = tcb.connectionSocket /\ t.localPort = tcb.localPort
  BY <1>1, ReaderEffect
<1>4. tcb' = t
  BY <1>2 DEF Apply
<1>5. reader.state \in {"SYN_SENT", "SYN_RECEIVED"} => tcb.state = reader.state
  BY <1>2 DEF IInv, SnapshotHolds
<1>6. \/ t = tcb
      \/ reader.state \in {"SYN_SENT", "SYN_RECEIVED"} /\ t.state = "CLOSED"
      \/ /\ reader.state = "SYN_SENT" /\ t.state = "SYN_RECEIVED"
         /\ t.snd_una = t.iss /\ t.snd_nxt = Inc(t.iss) /\ t.rcv_nxt = Inc(t.irs)
      \/ /\ reader.state = "SYN_SENT" /\ t.state = "ESTABLISHED" /\ t.iss = tcb.iss
         /\ t.snd_una = tcb.snd_nxt /\ t.snd_nxt = Inc(tcb.snd_nxt)
         /\ t.rcv_nxt = Inc(t.irs)
      \/ /\ reader.state = "SYN_RECEIVED" /\ t.state \in FollowsSynReceived(tcb)
         /\ SameNumbers(t, tcb)
  BY <1>1, ReaderEffect
<1>7. /\ tcb' \in TransmissionControlBlock /\ out' \in SUBSET TCPHeader
      /\ errorMessage' \in ErrorMessage
  BY <1>2, <1>3, ApplyType DEF IInv
<1> HIDE DEF t
<1>8. TypeOK'
  BY <1>2, <1>7, IdleTypes DEF IInv, TypeOK
<1>9. reader'.at = "receive"
  BY <1>2 DEF ReaderIdle
<1>10. SnapshotHolds'
  BY <1>9 DEF SnapshotHolds
<1>11. AnswerUndisturbed'
  BY <1>2, <1>4, <1>5, <1>6 DEF IInv, AnswerUndisturbed
<1>12. SequenceVariables'
  <2>1. CASE t = tcb
    BY <1>4, <2>1 DEF IInv, SequenceVariables
  <2>2. CASE t.state = "CLOSED"
    BY <1>4, <2>2 DEF SequenceVariables
  <2>3. CASE /\ t.state = "SYN_RECEIVED" /\ t.snd_una = t.iss
             /\ t.snd_nxt = Inc(t.iss) /\ t.rcv_nxt = Inc(t.irs)
    BY <1>4, <2>3 DEF SequenceVariables
  <2>4. CASE /\ reader.state = "SYN_SENT" /\ t.state = "ESTABLISHED" /\ t.iss = tcb.iss
             /\ t.snd_una = tcb.snd_nxt /\ t.snd_nxt = Inc(tcb.snd_nxt)
             /\ t.rcv_nxt = Inc(t.irs)
    <3>1. tcb.state = "SYN_SENT" /\ tcb.snd_nxt = Inc(tcb.iss) /\ ~t.passive
      BY <1>3, <1>5, <2>4 DEF IInv, SequenceVariables, Roles
    <3> QED
      BY <1>4, <2>4, <3>1 DEF SequenceVariables
  <2>5. CASE /\ reader.state = "SYN_RECEIVED" /\ t.state \in FollowsSynReceived(tcb)
             /\ SameNumbers(t, tcb)
    <3>1. tcb.state = "SYN_RECEIVED"
      BY <1>5, <2>5
    <3>2. t.state \in {"CLOSE_WAIT", "ESTABLISHED", "LISTEN"}
      BY <2>5 DEF FollowsSynReceived
    <3> QED
      BY <1>3, <1>4, <2>5, <3>1, <3>2 DEF IInv, SequenceVariables, SameNumbers
  <2> QED
    BY <1>6, <2>1, <2>2, <2>3, <2>4, <2>5
<1>13. tcb.threadLaunched
  BY <1>2 DEF IInv, Roles
<1>14. PeerIsHeard'
  BY <1>2, <1>3, <1>4, <1>13 DEF IInv, PeerIsHeard
<1>15. Roles'
  <2>1. t.state = "SYN_SENT" => tcb.state = "SYN_SENT"
    BY <1>1, <1>6 DEF FollowsSynReceived
  <2>2. t.state = "LISTEN" => tcb.state = "LISTEN" \/ tcb.passive
    BY <1>1, <1>6 DEF FollowsSynReceived
  <2> QED
    BY <1>3, <1>4, <1>9, <1>13, <2>1, <2>2 DEF IInv, Roles
<1> QED
  BY <1>8, <1>10, <1>11, <1>12, <1>14, <1>15 DEF IInv

-----------------------------------------------------------------------------
(***************************************************************************)
(* The theorems.                                                           *)
(***************************************************************************)

\* Every step of the three threads keeps the invariant.
LEMMA NextInvariant == IInv /\ [Next]_vars => IInv'
<1> SUFFICES ASSUME IInv, [Next]_vars PROVE IInv'
  OBVIOUS
<1>1. CASE UserThread
  BY <1>1, OpenActiveInvariant DEF UserThread
<1>2. CASE ListeningThread
  BY <1>2, ListenerReceivesInvariant, ListenerAbortsInvariant,
     ListenerHandlesInvariant, ListenerAnsweredInvariant DEF ListeningThread
<1>3. CASE TCBThread
  BY <1>3, ReaderReceivesInvariant, ReaderHandlesInvariant DEF TCBThread
<1>4. CASE UNCHANGED vars
  BY <1>4 DEF vars, IInv, TypeOK, SnapshotHolds, AnswerUndisturbed,
              SequenceVariables, PeerIsHeard, Roles
<1> QED
  BY <1>1, <1>2, <1>3, <1>4 DEF Next

\* IInv is an invariant of the block and its threads, for every set of ports, every
\* width of the sequence numbers and every set of segments that may arrive.
THEOREM Invariance == Spec => []IInv
BY InitInvariant, NextInvariant, PTL DEF Spec

\* Type correctness of the block and its threads.
THEOREM TypeCorrect == Spec => []TypeOK
<1>1. IInv => TypeOK
  BY DEF IInv
<1> QED
  BY <1>1, Invariance, PTL

\* The unlocked copy of the state in processUDPMessage is safe to act on.
THEOREM SnapshotSafe == Spec => []SnapshotHolds
<1>1. IInv => SnapshotHolds
  BY DEF IInv
<1> QED
  BY <1>1, Invariance, PTL

\* Nobody disturbs a block between the two halves of sendSYNACK.
THEOREM AnswerSafe == Spec => []AnswerUndisturbed
<1>1. IInv => AnswerUndisturbed
  BY DEF IInv
<1> QED
  BY <1>1, Invariance, PTL

\* The sequence variables fit the state, for every width of the numbers.
THEOREM SequenceSafe == Spec => []SequenceVariables
<1>1. IInv => SequenceVariables
  BY DEF IInv
<1> QED
  BY <1>1, Invariance, PTL

\* A connection that waits for its peer has a thread and a socket to hear it.
THEOREM HearingSafe == Spec => []PeerIsHeard
<1>1. IInv => PeerIsHeard
  BY DEF IInv
<1> QED
  BY <1>1, Invariance, PTL

-----------------------------------------------------------------------------
(***************************************************************************)
(* What makes a connection ESTABLISHED.                                    *)
(***************************************************************************)

\* The only acceptable acknowledgment of a SYN alone in flight is the number
\* after its ISS; in SYN_RECEIVED the ISS itself passes too.
LEMMA AcknowledgedNumbers ==
    ASSUME NEW t \in TransmissionControlBlock, NEW h \in TCPHeader,
           t.snd_una = t.iss, t.snd_nxt = Inc(t.iss)
    PROVE  /\ AckAcceptable(t, h) => h.ackNumber = Inc(t.iss)
           /\ AckInWindow(t, h) => h.ackNumber \in {t.iss, Inc(t.iss)}
<1>1. t.iss \in 0 .. MaxSeq /\ h.ackNumber \in 0 .. MaxSeq /\ MaxSeq \in Nat
  BY MaxSeqAssumption DEF TransmissionControlBlock, TCPHeader, SeqNumber
<1>2. CASE t.iss = MaxSeq
  <2>1. t.snd_nxt = 0
    BY <1>2 DEF Inc
  <2> QED
    BY <1>1, <1>2, <2>1 DEF AckAcceptable, AckInWindow
<1>3. CASE t.iss # MaxSeq
  <2>1. t.snd_nxt = t.iss + 1
    BY <1>3 DEF Inc
  <2> QED
    BY <1>1, <2>1 DEF AckAcceptable, AckInWindow
<1> QED
  BY <1>2, <1>3

\* The handlers of the block's thread leave a block ESTABLISHED only for an
\* acceptable acknowledgment that is not a reset.
LEMMA EstablishingSegment ==
    ASSUME NEW t \in TransmissionControlBlock, NEW s \in State,
           s \in {"SYN_SENT", "SYN_RECEIVED"} => t.state = s,
           NEW h \in TCPHeader, NEW i \in SeqNumber,
           NEW e, e = processUDPMessage(t, s, h, i),
           t.state # "ESTABLISHED", e.tcb.state = "ESTABLISHED"
    PROVE  /\ "ACK" \in h.control /\ "RST" \notin h.control
           /\ \/ s = "SYN_SENT" /\ AckAcceptable(t, h)
              \/ s = "SYN_RECEIVED" /\ AckInWindow(t, h)
<1>0. /\ Ignores(t).tcb.state = t.state
      /\ sendRST(t, h).tcb.state = t.state
      /\ \A x \in State : MovesTo(t, x).tcb.state = x
      /\ \A r : FailsWith(t, r).tcb.state = "CLOSED"
  BY DEF Ignores, Sends, sendRST, MovesTo, FailsWith, TransmissionControlBlock
<1>1. CASE s = "SYN_SENT"
  <2>1. sendSYNACK(t, h, i).tcb.state = "SYN_RECEIVED"
    <3> DEFINE c == synAckStarted(t, h, i).tcb
    <3>1. c \in TransmissionControlBlock
      BY SynAckStartedType DEF Effect
    <3>2. sendSYNACK(t, h, i).tcb = synAckDone(c)
      BY DEF sendSYNACK, Sends
    <3> HIDE DEF c
    <3> QED
      BY <3>1, <3>2 DEF synAckDone, TransmissionControlBlock
  <2> QED
    BY <1>0, <1>1, <2>1 DEF processUDPMessage, processSynSentSocketMessage
<1>2. CASE s = "SYN_RECEIVED"
  <2>1. [FailsWith(t, "CONNECTION_RESET") EXCEPT !.out = sendRST(t, h).out].tcb.state = "CLOSED"
    BY DEF FailsWith, TransmissionControlBlock
  <2> QED
    BY <1>0, <1>2, <2>1 DEF processUDPMessage, processSynReceivedSocketMessage, State
<1>3. CASE s \notin {"SYN_SENT", "SYN_RECEIVED"}
  BY <1>0, <1>3 DEF processUDPMessage
<1> QED
  BY <1>1, <1>2, <1>3

\* The step that EstablishedByAck speaks of.
EstablishedStep ==
    tcb.state # "ESTABLISHED" /\ tcb'.state = "ESTABLISHED" =>
        /\ "ACK" \in reader.segment.control
        /\ "RST" \notin reader.segment.control
        /\ reader.segment.ackNumber \in
              IF tcb.state = "SYN_SENT" THEN {Inc(tcb.iss)}
                                        ELSE {tcb.iss, Inc(tcb.iss)}

\* Only the block's thread establishes a connection, and only on an acknowledgment
\* in the window of the SYN it sent last: ISS + 1, or in SYN_RECEIVED (where the code
\* compares with <=) the ISS itself, which acknowledges nothing.
THEOREM EstablishedOnlyInWindow == Spec => EstablishedByAck
<1>1. IInv /\ [Next]_vars => [EstablishedStep]_vars
  <2> SUFFICES ASSUME IInv, Next, tcb.state # "ESTABLISHED", tcb'.state = "ESTABLISHED"
               PROVE  EstablishedStep
    BY DEF EstablishedStep
  <2>0. tcb \in TransmissionControlBlock
    BY DEF IInv, TypeOK
  <2>1. CASE UserThread
    <3> PICK q \in EphemeralPort, p \in Port, i \in SeqNumber : OpenActive(q, p, i)
      BY <2>1 DEF UserThread
    <3>1. tcb'.state = "SYN_SENT"
      BY <2>0 DEF OpenActive, Apply, sendSYN, Sends, createLocalSocket,
                  createForeignSocketAddress, TransmissionControlBlock
    <3> QED
      BY <3>1
  <2>2. CASE ListeningThread
    <3>1. ASSUME NEW q \in EphemeralPort, NEW i \in SeqNumber, ListenerHandles(q, i)
          PROVE  tcb'.state = tcb.state
      <4> DEFINE e == processListeningSocketMessage(tcb, listener.segment, q, i)
      <4>1. tcb' = e.tcb
        BY <3>1 DEF ListenerHandles, Apply
      <4>2. e.tcb.state = tcb.state
        BY <2>0, ListenEffect, OpenAssumption DEF IInv, TypeOK, PortNumber
      <4> QED
        BY <4>1, <4>2
    <3>2. ASSUME ListenerAnswered PROVE tcb'.state = "SYN_RECEIVED"
      BY <2>0, <3>2 DEF ListenerAnswered, synAckDone, TransmissionControlBlock
    <3> QED
      BY <2>2, <3>1, <3>2 DEF ListeningThread, ListenerReceives, ListenerAborts
  <2>3. CASE TCBThread
    <3>1. PICK i \in SeqNumber : ReaderHandles(i)
      BY <2>3 DEF TCBThread, ReaderReceives
    <3> DEFINE h == reader.segment
               e == processUDPMessage(tcb, reader.state, h, i)
    <3>2. tcb' = e.tcb /\ reader.at = "handle"
      BY <3>1 DEF ReaderHandles, Apply
    <3>3. /\ reader.state \in State /\ h \in TCPHeader
          /\ reader.state \in {"SYN_SENT", "SYN_RECEIVED"} => tcb.state = reader.state
      BY <3>2 DEF IInv, TypeOK, SnapshotHolds
    <3>4. /\ "ACK" \in h.control /\ "RST" \notin h.control
          /\ \/ reader.state = "SYN_SENT" /\ AckAcceptable(tcb, h)
             \/ reader.state = "SYN_RECEIVED" /\ AckInWindow(tcb, h)
      BY <2>0, <3>2, <3>3, EstablishingSegment
    <3>5. tcb.snd_una = tcb.iss /\ tcb.snd_nxt = Inc(tcb.iss)
      BY <3>3, <3>4 DEF IInv, SequenceVariables
    <3>6. /\ AckAcceptable(tcb, h) => h.ackNumber = Inc(tcb.iss)
          /\ AckInWindow(tcb, h) => h.ackNumber \in {tcb.iss, Inc(tcb.iss)}
      BY <2>0, <3>3, <3>5, AcknowledgedNumbers
    <3> QED
      BY <3>3, <3>4, <3>6 DEF EstablishedStep
  <2> QED
    BY <2>1, <2>2, <2>3 DEF Next
<1> QED
  BY <1>1, Invariance, PTL DEF Spec, EstablishedByAck, EstablishedStep

-----------------------------------------------------------------------------
(***************************************************************************)
(* Resets are not answered with resets.                                    *)
(***************************************************************************)

\* No header but that of a reset has the RST bit.
LEMMA ResetSenders ==
    ASSUME NEW t \in TransmissionControlBlock, NEW h \in TCPHeader, NEW i \in SeqNumber
    PROVE  /\ \A k \in sendSYNACK(t, h, i).out : "RST" \notin k.control
           /\ \A k \in synAckStarted(t, h, i).out : "RST" \notin k.control
           /\ \A k \in sendEstablishedACK(t, h).out : "RST" \notin k.control
<1>1. \A l, f : constructSendTCPHeader(l, f).control = {}
  BY DEF constructSendTCPHeader
<1>2. synAckStarted(t, h, i).out =
          {[constructSendTCPHeader(t.localPort, t.foreignPort) EXCEPT
                !.sequenceNumber = i, !.ackNumber = Inc(h.sequenceNumber),
                !.control = {"SYN", "ACK"}]}
  BY DEF synAckStarted, Sends
<1>3. sendSYNACK(t, h, i).out = synAckStarted(t, h, i).out
  BY DEF sendSYNACK, Sends
<1>4. \A k \in synAckStarted(t, h, i).out : k.control = {"SYN", "ACK"}
  BY <1>2 DEF constructSendTCPHeader
<1>5. \A k \in sendEstablishedACK(t, h).out : k.control = {"ACK"}
  BY DEF sendEstablishedACK, Sends, constructSendTCPHeader
<1> QED
  BY <1>3, <1>4, <1>5

\* What the block's thread answers with a reset is not one.
LEMMA ReaderResets ==
    ASSUME NEW t \in TransmissionControlBlock, NEW s \in State,
           NEW h \in TCPHeader, NEW i \in SeqNumber,
           NEW e, e = processUDPMessage(t, s, h, i),
           NEW k \in e.out, "RST" \in k.control
    PROVE  "RST" \notin h.control
<1>0. /\ Ignores(t).out = {}
      /\ \A x : MovesTo(t, x).out = {}
      /\ \A r : FailsWith(t, r).out = {}
  BY DEF Ignores, Sends, MovesTo, FailsWith
<1>1. CASE s = "SYN_SENT"
  BY <1>0, <1>1, ResetSenders DEF processUDPMessage, processSynSentSocketMessage
<1>2. CASE s = "SYN_RECEIVED"
  BY <1>0, <1>2 DEF processUDPMessage, processSynReceivedSocketMessage
<1>3. CASE s \notin {"SYN_SENT", "SYN_RECEIVED"}
  BY <1>0, <1>3 DEF processUDPMessage
<1> QED
  BY <1>1, <1>2, <1>3

\* What the listening thread answers with a reset is not one.
LEMMA ListenerResets ==
    ASSUME NEW t \in TransmissionControlBlock, NEW h \in TCPHeader,
           NEW q \in PortNumber, NEW i \in SeqNumber,
           NEW k \in processListeningSocketMessage(t, h, q, i).out
    PROVE  "RST" \notin h.control
<1>1. Ignores(t).out = {}
  BY DEF Ignores, Sends
<1> QED
  BY <1>1 DEF processListeningSocketMessage

\* The step that ResetNotAnswered speaks of.
ResetStep ==
    /\ reader.at = "handle" /\ reader' = ReaderIdle /\ SendsReset
          => "RST" \notin reader.segment.control
    /\ listener.at = "handle" /\ listener'.at # "handle" /\ SendsReset
          => "RST" \notin listener.segment.control

\* Whatever arrives, neither thread of a block answers a reset with a reset.
THEOREM NoResetForReset == Spec => ResetNotAnswered
<1>1. IInv /\ [Next]_vars => ResetStep
  <2> SUFFICES ASSUME IInv, [Next]_vars PROVE ResetStep
    OBVIOUS
  <2>0. tcb \in TransmissionControlBlock /\ ReaderIdle.at = "receive"
    BY DEF IInv, TypeOK, ReaderIdle
  <2>1. ASSUME NEW q \in EphemeralPort, NEW i \in SeqNumber, ListenerHandles(q, i)
        PROVE  ResetStep
    <3>1. /\ listener.segment \in TCPHeader /\ q \in PortNumber
          /\ reader' = reader
          /\ out' = processListeningSocketMessage(tcb, listener.segment, q, i).out
      BY <2>1, OpenAssumption DEF ListenerHandles, Apply, IInv, TypeOK, PortNumber
    <3> QED
      BY <2>0, <3>1, ListenerResets DEF ResetStep, SendsReset
  <2>2. ASSUME NEW i \in SeqNumber, ReaderHandles(i)
        PROVE  ResetStep
    <3>1. /\ reader.segment \in TCPHeader /\ reader.state \in State
          /\ listener' = listener
          /\ out' = processUDPMessage(tcb, reader.state, reader.segment, i).out
      BY <2>2 DEF ReaderHandles, Apply, IInv, TypeOK
    <3> QED
      BY <2>0, <3>1, ReaderResets DEF ResetStep, SendsReset
  <2>3. CASE \/ UserThread \/ ListenerAborts \/ UNCHANGED vars
    BY <2>0, <2>3 DEF UserThread, OpenActive, ListenerAborts, vars, ResetStep
  <2>4. CASE ListenerAnswered
    BY <2>0, <2>4 DEF ListenerAnswered, ResetStep
  <2>5. CASE \/ \E h \in Incoming : ListenerReceives(h)
             \/ \E h \in Incoming : ReaderReceives(h)
    BY <2>0, <2>5 DEF ListenerReceives, ReaderReceives, ListenerIdle, ResetStep
  <2> QED
    BY <2>1, <2>2, <2>3, <2>4, <2>5 DEF Next, ListeningThread, TCBThread
<1> QED
  BY <1>1, Invariance, PTL DEF Spec, ResetNotAnswered, ResetStep

-----------------------------------------------------------------------------
(***************************************************************************)
(* Refinement.                                                             *)
(***************************************************************************)

\* What the handlers of the block's thread do to the state and the error that
\* the user sees.
LEMMA ReaderOutcomeSeen ==
    ASSUME NEW t \in TransmissionControlBlock, NEW s \in State,
           NEW h \in TCPHeader, NEW i \in SeqNumber,
           NEW e, e = processUDPMessage(t, s, h, i)
    PROVE  \/ e.tcb.state = t.state /\ e.error = "unchanged"
           \/ /\ s \in {"SYN_SENT", "SYN_RECEIVED"}
              /\ e.tcb.state = "CLOSED" /\ e.error = "CONNECTION_RESET"
           \/ /\ s = "SYN_RECEIVED" /\ ~t.passive
              /\ e.tcb.state = "CLOSED" /\ e.error = "CONNECTION_REFUSED"
           \/ s = "SYN_SENT" /\ e.tcb.state = "SYN_RECEIVED" /\ e.error = "unchanged"
           \/ /\ s \in {"SYN_SENT", "SYN_RECEIVED"}
              /\ e.tcb.state = "ESTABLISHED" /\ e.error = "unchanged"
           \/ /\ s = "SYN_RECEIVED" /\ t.passive
              /\ e.tcb.state = "LISTEN" /\ e.error = "unchanged"
           \/ s = "SYN_RECEIVED" /\ e.tcb.state = "CLOSE_WAIT" /\ e.error = "unchanged"
<1>1. /\ Ignores(t).tcb = t /\ Ignores(t).error = "unchanged"
      /\ sendRST(t, h).tcb = t /\ sendRST(t, h).error = "unchanged"
      /\ \A x : MovesTo(t, x).tcb.state = x /\ MovesTo(t, x).error = "unchanged"
      /\ \A r : FailsWith(t, r).tcb.state = "CLOSED" /\ FailsWith(t, r).error = r
  BY DEF Ignores, Sends, sendRST, MovesTo, FailsWith, TransmissionControlBlock
<1>2. ASSUME NEW f, f = [FailsWith(t, "CONNECTION_RESET") EXCEPT !.out = sendRST(t, h).out]
      PROVE  f.tcb.state = "CLOSED" /\ f.error = "CONNECTION_RESET"
  BY <1>2 DEF FailsWith, TransmissionControlBlock
<1>3. sendSYNACK(t, h, i).tcb.state = "SYN_RECEIVED" /\ sendSYNACK(t, h, i).error = "unchanged"
  <2> DEFINE c == synAckStarted(t, h, i).tcb
  <2>1. c \in TransmissionControlBlock
    BY SynAckStartedType DEF Effect
  <2>2. sendSYNACK(t, h, i).tcb = synAckDone(c) /\ sendSYNACK(t, h, i).error = "unchanged"
    BY DEF sendSYNACK, Sends
  <2> HIDE DEF c
  <2> QED
    BY <2>1, <2>2 DEF synAckDone, TransmissionControlBlock
<1>4. sendEstablishedACK(t, h).tcb.state = "ESTABLISHED" /\ sendEstablishedACK(t, h).error = "unchanged"
  BY DEF sendEstablishedACK, Sends, createForeignSocketAddress, TransmissionControlBlock
<1>5. CASE s = "SYN_SENT"
  BY <1>1, <1>3, <1>4, <1>5, ReaderOutcome
<1>6. CASE s # "SYN_SENT"
  BY <1>1, <1>2, <1>6, ReaderOutcome
<1> QED
  BY <1>5, <1>6

\* The block implements the connection of ConnectionStates: from a step of any of
\* its threads the user sees a step of that connection or none.
THEOREM BlockImplementsConnection == Spec => ImplementsConnection
<1>1. Init => Connection!Init
  <2> SUFFICES ASSUME Init, NEW passive \in BOOLEAN, tcb = newTCB(UserPort, passive)
               PROVE  Connection!Init
    BY DEF Init
  <2> QED
    BY DEF Init, newTCB, Connection!Init
<1>2. IInv /\ [Next]_vars => [Connection!Next]_(Connection!vars)
  <2> SUFFICES ASSUME IInv, [Next]_vars PROVE [Connection!Next]_(Connection!vars)
    OBVIOUS
  <2> USE DEF Connection!Next, Connection!vars
  <2>0. tcb \in TransmissionControlBlock
    BY DEF IInv, TypeOK
  <2>1. ASSUME NEW q \in EphemeralPort, NEW p \in Port, NEW i \in SeqNumber,
               OpenActive(q, p, i)
        PROVE  Connection!ActiveOpen /\ UNCHANGED tcb.passive
    <3>1. /\ tcb'.state = "SYN_SENT" /\ tcb'.passive = tcb.passive
          /\ errorMessage' = errorMessage
      BY <2>0, <2>1 DEF OpenActive, Apply, sendSYN, Sends, createLocalSocket,
                        createForeignSocketAddress, TransmissionControlBlock
    <3> QED
      BY <2>0, <2>1, <3>1 DEF OpenActive, IInv, Roles, Connection!ActiveOpen
  <2>2. ASSUME NEW q \in EphemeralPort, NEW i \in SeqNumber, ListenerHandles(q, i)
        PROVE  UNCHANGED Connection!vars
    <3> DEFINE e == processListeningSocketMessage(tcb, listener.segment, q, i)
    <3>1. tcb' = e.tcb /\ (e.error = "unchanged" => errorMessage' = errorMessage)
      BY <2>2 DEF ListenerHandles, Apply
    <3>2. e.tcb.state = tcb.state /\ e.tcb.passive = tcb.passive /\ e.error = "unchanged"
      BY <2>0, ListenEffect, OpenAssumption DEF IInv, TypeOK, PortNumber
    <3> QED
      BY <3>1, <3>2
  <2>3. CASE ListenerAnswered
    <3>1. /\ tcb'.state = "SYN_RECEIVED" /\ tcb'.passive = tcb.passive
          /\ errorMessage' = errorMessage
      BY <2>0, <2>3 DEF ListenerAnswered, synAckDone, TransmissionControlBlock
    <3>2. tcb.state = "LISTEN"
      BY <2>3 DEF ListenerAnswered, IInv, AnswerUndisturbed
    <3> QED
      BY <3>1, <3>2 DEF Connection!Answer
  <2>4. ASSUME NEW i \in SeqNumber, ReaderHandles(i)
        PROVE  [Connection!Next]_(Connection!vars)
    <3> DEFINE e == processUDPMessage(tcb, reader.state, reader.segment, i)
    <3>1. /\ tcb' = e.tcb
          /\ errorMessage' = IF e.error = "unchanged" THEN errorMessage ELSE e.error
          /\ reader.at = "handle"
      BY <2>4 DEF ReaderHandles, Apply
    <3>2. /\ reader.state \in State /\ reader.segment \in TCPHeader
          /\ reader.state \in {"SYN_SENT", "SYN_RECEIVED"} => tcb.state = reader.state
      BY <3>1 DEF IInv, TypeOK, SnapshotHolds
    <3>3. \/ tcb'.state = tcb.state /\ errorMessage' = errorMessage
          \/ /\ tcb.state \in {"SYN_SENT", "SYN_RECEIVED"}
             /\ tcb'.state = "CLOSED" /\ errorMessage' = "CONNECTION_RESET"
          \/ /\ tcb.state = "SYN_RECEIVED" /\ ~tcb.passive
             /\ tcb'.state = "CLOSED" /\ errorMessage' = "CONNECTION_REFUSED"
          \/ /\ tcb.state = "SYN_SENT"
             /\ tcb'.state = "SYN_RECEIVED" /\ errorMessage' = errorMessage
          \/ /\ tcb.state \in {"SYN_SENT", "SYN_RECEIVED"}
             /\ tcb'.state = "ESTABLISHED" /\ errorMessage' = errorMessage
          \/ /\ tcb.state = "SYN_RECEIVED" /\ tcb.passive
             /\ tcb'.state = "LISTEN" /\ errorMessage' = errorMessage
          \/ /\ tcb.state = "SYN_RECEIVED"
             /\ tcb'.state = "CLOSE_WAIT" /\ errorMessage' = errorMessage
      BY <2>0, <3>1, <3>2, ReaderOutcomeSeen
    <3>4. tcb'.passive = tcb.passive
      BY <2>0, <3>1, <3>2, ReaderEffect
    <3> QED
      BY <2>0, <3>3, <3>4 DEF Connection!Reset, Connection!Refuse, Connection!Answer,
           Connection!Establish, Connection!ListenAgain, Connection!PeerCloses
  <2>5. CASE \/ ListenerAborts \/ UNCHANGED vars
             \/ \E h \in Incoming : ListenerReceives(h) \/ ReaderReceives(h)
    BY <2>5 DEF ListenerAborts, ListenerReceives, ReaderReceives, vars
  <2> QED
    BY <2>1, <2>2, <2>3, <2>4, <2>5 DEF Next, UserThread, ListeningThread, TCBThread
<1> QED
  BY <1>1, <1>2, Invariance, PTL DEF Spec, ImplementsConnection, Connection!Spec

=============================================================================
