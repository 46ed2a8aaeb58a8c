--------------------------- MODULE HandshakeTests ---------------------------
(***************************************************************************)
(* The test program: the sections of TCPHandshakeTest.cpp, each of which   *)
(* puts a block in a state, hands it one segment through the mocks of the  *)
(* socket library and checks the reply, the state and the error message.   *)
(*                                                                         *)
(* A test case runs once per section, from its beginning: only the static  *)
(* errorMessage and the threads that were launched outlive a section.      *)
(***************************************************************************)
EXTENDS TCB, Sequences

CONSTANTS
    PASSIVE_LOCAL_PORT, ACTIVE_LOCAL_PORT, ACTIVE_FOREIGN_PORT_CLOSED,
    MockPort,       \* what the mocked getSocketPort returns
    ANY_NUMBER,
    Garbage         \* what may be read through a pointer to a dead buffer

ASSUME TestAssumption ==
    /\ {PASSIVE_LOCAL_PORT, ACTIVE_LOCAL_PORT, ACTIVE_FOREIGN_PORT_CLOSED, MockPort} \subseteq Port
    /\ ACTIVE_LOCAL_PORT \notin {PASSIVE_LOCAL_PORT, ACTIVE_FOREIGN_PORT_CLOSED}
    /\ ANY_NUMBER \in SeqNumber \ {0}
    /\ Garbage \subseteq TCPHeader

\* The numbers that a section adds to an ISS or subtracts from it, from 3 below to 1
\* above, are different numbers of the type.
ASSUME WidthAssumption == MaxSeq >= 4

VARIABLES
    status,         \* of the test program
    todo,           \* the test cases that have not begun
    test,           \* the section that is running: test case and number
    stage,          \* how far it is
    tcb,            \* its block
    received,       \* its segment, mockHeader
    sent,           \* the sendMessageQueue of its mock
    intact,         \* whether the mock handed over mockHeader itself
    before,         \* block and error message before the segment
    errorMessage,   \* SimpleTCP::errorMessage
    assigned,       \* whether the section's own handler assigned it
    launched        \* whether some section left a thread behind

vars == <<status, todo, test, stage, tcb, received, sent, intact, before,
          errorMessage, assigned, launched>>

TestCase == {"TCB_Closed", "TCB_Listen", "TCB_SynSent", "TCB_SynReceived"}

-----------------------------------------------------------------------------
(***************************************************************************)
(* The sections: control bits, sequence and acknowledgment number of the   *)
(* segment, then what is required of the reply, the state and the error.   *)
(* i is the ISS of the block, n a number that the test draws.              *)
(***************************************************************************)
Plus(n, k) == (n + k) % (MaxSeq + 1)

Section(bits, seq, ack, reply, state, error) ==
    [control |-> bits, sequenceNumber |-> seq, ackNumber |-> ack,
     reply |-> reply, state |-> state, error |-> error]

\* The section named "SYN bit is ON" sets FIN.
ClosedSections ==
    <<Section({},      ANY_NUMBER, 0,          "refusal", "any", "any"),
      Section({"ACK"}, ANY_NUMBER, ANY_NUMBER, "reset",   "any", "any"),
      Section({"RST"}, ANY_NUMBER, 0,          "none",    "any", "any"),
      Section({"FIN"}, ANY_NUMBER, 0,          "refusal", "any", "any"),
      Section({"FIN"}, ANY_NUMBER, 0,          "refusal", "any", "any")>>

ListenSections(n) ==
    <<Section({"RST"}, 0, 0,          "none",    "any",          "any"),
      Section({"ACK"}, 0, ANY_NUMBER, "reset",   "any",          "any"),
      Section({"SYN"}, n, 0,          "SYN_ACK", "SYN_RECEIVED", "any")>>

\* The first one has no segment: it calls sendSYNMessage.
SynSentSections(i, n) ==
    <<Section({},             0,          0,           "SYN",     "SYN_SENT",     "any"),
      Section({"ACK"},        ANY_NUMBER, i,           "reset",   "any",          "any"),
      Section({"ACK"},        ANY_NUMBER, Plus(i, -3), "reset",   "any",          "any"),
      Section({"ACK"},        ANY_NUMBER, Plus(i, 2),  "reset",   "any",          "any"),
      Section({"ACK", "RST"}, ANY_NUMBER, Plus(i, 1),  "none",    "CLOSED",       "CONNECTION_RESET"),
      Section({"ACK", "RST"}, ANY_NUMBER, i,           "none",    "any",          "any"),
      Section({"RST"},        0,          0,           "none",    "any",          "any"),
      Section({"SYN", "ACK"}, n,          Plus(i, 1),  "ACK",     "ESTABLISHED",  "any"),
      Section({"SYN", "ACK"}, n,          i,           "reset",   "any",          "any"),
      Section({"SYN"},        n,          0,           "SYN_ACK", "SYN_RECEIVED", "any"),
      Section({},             0,          0,           "none",    "any",          "any")>>

SynReceivedSections(i) ==
    <<Section({"RST"}, ANY_NUMBER, 0,          "none",  "LISTEN",      "any"),
      Section({"RST"}, ANY_NUMBER, 0,          "none",  "CLOSED",      "CONNECTION_REFUSED"),
      Section({"SYN"}, ANY_NUMBER, 0,          "RST",   "CLOSED",      "CONNECTION_RESET"),
      Section({},      ANY_NUMBER, 0,          "none",  "any",         "any"),
      Section({"ACK"}, ANY_NUMBER, Plus(i, 3), "none",  "ESTABLISHED", "any"),
      Section({"ACK"}, ANY_NUMBER, Plus(i, 1), "reset", "any",         "any"),
      Section({},      ANY_NUMBER, 0,          "none",  "any",         "any"),
      Section({"FIN"}, ANY_NUMBER, 0,          "none",  "CLOSE_WAIT",  "any")>>

Sections(case, i, n) ==
    CASE case = "TCB_Closed"      -> ClosedSections
      [] case = "TCB_Listen"      -> ListenSections(n)
      [] case = "TCB_SynSent"     -> SynSentSections(i, n)
      [] case = "TCB_SynReceived" -> SynReceivedSections(i)

Row == Sections(test.case, 0, 0)[test.section]

\* What a test case puts in its block: createTCB, and the fields it overwrites.
createTCB(case, section, i) ==
    CASE case = "TCB_SynSent" /\ section > 1 ->
             [newTCB(ACTIVE_LOCAL_PORT, FALSE) EXCEPT
                  !.state = "SYN_SENT", !.iss = i, !.snd_nxt = Inc(i)]
      [] case = "TCB_SynReceived" ->
             [newTCB(ACTIVE_LOCAL_PORT, section # 2) EXCEPT
                  !.state = "SYN_RECEIVED", !.iss = i,
                  !.snd_una = Plus(i, 2), !.snd_nxt = Plus(i, 3)]
      [] case = "TCB_Listen" -> newTCB(PASSIVE_LOCAL_PORT, TRUE)
      [] OTHER -> newTCB(ACTIVE_LOCAL_PORT, FALSE)

createHeader(case) ==
    CASE case = "TCB_Closed" -> constructSendTCPHeader(ACTIVE_LOCAL_PORT, ACTIVE_FOREIGN_PORT_CLOSED)
      [] case = "TCB_Listen" -> constructSendTCPHeader(ACTIVE_LOCAL_PORT, PASSIVE_LOCAL_PORT)
      [] OTHER               -> constructSendTCPHeader(PASSIVE_LOCAL_PORT, ACTIVE_LOCAL_PORT)

-----------------------------------------------------------------------------
(***************************************************************************)
(* The code under test, called from one thread.                            *)
(***************************************************************************)
Launches(e) == [e EXCEPT !.tcb.threadLaunched = TRUE]

\* Mutant: the thread of a block that refused a segment is launched too.
processRawIPMessageLaunching(t, ports, h, i) ==
    CASE h.sourcePort \in ports -> Ignores(t)
      [] h.sourcePort \notin ports /\ h.destinationPort \notin ports ->
             IF "RST" \in h.control THEN Ignores(t) ELSE Launches(Sends(t, {closedReply(h)}))
      [] h.sourcePort \notin ports /\ h.destinationPort \in ports ->
             LET e == processListeningSocketMessage(t, h, MockPort, i)
             IN  IF AnswersSYN(h) THEN Launches([e EXCEPT !.tcb = synAckDone(e.tcb)]) ELSE e

\* processRawIPMessage: ports are the keys of tcbMap, that of the block or none.
processRawIPMessage(t, ports, h, i) ==
    CASE h.sourcePort \in ports -> Ignores(t)
      [] h.sourcePort \notin ports /\ h.destinationPort \notin ports ->
             IF "RST" \in h.control THEN Ignores(t) ELSE Sends(t, {closedReply(h)})
      [] h.sourcePort \notin ports /\ h.destinationPort \in ports ->
             LET e == processListeningSocketMessage(t, h, MockPort, i)
             IN  IF AnswersSYN(h) THEN Launches([e EXCEPT !.tcb = synAckDone(e.tcb)]) ELSE e

Raw(case) == case \in {"TCB_Closed", "TCB_Listen"}

Handled(t, h, i) ==
    CASE test = [case |-> "TCB_SynSent", section |-> 1] ->
             Launches(sendSYN(t, MockPort, PASSIVE_LOCAL_PORT, i))
      [] test.case = "TCB_Closed" -> processRawIPMessage(t, {}, h, i)
      [] test.case = "TCB_Listen" -> processRawIPMessage(t, {PASSIVE_LOCAL_PORT}, h, i)
      [] OTHER -> processUDPMessage(t, t.state, h, i)

\* popFromSendSendMessageQueue
implHeader == IF sent = {} THEN noHeader ELSE CHOOSE h \in sent : TRUE

\* operator==, "usually effective enough".
Equal(g, h) ==
    /\ g.sourcePort = h.sourcePort /\ g.destinationPort = h.destinationPort
    /\ g.sequenceNumber = h.sequenceNumber /\ g.ackNumber = h.ackNumber

-----------------------------------------------------------------------------
Fresh == [tcb |-> newTCB(NoPort, FALSE), error |-> "NO_ERROR"]

Init ==
    /\ status = "running"
    /\ todo \in {TestCase \ {c} : c \in TestCase}
    /\ test = [case |-> CHOOSE c \in TestCase : c \notin todo, section |-> 1]
    /\ stage = "arrange"
    /\ tcb = Fresh.tcb
    /\ received = noHeader
    /\ sent = {}
    /\ intact = TRUE
    /\ before = Fresh
    /\ errorMessage = "NO_ERROR"
    /\ assigned = FALSE
    /\ launched = FALSE

Running(at) == status = "running" /\ stage = at

\* A new mock, a new block and the segment; i and n come from generateISS.
Arranges(i, n) ==
    /\ Running("arrange")
    /\ LET row == Sections(test.case, i, n)[test.section]
       IN  received' = [createHeader(test.case) EXCEPT
                            !.control = row.control,
                            !.sequenceNumber = row.sequenceNumber,
                            !.ackNumber = row.ackNumber]
    /\ tcb' = createTCB(test.case, test.section, i)
    /\ sent' = {}
    /\ before' = [tcb |-> tcb', error |-> errorMessage]
    /\ stage' = "process"
    /\ UNCHANGED <<status, todo, test, intact, errorMessage, assigned, launched>>

\* The block handles h, drawing i.
Handles(h, i) ==
    LET e == Handled(tcb, h, i)
    IN  /\ tcb' = e.tcb
        /\ sent' = e.out
        /\ assigned' = (e.error # "unchanged")
        /\ errorMessage' = IF assigned' THEN e.error ELSE errorMessage
        /\ launched' = (launched \/ e.tcb.threadLaunched)
        /\ stage' = "require"
        /\ UNCHANGED <<status, todo, test, received, before>>

\* The mock copies the segment from the buffer that addToReceiveMessageQueue
\* filled, and whose lifetime has ended: as a rule it still holds it.
Processes(i) ==
    /\ Running("process")
    /\ Handles(received, i)
    /\ intact' = TRUE

HasSegment == test # [case |-> "TCB_SynSent", section |-> 1]

ProcessesGarbage(h, i) ==
    /\ Running("process") /\ HasSegment
    /\ Handles(h, i)
    /\ intact' = FALSE

\* assert(ipv4Header.protocol == IPPROTO_UDP) of what it no longer holds.
AbortsOnGarbage ==
    /\ Running("process") /\ Raw(test.case)
    /\ status' = "aborted"
    /\ intact' = FALSE
    /\ UNCHANGED <<todo, test, stage, tcb, received, sent, before, errorMessage, assigned, launched>>

\* Whatever was required, the test program forgets the section and goes on with
\* the next one, or with any test case that is left.
GoesOn ==
    /\ Running("require")
    /\ \/ /\ test.section < Len(Sections(test.case, 0, 0))
          /\ test' = [test EXCEPT !.section = @ + 1]
          /\ todo' = todo
          /\ stage' = "arrange"
       \/ /\ test.section = Len(Sections(test.case, 0, 0))
          /\ \E c \in todo : test' = [case |-> c, section |-> 1] /\ todo' = todo \ {c}
          /\ stage' = "arrange"
       \/ /\ test.section = Len(Sections(test.case, 0, 0))
          /\ todo = {}
          /\ stage' = "ended"
          /\ UNCHANGED <<test, todo>>
    /\ tcb' = Fresh.tcb /\ before' = Fresh /\ received' = noHeader /\ sent' = {}
    /\ intact' = TRUE /\ assigned' = FALSE
    /\ UNCHANGED <<status, errorMessage, launched>>

\* A thread that was left behind reads the mocked connection socket: the mock
\* throws, for any socket but its own, and nothing catches.
StrayThreadThrows ==
    /\ status = "running" /\ launched
    /\ status' = "terminated"
    /\ UNCHANGED <<todo, test, stage, tcb, received, sent, intact, before,
                   errorMessage, assigned, launched>>

Returns ==
    /\ Running("ended")
    /\ status' = "returned"
    /\ UNCHANGED <<todo, test, stage, tcb, received, sent, intact, before,
                   errorMessage, assigned, launched>>

Next ==
    \/ \E i, n \in SeqNumber : Arranges(i, n)
    \/ \E i \in SeqNumber : \/ Processes(i)
                            \/ \E h \in Garbage : ProcessesGarbage(h, i)
    \/ AbortsOnGarbage \/ GoesOn \/ StrayThreadThrows \/ Returns

Spec == Init /\ [][Next]_vars

-----------------------------------------------------------------------------
TypeOK ==
    /\ status \in {"running", "returned", "terminated", "aborted"}
    /\ todo \subseteq TestCase /\ test.case \in TestCase
    /\ test.section \in DOMAIN Sections(test.case, 0, 0)
    /\ stage \in {"arrange", "process", "require", "ended"}
    /\ tcb \in TransmissionControlBlock /\ before.tcb \in TransmissionControlBlock
    /\ received \in TCPHeader /\ sent \subseteq TCPHeader
    /\ errorMessage \in ErrorMessage /\ before.error \in ErrorMessage
    /\ {intact, assigned, launched} \subseteq BOOLEAN

\* The REQUIREs of the section.
ReplyRequired(reply, h) ==
    CASE reply = "none"    -> Equal(h, noHeader)
      [] reply = "reset"   -> "RST" \in h.control /\ h.sequenceNumber = received.ackNumber
      [] reply = "refusal" -> /\ {"ACK", "RST"} \subseteq h.control
                              /\ h.sequenceNumber = 0 /\ h.ackNumber = received.sequenceNumber
      [] reply = "RST"     -> "RST" \in h.control /\ h.sequenceNumber = tcb.snd_nxt
      [] reply = "SYN"     -> "SYN" \in h.control
      [] reply = "SYN_ACK" -> /\ {"SYN", "ACK"} \subseteq h.control
                              /\ h.ackNumber = Inc(received.sequenceNumber)
      [] reply = "ACK"     -> /\ "ACK" \in h.control
                              /\ h.sequenceNumber = Inc(tcb.iss)
                              /\ h.ackNumber = Inc(received.sequenceNumber)

Passes ==
    /\ ReplyRequired(Row.reply, implHeader)
    /\ Row.state \in {"any", tcb.state}
    /\ Row.error \in {"any", errorMessage}

\* The segment acknowledges SND.NXT, and SND.NXT has just wrapped around.
AcksWrappedNumber ==
    "ACK" \in received.control /\ received.ackNumber = 0 /\ tcb.snd_nxt = 0

\* Every section of the handshake tests passes for every number that it, the
\* test and the handler may draw, except where it acknowledges a SND.NXT that
\* wrapped around to 0: then it fails, whatever else was drawn.
SectionsPass ==
    stage = "require" /\ intact => (Passes <=> ~AcksWrappedNumber)

\* A section that requires an error message passes only because its own segment
\* produced it: the static errorMessage of an earlier section, in any order of
\* the test cases, is never mistaken for it.
ErrorsAreOwn ==
    stage = "require" /\ intact /\ Row.error # "any" /\ Passes => assigned

\* Where a section requires silence and looks at no state, the segment really
\* was dropped: block and error message are as they were, which no section checks.
SilenceIsADrop ==
    stage = "require" /\ intact /\ Row.reply = "none" /\ Row.state = "any" =>
        [tcb |-> tcb, error |-> errorMessage] = before

\* TCB_Closed and TCB_SynReceived leave no thread behind: the test program is
\* terminated by one only after a section of the other two has begun.
StrayThreadsAreOfHandshakes ==
    status = "terminated" => ~({"TCB_Listen", "TCB_SynSent"} \subseteq todo)

=============================================================================
