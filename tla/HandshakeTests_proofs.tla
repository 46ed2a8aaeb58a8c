----------------------- MODULE HandshakeTests_proofs -----------------------
(***************************************************************************)
(* Proofs about the handshake tests, for every width of the sequence       *)
(* numbers from the one on that tells the numbers of the sections apart,   *)
(* every set of ports, and whatever may be read through the pointer to the *)
(* dead buffer.                                                            *)
(***************************************************************************)
EXTENDS HandshakeTests, TCB_proofs

-----------------------------------------------------------------------------
(***************************************************************************)
(* Numbers.                                                                *)
(***************************************************************************)

\* The remainder of a number that is less than one modulus away from the range.
LEMMA Remainder ==
    ASSUME NEW w \in Nat \ {0}, NEW a \in Int, -w <= a, a < 2 * w
    PROVE  a % w = IF a < 0 THEN a + w ELSE IF a < w THEN a ELSE a - w
<1>1. CASE a < 0
  BY <1>1
<1>2. CASE 0 <= a /\ a < w
  BY <1>2
<1>3. CASE w <= a
  BY <1>3
<1> QED
  BY <1>1, <1>2, <1>3

\* What a section adds to a number, with the wrap-around of the type.
LEMMA PlusValue ==
    ASSUME NEW i \in SeqNumber, NEW k \in -3 .. 3
    PROVE  Plus(i, k) = IF i + k < 0 THEN i + k + MaxSeq + 1
                        ELSE IF i + k <= MaxSeq THEN i + k ELSE i + k - (MaxSeq + 1)
<1>1. /\ MaxSeq \in Nat /\ MaxSeq >= 4 /\ i \in 0 .. MaxSeq
      /\ MaxSeq + 1 \in Nat \ {0} /\ i + k \in Int
  BY MaxSeqAssumption, WidthAssumption DEF SeqNumber
<1>2. -(MaxSeq + 1) <= i + k /\ i + k < 2 * (MaxSeq + 1)
  BY <1>1
<1>3. (i + k) % (MaxSeq + 1) =
          IF i + k < 0 THEN (i + k) + (MaxSeq + 1)
          ELSE IF i + k < MaxSeq + 1 THEN i + k ELSE (i + k) - (MaxSeq + 1)
  BY <1>1, <1>2, Remainder
<1> QED
  BY <1>1, <1>3 DEF Plus

\* It is a number of the type.
LEMMA PlusType ==
    ASSUME NEW i \in SeqNumber, NEW k \in -3 .. 3
    PROVE  Plus(i, k) \in SeqNumber
<1>1. MaxSeq \in Nat /\ MaxSeq >= 4 /\ i \in 0 .. MaxSeq
  BY MaxSeqAssumption, WidthAssumption DEF SeqNumber
<1> QED
  BY <1>1, PlusValue DEF SeqNumber

-----------------------------------------------------------------------------
(***************************************************************************)
(* The table of the sections.                                              *)
(***************************************************************************)

\* The table of a test case.
LEMMA Tables ==
    ASSUME NEW i, NEW n
    PROVE  /\ Sections("TCB_Closed", i, n) = ClosedSections
           /\ Sections("TCB_Listen", i, n) = ListenSections(n)
           /\ Sections("TCB_SynSent", i, n) = SynSentSections(i, n)
           /\ Sections("TCB_SynReceived", i, n) = SynReceivedSections(i)
BY DEF Sections

\* How many sections each test case has, whatever is drawn.
LEMMA SectionCount ==
    ASSUME NEW i, NEW n, NEW c \in TestCase
    PROVE  /\ c = "TCB_Closed" => Len(Sections(c, i, n)) = 5
           /\ c = "TCB_Listen" => Len(Sections(c, i, n)) = 3
           /\ c = "TCB_SynSent" => Len(Sections(c, i, n)) = 11
           /\ c = "TCB_SynReceived" => Len(Sections(c, i, n)) = 8
           /\ DOMAIN Sections(c, i, n) = 1 .. Len(Sections(c, i, n))
<1>1. /\ Len(ClosedSections) = 5 /\ DOMAIN ClosedSections = 1 .. 5
      /\ Len(ListenSections(n)) = 3 /\ DOMAIN ListenSections(n) = 1 .. 3
      /\ Len(SynSentSections(i, n)) = 11 /\ DOMAIN SynSentSections(i, n) = 1 .. 11
      /\ Len(SynReceivedSections(i)) = 8 /\ DOMAIN SynReceivedSections(i) = 1 .. 8
  BY DEF ClosedSections, ListenSections, SynSentSections, SynReceivedSections
<1> QED
  BY <1>1, Tables DEF TestCase

\* The segment of a section, where i is the ISS of its block and n the number drawn
\* by the test.
ArrangedHeader(case, section, i, n) ==
    LET row == Sections(case, i, n)[section]
    IN  [createHeader(case) EXCEPT !.control = row.control,
                                   !.sequenceNumber = row.sequenceNumber,
                                   !.ackNumber = row.ackNumber]

\* Every row has the control bits and the numbers of a segment.
LEMMA RowType ==
    ASSUME NEW i \in SeqNumber, NEW n \in SeqNumber, NEW c \in TestCase,
           NEW k \in DOMAIN Sections(c, i, n)
    PROVE  /\ Sections(c, i, n)[k].control \in SUBSET ControlBit
           /\ Sections(c, i, n)[k].sequenceNumber \in SeqNumber
           /\ Sections(c, i, n)[k].ackNumber \in SeqNumber
<1>1. /\ ANY_NUMBER \in SeqNumber /\ 0 \in SeqNumber
      /\ Plus(i, -3) \in SeqNumber /\ Plus(i, 1) \in SeqNumber
      /\ Plus(i, 2) \in SeqNumber /\ Plus(i, 3) \in SeqNumber
  BY TestAssumption, SeqNumbers, PlusType
<1> HIDE DEF SeqNumber
<1>2. CASE c = "TCB_Closed"
  <2> k \in 1 .. 5
    BY <1>2, SectionCount
  <2> QED
    BY <1>1, <1>2, Tables DEF ClosedSections, Section, ControlBit
<1>3. CASE c = "TCB_Listen"
  <2> k \in 1 .. 3
    BY <1>3, SectionCount
  <2> QED
    BY <1>1, <1>3, Tables DEF ListenSections, Section, ControlBit
<1>4. CASE c = "TCB_SynSent"
  <2> k \in 1 .. 11
    BY <1>4, SectionCount
  <2> QED
    BY <1>1, <1>4, Tables DEF SynSentSections, Section, ControlBit
<1>5. CASE c = "TCB_SynReceived"
  <2> k \in 1 .. 8
    BY <1>5, SectionCount
  <2> QED
    BY <1>1, <1>5, Tables DEF SynReceivedSections, Section, ControlBit
<1> QED
  BY <1>2, <1>3, <1>4, <1>5 DEF TestCase

\* Hence the segment of a section is one.
LEMMA ArrangedHeaderType ==
    ASSUME NEW i \in SeqNumber, NEW n \in SeqNumber, NEW c \in TestCase,
           NEW k \in DOMAIN Sections(c, i, n)
    PROVE  /\ ArrangedHeader(c, k, i, n) \in TCPHeader
           /\ ArrangedHeader(c, k, i, n).sourcePort = createHeader(c).sourcePort
           /\ ArrangedHeader(c, k, i, n).destinationPort = createHeader(c).destinationPort
           /\ ArrangedHeader(c, k, i, n).control = Sections(c, i, n)[k].control
           /\ ArrangedHeader(c, k, i, n).sequenceNumber = Sections(c, i, n)[k].sequenceNumber
           /\ ArrangedHeader(c, k, i, n).ackNumber = Sections(c, i, n)[k].ackNumber
<1>1. createHeader(c) \in TCPHeader
  BY EmptyHeaderType, TestAssumption DEF createHeader, PortNumber
<1>2. PICK row : row = Sections(c, i, n)[k]
  OBVIOUS
<1>3. /\ row.control \in SUBSET ControlBit
      /\ row.sequenceNumber \in SeqNumber /\ row.ackNumber \in SeqNumber
  BY <1>2, RowType
<1>4. ArrangedHeader(c, k, i, n) =
          [createHeader(c) EXCEPT !.control = row.control,
                                  !.sequenceNumber = row.sequenceNumber,
                                  !.ackNumber = row.ackNumber]
  BY <1>2 DEF ArrangedHeader
<1> QED
  BY <1>1, <1>2, <1>3, <1>4 DEF TCPHeader

-----------------------------------------------------------------------------
(***************************************************************************)
(* The blocks of the sections, and the numbers that they are given to      *)
(* compare.                                                                *)
(***************************************************************************)

\* In SYN_SENT: of the numbers around an ISS only its successor is acceptable, and
\* that not when it wrapped around.
LEMMA NumbersOfSynSent ==
    ASSUME NEW i \in SeqNumber
    PROVE  /\ Plus(i, 1) = Inc(i)
           /\ i < Plus(i, 1) /\ Plus(i, 1) <= Inc(i) <=> Inc(i) # 0
           /\ \A a \in {i, Plus(i, -3), Plus(i, 2)} :
                  ~(i < a /\ a <= Inc(i)) /\ ~(a = 0 /\ Inc(i) = 0)
<1>1. MaxSeq \in Nat /\ MaxSeq >= 4 /\ i \in 0 .. MaxSeq
  BY MaxSeqAssumption, WidthAssumption DEF SeqNumber
<1>2. /\ Plus(i, 1) = IF i + 1 <= MaxSeq THEN i + 1 ELSE i + 1 - (MaxSeq + 1)
      /\ Plus(i, 2) = IF i + 2 <= MaxSeq THEN i + 2 ELSE i + 2 - (MaxSeq + 1)
      /\ Plus(i, -3) = IF i - 3 < 0 THEN i - 3 + MaxSeq + 1 ELSE i - 3
  BY <1>1, PlusValue
<1> QED
  BY <1>1, <1>2 DEF Inc

\* In SYN_RECEIVED: the window from two to three above an ISS contains its own upper
\* end unless that wrapped around, and never what is below it.
LEMMA NumbersOfSynReceived ==
    ASSUME NEW i \in SeqNumber
    PROVE  /\ Plus(i, 2) <= Plus(i, 3) <=> Plus(i, 3) # 0
           /\ ~(Plus(i, 2) <= Plus(i, 1) /\ Plus(i, 1) <= Plus(i, 3))
           /\ ~(Plus(i, 1) = 0 /\ Plus(i, 3) = 0)
<1>1. MaxSeq \in Nat /\ MaxSeq >= 4 /\ i \in 0 .. MaxSeq
  BY MaxSeqAssumption, WidthAssumption DEF SeqNumber
<1>2. /\ Plus(i, 1) = IF i + 1 <= MaxSeq THEN i + 1 ELSE i + 1 - (MaxSeq + 1)
      /\ Plus(i, 2) = IF i + 2 <= MaxSeq THEN i + 2 ELSE i + 2 - (MaxSeq + 1)
      /\ Plus(i, 3) = IF i + 3 <= MaxSeq THEN i + 3 ELSE i + 3 - (MaxSeq + 1)
  BY <1>1, PlusValue
<1> QED
  BY <1>1, <1>2

\* The block that a section of TCB_SynSent begins with, but for the first.
LEMMA SynSentTCB ==
    ASSUME NEW k \in Nat, k > 1, NEW i \in SeqNumber
    PROVE  LET t == createTCB("TCB_SynSent", k, i)
           IN  /\ t \in TransmissionControlBlock
               /\ t.state = "SYN_SENT" /\ t.iss = i /\ t.snd_nxt = Inc(i)
               /\ t.localPort = ACTIVE_LOCAL_PORT
               /\ t.threadLaunched = FALSE /\ t.connectionSocket = FALSE
<1>1. ACTIVE_LOCAL_PORT \in PortNumber /\ Inc(i) \in SeqNumber
  BY TestAssumption, SeqNumbers DEF PortNumber
<1>2. PICK u : u = newTCB(ACTIVE_LOCAL_PORT, FALSE)
  OBVIOUS
<1>3. /\ u \in TransmissionControlBlock /\ u.localPort = ACTIVE_LOCAL_PORT
      /\ u.threadLaunched = FALSE /\ u.connectionSocket = FALSE
  BY <1>1, <1>2, NewType DEF newTCB
<1>4. createTCB("TCB_SynSent", k, i) =
          [u EXCEPT !.state = "SYN_SENT", !.iss = i, !.snd_nxt = Inc(i)]
  BY <1>2 DEF createTCB
<1>5. "SYN_SENT" \in State
  BY DEF State
<1> QED
  BY <1>1, <1>3, <1>4, <1>5 DEF TransmissionControlBlock

\* The same for TCB_SynReceived.
LEMMA SynReceivedTCB ==
    ASSUME NEW k \in Nat, NEW i \in SeqNumber
    PROVE  LET t == createTCB("TCB_SynReceived", k, i)
           IN  /\ t \in TransmissionControlBlock
               /\ t.state = "SYN_RECEIVED" /\ t.passive = (k # 2)
               /\ t.snd_una = Plus(i, 2) /\ t.snd_nxt = Plus(i, 3)
               /\ t.localPort = ACTIVE_LOCAL_PORT
               /\ t.threadLaunched = FALSE /\ t.connectionSocket = FALSE
<1>1. /\ ACTIVE_LOCAL_PORT \in PortNumber
      /\ Plus(i, 2) \in SeqNumber /\ Plus(i, 3) \in SeqNumber
  BY TestAssumption, PlusType DEF PortNumber
<1>2. PICK u : u = newTCB(ACTIVE_LOCAL_PORT, k # 2)
  OBVIOUS
<1>3. /\ u \in TransmissionControlBlock /\ u.localPort = ACTIVE_LOCAL_PORT
      /\ u.threadLaunched = FALSE /\ u.connectionSocket = FALSE
      /\ u.passive = (k # 2)
  BY <1>1, <1>2, NewType DEF newTCB
<1>4. createTCB("TCB_SynReceived", k, i) =
          [u EXCEPT !.state = "SYN_RECEIVED", !.iss = i,
                    !.snd_una = Plus(i, 2), !.snd_nxt = Plus(i, 3)]
  BY <1>2 DEF createTCB
<1>5. "SYN_RECEIVED" \in State
  BY DEF State
<1> QED
  BY <1>1, <1>3, <1>4, <1>5 DEF TransmissionControlBlock

\* Whatever its test case, a section begins with a block that has neither socket nor
\* thread.
LEMMA CreateTCB ==
    ASSUME NEW c \in TestCase, NEW k \in Nat, NEW i \in SeqNumber
    PROVE  LET t == createTCB(c, k, i)
           IN  /\ t \in TransmissionControlBlock
               /\ t.threadLaunched = FALSE /\ t.connectionSocket = FALSE
<1>1. CASE c = "TCB_SynSent" /\ k > 1
  BY <1>1, SynSentTCB
<1>2. CASE c = "TCB_SynReceived"
  BY <1>2, SynReceivedTCB
<1>3. CASE (c = "TCB_SynSent" /\ ~(k > 1)) \/ c = "TCB_Listen" \/ c = "TCB_Closed"
  <2>1. ACTIVE_LOCAL_PORT \in PortNumber /\ PASSIVE_LOCAL_PORT \in PortNumber
    BY TestAssumption DEF PortNumber
  <2>2. PICK q \in PortNumber, b \in BOOLEAN : createTCB(c, k, i) = newTCB(q, b)
    BY <1>3, <2>1 DEF createTCB
  <2> QED
    BY <2>2, NewType DEF newTCB
<1> QED
  BY <1>1, <1>2, <1>3 DEF TestCase

\* What the thread of a block in SYN_SENT does with the segments of the sections.
LEMMA SynSentHandling ==
    ASSUME NEW t \in TransmissionControlBlock, t.state = "SYN_SENT",
           NEW h \in TCPHeader, NEW j \in SeqNumber,
           NEW e, e = processUDPMessage(t, t.state, h, j)
    PROVE  /\ h.control \in {{"ACK"}, {"SYN", "ACK"}} /\ ~AckAcceptable(t, h) => e = sendRST(t, h)
           /\ h.control = {"SYN", "ACK"} /\ AckAcceptable(t, h) => e = sendEstablishedACK(t, h)
           /\ h.control = {"ACK", "RST"} /\ AckAcceptable(t, h) =>
                  e = FailsWith(t, "CONNECTION_RESET")
           /\ h.control = {"ACK", "RST"} /\ ~AckAcceptable(t, h) => e = Ignores(t)
           /\ h.control \in {{}, {"RST"}} => e = Ignores(t)
           /\ h.control = {"SYN"} => e = sendSYNACK(t, h, j)
BY DEF processUDPMessage, processSynSentSocketMessage

\* The same for a block in SYN_RECEIVED.
LEMMA SynReceivedHandling ==
    ASSUME NEW t \in TransmissionControlBlock, t.state = "SYN_RECEIVED",
           NEW h \in TCPHeader, NEW j \in SeqNumber,
           NEW e, e = processUDPMessage(t, t.state, h, j)
    PROVE  /\ h.control = {"RST"} /\ t.passive => e = MovesTo(t, "LISTEN")
           /\ h.control = {"RST"} /\ ~t.passive => e = FailsWith(t, "CONNECTION_REFUSED")
           /\ h.control = {"SYN"} =>
                  e = [FailsWith(t, "CONNECTION_RESET") EXCEPT !.out = sendRST(t, h).out]
           /\ h.control = {} => e = Ignores(t)
           /\ h.control = {"ACK"} /\ AckInWindow(t, h) => e = MovesTo(t, "ESTABLISHED")
           /\ h.control = {"ACK"} /\ ~AckInWindow(t, h) => e = sendRST(t, h)
           /\ h.control = {"FIN"} => e = MovesTo(t, "CLOSE_WAIT")
BY DEF processUDPMessage, processSynReceivedSocketMessage

-----------------------------------------------------------------------------
(***************************************************************************)
(* What the sections see of the replies.                                   *)
(***************************************************************************)

\* The mock hands out the only segment that was sent, or none.
LEMMA Reply ==
    /\ sent = {} => implHeader = noHeader
    /\ \A k : sent = {k} => implHeader = k
BY DEF implHeader

\* What the senders say, as far as a section requires anything of it: sendRST, the
\* reset of a closed port, the ACK, the SYN,ACK and the SYN.
LEMMA RSTReply ==
    ASSUME NEW t \in TransmissionControlBlock, NEW h
    PROVE  \E k : /\ sendRST(t, h).out = {k}
                  /\ k.control = {"RST"}
                  /\ k.sequenceNumber = IF "ACK" \in h.control THEN h.ackNumber ELSE t.snd_nxt
                  /\ k.sourcePort = t.localPort
<1>1. PICK n : n = IF "ACK" \in h.control THEN h.ackNumber ELSE t.snd_nxt
  OBVIOUS
<1>2. PICK k : k = [constructSendTCPHeader(t.localPort, t.foreignPort) EXCEPT
                        !.sequenceNumber = n, !.control = {"RST"}]
  OBVIOUS
<1>3. sendRST(t, h).out = {k}
  BY <1>1, <1>2 DEF sendRST, Sends
<1> QED
  BY <1>1, <1>2, <1>3 DEF constructSendTCPHeader

\* It resets what acknowledges something, and refuses the rest.
LEMMA ClosedReplyNumbers ==
    ASSUME NEW h
    PROVE  /\ "ACK" \in h.control =>
                  "RST" \in closedReply(h).control /\ closedReply(h).sequenceNumber = h.ackNumber
           /\ "ACK" \notin h.control =>
                  /\ {"ACK", "RST"} \subseteq closedReply(h).control
                  /\ closedReply(h).sequenceNumber = 0
                  /\ closedReply(h).ackNumber = h.sequenceNumber
BY DEF closedReply, constructSendTCPHeader

\* The ACK acknowledges the SYN,ACK, with the number after the SYN.
LEMMA ACKReply ==
    ASSUME NEW t \in TransmissionControlBlock, NEW h \in TCPHeader
    PROVE  \E k : /\ sendEstablishedACK(t, h).out = {k}
                  /\ k.control = {"ACK"}
                  /\ k.sequenceNumber = t.snd_nxt /\ k.ackNumber = Inc(h.sequenceNumber)
<1>1. PICK c : c = createForeignSocketAddress(t, h.sourcePort)
  OBVIOUS
<1>2. PICK k : k = [constructSendTCPHeader(c.localPort, c.foreignPort) EXCEPT
                        !.sequenceNumber = t.snd_nxt,
                        !.ackNumber = Inc(h.sequenceNumber),
                        !.control = {"ACK"}]
  OBVIOUS
<1>3. sendEstablishedACK(t, h).out = {k}
  BY <1>1, <1>2 DEF sendEstablishedACK, Sends
<1> QED
  BY <1>2, <1>3 DEF constructSendTCPHeader

\* The SYN,ACK acknowledges the SYN.
LEMMA SYNACKReply ==
    ASSUME NEW t \in TransmissionControlBlock, NEW h \in TCPHeader, NEW j \in SeqNumber
    PROVE  \E k : /\ synAckStarted(t, h, j).out = {k}
                  /\ k.control = {"SYN", "ACK"}
                  /\ k.ackNumber = Inc(h.sequenceNumber)
<1>1. PICK k : k = [constructSendTCPHeader(t.localPort, t.foreignPort) EXCEPT
                        !.sequenceNumber = j,
                        !.ackNumber = Inc(h.sequenceNumber),
                        !.control = {"SYN", "ACK"}]
  OBVIOUS
<1>2. synAckStarted(t, h, j).out = {k}
  BY <1>1 DEF synAckStarted, Sends
<1> QED
  BY <1>1, <1>2 DEF constructSendTCPHeader

\* sendSYN sends one SYN.
LEMMA SYNReply ==
    ASSUME NEW t, NEW q, NEW p, NEW j
    PROVE  \E k : sendSYN(t, q, p, j).out = {k} /\ k.control = {"SYN"}
<1>1. PICK k : k = [constructSendTCPHeader(q, p) EXCEPT !.sequenceNumber = j,
                                                      !.control = {"SYN"}]
  OBVIOUS
<1>2. sendSYN(t, q, p, j).out = {k}
  BY <1>1 DEF sendSYN, Sends
<1> QED
  BY <1>1, <1>2 DEF constructSendTCPHeader

\* The block and the error message are those before the segment.
Untouched == tcb = before.tcb /\ errorMessage = before.error

\* All that is to be shown of a section that ran.
SectionIsRight ==
    /\ Passes <=> ~AcksWrappedNumber
    /\ Row.error # "any" /\ Passes => assigned
    /\ Row.reply = "none" /\ Row.state = "any" => Untouched

\* The block handled the segment with the effect e.
Took(e) ==
    /\ tcb = e.tcb /\ sent = e.out
    /\ assigned = (e.error # "unchanged")
    /\ errorMessage = IF assigned THEN e.error ELSE before.error

\* Most sections have one of three shapes.  The segment is dropped:
LEMMA DroppedIsRight ==
    ASSUME Took(Ignores(before.tcb)), ~AcksWrappedNumber,
           Row.reply = "none", Row.state = "any", Row.error = "any"
    PROVE  SectionIsRight
<1>1. sent = {} /\ Untouched
  BY DEF Took, Ignores, Sends, Untouched
<1>2. Equal(implHeader, noHeader)
  BY <1>1, Reply DEF Equal
<1>3. Passes
  BY <1>2 DEF Passes, ReplyRequired
<1> QED
  BY <1>1, <1>3 DEF SectionIsRight

\* or answered with a reset,
LEMMA ResetIsRight ==
    ASSUME NEW k, sent = {k}, "RST" \in k.control, k.sequenceNumber = received.ackNumber,
           ~AcksWrappedNumber, Row.reply = "reset", Row.state = "any", Row.error = "any"
    PROVE  SectionIsRight
<1>1. implHeader = k
  BY Reply
<1>2. Passes
  BY <1>1 DEF Passes, ReplyRequired
<1> QED
  BY <1>2 DEF SectionIsRight

\* or refused by a closed port.
LEMMA RefusalIsRight ==
    ASSUME NEW k, sent = {k}, {"ACK", "RST"} \subseteq k.control,
           k.sequenceNumber = 0, k.ackNumber = received.sequenceNumber,
           ~AcksWrappedNumber, Row.reply = "refusal", Row.state = "any", Row.error = "any"
    PROVE  SectionIsRight
<1>1. implHeader = k
  BY Reply
<1>2. Passes
  BY <1>1 DEF Passes, ReplyRequired
<1> QED
  BY <1>2 DEF SectionIsRight

-----------------------------------------------------------------------------
(***************************************************************************)
(* Each section, for every number that may be drawn.                       *)
(***************************************************************************)

\* A section ran on the segment that it arranged: i is the ISS of its block, n what
\* the test drew and j what the handler did.
Ran(i, n, j) ==
    /\ received = ArrangedHeader(test.case, test.section, i, n)
    /\ before.tcb = createTCB(test.case, test.section, i)
    /\ Took(Handled(before.tcb, received, j))

\* The test is one of the sections of the table.
TestType ==
    /\ test \in [case : TestCase, section : Nat]
    /\ test.section \in 1 .. Len(Sections(test.case, 0, 0))

\* What such a section starts from.
LEMMA RanFrom ==
    ASSUME TestType, NEW i \in SeqNumber, NEW n \in SeqNumber, NEW j \in SeqNumber, Ran(i, n, j)
    PROVE  /\ received \in TCPHeader
           /\ received.sourcePort = createHeader(test.case).sourcePort
           /\ received.destinationPort = createHeader(test.case).destinationPort
           /\ received.control = Sections(test.case, i, n)[test.section].control
           /\ received.sequenceNumber = Sections(test.case, i, n)[test.section].sequenceNumber
           /\ received.ackNumber = Sections(test.case, i, n)[test.section].ackNumber
           /\ before.tcb \in TransmissionControlBlock
           /\ before.tcb.connectionSocket = FALSE
<1>1. test.section \in DOMAIN Sections(test.case, i, n)
  BY SectionCount DEF TestType, TestCase
<1>2. test.case \in TestCase /\ test.section \in Nat
  BY DEF TestType
<1>3. received = ArrangedHeader(test.case, test.section, i, n)
  BY DEF Ran
<1>4. before.tcb = createTCB(test.case, test.section, i)
  BY DEF Ran
<1>5. before.tcb \in TransmissionControlBlock /\ before.tcb.connectionSocket = FALSE
  <2>1. \A c \in TestCase, k \in Nat : createTCB(c, k, i) \in TransmissionControlBlock
    BY CreateTCB
  <2>2. \A c \in TestCase, k \in Nat : createTCB(c, k, i).connectionSocket = FALSE
    BY CreateTCB
  <2>3. createTCB(test.case, test.section, i) \in TransmissionControlBlock
    BY <1>2, <2>1
  <2>4. createTCB(test.case, test.section, i).connectionSocket = FALSE
    BY <1>2, <2>2
  <2> QED
    BY <1>4, <2>3, <2>4
<1> QED
  BY <1>1, <1>2, <1>3, <1>5, ArrangedHeaderType

\* The test case TCB_Closed: a port without a block refuses or resets, or drops a reset.
LEMMA ClosedIsRight ==
    ASSUME TestType, NEW i \in SeqNumber, NEW n \in SeqNumber, NEW j \in SeqNumber,
           Ran(i, n, j), test.case = "TCB_Closed"
    PROVE  SectionIsRight
<1>1. /\ received \in TCPHeader
      /\ received.control = ClosedSections[test.section].control
      /\ received.sequenceNumber = ClosedSections[test.section].sequenceNumber
      /\ received.ackNumber = ClosedSections[test.section].ackNumber
      /\ Row = ClosedSections[test.section]
      /\ test.section \in 1 .. 5
  <2>1. test.section \in 1 .. 5
    BY SectionCount DEF TestType
  <2>2. Sections(test.case, i, n) = ClosedSections /\ Sections(test.case, 0, 0) = ClosedSections
    BY Tables
  <2>3. /\ received \in TCPHeader /\ before.tcb \in TransmissionControlBlock
        /\ received.control = Sections(test.case, i, n)[test.section].control
        /\ received.sequenceNumber = Sections(test.case, i, n)[test.section].sequenceNumber
        /\ received.ackNumber = Sections(test.case, i, n)[test.section].ackNumber
    BY RanFrom
  <2>4. Row = Sections(test.case, 0, 0)[test.section]
    BY DEF Row
  <2> QED
    BY <2>1, <2>2, <2>3, <2>4
<1>2. Took(IF "RST" \in received.control THEN Ignores(before.tcb)
           ELSE Sends(before.tcb, {closedReply(received)}))
  BY DEF Ran, Handled, processRawIPMessage
<1>3. ANY_NUMBER # 0
  BY TestAssumption
<1>4. "RST" \notin received.control => sent = {closedReply(received)}
  BY <1>2 DEF Took, Sends
<1>5. CASE test.section \in {1, 4, 5}
  <2>1. /\ "RST" \notin received.control /\ "ACK" \notin received.control
        /\ Row.reply = "refusal" /\ Row.state = "any" /\ Row.error = "any"
    BY <1>1, <1>5 DEF ClosedSections, Section
  <2> QED
    BY <1>4, <2>1, ClosedReplyNumbers, RefusalIsRight DEF AcksWrappedNumber
<1>6. CASE test.section = 2
  <2>1. /\ received.control = {"ACK"} /\ received.ackNumber = ANY_NUMBER
        /\ Row.reply = "reset" /\ Row.state = "any" /\ Row.error = "any"
    BY <1>1, <1>6 DEF ClosedSections, Section
  <2>2. /\ sent = {closedReply(received)} /\ "RST" \in closedReply(received).control
        /\ closedReply(received).sequenceNumber = received.ackNumber
    BY <1>4, <2>1, ClosedReplyNumbers
  <2>3. ~AcksWrappedNumber
    BY <1>3, <2>1 DEF AcksWrappedNumber
  <2> QED
    BY <2>1, <2>2, <2>3, ResetIsRight
<1>7. CASE test.section = 3
  <2>1. /\ received.control = {"RST"}
        /\ Row.reply = "none" /\ Row.state = "any" /\ Row.error = "any"
    BY <1>1, <1>7 DEF ClosedSections, Section
  <2> QED
    BY <1>2, <2>1, DroppedIsRight DEF AcksWrappedNumber
<1> QED
  BY <1>1, <1>5, <1>6, <1>7

\* The test case TCB_Listen.
LEMMA ListenIsRight ==
    ASSUME TestType, NEW i \in SeqNumber, NEW n \in SeqNumber, NEW j \in SeqNumber,
           Ran(i, n, j), test.case = "TCB_Listen"
    PROVE  SectionIsRight
<1>1. /\ received \in TCPHeader /\ before.tcb \in TransmissionControlBlock
      /\ received.sourcePort = ACTIVE_LOCAL_PORT
      /\ received.destinationPort = PASSIVE_LOCAL_PORT
      /\ received.control = ListenSections(n)[test.section].control
      /\ received.sequenceNumber = ListenSections(n)[test.section].sequenceNumber
      /\ received.ackNumber = ListenSections(n)[test.section].ackNumber
      /\ Row = ListenSections(0)[test.section]
      /\ test.section \in 1 .. 3
  <2>1. test.section \in 1 .. 3
    BY SectionCount DEF TestType
  <2>2. /\ Sections(test.case, i, n) = ListenSections(n)
        /\ Sections(test.case, 0, 0) = ListenSections(0)
    BY Tables
  <2>3. /\ received \in TCPHeader /\ before.tcb \in TransmissionControlBlock
        /\ received.control = Sections(test.case, i, n)[test.section].control
        /\ received.sequenceNumber = Sections(test.case, i, n)[test.section].sequenceNumber
        /\ received.ackNumber = Sections(test.case, i, n)[test.section].ackNumber
    BY RanFrom
  <2>4. Row = Sections(test.case, 0, 0)[test.section]
    BY DEF Row
  <2>5. /\ createHeader(test.case).sourcePort = ACTIVE_LOCAL_PORT
        /\ createHeader(test.case).destinationPort = PASSIVE_LOCAL_PORT
    BY DEF createHeader, constructSendTCPHeader
  <2>6. /\ received.sourcePort = createHeader(test.case).sourcePort
        /\ received.destinationPort = createHeader(test.case).destinationPort
    BY RanFrom
  <2> QED
    BY <2>1, <2>2, <2>3, <2>4, <2>5, <2>6
<1>2. PICK e : e = processListeningSocketMessage(before.tcb, received, MockPort, j)
  OBVIOUS
<1>3. Took(IF AnswersSYN(received) THEN Launches([e EXCEPT !.tcb = synAckDone(e.tcb)]) ELSE e)
  BY <1>1, <1>2, TestAssumption DEF Ran, Handled, processRawIPMessage
<1>4. PICK c : c = createForeignSocketAddress(
                       createLocalSocket(before.tcb, MockPort), received.sourcePort)
  OBVIOUS
<1>5. /\ c \in TransmissionControlBlock
      /\ before.tcb.connectionSocket = FALSE
  <2>1. MockPort \in PortNumber /\ ACTIVE_LOCAL_PORT \in PortNumber
    BY TestAssumption DEF PortNumber
  <2>2. before.tcb.connectionSocket = FALSE
    BY RanFrom
  <2> QED
    BY <1>1, <1>4, <2>1, <2>2 DEF createLocalSocket, createForeignSocketAddress,
       TransmissionControlBlock
<1>6. ANY_NUMBER # 0
  BY TestAssumption
<1>7. CASE test.section = 1
  <2>1. /\ received.control = {"RST"}
        /\ Row.reply = "none" /\ Row.state = "any" /\ Row.error = "any"
    BY <1>1, <1>7 DEF ListenSections, Section
  <2>2. e = Ignores(before.tcb) /\ ~AnswersSYN(received)
    BY <1>2, <2>1 DEF processListeningSocketMessage, AnswersSYN
  <2> QED
    BY <1>3, <2>1, <2>2, DroppedIsRight DEF AcksWrappedNumber
<1>8. CASE test.section = 2
  <2>1. /\ received.control = {"ACK"} /\ received.ackNumber = ANY_NUMBER
        /\ Row.reply = "reset" /\ Row.state = "any" /\ Row.error = "any"
    BY <1>1, <1>8 DEF ListenSections, Section
  <2>2. e = sendRST(c, received) /\ ~AnswersSYN(received)
    BY <1>2, <1>4, <1>5, <2>1
       DEF processListeningSocketMessage, processPacketListenState, AnswersSYN
  <2>3. PICK k : /\ sendRST(c, received).out = {k} /\ k.control = {"RST"}
                 /\ k.sequenceNumber = received.ackNumber
    BY <1>5, <2>1, RSTReply
  <2>4. sent = {k}
    BY <1>3, <2>2, <2>3 DEF Took
  <2>5. ~AcksWrappedNumber
    BY <1>6, <2>1 DEF AcksWrappedNumber
  <2> QED
    BY <2>1, <2>3, <2>4, <2>5, ResetIsRight
<1>9. CASE test.section = 3
  <2>1. /\ received.control = {"SYN"}
        /\ Row.reply = "SYN_ACK" /\ Row.state = "SYN_RECEIVED" /\ Row.error = "any"
    BY <1>1, <1>9 DEF ListenSections, Section
  <2>2. e = synAckStarted(c, received, j) /\ AnswersSYN(received)
    BY <1>2, <1>4, <1>5, <2>1
       DEF processListeningSocketMessage, processPacketListenState, AnswersSYN
  <2>3. PICK k : /\ e.out = {k} /\ k.control = {"SYN", "ACK"}
                 /\ k.ackNumber = Inc(received.sequenceNumber)
    BY <1>1, <1>5, <2>2, SYNACKReply
  <2>4. e \in Effect
    BY <1>1, <1>5, <2>2, SynAckStartedType
  <2>5. synAckDone(e.tcb) \in TransmissionControlBlock /\ synAckDone(e.tcb).state = "SYN_RECEIVED"
    BY <2>4, SynAckDoneType, SYNACKDone DEF Effect
  <2>6. tcb.state = "SYN_RECEIVED" /\ sent = {k}
    <3>1. PICK d : d = [e EXCEPT !.tcb = synAckDone(e.tcb)]
      OBVIOUS
    <3>2. d.tcb = synAckDone(e.tcb) /\ d.out = {k} /\ d \in Effect
      BY <2>3, <2>4, <2>5, <3>1 DEF Effect
    <3>3. Launches(d).tcb.state = d.tcb.state /\ Launches(d).out = d.out
      BY <3>2 DEF Launches, Effect, TransmissionControlBlock
    <3> QED
      BY <1>3, <2>2, <2>5, <3>1, <3>2, <3>3 DEF Took
  <2>7. implHeader = k
    BY <2>6, Reply
  <2>8. Passes
    BY <2>1, <2>3, <2>6, <2>7 DEF Passes, ReplyRequired
  <2> QED
    BY <2>1, <2>8 DEF SectionIsRight, AcksWrappedNumber
<1> QED
  BY <1>1, <1>7, <1>8, <1>9

\* The test case TCB_SynSent: sendSYNMessage, then one segment to a block in SYN_SENT.
LEMMA SynSentIsRight ==
    ASSUME TestType, NEW i \in SeqNumber, NEW n \in SeqNumber, NEW j \in SeqNumber,
           Ran(i, n, j), test.case = "TCB_SynSent"
    PROVE  SectionIsRight
<1>1. /\ received \in TCPHeader /\ before.tcb \in TransmissionControlBlock
      /\ received.control = SynSentSections(i, n)[test.section].control
      /\ received.sequenceNumber = SynSentSections(i, n)[test.section].sequenceNumber
      /\ received.ackNumber = SynSentSections(i, n)[test.section].ackNumber
      /\ Row = SynSentSections(0, 0)[test.section]
      /\ test.section \in 1 .. 11
  <2>1. test.section \in 1 .. 11
    BY SectionCount DEF TestType
  <2>2. /\ Sections(test.case, i, n) = SynSentSections(i, n)
        /\ Sections(test.case, 0, 0) = SynSentSections(0, 0)
    BY Tables
  <2>3. /\ received \in TCPHeader /\ before.tcb \in TransmissionControlBlock
        /\ received.control = Sections(test.case, i, n)[test.section].control
        /\ received.sequenceNumber = Sections(test.case, i, n)[test.section].sequenceNumber
        /\ received.ackNumber = Sections(test.case, i, n)[test.section].ackNumber
    BY RanFrom
  <2>4. Row = Sections(test.case, 0, 0)[test.section]
    BY DEF Row
  <2> QED
    BY <2>1, <2>2, <2>3, <2>4
<1> DEFINE t == before.tcb
<1>2. CASE test.section = 1
  <2>1. test = [case |-> "TCB_SynSent", section |-> 1]
    BY <1>2 DEF TestType
  <2>2. PICK e : e = sendSYN(t, MockPort, PASSIVE_LOCAL_PORT, j)
    OBVIOUS
  <2>3. Took(Launches(e))
    BY <2>1, <2>2 DEF Ran, Handled
  <2>4. PICK k : e.out = {k} /\ k.control = {"SYN"}
    BY <2>2, SYNReply
  <2>5. e \in Effect /\ e.tcb.state = "SYN_SENT"
    BY <1>1, <2>2, SendSYNType, SYNSent, TestAssumption DEF PortNumber
  <2>6. Launches(e).tcb.state = "SYN_SENT" /\ Launches(e).out = {k}
    BY <2>4, <2>5 DEF Launches, Effect, TransmissionControlBlock
  <2>7. tcb.state = "SYN_SENT" /\ implHeader = k
    BY <2>3, <2>6, Reply DEF Took
  <2>8. /\ received.control = {}
        /\ Row.reply = "SYN" /\ Row.state = "SYN_SENT" /\ Row.error = "any"
    BY <1>1, <1>2 DEF SynSentSections, Section
  <2>9. Passes
    BY <2>4, <2>7, <2>8 DEF Passes, ReplyRequired
  <2> QED
    BY <2>8, <2>9 DEF SectionIsRight, AcksWrappedNumber
<1>3. ASSUME test.section > 1
      PROVE  SectionIsRight
  <2>1. /\ t.state = "SYN_SENT" /\ t.iss = i /\ t.snd_nxt = Inc(i)
        /\ t.localPort = ACTIVE_LOCAL_PORT
    <3>1. \A k \in Nat : k > 1 =>
              LET u == createTCB("TCB_SynSent", k, i)
              IN  /\ u.state = "SYN_SENT" /\ u.iss = i /\ u.snd_nxt = Inc(i)
                  /\ u.localPort = ACTIVE_LOCAL_PORT
      BY SynSentTCB
    <3> QED
      BY <1>3, <3>1 DEF Ran, TestType
  <2>2. PICK e : e = processUDPMessage(t, t.state, received, j)
    OBVIOUS
  <2>3. Took(e)
    BY <1>3, <2>2 DEF Ran, Handled
  <2>a. /\ received.control \in {{"ACK"}, {"SYN", "ACK"}} /\ ~AckAcceptable(t, received) =>
               e = sendRST(t, received)
        /\ received.control = {"SYN", "ACK"} /\ AckAcceptable(t, received) =>
               e = sendEstablishedACK(t, received)
        /\ received.control = {"ACK", "RST"} /\ AckAcceptable(t, received) =>
               e = FailsWith(t, "CONNECTION_RESET")
        /\ received.control = {"ACK", "RST"} /\ ~AckAcceptable(t, received) => e = Ignores(t)
        /\ received.control \in {{}, {"RST"}} => e = Ignores(t)
        /\ received.control = {"SYN"} => e = sendSYNACK(t, received, j)
    BY <1>1, <2>1, <2>2, SynSentHandling
  <2>n. /\ Plus(i, 1) = Inc(i)
        /\ i < Plus(i, 1) /\ Plus(i, 1) <= Inc(i) <=> Inc(i) # 0
        /\ \A a \in {i, Plus(i, -3), Plus(i, 2)} :
               ~(i < a /\ a <= Inc(i)) /\ ~(a = 0 /\ Inc(i) = 0)
    BY NumbersOfSynSent
  <2>4. CASE test.section \in {2, 3, 4, 9}
    <3>1. /\ received.control \in {{"ACK"}, {"SYN", "ACK"}}
          /\ received.ackNumber \in {i, Plus(i, -3), Plus(i, 2)}
          /\ Row.reply = "reset" /\ Row.state = "any" /\ Row.error = "any"
      <4>1. CASE test.section \in {2, 3}
        BY <1>1, <4>1 DEF SynSentSections, Section
      <4>2. CASE test.section = 4
        BY <1>1, <4>2 DEF SynSentSections, Section
      <4>3. CASE test.section = 9
        BY <1>1, <4>3 DEF SynSentSections, Section
      <4> QED
        BY <2>4, <4>1, <4>2, <4>3
    <3>2. ~AckAcceptable(t, received)
      BY <2>1, <2>n, <3>1 DEF AckAcceptable
    <3>3. e = sendRST(t, received)
      BY <2>a, <3>1, <3>2
    <3>4. PICK k : /\ sendRST(t, received).out = {k} /\ k.control = {"RST"}
                   /\ k.sequenceNumber = received.ackNumber
      BY <1>1, <3>1, RSTReply
    <3>5. sent = {k} /\ tcb = t
      BY <1>1, <2>3, <3>3, <3>4, RSTSent DEF Took
    <3>6. ~AcksWrappedNumber
      BY <2>1, <2>n, <3>1, <3>5 DEF AcksWrappedNumber
    <3> QED
      BY <3>1, <3>4, <3>5, <3>6, ResetIsRight
  <2>5. CASE test.section = 5
    <3>1. /\ received.control = {"ACK", "RST"} /\ received.ackNumber = Inc(i)
          /\ Row.reply = "none" /\ Row.state = "CLOSED" /\ Row.error = "CONNECTION_RESET"
      BY <1>1, <2>5, <2>n DEF SynSentSections, Section
    <3>2. AckAcceptable(t, received) <=> Inc(i) # 0
      BY <2>1, <2>n, <3>1 DEF AckAcceptable
    <3>3. CASE Inc(i) # 0
      <4>1. e = FailsWith(t, "CONNECTION_RESET")
        BY <2>a, <3>1, <3>2, <3>3
      <4>2. tcb.state = "CLOSED" /\ sent = {} /\ assigned /\ errorMessage = "CONNECTION_RESET"
        BY <1>1, <2>3, <4>1 DEF Took, FailsWith, TransmissionControlBlock
      <4>3. Equal(implHeader, noHeader)
        BY <4>2, Reply DEF Equal
      <4>4. Passes
        BY <3>1, <4>2, <4>3 DEF Passes, ReplyRequired
      <4> QED
        BY <3>1, <3>3, <4>2, <4>4 DEF SectionIsRight, AcksWrappedNumber
    <3>4. CASE Inc(i) = 0
      <4>1. e = Ignores(t)
        BY <2>a, <3>1, <3>2, <3>4
      <4>2. tcb = t
        BY <2>3, <4>1 DEF Took, Ignores, Sends
      <4>3. ~Passes
        BY <2>1, <3>1, <4>2 DEF Passes
      <4>4. AcksWrappedNumber
        BY <2>1, <3>1, <3>4, <4>2 DEF AcksWrappedNumber
      <4> QED
        BY <3>1, <4>3, <4>4 DEF SectionIsRight
    <3> QED
      BY <3>3, <3>4
  <2>6. CASE test.section \in {6, 7, 11}
    <3>1. /\ \/ received.control = {"ACK", "RST"} /\ received.ackNumber = i
             \/ received.control \in {{}, {"RST"}}
          /\ Row.reply = "none" /\ Row.state = "any" /\ Row.error = "any"
      <4>1. CASE test.section = 6
        BY <1>1, <4>1 DEF SynSentSections, Section
      <4>2. CASE test.section = 7
        BY <1>1, <4>2 DEF SynSentSections, Section
      <4>3. CASE test.section = 11
        BY <1>1, <4>3 DEF SynSentSections, Section
      <4> QED
        BY <2>6, <4>1, <4>2, <4>3
    <3>2. e = Ignores(t)
      BY <2>1, <2>a, <2>n, <3>1 DEF AckAcceptable
    <3>3. tcb = t
      BY <2>3, <3>2 DEF Took, Ignores, Sends
    <3>4. ~AcksWrappedNumber
      BY <2>1, <2>n, <3>1, <3>3 DEF AcksWrappedNumber
    <3> QED
      BY <2>3, <3>1, <3>2, <3>4, DroppedIsRight
  <2>7. CASE test.section = 8
    <3>1. /\ received.control = {"SYN", "ACK"} /\ received.ackNumber = Inc(i)
          /\ Row.reply = "ACK" /\ Row.state = "ESTABLISHED" /\ Row.error = "any"
      BY <1>1, <2>7, <2>n DEF SynSentSections, Section
    <3>2. AckAcceptable(t, received) <=> Inc(i) # 0
      BY <2>1, <2>n, <3>1 DEF AckAcceptable
    <3>3. CASE Inc(i) # 0
      <4>1. e = sendEstablishedACK(t, received)
        BY <2>a, <3>1, <3>2, <3>3
      <4>2. PICK k : /\ e.out = {k} /\ k.control = {"ACK"}
                     /\ k.sequenceNumber = t.snd_nxt
                     /\ k.ackNumber = Inc(received.sequenceNumber)
        BY <1>1, <4>1, ACKReply
      <4>3. e.tcb.iss = i /\ e.tcb.state = "ESTABLISHED"
        BY <1>1, <2>1, <4>1, EstablishedACKSent
      <4>4. tcb.iss = i /\ tcb.state = "ESTABLISHED" /\ implHeader = k
        BY <2>3, <4>2, <4>3, Reply DEF Took
      <4>5. Passes
        BY <2>1, <3>1, <4>2, <4>4 DEF Passes, ReplyRequired
      <4> QED
        BY <3>1, <3>3, <4>5 DEF SectionIsRight, AcksWrappedNumber
    <3>4. CASE Inc(i) = 0
      <4>1. e = sendRST(t, received)
        BY <2>a, <3>1, <3>2, <3>4
      <4>2. tcb = t
        BY <1>1, <2>3, <4>1, RSTSent DEF Took
      <4>3. ~Passes
        BY <2>1, <3>1, <4>2 DEF Passes
      <4>4. AcksWrappedNumber
        BY <2>1, <3>1, <3>4, <4>2 DEF AcksWrappedNumber
      <4> QED
        BY <3>1, <4>3, <4>4 DEF SectionIsRight
    <3> QED
      BY <3>3, <3>4
  <2>8. CASE test.section = 10
    <3>1. /\ received.control = {"SYN"}
          /\ Row.reply = "SYN_ACK" /\ Row.state = "SYN_RECEIVED" /\ Row.error = "any"
      BY <1>1, <2>8 DEF SynSentSections, Section
    <3>2. PICK a : a = synAckStarted(t, received, j)
      OBVIOUS
    <3>3. e = Sends(synAckDone(a.tcb), a.out)
      BY <2>a, <3>1, <3>2 DEF sendSYNACK
    <3>4. PICK k : /\ synAckStarted(t, received, j).out = {k} /\ k.control = {"SYN", "ACK"}
                   /\ k.ackNumber = Inc(received.sequenceNumber)
      <4>1. t \in TransmissionControlBlock /\ received \in TCPHeader
        BY <1>1
      <4>2. \A u \in TransmissionControlBlock, h \in TCPHeader :
                \E k : /\ synAckStarted(u, h, j).out = {k} /\ k.control = {"SYN", "ACK"}
                       /\ k.ackNumber = Inc(h.sequenceNumber)
        BY SYNACKReply
      <4> HIDE DEF t
      <4> QED
        BY <4>1, <4>2
    <3>5. synAckDone(a.tcb).state = "SYN_RECEIVED"
      BY <1>1, <3>2, SynAckStartedType, SYNACKDone DEF Effect
    <3>6. tcb.state = "SYN_RECEIVED" /\ implHeader = k
      BY <2>3, <3>2, <3>3, <3>4, <3>5, Reply DEF Took, Sends
    <3>7. Passes
      BY <3>1, <3>4, <3>6 DEF Passes, ReplyRequired
    <3> QED
      BY <3>1, <3>7 DEF SectionIsRight, AcksWrappedNumber
  <2> QED
    BY <1>1, <1>3, <2>4, <2>5, <2>6, <2>7, <2>8
<1> QED
  BY <1>1, <1>2, <1>3

\* The test case TCB_SynReceived.  The second section has an active block.
LEMMA SynReceivedIsRight ==
    ASSUME TestType, NEW i \in SeqNumber, NEW n \in SeqNumber, NEW j \in SeqNumber,
           Ran(i, n, j), test.case = "TCB_SynReceived"
    PROVE  SectionIsRight
<1> DEFINE t == before.tcb
<1>1. /\ received \in TCPHeader /\ t \in TransmissionControlBlock
      /\ received.control = SynReceivedSections(i)[test.section].control
      /\ received.ackNumber = SynReceivedSections(i)[test.section].ackNumber
      /\ Row = SynReceivedSections(0)[test.section]
      /\ test.section \in 1 .. 8
  <2>1. test.section \in 1 .. 8
    BY SectionCount DEF TestType
  <2>2. /\ Sections(test.case, i, n) = SynReceivedSections(i)
        /\ Sections(test.case, 0, 0) = SynReceivedSections(0)
    BY Tables
  <2>3. /\ received \in TCPHeader /\ before.tcb \in TransmissionControlBlock
        /\ received.control = Sections(test.case, i, n)[test.section].control
        /\ received.sequenceNumber = Sections(test.case, i, n)[test.section].sequenceNumber
        /\ received.ackNumber = Sections(test.case, i, n)[test.section].ackNumber
    BY RanFrom
  <2>4. Row = Sections(test.case, 0, 0)[test.section]
    BY DEF Row
  <2> QED
    BY <2>1, <2>2, <2>3, <2>4
<1>2. /\ t.state = "SYN_RECEIVED" /\ t.passive = (test.section # 2)
      /\ t.snd_una = Plus(i, 2) /\ t.snd_nxt = Plus(i, 3)
      /\ t.localPort = ACTIVE_LOCAL_PORT
  <2>1. \A k \in Nat :
            LET u == createTCB("TCB_SynReceived", k, i)
            IN  /\ u.state = "SYN_RECEIVED" /\ u.passive = (k # 2)
                /\ u.snd_una = Plus(i, 2) /\ u.snd_nxt = Plus(i, 3)
                /\ u.localPort = ACTIVE_LOCAL_PORT
    BY SynReceivedTCB
  <2> QED
    BY <2>1 DEF Ran, TestType
<1>3. PICK e : e = processUDPMessage(t, t.state, received, j)
  OBVIOUS
<1>4. Took(e)
  BY <1>3 DEF Ran, Handled
<1>5. /\ received.control = {"RST"} /\ t.passive => e = MovesTo(t, "LISTEN")
      /\ received.control = {"RST"} /\ ~t.passive => e = FailsWith(t, "CONNECTION_REFUSED")
      /\ received.control = {"SYN"} =>
             e = [FailsWith(t, "CONNECTION_RESET") EXCEPT !.out = sendRST(t, received).out]
      /\ received.control = {} => e = Ignores(t)
      /\ received.control = {"ACK"} /\ AckInWindow(t, received) => e = MovesTo(t, "ESTABLISHED")
      /\ received.control = {"ACK"} /\ ~AckInWindow(t, received) => e = sendRST(t, received)
      /\ received.control = {"FIN"} => e = MovesTo(t, "CLOSE_WAIT")
  BY <1>1, <1>2, <1>3, SynReceivedHandling
<1>6. /\ Plus(i, 2) <= Plus(i, 3) <=> Plus(i, 3) # 0
      /\ ~(Plus(i, 2) <= Plus(i, 1) /\ Plus(i, 1) <= Plus(i, 3))
      /\ ~(Plus(i, 1) = 0 /\ Plus(i, 3) = 0)
      /\ Plus(i, 3) \in Int
  BY NumbersOfSynReceived, PlusType DEF SeqNumber
\* A section that requires silence and the state that the segment moves the block to.
<1>m. ASSUME NEW s, e = MovesTo(t, s), Row.reply = "none", Row.state = s, Row.error = "any",
             s # "any"
      PROVE  Passes
  <2>1. tcb.state = s /\ sent = {}
    BY <1>1, <1>4, <1>m DEF Took, MovesTo, Ignores, Sends, TransmissionControlBlock
  <2>2. Equal(implHeader, noHeader)
    BY <2>1, Reply DEF Equal
  <2> QED
    BY <1>m, <2>1, <2>2 DEF Passes, ReplyRequired
<1>7. CASE test.section \in {1, 8}
  <2>1. /\ \/ received.control = {"RST"} /\ Row.state = "LISTEN" /\ test.section = 1
           \/ received.control = {"FIN"} /\ Row.state = "CLOSE_WAIT"
        /\ Row.reply = "none" /\ Row.error = "any"
    BY <1>1, <1>7 DEF SynReceivedSections, Section
  <2>2. test.section = 1 => t.passive
    <3>1. test.section = 1 => (test.section # 2) = TRUE
      OBVIOUS
    <3> QED
      BY <1>2, <3>1, Zenon
  <2>3. e = MovesTo(t, Row.state) /\ Row.state # "any"
    BY <1>5, <2>1, <2>2
  <2>4. Passes
    BY <1>m, <2>1, <2>3
  <2> QED
    BY <2>1, <2>4 DEF SectionIsRight, AcksWrappedNumber
<1>8. CASE test.section = 2
  <2>1. /\ received.control = {"RST"}
        /\ Row.reply = "none" /\ Row.state = "CLOSED" /\ Row.error = "CONNECTION_REFUSED"
    BY <1>1, <1>8 DEF SynReceivedSections, Section
  <2>2. e = FailsWith(t, "CONNECTION_REFUSED")
    BY <1>2, <1>5, <1>8, <2>1
  <2>3. tcb.state = "CLOSED" /\ sent = {} /\ assigned /\ errorMessage = "CONNECTION_REFUSED"
    BY <1>1, <1>4, <2>2 DEF Took, FailsWith, TransmissionControlBlock
  <2>4. Equal(implHeader, noHeader)
    BY <2>3, Reply DEF Equal
  <2>5. Passes
    BY <2>1, <2>3, <2>4 DEF Passes, ReplyRequired
  <2> QED
    BY <2>1, <2>3, <2>5 DEF SectionIsRight, AcksWrappedNumber
<1>9. CASE test.section = 3
  <2>1. /\ received.control = {"SYN"}
        /\ Row.reply = "RST" /\ Row.state = "CLOSED" /\ Row.error = "CONNECTION_RESET"
    BY <1>1, <1>9 DEF SynReceivedSections, Section
  <2>2. e = [FailsWith(t, "CONNECTION_RESET") EXCEPT !.out = sendRST(t, received).out]
    BY <1>5, <2>1
  <2>3. PICK k : /\ sendRST(t, received).out = {k} /\ k.control = {"RST"}
                 /\ k.sequenceNumber = t.snd_nxt
    BY <1>1, <2>1, RSTReply
  <2>4. /\ e.tcb = [t EXCEPT !.state = "CLOSED"] /\ e.out = {k}
        /\ e.error = "CONNECTION_RESET"
    BY <2>2, <2>3 DEF FailsWith
  <2>5. /\ tcb.state = "CLOSED" /\ tcb.snd_nxt = t.snd_nxt /\ implHeader = k
        /\ assigned /\ errorMessage = "CONNECTION_RESET"
    BY <1>1, <1>4, <2>4, Reply DEF Took, TransmissionControlBlock
  <2>6. Passes
    BY <2>1, <2>3, <2>5 DEF Passes, ReplyRequired
  <2> QED
    BY <2>1, <2>5, <2>6 DEF SectionIsRight, AcksWrappedNumber
<1>10. CASE test.section \in {4, 7}
  <2>1. /\ received.control = {}
        /\ Row.reply = "none" /\ Row.state = "any" /\ Row.error = "any"
    BY <1>1, <1>10 DEF SynReceivedSections, Section
  <2>2. e = Ignores(t)
    BY <1>5, <2>1
  <2> QED
    BY <1>4, <2>1, <2>2, DroppedIsRight DEF AcksWrappedNumber
<1>11. CASE test.section = 5
  <2>1. /\ received.control = {"ACK"} /\ received.ackNumber = Plus(i, 3)
        /\ Row.reply = "none" /\ Row.state = "ESTABLISHED" /\ Row.error = "any"
    BY <1>1, <1>11 DEF SynReceivedSections, Section
  <2>2. AckInWindow(t, received) <=> Plus(i, 3) # 0
    BY <1>2, <1>6, <2>1 DEF AckInWindow
  <2>3. CASE Plus(i, 3) # 0
    <3>1. Passes
      BY <1>5, <1>m, <2>1, <2>2, <2>3
    <3> QED
      BY <2>1, <2>3, <3>1 DEF SectionIsRight, AcksWrappedNumber
  <2>4. CASE Plus(i, 3) = 0
    <3>1. e = sendRST(t, received)
      BY <1>5, <2>1, <2>2, <2>4
    <3>2. tcb = t
      BY <1>1, <1>4, <3>1, RSTSent DEF Took
    <3>3. ~Passes
      BY <1>2, <2>1, <3>2 DEF Passes
    <3>4. AcksWrappedNumber
      BY <1>2, <2>1, <2>4, <3>2 DEF AcksWrappedNumber
    <3> QED
      BY <2>1, <3>3, <3>4 DEF SectionIsRight
  <2> QED
    BY <2>3, <2>4
<1>12. CASE test.section = 6
  <2>1. /\ received.control = {"ACK"} /\ received.ackNumber = Plus(i, 1)
        /\ Row.reply = "reset" /\ Row.state = "any" /\ Row.error = "any"
    BY <1>1, <1>12 DEF SynReceivedSections, Section
  <2>2. ~AckInWindow(t, received)
    BY <1>2, <1>6, <2>1 DEF AckInWindow
  <2>3. e = sendRST(t, received)
    BY <1>5, <2>1, <2>2
  <2>4. PICK k : /\ sendRST(t, received).out = {k} /\ k.control = {"RST"}
                 /\ k.sequenceNumber = received.ackNumber
    BY <1>1, <2>1, RSTReply
  <2>5. sent = {k} /\ tcb = t
    BY <1>1, <1>4, <2>3, <2>4, RSTSent DEF Took
  <2>6. ~AcksWrappedNumber
    BY <1>2, <1>6, <2>1, <2>5 DEF AcksWrappedNumber
  <2> QED
    BY <2>1, <2>4, <2>5, <2>6, ResetIsRight
<1> QED
  BY <1>1, <1>7, <1>8, <1>9, <1>10, <1>11, <1>12

\* Every section.
LEMMA SectionsAreRight ==
    ASSUME TestType, NEW i \in SeqNumber, NEW n \in SeqNumber, NEW j \in SeqNumber, Ran(i, n, j)
    PROVE  SectionIsRight
BY ClosedIsRight, ListenIsRight, SynSentIsRight, SynReceivedIsRight DEF TestType, TestCase

-----------------------------------------------------------------------------
(***************************************************************************)
(* The code under test, whatever segment it is given.                      *)
(***************************************************************************)

\* processRawIPMessage leaves a block, and launches a thread only for a SYN to a port
\* that has one.
LEMMA RawHandled ==
    ASSUME NEW t \in TransmissionControlBlock, NEW ports, NEW h \in TCPHeader,
           NEW j \in SeqNumber, NEW e, e = processRawIPMessage(t, ports, h, j)
    PROVE  /\ e \in Effect
           /\ h.destinationPort \notin ports => e.tcb = t
<1>1. PICK d : d = processListeningSocketMessage(t, h, MockPort, j)
  OBVIOUS
<1>2. d \in Effect
  BY <1>1, ListenEffect, TestAssumption DEF PortNumber
<1>3. CASE e = Ignores(t)
  BY <1>3, SimpleEffectsType DEF Ignores, Sends
<1>4. CASE e = Sends(t, {closedReply(h)})
  <2>1. e.tcb = t /\ e.out = {closedReply(h)}
    BY <1>4 DEF Sends
  <2> QED
    BY <1>4, <2>1, ClosedReply, SendsType
<1>5. CASE e = d /\ h.destinationPort \in ports
  BY <1>2, <1>5
<1>6. CASE e = Launches([d EXCEPT !.tcb = synAckDone(d.tcb)]) /\ h.destinationPort \in ports
  <2>1. synAckDone(d.tcb) \in TransmissionControlBlock
    BY <1>2, SynAckDoneType DEF Effect
  <2>2. PICK c : c = [d EXCEPT !.tcb = synAckDone(d.tcb)]
    OBVIOUS
  <2>3. c \in Effect
    BY <1>2, <2>1, <2>2 DEF Effect
  <2>4. Launches(c) \in Effect
    BY <2>3 DEF Launches, Effect, TransmissionControlBlock
  <2> QED
    BY <1>6, <2>2, <2>4
<1> QED
  BY <1>1, <1>3, <1>4, <1>5, <1>6 DEF processRawIPMessage

\* Whatever the section handles leaves a block and an effect, and in TCB_Closed and
\* TCB_SynReceived no thread that was not there before.
LEMMA HandledType ==
    ASSUME TestType, NEW t \in TransmissionControlBlock, NEW h \in TCPHeader,
           NEW j \in SeqNumber, NEW e, e = Handled(t, h, j)
    PROVE  /\ e \in Effect
           /\ test.case \in {"TCB_Closed", "TCB_SynReceived"} =>
                  e.tcb.threadLaunched = t.threadLaunched
<1>1. CASE test = [case |-> "TCB_SynSent", section |-> 1]
  <2>1. PICK d : d = sendSYN(t, MockPort, PASSIVE_LOCAL_PORT, j)
    OBVIOUS
  <2>2. d \in Effect
    BY <2>1, SendSYNType, TestAssumption DEF PortNumber
  <2>3. e = Launches(d)
    BY <1>1, <2>1 DEF Handled
  <2>4. Launches(d) \in Effect
    BY <2>2 DEF Launches, Effect, TransmissionControlBlock
  <2>5. test.case = "TCB_SynSent"
    BY <1>1
  <2> QED
    BY <2>3, <2>4, <2>5
<1>2. CASE test.case = "TCB_Closed"
  <2>1. PICK none : none = {}
    OBVIOUS
  <2>2. e = processRawIPMessage(t, none, h, j)
    BY <1>2, <2>1 DEF Handled
  <2>3. h.destinationPort \notin none
    BY <2>1
  <2> QED
    BY <2>2, <2>3, RawHandled
<1>3. CASE test.case = "TCB_Listen"
  <2>1. e = processRawIPMessage(t, {PASSIVE_LOCAL_PORT}, h, j)
    BY <1>3 DEF Handled
  <2> QED
    BY <1>3, <2>1, RawHandled
<1>4. CASE /\ test # [case |-> "TCB_SynSent", section |-> 1]
           /\ test.case \in {"TCB_SynSent", "TCB_SynReceived"}
  <2>1. e = processUDPMessage(t, t.state, h, j)
    BY <1>4 DEF Handled
  <2>2. t.state \in State
    BY DEF TransmissionControlBlock
  <2> QED
    BY <2>1, <2>2, ReaderEffect
<1> QED
  BY <1>1, <1>2, <1>3, <1>4 DEF TestType, TestCase

-----------------------------------------------------------------------------
(***************************************************************************)
(* The inductive invariant: what a section arranges and then leaves is     *)
(* reconstructed from the numbers that were drawn.                         *)
(***************************************************************************)

\* Between the arrangement of a section and its segment.
AsArranged ==
    stage = "process" =>
        /\ \E i, n \in SeqNumber :
               /\ received = ArrangedHeader(test.case, test.section, i, n)
               /\ tcb = createTCB(test.case, test.section, i)
        /\ before.tcb = tcb /\ before.error = errorMessage

\* After a section that was given its own segment.
AsHandled == stage = "require" /\ intact => \E i, n, j \in SeqNumber : Ran(i, n, j)

\* A thread was launched by a section of TCB_Listen or of TCB_SynSent.
ThreadsLaunched ==
    /\ test.case \notin todo
    /\ launched \/ status = "terminated" => ~({"TCB_Listen", "TCB_SynSent"} \subseteq todo)

\* What a section remembers of the time before its segment is a block and a message.
Snapshot == before = [tcb |-> before.tcb, error |-> before.error]

\* The inductive invariant.
TestsInv ==
    /\ TypeOK
    /\ test \in [case : TestCase, section : Nat]
    /\ Snapshot
    /\ AsArranged
    /\ AsHandled
    /\ ThreadsLaunched

\* The type invariant says so.
LEMMA TestTyped ==
    ASSUME TypeOK, test \in [case : TestCase, section : Nat]
    PROVE  TestType
BY SectionCount DEF TypeOK, TestType

\* What a section finds before it arranges anything.
LEMMA FreshType ==
    /\ Fresh.tcb \in TransmissionControlBlock /\ Fresh.error \in ErrorMessage
    /\ Fresh = [tcb |-> Fresh.tcb, error |-> Fresh.error]
    /\ noHeader \in TCPHeader
BY NewType, EmptyHeaderType DEF Fresh, ErrorMessage, noHeader, PortNumber

\* The test program starts in it, whichever test case comes first.
LEMMA TestsInvInit == Init => TestsInv
<1> SUFFICES ASSUME Init PROVE TestsInv
  OBVIOUS
<1>1. PICK c \in TestCase : todo = TestCase \ {c}
  BY DEF Init
<1>2. (CHOOSE d \in TestCase : d \notin todo) = c
  BY <1>1
<1>3. test = [case |-> c, section |-> 1]
  BY <1>2 DEF Init
<1>4. 1 \in DOMAIN Sections(c, 0, 0)
  BY SectionCount DEF TestCase
<1>5. TypeOK
  <2>1. /\ todo \subseteq TestCase /\ test.case \in TestCase
        /\ test.section \in DOMAIN Sections(test.case, 0, 0)
    BY <1>1, <1>3, <1>4
  <2>2. /\ tcb \in TransmissionControlBlock /\ before.tcb \in TransmissionControlBlock
        /\ before.error \in ErrorMessage
        /\ received \in TCPHeader /\ sent \subseteq TCPHeader
    BY FreshType DEF Init
  <2>3. /\ status = "running" /\ stage = "arrange" /\ errorMessage \in ErrorMessage
        /\ {intact, assigned, launched} \subseteq BOOLEAN
    BY DEF Init, ErrorMessage
  <2> QED
    BY <2>1, <2>2, <2>3 DEF TypeOK
<1>6. test \in [case : TestCase, section : Nat] /\ Snapshot
  BY <1>3, FreshType DEF Init, Snapshot
<1>7. ThreadsLaunched
  BY <1>1, <1>3 DEF Init, ThreadsLaunched
<1> QED
  BY <1>5, <1>6, <1>7 DEF TestsInv, Init, AsArranged, AsHandled

\* Arranging a section.
LEMMA ArrangesKeeps ==
    ASSUME TestsInv, NEW i \in SeqNumber, NEW n \in SeqNumber, Arranges(i, n)
    PROVE  TestsInv'
<1>1. /\ test' = test /\ todo' = todo /\ status' = status /\ intact' = intact
      /\ errorMessage' = errorMessage /\ assigned' = assigned /\ launched' = launched
      /\ stage' = "process" /\ sent' = {}
      /\ before' = [tcb |-> tcb', error |-> errorMessage]
      /\ tcb' = createTCB(test.case, test.section, i)
  BY DEF Arranges
<1>2. received' = ArrangedHeader(test.case, test.section, i, n)
  BY DEF Arranges, ArrangedHeader
<1>3. TestType
  BY TestTyped DEF TestsInv
<1>4. received' \in TCPHeader
  <2>1. test.case \in TestCase /\ test.section \in DOMAIN Sections(test.case, i, n)
    BY <1>3, SectionCount DEF TestType, TestCase
  <2> QED
    BY <1>2, <2>1, ArrangedHeaderType
<1>5. tcb' \in TransmissionControlBlock
  <2>1. \A c \in TestCase, k \in Nat : createTCB(c, k, i) \in TransmissionControlBlock
    BY CreateTCB
  <2> QED
    BY <1>1, <1>3, <2>1 DEF TestType
<1>6. before'.tcb = tcb' /\ before'.error = errorMessage
  BY <1>1
<1>7. TypeOK'
  BY <1>1, <1>4, <1>5, <1>6 DEF TestsInv, TypeOK
<1>8. Snapshot'
  BY <1>1, <1>6 DEF Snapshot
<1>9. AsArranged'
  BY <1>1, <1>2, <1>6 DEF AsArranged
<1> QED
  BY <1>1, <1>7, <1>8, <1>9 DEF TestsInv, AsHandled, ThreadsLaunched

\* The block handles a segment: its own, or what the mock read from the dead buffer.
LEMMA HandlesKeeps ==
    ASSUME TestsInv, stage = "process", status = "running",
           NEW h \in TCPHeader, NEW i \in SeqNumber, Handles(h, i),
           intact' \in BOOLEAN, intact' => h = received
    PROVE  TestsInv'
<1>1. PICK e : e = Handled(tcb, h, i)
  OBVIOUS
<1>2. /\ tcb' = e.tcb /\ sent' = e.out
      /\ assigned' = (e.error # "unchanged")
      /\ errorMessage' = IF assigned' THEN e.error ELSE errorMessage
      /\ launched' = (launched \/ e.tcb.threadLaunched)
      /\ stage' = "require"
      /\ status' = status /\ todo' = todo /\ test' = test /\ received' = received
      /\ before' = before
  BY <1>1 DEF Handles
<1>3. TestType
  BY TestTyped DEF TestsInv
<1>4. e \in Effect
  BY <1>1, <1>3, HandledType DEF TestsInv, TypeOK
<1>5. TypeOK'
  <2>1. /\ e.tcb \in TransmissionControlBlock /\ e.out \in SUBSET TCPHeader
        /\ e.error \in ErrorMessage \cup {"unchanged"}
        /\ e.tcb.threadLaunched \in BOOLEAN
    BY <1>4 DEF Effect, TransmissionControlBlock
  <2>2. assigned' \in BOOLEAN /\ launched' \in BOOLEAN
    BY <1>2, <2>1 DEF TestsInv, TypeOK
  <2>3. errorMessage' \in ErrorMessage
    BY <1>2, <2>1 DEF TestsInv, TypeOK
  <2> QED
    BY <1>2, <2>1, <2>2, <2>3 DEF TestsInv, TypeOK
<1>6. PICK i0 \in SeqNumber, n \in SeqNumber :
          /\ received = ArrangedHeader(test.case, test.section, i0, n)
          /\ tcb = createTCB(test.case, test.section, i0)
  BY DEF TestsInv, AsArranged
<1>7. before.tcb = tcb /\ before.error = errorMessage
  BY DEF TestsInv, AsArranged
<1>8. AsHandled'
  <2> SUFFICES ASSUME intact' PROVE Ran(i0, n, i)'
    BY DEF AsHandled
  <2>1. (Handled(before.tcb, received, i))' = Handled(tcb, h, i)
    BY <1>2, <1>7 DEF Handled
  <2>2. Took(Handled(before.tcb, received, i))'
    BY <1>1, <1>2, <1>7, <2>1 DEF Took
  <2> QED
    BY <1>2, <1>6, <1>7, <2>2 DEF Ran
<1>9. ThreadsLaunched'
  <2>1. CASE test.case \in {"TCB_Closed", "TCB_SynReceived"}
    <3>1. tcb.threadLaunched = FALSE
      <4>1. \A c \in TestCase, k \in Nat : createTCB(c, k, i0).threadLaunched = FALSE
        BY CreateTCB
      <4> QED
        BY <1>3, <1>6, <4>1 DEF TestType
    <3>2. e.tcb.threadLaunched = FALSE
      BY <1>1, <1>3, <2>1, <3>1, HandledType DEF TestsInv, TypeOK
    <3>3. launched' => launched
      BY <1>2, <3>2
    <3> QED
      BY <1>2, <3>3 DEF TestsInv, ThreadsLaunched
  <2>2. CASE test.case \in {"TCB_Listen", "TCB_SynSent"}
    BY <1>2, <2>2 DEF TestsInv, ThreadsLaunched
  <2> QED
    BY <1>3, <2>1, <2>2 DEF TestType, TestCase
<1> QED
  BY <1>2, <1>5, <1>8, <1>9 DEF TestsInv, Snapshot, AsArranged

\* Going on: with the next section of the test case, with another test case, or not.
LEMMA GoesOnKeeps ==
    ASSUME TestsInv, GoesOn
    PROVE  TestsInv'
<1>1. /\ status' = "running" /\ status = "running"
      /\ tcb' = Fresh.tcb /\ before' = Fresh /\ received' = noHeader /\ sent' = {}
      /\ intact' = TRUE /\ assigned' = FALSE
      /\ errorMessage' = errorMessage /\ launched' = launched
  BY DEF GoesOn, Running
<1>2. stage' \in {"arrange", "ended"}
  BY DEF GoesOn
<1>3. TestType
  BY TestTyped DEF TestsInv
<1>4. /\ todo' \subseteq todo /\ test' \in [case : TestCase, section : Nat]
      /\ test'.section \in DOMAIN Sections(test'.case, 0, 0)
      /\ test'.case \notin todo'
  <2>1. CASE /\ test.section < Len(Sections(test.case, 0, 0))
             /\ test' = [test EXCEPT !.section = @ + 1]
             /\ todo' = todo
    <3>1. test'.case = test.case /\ test'.section = test.section + 1
      BY <1>3, <2>1 DEF TestType
    <3>2. /\ test.case \in TestCase /\ test.section \in Nat
          /\ Len(Sections(test.case, 0, 0)) \in Nat
          /\ DOMAIN Sections(test.case, 0, 0) = 1 .. Len(Sections(test.case, 0, 0))
      BY <1>3, SectionCount DEF TestType, TestCase
    <3>3. test.section + 1 \in 1 .. Len(Sections(test.case, 0, 0))
      BY <2>1, <3>2
    <3>4. test' \in [case : TestCase, section : Nat]
      BY <1>3, <2>1 DEF TestType
    <3> QED
      BY <2>1, <3>1, <3>2, <3>3, <3>4 DEF TestsInv, ThreadsLaunched
  <2>2. CASE \E c \in todo : test' = [case |-> c, section |-> 1] /\ todo' = todo \ {c}
    <3>1. PICK c \in todo : test' = [case |-> c, section |-> 1] /\ todo' = todo \ {c}
      BY <2>2
    <3>2. c \in TestCase
      BY <3>1 DEF TestsInv, TypeOK
    <3>3. 1 \in DOMAIN Sections(c, 0, 0)
      BY <3>2, SectionCount DEF TestCase
    <3> QED
      BY <3>1, <3>2, <3>3
  <2>3. CASE test' = test /\ todo' = todo
    BY <2>3 DEF TestsInv, TypeOK, ThreadsLaunched
  <2> QED
    BY <2>1, <2>2, <2>3 DEF GoesOn
<1>5. TypeOK'
  <2>1. todo' \subseteq TestCase /\ test'.case \in TestCase
    BY <1>4 DEF TestsInv, TypeOK
  <2>2. before'.tcb \in TransmissionControlBlock /\ before'.error \in ErrorMessage
    BY <1>1, FreshType
  <2> QED
    BY <1>1, <1>2, <1>4, <2>1, <2>2, FreshType DEF TestsInv, TypeOK
<1>6. Snapshot'
  BY <1>1, FreshType DEF Snapshot
<1>7. ThreadsLaunched'
  BY <1>1, <1>4 DEF TestsInv, ThreadsLaunched
<1> QED
  BY <1>2, <1>4, <1>5, <1>6, <1>7 DEF TestsInv, AsArranged, AsHandled

\* Every step of the test program keeps it.
LEMMA TestsInvNext == TestsInv /\ [Next]_vars => TestsInv'
<1> SUFFICES ASSUME TestsInv, [Next]_vars PROVE TestsInv'
  OBVIOUS
<1>1. CASE \E i, n \in SeqNumber : Arranges(i, n)
  BY <1>1, ArrangesKeeps
<1>2. CASE \E i \in SeqNumber : Processes(i)
  <2>1. PICK i \in SeqNumber : Processes(i)
    BY <1>2
  <2> QED
    BY <2>1, HandlesKeeps DEF Processes, Running, TestsInv, TypeOK
<1>3. CASE \E i \in SeqNumber, h \in Garbage : ProcessesGarbage(h, i)
  <2>1. PICK i \in SeqNumber, h \in Garbage : ProcessesGarbage(h, i)
    BY <1>3
  <2>2. h \in TCPHeader
    BY TestAssumption
  <2> QED
    BY <2>1, <2>2, HandlesKeeps DEF ProcessesGarbage, Running
<1>4. CASE AbortsOnGarbage
  <2>1. TypeOK'
    BY <1>4 DEF AbortsOnGarbage, TestsInv, TypeOK
  <2> QED
    BY <1>4, <2>1 DEF AbortsOnGarbage, Running, TestsInv, Snapshot, AsArranged, AsHandled,
       ThreadsLaunched
<1>5. CASE GoesOn
  BY <1>5, GoesOnKeeps
<1>6. CASE StrayThreadThrows \/ Returns
  <2>1. /\ todo' = todo /\ test' = test /\ stage' = stage /\ tcb' = tcb
        /\ received' = received /\ sent' = sent /\ intact' = intact /\ before' = before
        /\ errorMessage' = errorMessage /\ assigned' = assigned /\ launched' = launched
    BY <1>6 DEF StrayThreadThrows, Returns
  <2>2. \/ status' = "terminated" /\ launched
        \/ status' = "returned"
    BY <1>6 DEF StrayThreadThrows, Returns
  <2>3. TypeOK'
    BY <2>1, <2>2 DEF TestsInv, TypeOK
  <2>4. AsArranged'
    BY <2>1 DEF TestsInv, AsArranged
  <2>5. AsHandled'
    <3>1. \A i, n, j : Ran(i, n, j) => Ran(i, n, j)'
      BY <2>1 DEF Ran, Took, Handled
    <3> QED
      BY <2>1, <3>1 DEF TestsInv, AsHandled
  <2> QED
    BY <2>1, <2>2, <2>3, <2>4, <2>5 DEF TestsInv, Snapshot, ThreadsLaunched
<1>7. CASE UNCHANGED vars
  <2>1. TypeOK'
    BY <1>7 DEF vars, TestsInv, TypeOK
  <2>2. AsArranged'
    BY <1>7 DEF vars, TestsInv, AsArranged
  <2>3. AsHandled'
    BY <1>7 DEF vars, TestsInv, AsHandled, Ran, Took, Handled
  <2> QED
    BY <1>7, <2>1, <2>2, <2>3 DEF vars, TestsInv, Snapshot, ThreadsLaunched
<1> QED
  BY <1>1, <1>2, <1>3, <1>4, <1>5, <1>6, <1>7 DEF Next

\* Hence it always holds.
LEMMA TestsInvInductive == Spec => []TestsInv
<1> QED
  BY TestsInvInit, TestsInvNext, PTL DEF Spec

-----------------------------------------------------------------------------
(***************************************************************************)
(* The theorems.                                                           *)
(***************************************************************************)

\* Type correctness of the test program.
THEOREM TypeCorrect == Spec => []TypeOK
<1> QED
  BY TestsInvInductive, PTL DEF TestsInv

\* A section of TCPHandshakeTest.cpp that was given its own segment passes for every
\* number that it, the test or the handler draws, and for every width of the numbers,
\* except where it acknowledges a SND.NXT that wrapped around: then it fails.
THEOREM SectionsPassOrWrap == Spec => []SectionsPass
<1>1. TestsInv => SectionsPass
  BY TestTyped, SectionsAreRight DEF TestsInv, AsHandled, SectionsPass, SectionIsRight
<1> QED
  BY <1>1, TestsInvInductive, PTL

\* What a section passes with as the error message was assigned by its own handler.
THEOREM NoErrorIsInherited == Spec => []ErrorsAreOwn
<1>1. TestsInv => ErrorsAreOwn
  BY TestTyped, SectionsAreRight DEF TestsInv, AsHandled, ErrorsAreOwn, SectionIsRight
<1> QED
  BY <1>1, TestsInvInductive, PTL

\* A section that requires silence and no state leaves block and error message alone.
THEOREM SilenceDrops == Spec => []SilenceIsADrop
<1>1. ASSUME TestsInv, stage = "require", intact, Row.reply = "none", Row.state = "any"
      PROVE  [tcb |-> tcb, error |-> errorMessage] = before
  <2>1. Untouched
    BY <1>1, TestTyped, SectionsAreRight DEF TestsInv, AsHandled, SectionIsRight
  <2> QED
    BY <1>1, <2>1 DEF Untouched, TestsInv, Snapshot
<1>2. TestsInv => SilenceIsADrop
  BY <1>1 DEF SilenceIsADrop
<1> QED
  BY <1>2, TestsInvInductive, PTL

\* The thread that terminates the test program was left by a section of TCB_Listen or
\* of TCB_SynSent, whatever the mock handed over.
THEOREM StrayThreads == Spec => []StrayThreadsAreOfHandshakes
<1>1. TestsInv => StrayThreadsAreOfHandshakes
  BY DEF TestsInv, ThreadsLaunched, StrayThreadsAreOfHandshakes
<1> QED
  BY <1>1, TestsInvInductive, PTL

=============================================================================
