----------------------------- MODULE TCB_proofs -----------------------------
(***************************************************************************)
(* Lemmas about the transmission control block and its handlers, for every *)
(* set of ports and every width of the sequence numbers: the types of what *)
(* they return, what each can result in, and what that changes.  The       *)
(* proofs about TCBThreads and about SimpleTCP rest on them.               *)
(***************************************************************************)
EXTENDS TCB, TLAPS

-----------------------------------------------------------------------------
(***************************************************************************)
(* Types.                                                                  *)
(***************************************************************************)

\* Zero, and the successor of a number, are numbers of the type.
LEMMA SeqNumbers ==
    /\ 0 \in SeqNumber
    /\ \A n \in SeqNumber : Inc(n) \in SeqNumber
BY MaxSeqAssumption DEF SeqNumber, Inc

\* A block starts as one.
LEMMA NewType ==
    ASSUME NEW q \in PortNumber, NEW b \in BOOLEAN
    PROVE  newTCB(q, b) \in TransmissionControlBlock
BY SeqNumbers DEF newTCB, TransmissionControlBlock, State, PortNumber

\* The header every sender starts from is one.
LEMMA EmptyHeaderType ==
    ASSUME NEW l \in PortNumber, NEW f \in PortNumber
    PROVE  constructSendTCPHeader(l, f) \in TCPHeader
BY SeqNumbers DEF constructSendTCPHeader, TCPHeader, ControlBit

\* Numbers and control bits may be set in it.
LEMMA HeaderType ==
    ASSUME NEW k \in TCPHeader, NEW n \in SeqNumber, NEW a \in SeqNumber,
           NEW c \in SUBSET ControlBit
    PROVE  /\ [k EXCEPT !.sequenceNumber = n, !.ackNumber = a, !.control = c] \in TCPHeader
           /\ [k EXCEPT !.sequenceNumber = n, !.control = c] \in TCPHeader
BY DEF TCPHeader

\* What only sends is an effect.
LEMMA SendsType ==
    ASSUME NEW e, e = Sends(e.tcb, e.out),
           e.tcb \in TransmissionControlBlock, e.out \in SUBSET TCPHeader
    PROVE  e \in Effect
BY DEF Sends, Effect

\* sendSYN gives a block and one well-formed segment.
LEMMA SendSYNType ==
    ASSUME NEW t \in TransmissionControlBlock,
           NEW q \in PortNumber, NEW p \in PortNumber, NEW i \in SeqNumber
    PROVE  sendSYN(t, q, p, i) \in Effect
<1> DEFINE e == sendSYN(t, q, p, i)
<1>1. e.tcb \in TransmissionControlBlock
  BY SeqNumbers DEF sendSYN, Sends, createLocalSocket,
     createForeignSocketAddress, TransmissionControlBlock, State
<1>2. e.out \in SUBSET TCPHeader
  BY SeqNumbers DEF sendSYN, Sends, constructSendTCPHeader, TCPHeader, ControlBit
<1> QED
  BY <1>1, <1>2 DEF Effect, sendSYN, Sends

\* The first half of sendSYNACK gives a block and one well-formed segment.
LEMMA SynAckStartedType ==
    ASSUME NEW t \in TransmissionControlBlock, NEW h \in TCPHeader, NEW i \in SeqNumber
    PROVE  synAckStarted(t, h, i) \in Effect
<1> DEFINE e == synAckStarted(t, h, i)
<1> h.sequenceNumber \in SeqNumber /\ Inc(h.sequenceNumber) \in SeqNumber
  BY SeqNumbers DEF TCPHeader
<1>1. e.tcb \in TransmissionControlBlock
  BY DEF synAckStarted, Sends, TransmissionControlBlock
<1>k. constructSendTCPHeader(t.localPort, t.foreignPort) \in TCPHeader
  BY EmptyHeaderType DEF TransmissionControlBlock
<1> DEFINE g == [constructSendTCPHeader(t.localPort, t.foreignPort) EXCEPT
                    !.sequenceNumber = i,
                    !.ackNumber = Inc(h.sequenceNumber),
                    !.control = {"SYN", "ACK"}]
<1>g. g \in TCPHeader
  BY <1>k, HeaderType, {"SYN", "ACK"} \in SUBSET ControlBit DEF ControlBit
<1>o. e.out = {g}
  BY DEF synAckStarted, Sends
<1>2. e.out \in SUBSET TCPHeader
  BY <1>g, <1>o
<1>3. e = Sends(e.tcb, e.out)
  BY DEF synAckStarted, Sends
<1> HIDE DEF e
<1>4. e \in Effect
  BY <1>1, <1>2, <1>3, SendsType
<1> QED
  BY <1>4 DEF e

\* The second half of sendSYNACK gives a block.
LEMMA SynAckDoneType ==
    ASSUME NEW t \in TransmissionControlBlock
    PROVE  synAckDone(t) \in TransmissionControlBlock
BY SeqNumbers DEF synAckDone, TransmissionControlBlock, State

\* The two halves together, as the block's own thread runs them.
LEMMA SendSYNACKType ==
    ASSUME NEW t \in TransmissionControlBlock, NEW h \in TCPHeader, NEW i \in SeqNumber
    PROVE  sendSYNACK(t, h, i) \in Effect
<1> DEFINE e == synAckStarted(t, h, i)
<1>1. e \in Effect
  BY SynAckStartedType
<1>2. synAckDone(e.tcb) \in TransmissionControlBlock
  BY <1>1, SynAckDoneType DEF Effect
<1> QED
  BY <1>1, <1>2 DEF sendSYNACK, Sends, Effect

\* sendRST leaves the block alone and sends one well-formed segment.
LEMMA SendRSTType ==
    ASSUME NEW t \in TransmissionControlBlock, NEW h \in TCPHeader
    PROVE  sendRST(t, h) \in Effect
<1> DEFINE e == sendRST(t, h)
<1>1. e.tcb \in TransmissionControlBlock
  BY DEF sendRST, Sends
<1>k. constructSendTCPHeader(t.localPort, t.foreignPort) \in TCPHeader
  BY EmptyHeaderType DEF TransmissionControlBlock
<1>n. h.ackNumber \in SeqNumber /\ t.snd_nxt \in SeqNumber
  BY DEF TCPHeader, TransmissionControlBlock
<1> DEFINE n == IF "ACK" \in h.control THEN h.ackNumber ELSE t.snd_nxt
           g == [constructSendTCPHeader(t.localPort, t.foreignPort) EXCEPT
                    !.sequenceNumber = n, !.control = {"RST"}]
<1>g. g \in TCPHeader
  <2>1. n \in SeqNumber /\ {"RST"} \in SUBSET ControlBit
    BY <1>n DEF ControlBit
  <2> HIDE DEF n
  <2> QED
    BY <1>k, <2>1, HeaderType
<1>o. e.out = {g}
  BY DEF sendRST, Sends
<1>2. e.out \in SUBSET TCPHeader
  BY <1>g, <1>o
<1>3. e = Sends(e.tcb, e.out)
  BY DEF sendRST, Sends
<1> HIDE DEF e
<1>4. e \in Effect
  BY <1>1, <1>2, <1>3, SendsType
<1> QED
  BY <1>4 DEF e

\* sendEstablishedACK gives a block and one well-formed segment.
LEMMA SendEstablishedACKType ==
    ASSUME NEW t \in TransmissionControlBlock, NEW h \in TCPHeader
    PROVE  sendEstablishedACK(t, h) \in Effect
<1> DEFINE e == sendEstablishedACK(t, h)
<1> h.sequenceNumber \in SeqNumber /\ Inc(h.sequenceNumber) \in SeqNumber
  BY SeqNumbers DEF TCPHeader
<1> t.snd_nxt \in SeqNumber /\ Inc(t.snd_nxt) \in SeqNumber
  BY SeqNumbers DEF TransmissionControlBlock
<1>1. e.tcb \in TransmissionControlBlock
  BY DEF sendEstablishedACK, Sends, createForeignSocketAddress,
         TransmissionControlBlock, State, TCPHeader
<1> DEFINE c == createForeignSocketAddress(t, h.sourcePort)
<1>k. constructSendTCPHeader(c.localPort, c.foreignPort) \in TCPHeader
  BY EmptyHeaderType DEF createForeignSocketAddress, TransmissionControlBlock, TCPHeader
<1> DEFINE g == [constructSendTCPHeader(c.localPort, c.foreignPort) EXCEPT
                    !.sequenceNumber = t.snd_nxt,
                    !.ackNumber = Inc(h.sequenceNumber),
                    !.control = {"ACK"}]
<1>g. g \in TCPHeader
  BY <1>k, HeaderType, {"ACK"} \in SUBSET ControlBit DEF ControlBit
<1>o. e.out = {g}
  BY DEF sendEstablishedACK, Sends
<1>2. e.out \in SUBSET TCPHeader
  BY <1>g, <1>o
<1>3. e = Sends(e.tcb, e.out)
  BY DEF sendEstablishedACK, Sends
<1> HIDE DEF e
<1>4. e \in Effect
  BY <1>1, <1>2, <1>3, SendsType
<1> QED
  BY <1>4 DEF e

\* The effects that send nothing are effects.
LEMMA SimpleEffectsType ==
    ASSUME NEW t \in TransmissionControlBlock
    PROVE  /\ Ignores(t) \in Effect
           /\ \A s \in State : MovesTo(t, s) \in Effect
           /\ \A r \in ErrorMessage : FailsWith(t, r) \in Effect
BY DEF Ignores, Sends, MovesTo, FailsWith, Effect, TransmissionControlBlock, State

-----------------------------------------------------------------------------
(***************************************************************************)
(* What each handler can do, one outcome per branch of the code.           *)
(***************************************************************************)

\* processListeningSocketMessage ignores the segment, before or after it made the
\* connection socket and stored the foreign port, answers it with a reset, or
\* sends a SYN,ACK.  It does the last exactly for the segments of AnswersSYN.
LEMMA ListenOutcome ==
    ASSUME NEW t \in TransmissionControlBlock, NEW h \in TCPHeader,
           NEW q \in PortNumber, NEW i \in SeqNumber
    PROVE  LET s == IF t.connectionSocket THEN t ELSE createLocalSocket(t, q)
               c == createForeignSocketAddress(s, h.sourcePort)
               e == processListeningSocketMessage(t, h, q, i)
           IN  \/ e = Ignores(t) /\ ~AnswersSYN(h)
               \/ e = Ignores(c) /\ ~AnswersSYN(h)
               \/ e = sendRST(c, h) /\ ~AnswersSYN(h)
               \/ e = synAckStarted(c, h, i) /\ AnswersSYN(h)
BY DEF processListeningSocketMessage, processPacketListenState, AnswersSYN

\* processUDPMessage, by the state it dispatches on: which sender or change of
\* state each of the two handlers may end in.
LEMMA ReaderOutcome ==
    ASSUME NEW t \in TransmissionControlBlock, NEW s \in State,
           NEW h \in TCPHeader, NEW i \in SeqNumber
    PROVE  LET e == processUDPMessage(t, s, h, i)
           IN  \/ e = Ignores(t)
               \/ e = sendRST(t, h) /\ s \in {"SYN_SENT", "SYN_RECEIVED"}
               \/ e = FailsWith(t, "CONNECTION_RESET") /\ s = "SYN_SENT"
               \/ e = sendEstablishedACK(t, h) /\ s = "SYN_SENT"
               \/ e = sendSYNACK(t, h, i) /\ s = "SYN_SENT"
               \/ e = MovesTo(t, "LISTEN") /\ s = "SYN_RECEIVED" /\ t.passive
               \/ e = FailsWith(t, "CONNECTION_REFUSED") /\ s = "SYN_RECEIVED" /\ ~t.passive
               \/ /\ e = [FailsWith(t, "CONNECTION_RESET") EXCEPT !.out = sendRST(t, h).out]
                  /\ s = "SYN_RECEIVED"
               \/ e = MovesTo(t, "CLOSE_WAIT") /\ s = "SYN_RECEIVED"
               \/ e = MovesTo(t, "ESTABLISHED") /\ s = "SYN_RECEIVED"
<1>1. CASE s = "SYN_SENT"
  BY <1>1 DEF processUDPMessage, processSynSentSocketMessage
<1>2. CASE s = "SYN_RECEIVED"
  BY <1>2 DEF processUDPMessage, processSynReceivedSocketMessage
<1>3. CASE s \notin {"SYN_SENT", "SYN_RECEIVED"}
  BY <1>3 DEF processUDPMessage
<1> QED
  BY <1>1, <1>2, <1>3

\* processListeningSocketMessage, up to the send: whatever it does, the block
\* still listens; if it sent a SYN,ACK, the block remembers whose SYN it was.
LEMMA ListenEffect ==
    ASSUME NEW t \in TransmissionControlBlock, NEW h \in TCPHeader,
           NEW q \in PortNumber, NEW i \in SeqNumber,
           NEW e, e = processListeningSocketMessage(t, h, q, i)
    PROVE  /\ e \in Effect
           /\ e.tcb.state = t.state
           /\ e.tcb.passive = t.passive
           /\ e.tcb.threadLaunched = t.threadLaunched
           /\ e.error = "unchanged"
           /\ e.tcb.connectionSocket =>
                 \/ e.tcb.localPort = q
                 \/ t.connectionSocket /\ e.tcb.localPort = t.localPort
           /\ t.connectionSocket => e.tcb.connectionSocket
           /\ AnswersSYN(h) =>
                 /\ e.tcb.connectionSocket
                 /\ e.tcb.irs = h.sequenceNumber
                 /\ e.tcb.rcv_nxt = Inc(h.sequenceNumber)
                 /\ e.tcb.foreignPort = h.sourcePort
<1> DEFINE s == IF t.connectionSocket THEN t ELSE createLocalSocket(t, q)
           c == createForeignSocketAddress(s, h.sourcePort)
<1>1. /\ c \in TransmissionControlBlock
      /\ c.state = t.state /\ c.passive = t.passive
      /\ c.threadLaunched = t.threadLaunched
      /\ c.connectionSocket /\ c.foreignPort = h.sourcePort
      /\ c.localPort = IF t.connectionSocket THEN t.localPort ELSE q
  BY DEF createLocalSocket, createForeignSocketAddress, TransmissionControlBlock, TCPHeader
<1>2. \/ e = Ignores(t) /\ ~AnswersSYN(h)
      \/ e = Ignores(c) /\ ~AnswersSYN(h)
      \/ e = sendRST(c, h) /\ ~AnswersSYN(h)
      \/ e = synAckStarted(c, h, i) /\ AnswersSYN(h)
  BY ListenOutcome
<1> HIDE DEF c
<1>3. CASE e = Ignores(t) /\ ~AnswersSYN(h)
  BY <1>3, SimpleEffectsType DEF Ignores, Sends
<1>4. CASE e = Ignores(c) /\ ~AnswersSYN(h)
  BY <1>1, <1>4, SimpleEffectsType DEF Ignores, Sends
<1>5. CASE e = sendRST(c, h) /\ ~AnswersSYN(h)
  <2>1. e \in Effect
    BY <1>1, <1>5, SendRSTType
  <2>2. e.tcb = c /\ e.error = "unchanged"
    BY <1>5 DEF sendRST, Sends
  <2> QED
    BY <1>1, <1>5, <2>1, <2>2
<1>6. CASE e = synAckStarted(c, h, i) /\ AnswersSYN(h)
  <2>1. e \in Effect
    BY <1>1, <1>6, SynAckStartedType
  <2>2. /\ e.error = "unchanged"
        /\ e.tcb.state = c.state /\ e.tcb.passive = c.passive
        /\ e.tcb.threadLaunched = c.threadLaunched
        /\ e.tcb.connectionSocket
        /\ e.tcb.localPort = c.localPort /\ e.tcb.foreignPort = c.foreignPort
        /\ e.tcb.irs = h.sequenceNumber /\ e.tcb.rcv_nxt = Inc(h.sequenceNumber)
    <3>1. /\ e.error = "unchanged"
          /\ e.tcb = [c EXCEPT !.rcv_nxt = Inc(h.sequenceNumber),
                               !.irs = h.sequenceNumber, !.iss = i]
      BY <1>6 DEF synAckStarted, Sends
    <3>2. e.tcb.connectionSocket = c.connectionSocket
      BY <1>1, <3>1 DEF TransmissionControlBlock
    <3> QED
      BY <1>1, <3>1, <3>2 DEF TransmissionControlBlock
  <2> QED
    BY <1>1, <1>6, <2>1, <2>2
<1> QED
  BY <1>2, <1>3, <1>4, <1>5, <1>6

\* The states that SYN_RECEIVED may be left for without a failure, and two blocks
\* that differ in no sequence variable.
FollowsSynReceived(t) ==
    {"CLOSE_WAIT", "ESTABLISHED"} \cup IF t.passive THEN {"LISTEN"} ELSE {}

SameNumbers(u, t) ==
    /\ u.iss = t.iss /\ u.snd_una = t.snd_una /\ u.snd_nxt = t.snd_nxt
    /\ u.irs = t.irs /\ u.rcv_nxt = t.rcv_nxt

\* What the handlers of the block's thread leave, as far as the invariant needs
\* to know: the same block, a closed block, the numbers of a fresh SYN,ACK, those of an
\* active connection, or the same numbers in a state that follows SYN_RECEIVED.
LEMMA ReaderEffect ==
    ASSUME NEW t \in TransmissionControlBlock, NEW s \in State,
           NEW h \in TCPHeader, NEW i \in SeqNumber,
           NEW e, e = processUDPMessage(t, s, h, i)
    PROVE  /\ e \in Effect
           /\ e.tcb.passive = t.passive
           /\ e.tcb.threadLaunched = t.threadLaunched
           /\ e.tcb.connectionSocket = t.connectionSocket
           /\ e.tcb.localPort = t.localPort
           /\ \/ e.tcb = t
              \/ s \in {"SYN_SENT", "SYN_RECEIVED"} /\ e.tcb.state = "CLOSED"
              \/ /\ s = "SYN_SENT" /\ e.tcb.state = "SYN_RECEIVED"
                 /\ e.tcb.snd_una = e.tcb.iss /\ e.tcb.snd_nxt = Inc(e.tcb.iss)
                 /\ e.tcb.rcv_nxt = Inc(e.tcb.irs)
              \/ /\ s = "SYN_SENT" /\ e.tcb.state = "ESTABLISHED"
                 /\ e.tcb.iss = t.iss
                 /\ e.tcb.snd_una = t.snd_nxt /\ e.tcb.snd_nxt = Inc(t.snd_nxt)
                 /\ e.tcb.rcv_nxt = Inc(e.tcb.irs)
              \/ /\ s = "SYN_RECEIVED" /\ e.tcb.state \in FollowsSynReceived(t)
                 /\ SameNumbers(e.tcb, t)
<1>1. CASE e = Ignores(t)
  <2>1. e.tcb = t
    BY <1>1 DEF Ignores, Sends
  <2> QED
    BY <1>1, <2>1, SimpleEffectsType
<1>2. CASE e = sendRST(t, h)
  <2>1. e.tcb = t
    BY <1>2 DEF sendRST, Sends
  <2> QED
    BY <1>2, <2>1, SendRSTType
<1>3. CASE s \in {"SYN_SENT", "SYN_RECEIVED"}
           /\ \E r \in ErrorMessage : e = FailsWith(t, r)
  <2>1. e \in Effect
    BY <1>3, SimpleEffectsType
  <2>2. e.tcb = [t EXCEPT !.state = "CLOSED"]
    BY <1>3 DEF FailsWith
  <2> QED
    BY <1>3, <2>1, <2>2 DEF TransmissionControlBlock
<1>4. CASE s = "SYN_SENT" /\ e = sendEstablishedACK(t, h)
  <2>1. e \in Effect
    BY <1>4, SendEstablishedACKType
  <2>2. e.tcb = [t EXCEPT !.foreignPort = h.sourcePort,
                          !.rcv_nxt = Inc(h.sequenceNumber),
                          !.irs = h.sequenceNumber,
                          !.snd_una = t.snd_nxt,
                          !.snd_nxt = Inc(t.snd_nxt),
                          !.state = "ESTABLISHED"]
    BY <1>4 DEF sendEstablishedACK, Sends, createForeignSocketAddress
  <2> QED
    BY <1>4, <2>1, <2>2 DEF TransmissionControlBlock
<1>5. CASE s = "SYN_SENT" /\ e = sendSYNACK(t, h, i)
  <2>1. e \in Effect
    BY <1>5, SendSYNACKType
  <2> DEFINE c == synAckStarted(t, h, i).tcb
  <2>2. c = [t EXCEPT !.rcv_nxt = Inc(h.sequenceNumber),
                      !.irs = h.sequenceNumber, !.iss = i]
    BY DEF synAckStarted, Sends
  <2>3. e.tcb = [c EXCEPT !.snd_nxt = Inc(c.iss), !.snd_una = c.iss,
                          !.state = "SYN_RECEIVED"]
    BY <1>5 DEF sendSYNACK, synAckDone, Sends
  <2> HIDE DEF c
  <2>4. c \in TransmissionControlBlock
    BY SynAckStartedType DEF c, Effect
  <2>5. /\ c.passive = t.passive /\ c.threadLaunched = t.threadLaunched
        /\ c.connectionSocket = t.connectionSocket /\ c.localPort = t.localPort
        /\ c.rcv_nxt = Inc(c.irs)
    BY <2>2 DEF TransmissionControlBlock
  <2> QED
    BY <1>5, <2>1, <2>3, <2>4, <2>5 DEF TransmissionControlBlock
<1>6. CASE s = "SYN_RECEIVED" /\ \E x \in FollowsSynReceived(t) : e = MovesTo(t, x)
  <2> PICK x \in FollowsSynReceived(t) : e = MovesTo(t, x)
    BY <1>6
  <2>1. e \in Effect
    BY SimpleEffectsType DEF FollowsSynReceived, State
  <2>2. e.tcb = [t EXCEPT !.state = x]
    BY DEF MovesTo, Ignores, Sends
  <2> QED
    BY <1>6, <2>1, <2>2 DEF TransmissionControlBlock, SameNumbers
<1>7. CASE /\ s = "SYN_RECEIVED"
           /\ e = [FailsWith(t, "CONNECTION_RESET") EXCEPT !.out = sendRST(t, h).out]
  <2>1. sendRST(t, h).out \in SUBSET TCPHeader
    BY SendRSTType DEF Effect
  <2>2. FailsWith(t, "CONNECTION_RESET") \in Effect
    BY SimpleEffectsType DEF ErrorMessage
  <2>3. e \in Effect
    BY <1>7, <2>1, <2>2 DEF Effect
  <2>4. e.tcb = [t EXCEPT !.state = "CLOSED"]
    BY <1>7 DEF FailsWith
  <2> QED
    BY <1>7, <2>3, <2>4 DEF TransmissionControlBlock
<1>8. \/ e = Ignores(t)
      \/ e = sendRST(t, h)
      \/ s \in {"SYN_SENT", "SYN_RECEIVED"} /\ \E r \in ErrorMessage : e = FailsWith(t, r)
      \/ s = "SYN_SENT" /\ e = sendEstablishedACK(t, h)
      \/ s = "SYN_SENT" /\ e = sendSYNACK(t, h, i)
      \/ s = "SYN_RECEIVED" /\ \E x \in FollowsSynReceived(t) : e = MovesTo(t, x)
      \/ /\ s = "SYN_RECEIVED"
         /\ e = [FailsWith(t, "CONNECTION_RESET") EXCEPT !.out = sendRST(t, h).out]
  BY ReaderOutcome DEF FollowsSynReceived, ErrorMessage
<1> QED
  BY <1>1, <1>2, <1>3, <1>4, <1>5, <1>6, <1>7, <1>8

-----------------------------------------------------------------------------
(***************************************************************************)
(* The segments the senders send.                                          *)
(***************************************************************************)

\* The segments of the effect e go from the port of its block to its peer's.
FromTo(e) ==
    \A k \in e.out : k.sourcePort = e.tcb.localPort /\ k.destinationPort = e.tcb.foreignPort

\* A SYN is sent from the port the socket was given to the port of the call.
LEMMA SYNSent ==
    ASSUME NEW t \in TransmissionControlBlock,
           NEW q \in PortNumber, NEW p \in PortNumber, NEW i \in SeqNumber,
           NEW e, e = sendSYN(t, q, p, i)
    PROVE  /\ FromTo(e)
           /\ e.error = "unchanged"
           /\ e.tcb.connectionSocket /\ e.tcb.localPort = q /\ e.tcb.foreignPort = p
           /\ e.tcb.passive = t.passive /\ e.tcb.threadLaunched = t.threadLaunched
           /\ e.tcb.state = "SYN_SENT"
           /\ e.tcb.iss = i /\ e.tcb.snd_una = i /\ e.tcb.snd_nxt = Inc(i)
           /\ \A k \in e.out : k.control = {"SYN"} /\ k.sequenceNumber = i
           /\ e.out # {}
<1>1. e.tcb = [t EXCEPT !.connectionSocket = TRUE, !.localPort = q, !.foreignPort = p,
                        !.iss = i, !.snd_una = i, !.snd_nxt = Inc(i), !.state = "SYN_SENT"]
  BY DEF sendSYN, Sends, createLocalSocket, createForeignSocketAddress
<1>2. e.out = {[constructSendTCPHeader(q, p) EXCEPT
                    !.sequenceNumber = i, !.control = {"SYN"}]}
  BY DEF sendSYN, Sends
<1>3. e.error = "unchanged"
  BY DEF sendSYN, Sends
<1>4. \A k \in e.out : /\ k.sourcePort = q /\ k.destinationPort = p
                       /\ k.control = {"SYN"} /\ k.sequenceNumber = i
  BY <1>2 DEF constructSendTCPHeader
<1> QED
  BY <1>1, <1>2, <1>3, <1>4 DEF TransmissionControlBlock, FromTo

\* The answer to a SYN carries the fresh number and acknowledges the SYN's.
LEMMA SYNACKSent ==
    ASSUME NEW t \in TransmissionControlBlock, NEW h \in TCPHeader, NEW i \in SeqNumber,
           NEW e, e = synAckStarted(t, h, i)
    PROVE  /\ FromTo(e)
           /\ e.error = "unchanged"
           /\ e.tcb.iss = i
           /\ e.tcb.irs = h.sequenceNumber /\ e.tcb.rcv_nxt = Inc(h.sequenceNumber)
           /\ e.tcb.snd_una = t.snd_una /\ e.tcb.snd_nxt = t.snd_nxt
           /\ e.tcb.localPort = t.localPort /\ e.tcb.foreignPort = t.foreignPort
           /\ e.tcb.state = t.state /\ e.tcb.passive = t.passive
           /\ e.tcb.connectionSocket = t.connectionSocket
           /\ e.tcb.threadLaunched = t.threadLaunched
           /\ \A k \in e.out :
                  /\ k.control = {"SYN", "ACK"}
                  /\ k.sequenceNumber = i /\ k.ackNumber = Inc(h.sequenceNumber)
           /\ e.out # {}
<1>1. e.tcb = [t EXCEPT !.rcv_nxt = Inc(h.sequenceNumber),
                        !.irs = h.sequenceNumber, !.iss = i]
  BY DEF synAckStarted, Sends
<1>2. e.out = {[constructSendTCPHeader(t.localPort, t.foreignPort) EXCEPT
                    !.sequenceNumber = i,
                    !.ackNumber = Inc(h.sequenceNumber),
                    !.control = {"SYN", "ACK"}]}
  BY DEF synAckStarted, Sends
<1>3. e.error = "unchanged"
  BY DEF synAckStarted, Sends
<1>4. \A k \in e.out :
          /\ k.sourcePort = t.localPort /\ k.destinationPort = t.foreignPort
          /\ k.control = {"SYN", "ACK"}
          /\ k.sequenceNumber = i /\ k.ackNumber = Inc(h.sequenceNumber)
  BY <1>2 DEF constructSendTCPHeader
<1> QED
  BY <1>1, <1>2, <1>3, <1>4 DEF TransmissionControlBlock, FromTo

\* The second half of sendSYNACK sends nothing and leaves who the block talks to.
LEMMA SYNACKDone ==
    ASSUME NEW t \in TransmissionControlBlock, NEW u, u = synAckDone(t)
    PROVE  /\ u.state = "SYN_RECEIVED" /\ u.snd_una = t.iss /\ u.snd_nxt = Inc(t.iss)
           /\ u.passive = t.passive /\ u.iss = t.iss /\ u.irs = t.irs
           /\ u.rcv_nxt = t.rcv_nxt
           /\ u.localPort = t.localPort /\ u.foreignPort = t.foreignPort
           /\ u.connectionSocket = t.connectionSocket
           /\ u.threadLaunched = t.threadLaunched
BY DEF synAckDone, TransmissionControlBlock

\* A reset goes to the peer the block has.
LEMMA RSTSent ==
    ASSUME NEW t \in TransmissionControlBlock, NEW h \in TCPHeader,
           NEW e, e = sendRST(t, h)
    PROVE  /\ FromTo(e)
           /\ e.error = "unchanged"
           /\ e.tcb = t
           /\ \A k \in e.out : k.control = {"RST"}
<1>1. e.tcb = t /\ e.error = "unchanged"
  BY DEF sendRST, Sends
<1>2. \E n : e.out = {[constructSendTCPHeader(t.localPort, t.foreignPort) EXCEPT
                           !.sequenceNumber = n, !.control = {"RST"}]}
  BY DEF sendRST, Sends
<1>3. \A k \in e.out :
          /\ k.sourcePort = t.localPort /\ k.destinationPort = t.foreignPort
          /\ k.control = {"RST"}
  BY <1>2 DEF constructSendTCPHeader
<1> QED
  BY <1>1, <1>3 DEF FromTo

\* The ACK of a SYN,ACK goes to the port that one came from and acknowledges it.
LEMMA EstablishedACKSent ==
    ASSUME NEW t \in TransmissionControlBlock, NEW h \in TCPHeader,
           NEW e, e = sendEstablishedACK(t, h)
    PROVE  /\ FromTo(e)
           /\ e.error = "unchanged"
           /\ e.tcb.foreignPort = h.sourcePort
           /\ e.tcb.irs = h.sequenceNumber /\ e.tcb.rcv_nxt = Inc(h.sequenceNumber)
           /\ e.tcb.localPort = t.localPort
           /\ e.tcb.iss = t.iss /\ e.tcb.state = "ESTABLISHED"
           /\ \A k \in e.out : k.control = {"ACK"} /\ k.ackNumber = Inc(h.sequenceNumber)
<1>1. e.tcb = [t EXCEPT !.foreignPort = h.sourcePort,
                        !.rcv_nxt = Inc(h.sequenceNumber),
                        !.irs = h.sequenceNumber,
                        !.snd_una = t.snd_nxt,
                        !.snd_nxt = Inc(t.snd_nxt),
                        !.state = "ESTABLISHED"]
  BY DEF sendEstablishedACK, Sends, createForeignSocketAddress
<1> DEFINE c == createForeignSocketAddress(t, h.sourcePort)
<1>2. e.out = {[constructSendTCPHeader(c.localPort, c.foreignPort) EXCEPT
                    !.sequenceNumber = t.snd_nxt,
                    !.ackNumber = Inc(h.sequenceNumber),
                    !.control = {"ACK"}]}
  BY DEF sendEstablishedACK, Sends
<1>3. e.error = "unchanged"
  BY DEF sendEstablishedACK, Sends
<1>4. c.localPort = t.localPort /\ c.foreignPort = h.sourcePort
  BY DEF createForeignSocketAddress, TransmissionControlBlock
<1> HIDE DEF c
<1>5. \A k \in e.out :
          /\ k.sourcePort = t.localPort /\ k.destinationPort = h.sourcePort
          /\ k.control = {"ACK"} /\ k.ackNumber = Inc(h.sequenceNumber)
  BY <1>2, <1>4 DEF constructSendTCPHeader
<1> QED
  BY <1>1, <1>3, <1>5 DEF TransmissionControlBlock, FromTo

\* The ports of a block that handled a segment as a listener, and of what it sent:
\* its port changes only when it gets its socket, and it may take for its peer
\* whoever sent the segment.
LEMMA ListenPorts ==
    ASSUME NEW t \in TransmissionControlBlock, NEW h \in TCPHeader,
           NEW q \in PortNumber, NEW i \in SeqNumber,
           NEW e, e = processListeningSocketMessage(t, h, q, i)
    PROVE  /\ FromTo(e)
           /\ e.tcb.localPort =
                 IF e.tcb.connectionSocket /\ ~t.connectionSocket THEN q ELSE t.localPort
           /\ e.tcb.foreignPort \in {t.foreignPort, h.sourcePort}
           /\ e.tcb.connectionSocket /\ ~t.connectionSocket =>
                  e.tcb.foreignPort = h.sourcePort
           /\ ~e.tcb.connectionSocket => e.out = {}
<1> DEFINE s == IF t.connectionSocket THEN t ELSE createLocalSocket(t, q)
           c == createForeignSocketAddress(s, h.sourcePort)
<1>1. /\ c \in TransmissionControlBlock
      /\ c.connectionSocket /\ c.foreignPort = h.sourcePort
      /\ c.localPort = IF t.connectionSocket THEN t.localPort ELSE q
  BY DEF createLocalSocket, createForeignSocketAddress, TransmissionControlBlock, TCPHeader
<1>2. \/ e = Ignores(t)
      \/ e = Ignores(c)
      \/ e = sendRST(c, h)
      \/ e = synAckStarted(c, h, i)
  BY ListenOutcome
<1> HIDE DEF c
<1>3. CASE e = Ignores(t)
  BY <1>3 DEF Ignores, Sends, FromTo
<1>4. CASE e = Ignores(c)
  BY <1>1, <1>4 DEF Ignores, Sends, FromTo
<1>5. CASE e = sendRST(c, h)
  BY <1>1, <1>5, RSTSent
<1>6. CASE e = synAckStarted(c, h, i)
  BY <1>1, <1>6, SYNACKSent
<1> QED
  BY <1>2, <1>3, <1>4, <1>5, <1>6

\* The same for the thread of the block.
LEMMA ReaderPorts ==
    ASSUME NEW t \in TransmissionControlBlock, NEW s \in State,
           NEW h \in TCPHeader, NEW i \in SeqNumber,
           NEW e, e = processUDPMessage(t, s, h, i)
    PROVE  /\ FromTo(e)
           /\ e.tcb.localPort = t.localPort
           /\ e.tcb.foreignPort \in {t.foreignPort, h.sourcePort}
<1>1. CASE e = sendRST(t, h)
  BY <1>1, RSTSent
<1>2. CASE e = sendEstablishedACK(t, h)
  BY <1>2, EstablishedACKSent
<1>3. CASE e = sendSYNACK(t, h, i)
  <2>1. PICK a : a = synAckStarted(t, h, i)
    OBVIOUS
  <2>2. /\ FromTo(a) /\ a.tcb \in TransmissionControlBlock
        /\ a.tcb.localPort = t.localPort /\ a.tcb.foreignPort = t.foreignPort
    BY <2>1, SYNACKSent, SynAckStartedType DEF Effect
  <2>3. e.tcb = synAckDone(a.tcb) /\ e.out = a.out
    BY <1>3, <2>1 DEF sendSYNACK, Sends
  <2>4. e.tcb.localPort = a.tcb.localPort /\ e.tcb.foreignPort = a.tcb.foreignPort
    BY <2>2, <2>3, SYNACKDone
  <2> QED
    BY <2>2, <2>3, <2>4 DEF FromTo
<1>4. CASE \/ \E x \in State : e = MovesTo(t, x)
           \/ \E r \in ErrorMessage : e = FailsWith(t, r)
           \/ e = Ignores(t)
  BY <1>4 DEF MovesTo, FailsWith, Ignores, Sends, FromTo, TransmissionControlBlock
<1>5. CASE e = [FailsWith(t, "CONNECTION_RESET") EXCEPT !.out = sendRST(t, h).out]
  <2>1. e.tcb = [t EXCEPT !.state = "CLOSED"] /\ e.out = sendRST(t, h).out
    BY <1>5 DEF FailsWith
  <2>2. FromTo(sendRST(t, h)) /\ sendRST(t, h).tcb = t
    BY RSTSent
  <2> QED
    BY <2>1, <2>2 DEF FromTo, TransmissionControlBlock
<1> QED
  BY <1>1, <1>2, <1>3, <1>4, <1>5, ReaderOutcome DEF State, ErrorMessage

\* The answer of a closed port is a reset back to where the segment came from.
LEMMA ClosedReply ==
    ASSUME NEW h \in TCPHeader
    PROVE  /\ closedReply(h) \in TCPHeader
           /\ closedReply(h).sourcePort = h.destinationPort
           /\ closedReply(h).destinationPort = h.sourcePort
           /\ closedReply(h).control \in {{"RST"}, {"RST", "ACK"}}
BY SeqNumbers DEF closedReply, constructSendTCPHeader, TCPHeader, ControlBit

\* What the thread of a block in SYN_SENT makes of the segments that this library
\* sends, but for a SYN alone: it fails on a reset, or is established by an acceptable
\* acknowledgment, or stays and may send a reset.
LEMMA SynSentStep ==
    ASSUME NEW t \in TransmissionControlBlock, NEW h \in TCPHeader, NEW i \in SeqNumber,
           h.control \in {{"SYN", "ACK"}, {"ACK"}, {"RST"}, {"RST", "ACK"}},
           NEW e, e = processUDPMessage(t, "SYN_SENT", h, i)
    PROVE  \/ e.tcb = t /\ \A k \in e.out : k.control = {"RST"}
           \/ e.tcb = [t EXCEPT !.state = "CLOSED"] /\ e.out = {}
           \/ /\ e = sendEstablishedACK(t, h) /\ AckAcceptable(t, h)
              /\ h.control \in {{"SYN", "ACK"}, {"ACK"}}
<1>1. \/ e = sendRST(t, h)
      \/ e = FailsWith(t, "CONNECTION_RESET")
      \/ e = Ignores(t)
      \/ /\ e = sendEstablishedACK(t, h) /\ AckAcceptable(t, h)
         /\ h.control \in {{"SYN", "ACK"}, {"ACK"}}
  BY DEF processUDPMessage, processSynSentSocketMessage
<1>2. CASE e = sendRST(t, h)
  BY <1>2, RSTSent
<1>3. CASE e = FailsWith(t, "CONNECTION_RESET") \/ e = Ignores(t)
  BY <1>3 DEF FailsWith, Ignores, Sends
<1> QED
  BY <1>1, <1>2, <1>3

\* The same for a passive block in SYN_RECEIVED: it listens again after a reset, fails
\* on a second SYN, is established by an acknowledgment in its window, or stays.
LEMMA SynReceivedStep ==
    ASSUME NEW t \in TransmissionControlBlock, NEW h \in TCPHeader, NEW i \in SeqNumber,
           h.control \in {{"SYN", "ACK"}, {"ACK"}, {"RST"}, {"RST", "ACK"}}, t.passive,
           NEW e, e = processUDPMessage(t, "SYN_RECEIVED", h, i)
    PROVE  \/ e.tcb = t /\ \A k \in e.out : k.control = {"RST"}
           \/ /\ e.tcb = [t EXCEPT !.state = "CLOSED"]
              /\ \A k \in e.out : k.control = {"RST"}
           \/ e.tcb = [t EXCEPT !.state = "LISTEN"] /\ e.out = {}
           \/ /\ e.tcb = [t EXCEPT !.state = "ESTABLISHED"] /\ e.out = {}
              /\ h.control = {"ACK"} /\ AckInWindow(t, h)
<1>1. \/ e = sendRST(t, h)
      \/ e = [FailsWith(t, "CONNECTION_RESET") EXCEPT !.out = sendRST(t, h).out]
      \/ e = MovesTo(t, "LISTEN")
      \/ e = MovesTo(t, "ESTABLISHED") /\ h.control = {"ACK"} /\ AckInWindow(t, h)
  BY DEF processUDPMessage, processSynReceivedSocketMessage
<1>2. \A k \in sendRST(t, h).out : k.control = {"RST"}
  BY RSTSent
<1>3. CASE e = sendRST(t, h)
  BY <1>3, RSTSent
<1>4. CASE e = [FailsWith(t, "CONNECTION_RESET") EXCEPT !.out = sendRST(t, h).out]
  BY <1>2, <1>4 DEF FailsWith
<1>5. CASE e = MovesTo(t, "LISTEN")
  BY <1>5 DEF MovesTo, Ignores, Sends
<1>6. CASE e = MovesTo(t, "ESTABLISHED") /\ h.control = {"ACK"} /\ AckInWindow(t, h)
  BY <1>6 DEF MovesTo, Ignores, Sends
<1> QED
  BY <1>1, <1>3, <1>4, <1>5, <1>6

\* A state in which the thread of a block processes nothing.
LEMMA OtherStep ==
    ASSUME NEW t, NEW s, NEW h, NEW i, s \notin {"SYN_SENT", "SYN_RECEIVED"},
           NEW e, e = processUDPMessage(t, s, h, i)
    PROVE  e.tcb = t /\ e.out = {} /\ e.error = "unchanged"
BY DEF processUDPMessage, Ignores, Sends

\* What a listener makes of a segment: a SYN is answered with the fresh number, and
\* whatever else is sent is a reset.
LEMMA ListenStep ==
    ASSUME NEW t \in TransmissionControlBlock, NEW h \in TCPHeader,
           NEW q \in PortNumber, NEW i \in SeqNumber,
           NEW e, e = processListeningSocketMessage(t, h, q, i)
    PROVE  /\ ~AnswersSYN(h) => \A k \in e.out : k.control = {"RST"}
           /\ AnswersSYN(h) =>
                  /\ e.out # {}
                  /\ e.tcb.iss = i
                  /\ \A k \in e.out :
                         /\ k.control = {"SYN", "ACK"}
                         /\ k.sequenceNumber = i /\ k.ackNumber = Inc(h.sequenceNumber)
<1> DEFINE s == IF t.connectionSocket THEN t ELSE createLocalSocket(t, q)
           c == createForeignSocketAddress(s, h.sourcePort)
<1>1. c \in TransmissionControlBlock
  BY DEF createLocalSocket, createForeignSocketAddress, TransmissionControlBlock, TCPHeader
<1>2. \/ e = Ignores(t) /\ ~AnswersSYN(h)
      \/ e = Ignores(c) /\ ~AnswersSYN(h)
      \/ e = sendRST(c, h) /\ ~AnswersSYN(h)
      \/ e = synAckStarted(c, h, i) /\ AnswersSYN(h)
  BY ListenOutcome
<1> HIDE DEF c
<1>3. CASE (e = Ignores(t) \/ e = Ignores(c)) /\ ~AnswersSYN(h)
  BY <1>3 DEF Ignores, Sends
<1>4. CASE e = sendRST(c, h) /\ ~AnswersSYN(h)
  BY <1>1, <1>4, RSTSent
<1>5. CASE e = synAckStarted(c, h, i) /\ AnswersSYN(h)
  BY <1>1, <1>5, SYNACKSent
<1> QED
  BY <1>2, <1>3, <1>4, <1>5

=============================================================================
