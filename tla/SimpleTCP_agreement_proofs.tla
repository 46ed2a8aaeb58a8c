---------------------- MODULE SimpleTCP_agreement_proofs ----------------------
(***************************************************************************)
(* Proofs about the two ends of a connection: an ESTABLISHED passive block *)
(* has an active one with the same ports and numbers, and no two active    *)
(* blocks share an answer, whatever is lost, duplicated, reordered or left *)
(* over from processes that ended; a reset that is due for a listener gets *)
(* there; and no process of two dies, if each listener has at most one     *)
(* client.                                                                 *)
(***************************************************************************)
EXTENDS SimpleTCP_proofs

-----------------------------------------------------------------------------
(***************************************************************************)
(* The inductive invariant, on top of PortInv.  Agreement is kept because  *)
(* every number in flight was drawn once: a SYN,ACK names the block that   *)
(* sent it as long as that block stands by its answer, an ACK in flight    *)
(* names an active block that is ESTABLISHED, and a SYN never reaches a    *)
(* connection socket, so the numbers of a connection change only where a   *)
(* fresh number is drawn.                                                  *)
(***************************************************************************)
Reset == {{"RST"}, {"RST", "ACK"}}

Control == Reset \cup {{"SYN"}, {"SYN", "ACK"}, {"ACK"}}

\* b has answered a SYN and neither listened again nor failed since.
Answering(b) ==
    \/ tcb[b].state \in {"SYN_RECEIVED", "ESTABLISHED"}
    \/ listener[b.process].at = "answer" /\ listener[b.process].block = b

Opened(a) == ~a.passive /\ tcb[a].state = "ESTABLISHED"

\* The states that the two kinds of block go through, and their numbers there.
ActiveBlocks ==
    \A a \in Call : ~a.passive =>
        /\ tcb[a].state \in {"CLOSED", "SYN_SENT", "ESTABLISHED"}
        /\ tcb[a].state # "CLOSED" => tcb[a].connectionSocket
        /\ tcb[a].connectionSocket => tcb[a].iss \in drawn
        /\ tcb[a].state = "SYN_SENT" => tcb[a].snd_nxt = Inc(tcb[a].iss)
        /\ tcb[a].state = "ESTABLISHED" =>
               tcb[a].irs \in drawn /\ tcb[a].rcv_nxt = Inc(tcb[a].irs)

PassiveBlocks ==
    \A b \in Call : b.passive =>
        /\ tcb[b].state \in {"LISTEN", "SYN_RECEIVED", "ESTABLISHED", "CLOSED"}
        /\ Answering(b) => /\ tcb[b].connectionSocket
                           /\ tcb[b].iss \in drawn
                           /\ tcb[b].rcv_nxt = Inc(tcb[b].irs)
        /\ tcb[b].state \in {"SYN_RECEIVED", "ESTABLISHED"} =>
               tcb[b].snd_una = tcb[b].iss /\ tcb[b].snd_nxt = Inc(tcb[b].iss)

\* Nobody touches a block between the two halves of sendSYNACK, and what the thread
\* of a block copied still holds where it matters.
AnswerStands ==
    \A p \in Process : listener[p].at = "answer" => tcb[listener[p].block].state = "LISTEN"

CopyHolds ==
    \A c \in Call :
        reader[c].at = "handle" /\ reader[c].state \in {"SYN_SENT", "SYN_RECEIVED"} =>
            tcb[c].state = reader[c].state

\* A connection socket holds what was sent to its port.
Delivered ==
    \A c \in Call, h \in TCPHeader :
        h \in udp[c] \/ (reader[c].at = "handle" /\ h = reader[c].segment) =>
            h.destinationPort = tcb[c].localPort

\* The segments in flight: what a SYN, a SYN,ACK and an ACK say of the blocks.
SynSegments ==
    \A h \in TCPHeader : InFlight(h) =>
        /\ h.control \in Control
        /\ h.control = {"SYN"} => h.destinationPort \in UserPort

NamesAnswer(h) ==
    /\ h.sequenceNumber \in drawn
    /\ \A b \in Call : b.passive /\ Answering(b) /\ tcb[b].iss = h.sequenceNumber =>
           /\ h.ackNumber = tcb[b].rcv_nxt
           /\ h.sourcePort = tcb[b].localPort /\ h.destinationPort = tcb[b].foreignPort
    /\ \A a \in Call : Opened(a) /\ tcb[a].irs = h.sequenceNumber =>
           h.destinationPort = tcb[a].localPort
    /\ \A a \in Call : ~a.passive /\ tcb[a].connectionSocket =>
           tcb[a].iss # h.sequenceNumber

SynAckSegments ==
    /\ \A h \in TCPHeader : InFlight(h) /\ h.control = {"SYN", "ACK"} => NamesAnswer(h)
    /\ \A h, k \in TCPHeader :
           /\ InFlight(h) /\ h.control = {"SYN", "ACK"}
           /\ InFlight(k) /\ k.control = {"SYN", "ACK"}
           /\ h.sequenceNumber = k.sequenceNumber
           => h.destinationPort = k.destinationPort

AckSegments ==
    \A h \in TCPHeader : InFlight(h) /\ h.control = {"ACK"} =>
        \E a \in Call : Opened(a) /\ tcb[a].rcv_nxt = h.ackNumber

\* An active block that is ESTABLISHED has the answer of at most one passive block
\* that stands by it, shares it with no other, and is no other's own number.
OpenedBlocks ==
    \A a \in Call : Opened(a) =>
        /\ \A c \in Call : ~c.passive /\ tcb[c].connectionSocket =>
               tcb[c].iss # tcb[a].irs
        /\ \A b \in Call : b.passive /\ Answering(b) /\ tcb[b].iss = tcb[a].irs =>
               AnsweredBy(a, b)
        /\ \A c \in Call : Opened(c) /\ tcb[c].irs = tcb[a].irs => c = a

EstablishedBlocks ==
    \A b \in Call : b.passive /\ tcb[b].state = "ESTABLISHED" =>
        \E a \in Call : Opened(a) /\ tcb[a].irs = tcb[b].iss

AnswersDiffer ==
    \A b, c \in Call : b.passive /\ c.passive /\ Answering(b) /\ Answering(c)
        /\ tcb[b].iss = tcb[c].iss => b = c

Connections ==
    /\ ActiveBlocks /\ PassiveBlocks /\ OpenedBlocks /\ EstablishedBlocks /\ AnswersDiffer

Threads == AnswerStands /\ CopyHolds /\ Delivered

InTransit == SynSegments /\ SynAckSegments /\ AckSegments

AgreementInv == PortInv /\ Connections /\ Threads /\ InTransit

-----------------------------------------------------------------------------
(***************************************************************************)
(* Numbers.                                                                *)
(***************************************************************************)

\* Numbers drawn are below the wrap-around; so their successors are successors,
\* no two numbers have the same one, and none is that of another draw.
LEMMA DrawnNumbers ==
    /\ \A i \in ISS : i \in Nat /\ MaxSeq \in Nat /\ i < MaxSeq /\ Inc(i) = i + 1
    /\ \A m, n \in SeqNumber : Inc(m) = Inc(n) => m = n
    /\ \A i, j \in ISS : Inc(i) # j
<1>1. \A i \in ISS : i \in 1 .. MaxSeq - 1
  BY ISSAssumption
<1>2. MaxSeq \in Nat /\ MaxSeq # 0
  BY MaxSeqAssumption
<1>3. \A i \in ISS : i \in Nat /\ i < MaxSeq /\ Inc(i) = i + 1
  BY <1>1, <1>2 DEF Inc
<1>4. \A m, n \in SeqNumber : Inc(m) = Inc(n) => m = n
  BY <1>2 DEF Inc, SeqNumber
<1> QED
  BY <1>2, <1>3, <1>4, ISSAssumption

\* The acknowledgment of a fresh SYN acknowledges exactly its number; one in the
\* window of a SYN,ACK acknowledges it, if it acknowledges a number that was drawn.
LEMMA AcknowledgedDraws ==
    ASSUME NEW t \in TransmissionControlBlock, NEW h \in TCPHeader,
           t.iss \in ISS, t.snd_nxt = Inc(t.iss)
    PROVE  /\ AckAcceptable(t, h) => h.ackNumber = Inc(t.iss)
           /\ \A j \in ISS : t.snd_una = t.iss /\ AckInWindow(t, h) /\ h.ackNumber = Inc(j)
                  => j = t.iss
<1>1. /\ t.iss \in Nat /\ MaxSeq \in Nat /\ t.iss < MaxSeq /\ t.snd_nxt = t.iss + 1
      /\ h.ackNumber \in 0 .. MaxSeq
  BY DrawnNumbers DEF TCPHeader, SeqNumber
<1>2. AckAcceptable(t, h) => h.ackNumber = Inc(t.iss)
  BY <1>1 DEF AckAcceptable
<1>3. ASSUME NEW j \in ISS, t.snd_una = t.iss, AckInWindow(t, h), h.ackNumber = Inc(j)
      PROVE  j = t.iss
  <2>1. h.ackNumber \in {t.iss, Inc(t.iss)}
    BY <1>1, <1>3 DEF AckInWindow
  <2>2. h.ackNumber # t.iss
    BY <1>3, DrawnNumbers
  <2>3. j \in SeqNumber /\ t.iss \in SeqNumber
    BY Constants
  <2> QED
    BY <1>3, <2>1, <2>2, <2>3, DrawnNumbers
<1> QED
  BY <1>2, <1>3

-----------------------------------------------------------------------------
(***************************************************************************)
(* The actions that draw no number.                                        *)
(***************************************************************************)

\* A block keeps its state, numbers and ports (launching its thread changes no more).
SameConnection(c) ==
    /\ tcb'[c].state = tcb[c].state
    /\ tcb'[c].iss = tcb[c].iss /\ tcb'[c].irs = tcb[c].irs
    /\ tcb'[c].snd_una = tcb[c].snd_una /\ tcb'[c].snd_nxt = tcb[c].snd_nxt
    /\ tcb'[c].rcv_nxt = tcb[c].rcv_nxt
    /\ tcb'[c].connectionSocket = tcb[c].connectionSocket
    /\ tcb'[c].localPort = tcb[c].localPort /\ tcb'[c].foreignPort = tcb[c].foreignPort

\* ... its numbers and ports, whatever becomes of its state.
SamePeer(c) ==
    /\ tcb'[c].iss = tcb[c].iss /\ tcb'[c].irs = tcb[c].irs
    /\ tcb'[c].rcv_nxt = tcb[c].rcv_nxt
    /\ tcb'[c].connectionSocket = tcb[c].connectionSocket
    /\ tcb'[c].localPort = tcb[c].localPort /\ tcb'[c].foreignPort = tcb[c].foreignPort

\* A step that leaves numbers and ports alone keeps what is known of the connections
\* and of the segments in flight, if it adds only resets, opens no client and takes
\* up no answer.
LEMMA SamePeers ==
    ASSUME AgreementInv, drawn' = drawn, \A c \in Call : SamePeer(c),
           \A h \in TCPHeader : InFlight(h)' => InFlight(h) \/ h.control \in Reset,
           \A b \in Call : b.passive /\ Answering(b)' => Answering(b),
           \A a \in Call : Opened(a)' <=> Opened(a),
           ActiveBlocks', PassiveBlocks', EstablishedBlocks'
    PROVE  Connections' /\ InTransit'
<1> USE DEF AgreementInv, Connections, InTransit, SamePeer
<1>1. \A a, b \in Call : AnsweredBy(a, b)' <=> AnsweredBy(a, b)
  BY DEF AnsweredBy
<1>2. OpenedBlocks'
  BY <1>1 DEF OpenedBlocks
<1>3. AnswersDiffer'
  BY DEF AnswersDiffer
<1>4. SynSegments'
  BY DEF SynSegments, Control, Reset
<1>5. \A h \in TCPHeader : NamesAnswer(h) => NamesAnswer(h)'
  BY DEF NamesAnswer
<1>6. \A h \in TCPHeader : InFlight(h)' /\ h.control \in {{"SYN", "ACK"}, {"ACK"}} =>
          InFlight(h)
  BY DEF Reset
<1>7. SynAckSegments'
  BY <1>5, <1>6 DEF SynAckSegments
<1>8. AckSegments'
  BY <1>6 DEF AckSegments
<1> QED
  BY <1>2, <1>3, <1>4, <1>7, <1>8

\* The same for a step that leaves the states alone, too.
LEMMA SameConnections ==
    ASSUME AgreementInv, drawn' = drawn, \A c \in Call : SameConnection(c),
           \A h \in TCPHeader : InFlight(h)' => InFlight(h) \/ h.control \in Reset,
           \A b \in Call : Answering(b)' => Answering(b)
    PROVE  Connections' /\ InTransit'
<1> USE DEF AgreementInv, Connections
<1>1. \A c \in Call : SamePeer(c)
  BY DEF SameConnection, SamePeer
<1>2. \A a \in Call : Opened(a)' <=> Opened(a)
  BY DEF Opened, SameConnection
<1>3. ActiveBlocks' /\ PassiveBlocks'
  BY DEF ActiveBlocks, PassiveBlocks, SameConnection
<1>4. EstablishedBlocks'
  BY <1>2 DEF EstablishedBlocks, SameConnection
<1> QED
  BY <1>1, <1>2, <1>3, <1>4, SamePeers

\* The same, for the threads: what they hold is what they held, or was read from their
\* socket.
LEMMA SameThreads ==
    ASSUME AgreementInv, \A c \in Call : SameConnection(c),
           \A p \in Process : listener'[p].at = "answer" => listener'[p] = listener[p],
           \A c \in Call : reader'[c].at = "handle" =>
               \/ reader'[c] = reader[c]
               \/ reader'[c].segment \in udp[c] /\ reader'[c].state = tcb[c].state,
           \A c \in Call : \A h \in udp'[c] :
               h \in udp[c] \/ h.destinationPort = tcb[c].localPort
    PROVE  Threads'
<1> USE DEF AgreementInv, Threads, SameConnection
<1>1. AnswerStands'
  BY DEF AnswerStands, PortInv, AnswerOwned
<1>2. CopyHolds'
  BY DEF CopyHolds
<1>3. Delivered'
  BY DEF Delivered
<1> QED
  BY <1>1, <1>2, <1>3

\* A process that ends.
LEMMA EndsAgreement ==
    ASSUME AgreementInv, NEW p \in Process,
           NEW how \in {"aborted", "terminated", "exited"}, Ends(p, how)
    PROVE  Connections' /\ Threads' /\ InTransit'
<1> USE DEF Ends
<1>1. /\ \A x \in Process : /\ raw'[x] \subseteq raw[x]
                            /\ listener'[x] \in {listener[x], ListenerIdle}
      /\ \A c \in Call : /\ udp'[c] \subseteq udp[c]
                         /\ reader'[c] \in {reader[c], ReaderIdle}
  BY DEF AgreementInv, PortInv, TypeOK
<1>2. \A c \in Call : SameConnection(c)
  BY DEF SameConnection
<1>3. \A h \in TCPHeader : InFlight(h)' => InFlight(h)
  BY <1>1, IdleTypes DEF InFlight
<1>4. \A x \in Process : listener'[x].at # "receive" => listener'[x] = listener[x]
  BY <1>1, IdleTypes
<1>5. \A b \in Call : Answering(b)' => Answering(b)
  BY <1>4, Constants DEF Answering
<1>6. \A c \in Call : reader'[c].at = "handle" => reader'[c] = reader[c]
  BY <1>1, IdleTypes
<1>7. Connections' /\ InTransit'
  BY <1>2, <1>3, <1>5, SameConnections
<1>8. Threads'
  BY <1>1, <1>2, <1>4, <1>6, SameThreads
<1> QED
  BY <1>7, <1>8

\* The steps of open() but the send: they move blocks from key to key.
LEMMA OpenAgreement ==
    ASSUME AgreementInv, NEW c \in Call, OpenExisting(c) \/ OpenInserts(c) \/ Rekeys(c)
    PROVE  Connections' /\ Threads' /\ InTransit'
<1>1. UNCHANGED <<listener, reader, raw, udp, drawn>>
  BY DEF OpenExisting, OpenInserts, Rekeys
<1>2. tcb' = tcb \/ tcb' = [tcb EXCEPT ![c].threadLaunched = TRUE]
  BY DEF OpenExisting, OpenInserts, Rekeys
<1>3. \A d \in Call : SameConnection(d)
  <2>1. tcb \in [Call -> TransmissionControlBlock]
    BY DEF AgreementInv, PortInv, TypeOK
  <2> TAKE d \in Call
  <2>2. CASE tcb'[d] = tcb[d]
    BY <2>2 DEF SameConnection
  <2>3. CASE tcb'[d] = [tcb[d] EXCEPT !.threadLaunched = TRUE]
    <3>1. tcb[d] \in TransmissionControlBlock
      BY <2>1
    <3> QED
      BY <2>3, <3>1 DEF SameConnection, TransmissionControlBlock
  <2> QED
    BY <1>2, <2>1, <2>2, <2>3
<1>4. \A h \in TCPHeader : InFlight(h)' => InFlight(h)
  BY <1>1 DEF InFlight
<1>5. \A b \in Call : Answering(b)' => Answering(b)
  BY <1>1, <1>3 DEF Answering, SameConnection
<1>6. Connections' /\ InTransit'
  BY <1>1, <1>3, <1>4, <1>5, SameConnections
<1>7. Threads'
  BY <1>1, <1>3, SameThreads
<1> QED
  BY <1>6, <1>7

\* The listening thread reads a segment, or finds no block for it.
LEMMA ListenerAgreement ==
    ASSUME AgreementInv, NEW p \in Process,
           \/ \E h \in raw[p] : RawReceives(p, h)
           \/ ClosedIgnores(p) \/ ClosedBinds(p) \/ ClosedReplies(p)
    PROVE  Connections' /\ Threads' /\ InTransit'
<1> USE DEF AgreementInv, PortInv
<1>1. UNCHANGED <<tcb, drawn, reader>>
  BY DEF RawReceives, ClosedIgnores, ClosedBinds, ClosedReplies
<1>2. \A c \in Call : SameConnection(c)
  BY <1>1 DEF SameConnection
<1>3. CASE ClosedReplies(p)
  <2> DEFINE k == closedReply(listener[p].segment)
             S == {k}
  <2>1. k \in TCPHeader /\ k.control \in Reset
    BY ClosedReply DEF TypeOK, Reset
  <2> HIDE DEF k
  <2>2. S \in SUBSET TCPHeader /\ Transmit(S)
    BY <1>3, <2>1 DEF ClosedReplies, k
  <2>3. /\ \A x \in Process : \A h \in raw'[x] : h \in raw[x] \/ h \in S
        /\ \A c \in Call : \A h \in udp'[c] :
               h \in udp[c] \/ (h \in S /\ tcb[c].localPort = h.destinationPort)
    <3> HIDE DEF S
    <3> QED
      BY <2>2, Transmitted
  <2>4. \A x \in Process : listener'[x].at # "receive" => listener'[x] = listener[x]
    BY <1>3, IdleTypes DEF ClosedReplies, TypeOK
  <2>5. \A h \in TCPHeader : InFlight(h)' => InFlight(h) \/ h.control \in Reset
    BY <1>1, <2>1, <2>3, <2>4 DEF InFlight
  <2>6. \A b \in Call : Answering(b)' => Answering(b)
    BY <1>1, <2>4, Constants DEF Answering
  <2>7. Connections' /\ InTransit'
    BY <1>1, <1>2, <2>5, <2>6, SameConnections
  <2>8. Threads'
    BY <1>1, <1>2, <2>3, <2>4, SameThreads
  <2> QED
    BY <2>7, <2>8
<1>4. CASE ClosedIgnores(p) \/ ClosedBinds(p) \/ \E h \in raw[p] : RawReceives(p, h)
  <2>1. udp' = udp /\ \A x \in Process : raw'[x] \subseteq raw[x]
    <3>1. CASE ClosedIgnores(p) \/ ClosedBinds(p)
      BY <3>1 DEF ClosedIgnores, ClosedBinds
    <3>2. ASSUME NEW h \in raw[p], RawReceives(p, h)
          PROVE  udp' = udp /\ \A x \in Process : raw'[x] \subseteq raw[x]
      BY <3>2, RawReceived DEF RawReceives
    <3> QED
      BY <1>4, <3>1, <3>2
  <2>2. /\ \A x \in Process : x # p => listener'[x] = listener[x]
        /\ \/ listener'[p].at = "receive"
           \/ /\ listener'[p].at \in {"find", "reply"}
              /\ \/ listener'[p].segment \in raw[p]
                 \/ /\ listener[p].at # "receive"
                    /\ listener'[p].segment = listener[p].segment
    <3>1. CASE ClosedIgnores(p) \/ ClosedBinds(p)
      BY <3>1, IdleTypes DEF ClosedIgnores, ClosedBinds, Finds, TypeOK
    <3>2. ASSUME NEW h \in raw[p], RawReceives(p, h)
          PROVE  /\ \A x \in Process : x # p => listener'[x] = listener[x]
                 /\ \/ listener'[p].at = "receive"
                    \/ listener'[p].at = "find" /\ listener'[p].segment = h
      BY <3>2, RawReceived
    <3> QED
      BY <1>4, <3>1, <3>2
  <2>3. \A h \in TCPHeader : InFlight(h)' => InFlight(h)
    BY <1>1, <2>1, <2>2 DEF InFlight
  <2>4. \A x \in Process : listener'[x].at = "answer" => listener'[x] = listener[x]
    BY <2>2
  <2>5. \A b \in Call : Answering(b)' => Answering(b)
    BY <1>1, <2>4, Constants DEF Answering
  <2>6. Connections' /\ InTransit'
    BY <1>1, <1>2, <2>3, <2>5, SameConnections
  <2>7. Threads'
    BY <1>1, <1>2, <2>1, <2>4, SameThreads
  <2> QED
    BY <2>6, <2>7
<1> QED
  BY <1>3, <1>4

\* The thread of a block reads a segment, and the network loses one.
LEMMA ReaderReceivesAgreement ==
    ASSUME AgreementInv, NEW c \in Call, NEW h \in udp[c], ReaderReceives(c, h)
    PROVE  Connections' /\ Threads' /\ InTransit'
<1> USE DEF AgreementInv, PortInv
<1>1. UNCHANGED <<tcb, drawn, listener, raw>>
  BY DEF ReaderReceives
<1>2. \A d \in Call : SameConnection(d)
  BY <1>1 DEF SameConnection
<1>3. \A d \in Call : udp'[d] \subseteq udp[d]
  BY LeftOver DEF ReaderReceives, TypeOK
<1>4. /\ \A d \in Call : d # c => reader'[d] = reader[d]
      /\ reader'[c].segment = h /\ reader'[c].state = tcb[c].state
  BY DEF ReaderReceives, TypeOK
<1>5. \A k \in TCPHeader : InFlight(k)' => InFlight(k)
  BY <1>1, <1>3, <1>4 DEF InFlight
<1>6. \A b \in Call : Answering(b)' => Answering(b)
  BY <1>1 DEF Answering
<1>7. Connections' /\ InTransit'
  BY <1>1, <1>2, <1>5, <1>6, SameConnections
<1>8. Threads'
  BY <1>1, <1>2, <1>3, <1>4, SameThreads
<1> QED
  BY <1>7, <1>8

LEMMA LosesAgreement ==
    ASSUME AgreementInv, Loses
    PROVE  Connections' /\ Threads' /\ InTransit'
<1>1. UNCHANGED <<tcb, drawn, listener, reader>>
  BY DEF Loses
<1>2. \A d \in Call : SameConnection(d)
  BY <1>1 DEF SameConnection
<1>3. /\ \A p \in Process : raw'[p] \subseteq raw[p]
      /\ \A c \in Call : udp'[c] \subseteq udp[c]
  <2>1. raw \in [Process -> SUBSET TCPHeader] /\ udp \in [Call -> SUBSET TCPHeader]
    BY DEF AgreementInv, PortInv, TypeOK
  <2>2. CASE udp' = udp /\ \E p \in Process : \E h : raw' = [raw EXCEPT ![p] = @ \ {h}]
    BY <2>1, <2>2
  <2>3. CASE raw' = raw /\ \E c \in Call : \E h : udp' = [udp EXCEPT ![c] = @ \ {h}]
    BY <2>1, <2>3
  <2> QED
    BY <2>2, <2>3 DEF Loses
<1>4. \A h \in TCPHeader : InFlight(h)' => InFlight(h)
  BY <1>1, <1>3 DEF InFlight
<1>5. \A b \in Call : Answering(b)' => Answering(b)
  BY <1>1 DEF Answering
<1>6. Connections' /\ InTransit'
  BY <1>1, <1>2, <1>4, <1>5, SameConnections
<1>7. Threads'
  BY <1>1, <1>2, <1>3, SameThreads
<1> QED
  BY <1>6, <1>7

-----------------------------------------------------------------------------
(***************************************************************************)
(* The actions that change a connection.                                   *)
(***************************************************************************)

\* sendSYNMessage: the number is fresh, so no answer and no connection has it.
LEMMA SendsSYNAgreement ==
    ASSUME AgreementInv, NEW c \in Call, NEW q \in EphemeralPort, NEW i \in ISS,
           SendsSYN(c, q, i)
    PROVE  Connections' /\ Threads' /\ InTransit'
<1> USE DEF AgreementInv, PortInv, Connections, Threads, InTransit
<1> DEFINE e == sendSYN(tcb[c], q, c.foreignPort, i)
<1>1. /\ opening[c] = "syn" /\ Unused(q) /\ Apply(c, e, i)
      /\ UNCHANGED <<status, tcbMap, listener, reader>>
  BY DEF SendsSYN
<1>2. /\ ~c.passive /\ ~tcb[c].connectionSocket /\ tcb[c] \in TransmissionControlBlock
      /\ tcb[c].state = "CLOSED"
  BY <1>1 DEF Blocks, TypeOK, ActiveBlocks
<1>3. /\ e \in Effect /\ FromTo(e)
      /\ e.tcb.connectionSocket /\ e.tcb.localPort = q
      /\ e.tcb.foreignPort = c.foreignPort /\ c.foreignPort \in UserPort
      /\ e.tcb.state = "SYN_SENT"
      /\ e.tcb.iss = i /\ e.tcb.snd_nxt = Inc(i)
      /\ \A k \in e.out : k.control = {"SYN"}
      /\ e.out # {}
  BY <1>2, Constants, SendSYNType, SYNSent
<1> HIDE DEF e
<1>4. i \notin drawn /\ drawn' = drawn \cup {i}
  BY <1>1, <1>3 DEF Apply, Draws
<1>5. /\ tcb'[c] = e.tcb
      /\ \A d \in Call : d # c => tcb'[d] = tcb[d]
      /\ e.out \in SUBSET TCPHeader /\ Transmit(e.out)
  BY <1>1, <1>3, Applied
<1>6. /\ \A x \in Process : \A h \in raw'[x] : h \in raw[x] \/ h \in e.out
      /\ \A d \in Call : \A h \in udp'[d] :
             \/ h \in udp[d]
             \/ h \in e.out /\ tcb[d].connectionSocket /\ tcb[d].localPort = h.destinationPort
  BY <1>5, Transmitted
<1>7. \A h \in TCPHeader : InFlight(h)' =>
          InFlight(h) \/ (h.control = {"SYN"} /\ h.destinationPort \in UserPort)
  BY <1>1, <1>3, <1>6 DEF InFlight, FromTo
<1>8. /\ \A a \in Call : Opened(a)' <=> Opened(a)
      /\ \A b \in Call : b.passive => (Answering(b)' <=> Answering(b))
  BY <1>1, <1>2, <1>3, <1>5 DEF Opened, Answering
<1>9. ActiveBlocks'
  BY <1>3, <1>4, <1>5 DEF ActiveBlocks
<1>10. PassiveBlocks'
  BY <1>2, <1>4, <1>5, <1>8 DEF PassiveBlocks
<1>11. \A a, b \in Call : Opened(a) /\ b.passive => (AnsweredBy(a, b)' <=> AnsweredBy(a, b))
  BY <1>2, <1>5 DEF AnsweredBy, Opened
<1>12. OpenedBlocks'
  <2>1. \A a \in Call : Opened(a) => tcb[a].irs \in drawn /\ tcb'[a] = tcb[a]
    BY <1>2, <1>5 DEF ActiveBlocks, Opened
  <2>2. ASSUME NEW a \in Call, Opened(a), NEW d \in Call, ~d.passive,
               tcb'[d].connectionSocket
        PROVE  tcb'[d].iss # tcb'[a].irs
    BY <1>3, <1>4, <1>5, <2>1, <2>2 DEF OpenedBlocks
  <2>3. \A b \in Call : b.passive => tcb'[b] = tcb[b]
    BY <1>2, <1>5
  <2> QED
    BY <1>8, <1>11, <2>1, <2>2, <2>3 DEF OpenedBlocks
<1>13. EstablishedBlocks' /\ AnswersDiffer'
  <2>1. \A b \in Call : b.passive \/ Opened(b) => tcb'[b] = tcb[b]
    BY <1>2, <1>5 DEF Opened
  <2> QED
    BY <1>8, <2>1 DEF EstablishedBlocks, AnswersDiffer
<1>14. AnswerStands' /\ CopyHolds'
  <2>1. \A x \in Process : listener[x].at = "answer" =>
            listener[x].block \in Call /\ listener[x].block # c
    BY <1>2 DEF AnswerOwned
  <2>2. reader[c].at # "handle"
    BY <1>2 DEF SocketsReceive
  <2> QED
    BY <1>1, <1>5, <2>1, <2>2 DEF AnswerStands, CopyHolds
<1>15. Delivered'
  <2>1. udp'[c] = {} /\ reader[c].at # "handle"
    BY <1>2, <1>6 DEF SocketsReceive
  <2> QED
    BY <1>1, <1>5, <1>6, <2>1 DEF Delivered
<1>16. SynSegments'
  BY <1>7 DEF SynSegments, Control
<1>17. ASSUME NEW h \in TCPHeader, NamesAnswer(h)
       PROVE  NamesAnswer(h)'
  <2>1. \A b \in Call : b.passive \/ Opened(b) => tcb'[b] = tcb[b]
    BY <1>2, <1>5 DEF Opened
  <2>2. \A a \in Call : ~a.passive /\ tcb'[a].connectionSocket =>
            tcb'[a].iss # h.sequenceNumber
    BY <1>3, <1>4, <1>5, <1>17 DEF NamesAnswer
  <2> QED
    BY <1>4, <1>8, <1>17, <2>1, <2>2 DEF NamesAnswer
<1>18. \A h \in TCPHeader : InFlight(h)' /\ h.control \in {{"SYN", "ACK"}, {"ACK"}} =>
           InFlight(h)
  BY <1>7
<1>19. SynAckSegments'
  BY <1>17, <1>18 DEF SynAckSegments
<1>20. AckSegments'
  <2>1. \A a \in Call : Opened(a) => tcb'[a] = tcb[a]
    BY <1>2, <1>5 DEF Opened
  <2> QED
    BY <1>8, <1>18, <2>1 DEF AckSegments
<1> QED
  BY <1>9, <1>10, <1>12, <1>13, <1>14, <1>15, <1>16, <1>19, <1>20

\* processListeningSocketMessage: a block that answers takes a fresh number, and its
\* answer is the only segment that has it.
LEMMA ListenerHandlesAgreement ==
    ASSUME AgreementInv, NEW p \in Process, NEW c \in Call,
           NEW q \in EphemeralPort, NEW i \in ISS, ListenerHandles(p, c, q, i)
    PROVE  Connections' /\ Threads' /\ InTransit'
<1> USE DEF AgreementInv, PortInv, Connections, Threads, InTransit
<1> DEFINE h == listener[p].segment
           t == tcb[c]
           e == processListeningSocketMessage(t, h, q, i)
           answers == AnswersSYN(h)
<1>1. /\ Finds(p, c) /\ t.state = "LISTEN" /\ listener[p].at = "find"
      /\ Apply(c, e, i)
      /\ listener' = [listener EXCEPT ![p] =
             IF AnswersSYN(h) THEN [@ EXCEPT !.at = "answer", !.block = c]
                              ELSE ListenerIdle]
      /\ UNCHANGED <<status, opening, tcbMap, reader>>
  BY DEF ListenerHandles, Finds
<1>2. /\ c.process = p /\ c.passive
      /\ h \in TCPHeader /\ InFlight(h) /\ t \in TransmissionControlBlock
  BY <1>1, Found DEF TypeOK
<1>3. /\ e \in Effect /\ FromTo(e)
      /\ e.tcb.state = t.state
      /\ t.connectionSocket => e.tcb.connectionSocket /\ e.tcb.localPort = t.localPort
      /\ answers => /\ e.tcb.connectionSocket
                    /\ e.tcb.iss = i /\ e.tcb.rcv_nxt = Inc(h.sequenceNumber)
                    /\ e.tcb.irs = h.sequenceNumber
                    /\ e.out # {}
                    /\ \A k \in e.out : /\ k.control = {"SYN", "ACK"} /\ k.sequenceNumber = i
                                        /\ k.ackNumber = e.tcb.rcv_nxt
      /\ ~answers => \A k \in e.out : k.control = {"RST"}
  BY <1>2, Constants, ListenEffect, ListenPorts, ListenStep
<1> HIDE DEF e
<1>4. /\ answers => i \notin drawn /\ drawn' = drawn \cup {i}
      /\ ~answers => drawn' = drawn
      /\ drawn \subseteq drawn'
  <2>1. Draws(e) <=> answers
    BY <1>3 DEF Draws
  <2> QED
    BY <1>1, <2>1 DEF Apply
<1>5. /\ tcb'[c] = e.tcb
      /\ \A d \in Call : d # c => tcb'[d] = tcb[d]
      /\ e.out \in SUBSET TCPHeader /\ Transmit(e.out)
  BY <1>1, <1>3, Applied
<1>6. /\ \A x \in Process : \A k \in raw'[x] : k \in raw[x] \/ k \in e.out
      /\ \A d \in Call : \A k \in udp'[d] :
             \/ k \in udp[d]
             \/ k \in e.out /\ tcb[d].connectionSocket /\ tcb[d].localPort = k.destinationPort
  BY <1>5, Transmitted
<1>7. /\ answers => /\ listener'[p].at = "answer" /\ listener'[p].block = c
                    /\ listener'[p].segment = listener[p].segment
      /\ ~answers => listener'[p].at = "receive"
      /\ \A x \in Process : x # p => listener'[x] = listener[x]
  <2>1. listener[p] \in [at      : {"receive", "find", "reply", "answer"},
                         segment : TCPHeader, block : Call \cup {NoTCB}]
    BY DEF TypeOK
  <2> DEFINE l == [listener[p] EXCEPT !.at = "answer", !.block = c]
  <2>2. l.at = "answer" /\ l.block = c /\ l.segment = listener[p].segment
    BY <2>1
  <2>3. listener'[p] = IF AnswersSYN(h) THEN l ELSE ListenerIdle
    BY <1>1 DEF TypeOK
  <2>4. \A x \in Process : x # p => listener'[x] = listener[x]
    BY <1>1 DEF TypeOK
  <2> HIDE DEF l, h
  <2> QED
    BY <2>2, <2>3, <2>4, IdleTypes
<1>8. \A k \in TCPHeader : InFlight(k)' => InFlight(k) \/ k \in e.out
  BY <1>1, <1>6, <1>7 DEF InFlight
<1> HIDE DEF answers, h, t
<1>9. /\ ~Answering(c) /\ (Answering(c)' => answers)
      /\ \A b \in Call : b # c => (Answering(b)' <=> Answering(b))
  <2>1. ~Answering(c)
    BY <1>1, <1>2 DEF Answering, t
  <2>2. Answering(c)' => answers
    BY <1>1, <1>2, <1>3, <1>5, <1>7 DEF Answering, t
  <2>3. ASSUME NEW b \in Call, b # c PROVE Answering(b)' <=> Answering(b)
    BY <1>1, <1>2, <1>5, <1>7, <2>3, Constants DEF Answering
  <2> QED
    BY <2>1, <2>2, <2>3
<1>10. \A a \in Call : ~a.passive => tcb'[a] = tcb[a] /\ (Opened(a)' <=> Opened(a))
  BY <1>2, <1>5 DEF Opened
<1>11. ActiveBlocks'
  BY <1>4, <1>10 DEF ActiveBlocks
<1>12. PassiveBlocks'
  <2>1. e.tcb.state = "LISTEN"
    BY <1>1, <1>3 DEF t
  <2>2. Answering(c)' => /\ e.tcb.connectionSocket
                         /\ e.tcb.iss \in drawn'
                         /\ e.tcb.rcv_nxt = Inc(e.tcb.irs)
    BY <1>3, <1>4, <1>9
  <2> QED
    BY <1>4, <1>5, <1>9, <2>1, <2>2 DEF PassiveBlocks
<1>13. \A a \in Call : Opened(a)' => Opened(a) /\ tcb'[a] = tcb[a] /\ tcb[a].irs \in drawn
  BY <1>10 DEF Opened, ActiveBlocks
<1>14. OpenedBlocks'
  <2>1. ASSUME NEW a \in Call, Opened(a)', NEW b \in Call,
               b.passive, Answering(b)', tcb'[b].iss = tcb'[a].irs
        PROVE  AnsweredBy(a, b)'
    <3>1. b # c
      BY <1>3, <1>4, <1>5, <1>9, <1>13, <2>1
    <3>2. AnsweredBy(a, b)
      BY <1>5, <1>9, <1>13, <2>1, <3>1 DEF OpenedBlocks
    <3> QED
      BY <1>5, <1>13, <2>1, <3>1, <3>2 DEF AnsweredBy
  <2>2. ASSUME NEW a \in Call, Opened(a)'
        PROVE  /\ \A d \in Call : ~d.passive /\ tcb'[d].connectionSocket =>
                      tcb'[d].iss # tcb'[a].irs
               /\ \A d \in Call : Opened(d)' /\ tcb'[d].irs = tcb'[a].irs => d = a
    BY <1>10, <1>13, <2>2 DEF OpenedBlocks
  <2> QED
    BY <2>1, <2>2 DEF OpenedBlocks
<1>15. EstablishedBlocks'
  <2>1. tcb'[c].state = "LISTEN"
    BY <1>1, <1>3, <1>5 DEF t
  <2> QED
    BY <1>5, <1>10, <2>1 DEF EstablishedBlocks, Opened
<1>16. AnswersDiffer'
  <2>1. ASSUME NEW b \in Call, b.passive, b # c, Answering(b)', Answering(c)'
        PROVE  tcb'[b].iss # tcb'[c].iss
    <3>1. tcb'[b].iss \in drawn
      BY <1>5, <1>9, <2>1 DEF PassiveBlocks
    <3> QED
      BY <1>3, <1>4, <1>5, <1>9, <2>1, <3>1
  <2>2. ASSUME NEW b \in Call, NEW d \in Call, b # c, d # c, b.passive, d.passive,
               Answering(b)', Answering(d)', tcb'[b].iss = tcb'[d].iss
        PROVE  b = d
    BY <1>5, <1>9, <2>2 DEF AnswersDiffer
  <2> QED
    BY <2>1, <2>2 DEF AnswersDiffer
<1>17. AnswerStands' /\ CopyHolds'
  <2>1. \A d \in Call : tcb'[d].state = tcb[d].state
    BY <1>3, <1>5 DEF t
  <2>2. AnswerStands'
    <3>1. \A x \in Process : x # p /\ listener[x].at = "answer" => listener[x].block \in Call
      BY DEF AnswerOwned
    <3> QED
      BY <1>1, <1>7, <2>1, <3>1 DEF AnswerStands, t
  <2>3. CopyHolds'
    BY <1>1, <2>1 DEF CopyHolds
  <2> QED
    BY <2>2, <2>3
<1>18. Delivered'
  <2>1. \A d \in Call : tcb[d].connectionSocket => tcb'[d].localPort = tcb[d].localPort
    BY <1>3, <1>5 DEF t
  <2>2. ASSUME NEW d \in Call, NEW k \in TCPHeader,
               k \in udp'[d] \/ (reader'[d].at = "handle" /\ k = reader'[d].segment)
        PROVE  k.destinationPort = tcb'[d].localPort
    <3>1. tcb[d].connectionSocket
      BY <1>1, <1>6, <2>2 DEF SocketsReceive
    <3>2. k.destinationPort = tcb[d].localPort
      BY <1>1, <1>6, <2>2 DEF Delivered
    <3> QED
      BY <2>1, <3>1, <3>2
  <2> QED
    BY <2>2 DEF Delivered
<1>19. SynSegments'
  BY <1>3, <1>8 DEF SynSegments, Control, Reset
<1>20. ASSUME NEW k \in TCPHeader, InFlight(k), k.control = {"SYN", "ACK"}
       PROVE  NamesAnswer(k)'
  <2>1. NamesAnswer(k)
    BY <1>20 DEF SynAckSegments
  <2>2. k.sequenceNumber \in drawn
    BY <2>1 DEF NamesAnswer
  <2>3. ASSUME NEW b \in Call, b.passive, Answering(b)', tcb'[b].iss = k.sequenceNumber
        PROVE  /\ k.ackNumber = tcb'[b].rcv_nxt
               /\ k.sourcePort = tcb'[b].localPort /\ k.destinationPort = tcb'[b].foreignPort
    <3>1. b # c
      BY <1>3, <1>4, <1>5, <1>9, <2>2, <2>3
    <3> QED
      BY <1>5, <1>9, <2>1, <2>3, <3>1 DEF NamesAnswer
  <2>4. ASSUME NEW a \in Call, ~a.passive
        PROVE  /\ Opened(a)' /\ tcb'[a].irs = k.sequenceNumber =>
                      k.destinationPort = tcb'[a].localPort
               /\ tcb'[a].connectionSocket => tcb'[a].iss # k.sequenceNumber
    BY <1>10, <2>1, <2>4 DEF NamesAnswer
  <2> QED
    BY <1>4, <2>2, <2>3, <2>4 DEF NamesAnswer, Opened
<1>21. ASSUME NEW k \in e.out, k.control = {"SYN", "ACK"}
       PROVE  /\ NamesAnswer(k)' /\ k.sequenceNumber = i /\ i \notin drawn
              /\ k.destinationPort = e.tcb.foreignPort
  <2>1. /\ answers /\ k.sequenceNumber = i /\ k.ackNumber = e.tcb.rcv_nxt
        /\ i \in drawn' /\ i \notin drawn
    BY <1>3, <1>4, <1>21
  <2>2. k.sourcePort = e.tcb.localPort /\ k.destinationPort = e.tcb.foreignPort
    BY <1>3 DEF FromTo
  <2>3. ASSUME NEW b \in Call, b.passive, Answering(b)', tcb'[b].iss = i
        PROVE  b = c
    BY <1>5, <1>9, <2>1, <2>3 DEF PassiveBlocks
  <2>4. ASSUME NEW a \in Call, ~a.passive
        PROVE  /\ Opened(a)' => tcb'[a].irs # i
               /\ tcb'[a].connectionSocket => tcb'[a].iss # i
    BY <1>10, <1>13, <2>1, <2>4 DEF ActiveBlocks
  <2> QED
    BY <1>5, <2>1, <2>2, <2>3, <2>4 DEF NamesAnswer, Opened
<1>22. SynAckSegments'
  <2>1. \A k \in TCPHeader : InFlight(k) /\ k.control = {"SYN", "ACK"} =>
            k.sequenceNumber \in drawn
    BY DEF SynAckSegments, NamesAnswer
  <2>2. ASSUME NEW k \in TCPHeader, InFlight(k)', k.control = {"SYN", "ACK"},
               NEW g \in TCPHeader, InFlight(g)', g.control = {"SYN", "ACK"},
               g.sequenceNumber = k.sequenceNumber
        PROVE  g.destinationPort = k.destinationPort
    <3>1. CASE InFlight(k) /\ InFlight(g)
      BY <2>2, <3>1 DEF SynAckSegments
    <3>2. CASE k \in e.out /\ g \in e.out
      BY <1>21, <2>2, <3>2
    <3>3. CASE \/ InFlight(k) /\ g \in e.out
               \/ InFlight(g) /\ k \in e.out
      BY <1>21, <2>1, <2>2, <3>3
    <3> QED
      BY <1>8, <2>2, <3>1, <3>2, <3>3
  <2>3. \A k \in TCPHeader : InFlight(k)' /\ k.control = {"SYN", "ACK"} => NamesAnswer(k)'
    BY <1>8, <1>20, <1>21
  <2> QED
    BY <2>2, <2>3 DEF SynAckSegments
<1>23. AckSegments'
  <2>1. \A k \in e.out : k.control # {"ACK"}
    BY <1>3
  <2> QED
    BY <1>8, <1>10, <2>1 DEF AckSegments, Opened
<1> QED
  BY <1>11, <1>12, <1>14, <1>15, <1>16, <1>17, <1>18, <1>19, <1>22, <1>23

\* The rest of sendSYNACK: the block stands by the answer it has just sent.
LEMMA ListenerAnsweredAgreement ==
    ASSUME AgreementInv, NEW p \in Process, ListenerAnswered(p)
    PROVE  Connections' /\ Threads' /\ InTransit'
<1> USE DEF AgreementInv, PortInv, Connections, Threads, InTransit
<1> DEFINE c == listener[p].block
           u == [synAckDone(tcb[c]) EXCEPT !.threadLaunched = TRUE]
<1>1. /\ c \in Call /\ c.process = p /\ c.passive
      /\ tcb[c] \in TransmissionControlBlock /\ tcb[c].state = "LISTEN"
      /\ listener[p].at = "answer"
      /\ tcb' = [tcb EXCEPT ![c] = u]
      /\ listener' = [listener EXCEPT ![p] = ListenerIdle]
      /\ UNCHANGED <<reader, raw, udp, drawn>>
  BY DEF ListenerAnswered, AnswerOwned, AnswerStands, TypeOK
<1>2. /\ u.state = "SYN_RECEIVED"
      /\ u.iss = tcb[c].iss /\ u.irs = tcb[c].irs /\ u.rcv_nxt = tcb[c].rcv_nxt
      /\ u.snd_una = u.iss /\ u.snd_nxt = Inc(u.iss)
      /\ u.localPort = tcb[c].localPort /\ u.foreignPort = tcb[c].foreignPort
      /\ u.connectionSocket = tcb[c].connectionSocket
  <2>1. PICK v : v = synAckDone(tcb[c])
    OBVIOUS
  <2>2. /\ v \in TransmissionControlBlock /\ v.state = "SYN_RECEIVED"
        /\ v.iss = tcb[c].iss /\ v.irs = tcb[c].irs /\ v.rcv_nxt = tcb[c].rcv_nxt
        /\ v.snd_una = tcb[c].iss /\ v.snd_nxt = Inc(tcb[c].iss)
        /\ v.localPort = tcb[c].localPort /\ v.foreignPort = tcb[c].foreignPort
        /\ v.connectionSocket = tcb[c].connectionSocket
    BY <1>1, <2>1, SynAckDoneType, SYNACKDone
  <2>3. u = [v EXCEPT !.threadLaunched = TRUE]
    BY <2>1
  <2> HIDE DEF u, c
  <2> QED
    BY <2>2, <2>3 DEF TransmissionControlBlock
<1> HIDE DEF u
<1>3. tcb'[c] = u /\ \A d \in Call : d # c => tcb'[d] = tcb[d]
  BY <1>1 DEF TypeOK
<1>4. \A x \in Process : listener'[x].at # "receive" => x # p /\ listener'[x] = listener[x]
  BY <1>1, IdleTypes DEF TypeOK
<1>5. Answering(c)
  BY <1>1 DEF Answering
<1> HIDE DEF c
<1>6. \A d \in Call : SamePeer(d)
  BY <1>2, <1>3 DEF SamePeer
<1>7. \A h \in TCPHeader : InFlight(h)' => InFlight(h)
  BY <1>1, <1>4 DEF InFlight
<1>8. \A b \in Call : Answering(b)' => Answering(b)
  <2> TAKE b \in Call
  <2>1. CASE b = c
    BY <1>5, <2>1
  <2>2. CASE b # c
    BY <1>3, <1>4, <2>2, Constants DEF Answering
  <2> QED
    BY <2>1, <2>2
<1>9. \A a \in Call : Opened(a)' <=> Opened(a)
  BY <1>1, <1>3 DEF Opened
<1>10. ActiveBlocks'
  BY <1>1, <1>3 DEF ActiveBlocks
<1>11. PassiveBlocks'
  <2>1. tcb'[c].connectionSocket /\ tcb'[c].iss \in drawn /\ tcb'[c].rcv_nxt = Inc(tcb'[c].irs)
    BY <1>1, <1>2, <1>3, <1>5 DEF PassiveBlocks
  <2> QED
    BY <1>1, <1>2, <1>3, <1>8, <2>1 DEF PassiveBlocks
<1>12. EstablishedBlocks'
  BY <1>2, <1>3, <1>6, <1>9 DEF EstablishedBlocks, SamePeer
<1>13. Connections' /\ InTransit'
  <2>1. drawn' = drawn
    BY <1>1
  <2> QED
    BY <1>6, <1>7, <1>8, <1>9, <1>10, <1>11, <1>12, <2>1, SamePeers
<1>14. Threads'
  <2>1. AnswerStands'
    <3>1. \A x \in Process : x # p /\ listener[x].at = "answer" =>
              listener[x].block \in Call /\ listener[x].block # c
      BY <1>1 DEF AnswerOwned
    <3> QED
      BY <1>3, <1>4, <3>1 DEF AnswerStands
  <2>2. CopyHolds'
    BY <1>1, <1>3 DEF CopyHolds
  <2>3. Delivered'
    BY <1>1, <1>6 DEF Delivered, SamePeer
  <2> QED
    BY <2>1, <2>2, <2>3
<1> QED
  BY <1>13, <1>14

\* What the thread of a block does to it: nothing; or an active block that waits for
\* its SYN to be answered is opened by an answer to that SYN or fails; or a passive one
\* that has answered listens again, fails, or is opened by a client that has its answer.
LEMMA ReaderStep ==
    ASSUME AgreementInv, NEW c \in Call, NEW i \in ISS, ReaderHandles(c, i)
    PROVE  LET h == reader[c].segment
               t == tcb[c]
           IN  /\ drawn' = drawn
               /\ h \in TCPHeader /\ InFlight(h) /\ h.destinationPort = t.localPort
               /\ t \in TransmissionControlBlock /\ t.connectionSocket
               /\ \A d \in Call : d # c => tcb'[d] = tcb[d]
               /\ \/ tcb'[c] = t
                  \/ /\ ~c.passive /\ t.state = "SYN_SENT"
                     /\ tcb'[c] = [t EXCEPT !.state = "CLOSED"]
                  \/ /\ ~c.passive /\ t.state = "SYN_SENT"
                     /\ tcb'[c].state = "ESTABLISHED" /\ tcb'[c].iss = t.iss
                     /\ tcb'[c].irs = h.sequenceNumber
                     /\ tcb'[c].rcv_nxt = Inc(h.sequenceNumber)
                     /\ tcb'[c].connectionSocket /\ tcb'[c].localPort = t.localPort
                     /\ tcb'[c].foreignPort = h.sourcePort
                     /\ h.control = {"SYN", "ACK"} /\ h.ackNumber = Inc(t.iss)
                  \/ /\ c.passive /\ t.state = "SYN_RECEIVED"
                     /\ \/ tcb'[c] = [t EXCEPT !.state = "CLOSED"]
                        \/ tcb'[c] = [t EXCEPT !.state = "LISTEN"]
                        \/ /\ tcb'[c] = [t EXCEPT !.state = "ESTABLISHED"]
                           /\ \E a \in Call : Opened(a) /\ tcb[a].irs = t.iss
               /\ \A k \in TCPHeader : InFlight(k)' =>
                      \/ InFlight(k) \/ k.control \in Reset
                      \/ /\ t.state = "SYN_SENT" /\ Opened(c)'
                         /\ k.control = {"ACK"} /\ k.ackNumber = tcb'[c].rcv_nxt
<1> USE DEF AgreementInv, PortInv, Connections, Threads, InTransit
<1> DEFINE h == reader[c].segment
           s == reader[c].state
           t == tcb[c]
           e == processUDPMessage(t, s, h, i)
<1>1. /\ reader[c].at = "handle" /\ Apply(c, e, i)
      /\ reader' = [reader EXCEPT ![c] = ReaderIdle]
      /\ UNCHANGED <<status, opening, tcbMap, listener>>
  BY DEF ReaderHandles
<1>2. /\ t \in TransmissionControlBlock /\ h \in TCPHeader /\ s \in State
      /\ InFlight(h) /\ t.connectionSocket /\ t.passive = c.passive
      /\ h.destinationPort = t.localPort /\ t.localPort \in EphemeralPort
      /\ s \in {"SYN_SENT", "SYN_RECEIVED"} => t.state = s
  BY <1>1 DEF TypeOK, InFlight, SocketsReceive, Delivered, CopyHolds, Blocks
<1>3. h.control \in {{"SYN", "ACK"}, {"ACK"}, {"RST"}, {"RST", "ACK"}}
  <2>1. h.control \in Control /\ (h.control = {"SYN"} => h.destinationPort \in UserPort)
    BY <1>2 DEF SynSegments
  <2> QED
    BY <1>2, <2>1, Constants DEF Control, Reset
<1>4. i \in SeqNumber /\ \A j \in ISS : j \in SeqNumber
  BY Constants
<1>5. e \in Effect /\ FromTo(e)
  BY <1>2, <1>4, ReaderEffect, ReaderPorts
<1> DEFINE opens == /\ ~c.passive /\ t.state = "SYN_SENT"
                    /\ e.tcb.state = "ESTABLISHED" /\ e.tcb.iss = t.iss
                    /\ e.tcb.irs = h.sequenceNumber
                    /\ e.tcb.rcv_nxt = Inc(h.sequenceNumber)
                    /\ e.tcb.connectionSocket /\ e.tcb.localPort = t.localPort
                    /\ e.tcb.foreignPort = h.sourcePort
                    /\ h.control = {"SYN", "ACK"} /\ h.ackNumber = Inc(t.iss)
                    /\ \A k \in e.out : k.control = {"ACK"} /\ k.ackNumber = e.tcb.rcv_nxt
           silent == \A k \in e.out : k.control \in Reset
           outcome ==
               \/ e.tcb = t /\ silent
               \/ /\ ~c.passive /\ t.state = "SYN_SENT"
                  /\ e.tcb = [t EXCEPT !.state = "CLOSED"] /\ silent
               \/ opens
               \/ /\ c.passive /\ t.state = "SYN_RECEIVED" /\ silent
                  /\ \/ e.tcb = [t EXCEPT !.state = "CLOSED"]
                     \/ e.tcb = [t EXCEPT !.state = "LISTEN"]
                     \/ /\ e.tcb = [t EXCEPT !.state = "ESTABLISHED"]
                        /\ \E a \in Call : Opened(a) /\ tcb[a].irs = t.iss
<1>6. outcome
  <2>1. CASE s \notin {"SYN_SENT", "SYN_RECEIVED"}
    BY <2>1, OtherStep
  <2>2. CASE s = "SYN_SENT"
    <3>1. /\ ~c.passive /\ t.iss \in ISS /\ t.snd_nxt = Inc(t.iss)
          /\ t.state = "SYN_SENT"
      BY <1>2, <2>2 DEF ActiveBlocks, PassiveBlocks, TypeOK
    <3>2. \/ e.tcb = t /\ \A k \in e.out : k.control = {"RST"}
          \/ e.tcb = [t EXCEPT !.state = "CLOSED"] /\ e.out = {}
          \/ /\ e = sendEstablishedACK(t, h) /\ AckAcceptable(t, h)
             /\ h.control \in {{"SYN", "ACK"}, {"ACK"}}
      BY <1>2, <1>3, <1>4, <2>2, SynSentStep
    <3>3. CASE /\ e = sendEstablishedACK(t, h) /\ AckAcceptable(t, h)
               /\ h.control \in {{"SYN", "ACK"}, {"ACK"}}
      <4>1. h.ackNumber = Inc(t.iss)
        BY <1>2, <3>1, <3>3, AcknowledgedDraws
      <4>2. h.control # {"ACK"}
        <5>1. SUFFICES ASSUME h.control = {"ACK"} PROVE FALSE
          OBVIOUS
        <5>2. PICK a \in Call : Opened(a) /\ tcb[a].rcv_nxt = h.ackNumber
          BY <1>2, <5>1 DEF AckSegments
        <5>3. tcb[a].irs \in ISS /\ tcb[a].rcv_nxt = Inc(tcb[a].irs)
          BY <5>2 DEF ActiveBlocks, Opened, TypeOK
        <5>4. tcb[a].irs = t.iss
          BY <1>4, <3>1, <4>1, <5>2, <5>3, DrawnNumbers
        <5> QED
          BY <1>2, <3>1, <5>2, <5>4 DEF OpenedBlocks
      <4>3. opens
        <5>1. /\ e.tcb.foreignPort = h.sourcePort /\ e.tcb.localPort = t.localPort
              /\ e.tcb.irs = h.sequenceNumber /\ e.tcb.rcv_nxt = Inc(h.sequenceNumber)
              /\ e.tcb.iss = t.iss /\ e.tcb.state = "ESTABLISHED"
              /\ \A k \in e.out : k.control = {"ACK"} /\ k.ackNumber = e.tcb.rcv_nxt
          BY <1>2, <3>3, EstablishedACKSent
        <5>2. e.tcb.connectionSocket
          BY <1>2, <1>4, ReaderEffect
        <5> QED
          BY <3>1, <3>3, <4>1, <4>2, <5>1, <5>2
      <4> QED
        BY <4>3
    <3> HIDE DEF e, t, h, opens
    <3> QED
      BY <3>1, <3>2, <3>3 DEF Reset
  <2>3. CASE s = "SYN_RECEIVED"
    <3>1. /\ c.passive /\ t.iss \in ISS /\ t.snd_una = t.iss /\ t.snd_nxt = Inc(t.iss)
          /\ t.state = "SYN_RECEIVED"
      BY <1>2, <2>3 DEF ActiveBlocks, PassiveBlocks, TypeOK, Answering
    <3>2. \/ e.tcb = t /\ \A k \in e.out : k.control = {"RST"}
          \/ /\ e.tcb = [t EXCEPT !.state = "CLOSED"]
             /\ \A k \in e.out : k.control = {"RST"}
          \/ e.tcb = [t EXCEPT !.state = "LISTEN"] /\ e.out = {}
          \/ /\ e.tcb = [t EXCEPT !.state = "ESTABLISHED"] /\ e.out = {}
             /\ h.control = {"ACK"} /\ AckInWindow(t, h)
      BY <1>2, <1>3, <1>4, <2>3, <3>1, SynReceivedStep
    <3>3. ASSUME h.control = {"ACK"}, AckInWindow(t, h)
          PROVE  \E a \in Call : Opened(a) /\ tcb[a].irs = t.iss
      <4>1. PICK a \in Call : Opened(a) /\ tcb[a].rcv_nxt = h.ackNumber
        BY <1>2, <3>3 DEF AckSegments
      <4>2. tcb[a].irs \in ISS /\ tcb[a].rcv_nxt = Inc(tcb[a].irs)
        BY <4>1 DEF ActiveBlocks, Opened, TypeOK
      <4>3. tcb[a].irs = t.iss
        <5>1. \A j \in ISS : t.snd_una = t.iss /\ AckInWindow(t, h) /\ h.ackNumber = Inc(j)
                  => j = t.iss
          <6> HIDE DEF t, h
          <6> QED
            BY <1>2, <3>1, AcknowledgedDraws
        <5> QED
          BY <3>1, <3>3, <4>1, <4>2, <5>1
      <4> QED
        BY <4>1, <4>3
    <3>4. silent
      BY <3>2 DEF Reset
    <3>5. \/ e.tcb = t
          \/ e.tcb = [t EXCEPT !.state = "CLOSED"]
          \/ e.tcb = [t EXCEPT !.state = "LISTEN"]
          \/ /\ e.tcb = [t EXCEPT !.state = "ESTABLISHED"]
             /\ \E a \in Call : Opened(a) /\ tcb[a].irs = t.iss
      <4> HIDE DEF e, t, h
      <4> QED
        BY <3>2, <3>3
    <3> HIDE DEF e, t, h, opens, silent
    <3> QED
      BY <3>1, <3>4, <3>5
  <2> QED
    BY <2>1, <2>2, <2>3
<1> HIDE DEF e
<1>7. /\ tcb'[c] = e.tcb
      /\ \A d \in Call : d # c => tcb'[d] = tcb[d]
      /\ e.out \in SUBSET TCPHeader /\ Transmit(e.out)
  BY <1>1, <1>5, Applied
<1>8. \A k \in e.out : \/ k.control \in Reset
                       \/ opens /\ k.control = {"ACK"} /\ k.ackNumber = e.tcb.rcv_nxt
  BY <1>6
<1>9. drawn' = drawn
  <2>1. ~Draws(e)
    BY <1>8 DEF Draws, Reset
  <2> QED
    BY <1>1, <2>1 DEF Apply
<1>10. \A k \in TCPHeader : InFlight(k)' => InFlight(k) \/ k \in e.out
  <2>1. /\ \A x \in Process : \A k \in raw'[x] : k \in raw[x] \/ k \in e.out
        /\ \A d \in Call : \A k \in udp'[d] : k \in udp[d] \/ k \in e.out
    BY <1>7, Transmitted
  <2>2. \A d \in Call : reader'[d].at = "handle" => reader'[d] = reader[d]
    BY <1>1, IdleTypes DEF TypeOK
  <2> QED
    BY <1>1, <2>1, <2>2 DEF InFlight
<1>11. opens => Opened(c)'
  BY <1>7 DEF Opened
<1>12. \A k \in TCPHeader : InFlight(k)' =>
           \/ InFlight(k) \/ k.control \in Reset
           \/ /\ t.state = "SYN_SENT" /\ Opened(c)'
              /\ k.control = {"ACK"} /\ k.ackNumber = tcb'[c].rcv_nxt
  BY <1>7, <1>8, <1>10, <1>11
<1> HIDE DEF t, h
<1> QED
  BY <1>2, <1>6, <1>7, <1>9, <1>12 DEF t, h

\* processUDPMessage.  An answer opens a client for good: the client shares it with no
\* other, and has the numbers of the block that sent it, if that one still stands by it.
LEMMA ReaderHandlesAgreement ==
    ASSUME AgreementInv, NEW c \in Call, NEW i \in ISS, ReaderHandles(c, i)
    PROVE  Connections' /\ Threads' /\ InTransit'
<1> USE DEF AgreementInv, PortInv, Connections, Threads, InTransit
<1> DEFINE h == reader[c].segment
           t == tcb[c]
<1>1. /\ drawn' = drawn
      /\ h \in TCPHeader /\ InFlight(h) /\ h.destinationPort = t.localPort
      /\ t \in TransmissionControlBlock /\ t.connectionSocket
      /\ \A d \in Call : d # c => tcb'[d] = tcb[d]
  BY ReaderStep
<1>2. \A k \in TCPHeader : InFlight(k)' =>
          \/ InFlight(k) \/ k.control \in Reset
          \/ /\ t.state = "SYN_SENT" /\ Opened(c)'
             /\ k.control = {"ACK"} /\ k.ackNumber = tcb'[c].rcv_nxt
  BY ReaderStep
<1>3. /\ reader'[c].at = "receive" /\ \A d \in Call : d # c => reader'[d] = reader[d]
      /\ listener' = listener
  BY IdleTypes DEF ReaderHandles, TypeOK
<1>4. \A d \in Call : \A k \in udp'[d] :
          k \in udp[d] \/ k.destinationPort = tcb[d].localPort
  <2> PICK e : e = processUDPMessage(t, reader[c].state, h, i)
    OBVIOUS
  <2>1. Apply(c, e, i) /\ e \in Effect
    BY <1>1, Constants, ReaderEffect DEF ReaderHandles, TypeOK
  <2>2. e.out \in SUBSET TCPHeader /\ Transmit(e.out)
    BY <2>1, Applied
  <2> QED
    BY <2>2, Transmitted
<1>5. \/ tcb'[c] = t
      \/ /\ ~c.passive /\ t.state = "SYN_SENT"
         /\ tcb'[c] = [t EXCEPT !.state = "CLOSED"]
      \/ /\ ~c.passive /\ t.state = "SYN_SENT"
         /\ tcb'[c].state = "ESTABLISHED" /\ tcb'[c].iss = t.iss
         /\ tcb'[c].irs = h.sequenceNumber
         /\ tcb'[c].rcv_nxt = Inc(h.sequenceNumber)
         /\ tcb'[c].connectionSocket /\ tcb'[c].localPort = t.localPort
         /\ tcb'[c].foreignPort = h.sourcePort
         /\ h.control = {"SYN", "ACK"} /\ h.ackNumber = Inc(t.iss)
      \/ /\ c.passive /\ t.state = "SYN_RECEIVED"
         /\ \/ tcb'[c] = [t EXCEPT !.state = "CLOSED"]
            \/ tcb'[c] = [t EXCEPT !.state = "LISTEN"]
            \/ /\ tcb'[c] = [t EXCEPT !.state = "ESTABLISHED"]
               /\ \E a \in Call : Opened(a) /\ tcb[a].irs = t.iss
  BY ReaderStep
<1>6. Threads'
  <2>1. ASSUME NEW p \in Process, listener[p].at = "answer"
        PROVE  tcb'[listener[p].block].state = "LISTEN"
    <3>1. listener[p].block \in Call /\ tcb[listener[p].block].state = "LISTEN"
      BY <2>1 DEF AnswerOwned, AnswerStands
    <3> QED
      BY <1>1, <1>5, <3>1
  <2>2. AnswerStands'
    BY <1>3, <2>1 DEF AnswerStands
  <2>3. CopyHolds'
    BY <1>1, <1>3 DEF CopyHolds
  <2>4. tcb'[c].localPort = t.localPort
    BY <1>1, <1>5 DEF TransmissionControlBlock
  <2>5. Delivered'
    BY <1>1, <1>3, <1>4, <2>4 DEF Delivered
  <2> QED
    BY <2>2, <2>3, <2>5
<1>7. \A b \in Call : b # c => (Answering(b)' <=> Answering(b)) /\ (Opened(b)' <=> Opened(b))
  BY <1>1, <1>3 DEF Answering, Opened
<1>9. CASE tcb'[c] = t
  <2>1. \A d \in Call : SameConnection(d)
    BY <1>1, <1>9 DEF SameConnection
  <2>2. \A b \in Call : Answering(b)' => Answering(b)
    BY <1>3, <1>7, <1>9 DEF Answering
  <2>3. \A k \in TCPHeader : InFlight(k)' => InFlight(k) \/ k.control \in Reset
    BY <1>2, <1>9 DEF Opened
  <2> QED
    BY <1>1, <1>6, <2>1, <2>2, <2>3, SameConnections
<1>10. CASE /\ ~c.passive /\ t.state = "SYN_SENT"
            /\ tcb'[c] = [t EXCEPT !.state = "CLOSED"]
  <2>1. \A d \in Call : SamePeer(d)
    BY <1>1, <1>10 DEF SamePeer, TransmissionControlBlock
  <2>2. tcb'[c].state = "CLOSED"
    BY <1>1, <1>10 DEF TransmissionControlBlock
  <2>3. \A k \in TCPHeader : InFlight(k)' => InFlight(k) \/ k.control \in Reset
    BY <1>2, <2>2 DEF Opened
  <2>4. \A a \in Call : Opened(a)' <=> Opened(a)
    BY <1>7, <1>10, <2>2 DEF Opened
  <2>5. \A b \in Call : b.passive /\ Answering(b)' => Answering(b)
    BY <1>7, <1>10
  <2>6. ActiveBlocks'
    BY <1>1, <2>1, <2>2 DEF ActiveBlocks, SamePeer
  <2>7. PassiveBlocks'
    BY <1>1, <1>10, <2>5 DEF PassiveBlocks
  <2>8. EstablishedBlocks'
    BY <1>1, <1>10, <2>1, <2>4 DEF EstablishedBlocks, SamePeer
  <2> QED
    BY <1>1, <1>6, <2>1, <2>3, <2>4, <2>5, <2>6, <2>7, <2>8, SamePeers
<1>11. CASE /\ c.passive /\ t.state = "SYN_RECEIVED"
            /\ \/ tcb'[c] = [t EXCEPT !.state = "CLOSED"]
               \/ tcb'[c] = [t EXCEPT !.state = "LISTEN"]
               \/ /\ tcb'[c] = [t EXCEPT !.state = "ESTABLISHED"]
                  /\ \E a \in Call : Opened(a) /\ tcb[a].irs = t.iss
  <2>1. \A d \in Call : SamePeer(d)
    BY <1>1, <1>11 DEF SamePeer, TransmissionControlBlock
  <2>2. /\ \/ tcb'[c].state \in {"CLOSED", "LISTEN"}
           \/ /\ tcb'[c].state = "ESTABLISHED"
              /\ \E a \in Call : Opened(a) /\ tcb[a].irs = t.iss
        /\ tcb'[c].snd_una = t.snd_una /\ tcb'[c].snd_nxt = t.snd_nxt
    BY <1>1, <1>11 DEF TransmissionControlBlock
  <2>3. \A k \in TCPHeader : InFlight(k)' => InFlight(k) \/ k.control \in Reset
    BY <1>2, <1>11
  <2>4. \A a \in Call : Opened(a)' <=> Opened(a)
    BY <1>7, <1>11 DEF Opened
  <2>5. Answering(c)
    BY <1>11 DEF Answering
  <2>6. \A b \in Call : b.passive /\ Answering(b)' => Answering(b)
    BY <1>7, <2>5
  <2>7. ActiveBlocks'
    BY <1>1, <1>11 DEF ActiveBlocks
  <2>8. PassiveBlocks'
    BY <1>1, <1>11, <2>1, <2>2, <2>6 DEF PassiveBlocks, SamePeer
  <2>9. EstablishedBlocks'
    BY <1>1, <2>1, <2>2, <2>4 DEF EstablishedBlocks, SamePeer
  <2> QED
    BY <1>1, <1>6, <2>1, <2>3, <2>4, <2>6, <2>7, <2>8, <2>9, SamePeers
<1>12. CASE /\ ~c.passive /\ t.state = "SYN_SENT"
            /\ tcb'[c].state = "ESTABLISHED" /\ tcb'[c].iss = t.iss
            /\ tcb'[c].irs = h.sequenceNumber
            /\ tcb'[c].rcv_nxt = Inc(h.sequenceNumber)
            /\ tcb'[c].connectionSocket /\ tcb'[c].localPort = t.localPort
            /\ tcb'[c].foreignPort = h.sourcePort
            /\ h.control = {"SYN", "ACK"} /\ h.ackNumber = Inc(t.iss)
  <2>1. NamesAnswer(h)
    BY <1>1, <1>12 DEF SynAckSegments
  <2>2. /\ Opened(c)' /\ ~Opened(c)
        /\ \A d \in Call : d # c => (Opened(d)' <=> Opened(d))
        /\ \A b \in Call : b.passive => (Answering(b)' <=> Answering(b)) /\ tcb'[b] = tcb[b]
    BY <1>1, <1>7, <1>12 DEF Opened
  <2>3. \A d \in Call : /\ tcb'[d].iss = tcb[d].iss
                        /\ tcb'[d].connectionSocket <=> tcb[d].connectionSocket
                        /\ tcb'[d].localPort = tcb[d].localPort
    BY <1>1, <1>12
  <2>4. h.sequenceNumber \in drawn /\ drawn' = drawn
    BY <1>1, <2>1 DEF NamesAnswer
  <2>5. ActiveBlocks'
    <3>1. ASSUME NEW a \in Call, ~a.passive, a # c
          PROVE  /\ tcb'[a].state \in {"CLOSED", "SYN_SENT", "ESTABLISHED"}
                 /\ tcb'[a].state # "CLOSED" => tcb'[a].connectionSocket
                 /\ tcb'[a].connectionSocket => tcb'[a].iss \in drawn'
                 /\ tcb'[a].state = "SYN_SENT" => tcb'[a].snd_nxt = Inc(tcb'[a].iss)
                 /\ tcb'[a].state = "ESTABLISHED" =>
                        tcb'[a].irs \in drawn' /\ tcb'[a].rcv_nxt = Inc(tcb'[a].irs)
      BY <1>1, <3>1 DEF ActiveBlocks
    <3>2. t.iss \in drawn
      BY <1>1, <1>12 DEF ActiveBlocks
    <3> QED
      BY <1>12, <2>4, <3>1, <3>2 DEF ActiveBlocks
  <2>6. PassiveBlocks'
    BY <2>2, <2>4 DEF PassiveBlocks
  <2>7. EstablishedBlocks'
    <3>1. \A a \in Call : Opened(a) => Opened(a)' /\ tcb'[a] = tcb[a]
      BY <1>1, <2>2
    <3> QED
      BY <2>2, <3>1 DEF EstablishedBlocks
  <2>8. AnswersDiffer'
    BY <2>2 DEF AnswersDiffer
  <2>9. OpenedBlocks'
    <3>1. ASSUME NEW d \in Call, ~d.passive, tcb[d].connectionSocket
          PROVE  tcb[d].iss # h.sequenceNumber
      BY <2>1, <3>1 DEF NamesAnswer
    <3>2. ASSUME NEW b \in Call, b.passive, Answering(b), tcb[b].iss = h.sequenceNumber
          PROVE  AnsweredBy(c, b)'
      <4>1. /\ h.ackNumber = tcb[b].rcv_nxt /\ tcb[b].rcv_nxt = Inc(tcb[b].irs)
            /\ h.sourcePort = tcb[b].localPort /\ h.destinationPort = tcb[b].foreignPort
        BY <2>1, <3>2 DEF NamesAnswer, PassiveBlocks
      <4>2. t.iss \in SeqNumber /\ tcb[b].irs \in SeqNumber
        BY DEF TypeOK, TransmissionControlBlock
      <4>3. tcb[b].irs = t.iss
        <5>1. Inc(tcb[b].irs) = Inc(t.iss)
          BY <1>12, <4>1
        <5> QED
          BY <4>2, <5>1, DrawnNumbers
      <4>4. tcb'[b] = tcb[b]
        BY <2>2, <3>2
      <4> QED
        BY <1>1, <1>12, <3>2, <4>1, <4>3, <4>4 DEF AnsweredBy
    <3>3. ASSUME NEW d \in Call, Opened(d), tcb[d].irs = h.sequenceNumber
          PROVE  FALSE
      <4>1. tcb[d].localPort = t.localPort /\ tcb[d].connectionSocket
        BY <1>1, <2>1, <3>3 DEF NamesAnswer, ActiveBlocks, Opened
      <4> QED
        BY <1>1, <2>2, <3>3, <4>1 DEF PortsDiffer
    <3>4. ASSUME NEW a \in Call, Opened(a)', a # c
          PROVE  /\ \A d \in Call : ~d.passive /\ tcb'[d].connectionSocket =>
                        tcb'[d].iss # tcb'[a].irs
                 /\ \A b \in Call : b.passive /\ Answering(b)' /\ tcb'[b].iss = tcb'[a].irs =>
                        AnsweredBy(a, b)'
                 /\ \A d \in Call : Opened(d)' /\ tcb'[d].irs = tcb'[a].irs => d = a
      <4>1. Opened(a) /\ tcb'[a] = tcb[a]
        BY <1>1, <2>2, <3>4
      <4>2. \A b \in Call : b.passive /\ AnsweredBy(a, b) => AnsweredBy(a, b)'
        BY <2>2, <4>1 DEF AnsweredBy
      <4>3. \A b \in Call : b.passive /\ Answering(b)' /\ tcb'[b].iss = tcb'[a].irs =>
                AnsweredBy(a, b)'
        BY <2>2, <4>1, <4>2 DEF OpenedBlocks
      <4>4. ASSUME NEW d \in Call, Opened(d)', tcb'[d].irs = tcb'[a].irs
            PROVE  d = a
        <5>1. CASE d = c
          BY <1>12, <3>3, <4>1, <4>4, <5>1
        <5>2. CASE d # c
          BY <1>1, <2>2, <4>1, <4>4, <5>2 DEF OpenedBlocks
        <5> QED
          BY <5>1, <5>2
      <4>5. \A d \in Call : ~d.passive /\ tcb'[d].connectionSocket =>
                tcb'[d].iss # tcb'[a].irs
        BY <2>3, <4>1 DEF OpenedBlocks
      <4> QED
        BY <4>3, <4>4, <4>5
    <3>5. /\ \A d \in Call : ~d.passive /\ tcb'[d].connectionSocket =>
                 tcb'[d].iss # tcb'[c].irs
          /\ \A b \in Call : b.passive /\ Answering(b)' /\ tcb'[b].iss = tcb'[c].irs =>
                 AnsweredBy(c, b)'
          /\ \A d \in Call : Opened(d)' /\ tcb'[d].irs = tcb'[c].irs => d = c
      <4>1. \A d \in Call : Opened(d)' /\ tcb'[d].irs = tcb'[c].irs => d = c
        BY <1>1, <1>12, <2>2, <3>3
      <4>2. \A b \in Call : b.passive /\ Answering(b)' /\ tcb'[b].iss = tcb'[c].irs =>
                AnsweredBy(c, b)'
        BY <1>12, <2>2, <3>2
      <4> QED
        BY <1>12, <2>3, <3>1, <4>1, <4>2
    <3> QED
      BY <3>4, <3>5 DEF OpenedBlocks
  <2>10. \A k \in TCPHeader : InFlight(k)' /\ k.control # {"ACK"} =>
             InFlight(k) \/ k.control \in Reset
    BY <1>2
  <2>11. SynSegments'
    BY <1>2 DEF SynSegments, Control, Reset
  <2>12. SynAckSegments'
    <3>1. \A k \in TCPHeader : InFlight(k)' /\ k.control = {"SYN", "ACK"} => InFlight(k)
      BY <2>10 DEF Reset
    <3>2. ASSUME NEW k \in TCPHeader, InFlight(k)', k.control = {"SYN", "ACK"}
          PROVE  NamesAnswer(k)'
      <4>1. NamesAnswer(k) /\ InFlight(k)
        BY <3>1, <3>2 DEF SynAckSegments
      <4>2. ASSUME NEW a \in Call, Opened(a)', tcb'[a].irs = k.sequenceNumber
            PROVE  k.destinationPort = tcb'[a].localPort
        <5>1. CASE a = c
          BY <1>1, <1>12, <3>2, <4>1, <4>2, <5>1 DEF SynAckSegments
        <5>2. CASE a # c
          BY <1>1, <2>2, <4>1, <4>2, <5>2 DEF NamesAnswer
        <5> QED
          BY <5>1, <5>2
      <4>3. \A b \in Call : b.passive /\ Answering(b)' /\ tcb'[b].iss = k.sequenceNumber =>
                /\ k.ackNumber = tcb'[b].rcv_nxt
                /\ k.sourcePort = tcb'[b].localPort /\ k.destinationPort = tcb'[b].foreignPort
        BY <2>2, <4>1 DEF NamesAnswer
      <4>4. \A a \in Call : ~a.passive /\ tcb'[a].connectionSocket =>
                tcb'[a].iss # k.sequenceNumber
        BY <2>3, <4>1 DEF NamesAnswer
      <4> QED
        BY <2>4, <4>1, <4>2, <4>3, <4>4 DEF NamesAnswer
    <3> QED
      BY <3>1, <3>2 DEF SynAckSegments
  <2>13. AckSegments'
    <3>1. \A a \in Call : Opened(a) => Opened(a)' /\ tcb'[a] = tcb[a]
      BY <1>1, <2>2
    <3>2. ASSUME NEW k \in TCPHeader, InFlight(k)', k.control = {"ACK"}
          PROVE  \E a \in Call : Opened(a)' /\ tcb'[a].rcv_nxt = k.ackNumber
      <4>1. InFlight(k) \/ (Opened(c)' /\ k.ackNumber = tcb'[c].rcv_nxt)
        BY <1>2, <3>2 DEF Reset
      <4> QED
        BY <3>1, <3>2, <4>1 DEF AckSegments
    <3> QED
      BY <3>2 DEF AckSegments
  <2> QED
    BY <1>6, <2>5, <2>6, <2>7, <2>8, <2>9, <2>11, <2>12, <2>13
<1> QED
  BY <1>5, <1>9, <1>10, <1>11, <1>12

-----------------------------------------------------------------------------
(***************************************************************************)
(* The invariant, and what it is for.                                      *)
(***************************************************************************)

\* Before anybody calls open() no block has a number, a socket or a thread, and
\* nothing is in flight.
LEMMA InitAgreement ==
    ASSUME Init
    PROVE  AgreementInv
<1>1. PortInv
  BY InitInvariant
<1>2. \A c \in Call : /\ tcb[c].state = IF c.passive THEN "LISTEN" ELSE "CLOSED"
                      /\ ~tcb[c].connectionSocket
  BY DEF Init, newTCB
<1>3. /\ \A p \in Process : raw[p] = {} /\ listener[p].at = "receive"
      /\ \A c \in Call : udp[c] = {} /\ reader[c].at = "receive"
  BY IdleTypes DEF Init
<1>4. \A c \in Call : ~Answering(c) /\ ~Opened(c)
  BY <1>2, <1>3, Constants DEF Answering, Opened
<1>5. \A h \in TCPHeader : ~InFlight(h)
  BY <1>3 DEF InFlight
<1>6. Connections
  BY <1>2, <1>4 DEF Connections, ActiveBlocks, PassiveBlocks, OpenedBlocks,
                    EstablishedBlocks, AnswersDiffer
<1>7. Threads
  BY <1>3 DEF Threads, AnswerStands, CopyHolds, Delivered
<1>8. InTransit
  BY <1>5 DEF InTransit, SynSegments, SynAckSegments, AckSegments
<1> QED
  BY <1>1, <1>6, <1>7, <1>8 DEF AgreementInv

\* One step of any thread, of the user or of the network.
LEMMA AgreementStep ==
    ASSUME AgreementInv, [Next]_vars
    PROVE  AgreementInv'
<1>1. PortInv'
  BY StepInvariant DEF AgreementInv
<1>2. Connections' /\ Threads' /\ InTransit'
  <2>1. ASSUME NEW c \in Call, OpenExisting(c) \/ OpenInserts(c) \/ OpenContinues(c)
        PROVE  Connections' /\ Threads' /\ InTransit'
    BY <2>1, OpenAgreement, SendsSYNAgreement DEF OpenContinues
  <2>2. ASSUME NEW c \in Call, ReaderReads(c) \/ ReaderWorks(c)
        PROVE  Connections' /\ Threads' /\ InTransit'
    BY <2>2, ReaderReceivesAgreement, ReaderHandlesAgreement DEF ReaderReads, ReaderWorks
  <2>3. ASSUME NEW p \in Process, NEW how \in {"aborted", "terminated", "exited"},
               Ends(p, how)
        PROVE  Connections' /\ Threads' /\ InTransit'
    BY <2>3, EndsAgreement
  <2>4. ASSUME NEW p \in Process, ListenerReads(p) \/ ListenerWorks(p) \/ Exits(p)
        PROVE  Connections' /\ Threads' /\ InTransit'
    <3>1. ASSUME ClosedTerminates(p) \/ Exits(p) \/ (\E c \in Call : ListenerAborts(p, c))
          PROVE  Connections' /\ Threads' /\ InTransit'
      BY <2>3, <3>1 DEF ClosedTerminates, Exits, ListenerAborts
    <3>2. ASSUME ListenerReads(p) \/ ClosedIgnores(p) \/ ClosedBinds(p) \/ ClosedReplies(p)
          PROVE  Connections' /\ Threads' /\ InTransit'
      BY <3>2, ListenerAgreement DEF ListenerReads
    <3>3. ASSUME NEW c \in Call, NEW q \in EphemeralPort, NEW i \in ISS,
                 ListenerHandles(p, c, q, i)
          PROVE  Connections' /\ Threads' /\ InTransit'
      BY <3>3, ListenerHandlesAgreement
    <3>4. ASSUME ListenerAnswered(p)
          PROVE  Connections' /\ Threads' /\ InTransit'
      BY <3>4, ListenerAnsweredAgreement
    <3> QED
      BY <2>4, <3>1, <3>2, <3>3, <3>4 DEF ListenerWorks
  <2>5. CASE Loses
    BY <2>5, LosesAgreement
  <2>6. CASE UNCHANGED vars
    <3> USE <2>6 DEF vars
    <3>1. \A c \in Call : SameConnection(c)
      BY DEF SameConnection
    <3>2. \A h \in TCPHeader : InFlight(h)' => InFlight(h)
      BY DEF InFlight
    <3>3. \A b \in Call : Answering(b)' => Answering(b)
      BY DEF Answering
    <3>4. Connections' /\ InTransit'
      BY <3>1, <3>2, <3>3, SameConnections
    <3>5. Threads'
      BY <3>1, SameThreads
    <3> QED
      BY <3>4, <3>5
  <2> QED
    BY <2>1, <2>2, <2>4, <2>5, <2>6 DEF Next
<1> QED
  BY <1>1, <1>2 DEF AgreementInv

\* In every run the numbers, the segments in flight and what the threads hold fit
\* together as AgreementInv says.
THEOREM AgreementInvariance == Spec => []AgreementInv
<1>1. Init => AgreementInv
  BY InitAgreement
<1>2. AgreementInv /\ [Next]_vars => AgreementInv'
  BY AgreementStep
<1> QED
  BY <1>1, <1>2, PTL DEF Spec

\* A passive connection is ESTABLISHED only with an active one that is, with the same
\* ports and numbers, for any number of processes and calls and whatever is lost,
\* duplicated, reordered or left over from processes that ended (sendSYNACK,
\* sendEstablishedACK, processSynReceivedSocketMessage).
THEOREM EndsAgree == Spec => []Agreement
<1>1. AgreementInv => Agreement
  <2> SUFFICES ASSUME AgreementInv, NEW b \in Call,
                      b.passive /\ tcb[b].state = "ESTABLISHED"
               PROVE  \E a \in Call : /\ ~a.passive /\ tcb[a].state = "ESTABLISHED"
                                      /\ Joined(a, b)
    BY DEF Agreement
  <2> USE DEF AgreementInv, Connections
  <2>1. PICK a \in Call : Opened(a) /\ tcb[a].irs = tcb[b].iss
    BY DEF EstablishedBlocks
  <2>2. Answering(b) /\ tcb[b].snd_nxt = Inc(tcb[b].iss)
    BY DEF Answering, PassiveBlocks
  <2>3. AnsweredBy(a, b)
    BY <2>1, <2>2 DEF OpenedBlocks
  <2> QED
    BY <2>1, <2>2, <2>3 DEF AnsweredBy, Joined, Opened
<1> QED
  BY <1>1, AgreementInvariance, PTL

\* No two active connections that are ESTABLISHED have the number of one SYN,ACK: a
\* listener's answer opens at most one client (createLocalSocket gives every client a
\* port of its own, generateISS every answer a number of its own).
THEOREM AnswersUnique == Spec => []AnswersAreUnique
<1>1. AgreementInv => AnswersAreUnique
  BY DEF AgreementInv, Connections, OpenedBlocks, Opened, AnswersAreUnique
<1> QED
  BY <1>1, AgreementInvariance, PTL

-----------------------------------------------------------------------------
(***************************************************************************)
(* A reset that is due gets through.  No new invariant is needed: the port *)
(* a listener answers from is the key of no block (KeysOwned), so nobody's *)
(* filter drops the answer, and the listener keeps its socket on it.       *)
(***************************************************************************)

\* What makes a reset due for b at p is still there, or is one step further.
PassesOn(b, p) ==
    /\ /\ tcb'[b].localPort = tcb[b].localPort
       /\ tcb'[b].foreignPort = tcb[b].foreignPort
    /\ \A h \in raw[p] : IsAnswerOf(b, h) =>
           h \in raw'[p] \/ (listener'[p].at = "find" /\ listener'[p].segment = h)
    /\ listener[p].at \in {"find", "reply"} /\ IsAnswerOf(b, listener[p].segment) =>
           \/ /\ listener'[p].at \in {"find", "reply"}
              /\ listener'[p].segment = listener[p].segment
           \/ \E k \in udp'[b] : "RST" \in k.control
    /\ \A h \in udp[b] : "RST" \in h.control =>
           \/ h \in udp'[b]
           \/ /\ reader'[b].at = "handle" /\ reader'[b].state = "SYN_RECEIVED"
              /\ reader'[b].segment = h
    /\ /\ reader[b].at = "handle" /\ reader[b].state = "SYN_RECEIVED"
       /\ "RST" \in reader[b].segment.control
       => reader'[b] = reader[b]

LEMMA StillDue ==
    ASSUME NEW b \in Call, NEW p \in Process, ResetDue(b, p), PassesOn(b, p),
           tcb'[b].state = "SYN_RECEIVED"
    PROVE  ResetDue(b, p)'
<1>1. \A h : IsAnswerOf(b, h)' <=> IsAnswerOf(b, h)
  BY DEF IsAnswerOf, PassesOn
<1>2. b.passive
  BY DEF ResetDue
<1>3. CASE \E h \in raw[p] : IsAnswerOf(b, h)
  BY <1>1, <1>2, <1>3 DEF ResetDue, PassesOn
<1>4. CASE listener[p].at \in {"find", "reply"} /\ IsAnswerOf(b, listener[p].segment)
  BY <1>1, <1>2, <1>4 DEF ResetDue, PassesOn
<1>5. CASE \E h \in udp[b] : "RST" \in h.control
  BY <1>2, <1>5 DEF ResetDue, PassesOn
<1>6. CASE /\ reader[b].at = "handle" /\ reader[b].state = "SYN_RECEIVED"
           /\ "RST" \in reader[b].segment.control
  BY <1>2, <1>6 DEF ResetDue, PassesOn
<1> QED
  BY <1>3, <1>4, <1>5, <1>6 DEF ResetDue

\* What is sent does not drive out what was received.
LEMMA TransmitAdds ==
    ASSUME TypeOK, NEW S, Transmit(S)
    PROVE  /\ \A p \in Process : raw[p] \subseteq raw'[p]
           /\ \A c \in Call : udp[c] \subseteq udp'[c]
           /\ \A c \in Call : \A h \in S : Holds(c, h.destinationPort) => h \in udp'[c]
BY DEF Transmit, TypeOK

\* Steps that concern neither b's thread nor what p's listening thread has.
LEMMA ElsewherePassesOn ==
    ASSUME NEW b \in Call, NEW p \in Process,
           tcb'[b].localPort = tcb[b].localPort,
           tcb'[b].foreignPort = tcb[b].foreignPort,
           raw[p] \subseteq raw'[p], udp[b] \subseteq udp'[b],
           listener'[p] = listener[p], reader'[b] = reader[b]
    PROVE  PassesOn(b, p)
BY DEF PassesOn

\* open(), and the end of another process.
LEMMA OpenPassesOn ==
    ASSUME AgreementInv, NEW b \in Call, NEW p \in Process, ResetDue(b, p),
           NEW c \in Call,
           OpenExisting(c) \/ OpenInserts(c) \/ OpenContinues(c)
    PROVE  PassesOn(b, p)
<1> USE DEF AgreementInv, PortInv
<1>1. CASE OpenExisting(c) \/ OpenInserts(c) \/ Rekeys(c)
  <2>1. UNCHANGED <<listener, reader, raw, udp>>
    BY <1>1 DEF OpenExisting, OpenInserts, Rekeys
  <2>2. tcb' = tcb \/ tcb' = [tcb EXCEPT ![c].threadLaunched = TRUE]
    BY <1>1 DEF OpenExisting, OpenInserts, Rekeys
  <2>3. tcb[b] \in TransmissionControlBlock /\ tcb \in [Call -> TransmissionControlBlock]
    BY DEF TypeOK
  <2>4. tcb'[b] = tcb[b] \/ tcb'[b] = [tcb[b] EXCEPT !.threadLaunched = TRUE]
    BY <2>2, <2>3
  <2>5. tcb'[b].localPort = tcb[b].localPort /\ tcb'[b].foreignPort = tcb[b].foreignPort
    BY <2>3, <2>4 DEF TransmissionControlBlock
  <2> QED
    BY <2>1, <2>5, ElsewherePassesOn
<1>2. ASSUME NEW q \in EphemeralPort, NEW i \in ISS, SendsSYN(c, q, i)
      PROVE  PassesOn(b, p)
  <2>1. c # b
    BY <1>2 DEF SendsSYN, ResetDue, Blocks
  <2>2. tcb'[b] = tcb[b] /\ UNCHANGED <<listener, reader>>
    BY <1>2, <2>1 DEF SendsSYN, Apply, TypeOK
  <2>3. raw[p] \subseteq raw'[p] /\ udp[b] \subseteq udp'[b]
    BY <1>2, TransmitAdds DEF SendsSYN, Apply
  <2> QED
    BY <2>2, <2>3, ElsewherePassesOn
<1> QED
  BY <1>1, <1>2 DEF OpenContinues

LEMMA EndsPassesOn ==
    ASSUME TypeOK, NEW b \in Call, NEW p \in Process, Up(p)', Up(b.process)',
           NEW x \in Process, NEW how \in {"aborted", "terminated", "exited"},
           Ends(x, how)
    PROVE  PassesOn(b, p)
<1>1. x # p /\ x # b.process
  BY DEF Ends, Up, TypeOK
<1>2. /\ raw'[p] = raw[p] /\ listener'[p] = listener[p] /\ tcb' = tcb
      /\ udp'[b] = udp[b] /\ reader'[b] = reader[b]
  BY <1>1 DEF Ends, TypeOK
<1> QED
  BY <1>2, ElsewherePassesOn

\* The filter lets the answer through: no block is under the port that b answers from.
LEMMA RawReceivesPassesOn ==
    ASSUME AgreementInv, NEW b \in Call, NEW p \in Process, ResetDue(b, p),
           NEW x \in Process, NEW h \in raw[x], RawReceives(x, h)
    PROVE  PassesOn(b, p)
<1> USE DEF AgreementInv, PortInv
<1>1. UNCHANGED <<tcb, reader, udp>>
  BY DEF RawReceives
<1>2. CASE x # p
  <2>1. raw'[p] = raw[p] /\ listener'[p] = listener[p]
    BY <1>2 DEF RawReceives, TypeOK
  <2> QED
    BY <1>1, <2>1, ElsewherePassesOn
<1>3. CASE x = p
  <2>1. listener[p].at = "receive"
    BY <1>3 DEF RawReceives
  <2>2. \A k \in raw[p] : k # h => k \in raw'[p]
    BY <1>3 DEF RawReceives, Taken, TypeOK
  <2>3. ASSUME IsAnswerOf(b, h)
        PROVE  listener'[p].at = "find" /\ listener'[p].segment = h
    <3> DEFINE q == h.sourcePort
    <3>1. /\ b.passive /\ tcb[b].connectionSocket /\ q = tcb[b].localPort
          /\ q \in EphemeralPort /\ q \in Port /\ q \notin UserPort
      BY <2>3, Constants
         DEF IsAnswerOf, ResetDue, Connections, PassiveBlocks, Answering, Blocks
    <3>2. tcbMap[p][q] = NoTCB
      <4>1. SUFFICES ASSUME tcbMap[p][q] # NoTCB PROVE FALSE
        OBVIOUS
      <4>2. PICK c \in Call : tcbMap[p][q] = c
        BY <3>1, <4>1 DEF TypeOK
      <4>3. Moved(c) /\ q = tcb[c].localPort
        BY <3>1, <4>2, Constants DEF KeysOwned
      <4>4. c = b
        BY <3>1, <4>3 DEF PortsDiffer, Moved
      <4> QED
        BY <3>1, <4>3, <4>4 DEF Moved
    <3>3. listener'[p] = [listener[p] EXCEPT !.at = "find", !.segment = h]
      BY <1>3, <3>2 DEF RawReceives, TypeOK
    <3>4. listener[p] \in [at      : {"receive", "find", "reply", "answer"},
                           segment : TCPHeader, block : Call \cup {NoTCB}]
      BY DEF TypeOK
    <3> QED
      BY <3>3, <3>4
  <2> QED
    BY <1>1, <2>1, <2>2, <2>3 DEF PassesOn
<1> QED
  BY <1>2, <1>3

\* The listening thread answers for a port that no block has, and a listener that it
\* finds there answers in the same way.
LEMMA ListenerPassesOn ==
    ASSUME AgreementInv, NEW b \in Call, NEW p \in Process, ResetDue(b, p),
           Up(b.process)', NEW x \in Process,
           \/ ClosedIgnores(x) \/ ClosedBinds(x) \/ ClosedReplies(x) \/ ListenerAnswered(x)
           \/ \E c \in Call, q \in EphemeralPort, i \in ISS : ListenerHandles(x, c, q, i)
    PROVE  PassesOn(b, p)
<1> USE DEF AgreementInv, PortInv
<1> DEFINE h == listener[x].segment
<1>1. /\ b.passive /\ tcb[b].state = "SYN_RECEIVED" /\ tcb[b].connectionSocket
  BY DEF ResetDue, Connections, PassiveBlocks, Answering
<1>2. /\ tcb'[b] = tcb[b] /\ reader' = reader
      /\ \A y \in Process : y # x => listener'[y] = listener[y]
      /\ raw[p] \subseteq raw'[p] /\ udp[b] \subseteq udp'[b]
  <2>1. CASE ClosedIgnores(x) \/ ClosedBinds(x)
    BY <2>1 DEF ClosedIgnores, ClosedBinds, TypeOK
  <2>2. CASE ClosedReplies(x)
    BY <2>2, TransmitAdds DEF ClosedReplies, TypeOK
  <2>3. CASE ListenerAnswered(x)
    <3>1. listener[x].block # b
      BY <1>1, <2>3 DEF ListenerAnswered, Threads, AnswerStands
    <3> QED
      BY <2>3, <3>1 DEF ListenerAnswered, TypeOK
  <2>4. ASSUME NEW c \in Call, NEW q \in EphemeralPort, NEW i \in ISS,
               ListenerHandles(x, c, q, i)
        PROVE  /\ tcb'[b] = tcb[b] /\ reader' = reader
               /\ \A y \in Process : y # x => listener'[y] = listener[y]
               /\ raw[p] \subseteq raw'[p] /\ udp[b] \subseteq udp'[b]
    <3>1. c # b
      BY <1>1, <2>4 DEF ListenerHandles
    <3>2. Transmit(processListeningSocketMessage(tcb[c], h, q, i).out)
      BY <2>4 DEF ListenerHandles, Apply
    <3>3. raw[p] \subseteq raw'[p] /\ udp[b] \subseteq udp'[b]
      BY <3>2, TransmitAdds
    <3> QED
      BY <2>4, <3>1, <3>3 DEF ListenerHandles, Apply, TypeOK
  <2> QED
    BY <2>1, <2>2, <2>3, <2>4
<1>3. CASE x # p
  BY <1>2, <1>3, ElsewherePassesOn
<1>4. ASSUME x = p, listener[p].at \in {"find", "reply"}, IsAnswerOf(b, listener[p].segment)
      PROVE  \/ /\ listener'[p].at \in {"find", "reply"}
                /\ listener'[p].segment = listener[p].segment
             \/ \E k \in udp'[b] : "RST" \in k.control
  <2>1. /\ h.control = {"SYN", "ACK"} /\ h.sourcePort = tcb[b].localPort
        /\ h \in TCPHeader
    BY <1>4 DEF IsAnswerOf, TypeOK
  <2>2. UNCHANGED status => Holds(b, h.sourcePort)
    BY <1>1, <2>1 DEF Holds, Up
  <2>3. CASE ClosedIgnores(p)
    BY <1>4, <2>1, <2>3 DEF ClosedIgnores
  <2>4. CASE ClosedBinds(p)
    BY <2>4 DEF ClosedBinds, TypeOK
  <2>5. CASE ClosedReplies(p)
    <3> DEFINE k == closedReply(h)
    <3>1. k.destinationPort = h.sourcePort /\ "RST" \in k.control
      BY <2>1, ClosedReply
    <3>2. Transmit({k}) /\ Holds(b, h.sourcePort)
      BY <1>4, <2>2, <2>5 DEF ClosedReplies
    <3> HIDE DEF k
    <3>3. k \in udp'[b]
      BY <3>1, <3>2, TransmitAdds
    <3> QED
      BY <3>1, <3>3
  <2>6. CASE ListenerAnswered(p)
    BY <1>4, <2>6 DEF ListenerAnswered
  <2>7. ASSUME NEW c \in Call, NEW q \in EphemeralPort, NEW i \in ISS,
               ListenerHandles(p, c, q, i)
        PROVE  \E k \in udp'[b] : "RST" \in k.control
    <3> DEFINE t == IF tcb[c].connectionSocket THEN tcb[c] ELSE createLocalSocket(tcb[c], q)
               e == processListeningSocketMessage(tcb[c], h, q, i)
    <3>1. e = sendRST(createForeignSocketAddress(t, h.sourcePort), h)
      BY <2>1 DEF processListeningSocketMessage, processPacketListenState
    <3>2. PICK k \in e.out : k.destinationPort = h.sourcePort /\ "RST" \in k.control
      <4>1. tcb[c] \in TransmissionControlBlock
        BY DEF TypeOK
      <4>2. createForeignSocketAddress(t, h.sourcePort).foreignPort = h.sourcePort
        BY <4>1 DEF createForeignSocketAddress, createLocalSocket, TransmissionControlBlock
      <4>3. \A d : \A k \in sendRST(d, h).out :
                k.destinationPort = d.foreignPort /\ k.control = {"RST"}
        BY DEF sendRST, Sends, constructSendTCPHeader
      <4>4. \A d : sendRST(d, h).out # {}
        BY DEF sendRST, Sends
      <4> HIDE DEF t, e, h
      <4> QED
        BY <3>1, <4>2, <4>3, <4>4
    <3>3. Transmit(e.out) /\ Holds(b, h.sourcePort)
      BY <1>4, <2>2, <2>7 DEF ListenerHandles, Apply
    <3> HIDE DEF e
    <3>4. k \in udp'[b]
      BY <3>2, <3>3, TransmitAdds
    <3> QED
      BY <3>2, <3>4
  <2> QED
    BY <1>4, <2>3, <2>4, <2>5, <2>6, <2>7
<1>5. CASE x = p
  BY <1>2, <1>4, <1>5 DEF PassesOn
<1> QED
  BY <1>3, <1>5

LEMMA ReaderReceivesPassesOn ==
    ASSUME AgreementInv, NEW b \in Call, NEW p \in Process, ResetDue(b, p),
           NEW c \in Call, NEW h \in udp[c], ReaderReceives(c, h)
    PROVE  PassesOn(b, p)
<1> USE DEF AgreementInv, PortInv
<1>1. UNCHANGED <<tcb, listener, raw>>
  BY DEF ReaderReceives
<1>2. CASE c # b
  <2>1. udp'[b] = udp[b] /\ reader'[b] = reader[b]
    BY <1>2 DEF ReaderReceives, TypeOK
  <2> QED
    BY <1>1, <2>1, ElsewherePassesOn
<1>3. CASE c = b
  <2>1. /\ reader[b].at = "receive" /\ tcb[b].state = "SYN_RECEIVED"
        /\ reader'[b].at = "handle" /\ reader'[b].segment = h
        /\ reader'[b].state = "SYN_RECEIVED"
    BY <1>3 DEF ReaderReceives, ResetDue, TypeOK
  <2>2. \A k \in udp[b] : k # h => k \in udp'[b]
    BY <1>3 DEF ReaderReceives, Taken, TypeOK
  <2> QED
    BY <1>1, <2>1, <2>2 DEF PassesOn
<1> QED
  BY <1>2, <1>3

\* processSynReceivedSocketMessage: a passive connection that is reset listens again.
LEMMA ReaderHandlesPassesOn ==
    ASSUME AgreementInv, NEW b \in Call, NEW p \in Process, ResetDue(b, p),
           NEW c \in Call, NEW i \in ISS, ReaderHandles(c, i),
           tcb'[b].state = "SYN_RECEIVED"
    PROVE  PassesOn(b, p)
<1> USE DEF AgreementInv, PortInv
<1> DEFINE e == processUDPMessage(tcb[c], reader[c].state, reader[c].segment, i)
<1>1. /\ reader[c].at = "handle" /\ tcb' = [tcb EXCEPT ![c] = e.tcb] /\ Transmit(e.out)
      /\ reader' = [reader EXCEPT ![c] = ReaderIdle] /\ listener' = listener
  BY DEF ReaderHandles, Apply
<1>2. raw[p] \subseteq raw'[p] /\ udp[b] \subseteq udp'[b]
  <2> HIDE DEF e
  <2> QED
    BY <1>1, TransmitAdds
<1>3. CASE c # b
  <2>1. tcb'[b] = tcb[b] /\ reader'[b] = reader[b]
    BY <1>1, <1>3 DEF TypeOK
  <2> QED
    BY <1>1, <1>2, <2>1, ElsewherePassesOn
<1>4. CASE c = b
  <2>1. /\ b.passive /\ tcb[b].passive = b.passive /\ tcb[b].state = "SYN_RECEIVED"
        /\ tcb[b] \in TransmissionControlBlock
    BY DEF ResetDue, Blocks, TypeOK
  <2>2. tcb'[b].localPort = tcb[b].localPort /\ tcb'[b].foreignPort = tcb[b].foreignPort
    <3>1. \/ tcb'[b] = tcb[b]
          \/ \E s \in State : tcb'[b] = [tcb[b] EXCEPT !.state = s]
      BY <1>4, <2>1, ReaderStep DEF State
    <3> QED
      BY <2>1, <3>1 DEF TransmissionControlBlock
  <2>3. ~(reader[b].state = "SYN_RECEIVED" /\ "RST" \in reader[b].segment.control)
    <3>1. SUFFICES ASSUME reader[b].state = "SYN_RECEIVED",
                          "RST" \in reader[b].segment.control
                   PROVE  FALSE
      OBVIOUS
    <3>2. e = MovesTo(tcb[b], "LISTEN")
      BY <1>4, <2>1, <3>1 DEF processUDPMessage, processSynReceivedSocketMessage
    <3>3. e.tcb.state = "LISTEN"
      BY <2>1, <3>2 DEF MovesTo, Ignores, Sends, TransmissionControlBlock
    <3>4. tcb'[b] = e.tcb
      <4> HIDE DEF e
      <4> QED
        BY <1>1, <1>4 DEF TypeOK
    <3> QED
      BY <3>3, <3>4
  <2> QED
    BY <1>1, <1>2, <2>2, <2>3 DEF PassesOn
<1> QED
  BY <1>3, <1>4

\* Where nothing is lost a reset that is due reaches the listener: whoever answers for
\* the port of a client that is gone sends it, and the listener's thread handles it
\* (processRawIPMessage, processSynReceivedSocketMessage), for any processes, calls and
\* numbers, with duplicates, and whatever else the listener reads meanwhile.
THEOREM ResetsGetThrough == "loss" \notin Fault => (Spec => ResetReachesListener)
<1> SUFFICES ASSUME "loss" \notin Fault PROVE Spec => ResetReachesListener
  OBVIOUS
<1> DEFINE Step == \A b \in Call, p \in Process :
                ResetDue(b, p) /\ Up(p)' /\ Up(b.process)' =>
                    ResetDue(b, p)' \/ tcb'[b].state # "SYN_RECEIVED"
<1>1. AgreementInv /\ [Next]_vars => [Step]_vars
  <2> SUFFICES ASSUME AgreementInv, Next, NEW b \in Call, NEW p \in Process,
                      ResetDue(b, p), Up(p)', Up(b.process)',
                      tcb'[b].state = "SYN_RECEIVED"
               PROVE  ResetDue(b, p)'
    OBVIOUS
  <2>1. ASSUME NEW c \in Call, OpenExisting(c) \/ OpenInserts(c) \/ OpenContinues(c)
        PROVE  PassesOn(b, p)
    BY <2>1, OpenPassesOn
  <2>2. ASSUME NEW c \in Call, ReaderReads(c) \/ ReaderWorks(c)
        PROVE  PassesOn(b, p)
    BY <2>2, ReaderReceivesPassesOn, ReaderHandlesPassesOn DEF ReaderReads, ReaderWorks
  <2>3. ASSUME NEW x \in Process, NEW how \in {"aborted", "terminated", "exited"},
               Ends(x, how)
        PROVE  PassesOn(b, p)
    BY <2>3, EndsPassesOn DEF AgreementInv, PortInv
  <2>4. ASSUME NEW x \in Process, ListenerReads(x) \/ ListenerWorks(x) \/ Exits(x)
        PROVE  PassesOn(b, p)
    <3>1. ASSUME ClosedTerminates(x) \/ Exits(x) \/ (\E c \in Call : ListenerAborts(x, c))
          PROVE  PassesOn(b, p)
      BY <2>3, <3>1 DEF ClosedTerminates, Exits, ListenerAborts
    <3>2. ASSUME ListenerReads(x)
          PROVE  PassesOn(b, p)
      BY <3>2, RawReceivesPassesOn DEF ListenerReads
    <3>3. ASSUME \/ ClosedIgnores(x) \/ ClosedBinds(x) \/ ClosedReplies(x)
                 \/ ListenerAnswered(x)
                 \/ \E c \in Call, q \in EphemeralPort, i \in ISS : ListenerHandles(x, c, q, i)
          PROVE  PassesOn(b, p)
      BY <3>3, ListenerPassesOn
    <3> QED
      BY <2>4, <3>1, <3>2, <3>3 DEF ListenerWorks
  <2>5. PassesOn(b, p)
    BY <2>1, <2>2, <2>4 DEF Next, Loses
  <2> QED
    BY <2>5, StillDue
<1>2. Spec => [][Step]_vars
  BY <1>1, AgreementInvariance, PTL DEF Spec
<1> QED
  BY <1>2 DEF ResetReachesListener

-----------------------------------------------------------------------------
(***************************************************************************)
(* No process dies.  The invariant, on top of AgreementInv, is about who   *)
(* sent what is in flight and about who may read it: a segment to a port   *)
(* that users name is the SYN of the one client that dials it, read once,  *)
(* so a listener that has answered is found by nothing else; whatever goes *)
(* to the port of a connection socket is delivered there, and never to a   *)
(* listening thread, which would find the block that moved to that port,   *)
(* or the port bound.                                                      *)
(***************************************************************************)

\* Two processes, without copies in raw sockets and without duplicates; nobody dials
\* a port twice, or one that an active call of the other process was asked for.
OneClientPerPort ==
    /\ RawCopy = FALSE /\ "duplication" \notin Fault
    /\ \A p, x, y \in Process : p = x \/ x = y \/ p = y
    /\ \A a, c \in Clients : a.foreignPort = c.foreignPort => a = c
    /\ \A a, c \in Clients : a.process # c.process => a.foreignPort # c.localPort

SynOf(a) ==
    [constructSendTCPHeader(tcb[a].localPort, a.foreignPort) EXCEPT
         !.sequenceNumber = tcb[a].iss, !.control = {"SYN"}]

Dials(a) == ~a.passive /\ tcb[a].connectionSocket

\* Some listener answers from q.
AnswersFrom(q) == \E b \in Call : b.passive /\ tcb[b].connectionSocket /\ tcb[b].localPort = q

\* What a listening thread has read or may read.
InRaw(p, h) == h \in raw[p] \/ (listener[p].at # "receive" /\ h = listener[p].segment)

\* Only resets come from a port that no connection socket has, and only the SYN of
\* its client goes to a port that users name.
Sources ==
    \A h \in TCPHeader : InFlight(h) =>
        /\ h.destinationPort \in UserPort \cup EphemeralPort
        /\ "RST" \notin h.control => h.sourcePort \in EphemeralPort

DialledPorts ==
    \A h \in TCPHeader : InFlight(h) /\ h.destinationPort \in UserPort =>
        \E a \in Call : Dials(a) /\ h = SynOf(a)

\* SYN,ACKs come from listeners and acknowledge the SYN of who gets them; ACKs go to
\* listeners.
RepliesFit ==
    \A h \in TCPHeader : InFlight(h) =>
        /\ h.control = {"SYN", "ACK"} =>
               /\ AnswersFrom(h.sourcePort)
               /\ \A a \in Call : Dials(a) /\ tcb[a].localPort = h.destinationPort =>
                      h.ackNumber = Inc(tcb[a].iss)
        /\ h.control = {"ACK"} => AnswersFrom(h.destinationPort)

\* A listener that has a socket got it for a client.
PeersDialled ==
    \A b \in Call : b.passive =>
        /\ tcb[b].state # "LISTEN" => tcb[b].connectionSocket
        /\ tcb[b].connectionSocket =>
               /\ tcb[b].foreignPort \in EphemeralPort
               /\ \E a \in Call : Dials(a) /\ a.foreignPort = b.localPort

\* No raw socket holds what a connection socket should have.
RawUnbound ==
    \A p \in Process, h \in TCPHeader, c \in Call :
        InRaw(p, h) => ~Holds(c, h.destinationPort)

\* A listening thread reads a SYN once, and none is left for a listener with a socket.
SynOnce ==
    /\ \A p \in Process : \A h \in raw[p] :
           h.destinationPort \in UserPort /\ listener[p].at # "receive" =>
               h # listener[p].segment
    /\ \A b \in Call : b.passive /\ tcb[b].connectionSocket =>
           /\ \A h \in raw[b.process] : h.destinationPort # b.localPort
           /\ listener[b.process].at \in {"find", "reply"} =>
                  listener[b.process].segment.destinationPort # b.localPort

ReplyOwed ==
    \A p \in Process : listener[p].at = "reply" => "RST" \notin listener[p].segment.control

Origins == Sources /\ DialledPorts /\ RepliesFit /\ PeersDialled

Raws == RawUnbound /\ SynOnce /\ ReplyOwed

SurvivalInv == AgreementInv /\ Origins /\ Raws

\* A block keeps its socket, and what its peers know of it.
KeepsEnd(c) ==
    /\ tcb'[c].connectionSocket = tcb[c].connectionSocket
    /\ tcb'[c].localPort = tcb[c].localPort
    /\ ~c.passive => tcb'[c].iss = tcb[c].iss
    /\ c.passive => /\ tcb'[c].foreignPort = tcb[c].foreignPort
                    /\ tcb'[c].state = "LISTEN" \/ tcb[c].connectionSocket \/ tcb'[c].state = tcb[c].state

\* What a step may send that is neither a SYN nor a SYN,ACK.
Harmless(k) ==
    /\ k.destinationPort \in EphemeralPort
    /\ \/ "RST" \in k.control
       \/ k.control = {"ACK"} /\ k.sourcePort \in EphemeralPort /\ AnswersFrom(k.destinationPort)

\* The listening thread of p goes on with the segment it has, or reads one for good.
ListenerGoesOn(p) ==
    \/ listener'[p].at = "receive"
    \/ /\ listener[p].at # "receive" /\ listener'[p].segment = listener[p].segment
       /\ listener'[p].at \in {"find", "reply"} => listener[p].at \in {"find", "reply"}
       /\ listener'[p].at = "reply" =>
              listener[p].at = "reply" \/ "RST" \notin listener[p].segment.control
    \/ /\ listener'[p].at = "find"
       /\ listener'[p].segment \in raw[p] /\ listener'[p].segment \notin raw'[p]
       /\ listener[p].at = "receive"

\* A step that keeps the blocks' sockets and peers, and sends nothing but resets and
\* ACKs of answers.
LEMMA HarmlessStep ==
    ASSUME SurvivalInv, \A c \in Call : KeepsEnd(c),
           NEW S \in SUBSET TCPHeader, \A k \in S : Harmless(k),
           \A p \in Process : \A h \in raw'[p] :
               h \in raw[p] \/ (h \in S /\ ~Bound(h.destinationPort)),
           \A h \in TCPHeader : InFlight(h)' => InFlight(h) \/ h \in S,
           \A p \in Process : Up(p)' => Up(p),
           \A p \in Process : ListenerGoesOn(p),
           TypeOK'
    PROVE  Origins' /\ Raws'
<1> USE DEF SurvivalInv, Origins, Raws
<1>1. /\ \A q : AnswersFrom(q) => AnswersFrom(q)'
      /\ \A a \in Call : /\ Dials(a)' <=> Dials(a)
                         /\ Dials(a) => SynOf(a)' = SynOf(a)
      /\ \A c \in Call, q \in Port : Holds(c, q)' => Holds(c, q)
  BY Constants DEF AnswersFrom, Dials, SynOf, Holds, KeepsEnd
<1>2. Sources'
  BY DEF Sources, Harmless
<1>3. DialledPorts'
  BY <1>1, Constants DEF DialledPorts, Harmless
<1>4. RepliesFit'
  <2>1. ASSUME NEW h \in TCPHeader, InFlight(h)', h.control = {"SYN", "ACK"}
        PROVE  /\ AnswersFrom(h.sourcePort)'
               /\ \A a \in Call : Dials(a)' /\ tcb'[a].localPort = h.destinationPort =>
                      h.ackNumber = Inc(tcb'[a].iss)
    <3>1. InFlight(h)
      BY <2>1 DEF Harmless
    <3> QED
      BY <1>1, <2>1, <3>1 DEF RepliesFit, KeepsEnd, Dials
  <2>2. ASSUME NEW h \in TCPHeader, InFlight(h)', h.control = {"ACK"}
        PROVE  AnswersFrom(h.destinationPort)'
    BY <1>1, <2>2 DEF RepliesFit, Harmless
  <2> QED
    BY <2>1, <2>2 DEF RepliesFit
<1>5. PeersDialled'
  BY <1>1 DEF PeersDialled, KeepsEnd
<1>6. RawUnbound'
  <2>1. ASSUME NEW p \in Process, NEW h \in TCPHeader, NEW c \in Call, InRaw(p, h)'
        PROVE  ~Holds(c, h.destinationPort)'
    <3>1. InRaw(p, h) \/ ~Bound(h.destinationPort)
      BY <2>1 DEF InRaw, ListenerGoesOn
    <3>2. ~Holds(c, h.destinationPort)
      BY <3>1 DEF RawUnbound, Bound
    <3> QED
      BY <3>2, Constants DEF Holds, KeepsEnd
  <2> QED
    BY <2>1 DEF RawUnbound
<1>7. SynOnce'
  <2>1. ASSUME NEW p \in Process, NEW h \in raw'[p],
               h.destinationPort \in UserPort, listener'[p].at # "receive"
        PROVE  h # listener'[p].segment
    <3>1. h \in raw[p]
      BY <2>1, Constants DEF Harmless
    <3> QED
      BY <2>1, <3>1 DEF SynOnce, ListenerGoesOn
  <2>2. ASSUME NEW b \in Call, b.passive, tcb'[b].connectionSocket
        PROVE  /\ \A h \in raw'[b.process] : h.destinationPort # b.localPort
               /\ listener'[b.process].at \in {"find", "reply"} =>
                      listener'[b.process].segment.destinationPort # b.localPort
    <3>1. tcb[b].connectionSocket /\ b.process \in Process /\ b.localPort \notin EphemeralPort
      BY <2>2, Constants DEF KeepsEnd
    <3> QED
      BY <2>2, <3>1 DEF SynOnce, ListenerGoesOn, Harmless
  <2> QED
    BY <2>1, <2>2 DEF SynOnce
<1>8. ReplyOwed'
  BY DEF ReplyOwed, ListenerGoesOn
<1> QED
  BY <1>2, <1>3, <1>4, <1>5, <1>6, <1>7, <1>8

\* The same for a step that sends nothing.
LEMMA QuietStep ==
    ASSUME SurvivalInv, \A c \in Call : KeepsEnd(c),
           \A p \in Process : raw'[p] \subseteq raw[p],
           \A h \in TCPHeader : InFlight(h)' => InFlight(h),
           \A p \in Process : Up(p)' => Up(p),
           \A p \in Process : ListenerGoesOn(p),
           TypeOK'
    PROVE  Origins' /\ Raws'
<1>1. PICK S \in SUBSET TCPHeader : S = {}
  OBVIOUS
<1>2. /\ \A k \in S : Harmless(k)
      /\ \A p \in Process : \A h \in raw'[p] :
             h \in raw[p] \/ (h \in S /\ ~Bound(h.destinationPort))
      /\ \A h \in TCPHeader : InFlight(h)' => InFlight(h) \/ h \in S
  BY <1>1
<1> QED
  BY <1>2, HarmlessStep

\* Without copies a raw socket gets only what no socket is bound to.
LEMMA TransmittedUnbound ==
    ASSUME TypeOK, RawCopy = FALSE, NEW S \in SUBSET TCPHeader, Transmit(S)
    PROVE  \A p \in Process : \A h \in raw'[p] :
               h \in raw[p] \/ (h \in S /\ ~Bound(h.destinationPort))
BY DEF Transmit, TypeOK

\* A process that ends, and a segment that is lost.
LEMMA EndsSurvival ==
    ASSUME SurvivalInv, TypeOK',
           \/ \E p \in Process : Ends(p, "exited")
           \/ Loses
    PROVE  Origins' /\ Raws'
<1> USE DEF SurvivalInv, AgreementInv, PortInv
<1>1. /\ tcb' = tcb
      /\ \A x \in Process : /\ raw'[x] \subseteq raw[x]
                            /\ listener'[x] \in {listener[x], ListenerIdle}
                            /\ Up(x)' => Up(x)
      /\ \A c \in Call : /\ udp'[c] \subseteq udp[c]
                         /\ reader'[c] \in {reader[c], ReaderIdle}
  <2>1. CASE \E p \in Process : Ends(p, "exited")
    BY <2>1 DEF Ends, TypeOK, Up
  <2>2. CASE Loses
    <3>1. raw \in [Process -> SUBSET TCPHeader] /\ udp \in [Call -> SUBSET TCPHeader]
      BY DEF TypeOK
    <3>2. CASE udp' = udp /\ \E p \in Process : \E h : raw' = [raw EXCEPT ![p] = @ \ {h}]
      BY <2>2, <3>1, <3>2 DEF Loses, Up
    <3>3. CASE raw' = raw /\ \E c \in Call : \E h : udp' = [udp EXCEPT ![c] = @ \ {h}]
      BY <2>2, <3>1, <3>3 DEF Loses, Up
    <3> QED
      BY <2>2, <3>2, <3>3 DEF Loses
  <2> QED
    BY <2>1, <2>2
<1>2. \A c \in Call : KeepsEnd(c)
  BY <1>1 DEF KeepsEnd
<1>3. \A h \in TCPHeader : InFlight(h)' => InFlight(h)
  BY <1>1, IdleTypes DEF InFlight
<1>4. \A p \in Process : ListenerGoesOn(p)
  BY <1>1, IdleTypes DEF ListenerGoesOn
<1> QED
  BY <1>1, <1>2, <1>3, <1>4, QuietStep

\* The steps of open() but the send.
LEMMA OpenSurvival ==
    ASSUME SurvivalInv, TypeOK', NEW c \in Call,
           OpenExisting(c) \/ OpenInserts(c) \/ Rekeys(c)
    PROVE  Origins' /\ Raws'
<1> USE DEF SurvivalInv, AgreementInv, PortInv
<1>1. UNCHANGED <<status, listener, reader, raw, udp>>
  BY DEF OpenExisting, OpenInserts, Rekeys
<1>2. \A d \in Call : KeepsEnd(d)
  <2>1. tcb' = tcb \/ tcb' = [tcb EXCEPT ![c].threadLaunched = TRUE]
    BY DEF OpenExisting, OpenInserts, Rekeys
  <2>2. \A d \in Call : tcb[d] \in TransmissionControlBlock
    BY DEF TypeOK
  <2> TAKE d \in Call
  <2>3. tcb'[d] = tcb[d] \/ tcb'[d] = [tcb[d] EXCEPT !.threadLaunched = TRUE]
    BY <2>1 DEF TypeOK
  <2> QED
    BY <2>2, <2>3 DEF KeepsEnd, TransmissionControlBlock
<1>3. \A h \in TCPHeader : InFlight(h)' => InFlight(h)
  BY <1>1 DEF InFlight
<1>4. \A p \in Process : ListenerGoesOn(p)
  BY <1>1 DEF ListenerGoesOn, TypeOK
<1>5. \A p \in Process : Up(p)' => Up(p)
  BY <1>1 DEF Up
<1> QED
  BY <1>1, <1>2, <1>3, <1>4, <1>5, QuietStep

\* The thread of a block reads a segment.
LEMMA ReaderReceivesSurvival ==
    ASSUME SurvivalInv, TypeOK', NEW c \in Call, NEW h \in udp[c], ReaderReceives(c, h)
    PROVE  Origins' /\ Raws'
<1> USE DEF SurvivalInv, AgreementInv, PortInv
<1>1. UNCHANGED <<status, tcb, listener, raw>>
  BY DEF ReaderReceives
<1>2. \A d \in Call : KeepsEnd(d)
  BY <1>1 DEF KeepsEnd
<1>3. \A d \in Call : udp'[d] \subseteq udp[d]
  BY LeftOver DEF ReaderReceives, TypeOK
<1>4. /\ \A d \in Call : d # c => reader'[d] = reader[d]
      /\ reader'[c].segment = h
  BY DEF ReaderReceives, TypeOK
<1>5. \A k \in TCPHeader : InFlight(k)' => InFlight(k)
  BY <1>1, <1>3, <1>4 DEF InFlight
<1>6. \A p \in Process : ListenerGoesOn(p) /\ (Up(p)' => Up(p))
  BY <1>1 DEF ListenerGoesOn, TypeOK, Up
<1> QED
  BY <1>1, <1>2, <1>5, <1>6, QuietStep

\* The listening thread reads a segment for good, or finds no block for it.
LEMMA ListenerSurvival ==
    ASSUME SurvivalInv, TypeOK', OneClientPerPort, NEW p \in Process,
           \/ \E h \in raw[p] : RawReceives(p, h)
           \/ ClosedIgnores(p) \/ ClosedBinds(p) \/ ClosedReplies(p)
    PROVE  Origins' /\ Raws'
<1> USE DEF SurvivalInv, AgreementInv, PortInv
<1>1. UNCHANGED <<status, tcb, reader>>
  BY DEF RawReceives, ClosedIgnores, ClosedBinds, ClosedReplies
<1>2. \A c \in Call : KeepsEnd(c)
  BY <1>1 DEF KeepsEnd
<1>3. \A x \in Process : Up(x)' => Up(x)
  BY <1>1 DEF Up
<1>4. CASE ClosedReplies(p)
  <2> DEFINE g == listener[p].segment
             k == closedReply(g)
             S == {k}
  <2>1. /\ k \in TCPHeader /\ "RST" \in k.control
        /\ k.destinationPort = g.sourcePort
        /\ g \in TCPHeader /\ InFlight(g) /\ "RST" \notin g.control
    <3>1. g \in TCPHeader /\ listener[p].at = "reply"
      BY <1>4 DEF ClosedReplies, TypeOK
    <3>2. InFlight(g) /\ "RST" \notin g.control
      BY <3>1 DEF InFlight, Raws, ReplyOwed
    <3> QED
      BY <3>1, <3>2, ClosedReply
  <2>2. Harmless(k)
    BY <2>1 DEF Harmless, Origins, Sources
  <2> HIDE DEF k
  <2>3. S \in SUBSET TCPHeader /\ Transmit(S)
    BY <1>4, <2>1 DEF ClosedReplies, k
  <2>4. \A x \in S : Harmless(x)
    BY <2>2
  <2> HIDE DEF S
  <2>5. /\ \A x \in Process : \A h \in raw'[x] :
               h \in raw[x] \/ (h \in S /\ ~Bound(h.destinationPort))
        /\ \A c \in Call : \A h \in udp'[c] : h \in udp[c] \/ h \in S
    BY <2>3, Transmitted, TransmittedUnbound DEF OneClientPerPort
  <2>6. \A x \in Process : listener'[x] = listener[x] \/ listener'[x].at = "receive"
    BY <1>4, IdleTypes DEF ClosedReplies, TypeOK
  <2>7. \A h \in TCPHeader : InFlight(h)' => InFlight(h) \/ h \in S
    BY <1>1, <2>5, <2>6 DEF InFlight
  <2>8. \A x \in Process : ListenerGoesOn(x)
    BY <2>6 DEF ListenerGoesOn, TypeOK
  <2> QED
    BY <1>2, <1>3, <2>3, <2>4, <2>5, <2>7, <2>8, HarmlessStep
<1>5. CASE ClosedIgnores(p) \/ ClosedBinds(p)
  <2>1. raw' = raw /\ udp' = udp
    BY <1>5 DEF ClosedIgnores, ClosedBinds
  <2>2. ASSUME NEW x \in Process
        PROVE  ListenerGoesOn(x)
    <3>1. \/ listener'[x].at = "receive"
          \/ listener'[x] = listener[x]
          \/ /\ listener[x].at = "find" /\ "RST" \notin listener[x].segment.control
             /\ listener'[x] = [listener[x] EXCEPT !.at = "reply"]
      BY <1>5, IdleTypes DEF ClosedIgnores, ClosedBinds, Finds, TypeOK
    <3>2. listener[x].at \in {"receive", "find", "reply", "answer"}
      BY DEF TypeOK
    <3>3. CASE listener'[x] = [listener[x] EXCEPT !.at = "reply"]
      <4>1. listener'[x].segment = listener[x].segment /\ listener'[x].at = "reply"
        BY <3>3 DEF TypeOK
      <4> QED
        BY <3>1, <4>1 DEF ListenerGoesOn
    <3> QED
      BY <3>1, <3>2, <3>3 DEF ListenerGoesOn
  <2>3. \A h \in TCPHeader : InFlight(h)' => InFlight(h)
    BY <1>1, <2>1, <2>2 DEF InFlight, ListenerGoesOn
  <2> QED
    BY <1>2, <1>3, <2>1, <2>2, <2>3, QuietStep
<1>6. ASSUME NEW h \in raw[p], RawReceives(p, h)
      PROVE  Origins' /\ Raws'
  <2>1. udp' = udp /\ \A x \in Process : raw'[x] \subseteq raw[x]
    BY <1>6, RawReceived DEF RawReceives
  <2>2. h \notin raw'[p]
    <3>1. Taken(raw[p], h) = {raw[p] \ {h}}
      BY DEF Taken, OneClientPerPort
    <3>2. raw' = [raw EXCEPT ![p] = raw[p] \ {h}]
      BY <1>6, <3>1 DEF RawReceives
    <3> QED
      BY <3>2 DEF TypeOK
  <2>3. \A x \in Process : ListenerGoesOn(x)
    <3>1. /\ \A x \in Process : x # p => listener'[x] = listener[x]
          /\ listener'[p].at = "receive"
                \/ (listener'[p].at = "find" /\ listener'[p].segment = h)
          /\ listener[p].at = "receive"
      BY <1>6, RawReceived DEF RawReceives
    <3>2. ListenerGoesOn(p)
      BY <2>2, <3>1 DEF ListenerGoesOn
    <3>3. \A x \in Process : x # p => ListenerGoesOn(x)
      BY <3>1 DEF ListenerGoesOn, TypeOK
    <3> QED
      BY <3>2, <3>3
  <2>4. \A k \in TCPHeader : InFlight(k)' => InFlight(k)
    BY <1>1, <2>1, <2>3 DEF InFlight, ListenerGoesOn
  <2> QED
    BY <1>2, <1>3, <2>1, <2>3, <2>4, QuietStep
<1> QED
  BY <1>4, <1>5, <1>6

\* The rest of sendSYNACK.
LEMMA ListenerAnsweredSurvival ==
    ASSUME SurvivalInv, TypeOK', NEW p \in Process, ListenerAnswered(p)
    PROVE  Origins' /\ Raws'
<1> USE DEF SurvivalInv, AgreementInv, PortInv, Threads, Connections
<1> DEFINE c == listener[p].block
           u == [synAckDone(tcb[c]) EXCEPT !.threadLaunched = TRUE]
<1>1. /\ c \in Call /\ c.process = p /\ c.passive
      /\ tcb[c] \in TransmissionControlBlock /\ tcb[c].connectionSocket
      /\ tcb' = [tcb EXCEPT ![c] = u]
      /\ listener' = [listener EXCEPT ![p] = ListenerIdle]
      /\ UNCHANGED <<status, reader, raw, udp>>
  <2>1. /\ listener[p].at = "answer"
        /\ tcb' = [tcb EXCEPT ![c] = u]
        /\ listener' = [listener EXCEPT ![p] = ListenerIdle]
        /\ UNCHANGED <<status, reader, raw, udp>>
    BY DEF ListenerAnswered
  <2>2. c \in Call /\ c.process = p /\ c.passive
    BY <2>1 DEF AnswerOwned
  <2>3. Answering(c)
    BY <2>1, <2>2 DEF Answering
  <2> HIDE DEF u, c
  <2> QED
    BY <2>1, <2>2, <2>3 DEF PassiveBlocks, TypeOK
<1>2. /\ u.localPort = tcb[c].localPort /\ u.foreignPort = tcb[c].foreignPort
      /\ u.connectionSocket = tcb[c].connectionSocket
  <2>1. PICK v : v = synAckDone(tcb[c])
    OBVIOUS
  <2>2. /\ v \in TransmissionControlBlock
        /\ v.localPort = tcb[c].localPort /\ v.foreignPort = tcb[c].foreignPort
        /\ v.connectionSocket = tcb[c].connectionSocket
    BY <1>1, <2>1, SynAckDoneType, SYNACKDone
  <2>3. u = [v EXCEPT !.threadLaunched = TRUE]
    BY <2>1
  <2> HIDE DEF u, c
  <2> QED
    BY <2>2, <2>3 DEF TransmissionControlBlock
<1> HIDE DEF u
<1>3. tcb'[c] = u /\ \A d \in Call : d # c => tcb'[d] = tcb[d]
  BY <1>1 DEF TypeOK
<1>4. \A x \in Process : listener'[x] = listener[x] \/ listener'[x].at = "receive"
  BY <1>1, IdleTypes DEF TypeOK
<1> HIDE DEF c
<1>5. \A d \in Call : KeepsEnd(d)
  BY <1>1, <1>2, <1>3 DEF KeepsEnd
<1>6. \A h \in TCPHeader : InFlight(h)' => InFlight(h)
  BY <1>1, <1>4 DEF InFlight
<1>7. \A x \in Process : ListenerGoesOn(x) /\ (Up(x)' => Up(x))
  BY <1>1, <1>4 DEF ListenerGoesOn, TypeOK, Up
<1> QED
  BY <1>1, <1>5, <1>6, <1>7, QuietStep

\* No segment in flight has a port that a socket may still be given.
LEMMA UnusedUnseen ==
    ASSUME PortInv, NEW q \in EphemeralPort, Unused(q)
    PROVE  \A h \in TCPHeader : InFlight(h) => h.sourcePort # q /\ h.destinationPort # q
<1>1. ~Known(q)
  BY DEF Known, Unused
<1> QED
  BY <1>1 DEF PortInv, PortsKnown

\* sendSYNMessage: the SYN leaves from a port that nobody knows, to the only listener
\* that this client dials.
LEMMA SendsSYNSurvival ==
    ASSUME SurvivalInv, PortInv', OneClientPerPort,
           NEW c \in Call, NEW q \in EphemeralPort, NEW i \in ISS, SendsSYN(c, q, i)
    PROVE  Origins' /\ Raws'
<1> USE DEF SurvivalInv, AgreementInv, PortInv, Origins, Raws
<1> DEFINE e == sendSYN(tcb[c], q, c.foreignPort, i)
           syn == SynOf(c)'
<1>1. /\ opening[c] = "syn" /\ Unused(q) /\ Apply(c, e, i)
      /\ UNCHANGED <<status, tcbMap, listener, reader>>
  BY DEF SendsSYN
<1>2. ~c.passive /\ ~tcb[c].connectionSocket /\ tcb[c] \in TransmissionControlBlock
  BY <1>1 DEF Blocks, TypeOK
<1>3. /\ e \in Effect
      /\ e.tcb.connectionSocket /\ e.tcb.localPort = q /\ e.tcb.iss = i
      /\ c.foreignPort \in UserPort
      /\ e.out = {[constructSendTCPHeader(q, c.foreignPort) EXCEPT
                      !.sequenceNumber = i, !.control = {"SYN"}]}
  <2>1. e.out = {[constructSendTCPHeader(q, c.foreignPort) EXCEPT
                      !.sequenceNumber = i, !.control = {"SYN"}]}
    BY DEF sendSYN, Sends
  <2> QED
    BY <1>2, <2>1, Constants, SendSYNType, SYNSent
<1> HIDE DEF e
<1>4. /\ tcb'[c] = e.tcb
      /\ \A d \in Call : d # c => tcb'[d] = tcb[d]
      /\ e.out \in SUBSET TCPHeader /\ Transmit(e.out)
  BY <1>1, <1>3, Applied
<1>5. /\ e.out = {syn} /\ syn \in TCPHeader
      /\ syn.sourcePort = q /\ syn.destinationPort = c.foreignPort
      /\ syn.control = {"SYN"}
  <2>1. e.out = {syn}
    BY <1>3, <1>4 DEF SynOf
  <2>2. syn \in TCPHeader
    BY <1>4, <2>1
  <2> QED
    BY <1>3, <1>4, <2>1, <2>2 DEF SynOf, constructSendTCPHeader
<1> HIDE DEF syn
<1>6. /\ \A x \in Process : \A h \in raw'[x] : h \in raw[x] \/ h = syn
      /\ \A h \in TCPHeader : InFlight(h)' => InFlight(h) \/ h = syn
  <2>1. /\ \A x \in Process : \A h \in raw'[x] : h \in raw[x] \/ h = syn
        /\ \A d \in Call : \A h \in udp'[d] : h \in udp[d] \/ h = syn
    BY <1>4, <1>5, Transmitted
  <2> QED
    BY <1>1, <2>1 DEF InFlight
<1>7. \A h \in TCPHeader : InFlight(h) => h.sourcePort # q /\ h.destinationPort # q
  BY <1>1, UnusedUnseen
<1>8. /\ ~Dials(c) /\ Dials(c)'
      /\ \A a \in Call : Dials(a) => a # c /\ Dials(a)' /\ SynOf(a)' = SynOf(a)
      /\ \A r : AnswersFrom(r) => AnswersFrom(r)'
      /\ \A d \in Call, r \in Port : d # c => (Holds(d, r)' <=> Holds(d, r))
  BY <1>1, <1>2, <1>3, <1>4 DEF Dials, SynOf, AnswersFrom, Holds, Up
<1>9. Sources'
  BY <1>3, <1>5, <1>6 DEF Sources
<1>10. DialledPorts'
  BY <1>5, <1>6, <1>8 DEF DialledPorts, syn
<1>11. RepliesFit'
  <2>1. \A h \in TCPHeader : InFlight(h)' /\ h.control # {"SYN"} => InFlight(h)
    BY <1>5, <1>6
  <2>2. ASSUME NEW h \in TCPHeader, InFlight(h), h.control = {"SYN", "ACK"},
               NEW a \in Call, Dials(a)', tcb'[a].localPort = h.destinationPort
        PROVE  h.ackNumber = Inc(tcb'[a].iss)
    <3>1. a # c
      BY <1>3, <1>4, <1>7, <2>2
    <3>2. tcb'[a] = tcb[a] /\ Dials(a)
      BY <1>4, <2>2, <3>1 DEF Dials
    <3> QED
      BY <2>2, <3>2 DEF RepliesFit
  <2> QED
    BY <1>8, <2>1, <2>2 DEF RepliesFit
<1>12. PeersDialled'
  BY <1>2, <1>4, <1>8 DEF PeersDialled
<1>13. RawUnbound'
  <2>1. ASSUME NEW p \in Process, NEW h \in TCPHeader, NEW d \in Call, InRaw(p, h)',
               Holds(d, h.destinationPort)'
        PROVE  FALSE
    <3>1. InRaw(p, h) \/ h = syn
      BY <1>1, <1>6, <2>1 DEF InRaw
    <3>2. h # syn
      BY <1>3, <1>5, <2>1, Constants DEF Blocks, Holds
    <3>3. InFlight(h) /\ h.destinationPort \in Port
      BY <3>1, <3>2 DEF InRaw, InFlight, PortsKnown
    <3>4. d # c
      BY <1>3, <1>4, <1>7, <2>1, <3>3 DEF Holds
    <3> QED
      BY <1>8, <2>1, <3>1, <3>2, <3>3, <3>4 DEF RawUnbound
  <2> QED
    BY <2>1 DEF RawUnbound
<1>14. SynOnce'
  <2>1. ASSUME NEW p \in Process, NEW h \in raw'[p],
               h.destinationPort \in UserPort, listener'[p].at # "receive"
        PROVE  h # listener'[p].segment
    <3>1. CASE h \in raw[p]
      BY <1>1, <2>1, <3>1 DEF SynOnce
    <3>2. CASE h = syn
      <4>1. listener[p].segment \in TCPHeader /\ InFlight(listener[p].segment)
        BY <1>1, <2>1 DEF InFlight, TypeOK
      <4> QED
        BY <1>1, <1>5, <1>7, <3>2, <4>1
    <3> QED
      BY <1>6, <3>1, <3>2
  <2>2. ASSUME NEW b \in Call, b.passive, tcb'[b].connectionSocket
        PROVE  /\ \A h \in raw'[b.process] : h.destinationPort # b.localPort
               /\ listener'[b.process].at \in {"find", "reply"} =>
                      listener'[b.process].segment.destinationPort # b.localPort
    <3>1. tcb[b].connectionSocket /\ b.process \in Process
      BY <1>2, <1>4, <2>2, Constants
    <3>2. c.foreignPort # b.localPort
      <4>1. PICK a \in Call : Dials(a) /\ a.foreignPort = b.localPort
        BY <2>2, <3>1 DEF PeersDialled
      <4> QED
        BY <1>2, <1>8, <4>1 DEF OneClientPerPort, Clients, Dials
    <3> QED
      BY <1>1, <1>5, <1>6, <2>2, <3>1, <3>2 DEF SynOnce
  <2> QED
    BY <2>1, <2>2 DEF SynOnce
<1>15. ReplyOwed'
  BY <1>1 DEF ReplyOwed
<1> QED
  BY <1>9, <1>10, <1>11, <1>12, <1>13, <1>14, <1>15

\* processListeningSocketMessage: what a listener finds is the SYN of the client that
\* dials it, the only one, and the answer goes to that client from a new port.
LEMMA ListenerHandlesSurvival ==
    ASSUME SurvivalInv, PortInv', OneClientPerPort, NEW p \in Process, NEW c \in Call,
           NEW q \in EphemeralPort, NEW i \in ISS, ListenerHandles(p, c, q, i)
    PROVE  Origins' /\ Raws'
<1> USE DEF SurvivalInv, AgreementInv, PortInv, Origins, Raws
<1> DEFINE h == listener[p].segment
           t == tcb[c]
           e == processListeningSocketMessage(t, h, q, i)
<1>1. /\ Finds(p, c) /\ t.state = "LISTEN" /\ listener[p].at = "find"
      /\ Unused(q) \/ t.connectionSocket
      /\ Apply(c, e, i)
      /\ listener' = [listener EXCEPT ![p] =
             IF AnswersSYN(h) THEN [@ EXCEPT !.at = "answer", !.block = c]
                              ELSE ListenerIdle]
      /\ UNCHANGED <<status, opening, tcbMap, reader>>
  BY DEF ListenerHandles, Finds
<1>2. /\ c.process = p /\ c.passive
      /\ h \in TCPHeader /\ InFlight(h) /\ t \in TransmissionControlBlock
      /\ h.destinationPort = c.localPort /\ c.localPort \in UserPort
  BY <1>1, Found, Constants DEF TypeOK
<1>3. PICK a \in Call : Dials(a) /\ h = SynOf(a)
  BY <1>2 DEF DialledPorts
<1>4. /\ h.control = {"SYN"} /\ h.sequenceNumber = tcb[a].iss
      /\ h.sourcePort = tcb[a].localPort /\ a.foreignPort = c.localPort
      /\ AnswersSYN(h) /\ h.sourcePort \in EphemeralPort
  <2>1. /\ h.control = {"SYN"} /\ h.sequenceNumber = tcb[a].iss
        /\ h.sourcePort = tcb[a].localPort /\ h.destinationPort = a.foreignPort
    BY <1>3 DEF SynOf, constructSendTCPHeader
  <2> QED
    BY <1>2, <2>1 DEF AnswersSYN, Sources
<1>5. ~t.connectionSocket /\ Unused(q)
  BY <1>1, <1>2 DEF SynOnce
<1>6. /\ e \in Effect /\ e.tcb.state = "LISTEN" /\ e.tcb.connectionSocket
      /\ e.tcb.localPort = q /\ e.tcb.foreignPort = tcb[a].localPort
      /\ \A k \in e.out : /\ k.control = {"SYN", "ACK"}
                          /\ k.ackNumber = Inc(tcb[a].iss)
                          /\ k.sourcePort = q
                          /\ k.destinationPort = tcb[a].localPort
  <2>1. /\ e \in Effect /\ e.tcb.state = t.state /\ e.tcb.connectionSocket
        /\ e.tcb.foreignPort = h.sourcePort
    BY <1>2, <1>4, Constants, ListenEffect
  <2>2. e.tcb.localPort = q /\ FromTo(e)
    BY <1>2, <1>5, <2>1, Constants, ListenPorts
  <2>3. \A k \in e.out : k.control = {"SYN", "ACK"} /\ k.ackNumber = Inc(h.sequenceNumber)
    BY <1>2, <1>4, Constants, ListenStep
  <2> HIDE DEF e, h
  <2> QED
    BY <1>1, <1>4, <2>1, <2>2, <2>3 DEF FromTo
<1> HIDE DEF e
<1>7. /\ tcb'[c] = e.tcb
      /\ \A d \in Call : d # c => tcb'[d] = tcb[d]
      /\ e.out \in SUBSET TCPHeader /\ Transmit(e.out)
  BY <1>1, <1>6, Applied
<1>8. /\ listener'[p].at = "answer" /\ listener'[p].segment = h
      /\ \A x \in Process : x # p => listener'[x] = listener[x]
  <2>1. listener[p] \in [at      : {"receive", "find", "reply", "answer"},
                         segment : TCPHeader, block : Call \cup {NoTCB}]
    BY DEF TypeOK
  <2> DEFINE l == [listener[p] EXCEPT !.at = "answer", !.block = c]
  <2>2. l.at = "answer" /\ l.segment = listener[p].segment
    BY <2>1
  <2>3. listener'[p] = l /\ \A x \in Process : x # p => listener'[x] = listener[x]
    BY <1>1, <1>4 DEF TypeOK
  <2> HIDE DEF l
  <2> QED
    BY <2>2, <2>3
<1> HIDE DEF h, t
<1>9. /\ \A x \in Process : \A k \in raw'[x] :
             k \in raw[x] \/ (k \in e.out /\ ~Bound(k.destinationPort))
      /\ \A k \in TCPHeader : InFlight(k)' => InFlight(k) \/ k \in e.out
  <2>1. /\ \A x \in Process : \A k \in raw'[x] :
               k \in raw[x] \/ (k \in e.out /\ ~Bound(k.destinationPort))
        /\ \A d \in Call : \A k \in udp'[d] : k \in udp[d] \/ k \in e.out
    BY <1>7, Transmitted, TransmittedUnbound DEF OneClientPerPort
  <2> QED
    BY <1>1, <1>2, <1>8, <2>1 DEF InFlight, h
<1>10. /\ \A d \in Call : /\ Dials(d)' <=> Dials(d)
                          /\ Dials(d) => tcb'[d] = tcb[d] /\ SynOf(d)' = SynOf(d)
       /\ \A r : AnswersFrom(r) => AnswersFrom(r)'
       /\ \A d \in Call, r \in Port : d # c => (Holds(d, r)' <=> Holds(d, r))
  <2>1. \A d \in Call : Dials(d) \/ Dials(d)' => d # c
    BY <1>2 DEF Dials
  <2> QED
    BY <1>1, <1>5, <1>7, <2>1 DEF Dials, SynOf, AnswersFrom, Holds, Up, t
<1>11. tcb[a].localPort \in EphemeralPort
  BY <1>4
<1>12. Sources'
  BY <1>6, <1>9, <1>11 DEF Sources
<1>13. DialledPorts'
  <2>1. \A k \in e.out : k.destinationPort \notin UserPort
    BY <1>6, <1>11, Constants
  <2> QED
    BY <1>9, <1>10, <2>1 DEF DialledPorts
<1>14. RepliesFit'
  <2>1. AnswersFrom(q)'
    BY <1>2, <1>6, <1>7 DEF AnswersFrom
  <2>2. ASSUME NEW k \in e.out, NEW d \in Call, Dials(d)',
               tcb'[d].localPort = k.destinationPort
        PROVE  k.ackNumber = Inc(tcb'[d].iss)
    <3>1. tcb'[d] = tcb[d] /\ tcb[d].connectionSocket /\ tcb[a].connectionSocket
      BY <1>3, <1>10, <2>2 DEF Dials
    <3>2. d = a
      BY <1>6, <2>2, <3>1 DEF PortsDiffer
    <3> QED
      BY <1>6, <2>2, <3>1, <3>2
  <2>3. ASSUME NEW k \in TCPHeader, InFlight(k)
        PROVE  /\ k.control = {"SYN", "ACK"} =>
                      /\ AnswersFrom(k.sourcePort)'
                      /\ \A d \in Call : Dials(d)' /\ tcb'[d].localPort = k.destinationPort =>
                             k.ackNumber = Inc(tcb'[d].iss)
               /\ k.control = {"ACK"} => AnswersFrom(k.destinationPort)'
    BY <1>10, <2>3 DEF RepliesFit
  <2> QED
    BY <1>6, <1>9, <2>1, <2>2, <2>3 DEF RepliesFit
<1>15. PeersDialled'
  <2>1. ASSUME NEW b \in Call, b.passive, b # c
        PROVE  /\ tcb'[b].state # "LISTEN" => tcb'[b].connectionSocket
               /\ tcb'[b].connectionSocket =>
                      /\ tcb'[b].foreignPort \in EphemeralPort
                      /\ \E d \in Call : Dials(d)' /\ d.foreignPort = b.localPort
    BY <1>7, <1>10, <2>1 DEF PeersDialled
  <2>2. /\ tcb'[c].state = "LISTEN" /\ tcb'[c].foreignPort \in EphemeralPort
        /\ Dials(a)' /\ a.foreignPort = c.localPort
    BY <1>3, <1>4, <1>6, <1>7, <1>10, <1>11
  <2> QED
    BY <2>1, <2>2 DEF PeersDialled
<1>16. RawUnbound'
  <2>1. ASSUME NEW x \in Process, NEW k \in TCPHeader, NEW d \in Call, InRaw(x, k)',
               Holds(d, k.destinationPort)'
        PROVE  FALSE
    <3>1. InRaw(x, k) \/ (k \in e.out /\ ~Bound(k.destinationPort))
      BY <1>1, <1>8, <1>9, <2>1 DEF InRaw, h
    <3>2. k.destinationPort # q /\ k.destinationPort \in Port
      <4>1. CASE InRaw(x, k)
        <5>1. InFlight(k)
          BY <4>1 DEF InRaw, InFlight
        <5> QED
          BY <1>5, <5>1, UnusedUnseen DEF PortsKnown
      <4>2. CASE k \in e.out
        BY <1>3, <1>5, <1>6, <1>11, <4>2, Constants DEF Unused, Dials
      <4> QED
        BY <3>1, <4>1, <4>2
    <3>3. d # c
      BY <1>6, <1>7, <2>1, <3>2 DEF Holds
    <3> QED
      BY <1>10, <2>1, <3>1, <3>2, <3>3 DEF RawUnbound, Bound
  <2> QED
    BY <2>1 DEF RawUnbound
<1>17. SynOnce'
  <2>1. \A x \in Process : \A k \in raw'[x] : k.destinationPort \in UserPort => k \in raw[x]
    BY <1>6, <1>9, <1>11, Constants
  <2>2. ASSUME NEW x \in Process, NEW k \in raw'[x],
               k.destinationPort \in UserPort, listener'[x].at # "receive"
        PROVE  k # listener'[x].segment
    <3>1. listener[x].at # "receive" /\ listener'[x].segment = listener[x].segment
      BY <1>1, <1>8, <2>2 DEF h
    <3> QED
      BY <2>1, <2>2, <3>1 DEF SynOnce
  <2>3. ASSUME NEW b \in Call, b.passive, b # c, tcb'[b].connectionSocket
        PROVE  /\ \A k \in raw'[b.process] : k.destinationPort # b.localPort
               /\ listener'[b.process].at \in {"find", "reply"} =>
                      listener'[b.process].segment.destinationPort # b.localPort
    <3>1. tcb[b].connectionSocket /\ b.process \in Process /\ b.localPort \in UserPort
      BY <1>7, <2>3, Constants
    <3> QED
      BY <1>8, <2>1, <2>3, <3>1 DEF SynOnce
  <2>4. ASSUME NEW k \in raw'[p], k.destinationPort = c.localPort
        PROVE  FALSE
    <3>1. k \in raw[p] /\ k \in TCPHeader /\ InFlight(k)
      BY <1>2, <2>1, <2>4 DEF InFlight, TypeOK
    <3>2. PICK d \in Call : Dials(d) /\ k = SynOf(d)
      BY <1>2, <2>4, <3>1 DEF DialledPorts
    <3>3. d.foreignPort = c.localPort
      BY <2>4, <3>2 DEF SynOf, constructSendTCPHeader
    <3>4. d = a
      BY <1>3, <1>4, <3>2, <3>3 DEF OneClientPerPort, Clients, Dials
    <3> QED
      BY <1>1, <1>2, <1>3, <2>4, <3>1, <3>2, <3>4 DEF SynOnce, h
  <2>5. /\ \A k \in raw'[c.process] : k.destinationPort # c.localPort
        /\ listener'[c.process].at = "answer"
    BY <1>2, <1>8, <2>4
  <2> QED
    BY <2>2, <2>3, <2>5 DEF SynOnce
<1>18. ReplyOwed'
  BY <1>8 DEF ReplyOwed
<1> QED
  BY <1>12, <1>13, <1>14, <1>15, <1>16, <1>17, <1>18

\* What the thread of a block sends: the ACK of an answer, to the listener that gave
\* it, or a reset of a listener to its client.
LEMMA ReaderSends ==
    ASSUME SurvivalInv, NEW c \in Call, NEW i \in ISS, reader[c].at = "handle",
           NEW e, e = processUDPMessage(tcb[c], reader[c].state, reader[c].segment, i)
    PROVE  /\ e \in Effect
           /\ \A k \in e.out :
                  /\ Harmless(k)
                  /\ \/ k.control = {"ACK"}
                     \/ /\ k.control = {"RST"} /\ c.passive
                        /\ k.destinationPort = tcb[c].foreignPort
<1> USE DEF SurvivalInv, AgreementInv, PortInv, Origins, Connections, Threads, InTransit
<1> DEFINE h == reader[c].segment
           s == reader[c].state
           t == tcb[c]
<1>1. /\ t \in TransmissionControlBlock /\ h \in TCPHeader /\ s \in State
      /\ InFlight(h) /\ t.connectionSocket /\ t.passive = c.passive
      /\ h.destinationPort = t.localPort /\ t.localPort \in EphemeralPort
      /\ s \in {"SYN_SENT", "SYN_RECEIVED"} => t.state = s
  BY DEF TypeOK, InFlight, SocketsReceive, Delivered, CopyHolds, Blocks
<1>2. h.control \in {{"SYN", "ACK"}, {"ACK"}, {"RST"}, {"RST", "ACK"}}
  <2>1. h.control \in Control /\ (h.control = {"SYN"} => h.destinationPort \in UserPort)
    BY <1>1 DEF SynSegments
  <2> QED
    BY <1>1, <2>1, Constants DEF Control, Reset
<1>3. e \in Effect /\ FromTo(e)
  BY <1>1, Constants, ReaderEffect, ReaderPorts
<1>4. CASE s \notin {"SYN_SENT", "SYN_RECEIVED"}
  BY <1>3, <1>4, OtherStep
<1>5. CASE s = "SYN_SENT"
  <2>1. ~c.passive /\ t.iss \in ISS /\ t.snd_nxt = Inc(t.iss)
    BY <1>1, <1>5 DEF ActiveBlocks, PassiveBlocks, TypeOK
  <2>2. h.control # {"ACK"}
    <3>1. SUFFICES ASSUME h.control = {"ACK"} PROVE FALSE
      OBVIOUS
    <3>2. PICK b \in Call : b.passive /\ tcb[b].connectionSocket
                            /\ tcb[b].localPort = t.localPort
      BY <1>1, <3>1 DEF RepliesFit, AnswersFrom
    <3> QED
      BY <1>1, <2>1, <3>2 DEF PortsDiffer
  <2>3. h.control = {"SYN", "ACK"} => AckAcceptable(t, h) /\ AnswersFrom(h.sourcePort)
    <3>1. h.control = {"SYN", "ACK"} => /\ h.ackNumber = Inc(t.iss)
                                        /\ AnswersFrom(h.sourcePort)
      BY <1>1, <2>1 DEF RepliesFit, Dials
    <3>2. t.iss < Inc(t.iss) /\ Inc(t.iss) <= t.snd_nxt
      BY <2>1, DrawnNumbers
    <3> QED
      BY <3>1, <3>2 DEF AckAcceptable
  <2>4. \/ e.out = {}
        \/ e = sendEstablishedACK(t, h) /\ h.control = {"SYN", "ACK"}
    <3>1. \/ e = Ignores(t)
          \/ e = FailsWith(t, "CONNECTION_RESET")
          \/ e = sendEstablishedACK(t, h) /\ h.control = {"SYN", "ACK"}
      BY <1>2, <1>5, <2>2, <2>3 DEF processUDPMessage, processSynSentSocketMessage
    <3>2. Ignores(t).out = {} /\ FailsWith(t, "CONNECTION_RESET").out = {}
      BY DEF Ignores, Sends, FailsWith
    <3> QED
      BY <3>1, <3>2
  <2>5. ASSUME e = sendEstablishedACK(t, h), h.control = {"SYN", "ACK"}, NEW k \in e.out
        PROVE  Harmless(k) /\ k.control = {"ACK"}
    <3>1. /\ k.control = {"ACK"} /\ k.sourcePort = t.localPort
          /\ k.destinationPort = h.sourcePort
      BY <1>1, <2>5, EstablishedACKSent DEF FromTo
    <3>2. h.sourcePort \in EphemeralPort
      BY <1>1, <2>5 DEF Sources
    <3> QED
      BY <1>1, <2>3, <2>5, <3>1, <3>2 DEF Harmless
  <2> QED
    BY <1>3, <2>4, <2>5
<1>6. CASE s = "SYN_RECEIVED"
  <2>1. c.passive
    BY <1>1, <1>6 DEF ActiveBlocks
  <2>2. i \in SeqNumber /\ t.passive
    BY <1>1, <2>1, Constants
  <2>3. /\ e.tcb.foreignPort = t.foreignPort
        /\ \A k \in e.out : k.control = {"RST"}
    <3>1. \/ e.tcb = t /\ \A k \in e.out : k.control = {"RST"}
          \/ /\ e.tcb = [t EXCEPT !.state = "CLOSED"]
             /\ \A k \in e.out : k.control = {"RST"}
          \/ e.tcb = [t EXCEPT !.state = "LISTEN"] /\ e.out = {}
          \/ /\ e.tcb = [t EXCEPT !.state = "ESTABLISHED"] /\ e.out = {}
             /\ h.control = {"ACK"} /\ AckInWindow(t, h)
      BY <1>1, <1>2, <1>6, <2>1, <2>2, SynReceivedStep
    <3> HIDE DEF t
    <3> QED
      BY <1>1, <3>1 DEF TransmissionControlBlock
  <2>4. t.foreignPort \in EphemeralPort
    BY <1>1, <2>1 DEF PeersDialled
  <2> HIDE DEF t, h, s
  <2>5. \A k \in e.out : k.control = {"RST"} /\ k.destinationPort = t.foreignPort
    BY <1>3, <2>3 DEF FromTo
  <2>6. \A k \in e.out : Harmless(k)
    BY <2>4, <2>5 DEF Harmless
  <2> QED
    BY <1>3, <2>1, <2>5, <2>6 DEF t
<1> QED
  BY <1>4, <1>5, <1>6

\* processUDPMessage keeps the socket and the peers of its block.
LEMMA ReaderHandlesSurvival ==
    ASSUME SurvivalInv, TypeOK', OneClientPerPort,
           NEW c \in Call, NEW i \in ISS, ReaderHandles(c, i)
    PROVE  Origins' /\ Raws'
<1> USE DEF SurvivalInv, AgreementInv, PortInv
<1> DEFINE h == reader[c].segment
           t == tcb[c]
           e == processUDPMessage(t, reader[c].state, h, i)
<1>1. /\ reader[c].at = "handle" /\ Apply(c, e, i)
      /\ reader' = [reader EXCEPT ![c] = ReaderIdle]
      /\ UNCHANGED <<status, opening, tcbMap, listener>>
  BY DEF ReaderHandles
<1>2. e \in Effect /\ \A k \in e.out : Harmless(k)
  BY <1>1, ReaderSends
<1> HIDE DEF e
<1>3. e.out \in SUBSET TCPHeader /\ Transmit(e.out)
  BY <1>1, <1>2, Applied
<1>4. /\ t \in TransmissionControlBlock /\ t.connectionSocket
      /\ \A d \in Call : d # c => tcb'[d] = tcb[d]
      /\ \/ tcb'[c] = t
         \/ /\ tcb'[c].connectionSocket /\ tcb'[c].localPort = t.localPort
            /\ tcb'[c].iss = t.iss /\ ~c.passive
         \/ \E x \in State : tcb'[c] = [t EXCEPT !.state = x]
  <2>1. {"CLOSED", "LISTEN", "ESTABLISHED"} \subseteq State
    BY DEF State
  <2> HIDE DEF t
  <2> QED
    BY <2>1, ReaderStep DEF t
<1>5. \A d \in Call : KeepsEnd(d)
  <2>1. ASSUME NEW x \in State, tcb'[c] = [t EXCEPT !.state = x]
        PROVE  /\ tcb'[c].connectionSocket /\ tcb'[c].localPort = t.localPort
               /\ tcb'[c].iss = t.iss /\ tcb'[c].foreignPort = t.foreignPort
    BY <1>4, <2>1 DEF TransmissionControlBlock
  <2> HIDE DEF t
  <2>2. KeepsEnd(c)
    BY <1>4, <2>1 DEF KeepsEnd, t
  <2> QED
    BY <1>4, <2>2 DEF KeepsEnd
<1>6. /\ \A x \in Process : \A k \in raw'[x] :
             k \in raw[x] \/ (k \in e.out /\ ~Bound(k.destinationPort))
      /\ \A d \in Call : \A k \in udp'[d] : k \in udp[d] \/ k \in e.out
  BY <1>3, Transmitted, TransmittedUnbound DEF OneClientPerPort
<1>7. \A d \in Call : reader'[d].at = "handle" => reader'[d] = reader[d]
  BY <1>1, IdleTypes DEF TypeOK
<1>8. \A k \in TCPHeader : InFlight(k)' => InFlight(k) \/ k \in e.out
  BY <1>1, <1>6, <1>7 DEF InFlight
<1>9. \A x \in Process : ListenerGoesOn(x) /\ (Up(x)' => Up(x))
  BY <1>1 DEF ListenerGoesOn, TypeOK, Up
<1> QED
  BY <1>2, <1>3, <1>5, <1>6, <1>8, <1>9, HarmlessStep

\* assert(state == LISTEN) holds.  A client's block has a socket under its new port,
\* which would have got the segment; the SYN of a listener's client is read once, and
\* a client's own SYN does not pass the filter.
LEMMA FindsListeners ==
    ASSUME SurvivalInv, OneClientPerPort, NEW p \in Process, NEW c \in Call, Finds(p, c)
    PROVE  tcb[c].state = "LISTEN"
<1> SUFFICES ASSUME tcb[c].state # "LISTEN" PROVE FALSE
  OBVIOUS
<1> USE DEF SurvivalInv, AgreementInv, PortInv, Origins, Raws
<1> DEFINE g == listener[p].segment
<1>1. /\ Up(p) /\ listener[p].at = "find" /\ tcbMap[p][g.destinationPort] = c
      /\ g \in TCPHeader /\ InFlight(g) /\ InRaw(p, g)
  BY DEF Finds, TypeOK, InFlight, InRaw
<1>2. g.destinationPort \in Port
  BY <1>1 DEF PortsKnown
<1>3. c.process = p /\ ~(Moved(c) /\ g.destinationPort = tcb[c].localPort)
  BY <1>1, <1>2 DEF KeysOwned, RawUnbound, Holds, Moved
<1>4. g.destinationPort = c.localPort /\ c.localPort \in UserPort
  BY <1>1, <1>2, <1>3, Constants DEF KeysOwned
<1>5. PICK a \in Call : Dials(a) /\ g = SynOf(a)
  BY <1>1, <1>4 DEF DialledPorts
<1>6. a.foreignPort = c.localPort /\ g.sourcePort = tcb[a].localPort
  BY <1>4, <1>5 DEF SynOf, constructSendTCPHeader
<1>7. CASE c.passive
  BY <1>1, <1>3, <1>4, <1>7 DEF PeersDialled, SynOnce
<1>8. CASE ~c.passive
  <2>1. a.process = p
    BY <1>3, <1>5, <1>6, <1>8 DEF OneClientPerPort, Clients, Dials
  <2> QED
    BY <1>1, <1>5, <1>6, <2>1 DEF OwnSynFiltered, Sockets, Dials
<1> QED
  BY <1>7, <1>8, Constants

\* bind() succeeds: no socket has a port of a segment in a raw socket, and the two
\* listening threads never answer for the same port, since a SYN is read only by the
\* process that did not send it and any other port is that of one of the two.
LEMMA FindsUnbound ==
    ASSUME SurvivalInv, OneClientPerPort, NEW p \in Process, Finds(p, NoTCB)
    PROVE  ~Bound(listener[p].segment.destinationPort)
<1> USE DEF SurvivalInv, AgreementInv, PortInv, Origins, Raws
<1> DEFINE g == listener[p].segment
<1>1. /\ Up(p) /\ listener[p].at = "find"
      /\ g \in TCPHeader /\ InFlight(g) /\ InRaw(p, g)
  BY DEF Finds, TypeOK, InFlight, InRaw
<1>2. \A c \in Call : ~Holds(c, g.destinationPort)
  BY <1>1 DEF RawUnbound
<1>3. ASSUME NEW x \in Process, Answers(x, g.destinationPort)
      PROVE  FALSE
  <2> DEFINE k == listener[x].segment
  <2>1. /\ Up(x) /\ listener[x].at = "reply" /\ x # p
        /\ k \in TCPHeader /\ InFlight(k) /\ k.destinationPort = g.destinationPort
    BY <1>1, <1>3 DEF Answers, TypeOK, InFlight
  <2>2. \A y \in Process : y = p \/ y = x
    BY <2>1 DEF OneClientPerPort
  <2>3. CASE g.destinationPort \in UserPort
    <3>1. PICK a \in Call : Dials(a) /\ g = SynOf(a)
      BY <1>1, <2>3 DEF DialledPorts
    <3>2. PICK b \in Call : Dials(b) /\ k = SynOf(b)
      BY <2>1, <2>3 DEF DialledPorts
    <3>3. /\ a.foreignPort = b.foreignPort
          /\ g.sourcePort = tcb[a].localPort /\ k.sourcePort = tcb[b].localPort
      BY <2>1, <3>1, <3>2 DEF SynOf, constructSendTCPHeader
    <3>4. a = b
      BY <3>1, <3>2, <3>3 DEF OneClientPerPort, Clients, Dials
    <3>5. a.process # p /\ a.process # x
      BY <1>1, <2>1, <3>1, <3>2, <3>3, <3>4 DEF OwnSynFiltered, Sockets, Dials
    <3> QED
      BY <2>2, <3>5, Constants
  <2>4. CASE g.destinationPort \in EphemeralPort
    <3>1. PICK d \in Call : tcb[d].connectionSocket /\ tcb[d].localPort = g.destinationPort
      BY <1>1, <2>4 DEF PortsKnown, Known
    <3>2. Up(d.process)
      BY <1>1, <2>1, <2>2, Constants
    <3> QED
      BY <1>2, <3>1, <3>2 DEF Holds
  <2> QED
    BY <1>1, <2>3, <2>4 DEF Sources
<1> QED
  BY <1>2, <1>3 DEF Bound

\* Before anybody calls open() nothing is in flight, and no block has a socket.
LEMMA InitSurvival ==
    ASSUME Init
    PROVE  SurvivalInv /\ NobodyDies
<1>1. AgreementInv
  BY InitAgreement
<1>2. /\ \A p \in Process : raw[p] = {} /\ listener[p].at = "receive"
      /\ \A c \in Call : /\ udp[c] = {} /\ reader[c].at = "receive"
                         /\ ~tcb[c].connectionSocket
                         /\ c.passive => tcb[c].state = "LISTEN"
  BY IdleTypes DEF Init, newTCB
<1>3. \A h \in TCPHeader : ~InFlight(h) /\ \A p \in Process : ~InRaw(p, h)
  BY <1>2 DEF InFlight, InRaw
<1>4. Origins
  BY <1>2, <1>3 DEF Origins, Sources, DialledPorts, RepliesFit, PeersDialled
<1>5. Raws
  BY <1>2, <1>3, Constants DEF Raws, RawUnbound, SynOnce, ReplyOwed
<1>6. NobodyDies
  BY DEF Init, NobodyDies
<1> QED
  BY <1>1, <1>4, <1>5, <1>6 DEF SurvivalInv

\* One step of any thread, of the user or of the network.
LEMMA SurvivalStep ==
    ASSUME SurvivalInv, NobodyDies, OneClientPerPort, [Next]_vars
    PROVE  SurvivalInv' /\ NobodyDies'
<1>1. AgreementInv'
  BY AgreementStep DEF SurvivalInv
<1>2. PortInv' /\ TypeOK'
  BY <1>1 DEF AgreementInv, PortInv
<1>3. ASSUME NEW p \in Process
      PROVE  ~ClosedTerminates(p) /\ \A c \in Call : ~ListenerAborts(p, c)
  BY FindsListeners, FindsUnbound DEF ClosedTerminates, ListenerAborts
<1>4. (Origins' /\ Raws') /\ NobodyDies'
  <2>1. ASSUME NEW c \in Call, OpenExisting(c) \/ OpenInserts(c) \/ Rekeys(c)
        PROVE  (Origins' /\ Raws') /\ status' = status
    BY <1>2, <2>1, OpenSurvival DEF OpenExisting, OpenInserts, Rekeys
  <2>2. ASSUME NEW c \in Call, NEW q \in EphemeralPort, NEW i \in ISS, SendsSYN(c, q, i)
        PROVE  (Origins' /\ Raws') /\ status' = status
    BY <1>2, <2>2, SendsSYNSurvival DEF SendsSYN
  <2>3. ASSUME NEW c \in Call, NEW h \in udp[c], ReaderReceives(c, h)
        PROVE  (Origins' /\ Raws') /\ status' = status
    BY <1>2, <2>3, ReaderReceivesSurvival DEF ReaderReceives
  <2>4. ASSUME NEW c \in Call, NEW i \in ISS, ReaderHandles(c, i)
        PROVE  (Origins' /\ Raws') /\ status' = status
    BY <1>2, <2>4, ReaderHandlesSurvival DEF ReaderHandles
  <2>5. ASSUME NEW p \in Process,
               \/ \E h \in raw[p] : RawReceives(p, h)
               \/ ClosedIgnores(p) \/ ClosedBinds(p) \/ ClosedReplies(p)
        PROVE  (Origins' /\ Raws') /\ status' = status
    <3>1. status' = status
      BY <2>5 DEF RawReceives, ClosedIgnores, ClosedBinds, ClosedReplies
    <3> QED
      BY <1>2, <2>5, <3>1, ListenerSurvival
  <2>6. ASSUME NEW p \in Process, NEW c \in Call, NEW q \in EphemeralPort, NEW i \in ISS,
               ListenerHandles(p, c, q, i)
        PROVE  (Origins' /\ Raws') /\ status' = status
    BY <1>2, <2>6, ListenerHandlesSurvival DEF ListenerHandles
  <2>7. ASSUME NEW p \in Process, ListenerAnswered(p)
        PROVE  (Origins' /\ Raws') /\ status' = status
    BY <1>2, <2>7, ListenerAnsweredSurvival DEF ListenerAnswered
  <2>8. ASSUME NEW p \in Process, Exits(p)
        PROVE  (Origins' /\ Raws') /\ NobodyDies'
    <3>1. Ends(p, "exited")
      BY <2>8 DEF Exits
    <3>2. NobodyDies'
      BY <3>1 DEF Ends, NobodyDies, SurvivalInv, AgreementInv, PortInv, TypeOK
    <3> QED
      BY <1>2, <3>1, <3>2, EndsSurvival
  <2>9. CASE Loses
    <3>1. status' = status
      BY <2>9 DEF Loses
    <3> QED
      BY <1>2, <2>9, <3>1, EndsSurvival DEF NobodyDies
  <2>10. CASE UNCHANGED vars
    <3> USE <2>10 DEF vars
    <3>1. \A c \in Call : KeepsEnd(c)
      BY DEF KeepsEnd
    <3>2. \A h \in TCPHeader : InFlight(h)' => InFlight(h)
      BY DEF InFlight
    <3>3. \A p \in Process : ListenerGoesOn(p) /\ (Up(p)' => Up(p))
      BY DEF ListenerGoesOn, Up, SurvivalInv, AgreementInv, PortInv, TypeOK
    <3>4. Origins' /\ Raws'
      BY <1>2, <3>1, <3>2, <3>3, QuietStep
    <3> QED
      BY <3>4 DEF NobodyDies
  <2>11. ASSUME status' = status
         PROVE  NobodyDies'
    BY <2>11 DEF NobodyDies
  <2>12. ASSUME NEW c \in Call,
                \/ OpenExisting(c) \/ OpenInserts(c) \/ OpenContinues(c)
                \/ ReaderReads(c) \/ ReaderWorks(c)
         PROVE  (Origins' /\ Raws') /\ NobodyDies'
    BY <2>1, <2>2, <2>3, <2>4, <2>11, <2>12 DEF OpenContinues, ReaderReads, ReaderWorks
  <2>13. ASSUME NEW p \in Process, ListenerReads(p) \/ ListenerWorks(p)
         PROVE  (Origins' /\ Raws') /\ NobodyDies'
    BY <1>3, <2>5, <2>6, <2>7, <2>11, <2>13 DEF ListenerReads, ListenerWorks
  <2> QED
    BY <2>8, <2>9, <2>10, <2>12, <2>13 DEF Next
<1> QED
  BY <1>1, <1>4 DEF SurvivalInv

\* Between two processes whose clients each dial a port of their own no process dies:
\* the listening thread finds every segment's block listening (processRawIPMessage,
\* assert(state == LISTEN)), and the port that it answers for is always free
\* (createUDPSocket), for any ports and numbers, whatever is lost or reordered, and
\* whoever exits.
THEOREM ProcessesSurvive == OneClientPerPort => (Spec => []NobodyDies)
<1> SUFFICES ASSUME OneClientPerPort PROVE Spec => []NobodyDies
  OBVIOUS
<1>1. Init => SurvivalInv /\ NobodyDies
  BY InitSurvival
<1>2. (SurvivalInv /\ NobodyDies) /\ [Next]_vars => (SurvivalInv /\ NobodyDies)'
  BY SurvivalStep
<1> QED
  BY <1>1, <1>2, PTL DEF Spec

=============================================================================
