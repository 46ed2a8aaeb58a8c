---------------------- MODULE SimpleTCP_refinement_proofs ----------------------
(***************************************************************************)
(* SimpleTCP implements Handshake: every step of the threads of all the    *)
(* processes, of the users and of the network is a step of the handshake   *)
(* that the two ends of each connection see, or one they do not see.       *)
(***************************************************************************)
EXTENDS SimpleTCP_agreement_proofs

-----------------------------------------------------------------------------
(***************************************************************************)
(* What the ends see, and the steps of Handshake in those terms.           *)
(***************************************************************************)
JoinedNow(a, b) ==
    /\ AnsweredBy(a, b)
    /\ clientView(a) = "open"
    /\ serverView(b) \in {"answering", "open"}

ClientsStay(a) == \A d \in Clients : d # a => clientView(d)' = clientView(d)

ServersStay(b) == \A d \in Servers : d # b => serverView(d)' = serverView(d)

ViewsStay ==
    /\ \A a \in Clients : clientView(a)' = clientView(a)
    /\ \A b \in Servers : serverView(b)' = serverView(b)

JoinedStay == \A a \in Clients, b \in Servers : JoinedNow(a, b)' <=> JoinedNow(a, b)

\* Nobody sees anything.
LEMMA Unseen ==
    ASSUME ViewsStay, JoinedStay
    PROVE  UNCHANGED TwoEnds!vars
BY DEF ViewsStay, JoinedStay, JoinedNow, TwoEnds!vars, Clients, Servers

\* A client calls, fails, or opens on an answer that was taken back.
LEMMA ClientMoves ==
    ASSUME NEW a \in Clients, ClientsStay(a), JoinedStay,
           \A b \in Servers : serverView(b)' = serverView(b),
           \/ clientView(a) = "closed" /\ clientView(a)' = "calling"
           \/ clientView(a) = "calling" /\ clientView(a)' = "failed"
           \/ clientView(a) = "calling" /\ clientView(a)' = "open" /\ MayExit # {}
    PROVE  TwoEnds!Next
<1>1. TwoEnds!Dial(a) \/ TwoEnds!Fail(a) \/ TwoEnds!AcceptOld(a)
  BY DEF ClientsStay, JoinedStay, JoinedNow, TwoEnds!Dial, TwoEnds!Fail, TwoEnds!AcceptOld
<1> QED
  BY <1>1 DEF TwoEnds!Next

\* A client opens on the answer of b.
LEMMA ClientAccepts ==
    ASSUME NEW a \in Clients, NEW b \in Servers, ClientsStay(a),
           \A d \in Servers : serverView(d)' = serverView(d),
           clientView(a) = "calling" /\ clientView(a)' = "open",
           serverView(b) = "answering",
           \A c \in Clients : ~JoinedNow(c, b),
           \A c \in Clients, d \in Servers :
               JoinedNow(c, d)' <=> JoinedNow(c, d) \/ (c = a /\ d = b)
    PROVE  TwoEnds!Next
<1> DEFINE Joined1 == {p \in Clients \X Servers : JoinedNow(p[1], p[2])}
<1>1. Joined1' = Joined1 \cup {<<a, b>>}
  BY DEF Clients, Servers
<1>2. [c \in Clients |-> clientView(c)]' = [[c \in Clients |-> clientView(c)] EXCEPT ![a] = "open"]
  BY DEF ClientsStay, Clients
<1>3. TwoEnds!Accept(a, b)
  BY <1>1, <1>2 DEF JoinedNow, TwoEnds!Accept
<1> QED
  BY <1>3 DEF TwoEnds!Next

\* A server answers, or opens with the client that is joined to it.
LEMMA ServerMoves ==
    ASSUME NEW b \in Servers, ServersStay(b), JoinedStay,
           \A a \in Clients : clientView(a)' = clientView(a),
           \/ serverView(b) = "listening" /\ serverView(b)' = "answering"
           \/ /\ serverView(b) = "answering" /\ serverView(b)' = "open"
              /\ \E a \in Clients : JoinedNow(a, b)
    PROVE  TwoEnds!Next
<1>1. CASE serverView(b) = "listening" /\ serverView(b)' = "answering"
  <2>1. TwoEnds!Answer(b)
    BY <1>1 DEF ServersStay, JoinedStay, JoinedNow, TwoEnds!Answer
  <2> QED
    BY <2>1 DEF TwoEnds!Next
<1>2. ASSUME NEW a \in Clients, JoinedNow(a, b), serverView(b) = "answering",
             serverView(b)' = "open"
      PROVE  TwoEnds!Next
  <2>1. TwoEnds!Confirm(a, b)
    BY <1>2 DEF ServersStay, JoinedStay, JoinedNow, TwoEnds!Confirm
  <2> QED
    BY <2>1 DEF TwoEnds!Next
<1> QED
  BY <1>1, <1>2

\* A server takes its answer back.
LEMMA ServerTakesBack ==
    ASSUME NEW b \in Servers, ServersStay(b),
           \A a \in Clients : clientView(a)' = clientView(a),
           serverView(b) = "answering", serverView(b)' \in {"listening", "failed"},
           \A a \in Clients, d \in Servers :
               JoinedNow(a, d)' <=> JoinedNow(a, d) /\ d # b
    PROVE  TwoEnds!Next
<1>1. TwoEnds!TakeBack(b, serverView(b)')
  BY DEF ServersStay, JoinedNow, TwoEnds!TakeBack
<1>2. TwoEnds!ListenAgain(b) \/ TwoEnds!Reset(b)
  BY <1>1 DEF TwoEnds!ListenAgain, TwoEnds!Reset
<1> QED
  BY <1>2 DEF TwoEnds!Next

-----------------------------------------------------------------------------
(***************************************************************************)
(* The ends under the invariant.                                           *)
(***************************************************************************)

\* A server that stands by an answer is answering or open, and the client that has its
\* number, and nobody else, is joined to it.
ClientSees(a) ==
    /\ clientView(a) = "open" <=> Opened(a)
    /\ tcb[a].state = "SYN_SENT" => clientView(a) = "calling"
    /\ tcb[a].state = "CLOSED" =>
           clientView(a) = IF tcb[a].connectionSocket THEN "failed" ELSE "closed"

ServerSees(b) ==
    /\ serverView(b) \in {"answering", "open"} <=> Answering(b)
    /\ tcb[b].state = "ESTABLISHED" => serverView(b) = "open"
    /\ Answering(b) /\ tcb[b].state # "ESTABLISHED" => serverView(b) = "answering"
    /\ tcb[b].state = "CLOSED" => serverView(b) = "failed"
    /\ ~Answering(b) /\ tcb[b].state = "LISTEN" => serverView(b) = "listening"

EndsSee ==
    /\ \A a \in Clients : ClientSees(a)
    /\ \A b \in Servers : ServerSees(b)
    /\ \A a \in Clients, b \in Servers :
           JoinedNow(a, b) <=> Opened(a) /\ Answering(b) /\ tcb[a].irs = tcb[b].iss

LEMMA Views == AgreementInv => EndsSee
<1> SUFFICES ASSUME AgreementInv PROVE EndsSee
  OBVIOUS
<1> USE DEF AgreementInv, Connections, Threads, Clients, Servers
<1>1. ASSUME NEW a \in Clients PROVE ClientSees(a)
  BY <1>1 DEF ActiveBlocks, Opened, clientView, ClientSees
<1>2. ASSUME NEW b \in Servers PROVE ServerSees(b)
  <2>1. tcb[b].state \in {"LISTEN", "SYN_RECEIVED", "ESTABLISHED", "CLOSED"}
    BY DEF PassiveBlocks
  <2>2. listener[b.process].at = "answer" /\ listener[b.process].block = b =>
            tcb[b].state = "LISTEN"
    BY Constants DEF AnswerStands
  <2> QED
    BY <2>1, <2>2 DEF Answering, serverView, ServerSees
<1>3. ASSUME NEW a \in Clients, NEW b \in Servers
      PROVE  JoinedNow(a, b) <=> Opened(a) /\ Answering(b) /\ tcb[a].irs = tcb[b].iss
  <2>1. Opened(a) /\ Answering(b) /\ tcb[a].irs = tcb[b].iss => AnsweredBy(a, b)
    BY DEF OpenedBlocks
  <2> QED
    BY <1>1, <1>2, <2>1 DEF JoinedNow, AnsweredBy, ClientSees, ServerSees
<1> QED
  BY <1>1, <1>2, <1>3 DEF EndsSee

\* So a step that changes no view and no number of a connection is not seen.
LEMMA NothingSeen ==
    ASSUME EndsSee, EndsSee', ViewsStay,
           \A a \in Clients : Opened(a) => tcb'[a].irs = tcb[a].irs,
           \A b \in Servers : Answering(b) => tcb'[b].iss = tcb[b].iss
    PROVE  UNCHANGED TwoEnds!vars
<1>1. /\ \A a \in Clients : Opened(a)' <=> Opened(a)
      /\ \A b \in Servers : Answering(b)' <=> Answering(b)
  BY DEF EndsSee, ClientSees, ServerSees, ViewsStay
<1>2. JoinedStay
  BY <1>1 DEF JoinedStay, EndsSee
<1> QED
  BY <1>2, Unseen

\* A block keeps what its end sees.
SameEnd(c) ==
    /\ tcb'[c].state = tcb[c].state
    /\ tcb'[c].iss = tcb[c].iss /\ tcb'[c].irs = tcb[c].irs
    /\ tcb'[c].connectionSocket = tcb[c].connectionSocket

LEMMA SameEnds ==
    ASSUME EndsSee, EndsSee', \A c \in Call : SameEnd(c),
           \A b \in Servers : LET p == b.process
                              IN  listener'[p].at = "answer" /\ listener'[p].block = b <=>
                                      listener[p].at = "answer" /\ listener[p].block = b
    PROVE  UNCHANGED TwoEnds!vars
<1>1. ViewsStay
  BY DEF ViewsStay, SameEnd, clientView, serverView, Clients, Servers
<1> QED
  BY <1>1, NothingSeen DEF SameEnd, Clients, Servers

\* The invariant lets the ends see that, before and after every step.
LEMMA ViewsNext ==
    AgreementInv /\ [Next]_vars => AgreementInv' /\ EndsSee /\ EndsSee'
<1>1. AgreementInv /\ [Next]_vars => AgreementInv'
  BY AgreementStep
<1>2. AgreementInv' => EndsSee'
  BY Views, PTL
<1> QED
  BY <1>1, <1>2, Views

-----------------------------------------------------------------------------
(***************************************************************************)
(* Answers that nobody takes back.  Where no process exits and each        *)
(* listener has one client, nothing but that client's ACK ever goes to a   *)
(* listener that has answered, and so each SYN,ACK on its way has a        *)
(* listener that stands by it.                                             *)
(***************************************************************************)

AnswersStand ==
    \A h \in TCPHeader : InFlight(h) /\ h.control = {"SYN", "ACK"} =>
        \E b \in Servers : Answering(b) /\ tcb[b].iss = h.sequenceNumber

OnlyAcksReturn ==
    /\ \A h \in TCPHeader : InFlight(h) /\ AnswersFrom(h.destinationPort) =>
           h.control = {"ACK"}
    /\ \A b \in Servers : tcb[b].connectionSocket => ~AnswersFrom(tcb[b].foreignPort)

KeptInv == SurvivalInv /\ (\A p \in Process : Up(p)) /\ OnlyAcksReturn /\ AnswersStand

\* A listener keeps its ports, and the answer that it has given.
KeepsAnswer(b) ==
    /\ tcb'[b].connectionSocket = tcb[b].connectionSocket
    /\ tcb'[b].localPort = tcb[b].localPort /\ tcb'[b].foreignPort = tcb[b].foreignPort
    /\ Answering(b) => Answering(b)' /\ tcb'[b].iss = tcb[b].iss

\* A step that lets every listener do so and sends no other answer.
LEMMA KeptStep ==
    ASSUME OnlyAcksReturn, AnswersStand, \A b \in Servers : KeepsAnswer(b),
           \A h \in TCPHeader : InFlight(h)' =>
               \/ InFlight(h)
               \/ /\ h.control # {"SYN", "ACK"}
                  /\ h.control = {"ACK"} \/ ~AnswersFrom(h.destinationPort)
    PROVE  OnlyAcksReturn' /\ AnswersStand'
<1>1. \A q : AnswersFrom(q)' <=> AnswersFrom(q)
  BY DEF AnswersFrom, KeepsAnswer, Servers
<1>2. OnlyAcksReturn'
  BY <1>1 DEF OnlyAcksReturn, KeepsAnswer, Servers
<1>3. AnswersStand'
  BY DEF AnswersStand, KeepsAnswer, Servers
<1> QED
  BY <1>2, <1>3

\* What a listening thread reads is the SYN of a client, and what it replies to that
\* does not go to a listener.
LEMMA HeardAreSYNs ==
    ASSUME KeptInv, NEW p \in Process, NEW h \in TCPHeader, InRaw(p, h)
    PROVE  \E a \in Call : Dials(a) /\ h = SynOf(a) /\ h.sourcePort = tcb[a].localPort
                           /\ ~AnswersFrom(h.sourcePort)
<1> USE DEF KeptInv, SurvivalInv, AgreementInv, PortInv, Origins, Raws
<1>1. InFlight(h)
  BY DEF InRaw, InFlight
<1>2. h.destinationPort \in UserPort
  <2>1. SUFFICES ASSUME h.destinationPort \in EphemeralPort PROVE FALSE
    BY <1>1 DEF Sources
  <2>2. PICK d \in Call : tcb[d].connectionSocket /\ tcb[d].localPort = h.destinationPort
    BY <1>1, <2>1 DEF PortsKnown, Known
  <2>3. Holds(d, h.destinationPort)
    BY <2>2, Constants DEF Holds
  <2> QED
    BY <2>3 DEF RawUnbound
<1>3. PICK a \in Call : Dials(a) /\ h = SynOf(a)
  BY <1>1, <1>2 DEF DialledPorts
<1>4. h.sourcePort = tcb[a].localPort
  BY <1>3 DEF SynOf, constructSendTCPHeader
<1>5. ~AnswersFrom(tcb[a].localPort)
  BY <1>3 DEF AnswersFrom, Dials, PortsDiffer
<1> QED
  BY <1>3, <1>4, <1>5


\* Steps that no end sees: opening a block, reading a segment, answering for a closed
\* port, and what the network loses.
Reading ==
    \/ \E c \in Call : OpenExisting(c) \/ OpenInserts(c) \/ Rekeys(c) \/ ReaderReads(c)
    \/ \E p \in Process : \/ ListenerReads(p)
                          \/ ClosedIgnores(p) \/ ClosedBinds(p) \/ ClosedReplies(p)
    \/ Loses \/ UNCHANGED vars

\* They change no block but for its thread, and no answer.
LEMMA ReadingStep ==
    ASSUME PortInv, Reading
    PROVE  /\ \A d \in Call : SameConnection(d)
           /\ \A b \in Servers : Answering(b)' <=> Answering(b)
           /\ \A x \in Process : \/ listener'[x] = listener[x]
                                \/ /\ listener[x].at # "answer"
                                   /\ listener'[x].at # "answer"
<1>1. tcb' = tcb \/ \E c \in Call : tcb' = [tcb EXCEPT ![c].threadLaunched = TRUE]
  BY Zenon
  DEF Reading, OpenExisting, OpenInserts, Rekeys, ReaderReads, ReaderReceives,
         ListenerReads, RawReceives, ClosedIgnores, ClosedBinds, ClosedReplies, Loses, vars
<1>2. tcb \in [Call -> TransmissionControlBlock]
  BY DEF PortInv, TypeOK
<1>3. \A d \in Call : SameConnection(d)
  <2> TAKE d \in Call
  <2>1. \/ tcb'[d] = tcb[d]
        \/ tcb'[d] = [tcb[d] EXCEPT !.threadLaunched = TRUE]
    BY <1>1, <1>2
  <2>2. tcb[d] \in TransmissionControlBlock
    BY <1>2
  <2> QED
    BY <2>1, <2>2 DEF SameConnection, TransmissionControlBlock
<1>4. \A x \in Process : \/ listener'[x] = listener[x]
                         \/ /\ listener[x].at # "answer"
                            /\ listener'[x].at # "answer"
  <2>1. ASSUME NEW p \in Process, NEW h \in raw[p], RawReceives(p, h)
        PROVE  \A x \in Process : \/ listener'[x] = listener[x]
                                  \/ listener[x].at # "answer" /\ listener'[x].at # "answer"
    <3>1. /\ \A x \in Process : x # p => listener'[x] = listener[x]
          /\ listener'[p].at \in {"receive", "find"} /\ listener[p].at = "receive"
      BY <2>1, RawReceived DEF RawReceives, PortInv
    <3> QED
      BY <3>1
  <2>2. ASSUME NEW p \in Process, ClosedIgnores(p) \/ ClosedBinds(p) \/ ClosedReplies(p)
        PROVE  \A x \in Process : \/ listener'[x] = listener[x]
                                  \/ listener[x].at # "answer" /\ listener'[x].at # "answer"
    <3>1. listener \in [Process -> [at      : {"receive", "find", "reply", "answer"},
                                    segment : TCPHeader, block : Call \cup {NoTCB}]]
      BY DEF PortInv, TypeOK
    <3>2. /\ \A x \in Process : x # p => listener'[x] = listener[x]
          /\ listener[p].at \in {"find", "reply"} /\ listener'[p].at \in {"receive", "reply"}
      BY <2>2, <3>1, IdleTypes DEF ClosedIgnores, ClosedBinds, ClosedReplies, Finds
    <3> QED
      BY <3>2
  <2>3. ASSUME \/ \E c \in Call : \/ OpenExisting(c) \/ OpenInserts(c) \/ Rekeys(c)
                                  \/ ReaderReads(c)
               \/ Loses \/ UNCHANGED vars
        PROVE  listener' = listener
    BY <2>3 DEF OpenExisting, OpenInserts, Rekeys, ReaderReads, ReaderReceives, Loses, vars
  <2> QED
    BY <2>1, <2>2, <2>3 DEF Reading, ListenerReads
<1>5. \A b \in Servers : Answering(b)' <=> Answering(b)
  <2> TAKE b \in Servers
  <2>1. tcb'[b].state = tcb[b].state
    BY <1>3 DEF SameConnection, Servers
  <2>2. listener'[b.process].at = "answer" /\ listener'[b.process].block = b <=>
            listener[b.process].at = "answer" /\ listener[b.process].block = b
    BY <1>4, Constants DEF Servers
  <2> QED
    BY <2>1, <2>2 DEF Answering
<1> QED
  BY <1>3, <1>4, <1>5, Zenon

\* The reset for a closed port is the only segment they send.
LEMMA ReadingFlights ==
    ASSUME PortInv, Reading
    PROVE  \A h \in TCPHeader : InFlight(h)' =>
               \/ InFlight(h)
               \/ \E p \in Process : /\ listener[p].at = "reply"
                                     /\ h = closedReply(listener[p].segment)
<1> USE DEF PortInv
<1>1. ASSUME NEW p \in Process, ClosedReplies(p), NEW h \in TCPHeader, InFlight(h)'
      PROVE  InFlight(h) \/ (listener[p].at = "reply" /\ h = closedReply(listener[p].segment))
  <2> DEFINE k == closedReply(listener[p].segment)
             S == {k}
  <2>1. listener[p].at = "reply" /\ k \in TCPHeader
    BY <1>1, ClosedReply DEF ClosedReplies, TypeOK
  <2> HIDE DEF k
  <2>2. S \in SUBSET TCPHeader /\ Transmit(S)
    BY <1>1, <2>1 DEF ClosedReplies, k
  <2> HIDE DEF S
  <2>3. /\ \A x \in Process : \A g \in raw'[x] : g \in raw[x] \/ g \in S
        /\ \A c \in Call : \A g \in udp'[c] : g \in udp[c] \/ g \in S
    BY <2>2, Transmitted
  <2>4. /\ \A x \in Process : listener'[x] = listener[x] \/ listener'[x].at = "receive"
        /\ reader' = reader
    BY <1>1, IdleTypes DEF ClosedReplies, TypeOK
  <2>5. InFlight(h) \/ h \in S
    BY <1>1, <2>3, <2>4 DEF InFlight
  <2> QED
    BY <2>1, <2>5 DEF S, k
<1>2. ASSUME NEW p \in Process, ClosedIgnores(p) \/ ClosedBinds(p), NEW h \in TCPHeader,
             InFlight(h)'
      PROVE  InFlight(h)
  <2>1. raw' = raw /\ udp' = udp /\ reader' = reader
    BY <1>2 DEF ClosedIgnores, ClosedBinds
  <2>2. ASSUME NEW x \in Process, listener'[x].at # "receive"
        PROVE  listener[x].at # "receive" /\ listener'[x].segment = listener[x].segment
    <3>1. \/ listener'[x] = listener[x]
          \/ /\ listener[x].at = "find"
             /\ listener'[x] = [listener[x] EXCEPT !.at = "reply"]
      BY <1>2, <2>2, IdleTypes DEF ClosedIgnores, ClosedBinds, Finds, TypeOK
    <3> QED
      BY <2>2, <3>1 DEF TypeOK
  <2> QED
    BY <1>2, <2>1, <2>2 DEF InFlight
<1>3. ASSUME NEW p \in Process, NEW g \in raw[p], RawReceives(p, g),
             NEW h \in TCPHeader, InFlight(h)'
      PROVE  InFlight(h)
  <2>1. udp' = udp /\ reader' = reader /\ \A x \in Process : raw'[x] \subseteq raw[x]
    BY <1>3, RawReceived DEF RawReceives
  <2>2. /\ \A x \in Process : x # p => listener'[x] = listener[x]
        /\ listener'[p].at = "receive" \/ listener'[p].segment = g
    BY <1>3, RawReceived DEF RawReceives
  <2> QED
    BY <1>3, <2>1, <2>2 DEF InFlight
<1>4. ASSUME NEW c \in Call, NEW g \in udp[c], ReaderReceives(c, g),
             NEW h \in TCPHeader, InFlight(h)'
      PROVE  InFlight(h)
  <2>1. /\ raw' = raw /\ listener' = listener
        /\ \A d \in Call : udp'[d] \subseteq udp[d]
        /\ \A d \in Call : reader'[d] = reader[d] \/ (d = c /\ reader'[d].segment = g)
    BY <1>4, LeftOver DEF ReaderReceives, TypeOK
  <2> QED
    BY <1>4, <2>1 DEF InFlight
<1>5. ASSUME Loses, NEW h \in TCPHeader, InFlight(h)'
      PROVE  InFlight(h)
  <2>1. raw \in [Process -> SUBSET TCPHeader] /\ udp \in [Call -> SUBSET TCPHeader]
    BY DEF TypeOK
  <2>2. /\ \A p \in Process : raw'[p] \subseteq raw[p]
        /\ \A d \in Call : udp'[d] \subseteq udp[d]
    <3>1. CASE udp' = udp /\ \E p \in Process : \E g : raw' = [raw EXCEPT ![p] = @ \ {g}]
      BY <2>1, <3>1
    <3>2. CASE raw' = raw /\ \E c \in Call : \E g : udp' = [udp EXCEPT ![c] = @ \ {g}]
      BY <2>1, <3>2
    <3> QED
      BY <1>5, <3>1, <3>2 DEF Loses
  <2>3. listener' = listener /\ reader' = reader
    BY <1>5 DEF Loses
  <2> QED
    BY <1>5, <2>2, <2>3 DEF InFlight
<1>6. ASSUME \/ \E c \in Call : OpenExisting(c) \/ OpenInserts(c) \/ Rekeys(c)
             \/ UNCHANGED vars,
             NEW h \in TCPHeader, InFlight(h)'
      PROVE  InFlight(h)
  BY <1>6 DEF OpenExisting, OpenInserts, Rekeys, vars, InFlight
<1> QED
  BY <1>1, <1>2, <1>3, <1>4, <1>5, <1>6 DEF Reading, ReaderReads, ListenerReads

LEMMA ReadingKept ==
    ASSUME KeptInv, Reading
    PROVE  OnlyAcksReturn' /\ AnswersStand'
<1> USE DEF KeptInv, SurvivalInv, AgreementInv, PortInv
<1>1. \A b \in Servers : KeepsAnswer(b)
  BY ReadingStep DEF KeepsAnswer, SameConnection, Servers
<1>2. ASSUME NEW p \in Process, listener[p].at = "reply"
      PROVE  LET k == closedReply(listener[p].segment)
             IN  k.control # {"SYN", "ACK"} /\ ~AnswersFrom(k.destinationPort)
  <2> DEFINE g == listener[p].segment
  <2>1. g \in TCPHeader /\ InRaw(p, g)
    BY <1>2 DEF InRaw, TypeOK
  <2>2. "RST" \in closedReply(g).control /\ closedReply(g).destinationPort = g.sourcePort
    BY <2>1, ClosedReply
  <2>3. ~AnswersFrom(g.sourcePort)
    BY <2>1, HeardAreSYNs
  <2> QED
    BY <2>2, <2>3
<1> QED
  BY <1>1, <1>2, ReadingFlights, KeptStep


\* sendSYNMessage: the SYN goes to a port that no listener answers from.
LEMMA SendsSYNKept ==
    ASSUME KeptInv, NEW c \in Call, NEW q \in EphemeralPort, NEW i \in ISS, SendsSYN(c, q, i)
    PROVE  OnlyAcksReturn' /\ AnswersStand'
<1> USE DEF KeptInv, SurvivalInv, AgreementInv, PortInv
<1> DEFINE e == sendSYN(tcb[c], q, c.foreignPort, i)
<1>1. /\ opening[c] = "syn" /\ Apply(c, e, i)
      /\ UNCHANGED <<status, tcbMap, listener, reader>>
  BY DEF SendsSYN
<1>2. ~c.passive /\ tcb[c] \in TransmissionControlBlock /\ c.foreignPort \in UserPort
  BY <1>1, Constants DEF Blocks, TypeOK
<1>3. /\ e \in Effect
      /\ \A k \in e.out : k.control = {"SYN"} /\ k.destinationPort = c.foreignPort
  <2>1. e.out = {[constructSendTCPHeader(q, c.foreignPort) EXCEPT
                      !.sequenceNumber = i, !.control = {"SYN"}]}
    BY DEF sendSYN, Sends
  <2>2. \A k \in e.out : k.control = {"SYN"} /\ k.destinationPort = c.foreignPort
    BY <2>1 DEF constructSendTCPHeader
  <2> QED
    BY <1>2, <2>2, Constants, SendSYNType
<1> HIDE DEF e
<1>4. /\ \A d \in Call : d # c => tcb'[d] = tcb[d]
      /\ e.out \in SUBSET TCPHeader /\ Transmit(e.out)
  BY <1>1, <1>3, Applied
<1>5. \A h \in TCPHeader : InFlight(h)' => InFlight(h) \/ h \in e.out
  <2>1. /\ \A x \in Process : \A h \in raw'[x] : h \in raw[x] \/ h \in e.out
        /\ \A d \in Call : \A h \in udp'[d] : h \in udp[d] \/ h \in e.out
    BY <1>4, Transmitted
  <2> QED
    BY <1>1, <2>1 DEF InFlight
<1>6. \A k \in e.out : k.control # {"SYN", "ACK"} /\ ~AnswersFrom(k.destinationPort)
  BY <1>2, <1>3, Constants DEF AnswersFrom, Blocks
<1>7. \A b \in Servers : KeepsAnswer(b)
  BY <1>1, <1>2, <1>4 DEF KeepsAnswer, Answering, Servers
<1> QED
  BY <1>5, <1>6, <1>7, KeptStep

\* processListeningSocketMessage: a listener answers from a port that nobody has sent
\* to, and its answer goes to a client.
LEMMA ListenerHandlesKept ==
    ASSUME KeptInv, NEW p \in Process, NEW c \in Call,
           NEW q \in EphemeralPort, NEW i \in ISS, ListenerHandles(p, c, q, i)
    PROVE  OnlyAcksReturn' /\ AnswersStand'
<1> USE DEF KeptInv, SurvivalInv, AgreementInv, PortInv
<1> DEFINE h == listener[p].segment
           t == tcb[c]
           e == processListeningSocketMessage(t, h, q, i)
<1>1. /\ Finds(p, c) /\ t.state = "LISTEN" /\ listener[p].at = "find"
      /\ Unused(q) \/ t.connectionSocket
      /\ Apply(c, e, i)
      /\ listener' = [listener EXCEPT ![p] =
             IF AnswersSYN(h) THEN [@ EXCEPT !.at = "answer", !.block = c]
                              ELSE ListenerIdle]
      /\ UNCHANGED <<status, opening, tcbMap, reader>>
  BY DEF ListenerHandles, Finds
<1>2. /\ c.process = p /\ c.passive /\ h \in TCPHeader /\ InRaw(p, h)
      /\ t \in TransmissionControlBlock /\ h.destinationPort = c.localPort
  BY <1>1, Found DEF TypeOK, InRaw
<1>3. PICK a \in Call : /\ Dials(a) /\ h = SynOf(a) /\ h.sourcePort = tcb[a].localPort
                       /\ ~AnswersFrom(h.sourcePort)
  BY <1>2, HeardAreSYNs
<1>4. AnswersSYN(h)
  BY <1>3 DEF SynOf, constructSendTCPHeader, AnswersSYN
<1>5. ~t.connectionSocket /\ Unused(q)
  BY <1>1, <1>2 DEF SynOnce, Raws
<1>6. /\ e \in Effect /\ e.tcb.connectionSocket /\ e.tcb.iss = i
      /\ e.tcb.localPort = q /\ e.tcb.foreignPort = h.sourcePort
      /\ \A k \in e.out : /\ k.control = {"SYN", "ACK"} /\ k.sequenceNumber = i
                          /\ k.destinationPort = h.sourcePort
  <2>1. e \in Effect /\ e.tcb.connectionSocket /\ e.tcb.foreignPort = h.sourcePort
    BY <1>2, <1>4, Constants, ListenEffect
  <2>2. e.tcb.localPort = q /\ FromTo(e)
    BY <1>2, <1>5, <2>1, Constants, ListenPorts
  <2>3. e.tcb.iss = i /\ \A k \in e.out : k.control = {"SYN", "ACK"} /\ k.sequenceNumber = i
    BY <1>2, <1>4, Constants, ListenStep
  <2> HIDE DEF e, h
  <2> QED
    BY <2>1, <2>2, <2>3 DEF FromTo
<1> HIDE DEF e
<1>7. /\ tcb'[c] = e.tcb
      /\ \A d \in Call : d # c => tcb'[d] = tcb[d]
      /\ e.out \in SUBSET TCPHeader /\ Transmit(e.out)
  BY <1>1, <1>6, Applied
<1>8. /\ listener'[p].at = "answer" /\ listener'[p].segment = h /\ listener'[p].block = c
      /\ \A x \in Process : x # p => listener'[x] = listener[x]
  <2>1. listener[p] \in [at      : {"receive", "find", "reply", "answer"},
                         segment : TCPHeader, block : Call \cup {NoTCB}]
    BY DEF TypeOK
  <2> DEFINE l == [listener[p] EXCEPT !.at = "answer", !.block = c]
  <2>2. l.at = "answer" /\ l.segment = listener[p].segment /\ l.block = c
    BY <2>1
  <2>3. listener'[p] = l /\ \A x \in Process : x # p => listener'[x] = listener[x]
    BY <1>1, <1>4 DEF TypeOK
  <2> HIDE DEF l
  <2> QED
    BY <2>2, <2>3
<1> HIDE DEF h, t
<1>9. \A k \in TCPHeader : InFlight(k)' => InFlight(k) \/ k \in e.out
  <2>1. /\ \A x \in Process : \A k \in raw'[x] : k \in raw[x] \/ k \in e.out
        /\ \A d \in Call : \A k \in udp'[d] : k \in udp[d] \/ k \in e.out
    BY <1>7, Transmitted
  <2> QED
    BY <1>1, <1>2, <1>8, <2>1 DEF InFlight, h
<1>10. \A r : AnswersFrom(r)' <=> AnswersFrom(r) \/ r = q
  BY <1>2, <1>5, <1>6, <1>7 DEF AnswersFrom, t
<1>11. \A k \in TCPHeader : InFlight(k) => k.destinationPort # q
  BY <1>5, UnusedUnseen
<1>12. h.sourcePort # q /\ ~AnswersFrom(h.sourcePort)
  BY <1>3, <1>5 DEF Unused, Dials
<1>13. \A b \in Servers : tcb[b].connectionSocket => tcb[b].foreignPort # q
  <2>1. ~Known(q)
    BY <1>5 DEF Known, Unused
  <2> QED
    BY <2>1 DEF PortsKnown, Servers
<1>14. OnlyAcksReturn'
  <2>1. \A k \in TCPHeader : InFlight(k)' /\ AnswersFrom(k.destinationPort)' =>
            k.control = {"ACK"}
    BY <1>6, <1>9, <1>10, <1>11, <1>12 DEF OnlyAcksReturn
  <2>2. ASSUME NEW b \in Servers, tcb'[b].connectionSocket, NEW r, r = tcb'[b].foreignPort
        PROVE  ~AnswersFrom(r)'
    <3>1. CASE b = c
      BY <1>6, <1>7, <1>10, <1>12, <2>2, <3>1
    <3>2. CASE b # c
      <4>1. b \in Call /\ tcb'[b] = tcb[b]
        BY <1>7, <3>2 DEF Servers
      <4>2. r # q /\ ~AnswersFrom(r)
        BY <1>13, <2>2, <4>1 DEF OnlyAcksReturn
      <4> QED
        BY <1>10, <4>2
    <3> QED
      BY <3>1, <3>2
  <2> QED
    BY <2>1, <2>2 DEF OnlyAcksReturn, AnswersFrom
<1>15. AnswersStand'
  <2>1. ASSUME NEW k \in TCPHeader, InFlight(k), k.control = {"SYN", "ACK"}
        PROVE  \E b \in Servers : Answering(b)' /\ tcb'[b].iss = k.sequenceNumber
    <3>1. PICK b \in Servers : Answering(b) /\ tcb[b].iss = k.sequenceNumber
      BY <2>1 DEF AnswersStand
    <3>2. b # c
      BY <1>5, <3>1 DEF Connections, PassiveBlocks, Servers, t
    <3>3. tcb'[b] = tcb[b] /\ Answering(b)'
      BY <1>1, <1>2, <1>7, <1>8, <3>1, <3>2, Constants DEF Answering, Servers
    <3> QED
      BY <3>1, <3>3
  <2>2. c \in Servers /\ Answering(c)' /\ tcb'[c].iss = i
    BY <1>2, <1>6, <1>7, <1>8 DEF Answering, Servers
  <2> QED
    BY <1>6, <1>9, <2>1, <2>2 DEF AnswersStand
<1> QED
  BY <1>14, <1>15

\* The rest of sendSYNACK.
LEMMA ListenerAnsweredKept ==
    ASSUME KeptInv, NEW p \in Process, ListenerAnswered(p)
    PROVE  OnlyAcksReturn' /\ AnswersStand'
<1> USE DEF KeptInv, SurvivalInv, AgreementInv, PortInv
<1> PICK c \in Servers : c = listener[p].block
  BY DEF ListenerAnswered, AnswerOwned, Servers
<1> DEFINE u == synAckDone(tcb[c])
<1>1. /\ c.process = p /\ tcb[c] \in TransmissionControlBlock
      /\ UNCHANGED <<raw, udp, reader>>
  BY DEF ListenerAnswered, AnswerOwned, TypeOK, Servers
<1>2. /\ u \in TransmissionControlBlock /\ u.state = "SYN_RECEIVED"
      /\ u.iss = tcb[c].iss /\ u.connectionSocket = tcb[c].connectionSocket
      /\ u.localPort = tcb[c].localPort /\ u.foreignPort = tcb[c].foreignPort
  BY <1>1, SynAckDoneType DEF synAckDone, TransmissionControlBlock
<1> HIDE DEF u
<1>3. /\ tcb'[c] = [u EXCEPT !.threadLaunched = TRUE]
      /\ \A d \in Call : d # c => tcb'[d] = tcb[d]
      /\ \A x \in Process : x # p => listener'[x] = listener[x]
      /\ listener'[p].at = "receive"
  BY IdleTypes DEF ListenerAnswered, TypeOK, Servers, u
<1>4. KeepsAnswer(c)
  <2>1. /\ tcb'[c].state = "SYN_RECEIVED" /\ tcb'[c].iss = tcb[c].iss
        /\ tcb'[c].connectionSocket = tcb[c].connectionSocket
        /\ tcb'[c].localPort = tcb[c].localPort /\ tcb'[c].foreignPort = tcb[c].foreignPort
    BY <1>2, <1>3 DEF TransmissionControlBlock
  <2> QED
    BY <2>1 DEF KeepsAnswer, Answering
<1>5. ASSUME NEW b \in Servers, b # c
      PROVE  KeepsAnswer(b)
  BY <1>3, <1>5, Constants DEF KeepsAnswer, Answering, Servers
<1>6. \A h \in TCPHeader : InFlight(h)' => InFlight(h)
  BY <1>1, <1>3 DEF InFlight
<1> QED
  BY <1>4, <1>5, <1>6, KeptStep

\* processUDPMessage: a listener that has answered gets nothing but the ACK.
LEMMA ReaderHandlesKept ==
    ASSUME KeptInv, NEW c \in Call, NEW i \in ISS, ReaderHandles(c, i)
    PROVE  OnlyAcksReturn' /\ AnswersStand'
<1> USE DEF KeptInv, SurvivalInv, AgreementInv, PortInv
<1> DEFINE h == reader[c].segment
           t == tcb[c]
           e == processUDPMessage(t, reader[c].state, h, i)
<1>1. /\ reader[c].at = "handle" /\ Apply(c, e, i)
      /\ reader' = [reader EXCEPT ![c] = ReaderIdle]
      /\ UNCHANGED <<status, opening, tcbMap, listener>>
  BY DEF ReaderHandles
<1>2. /\ t \in TransmissionControlBlock /\ t.connectionSocket /\ t.passive = c.passive
      /\ h \in TCPHeader /\ InFlight(h) /\ h.destinationPort = t.localPort
  BY <1>1, ReaderStep DEF Blocks
<1>3. /\ e \in Effect
      /\ \A k \in e.out :
             \/ k.control = {"RST"} /\ k.destinationPort = t.foreignPort /\ c.passive
             \/ k.control = {"ACK"}
  BY <1>1, ReaderSends
<1>4. ASSUME c.passive
      PROVE  e.tcb = t \/ e.tcb = [t EXCEPT !.state = "ESTABLISHED"]
  <2>1. h.control = {"ACK"}
    BY <1>2, <1>4 DEF OnlyAcksReturn, AnswersFrom
  <2>2. reader[c].state # "SYN_SENT"
    BY <1>1, <1>4 DEF Connections, PassiveBlocks, Threads, CopyHolds
  <2>3. CASE reader[c].state = "SYN_RECEIVED"
    <3>1. \/ e = sendRST(t, h)
          \/ e = MovesTo(t, "ESTABLISHED")
      BY <2>1, <2>3 DEF processUDPMessage, processSynReceivedSocketMessage
    <3> HIDE DEF t, h, e
    <3> QED
      BY <3>1 DEF sendRST, MovesTo, Ignores, Sends
  <2>4. CASE reader[c].state \notin {"SYN_SENT", "SYN_RECEIVED"}
    BY <2>4, OtherStep
  <2> QED
    BY <2>2, <2>3, <2>4
<1> HIDE DEF e
<1>5. /\ tcb'[c] = e.tcb /\ \A d \in Call : d # c => tcb'[d] = tcb[d]
      /\ e.out \in SUBSET TCPHeader /\ Transmit(e.out)
  BY <1>1, <1>3, Applied
<1>6. /\ \A x \in Process : \A k \in raw'[x] : k \in raw[x] \/ k \in e.out
      /\ \A d \in Call : \A k \in udp'[d] : k \in udp[d] \/ k \in e.out
  BY <1>5, Transmitted
<1>7. \A d \in Call : reader'[d].at = "handle" => reader'[d] = reader[d]
  BY <1>1, IdleTypes DEF TypeOK
<1>8. \A k \in TCPHeader : InFlight(k)' => InFlight(k) \/ k \in e.out
  BY <1>1, <1>6, <1>7 DEF InFlight
<1>9. \A k \in e.out : /\ k.control # {"SYN", "ACK"}
                       /\ k.control = {"ACK"} \/ ~AnswersFrom(k.destinationPort)
  BY <1>2, <1>3 DEF OnlyAcksReturn, Servers
<1> HIDE DEF h
<1>10. \A b \in Servers : KeepsAnswer(b)
  <2>1. ASSUME c.passive
        PROVE  KeepsAnswer(c)
    <3>1. /\ tcb'[c].connectionSocket = t.connectionSocket /\ tcb'[c].iss = t.iss
          /\ tcb'[c].localPort = t.localPort /\ tcb'[c].foreignPort = t.foreignPort
          /\ tcb'[c].state \in {t.state, "ESTABLISHED"}
      <4>1. tcb'[c] = t \/ tcb'[c] = [t EXCEPT !.state = "ESTABLISHED"]
        BY <1>4, <1>5, <2>1
      <4>2. t \in TransmissionControlBlock
        BY <1>2
      <4> HIDE DEF t
      <4> QED
        BY <4>1, <4>2 DEF TransmissionControlBlock
    <3> QED
      BY <1>1, <3>1 DEF KeepsAnswer, Answering
  <2>2. ASSUME NEW b \in Servers, b # c
        PROVE  KeepsAnswer(b)
    BY <1>1, <1>5, <2>2 DEF KeepsAnswer, Answering, Servers
  <2> QED
    BY <2>1, <2>2 DEF Servers
<1> QED
  BY <1>8, <1>9, <1>10, KeptStep

-----------------------------------------------------------------------------
(***************************************************************************)
(* The actions.                                                            *)
(***************************************************************************)
Seen == [TwoEnds!Next]_(TwoEnds!vars)

\* A block that stood by an answer and does not any more has taken it back.
LEMMA TakesBack ==
    ASSUME EndsSee, EndsSee', NEW b \in Servers,
           Answering(b), tcb[b].state # "ESTABLISHED",
           ~Answering(b)', tcb'[b].state \in {"LISTEN", "CLOSED"},
           \A a \in Clients : tcb'[a] = tcb[a],
           \A d \in Servers : d # b =>
               /\ tcb'[d] = tcb[d]
               /\ \/ listener'[d.process] = listener[d.process]
                  \/ /\ listener'[d.process].at = "receive"
                     /\ listener[d.process].block # d
    PROVE  TwoEnds!Next
<1>1. /\ serverView(b) = "answering"
      /\ serverView(b)' \in {"listening", "failed"}
  BY DEF EndsSee, ServerSees
<1>2. \A a \in Clients : clientView(a)' = clientView(a) /\ (Opened(a)' <=> Opened(a))
  BY DEF clientView, Clients, Opened
<1>3. \A d \in Servers : d # b =>
          serverView(d)' = serverView(d) /\ (Answering(d)' <=> Answering(d))
  BY DEF serverView, Servers, Answering
<1>4. \A a \in Clients, d \in Servers :
          JoinedNow(a, d)' <=> JoinedNow(a, d) /\ d # b
  BY <1>2, <1>3 DEF EndsSee
<1> QED
  BY <1>1, <1>2, <1>3, <1>4, ServerTakesBack DEF ServersStay

\* A process that ends between the two halves of sendSYNACK takes its answer back.
LEMMA EndsSeen ==
    ASSUME AgreementInv, EndsSee, EndsSee', NEW p \in Process,
           NEW how \in {"aborted", "terminated", "exited"}, Ends(p, how)
    PROVE  Seen
<1>1. /\ tcb' = tcb /\ listener'[p].at = "receive"
      /\ \A x \in Process : x # p => listener'[x] = listener[x]
  BY IdleTypes DEF AgreementInv, PortInv, TypeOK, Ends
<1>2. CASE listener[p].at = "answer"
  <2> PICK b \in Servers : b = listener[p].block
    BY <1>2 DEF AgreementInv, PortInv, AnswerOwned, Servers
  <2>1. b.process = p /\ tcb[b].state = "LISTEN"
    BY <1>2 DEF AgreementInv, PortInv, Threads, AnswerOwned, AnswerStands
  <2>2. Answering(b) /\ ~Answering(b)'
    BY <1>1, <1>2, <2>1 DEF Answering, Servers
  <2>3. \A d \in Servers : d # b =>
            \/ listener'[d.process] = listener[d.process]
            \/ /\ listener'[d.process].at = "receive"
               /\ listener[d.process].block # d
    BY <1>1, Constants DEF Servers
  <2>4. /\ \A d \in Call : tcb'[d] = tcb[d]
        /\ tcb[b].state # "ESTABLISHED" /\ tcb'[b].state \in {"LISTEN", "CLOSED"}
    BY <1>1, <2>1
  <2>5. TwoEnds!Next
    BY <2>2, <2>3, <2>4, TakesBack DEF Clients, Servers
  <2> QED
    BY <2>5 DEF Seen
<1>3. CASE listener[p].at # "answer"
  <2>1. \A b \in Servers : LET x == b.process
                           IN  listener'[x].at = "answer" /\ listener'[x].block = b <=>
                                   listener[x].at = "answer" /\ listener[x].block = b
    BY <1>1, <1>3, Constants DEF Servers
  <2>2. \A c \in Call : SameEnd(c)
    BY <1>1 DEF SameEnd
  <2> QED
    BY <2>1, <2>2, SameEnds DEF Seen
<1> QED
  BY <1>2, <1>3

LEMMA ReadingSeen ==
    ASSUME AgreementInv, EndsSee, EndsSee', Reading
    PROVE  Seen
<1>1. /\ \A d \in Call : SameConnection(d)
      /\ \A x \in Process : \/ listener'[x] = listener[x]
                           \/ /\ listener[x].at # "answer"
                              /\ listener'[x].at # "answer"
  BY ReadingStep DEF AgreementInv
<1>2. \A d \in Call : SameEnd(d)
  BY <1>1 DEF SameEnd, SameConnection
<1>3. \A b \in Servers : LET x == b.process
                         IN  listener'[x].at = "answer" /\ listener'[x].block = b <=>
                                 listener[x].at = "answer" /\ listener[x].block = b
  BY <1>1, Constants DEF Servers
<1> QED
  BY <1>2, <1>3, SameEnds DEF Seen

\* sendSYNMessage: the client calls.
LEMMA SendsSYNSeen ==
    ASSUME AgreementInv, EndsSee, EndsSee', NEW c \in Call, NEW q \in EphemeralPort,
           NEW i \in ISS, SendsSYN(c, q, i)
    PROVE  Seen
<1> USE DEF AgreementInv, PortInv, Connections
<1> DEFINE e == sendSYN(tcb[c], q, c.foreignPort, i)
<1>1. /\ ~c.passive /\ ~tcb[c].connectionSocket /\ tcb[c] \in TransmissionControlBlock
      /\ tcb[c].state = "CLOSED"
  BY DEF SendsSYN, Blocks, TypeOK, ActiveBlocks
<1>2. e \in Effect /\ e.tcb.state = "SYN_SENT"
  BY <1>1, Constants, SendSYNType, SYNSent
<1>3. Apply(c, e, i) /\ listener' = listener
  BY DEF SendsSYN
<1> HIDE DEF e
<1>4. tcb'[c].state = "SYN_SENT" /\ \A d \in Call : d # c => tcb'[d] = tcb[d]
  BY <1>2, <1>3, Applied
<1>5. c \in Clients /\ clientView(c) = "closed" /\ clientView(c)' = "calling"
  BY <1>1, <1>4 DEF EndsSee, ClientSees, Clients
<1>6. ClientsStay(c) /\ \A b \in Servers : serverView(b)' = serverView(b)
  BY <1>1, <1>3, <1>4 DEF ClientsStay, clientView, serverView, Clients, Servers
<1>7. JoinedStay
  <2>1. /\ \A a \in Clients : /\ Opened(a)' <=> Opened(a)
                              /\ Opened(a) => tcb'[a].irs = tcb[a].irs
        /\ \A b \in Servers : /\ Answering(b)' <=> Answering(b)
                              /\ tcb'[b].iss = tcb[b].iss
    BY <1>1, <1>3, <1>4 DEF Opened, Answering, Clients, Servers
  <2>2. ASSUME NEW a \in Clients, NEW b \in Servers
        PROVE  JoinedNow(a, b)' <=> JoinedNow(a, b)
    <3>1. /\ JoinedNow(a, b) <=> Opened(a) /\ Answering(b) /\ tcb[a].irs = tcb[b].iss
          /\ JoinedNow(a, b)' <=> Opened(a)' /\ Answering(b)' /\ tcb'[a].irs = tcb'[b].iss
      BY DEF EndsSee
    <3> QED
      BY <2>1, <3>1
  <2> QED
    BY <2>2 DEF JoinedStay
<1> QED
  BY <1>5, <1>6, <1>7, ClientMoves DEF Seen

\* processListeningSocketMessage: a listener answers a SYN, with a number that no
\* client has, and nothing else that it does is seen.
LEMMA ListenerHandlesSeen ==
    ASSUME AgreementInv, EndsSee, EndsSee', NEW p \in Process, NEW c \in Call,
           NEW q \in EphemeralPort, NEW i \in ISS, ListenerHandles(p, c, q, i)
    PROVE  Seen
<1> USE DEF AgreementInv, PortInv, Connections
<1> DEFINE h == listener[p].segment
           e == processListeningSocketMessage(tcb[c], h, q, i)
<1>1. /\ Finds(p, c) /\ tcb[c].state = "LISTEN" /\ listener[p].at = "find"
      /\ Apply(c, e, i)
      /\ listener' = [listener EXCEPT ![p] =
             IF AnswersSYN(h) THEN [@ EXCEPT !.at = "answer", !.block = c]
                              ELSE ListenerIdle]
  BY DEF ListenerHandles, Finds
<1>2. /\ c.process = p /\ c.passive /\ h \in TCPHeader
      /\ tcb[c] \in TransmissionControlBlock
  BY <1>1, Found DEF TypeOK
<1>3. /\ e \in Effect /\ e.tcb.state = "LISTEN"
      /\ AnswersSYN(h) => /\ e.tcb.iss = i /\ e.out # {}
                          /\ \A k \in e.out : k.control = {"SYN", "ACK"}
  BY <1>1, <1>2, Constants, ListenEffect, ListenStep
<1> HIDE DEF e
<1>4. tcb'[c] = e.tcb /\ \A d \in Call : d # c => tcb'[d] = tcb[d]
  BY <1>1, <1>3, Applied
<1>5. AnswersSYN(h) => i \notin drawn
  BY <1>1, <1>3 DEF Apply, Draws
<1>6. /\ AnswersSYN(h) => listener'[p].at = "answer" /\ listener'[p].block = c
      /\ ~AnswersSYN(h) => listener'[p].at = "receive"
      /\ \A x \in Process : x # p => listener'[x] = listener[x]
  <2>1. listener[p] \in [at      : {"receive", "find", "reply", "answer"},
                         segment : TCPHeader, block : Call \cup {NoTCB}]
    BY DEF TypeOK
  <2> DEFINE l == [listener[p] EXCEPT !.at = "answer", !.block = c]
  <2>2. l.at = "answer" /\ l.block = c
    BY <2>1
  <2>3. listener'[p] = IF AnswersSYN(h) THEN l ELSE ListenerIdle
    BY <1>1 DEF TypeOK
  <2>4. \A x \in Process : x # p => listener'[x] = listener[x]
    BY <1>1 DEF TypeOK
  <2> HIDE DEF l, h
  <2> QED
    BY <2>2, <2>3, <2>4, IdleTypes
<1> HIDE DEF h
<1>7. /\ c \in Servers /\ ~Answering(c) /\ (Answering(c)' <=> AnswersSYN(h))
      /\ \A d \in Servers : d # c =>
             (Answering(d)' <=> Answering(d)) /\ serverView(d)' = serverView(d)
  <2>1. c \in Servers
    BY <1>2 DEF Servers
  <2>2. ~Answering(c) /\ (Answering(c)' <=> AnswersSYN(h))
    BY <1>1, <1>2, <1>3, <1>4, <1>6 DEF Answering
  <2>3. ASSUME NEW d \in Servers, d # c
        PROVE  /\ tcb'[d] = tcb[d]
               /\ listener'[d.process].at = "answer" /\ listener'[d.process].block = d <=>
                      listener[d.process].at = "answer" /\ listener[d.process].block = d
    BY <1>1, <1>4, <1>6, <2>3, Constants DEF Servers
  <2>4. ASSUME NEW d \in Servers, d # c
        PROVE  (Answering(d)' <=> Answering(d)) /\ serverView(d)' = serverView(d)
    BY <2>3, <2>4 DEF Answering, serverView
  <2> QED
    BY <2>1, <2>2, <2>4
<1>8. \A a \in Clients : /\ clientView(a)' = clientView(a) /\ tcb'[a] = tcb[a]
                         /\ Opened(a)' <=> Opened(a)
  BY <1>2, <1>4 DEF clientView, Opened, Clients
<1>9. /\ tcb'[c].state = "LISTEN"
      /\ serverView(c) = "listening"
      /\ serverView(c)' = IF AnswersSYN(h) THEN "answering" ELSE "listening"
  <2>1. tcb'[c].state = "LISTEN" /\ ServerSees(c) /\ ServerSees(c)'
    BY <1>3, <1>4, <1>7 DEF EndsSee
  <2> QED
    BY <1>1, <1>7, <2>1 DEF ServerSees
<1>10. JoinedStay
  <2>1. ASSUME NEW a \in Clients, NEW b \in Servers
        PROVE  JoinedNow(a, b)' <=> JoinedNow(a, b)
    <3>1. /\ JoinedNow(a, b) <=> Opened(a) /\ Answering(b) /\ tcb[a].irs = tcb[b].iss
          /\ JoinedNow(a, b)' <=> Opened(a)' /\ Answering(b)' /\ tcb'[a].irs = tcb'[b].iss
      BY DEF EndsSee
    <3>2. CASE b # c
      BY <1>4, <1>7, <1>8, <3>1, <3>2 DEF Servers
    <3>3. CASE b = c
      <4>1. ~JoinedNow(a, c)
        BY <1>7, <3>1, <3>3
      <4>2. Opened(a) => tcb[a].irs \in drawn
        BY DEF ActiveBlocks, Opened, Clients
      <4>3. ~JoinedNow(a, c)'
        BY <1>3, <1>4, <1>5, <1>7, <1>8, <3>1, <3>3, <4>2
      <4> QED
        BY <3>3, <4>1, <4>3
    <3> QED
      BY <3>2, <3>3
  <2> QED
    BY <2>1 DEF JoinedStay
<1>11. CASE AnswersSYN(h)
  BY <1>7, <1>8, <1>9, <1>10, <1>11, ServerMoves DEF ServersStay, Seen
<1>12. CASE ~AnswersSYN(h)
  <2>1. ViewsStay
    BY <1>7, <1>8, <1>9, <1>12 DEF ViewsStay
  <2> QED
    BY <1>10, <2>1, Unseen DEF Seen
<1> QED
  BY <1>11, <1>12

\* The rest of sendSYNACK: the ends saw the answer when it left.
LEMMA ListenerAnsweredSeen ==
    ASSUME AgreementInv, EndsSee, EndsSee', NEW p \in Process, ListenerAnswered(p)
    PROVE  Seen
<1> PICK b \in Servers : b = listener[p].block
  BY DEF ListenerAnswered, AgreementInv, PortInv, AnswerOwned, Servers
<1>1. /\ b.process = p /\ listener[p].at = "answer"
      /\ tcb[b] \in TransmissionControlBlock /\ tcb[b].state = "LISTEN"
  BY DEF ListenerAnswered, AgreementInv, PortInv, TypeOK, Threads, AnswerOwned,
         AnswerStands, Servers
<1> PICK v : v = synAckDone(tcb[b])
  OBVIOUS
<1>2. /\ v \in TransmissionControlBlock
      /\ v.state = "SYN_RECEIVED" /\ v.iss = tcb[b].iss
  BY <1>1, SynAckDoneType, SYNACKDone
<1>3. /\ tcb'[b] = [v EXCEPT !.threadLaunched = TRUE]
      /\ \A d \in Call : d # b => tcb'[d] = tcb[d]
      /\ \A x \in Process : x # p => listener'[x] = listener[x]
      /\ listener'[p].at = "receive"
  BY IdleTypes DEF ListenerAnswered, AgreementInv, PortInv, TypeOK, Servers
<1>4. tcb'[b].state = "SYN_RECEIVED" /\ tcb'[b].iss = tcb[b].iss
  BY <1>2, <1>3 DEF TransmissionControlBlock
<1>5. Answering(b) /\ Answering(b)'
  BY <1>1, <1>4 DEF Answering
<1>6. serverView(b) = "answering" /\ serverView(b)' = "answering"
  BY <1>1, <1>4, <1>5 DEF EndsSee, ServerSees
<1>7. \A d \in Servers : d # b => serverView(d)' = serverView(d)
  BY <1>1, <1>3, Constants DEF serverView, Servers
<1>8. \A a \in Clients : clientView(a)' = clientView(a) /\ tcb'[a] = tcb[a]
  BY <1>3 DEF clientView, Clients, Servers
<1>9. ViewsStay
  BY <1>6, <1>7, <1>8 DEF ViewsStay
<1>10. \A d \in Servers : tcb'[d].iss = tcb[d].iss
  BY <1>3, <1>4 DEF Servers
<1> QED
  BY <1>8, <1>9, <1>10, NothingSeen DEF Seen

\* processUDPMessage: a client opens on the answer that a server stands by, which
\* nobody else has opened on, or on one that was taken back, or fails; a server opens
\* with the client that has its answer, listens again or fails.
LEMMA ReaderHandlesSeen ==
    ASSUME AgreementInv, AgreementInv', EndsSee, EndsSee', MayExit # {} \/ AnswersStand,
           NEW c \in Call, NEW i \in ISS, ReaderHandles(c, i)
    PROVE  Seen
<1> USE DEF AgreementInv, PortInv, Connections, Threads
<1> DEFINE h == reader[c].segment
           t == tcb[c]
<1>1. /\ t \in TransmissionControlBlock /\ t.connectionSocket
      /\ \A d \in Call : d # c => tcb'[d] = tcb[d]
      /\ listener' = listener
  BY ReaderStep DEF ReaderHandles
<1>2. \/ tcb'[c] = t
      \/ /\ ~c.passive /\ t.state = "SYN_SENT"
         /\ tcb'[c] = [t EXCEPT !.state = "CLOSED"]
      \/ /\ ~c.passive /\ t.state = "SYN_SENT"
         /\ tcb'[c].state = "ESTABLISHED" /\ tcb'[c].irs = h.sequenceNumber
      \/ /\ c.passive /\ t.state = "SYN_RECEIVED"
         /\ \/ tcb'[c] = [t EXCEPT !.state = "CLOSED"]
            \/ tcb'[c] = [t EXCEPT !.state = "LISTEN"]
            \/ /\ tcb'[c] = [t EXCEPT !.state = "ESTABLISHED"]
               /\ \E a \in Call : Opened(a) /\ tcb[a].irs = t.iss
  BY ReaderStep
<1>3. \A a \in Clients : a # c => clientView(a)' = clientView(a) /\ (Opened(a)' <=> Opened(a))
  BY <1>1 DEF clientView, Opened, Clients
<1>4. \A b \in Servers : b # c => serverView(b)' = serverView(b) /\ (Answering(b)' <=> Answering(b))
  BY <1>1 DEF serverView, Answering, Servers
<1>5. CASE tcb'[c] = t
  <2>1. \A d \in Call : SameEnd(d)
    BY <1>1, <1>5 DEF SameEnd
  <2> QED
    BY <1>1, <2>1, SameEnds DEF Seen
<1>6. CASE ~c.passive /\ t.state = "SYN_SENT"
  <2>1. c \in Clients /\ clientView(c) = "calling" /\ ~Opened(c)
    BY <1>6 DEF EndsSee, ClientSees, Clients, Opened
  <2>2. \A b \in Servers : /\ serverView(b)' = serverView(b) /\ tcb'[b] = tcb[b]
                           /\ Answering(b)' <=> Answering(b)
    BY <1>1, <1>4, <1>6 DEF Servers
  <2>3. ASSUME NEW a \in Clients, a # c, NEW b \in Servers
        PROVE  JoinedNow(a, b)' <=> JoinedNow(a, b)
    <3>1. /\ JoinedNow(a, b) <=> Opened(a) /\ Answering(b) /\ tcb[a].irs = tcb[b].iss
          /\ JoinedNow(a, b)' <=> Opened(a)' /\ Answering(b)' /\ tcb'[a].irs = tcb'[b].iss
      BY DEF EndsSee
    <3> QED
      BY <1>1, <1>3, <2>2, <2>3, <3>1 DEF Clients
  <2>4. \A b \in Servers : ~JoinedNow(c, b)
    BY <2>1 DEF EndsSee
  <2>5. ClientsStay(c)
    BY <1>3 DEF ClientsStay
  <2>6. CASE tcb'[c] = [t EXCEPT !.state = "CLOSED"]
    <3>1. tcb'[c].state = "CLOSED" /\ tcb'[c].connectionSocket
      BY <1>1, <2>6 DEF TransmissionControlBlock
    <3>2. clientView(c)' = "failed" /\ ~Opened(c)'
      BY <2>1, <3>1 DEF EndsSee, ClientSees, Opened
    <3>3. \A b \in Servers : ~JoinedNow(c, b)'
      BY <2>1, <3>2 DEF EndsSee
    <3>4. JoinedStay
      BY <2>3, <2>4, <3>3 DEF JoinedStay
    <3> QED
      BY <2>1, <2>2, <2>5, <3>2, <3>4, ClientMoves DEF Seen
  <2>7. CASE tcb'[c].state = "ESTABLISHED" /\ tcb'[c].irs = h.sequenceNumber
    <3>1. clientView(c)' = "open" /\ Opened(c)'
      BY <2>1, <2>7 DEF EndsSee, ClientSees, Opened, Clients
    <3>2. \A b \in Servers : JoinedNow(c, b)' <=>
                                 Answering(b) /\ tcb[b].iss = tcb'[c].irs
      BY <2>1, <2>2, <3>1 DEF EndsSee
    <3>3. \A a \in Call : Opened(a) => tcb[a].irs # tcb'[c].irs
      <4>1. ASSUME NEW a \in Call, Opened(a) PROVE tcb[a].irs # tcb'[c].irs
        <5>1. a # c /\ Opened(a)' /\ tcb'[a].irs = tcb[a].irs
          BY <1>1, <1>3, <2>1, <4>1 DEF Clients, Opened
        <5> QED
          BY <3>1, <5>1 DEF OpenedBlocks
      <4> QED
        BY <4>1
    <3>4. ASSUME NEW b \in Servers, Answering(b), tcb[b].iss = tcb'[c].irs
          PROVE  Seen
      <4>1. serverView(b) = "answering"
        <5>1. tcb[b].state # "ESTABLISHED"
          BY <3>3, <3>4 DEF EstablishedBlocks, Servers
        <5> QED
          BY <3>4, <5>1 DEF EndsSee, ServerSees
      <4>2. \A a \in Clients : ~JoinedNow(a, b)
        BY <3>3, <3>4 DEF EndsSee, Clients
      <4>3. \A d \in Servers : JoinedNow(c, d)' <=> d = b
        BY <3>2, <3>4 DEF AnswersDiffer, Servers
      <4>4. \A a \in Clients, d \in Servers :
                JoinedNow(a, d)' <=> JoinedNow(a, d) \/ (a = c /\ d = b)
        BY <2>3, <2>4, <4>3
      <4> QED
        BY <2>1, <2>2, <2>5, <3>1, <4>1, <4>2, <4>4, ClientAccepts DEF Seen
    <3>5. ASSUME \A b \in Servers : ~(Answering(b) /\ tcb[b].iss = tcb'[c].irs)
          PROVE  Seen
      <4>1. JoinedStay
        BY <2>3, <2>4, <3>2, <3>5 DEF JoinedStay
      <4>2. /\ h \in TCPHeader /\ InFlight(h) /\ h.control = {"SYN", "ACK"}
            /\ tcb'[c].irs = h.sequenceNumber
        BY <1>6, <2>7, ReaderStep DEF TransmissionControlBlock
      <4>3. MayExit # {}
        BY <3>5, <4>2 DEF AnswersStand
      <4> QED
        BY <2>1, <2>2, <2>5, <3>1, <4>1, <4>3, ClientMoves DEF Seen
    <3> QED
      BY <3>4, <3>5
  <2> QED
    BY <1>2, <1>5, <1>6, <2>6, <2>7
<1>7. CASE c.passive /\ t.state = "SYN_RECEIVED"
  <2>1. c \in Servers /\ Answering(c) /\ serverView(c) = "answering"
    BY <1>7 DEF EndsSee, ServerSees, Servers, Answering
  <2>2. \A a \in Clients : tcb'[a] = tcb[a] /\ clientView(a)' = clientView(a)
                           /\ (Opened(a)' <=> Opened(a))
    BY <1>1, <1>3, <1>7 DEF Clients
  <2>3. ~(listener[c.process].at = "answer" /\ listener[c.process].block = c)
    BY <1>7, Constants DEF AnswerStands
  <2>4. ASSUME tcb'[c].state \in {"LISTEN", "CLOSED"}
        PROVE  Seen
    <3>1. ~Answering(c)'
      BY <1>1, <2>3, <2>4 DEF Answering
    <3>2. \A d \in Servers : d # c => /\ tcb'[d] = tcb[d]
                                      /\ listener'[d.process] = listener[d.process]
      BY <1>1 DEF Servers
    <3> QED
      BY <1>7, <2>1, <2>2, <2>4, <3>1, <3>2, TakesBack DEF Seen
  <2>5. ASSUME tcb'[c] = [t EXCEPT !.state = "ESTABLISHED"],
               NEW a \in Call, Opened(a), tcb[a].irs = t.iss
        PROVE  Seen
    <3>1. tcb'[c].state = "ESTABLISHED" /\ tcb'[c].iss = t.iss
      BY <1>1, <2>5 DEF TransmissionControlBlock
    <3>2. serverView(c)' = "open" /\ Answering(c)'
      BY <2>1, <3>1 DEF EndsSee, ServerSees, Answering
    <3>3. a \in Clients /\ JoinedNow(a, c)
      BY <2>1, <2>5 DEF EndsSee, Opened, Clients
    <3>4. ASSUME NEW d \in Clients, NEW b \in Servers
          PROVE  JoinedNow(d, b)' <=> JoinedNow(d, b)
      <4>1. /\ JoinedNow(d, b) <=> Opened(d) /\ Answering(b) /\ tcb[d].irs = tcb[b].iss
            /\ JoinedNow(d, b)' <=> Opened(d)' /\ Answering(b)' /\ tcb'[d].irs = tcb'[b].iss
        BY DEF EndsSee
      <4>2. (Answering(b)' <=> Answering(b)) /\ tcb'[b].iss = tcb[b].iss
        BY <1>1, <1>4, <2>1, <3>1, <3>2 DEF Servers
      <4> QED
        BY <2>2, <4>1, <4>2
    <3>5. JoinedStay
      BY <3>4 DEF JoinedStay
    <3>6. ServersStay(c)
      BY <1>4 DEF ServersStay
    <3> QED
      BY <2>1, <2>2, <3>2, <3>3, <3>5, <3>6, ServerMoves DEF Seen
  <2>6. \/ tcb'[c].state \in {"LISTEN", "CLOSED"}
        \/ /\ tcb'[c] = [t EXCEPT !.state = "ESTABLISHED"]
           /\ \E a \in Call : Opened(a) /\ tcb[a].irs = t.iss
        \/ tcb'[c] = t
    BY <1>1, <1>2, <1>7 DEF TransmissionControlBlock
  <2> QED
    BY <1>5, <2>4, <2>5, <2>6
<1> QED
  BY <1>2, <1>5, <1>6, <1>7

\* Before anybody calls open() every client is closed and every server listens.
LEMMA InitSeen == Init => TwoEnds!Init
<1> SUFFICES ASSUME Init PROVE TwoEnds!Init
  OBVIOUS
<1>1. \A c \in Call : /\ tcb[c].state = IF c.passive THEN "LISTEN" ELSE "CLOSED"
                      /\ ~tcb[c].connectionSocket
  BY DEF Init, newTCB
<1>2. \A p \in Process : listener[p].at = "receive"
  BY IdleTypes DEF Init
<1>3. \A a \in Clients : clientView(a) = "closed"
  BY <1>1 DEF clientView, Clients
<1>4. \A b \in Servers : serverView(b) = "listening"
  BY <1>1, <1>2, Constants DEF serverView, Servers
<1> QED
  BY <1>3, <1>4 DEF TwoEnds!Init

LEMMA StepSeen ==
    ASSUME AgreementInv, MayExit # {} \/ AnswersStand, [Next]_vars
    PROVE  Seen
<1>1. AgreementInv' /\ EndsSee /\ EndsSee'
  BY ViewsNext
<1>2. ASSUME NEW c \in Call, \/ OpenExisting(c) \/ OpenInserts(c) \/ OpenContinues(c)
                             \/ ReaderReads(c) \/ ReaderWorks(c)
      PROVE  Seen
  BY <1>1, <1>2, ReadingSeen, SendsSYNSeen, ReaderHandlesSeen
  DEF OpenContinues, ReaderWorks, Reading
<1>3. ASSUME NEW p \in Process, ListenerReads(p) \/ ListenerWorks(p) \/ Exits(p)
      PROVE  Seen
  <2>1. ASSUME NEW how \in {"aborted", "terminated", "exited"}, Ends(p, how)
        PROVE  Seen
    BY <1>1, <2>1, EndsSeen
  <2>2. ASSUME ClosedTerminates(p) \/ Exits(p) \/ (\E c \in Call : ListenerAborts(p, c))
        PROVE  Seen
    BY <2>1, <2>2 DEF ClosedTerminates, Exits, ListenerAborts
  <2>3. ASSUME ListenerReads(p) \/ ClosedIgnores(p) \/ ClosedBinds(p) \/ ClosedReplies(p)
        PROVE  Seen
    BY <1>1, <2>3, ReadingSeen DEF Reading
  <2>4. ASSUME NEW c \in Call, NEW q \in EphemeralPort, NEW i \in ISS,
               ListenerHandles(p, c, q, i)
        PROVE  Seen
    BY <1>1, <2>4, ListenerHandlesSeen
  <2>5. ASSUME ListenerAnswered(p) PROVE Seen
    BY <1>1, <2>5, ListenerAnsweredSeen
  <2> QED
    BY <1>3, <2>2, <2>3, <2>4, <2>5 DEF ListenerWorks
<1>4. CASE Loses \/ UNCHANGED vars
  BY <1>1, <1>4, ReadingSeen DEF Reading
<1> QED
  BY <1>2, <1>3, <1>4 DEF Next

\* Where no process exits, no process ends, and every answer on its way stands.
LEMMA KeptInvariance ==
    ASSUME OneClientPerPort, MayExit = {}, KeptInv, [Next]_vars
    PROVE  KeptInv'
<1>1. SurvivalInv /\ NobodyDies
  BY DEF KeptInv, NobodyDies, Up
<1>2. SurvivalInv'
  BY <1>1, SurvivalStep, Zenon
<1>3. ASSUME Reading PROVE status' = status
  BY <1>3, Zenon
  DEF Reading, OpenExisting, OpenInserts, Rekeys, ReaderReads, ReaderReceives,
              ListenerReads, RawReceives, ClosedIgnores, ClosedBinds, ClosedReplies, Loses, vars
<1>4. ASSUME NEW c \in Call, \/ OpenExisting(c) \/ OpenInserts(c) \/ OpenContinues(c)
                             \/ ReaderReads(c) \/ ReaderWorks(c)
      PROVE  (OnlyAcksReturn' /\ AnswersStand') /\ status' = status
  <2>1. ASSUME NEW q \in EphemeralPort, NEW i \in ISS, SendsSYN(c, q, i)
        PROVE  (OnlyAcksReturn' /\ AnswersStand') /\ status' = status
    BY <2>1, SendsSYNKept DEF SendsSYN
  <2>2. ASSUME NEW i \in ISS, ReaderHandles(c, i)
        PROVE  (OnlyAcksReturn' /\ AnswersStand') /\ status' = status
    BY <2>2, ReaderHandlesKept DEF ReaderHandles
  <2>3. ASSUME OpenExisting(c) \/ OpenInserts(c) \/ Rekeys(c) \/ ReaderReads(c)
        PROVE  (OnlyAcksReturn' /\ AnswersStand') /\ status' = status
    BY <1>3, <2>3, ReadingKept DEF Reading
  <2> QED
    BY <1>4, <2>1, <2>2, <2>3 DEF OpenContinues, ReaderWorks
<1>5. ASSUME NEW p \in Process, ListenerReads(p) \/ ListenerWorks(p) \/ Exits(p)
      PROVE  (OnlyAcksReturn' /\ AnswersStand') /\ status' = status
  <2>1. /\ ~Exits(p) /\ ~ClosedTerminates(p)
        /\ \A c \in Call : ~ListenerAborts(p, c)
    BY <1>1, FindsListeners, FindsUnbound DEF Exits, ClosedTerminates, ListenerAborts
  <2>2. ASSUME NEW c \in Call, NEW q \in EphemeralPort, NEW i \in ISS,
               ListenerHandles(p, c, q, i)
        PROVE  (OnlyAcksReturn' /\ AnswersStand') /\ status' = status
    BY <2>2, ListenerHandlesKept DEF ListenerHandles
  <2>3. ASSUME ListenerAnswered(p)
        PROVE  (OnlyAcksReturn' /\ AnswersStand') /\ status' = status
    BY <2>3, ListenerAnsweredKept DEF ListenerAnswered
  <2>4. ASSUME ListenerReads(p) \/ ClosedIgnores(p) \/ ClosedBinds(p) \/ ClosedReplies(p)
        PROVE  (OnlyAcksReturn' /\ AnswersStand') /\ status' = status
    BY <1>3, <2>4, ReadingKept DEF Reading
  <2> QED
    BY <1>5, <2>1, <2>2, <2>3, <2>4 DEF ListenerWorks
<1>6. ASSUME Loses \/ UNCHANGED vars
      PROVE  (OnlyAcksReturn' /\ AnswersStand') /\ status' = status
  <2>1. Reading
    BY <1>6 DEF Reading
  <2> QED
    BY <1>3, <2>1, ReadingKept
<1> DEFINE Kept == (OnlyAcksReturn' /\ AnswersStand') /\ status' = status
<1>7. Kept
  <2>1. \/ \E c \in Call : \/ OpenExisting(c) \/ OpenInserts(c) \/ OpenContinues(c)
                          \/ ReaderReads(c) \/ ReaderWorks(c)
        \/ \E p \in Process : ListenerReads(p) \/ ListenerWorks(p) \/ Exits(p)
        \/ Loses \/ UNCHANGED vars
    BY DEF Next
  <2>2. /\ \A c \in Call : \/ OpenExisting(c) \/ OpenInserts(c) \/ OpenContinues(c)
                          \/ ReaderReads(c) \/ ReaderWorks(c)
                          => Kept
        /\ \A p \in Process : ListenerReads(p) \/ ListenerWorks(p) \/ Exits(p) => Kept
        /\ Loses \/ UNCHANGED vars => Kept
    BY <1>4, <1>5, <1>6
  <2> HIDE DEF Kept
  <2> QED
    BY <2>1, <2>2
<1> QED
  BY <1>2, <1>7 DEF KeptInv, Up

LEMMA InitKept == Init => KeptInv
<1> SUFFICES ASSUME Init PROVE KeptInv
  OBVIOUS
<1>1. SurvivalInv
  BY InitSurvival
<1>2. /\ \A p \in Process : raw[p] = {} /\ listener[p].at = "receive"
      /\ \A c \in Call : /\ udp[c] = {} /\ reader[c].at = "receive"
                         /\ ~tcb[c].connectionSocket
  BY IdleTypes DEF Init, newTCB
<1>3. \A h \in TCPHeader : ~InFlight(h)
  BY <1>2 DEF InFlight
<1>4. OnlyAcksReturn /\ AnswersStand
  BY <1>2, <1>3 DEF OnlyAcksReturn, AnswersStand, Servers
<1>5. \A p \in Process : Up(p)
  BY DEF Init, Up
<1> QED
  BY <1>1, <1>4, <1>5 DEF KeptInv

\* All the threads of all the processes, with what the network loses, duplicates and
\* reorders, do no more than the handshake of module Handshake: with the step that
\* opens on an answer taken back where some process may exit, and without that step
\* where none may, if each listener has at most one client.
THEOREM HandshakeImplemented ==
    ASSUME MayExit = {} => OneClientPerPort
    PROVE  Spec => ImplementsHandshake
<1>1. Init => TwoEnds!Init
  BY InitSeen
<1>2. ASSUME MayExit # {} PROVE Spec => ImplementsHandshake
  <2>1. Init => AgreementInv
    BY InitAgreement
  <2>2. AgreementInv /\ [Next]_vars => AgreementInv' /\ [TwoEnds!Next]_(TwoEnds!vars)
    BY <1>2, AgreementStep, StepSeen DEF Seen
  <2> QED
    BY <1>1, <2>1, <2>2, PTL DEF Spec, ImplementsHandshake, TwoEnds!Spec
<1>3. ASSUME MayExit = {} PROVE Spec => ImplementsHandshake
  <2>1. Init => KeptInv
    BY InitKept
  <2>2. KeptInv /\ [Next]_vars => KeptInv' /\ [TwoEnds!Next]_(TwoEnds!vars)
    BY <1>3, KeptInvariance, StepSeen DEF Seen, KeptInv, SurvivalInv
  <2> QED
    BY <1>1, <2>1, <2>2, PTL DEF Spec, ImplementsHandshake, TwoEnds!Spec
<1> QED
  BY <1>2, <1>3

================================================================================
