-------------------------------- MODULE TCB --------------------------------
(***************************************************************************)
(* The transmission control block and its segment handlers, as functions   *)
(* from the block, the received header and a freshly drawn initial         *)
(* sequence number to an Effect: the block after the handler, the segments *)
(* it sends and the error message it leaves.                               *)
(*                                                                         *)
(* Kept: the sequence variables, the connection state, the ports of the    *)
(* LocalConnection, and whether the connection socket and the thread       *)
(* reading it exist.  Left out: timeout and rcv_wnd, which are stored and  *)
(* never read.                                                             *)
(***************************************************************************)
EXTENDS Segments

State == {"LISTEN", "SYN_SENT", "SYN_RECEIVED", "ESTABLISHED", "CLOSE_WAIT",
          "FIN_WAITING_1", "FIN_WAITING_2", "CLOSING", "LAST_ACK",
          "TIME_WAIT", "CLOSED"}

ErrorMessage == {"NO_ERROR", "CONNECTION_RESET", "CONNECTION_REFUSED"}

TransmissionControlBlock ==
    [state            : State,
     passive          : BOOLEAN,
     iss              : SeqNumber,
     snd_una          : SeqNumber,
     snd_nxt          : SeqNumber,
     irs              : SeqNumber,
     rcv_nxt          : SeqNumber,
     localPort        : PortNumber,
     foreignPort      : PortNumber,
     connectionSocket : BOOLEAN,    \* # INVALID_SOCKET
     threadLaunched   : BOOLEAN]

newTCB(port, passive) ==
    [state            |-> IF passive THEN "LISTEN" ELSE "CLOSED",
     passive          |-> passive,
     iss              |-> 0,
     snd_una          |-> 0,
     snd_nxt          |-> 0,
     irs              |-> 0,
     rcv_nxt          |-> 0,
     localPort        |-> port,
     foreignPort      |-> NoPort,
     connectionSocket |-> FALSE,
     threadLaunched   |-> FALSE]

-----------------------------------------------------------------------------
(***************************************************************************)
(* Effects of a handler.  The error message "unchanged" stands for a       *)
(* handler that does not assign SimpleTCP::errorMessage.                   *)
(***************************************************************************)
Effect ==
    [tcb   : TransmissionControlBlock,
     out   : SUBSET TCPHeader,
     error : ErrorMessage \cup {"unchanged"}]

Sends(t, out)    == [tcb |-> t, out |-> out, error |-> "unchanged"]
Ignores(t)       == Sends(t, {})
MovesTo(t, s)    == Ignores([t EXCEPT !.state = s])
\* Mutant: the block is closed and the user never told why.
FailsSilently(t, e) == MovesTo(t, "CLOSED")

\* Mutant: the same in SYN_SENT only.
FailsQuietlyInSynSent(t, e) ==
    [tcb |-> [t EXCEPT !.state = "CLOSED"], out |-> {},
     error |-> IF t.state = "SYN_SENT" THEN "unchanged" ELSE e]

FailsWith(t, e)  == [tcb |-> [t EXCEPT !.state = "CLOSED"], out |-> {}, error |-> e]

-----------------------------------------------------------------------------
(***************************************************************************)
(* LocalConnection.  createLocalSocket(true) binds a socket to a port q    *)
(* that the system picks and adopts that port as the local one.            *)
(***************************************************************************)
createLocalSocket(t, q) ==
    [t EXCEPT !.connectionSocket = TRUE, !.localPort = q]

createForeignSocketAddress(t, p) == [t EXCEPT !.foreignPort = p]

(***************************************************************************)
(* Sending.  sendSYNACK is split where the segment leaves: synAckStarted   *)
(* is what it writes before the send, synAckDone what it writes after it.  *)
(* The listening thread runs the two halves while the thread of the block  *)
(* may be receiving; nobody else runs while the block's own thread does.   *)
(***************************************************************************)
sendSYN(t, q, p, i) ==
    LET c == createForeignSocketAddress(createLocalSocket(t, q), p)
    IN  Sends([c EXCEPT !.iss = i, !.snd_una = i, !.snd_nxt = Inc(i),
                        !.state = "SYN_SENT"],
              {[constructSendTCPHeader(q, p) EXCEPT !.sequenceNumber = i,
                                                    !.control = {"SYN"}]})

\* Mutant: a block that listens again answers with the ISS it had.
synAckStartedOldISS(t, h, i) ==
    LET n == IF t.iss = 0 THEN i ELSE t.iss
    IN  Sends([t EXCEPT !.rcv_nxt = Inc(h.sequenceNumber),
                        !.irs = h.sequenceNumber,
                        !.iss = n],
              {[constructSendTCPHeader(t.localPort, t.foreignPort) EXCEPT
                    !.sequenceNumber = n,
                    !.ackNumber = Inc(h.sequenceNumber),
                    !.control = {"SYN", "ACK"}]})

synAckStarted(t, h, i) ==
    Sends([t EXCEPT !.rcv_nxt = Inc(h.sequenceNumber),
                    !.irs = h.sequenceNumber,
                    !.iss = i],
          {[constructSendTCPHeader(t.localPort, t.foreignPort) EXCEPT
                    !.sequenceNumber = i,
                    !.ackNumber = Inc(h.sequenceNumber),
                    !.control = {"SYN", "ACK"}]})

synAckDone(t) ==
    [t EXCEPT !.snd_nxt = Inc(t.iss), !.snd_una = t.iss,
              !.state = "SYN_RECEIVED"]

sendSYNACK(t, h, i) ==
    LET e == synAckStarted(t, h, i) IN Sends(synAckDone(e.tcb), e.out)

sendRST(t, h) ==
    Sends(t, {[constructSendTCPHeader(t.localPort, t.foreignPort) EXCEPT
                   !.sequenceNumber =
                       IF "ACK" \in h.control THEN h.ackNumber ELSE t.snd_nxt,
                   !.control = {"RST"}]})

\* Mutant: SND.NXT is advanced before it is copied to SND.UNA.
sendEstablishedACKSwapped(t, h) ==
    LET c == createForeignSocketAddress(t, h.sourcePort)
    IN  Sends([c EXCEPT !.rcv_nxt = Inc(h.sequenceNumber),
                        !.irs = h.sequenceNumber,
                        !.snd_una = Inc(t.snd_nxt),
                        !.snd_nxt = Inc(t.snd_nxt),
                        !.state = "ESTABLISHED"], {})

\* Mutant: RCV.NXT does not count the SYN.
sendEstablishedACKUncounted(t, h) ==
    LET c == createForeignSocketAddress(t, h.sourcePort)
    IN  Sends([c EXCEPT !.rcv_nxt = h.sequenceNumber,
                        !.irs = h.sequenceNumber,
                        !.snd_una = t.snd_nxt,
                        !.snd_nxt = Inc(t.snd_nxt),
                        !.state = "ESTABLISHED"],
              {[constructSendTCPHeader(c.localPort, c.foreignPort) EXCEPT
                    !.sequenceNumber = t.snd_nxt,
                    !.ackNumber = Inc(h.sequenceNumber),
                    !.control = {"ACK"}]})

\* Mutant: the ACK goes to the port that was dialled, where the listener is.
sendEstablishedACKToListener(t, h) ==
    Sends([t EXCEPT !.rcv_nxt = Inc(h.sequenceNumber),
                    !.irs = h.sequenceNumber,
                    !.snd_una = t.snd_nxt,
                    !.snd_nxt = Inc(t.snd_nxt),
                    !.state = "ESTABLISHED"],
          {[constructSendTCPHeader(t.localPort, t.foreignPort) EXCEPT
                !.sequenceNumber = t.snd_nxt,
                !.ackNumber = Inc(h.sequenceNumber),
                !.control = {"ACK"}]})

sendEstablishedACK(t, h) ==
    LET c == createForeignSocketAddress(t, h.sourcePort)
    IN  Sends([c EXCEPT !.rcv_nxt = Inc(h.sequenceNumber),
                        !.irs = h.sequenceNumber,
                        !.snd_una = t.snd_nxt,
                        !.snd_nxt = Inc(t.snd_nxt),
                        !.state = "ESTABLISHED"],
              {[constructSendTCPHeader(c.localPort, c.foreignPort) EXCEPT
                    !.sequenceNumber = t.snd_nxt,
                    !.ackNumber = Inc(h.sequenceNumber),
                    !.control = {"ACK"}]})

-----------------------------------------------------------------------------
(***************************************************************************)
(* LISTEN: the handler of a segment that arrived on the raw socket, up to  *)
(* the send.  q is the port the system gives the connection socket when    *)
(* the block does not own one yet.                                         *)
(***************************************************************************)
processPacketListenState(t, h, i) ==
    LET c == createForeignSocketAddress(t, h.sourcePort)
    IN  CASE "ACK" \in h.control -> sendRST(c, h)
          [] "ACK" \notin h.control /\ "SYN" \in h.control -> synAckStarted(c, h, i)
          [] OTHER -> Ignores(c)

processListeningSocketMessage(t, h, q, i) ==
    IF h.control \cap {"RST", "FIN"} # {} THEN Ignores(t)
    ELSE processPacketListenState(
             IF t.connectionSocket THEN t ELSE createLocalSocket(t, q), h, i)

\* The listening thread is left with the second half of sendSYNACK to run.
AnswersSYN(h) == "SYN" \in h.control /\ h.control \cap {"ACK", "RST", "FIN"} = {}

\* SYN_SENT.  The comparisons are those of plain unsigned numbers.
\* Mutant: an ACK of the ISS itself is taken for an ACK of the SYN.
AckAcceptableFromIss(t, h) == t.iss <= h.ackNumber /\ h.ackNumber <= t.snd_nxt

AckAcceptable(t, h) == t.iss < h.ackNumber /\ h.ackNumber <= t.snd_nxt

processSynSentSocketMessage(t, h, i) ==
    CASE /\ "ACK" \in h.control
         /\ ~AckAcceptable(t, h)
         /\ "RST" \notin h.control -> sendRST(t, h)
      [] /\ "ACK" \in h.control
         /\ AckAcceptable(t, h)
         /\ "RST" \in h.control -> FailsWith(t, "CONNECTION_RESET")
      [] /\ "ACK" \in h.control
         /\ AckAcceptable(t, h)
         /\ "RST" \notin h.control -> sendEstablishedACK(t, h)
      [] /\ "ACK" \notin h.control
         /\ "SYN" \in h.control -> sendSYNACK(t, h, i)
      [] OTHER -> Ignores(t)

\* SYN_RECEIVED.
\* Mutant: acknowledgments of what was never sent are accepted.
AckInWindowNoUpper(t, h) == t.snd_una <= h.ackNumber

AckInWindow(t, h) == t.snd_una <= h.ackNumber /\ h.ackNumber <= t.snd_nxt

processSynReceivedSocketMessage(t, h) ==
    CASE /\ "RST" \in h.control
         /\ t.passive -> MovesTo(t, "LISTEN")
      [] /\ "RST" \in h.control
         /\ ~t.passive -> FailsWith(t, "CONNECTION_REFUSED")
      [] /\ "RST" \notin h.control
         /\ "SYN" \in h.control ->
             [FailsWith(t, "CONNECTION_RESET") EXCEPT !.out = sendRST(t, h).out]
      [] /\ h.control \cap {"RST", "SYN"} = {}
         /\ "ACK" \in h.control
         /\ ~AckInWindow(t, h) -> sendRST(t, h)
      [] /\ h.control \cap {"RST", "SYN"} = {}
         /\ "ACK" \in h.control => AckInWindow(t, h)
         /\ "FIN" \in h.control -> MovesTo(t, "CLOSE_WAIT")
      [] /\ h.control \cap {"RST", "SYN", "FIN"} = {}
         /\ "ACK" \in h.control
         /\ AckInWindow(t, h) -> MovesTo(t, "ESTABLISHED")
      [] OTHER -> Ignores(t)

(***************************************************************************)
(* The thread of the block dispatches on the state it read when the        *)
(* segment arrived, s, not on the state at the time the handler runs.      *)
(***************************************************************************)
\* Mutant: the RST bit is lost on the way to the handler of SYN_SENT.
processUDPMessageNoReset(t, s, h, i) ==
    CASE s = "SYN_SENT" /\ "FIN" \notin h.control ->
             processSynSentSocketMessage(t, [h EXCEPT !.control = @ \ {"RST"}], i)
      [] s = "SYN_RECEIVED" -> processSynReceivedSocketMessage(t, h)
      [] OTHER -> Ignores(t)

\* Mutant: a reset alone refuses the connection, whatever it acknowledges.
processUDPMessageResets(t, s, h, i) ==
    CASE s = "SYN_SENT" /\ h.control = {"RST"} -> FailsWith(t, "CONNECTION_REFUSED")
      [] s = "SYN_SENT" /\ h.control \cap {"FIN"} = {} /\ h.control # {"RST"} ->
             processSynSentSocketMessage(t, h, i)
      [] s = "SYN_RECEIVED" -> processSynReceivedSocketMessage(t, h)
      [] OTHER -> Ignores(t)

processUDPMessage(t, s, h, i) ==
    CASE s = "SYN_SENT" /\ "FIN" \notin h.control ->
             processSynSentSocketMessage(t, h, i)
      [] s = "SYN_RECEIVED" -> processSynReceivedSocketMessage(t, h)
      [] OTHER -> Ignores(t)

(***************************************************************************)
(* CLOSED: a port that no block has.                                       *)
(***************************************************************************)
\* Mutant: the ports of the segment are copied as they are.
closedReplyUnswapped(h) ==
    LET r == constructSendTCPHeader(h.sourcePort, h.destinationPort)
    IN  IF "ACK" \in h.control
        THEN [r EXCEPT !.sequenceNumber = h.ackNumber, !.control = {"RST"}]
        ELSE [r EXCEPT !.ackNumber = h.sequenceNumber, !.control = {"RST", "ACK"}]

\* The reset for a closed port.  The segments of this library carry no data, so
\* segLen is 0: it does not count the SYN.
closedReply(h) ==
    LET r == constructSendTCPHeader(h.destinationPort, h.sourcePort)
    IN  IF "ACK" \in h.control
        THEN [r EXCEPT !.sequenceNumber = h.ackNumber, !.control = {"RST"}]
        ELSE [r EXCEPT !.ackNumber = h.sequenceNumber, !.control = {"RST", "ACK"}]

=============================================================================
