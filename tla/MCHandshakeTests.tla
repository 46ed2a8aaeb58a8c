-------------------------- MODULE MCHandshakeTests --------------------------
(***************************************************************************)
(* The test program with small numbers, and garbage of every kind.         *)
(***************************************************************************)
EXTENDS HandshakeTests

\* What is left of earlier segments in the dead buffer: between the ports of the
\* tests, or 0 to 0, with any control bits, the numbers at the ends of the range.
MCGarbage ==
    {h \in TCPHeader :
        /\ <<h.sourcePort, h.destinationPort>> \in
               {<<ACTIVE_LOCAL_PORT, PASSIVE_LOCAL_PORT>>, <<PASSIVE_LOCAL_PORT, ACTIVE_LOCAL_PORT>>,
                <<NoPort, NoPort>>}
        /\ h.sequenceNumber = MaxSeq
        /\ h.ackNumber \in {0, MaxSeq}
        /\ h.ackNumber # 0 => "ACK" \in h.control}

=============================================================================
