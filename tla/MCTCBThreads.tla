---------------------------- MODULE MCTCBThreads ----------------------------
(***************************************************************************)
(* One block, every segment that a peer on either of two ports may send.   *)
(***************************************************************************)
EXTENDS TCBThreads

\* The handlers never read the destination port, the acknowledgment number only
\* under ACK, and the sequence number only under SYN or ACK, where they store and
\* increment it: 0 and the number before the wrap are enough.
MCIncoming ==
    {h \in TCPHeader :
        /\ h.sourcePort = UserPort /\ h.destinationPort = UserPort
        /\ h.sequenceNumber \in {0, MaxSeq}
        /\ h.sequenceNumber # 0 => h.control \cap {"SYN", "ACK"} # {}
        /\ h.ackNumber # 0 => "ACK" \in h.control}

=============================================================================
