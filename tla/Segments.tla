------------------------------ MODULE Segments ------------------------------
(***************************************************************************)
(* The TCP header that two SimpleTCP endpoints exchange inside a UDP       *)
(* datagram, and the arithmetic on its sequence numbers.                   *)
(*                                                                         *)
(* Kept: the fields some handler reads (ports, sequence and                *)
(* acknowledgment number, the control bits ACK, RST, SYN and FIN).         *)
(* Left out: the window, checksum, urgent pointer, options and the URG and *)
(* PSH bits, which are filled in and never tested.                         *)
(***************************************************************************)
EXTENDS Integers

CONSTANTS
    Port,       \* the port numbers in use on the loopback address
    NoPort,     \* EPHEMERAL_PORT, the 0 that a foreign port is before it is set
    MaxSeq      \* UINT32_MAX

ASSUME NoPortAssumption == NoPort \notin Port
ASSUME MaxSeqAssumption == MaxSeq \in Nat \ {0}

-----------------------------------------------------------------------------

\* uint32_t, and its increment with the wrap-around of the type.
SeqNumber == 0 .. MaxSeq

\* Mutant: the increment without the wrap-around.
IncUnbounded(n) == n + 1

Inc(n) == IF n = MaxSeq THEN 0 ELSE n + 1

PortNumber == Port \cup {NoPort}

ControlBit == {"ACK", "RST", "SYN", "FIN"}

TCPHeader ==
    [sourcePort      : PortNumber,
     destinationPort : PortNumber,
     sequenceNumber  : SeqNumber,
     ackNumber       : SeqNumber,
     control         : SUBSET ControlBit]

\* The header every segment starts from: the two ports of the connection, no
\* numbers and no control bit.
constructSendTCPHeader(local, foreign) ==
    [sourcePort      |-> local,
     destinationPort |-> foreign,
     sequenceNumber  |-> 0,
     ackNumber       |-> 0,
     control         |-> {}]

\* The header of no connection: what stands for "no segment".
noHeader == constructSendTCPHeader(NoPort, NoPort)

=============================================================================
