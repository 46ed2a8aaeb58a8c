-------------------------- MODULE MCSegmentReading --------------------------
(***************************************************************************)
(* Headers of the library with numbers at the edges of their bytes, and    *)
(* segments of other programs with every list of the options of RFC 793.   *)
(***************************************************************************)
EXTENDS SegmentReading, SequencesExt

\* Numbers whose bytes differ or lie at an edge; an ephemeral and a user's port.
MCNumber == {<<0, 0>>, <<258, 772>>, <<65535, 65535>>, <<32767, 65535>>}
MCPort == {49152, 5000}

\* The control bits of each sender, and the numbers that it leaves 0.
MCSent ==
    {h \in {[sourcePort |-> p, destinationPort |-> q,
             sequenceNumber |-> s, ackNumber |-> a, dataOffset |-> 7, reserved |-> 0,
             control |-> c, windowSize |-> 65535, checksum |-> 0, urgentPointer |-> 0,
             maxSegmentSizeOption |-> 65535] :
               p \in MCPort, q \in MCPort, s \in MCNumber, a \in MCNumber,
               c \in {{"SYN"}, {"SYN", "ACK"}, {"ACK"}, {"RST"}, {"RST", "ACK"}}} :
        /\ h.sourcePort # h.destinationPort
        /\ "ACK" \notin h.control => h.ackNumber = <<0, 0>>
        /\ h.control = {"RST", "ACK"} => h.sequenceNumber = <<0, 0>>}

\* Lists of options of up to two words; nothing but zeros after the end of the list.
MCOption == {EndOfOptions, NoOperation, MaxSegmentSize(536), MaxSegmentSize(65280)}
MCOptions ==
    {o \in UNION {[1 .. n -> MCOption] : n \in 0 .. 8} :
        /\ Len(FlattenSeq(o)) \in {0, 4, 8}
        /\ \A i, j \in DOMAIN o : i < j /\ o[i] = EndOfOptions => o[j] = EndOfOptions}

\* At the offsets where they start.
Placed(o) ==
    LET at(i) == 20 + Len(FlattenSeq(SubSeq(o, 1, i - 1)))
    IN  [p \in {at(i) : i \in DOMAIN o} |-> o[CHOOSE i \in DOMAIN o : at(i) = p]]

\* The reserved bits carry what later RFCs put there.
MCForeign ==
    {[header |-> [sourcePort |-> 49152, destinationPort |-> 5000,
                  sequenceNumber |-> <<258, 772>>, ackNumber |-> <<0, 1>>,
                  dataOffset |-> 5 + Len(FlattenSeq(o)) \div 4, reserved |-> r,
                  control |-> c, windowSize |-> 1024, checksum |-> 4660,
                  urgentPointer |-> 2, maxSegmentSizeOption |-> 0],
      options |-> Placed(o), payload |-> p] :
        o \in MCOptions, r \in {0, 7},
        c \in {{"SYN", "FIN"}, {"URG", "ACK", "PSH"}}, p \in {<<>>, <<1, 2, 3>>}}

=============================================================================
