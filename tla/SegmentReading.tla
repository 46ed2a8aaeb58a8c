--------------------------- MODULE SegmentReading ---------------------------
(***************************************************************************)
(* A segment on its way from a sender to one of the two places that read   *)
(* it: processUDPMessage, whose UDP socket gives the TCP header alone, and *)
(* processRawIPMessage, whose raw socket gives the IPv4 and UDP headers    *)
(* before it.  One action per turn of the loop over the options.           *)
(***************************************************************************)
EXTENDS WireFormat

CONSTANTS
    Sent,       \* the headers that the library's senders fill in
    Foreign     \* segments of other programs: header, options, payload

\* A header's fields; the size is what its options say, if they do.
UINT16_MAX == 65535

Octet == 0 .. 255
Half  == 0 .. UINT16_MAX

TCPHeader ==
    [sourcePort : Half, destinationPort : Half, sequenceNumber : Half \X Half,
     ackNumber : Half \X Half, dataOffset : 5 .. 15, reserved : 0 .. 63,
     control : SUBSET DOMAIN Index, windowSize : Half, checksum : Half,
     urgentPointer : Half, maxSegmentSizeOption : Half]

\* Options as a function on the offsets where one starts.  As RFC 793 wants them,
\* they follow each other up to the end of the header, at n, and nothing but zeros
\* comes after the end of the list.
WellFormed(options, n) ==
    /\ DOMAIN options \subseteq 20 .. n - 1
    /\ 20 < n => 20 \in DOMAIN options
    /\ \A p \in DOMAIN options :
           /\ \/ options[p] \in {EndOfOptions, NoOperation}
              \/ \E size \in Half : options[p] = MaxSegmentSize(size)
           /\ p + Len(options[p]) \in DOMAIN options \cup {n}
           /\ \A q \in DOMAIN options : p < q =>
                  /\ p + Len(options[p]) <= q
                  /\ options[p] = EndOfOptions => options[q] = EndOfOptions

\* A segment fits in an IPv4 datagram.
IsSegment(s) ==
    /\ s = [header |-> s.header, options |-> s.options, payload |-> s.payload]
    /\ s.header \in TCPHeader
    /\ WellFormed(s.options, 4 * s.header.dataOffset)
    /\ s.payload \in Seq(Octet)
    /\ IP_HEADER_LENGTH + UDP_HEADER_LENGTH + 4 * s.header.dataOffset
           + Len(s.payload) <= 65535

\* constructSendTCPHeader: seven words, and the checksum is not known yet.
ASSUME SentAssumption ==
    Sent \subseteq {h \in TCPHeader : h.dataOffset = 7 /\ h.checksum = 0}

ASSUME ForeignAssumption == \A s \in Foreign : IsSegment(s)

VARIABLES
    segment,        \* what the sender says: header, options, payload
    phase,          \* "filling", "sent", "options", "parsed"
    buffer,         \* sendbuf, then recvbuf
    offset,         \* where the TCP header starts in recvbuf
    header,         \* the header parseTCPHeader has so far
    optionIndex

vars == <<segment, phase, buffer, offset, header, optionIndex>>

Phase == {"filling", "sent", "options", "parsed"}

LOOPBACK == <<32512, 1>>

BigEndian(n) == <<n \div 256, n % 256>>

\* What RFC 793 calls the header: ten 16-bit words, then the options and the payload.
ControlWord(control) ==
    LET value(bit, weight) == IF bit \in control THEN weight ELSE 0
    IN  value("URG", 32) + value("ACK", 16) + value("PSH", 8)
        + value("RST", 4) + value("SYN", 2) + value("FIN", 1)

HeaderWords(h) ==
    <<h.sourcePort, h.destinationPort, h.sequenceNumber[1], h.sequenceNumber[2],
      h.ackNumber[1], h.ackNumber[2],
      4096 * h.dataOffset + 64 * h.reserved + ControlWord(h.control),
      h.windowSize, h.checksum, h.urgentPointer>>

\* The byte at offset k, inside an option.
OptionByte(options, k) ==
    LET p == CHOOSE p \in DOMAIN options : p <= k /\ k < p + Len(options[p])
    IN  options[p][k - p + 1]

Layout(s) ==
    LET n == 4 * s.header.dataOffset
    IN  [k \in 1 .. n + Len(s.payload) |->
            IF k <= 20 THEN BigEndian(HeaderWords(s.header)[(k + 1) \div 2])[2 - (k % 2)]
            ELSE IF k <= n THEN OptionByte(s.options, k - 1)
            ELSE s.payload[k - n]]

\* The options every header of the library has.
SentOptions(h) ==
    [p \in {20, 24, 25, 26, 27} |->
        IF p = 20 THEN MaxSegmentSize(h.maxSegmentSizeOption)
        ELSE IF p = 27 THEN EndOfOptions ELSE NoOperation]

\* The headers that the system puts before a UDP datagram with the given content.
DatagramHeaders(h, content) ==
    <<69, 0>> \o BigEndian(IP_HEADER_LENGTH + UDP_HEADER_LENGTH + Len(content))
    \o <<0, 1, 64, 0>> \o <<128, IPPROTO_UDP, 0, 0>> \o <<127, 0, 0, 1>> \o <<127, 0, 0, 1>>
    \o BigEndian(h.sourcePort) \o BigEndian(h.destinationPort)
    \o BigEndian(UDP_HEADER_LENGTH + Len(content)) \o <<0, 0>>

-----------------------------------------------------------------------------

Init ==
    /\ \/ /\ \E h \in Sent : segment = [header |-> h, options |-> SentOptions(h), payload |-> <<>>]
          /\ phase = "filling"
          /\ buffer = <<>>
       \/ /\ segment \in Foreign
          /\ phase = "sent"
          /\ buffer = Layout(segment)
    /\ offset = 0
    /\ header = <<>>
    /\ optionIndex = 0

\* sendTCPSegment, and the reset of processRawIPMessage.
Fill ==
    /\ phase = "filling"
    /\ phase' = "sent"
    /\ buffer' = fillSendBuffer(segment.header)
    /\ UNCHANGED <<segment, offset, header, optionIndex>>

\* parseTCPHeader on what was received, up to its loop.
Parse(recvbuf, at) ==
    /\ phase = "sent"
    /\ phase' = "options"
    /\ buffer' = recvbuf
    /\ offset' = at
    /\ header' = parseFixed(recvbuf, at)
    /\ optionIndex' = 20
    /\ UNCHANGED segment

\* recvbuf of processUDPMessage holds no more than the header that the library
\* sends: a longer datagram makes recv() fail, and is left out.
ReadUDP ==
    /\ Len(buffer) <= SEND_TCP_HEADER_LENGTH
    /\ Parse(buffer, 0)

ReadRaw ==
    Parse(DatagramHeaders(segment.header, buffer) \o buffer, IP_HEADER_LENGTH + UDP_HEADER_LENGTH)

\* The tests hand processRawIPMessage a header of the library behind mocked ones.
ReadMock ==
    /\ segment.header \in Sent
    /\ Parse(mockHeaders(1) \o buffer, IP_HEADER_LENGTH + UDP_HEADER_LENGTH)

InOptions == phase = "options" /\ optionIndex < getDataOffsetBytes(header)

Kind == <<Byte(buffer, offset + optionIndex)>>

SkipsTo(index) ==
    /\ optionIndex' = index
    /\ UNCHANGED <<segment, phase, buffer, offset>>

\* Mutant: continue without ++optionIndex.
SkipNoOperationStuck ==
    /\ InOptions
    /\ Kind = NoOperation
    /\ SkipsTo(optionIndex)
    /\ UNCHANGED header

SkipNoOperation ==
    /\ InOptions
    /\ Kind = NoOperation
    /\ SkipsTo(optionIndex + 1)
    /\ UNCHANGED header

\* Mutant: the step over the option one byte too long.
TakeMaxSegmentSizeTooLong ==
    /\ InOptions
    /\ Kind = <<2>>
    /\ header' = [header EXCEPT !.maxSegmentSizeOption = get16BitInt(buffer, offset + optionIndex + 2)]
    /\ SkipsTo(optionIndex + 5)

TakeMaxSegmentSize ==
    /\ InOptions
    /\ Kind = <<2>>
    /\ header' = [header EXCEPT !.maxSegmentSizeOption = get16BitInt(buffer, offset + optionIndex + 2)]
    /\ SkipsTo(optionIndex + 4)

\* The end of the list, of the header, or an option the parser does not know.
EndOptions ==
    /\ phase = "options"
    /\ InOptions => Kind \notin {NoOperation, <<2>>}
    /\ phase' = "parsed"
    /\ UNCHANGED <<segment, buffer, offset, header, optionIndex>>

Next == Fill \/ ReadUDP \/ ReadRaw \/ ReadMock \/ SkipNoOperation \/ TakeMaxSegmentSize \/ EndOptions

\* Sequential code, and a segment that is received by someone.
Spec == Init /\ [][Next]_vars /\ WF_vars(Next)

-----------------------------------------------------------------------------

Library == segment.header \in Sent

\* fillSendBuffer writes the header as RFC 793 lays it out, for every header the
\* senders give it: what another implementation would read is what was meant.
FilledAsRFC793 == phase = "sent" /\ Library => buffer = Layout(segment)

\* The last maximum segment size listed before the end of the list, or the default.
Listed(options) ==
    {p \in DOMAIN options :
        Len(options[p]) = 4 /\ \A q \in DOMAIN options : q < p => options[q] # EndOfOptions}

LastListed(options) == CHOOSE p \in Listed(options) : \A q \in Listed(options) : q <= p

ListedSize(options) ==
    IF Listed(options) = {} THEN 65535
    ELSE 256 * options[LastListed(options)][3] + options[LastListed(options)][4]

\* Whoever sent the segment and whichever socket it was read from, parseTCPHeader
\* ends with the header that was meant, and with the size its options list.
ParsedAsSent ==
    phase = "parsed" =>
        header = [segment.header EXCEPT !.maxSegmentSizeOption = ListedSize(segment.options)]

\* The loop over the options never steps past the header into the payload.
OptionsWithinHeader == phase # "sent" => (header = <<>> \/ optionIndex <= getDataOffsetBytes(header))

\* The loop of parseTCPHeader ends on every list of options.
ParsingEnds == <>(phase = "parsed")

\* segLen, which processRawIPMessage acknowledges from a closed port, is the length
\* of the payload: none, for the segments of the library.
SegLenIsPayload ==
    phase = "parsed" /\ offset > 0 =>
        Len(buffer) - IP_HEADER_LENGTH - UDP_HEADER_LENGTH - getDataOffsetBytes(header)
            = Len(segment.payload)

\* The three headers that processRawIPMessage takes from fixed offsets describe one
\* datagram: an unfragmented UDP one (its assertion) without options, as long as what
\* was received, between the ports and the addresses that the TCP header is about.
\* Of a datagram that the tests made up, only the first part is so.
RawHeadersAgree ==
    phase = "parsed" /\ offset > 0 =>
        LET ip  == parseIPv4Header(buffer, 0)
            udp == parseUDPHeader(buffer, IP_HEADER_LENGTH)
        IN  /\ ip.version = 4 /\ ip.protocol = IPPROTO_UDP
            /\ ip.dontFragment /\ ~ip.moreFragments /\ ip.fragmentOffset = 0
            /\ DATA_OFFSET_WORD_LENGTH * ip.headerLength = IP_HEADER_LENGTH
            /\ \/ /\ ip.sourceIPAddress = LOOPBACK /\ ip.destinationIPAddress = LOOPBACK
                  /\ ip.totalLength = Len(buffer)
                  /\ IP_HEADER_LENGTH + udp.length = ip.totalLength
                  /\ udp.sourcePort = header.sourcePort
                  /\ udp.destinationPort = header.destinationPort
               \/ /\ SubSeq(buffer, 1, offset) = mockHeaders(1)
                  /\ ip.sourceIPAddress = <<0, 0>> /\ udp.length = 0
                  /\ ip.totalLength < Len(buffer)

=============================================================================
