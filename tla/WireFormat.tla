----------------------------- MODULE WireFormat -----------------------------
(***************************************************************************)
(* How a TCP header becomes bytes and is read back: fillSendBuffer,        *)
(* parseTCPHeader with its loop over the options, and the IPv4 and UDP     *)
(* headers that the raw socket sees in front of it.                        *)
(*                                                                         *)
(* The 32-bit fields are pairs of 16-bit halves.  A buffer is a sequence   *)
(* of bytes; offsets count from 0, as the code's do.                       *)
(***************************************************************************)
EXTENDS Integers, Sequences

\* Constants.h and TCPHeader.h
IP_HEADER_LENGTH        == 20
UDP_HEADER_LENGTH       == 8
SEND_TCP_HEADER_LENGTH  == 28
DATA_OFFSET_WORD_LENGTH == 4
IPPROTO_UDP             == 17

EndOfOptions == <<0>>
NoOperation  == <<1>>
MaxSegmentSize(size) == <<2, 4, size \div 256, size % 256>>

-----------------------------------------------------------------------------
(* ByteInserter and ByteExtractor *)

insert8BitInt(n) == <<n % 256>>

\* Mutant: the bytes of a number in the order of the processor.
insert16BitIntLittleEndian(n) == <<n % 256, (n \div 256) % 256>>

insert16BitInt(n) == <<(n \div 256) % 256, n % 256>>

insert32BitInt(n) == insert16BitInt(n[1]) \o insert16BitInt(n[2])

Byte(buf, offset) == buf[offset + 1]

\* Mutant: bits counted from the least significant one.
getBitFromRight(buf, offset, index) == (Byte(buf, offset) \div 2^index) % 2 = 1

getBit(buf, offset, index) == (Byte(buf, offset) \div 2^(7 - index)) % 2 = 1

get4BitInt(buf, offset, leading) ==
    IF leading THEN Byte(buf, offset) \div 16 ELSE Byte(buf, offset) % 16

get16BitInt(buf, offset) == 256 * Byte(buf, offset) + Byte(buf, offset + 1)

get32BitInt(buf, offset) == <<get16BitInt(buf, offset), get16BitInt(buf, offset + 2)>>

-----------------------------------------------------------------------------
(* TCPHeader *)

Shift == [URG |-> 5, ACK |-> 4, PSH |-> 3, RST |-> 2, SYN |-> 1, FIN |-> 0]

Flag(control, bit) == IF bit \in control THEN 2^Shift[bit] ELSE 0

flags(control) ==
    Flag(control, "URG") + Flag(control, "ACK") + Flag(control, "PSH")
    + Flag(control, "RST") + Flag(control, "SYN") + Flag(control, "FIN")

\* The checksum is sent as 0.
fillSendBuffer(h) ==
    insert16BitInt(h.sourcePort) \o insert16BitInt(h.destinationPort)
    \o insert32BitInt(h.sequenceNumber) \o insert32BitInt(h.ackNumber)
    \o insert8BitInt(16 * h.dataOffset + (h.reserved \div 4))
    \o insert8BitInt(64 * h.reserved + flags(h.control))
    \o insert16BitInt(h.windowSize) \o insert16BitInt(0)
    \o insert16BitInt(h.urgentPointer)
    \o MaxSegmentSize(h.maxSegmentSizeOption)
    \o NoOperation \o NoOperation \o NoOperation \o EndOfOptions

Index == [URG |-> 2, ACK |-> 3, PSH |-> 4, RST |-> 5, SYN |-> 6, FIN |-> 7]

\* Mutant: the two bits of the second byte forgotten.
reservedCut(buf, at) == 4 * get4BitInt(buf, at + 12, FALSE)

\* The six reserved bits lie across two bytes.
reserved(buf, at) == 4 * get4BitInt(buf, at + 12, FALSE) + (Byte(buf, at + 13) \div 64)

controlBits(buf, at) == {bit \in DOMAIN Index : getBit(buf, at + 13, Index[bit])}

\* parseTCPHeader up to its loop.
parseFixed(buf, at) ==
    [sourcePort      |-> get16BitInt(buf, at),
     destinationPort |-> get16BitInt(buf, at + 2),
     sequenceNumber  |-> get32BitInt(buf, at + 4),
     ackNumber       |-> get32BitInt(buf, at + 8),
     dataOffset      |-> get4BitInt(buf, at + 12, TRUE),
     reserved        |-> reserved(buf, at),
     control         |-> controlBits(buf, at),
     windowSize      |-> get16BitInt(buf, at + 14),
     checksum        |-> get16BitInt(buf, at + 16),
     urgentPointer   |-> get16BitInt(buf, at + 18),
     maxSegmentSizeOption |-> 65535]

\* Mutant: the offset in words taken for one in bytes.
getDataOffsetWords(h) == h.dataOffset

getDataOffsetBytes(h) == DATA_OFFSET_WORD_LENGTH * h.dataOffset

-----------------------------------------------------------------------------
(* IPv4Header and UDPHeader, from the offset at *)

parseIPv4Header(buf, at) ==
    [version       |-> get4BitInt(buf, at, TRUE),
     headerLength  |-> get4BitInt(buf, at, FALSE),
     totalLength   |-> get16BitInt(buf, at + 2),
     dontFragment  |-> getBit(buf, at + 6, 1),
     moreFragments |-> getBit(buf, at + 6, 2),
     fragmentOffset |-> 256 * (Byte(buf, at + 6) % 32) + Byte(buf, at + 7),
     timeToLive    |-> Byte(buf, at + 8),
     protocol      |-> Byte(buf, at + 9),
     sourceIPAddress      |-> get32BitInt(buf, at + 12),
     destinationIPAddress |-> get32BitInt(buf, at + 16)]

parseUDPHeader(buf, at) ==
    [sourcePort      |-> get16BitInt(buf, at),
     destinationPort |-> get16BitInt(buf, at + 2),
     length          |-> get16BitInt(buf, at + 4)]

-----------------------------------------------------------------------------
(* IPv4HeaderMock, of the tests *)

IPv4_Version       == 4
IPv4_HEADER_LENGTH == 5
IPv4_TTL           == 60

\* What the tests put before a segment for the raw socket: a length of 48, no
\* addresses, and zeros in place of the UDP header.  Only dontFragment is set.
mockHeaders(identification) ==
    insert8BitInt(16 * IPv4_Version + IPv4_HEADER_LENGTH) \o insert8BitInt(0)
    \o insert16BitInt(48) \o insert16BitInt(identification)
    \o insert8BitInt(2^6) \o insert8BitInt(0)
    \o insert8BitInt(IPv4_TTL) \o insert8BitInt(IPPROTO_UDP) \o insert16BitInt(0)
    \o insert32BitInt(<<0, 0>>) \o insert32BitInt(<<0, 0>>)
    \o insert32BitInt(<<0, 0>>) \o insert32BitInt(<<0, 0>>)

=============================================================================
