----------------------- MODULE SegmentReading_proofs -----------------------
(***************************************************************************)
(* Proofs about filling in and reading segments, for every header that the *)
(* library sends, and every segment of another program with options as     *)
(* RFC 793 wants them.                                                     *)
(***************************************************************************)
EXTENDS SegmentReading, SequenceTheorems, TLAPS

-----------------------------------------------------------------------------
(***************************************************************************)
(* Bits and bytes.                                                         *)
(***************************************************************************)

\* A number of 16 bits.
LEMMA HalfRange ==
    ASSUME NEW w
    PROVE  w \in Half <=> w \in Int /\ 0 <= w /\ w <= 65535
<1>1. UINT16_MAX = 65535
  BY DEF UINT16_MAX
<1>2. UINT16_MAX \in Int
  BY <1>1
<1>3. w \in Half <=> w \in Int /\ 0 <= w /\ w <= UINT16_MAX
  BY <1>2 DEF Half
<1> QED
  BY <1>1, <1>3

Bit01 == {0, 1}

\* The six control bits of a byte, under the two bits of another field.
FlagsByte(x, u, a, p, r, s, f) == 64 * x + 32 * u + 16 * a + 8 * p + 4 * r + 2 * s + f

BitsAre(b, x, u, a, p, r, s, f) ==
    /\ b \in 0 .. 255 /\ b \div 64 = x
    /\ (b \div 32) % 2 = u /\ (b \div 16) % 2 = a /\ (b \div 8) % 2 = p
    /\ (b \div 4) % 2 = r /\ (b \div 2) % 2 = s /\ (b \div 1) % 2 = f

LEMMA BitsOfByte ==
    ASSUME NEW x \in 0 .. 3, NEW u \in Bit01, NEW a \in Bit01, NEW p \in Bit01,
           NEW r \in Bit01, NEW s \in Bit01, NEW f \in Bit01
    PROVE  BitsAre(FlagsByte(x, u, a, p, r, s, f), x, u, a, p, r, s, f)
BY DEF Bit01, FlagsByte, BitsAre

\* The control bits that a byte holds.
ControlBits(b) == {bit \in DOMAIN Index : (b \div 2^(7 - Index[bit])) % 2 = 1}

\* The reserved bits and the control bits share a byte.
LowByte(x, c) == 64 * x + c

LEMMA ControlByte ==
    ASSUME NEW c \in SUBSET DOMAIN Index, NEW x \in 0 .. 3, NEW b, b = LowByte(x, ControlWord(c))
    PROVE  /\ b \in 0 .. 255 /\ b \div 64 = x
           /\ ControlWord(c) \in 0 .. 63
           /\ ControlBits(b) = c
<1> DEFINE v(bit) == IF bit \in c THEN 1 ELSE 0
<1>1. /\ v("URG") \in Bit01 /\ v("ACK") \in Bit01 /\ v("PSH") \in Bit01
      /\ v("RST") \in Bit01 /\ v("SYN") \in Bit01 /\ v("FIN") \in Bit01
  BY DEF Bit01
<1>2. b = FlagsByte(x, v("URG"), v("ACK"), v("PSH"), v("RST"), v("SYN"), v("FIN"))
  BY DEF ControlWord, FlagsByte, LowByte
<1> HIDE DEF v
<1>3. BitsAre(b, x, v("URG"), v("ACK"), v("PSH"), v("RST"), v("SYN"), v("FIN"))
  <2>1. BitsAre(FlagsByte(x, v("URG"), v("ACK"), v("PSH"), v("RST"), v("SYN"), v("FIN")),
                x, v("URG"), v("ACK"), v("PSH"), v("RST"), v("SYN"), v("FIN"))
    BY <1>1, BitsOfByte, Zenon
  <2> QED
    BY <1>2, <2>1, Zenon
<1>4. ControlWord(c) \in 0 .. 63
  BY DEF ControlWord
<1>5. /\ 2^5 = 32 /\ 2^4 = 16 /\ 2^3 = 8 /\ 2^2 = 4 /\ 2^1 = 2 /\ 2^0 = 1
      /\ 7 - 2 = 5 /\ 7 - 3 = 4 /\ 7 - 4 = 3 /\ 7 - 5 = 2 /\ 7 - 6 = 1 /\ 7 - 7 = 0
  OBVIOUS
<1>6. \A bit \in DOMAIN Index : (b \div 2^(7 - Index[bit])) % 2 = v(bit)
  <2> SUFFICES ASSUME NEW bit \in DOMAIN Index
               PROVE  (b \div 2^(7 - Index[bit])) % 2 = v(bit)
    OBVIOUS
  <2>1. CASE bit = "URG"
    BY <2>1, <1>3, <1>5 DEF Index, BitsAre
  <2>2. CASE bit = "ACK"
    BY <2>2, <1>3, <1>5 DEF Index, BitsAre
  <2>3. CASE bit = "PSH"
    BY <2>3, <1>3, <1>5 DEF Index, BitsAre
  <2>4. CASE bit = "RST"
    BY <2>4, <1>3, <1>5 DEF Index, BitsAre
  <2>5. CASE bit = "SYN"
    BY <2>5, <1>3, <1>5 DEF Index, BitsAre
  <2>6. CASE bit = "FIN"
    BY <2>6, <1>3, <1>5 DEF Index, BitsAre
  <2> QED
    BY <2>1, <2>2, <2>3, <2>4, <2>5, <2>6 DEF Index
<1>7. \A bit \in DOMAIN Index : v(bit) = 1 <=> bit \in c
  BY DEF v
<1> QED
  BY <1>3, <1>4, <1>6, <1>7 DEF BitsAre, ControlBits

\* fillSendBuffer and RFC 793 give the control bits the same weights.
LEMMA FlagsValue == ASSUME NEW c PROVE flags(c) = ControlWord(c)
<1>1. /\ 2^5 = 32 /\ 2^4 = 16 /\ 2^3 = 8 /\ 2^2 = 4 /\ 2^1 = 2 /\ 2^0 = 1
  OBVIOUS
<1> QED
  BY <1>1 DEF flags, Flag, Shift, ControlWord

\* A number of 16 bits is its two bytes.
LEMMA HalfBytes ==
    ASSUME NEW w \in Half
    PROVE  /\ w \div 256 \in Int /\ 0 <= w \div 256 /\ w \div 256 <= 255
           /\ w % 256 \in Int /\ 0 <= w % 256 /\ w % 256 <= 255
           /\ (w \div 256) % 256 = w \div 256
           /\ 256 * (w \div 256) + (w % 256) = w
<1>1. w \in Int /\ 0 <= w /\ w <= 65535
  BY HalfRange
<1>2. w \div 256 \in Int /\ 0 <= w \div 256 /\ w \div 256 <= 255
  BY <1>1
<1>3. w % 256 \in Int /\ 0 <= w % 256 /\ w % 256 <= 255
  BY <1>1
<1>4. 256 * (w \div 256) + (w % 256) = w
  BY <1>1
<1>5. (w \div 256) % 256 = w \div 256
  BY <1>2
<1> QED
  BY <1>2, <1>3, <1>4, <1>5

-----------------------------------------------------------------------------
(***************************************************************************)
(* Sequences.                                                              *)
(***************************************************************************)

\* A buffer that holds the first n bytes of L, and gets its next ones.
Begins(B, L, n) == B \in Seq(Int) /\ Len(B) = n /\ \A i \in 1 .. n : B[i] = L[i]

LEMMA BeginsMore ==
    ASSUME NEW L, NEW n \in Nat, NEW B, Begins(B, L, n), NEW T \in Seq(Int),
           NEW m \in Nat, Len(T) = m, \A j \in 1 .. m : L[n + j] = T[j]
    PROVE  Begins(B \o T, L, n + m)
<1>1. B \in Seq(Int) /\ Len(B) = n /\ \A i \in 1 .. n : B[i] = L[i]
  BY DEF Begins
<1>2. /\ B \o T \in Seq(Int)
      /\ Len(B \o T) = n + m
      /\ \A i \in 1 .. n + m : (B \o T)[i] = IF i <= n THEN B[i] ELSE T[i - n]
  <2>1. /\ B \o T \in Seq(Int)
        /\ Len(B \o T) = Len(B) + Len(T)
        /\ \A i \in 1 .. Len(B) + Len(T) :
               (B \o T)[i] = IF i <= Len(B) THEN B[i] ELSE T[i - Len(B)]
    BY <1>1, ConcatProperties, Zenon
  <2> QED
    BY <1>1, <2>1, Zenon
<1>3. ASSUME NEW i \in 1 .. n + m
      PROVE  (B \o T)[i] = L[i]
  <2>1. CASE i <= n
    <3>1. i \in 1 .. n
      BY <2>1
    <3> QED
      BY <3>1, <2>1, <1>1, <1>2
  <2>2. CASE ~(i <= n)
    <3>1. i - n \in 1 .. m /\ n + (i - n) = i
      BY <2>2
    <3>2. L[n + (i - n)] = T[i - n]
      BY <3>1
    <3> QED
      BY <3>1, <3>2, <2>2, <1>2
  <2> QED
    BY <2>1, <2>2
<1> QED
  BY <1>2, <1>3 DEF Begins

LEMMA BeginsOne ==
    ASSUME NEW L, NEW n \in Nat, NEW B, Begins(B, L, n), NEW a \in Int, L[n + 1] = a
    PROVE  Begins(B \o <<a>>, L, n + 1)
<1>1. PICK T : T = <<a>>
  OBVIOUS
<1>2. T \in Seq(Int) /\ Len(T) = 1 /\ T[1] = a
  BY <1>1
<1>3. \A j \in 1 .. 1 : L[n + j] = T[j]
  BY <1>2
<1>4. Begins(B \o T, L, n + 1)
  BY <1>2, <1>3, BeginsMore, Zenon
<1> QED
  BY <1>1, <1>4

LEMMA BeginsTwo ==
    ASSUME NEW L, NEW n \in Nat, NEW B, Begins(B, L, n),
           NEW a \in Int, NEW b \in Int, L[n + 1] = a, L[n + 2] = b
    PROVE  Begins(B \o <<a, b>>, L, n + 2)
<1>1. PICK T : T = <<a, b>>
  OBVIOUS
<1>2. T \in Seq(Int) /\ Len(T) = 2 /\ T[1] = a /\ T[2] = b
  BY <1>1
<1>3. \A j \in 1 .. 2 : L[n + j] = T[j]
  BY <1>2
<1>4. Begins(B \o T, L, n + 2)
  BY <1>2, <1>3, BeginsMore, Zenon
<1> QED
  BY <1>1, <1>4

LEMMA BeginsFour ==
    ASSUME NEW L, NEW n \in Nat, NEW B, Begins(B, L, n),
           NEW a \in Int, NEW b \in Int, NEW c \in Int, NEW d \in Int,
           L[n + 1] = a, L[n + 2] = b, L[n + 3] = c, L[n + 4] = d
    PROVE  Begins(B \o <<a, b, c, d>>, L, n + 4)
<1>1. PICK T : T = <<a, b, c, d>>
  OBVIOUS
<1>2. T \in Seq(Int) /\ Len(T) = 4 /\ T[1] = a /\ T[2] = b /\ T[3] = c /\ T[4] = d
  BY <1>1
<1>3. \A j \in 1 .. 4 : L[n + j] = T[j]
  BY <1>2
<1>4. Begins(B \o T, L, n + 4)
  BY <1>2, <1>3, BeginsMore, Zenon
<1> QED
  BY <1>1, <1>4

\* What the library writes for numbers of 16 and of 32 bits.
IsWord(L, n, w) == w \in Half /\ L[n + 1] = w \div 256 /\ L[n + 2] = w % 256

LEMMA BeginsWord ==
    ASSUME NEW L, NEW n \in Nat, NEW B, Begins(B, L, n), NEW w, IsWord(L, n, w)
    PROVE  /\ Begins(B \o insert16BitInt(w), L, n + 2)
           /\ insert16BitInt(w) \in Seq(Int)
<1>1. PICK a : a = w \div 256
  OBVIOUS
<1>2. PICK b : b = w % 256
  OBVIOUS
<1>3. a \in Int /\ b \in Int /\ insert16BitInt(w) = <<a, b>>
  BY <1>1, <1>2, HalfBytes DEF IsWord, insert16BitInt
<1>4. L[n + 1] = a /\ L[n + 2] = b
  BY <1>1, <1>2 DEF IsWord
<1>5. Begins(B \o <<a, b>>, L, n + 2)
  BY <1>3, <1>4, BeginsTwo, Zenon
<1> QED
  BY <1>3, <1>5

LEMMA ConcatOfInts ==
    ASSUME NEW B \in Seq(Int), NEW x \in Seq(Int), NEW y \in Seq(Int)
    PROVE  B \o (x \o y) = (B \o x) \o y
<1>1. PICK S : S = Int
  OBVIOUS
<1>2. (B \o x) \o y = B \o (x \o y)
  BY <1>1
<1> QED
  BY <1>2, Zenon

LEMMA BeginsLong ==
    ASSUME NEW L, NEW n \in Nat, NEW B, Begins(B, L, n), NEW w,
           IsWord(L, n, w[1]), IsWord(L, n + 2, w[2])
    PROVE  Begins(B \o insert32BitInt(w), L, n + 4)
<1> DEFINE x == insert16BitInt(w[1])
           y == insert16BitInt(w[2])
<1>1. Begins(B \o x, L, n + 2) /\ x \in Seq(Int)
  BY BeginsWord, Zenon
<1>2. n + 2 \in Nat /\ (n + 2) + 2 = n + 4
  OBVIOUS
<1>3. Begins((B \o x) \o y, L, (n + 2) + 2) /\ y \in Seq(Int)
  BY <1>1, <1>2, BeginsWord, Zenon
<1>4. B \in Seq(Int)
  BY DEF Begins
<1>5. B \o (x \o y) = (B \o x) \o y
  BY <1>1, <1>3, <1>4, ConcatOfInts
<1> QED
  BY <1>2, <1>3, <1>5 DEF insert32BitInt

LEMMA SeqOfInts ==
    ASSUME NEW S, NEW L \in Seq(S), \A i \in 1 .. Len(L) : L[i] \in Int
    PROVE  L \in Seq(Int)
<1>1. Len(L) \in Nat /\ L \in [1 .. Len(L) -> S]
  BY LenProperties, Zenon
<1>2. L \in [1 .. Len(L) -> Int]
  BY <1>1
<1>3. PICK n \in Nat : n = Len(L)
  BY <1>1
<1>4. L \in [1 .. n -> Int]
  BY <1>2, <1>3
<1>5. Seq(Int) = UNION {[1 .. k -> Int] : k \in Nat}
  BY SeqDef, Zenon
<1>6. L \in UNION {[1 .. k -> Int] : k \in Nat}
  BY <1>4
<1> QED
  BY <1>5, <1>6, ZenonT(40)

\* A buffer that holds all of it.
LEMMA BeginsWhole ==
    ASSUME NEW L \in Seq(Int), NEW B, Begins(B, L, Len(L))
    PROVE  B = L
<1>1. B \in Seq(Int) /\ Len(B) = Len(L) /\ \A i \in 1 .. Len(L) : B[i] = L[i]
  BY Zenon DEF Begins
<1> QED
  BY <1>1, SeqEqual, Zenon

\* What follows a prefix is found behind it.
Behind(C, P, L) ==
    /\ Len(C) = Len(P) + Len(L)
    /\ \A i \in 1 .. Len(P) : C[i] = P[i]
    /\ \A i \in 1 .. Len(L) : C[Len(P) + i] = L[i]

LEMMA BehindPrefix ==
    ASSUME NEW S, NEW P \in Seq(S), NEW T, NEW L \in Seq(T)
    PROVE  Behind(P \o L, P, L)
<1>1. P \in Seq(S \cup T) /\ L \in Seq(S \cup T)
  OBVIOUS
<1> QED
  BY <1>1 DEF Behind

LEMMA PrefixAgain ==
    ASSUME NEW S, NEW P \in Seq(S), NEW T, NEW L \in Seq(T)
    PROVE  SubSeq(P \o L, 1, Len(P)) = P
<1> DEFINE U == S \cup T
<1>1. P \in Seq(U) /\ L \in Seq(U)
  OBVIOUS
<1> HIDE DEF U
<1>2. /\ P \o L \in Seq(U) /\ Len(P \o L) = Len(P) + Len(L)
      /\ \A i \in 1 .. Len(P) + Len(L) :
             (P \o L)[i] = IF i <= Len(P) THEN P[i] ELSE L[i - Len(P)]
  BY <1>1, ConcatProperties, Zenon
<1>3. Len(P) \in Nat /\ Len(L) \in Nat
  BY <1>1
<1> QED
  BY <1>1, <1>2, <1>3

-----------------------------------------------------------------------------
(***************************************************************************)
(* The layout of RFC 793.                                                  *)
(***************************************************************************)

\* The words of a header are numbers of 16 bits.
LEMMA WordsType ==
    ASSUME NEW h \in TCPHeader
    PROVE  \A i \in 1 .. 10 : HeaderWords(h)[i] \in Half
<1>1. /\ h.sourcePort \in Half /\ h.destinationPort \in Half
      /\ h.sequenceNumber[1] \in Half /\ h.sequenceNumber[2] \in Half
      /\ h.ackNumber[1] \in Half /\ h.ackNumber[2] \in Half
      /\ h.windowSize \in Half /\ h.checksum \in Half /\ h.urgentPointer \in Half
      /\ h.dataOffset \in 5 .. 15 /\ h.reserved \in 0 .. 63
      /\ h.control \in SUBSET DOMAIN Index
  BY DEF TCPHeader
<1>2. ControlWord(h.control) \in 0 .. 63
  BY DEF ControlWord
<1>3. 4096 * h.dataOffset + 64 * h.reserved + ControlWord(h.control) \in Half
  <2>1. /\ h.dataOffset \in Int /\ 5 <= h.dataOffset /\ h.dataOffset <= 15
        /\ h.reserved \in Int /\ 0 <= h.reserved /\ h.reserved <= 63
    BY <1>1
  <2>2. /\ ControlWord(h.control) \in Int /\ 0 <= ControlWord(h.control)
        /\ ControlWord(h.control) <= 63
    BY <1>2
  <2>3. PICK w \in Int : w = 4096 * h.dataOffset + 64 * h.reserved + ControlWord(h.control)
    BY <2>1, <2>2
  <2>4. 0 <= w /\ w <= 65535
    BY <2>1, <2>2, <2>3
  <2>5. w \in Half
    BY <2>4, HalfRange
  <2> QED
    BY <2>3, <2>5
<1> QED
  BY <1>1, <1>3 DEF HeaderWords

\* The layout of a segment: the words of its header, its options, its payload.
LaidOut(L, w, o, n, m) ==
    /\ n \in 20 .. 60
    /\ Len(L) = n + m
    /\ L \in Seq({L[k] : k \in 1 .. n + m})
    /\ \A i \in 1 .. 10 : L[2 * i - 1] = w[i] \div 256 /\ L[2 * i] = w[i] % 256
    /\ \A k \in 21 .. n : L[k] = OptionByte(o, k - 1)

LEMMA LayoutBytes ==
    ASSUME NEW s, IsSegment(s)
    PROVE  LaidOut(Layout(s), HeaderWords(s.header), s.options,
                   getDataOffsetBytes(s.header), Len(s.payload))
<1>1. s.header.dataOffset \in 5 .. 15 /\ Len(s.payload) \in Nat
  BY DEF IsSegment, TCPHeader
<1>2. PICK n \in 20 .. 60 : n = 4 * s.header.dataOffset
  <2>1. \A d \in 5 .. 15 : 4 * d \in 20 .. 60
    OBVIOUS
  <2> QED
    BY <1>1, <2>1, Zenon
<1>3. PICK m \in Nat : m = Len(s.payload)
  BY <1>1
<1>4. n = getDataOffsetBytes(s.header)
  BY <1>1, <1>2 DEF getDataOffsetBytes, DATA_OFFSET_WORD_LENGTH
<1> DEFINE w == HeaderWords(s.header)
           L == Layout(s)
           e(k) == IF k <= 20 THEN BigEndian(w[(k + 1) \div 2])[2 - (k % 2)]
                   ELSE IF k <= n THEN OptionByte(s.options, k - 1)
                   ELSE s.payload[k - n]
<1>5. L = [k \in 1 .. n + m |-> e(k)]
  BY <1>2, <1>3 DEF Layout
<1>6. DOMAIN L = 1 .. n + m /\ \A k \in 1 .. n + m : L[k] = e(k)
  BY <1>5, Zenon
<1>7. ASSUME NEW i \in 1 .. 10
      PROVE  L[2 * i - 1] = w[i] \div 256 /\ L[2 * i] = w[i] % 256
  <2>1. /\ 2 * i - 1 \in 1 .. n + m /\ 2 * i \in 1 .. n + m
        /\ 2 * i - 1 <= 20 /\ 2 * i <= 20
    OBVIOUS
  <2>2. /\ ((2 * i - 1) + 1) \div 2 = i /\ 2 - ((2 * i - 1) % 2) = 1
        /\ (2 * i + 1) \div 2 = i /\ 2 - ((2 * i) % 2) = 2
    OBVIOUS
  <2>3. e(2 * i - 1) = BigEndian(w[i])[1] /\ e(2 * i) = BigEndian(w[i])[2]
    BY <2>1, <2>2
  <2> QED
    BY <1>6, <2>1, <2>3 DEF BigEndian
<1>8. ASSUME NEW k \in 21 .. n
      PROVE  L[k] = OptionByte(s.options, k - 1)
  <2>1. k \in 1 .. n + m /\ ~(k <= 20) /\ k <= n
    OBVIOUS
  <2> QED
    BY <1>6, <2>1
<1> HIDE DEF L, w, e
<1>9. L = [k \in 1 .. n + m |-> L[k]]
  BY <1>5, <1>6
<1>10. Len(L) = n + m /\ L \in Seq({L[k] : k \in 1 .. n + m})
  <2> DEFINE S == {L[k] : k \in 1 .. n + m}
  <2>1. PICK j \in Nat : j = n + m
    OBVIOUS
  <2>2. L \in [1 .. j -> S]
    BY <1>9, <2>1
  <2> HIDE DEF S
  <2>3. Len(L) = j /\ L \in Seq(S)
    BY <2>2
  <2> QED
    BY <2>1, <2>3 DEF S
<1> QED
  <2>1. LaidOut(L, w, s.options, n, m)
    BY <1>7, <1>8, <1>10 DEF LaidOut
  <2> QED
    BY <2>1, <1>3, <1>4 DEF L, w

\* The bytes of an option are where the option is.
LEMMA OptionBytes ==
    ASSUME NEW o, NEW n \in Nat, WellFormed(o, n), NEW p \in DOMAIN o,
           NEW j \in 0 .. 3, j < Len(o[p])
    PROVE  /\ p \in 20 .. n - 1 /\ p + j \in 20 .. n - 1
           /\ OptionByte(o, p + j) = o[p][j + 1]
<1>1. p \in 20 .. n - 1 /\ \A q \in DOMAIN o : q \in 20 .. n - 1
  BY DEF WellFormed
<1>2. \A q \in DOMAIN o : Len(o[q]) \in {1, 4}
  BY DEF WellFormed, EndOfOptions, NoOperation, MaxSegmentSize
<1>3. p + Len(o[p]) \in DOMAIN o \cup {n}
  BY DEF WellFormed
<1>4. p + j \in 20 .. n - 1
  BY <1>1, <1>2, <1>3
<1>5. ASSUME NEW q \in DOMAIN o, q <= p + j, p + j < q + Len(o[q])
      PROVE  q = p
  <2>1. CASE p < q
    BY <2>1, <1>1, <1>2, <1>5 DEF WellFormed
  <2>2. CASE q < p
    BY <2>2, <1>1, <1>2, <1>5 DEF WellFormed
  <2> QED
    BY <1>1, <2>1, <2>2
<1>6. p <= p + j /\ p + j < p + Len(o[p])
  BY <1>1, <1>2
<1>7. (CHOOSE q \in DOMAIN o : q <= p + j /\ p + j < q + Len(o[q])) = p
  BY <1>5, <1>6
<1>8. (p + j) - p + 1 = j + 1
  BY <1>1
<1> QED
  BY <1>1, <1>4, <1>7, <1>8 DEF OptionByte

-----------------------------------------------------------------------------
(***************************************************************************)
(* fillSendBuffer.                                                         *)
(***************************************************************************)

\* The segment that a sender of the library means.
SentSegment(h) == [header |-> h, options |-> SentOptions(h), payload |-> <<>>]

\* The word that both write, and the two bytes that the library makes of it.
MixedWord(d, x, c) == 4096 * d + 64 * x + c

TwoBytes(w, d, x, c) ==
    /\ w \div 256 = 16 * d + (x \div 4)
    /\ (16 * d + (x \div 4)) % 256 = 16 * d + (x \div 4)
    /\ w % 256 = 64 * (x % 4) + c
    /\ (64 * x + c) % 256 = 64 * (x % 4) + c

LEMMA ControlWordBytes ==
    ASSUME NEW d \in Int, 5 <= d, d <= 15, NEW x \in Int, 0 <= x, x <= 63,
           NEW c \in Int, 0 <= c, c <= 63
    PROVE  TwoBytes(MixedWord(d, x, c), d, x, c)
<1> DEFINE y == x \div 4
           z == x % 4
<1>1. /\ y \in Int /\ z \in Int /\ 0 <= y /\ y <= 15 /\ 0 <= z /\ z <= 3
      /\ x = 4 * y + z
  OBVIOUS
<1> HIDE DEF y, z
<1>2. /\ 4096 * d + 64 * x + c = 256 * (16 * d + y) + (64 * z + c)
      /\ 64 * x + c = 256 * y + (64 * z + c)
      /\ 0 <= 64 * z + c /\ 64 * z + c <= 255 /\ 0 <= 16 * d + y /\ 16 * d + y <= 255
  BY <1>1
<1>3. /\ (4096 * d + 64 * x + c) \div 256 = 16 * d + y
      /\ (4096 * d + 64 * x + c) % 256 = 64 * z + c
  BY <1>1, <1>2
<1>4. (64 * x + c) % 256 = 64 * z + c
  BY <1>1, <1>2
<1>5. (16 * d + y) % 256 = 16 * d + y
  BY <1>1, <1>2
<1> QED
  BY <1>3, <1>4, <1>5 DEF y, z, MixedWord, TwoBytes

\* The header of a segment, and its control bits, as numbers.
LEMMA HeaderNumbers ==
    ASSUME NEW h \in TCPHeader
    PROVE  /\ h.dataOffset \in Int /\ 5 <= h.dataOffset /\ h.dataOffset <= 15
           /\ h.reserved \in Int /\ 0 <= h.reserved /\ h.reserved <= 63
           /\ ControlWord(h.control) \in Int /\ 0 <= ControlWord(h.control)
           /\ ControlWord(h.control) <= 63
<1>1. ControlWord(h.control) \in 0 .. 63
  BY DEF ControlWord
<1>2. h.dataOffset \in 5 .. 15 /\ h.reserved \in 0 .. 63
  BY DEF TCPHeader
<1> QED
  BY <1>1, <1>2

\* The options that the library sends are well formed.
LEMMA SentIsSegment ==
    ASSUME NEW h \in Sent
    PROVE  /\ h \in TCPHeader /\ h.dataOffset = 7 /\ h.checksum = 0
           /\ IsSegment(SentSegment(h))
<1>1. h \in TCPHeader /\ h.dataOffset = 7 /\ h.checksum = 0
  BY SentAssumption
<1>2. h.maxSegmentSizeOption \in Half
  BY <1>1 DEF TCPHeader
<1> DEFINE o == SentOptions(h)
<1>3. /\ DOMAIN o = {20, 24, 25, 26, 27}
      /\ o[20] = MaxSegmentSize(h.maxSegmentSizeOption) /\ Len(o[20]) = 4
      /\ o[24] = NoOperation /\ o[25] = NoOperation /\ o[26] = NoOperation
      /\ o[27] = EndOfOptions
  BY DEF SentOptions, MaxSegmentSize
<1>4. /\ Len(NoOperation) = 1 /\ Len(EndOfOptions) = 1 /\ NoOperation # EndOfOptions
      /\ o[20] # EndOfOptions
  BY <1>3 DEF NoOperation, EndOfOptions
<1> HIDE DEF o
<1>5. WellFormed(o, 28)
  <2>1. DOMAIN o \subseteq 20 .. 27 /\ 20 \in DOMAIN o /\ 28 - 1 = 27
    BY <1>3
  <2>2. ASSUME NEW p \in DOMAIN o
        PROVE  /\ \/ o[p] \in {EndOfOptions, NoOperation}
                  \/ \E size \in Half : o[p] = MaxSegmentSize(size)
               /\ p + Len(o[p]) \in DOMAIN o \cup {28}
               /\ \A q \in DOMAIN o : p < q => p + Len(o[p]) <= q
               /\ \A q \in DOMAIN o : p < q => o[p] # EndOfOptions
    <3>1. CASE p = 20
      BY <3>1, <1>2, <1>3, <1>4
    <3>2. CASE p = 24
      BY <3>2, <1>3, <1>4
    <3>3. CASE p = 25
      BY <3>3, <1>3, <1>4
    <3>4. CASE p = 26
      BY <3>4, <1>3, <1>4
    <3>5. CASE p = 27
      BY <3>5, <1>3, <1>4
    <3> QED
      BY <3>1, <3>2, <3>3, <3>4, <3>5, <1>3
  <2> QED
    BY <2>1, <2>2 DEF WellFormed
<1>6. getDataOffsetBytes(h) = 28
  BY <1>1 DEF getDataOffsetBytes, DATA_OFFSET_WORD_LENGTH
<1>7. <<>> \in Seq(Octet) /\ Len(<<>>) = 0
  OBVIOUS
<1> QED
  BY <1>1, <1>5, <1>6, <1>7
     DEF IsSegment, SentSegment, IP_HEADER_LENGTH, UDP_HEADER_LENGTH, o

\* The length of a header of the library, and the bytes of its options.
SentBytes(L, w, m) ==
    /\ Len(L) = 28
    /\ L \in Seq({L[k] : k \in 1 .. 28})
    /\ \A i \in 1 .. 10 : L[2 * i - 1] = w[i] \div 256 /\ L[2 * i] = w[i] % 256
    /\ L[21] = 2 /\ L[22] = 4 /\ L[23] = m \div 256 /\ L[24] = m % 256
    /\ L[25] = 1 /\ L[26] = 1 /\ L[27] = 1 /\ L[28] = 0

LEMMA SentLayout ==
    ASSUME NEW h \in Sent
    PROVE  SentBytes(Layout(SentSegment(h)), HeaderWords(h), h.maxSegmentSizeOption)
<1> DEFINE s == SentSegment(h)
           o == SentOptions(h)
           L == Layout(s)
<1>1. s.header = h /\ s.options = o /\ Len(s.payload) = 0
  BY DEF SentSegment
<1>2. IsSegment(s) /\ h.dataOffset = 7 /\ 4 * h.dataOffset = 28
  BY SentIsSegment
<1>3. WellFormed(o, 28)
  BY <1>1, <1>2 DEF IsSegment, getDataOffsetBytes, DATA_OFFSET_WORD_LENGTH
<1>4. /\ Len(L) = 28
      /\ L \in Seq({L[k] : k \in 1 .. 28})
      /\ \A i \in 1 .. 10 : /\ L[2 * i - 1] = HeaderWords(h)[i] \div 256
                            /\ L[2 * i] = HeaderWords(h)[i] % 256
      /\ \A k \in 21 .. 28 : L[k] = OptionByte(o, k - 1)
  <2> HIDE DEF s, o
  <2>1. getDataOffsetBytes(s.header) = 28
    BY <1>1, <1>2 DEF getDataOffsetBytes, DATA_OFFSET_WORD_LENGTH
  <2>2. LaidOut(L, HeaderWords(h), o, 28, 0)
    BY <1>1, <1>2, <2>1, LayoutBytes, Zenon
  <2> HIDE DEF L
  <2> QED
    BY <2>2 DEF LaidOut
<1>5. /\ DOMAIN o = {20, 24, 25, 26, 27}
      /\ o[20] = <<2, 4, h.maxSegmentSizeOption \div 256, h.maxSegmentSizeOption % 256>>
      /\ o[24] = <<1>> /\ o[25] = <<1>> /\ o[26] = <<1>> /\ o[27] = <<0>>
  BY DEF SentOptions, MaxSegmentSize, NoOperation, EndOfOptions
<1> HIDE DEF s, o, L
<1>6. /\ OptionByte(o, 20 + 0) = 2 /\ OptionByte(o, 20 + 1) = 4
      /\ OptionByte(o, 20 + 2) = h.maxSegmentSizeOption \div 256
      /\ OptionByte(o, 20 + 3) = h.maxSegmentSizeOption % 256
  <2>1. 20 \in DOMAIN o /\ Len(o[20]) = 4
    BY <1>5
  <2>2. \A j \in 0 .. 3 : OptionByte(o, 20 + j) = o[20][j + 1]
    BY <2>1, <1>3, OptionBytes
  <2> QED
    BY <2>2, <1>5
<1>7. /\ OptionByte(o, 24 + 0) = 1 /\ OptionByte(o, 25 + 0) = 1
      /\ OptionByte(o, 26 + 0) = 1 /\ OptionByte(o, 27 + 0) = 0
  <2>1. \A p \in {24, 25, 26, 27} : p \in DOMAIN o /\ Len(o[p]) = 1
    BY <1>5
  <2>2. \A p \in {24, 25, 26, 27} : OptionByte(o, p + 0) = o[p][0 + 1]
    BY <2>1, <1>3, OptionBytes
  <2> QED
    BY <2>2, <1>5
<1>8. /\ L[21] = 2 /\ L[22] = 4
      /\ L[23] = h.maxSegmentSizeOption \div 256
      /\ L[24] = h.maxSegmentSizeOption % 256
      /\ L[25] = 1 /\ L[26] = 1 /\ L[27] = 1 /\ L[28] = 0
  BY <1>4, <1>6, <1>7
<1> QED
  <2>1. SentBytes(L, HeaderWords(h), h.maxSegmentSizeOption)
    BY <1>4, <1>8 DEF SentBytes
  <2> QED
    BY <2>1 DEF L, s

\* The fields of a header where RFC 793 puts them.
FieldsAt(L, at, h) ==
    /\ IsWord(L, at, h.sourcePort) /\ IsWord(L, at + 2, h.destinationPort)
    /\ IsWord(L, at + 4, h.sequenceNumber[1]) /\ IsWord(L, at + 6, h.sequenceNumber[2])
    /\ IsWord(L, at + 8, h.ackNumber[1]) /\ IsWord(L, at + 10, h.ackNumber[2])
    /\ IsWord(L, at + 12, MixedWord(h.dataOffset, h.reserved, ControlWord(h.control)))
    /\ IsWord(L, at + 14, h.windowSize) /\ IsWord(L, at + 16, h.checksum)
    /\ IsWord(L, at + 18, h.urgentPointer)

WordsAt(L, at, w) ==
    \A i \in 1 .. 10 : L[at + (2 * i - 1)] = w[i] \div 256 /\ L[at + 2 * i] = w[i] % 256

LEMMA LayoutFields ==
    ASSUME NEW h \in TCPHeader, NEW L, NEW at \in Nat, WordsAt(L, at, HeaderWords(h))
    PROVE  FieldsAt(L, at, h)
<1>1. PICK w : w = HeaderWords(h)
  OBVIOUS
<1>2. /\ w[1] = h.sourcePort /\ w[2] = h.destinationPort
      /\ w[3] = h.sequenceNumber[1] /\ w[4] = h.sequenceNumber[2]
      /\ w[5] = h.ackNumber[1] /\ w[6] = h.ackNumber[2]
      /\ w[7] = MixedWord(h.dataOffset, h.reserved, ControlWord(h.control))
      /\ w[8] = h.windowSize /\ w[9] = h.checksum /\ w[10] = h.urgentPointer
  BY <1>1 DEF HeaderWords, MixedWord
<1>3. \A i \in 1 .. 10 : w[i] \in Half
  BY <1>1, WordsType, Zenon
<1>4. \A i \in 1 .. 10 : L[at + (2 * i - 1)] = w[i] \div 256 /\ L[at + 2 * i] = w[i] % 256
  BY <1>1, ZenonT(40) DEF WordsAt
<1>5. ASSUME NEW i \in 1 .. 10, NEW n, n = at + 2 * (i - 1)
      PROVE  IsWord(L, n, w[i])
  <2>1. at + (2 * i - 1) = n + 1 /\ at + 2 * i = n + 2
    BY <1>5
  <2> QED
    BY <2>1, <1>3, <1>4 DEF IsWord
<1>6. /\ IsWord(L, at, w[1]) /\ IsWord(L, at + 2, w[2]) /\ IsWord(L, at + 4, w[3])
      /\ IsWord(L, at + 6, w[4]) /\ IsWord(L, at + 8, w[5]) /\ IsWord(L, at + 10, w[6])
      /\ IsWord(L, at + 12, w[7]) /\ IsWord(L, at + 14, w[8]) /\ IsWord(L, at + 16, w[9])
      /\ IsWord(L, at + 18, w[10])
  BY <1>5
<1> QED
  BY <1>2, <1>6 DEF FieldsAt

\* fillSendBuffer writes what RFC 793 means.
LEMMA FillIsLayout ==
    ASSUME NEW h \in Sent
    PROVE  fillSendBuffer(h) = Layout(SentSegment(h))
<1> DEFINE m == h.maxSegmentSizeOption
           c == ControlWord(h.control)
<1>1. h \in TCPHeader /\ h.dataOffset = 7 /\ h.checksum = 0 /\ m \in Half
  <2>1. h \in TCPHeader /\ h.dataOffset = 7 /\ h.checksum = 0
    BY SentIsSegment
  <2> QED
    BY <2>1 DEF TCPHeader
<1>2. PICK L : L = Layout(SentSegment(h))
  OBVIOUS
<1>3. PICK w : w = HeaderWords(h)
  OBVIOUS
<1>4. SentBytes(L, w, m)
  BY <1>2, <1>3, SentLayout, Zenon
<1>5. PICK S : L \in Seq(S)
  BY <1>4, Zenon DEF SentBytes
<1>6. FieldsAt(L, 0, h)
  <2>1. ASSUME NEW i \in 1 .. 10
        PROVE  L[0 + (2 * i - 1)] = w[i] \div 256 /\ L[0 + 2 * i] = w[i] % 256
    <3>1. 0 + (2 * i - 1) = 2 * i - 1 /\ 0 + 2 * i = 2 * i
      OBVIOUS
    <3>2. L[2 * i - 1] = w[i] \div 256 /\ L[2 * i] = w[i] % 256
      BY <1>4, Zenon DEF SentBytes
    <3> QED
      BY <3>1, <3>2, Zenon
  <2>2. WordsAt(L, 0, w)
    BY <2>1, Zenon DEF WordsAt
  <2>3. 0 \in Nat
    OBVIOUS
  <2> QED
    BY <1>1, <1>3, <2>2, <2>3, LayoutFields, Zenon
<1>7. PICK v : v = MixedWord(h.dataOffset, h.reserved, c)
  OBVIOUS
<1>8. /\ IsWord(L, 0, h.sourcePort) /\ IsWord(L, 2, h.destinationPort)
      /\ IsWord(L, 4, h.sequenceNumber[1]) /\ IsWord(L, 4 + 2, h.sequenceNumber[2])
      /\ IsWord(L, 8, h.ackNumber[1]) /\ IsWord(L, 8 + 2, h.ackNumber[2])
      /\ IsWord(L, 12, v)
      /\ IsWord(L, 14, h.windowSize) /\ IsWord(L, 16, 0) /\ IsWord(L, 18, h.urgentPointer)
  BY <1>1, <1>6, <1>7 DEF FieldsAt
<1>9. /\ L[13] = 16 * h.dataOffset + (h.reserved \div 4)
      /\ insert8BitInt(16 * h.dataOffset + (h.reserved \div 4)) = <<L[13]>>
      /\ insert8BitInt(64 * h.reserved + flags(h.control)) = <<L[14]>>
      /\ L[13] \in Int /\ L[14] \in Int
  <2>1. PICK d \in Int : d = h.dataOffset /\ 5 <= d /\ d <= 15
    BY <1>1, HeaderNumbers
  <2>2. PICK r \in Int : r = h.reserved /\ 0 <= r /\ r <= 63
    BY <1>1, HeaderNumbers
  <2>3. PICK f \in Int : f = c /\ 0 <= f /\ f <= 63
    BY <1>1, HeaderNumbers
  <2>4. TwoBytes(v, d, r, f)
    <3>1. TwoBytes(MixedWord(d, r, f), d, r, f)
      BY <2>1, <2>2, <2>3, ControlWordBytes
    <3> QED
      BY <3>1, <2>1, <2>2, <2>3, <1>7, Zenon
  <2>5. L[13] = v \div 256 /\ L[14] = v % 256 /\ v \in Half
    BY <1>8 DEF IsWord
  <2>6. L[13] \in Int /\ L[14] \in Int
    BY <2>5, HalfBytes
  <2> QED
    BY <2>1, <2>2, <2>3, <2>4, <2>5, <2>6, FlagsValue DEF insert8BitInt, TwoBytes
<1>10. PICK x \in Int : x = m \div 256
  BY <1>1, HalfBytes
<1>11. PICK y \in Int : y = m % 256
  BY <1>1, HalfBytes
<1> DEFINE B2  == insert16BitInt(h.sourcePort)
           B4  == B2 \o insert16BitInt(h.destinationPort)
           B8  == B4 \o insert32BitInt(h.sequenceNumber)
           B12 == B8 \o insert32BitInt(h.ackNumber)
           B13 == B12 \o <<L[13]>>
           B14 == B13 \o <<L[14]>>
           B16 == B14 \o insert16BitInt(h.windowSize)
           B18 == B16 \o insert16BitInt(0)
           B20 == B18 \o insert16BitInt(h.urgentPointer)
           B24 == B20 \o <<2, 4, x, y>>
           B28 == B24 \o <<1>> \o <<1>> \o <<1>> \o <<0>>
<1>12. fillSendBuffer(h) = B28
  BY <1>9, <1>10, <1>11, ZenonT(40) DEF fillSendBuffer, MaxSegmentSize, NoOperation, EndOfOptions
<1>13. Begins(B2, L, 2)
  <2>1. Begins(<<>>, L, 0)
    BY DEF Begins
  <2>2. Begins(<<>> \o B2, L, 0 + 2) /\ B2 \in Seq(Int)
    BY <2>1, <1>8, BeginsWord
  <2>3. <<>> \o B2 = B2
    BY <2>2, ConcatEmptySeq
  <2>4. Begins(B2, L, 0 + 2)
    BY <2>2, <2>3, Zenon
  <2> HIDE DEF B2
  <2> QED
    BY <2>4
<1> HIDE DEF m, c, B2
<1>14. Begins(B4, L, 4)
  <2>1. Begins(B4, L, 2 + 2)
    BY <1>8, <1>13, BeginsWord
  <2> QED
    BY <2>1
<1> HIDE DEF B4
<1>15. Begins(B8, L, 8)
  <2>1. Begins(B8, L, 4 + 4)
    BY <1>8, <1>14, BeginsLong
  <2> QED
    BY <2>1
<1> HIDE DEF B8
<1>16. Begins(B12, L, 12)
  <2>1. Begins(B12, L, 8 + 4)
    BY <1>8, <1>15, BeginsLong
  <2> QED
    BY <2>1
<1> HIDE DEF B12
<1>17. Begins(B13, L, 13)
  <2>1. Begins(B13, L, 12 + 1)
    BY <1>9, <1>16, BeginsOne
  <2> QED
    BY <2>1
<1> HIDE DEF B13
<1>18. Begins(B14, L, 14)
  <2>1. Begins(B14, L, 13 + 1)
    BY <1>9, <1>17, BeginsOne
  <2> QED
    BY <2>1
<1> HIDE DEF B14
<1>19. Begins(B16, L, 16)
  <2>1. Begins(B16, L, 14 + 2)
    BY <1>8, <1>18, BeginsWord
  <2> QED
    BY <2>1
<1> HIDE DEF B16
<1>20. Begins(B18, L, 18)
  <2>1. Begins(B18, L, 16 + 2)
    BY <1>8, <1>19, BeginsWord
  <2> QED
    BY <2>1
<1> HIDE DEF B18
<1>21. Begins(B20, L, 20)
  <2>1. Begins(B20, L, 18 + 2)
    BY <1>8, <1>20, BeginsWord
  <2> QED
    BY <2>1
<1> HIDE DEF B20
<1>22. Begins(B24, L, 24)
  <2>1. L[20 + 1] = 2 /\ L[20 + 2] = 4 /\ L[20 + 3] = x /\ L[20 + 4] = y
    BY <1>4, <1>10, <1>11 DEF SentBytes, m
  <2>2. Begins(B24, L, 20 + 4)
    BY <2>1, <1>21, BeginsFour
  <2> QED
    BY <2>2
<1> HIDE DEF B24
<1>23. Begins(B28, L, 28)
  <2>1. L[24 + 1] = 1 /\ L[25 + 1] = 1 /\ L[26 + 1] = 1 /\ L[27 + 1] = 0
    BY <1>4 DEF SentBytes
  <2>2. Begins(B24 \o <<1>>, L, 25)
    BY <2>1, <1>22, BeginsOne
  <2>3. Begins(B24 \o <<1>> \o <<1>>, L, 26)
    BY <2>1, <2>2, BeginsOne
  <2>4. Begins(B24 \o <<1>> \o <<1>> \o <<1>>, L, 27)
    BY <2>1, <2>3, BeginsOne
  <2> QED
    BY <2>1, <2>4, BeginsOne
<1> HIDE DEF B28
<1>24. L \in Seq(Int)
  <2>1. PICK B : B = B28
    OBVIOUS
  <2>2. B \in Seq(Int) /\ Len(B) = 28 /\ \A i \in 1 .. 28 : B[i] = L[i]
    BY <1>23, <2>1 DEF Begins
  <2>3. \A i \in 1 .. Len(B) : B[i] \in Int
    BY <2>2, ElementOfSeq, Zenon
  <2>4. Len(L) = 28
    BY <1>4, Zenon DEF SentBytes
  <2>5. \A i \in 1 .. Len(L) : L[i] \in Int
    BY <2>2, <2>3, <2>4, Zenon
  <2> QED
    BY <1>5, <2>5, SeqOfInts, Zenon
<1> QED
  <2>1. Begins(B28, L, Len(L))
    BY <1>4, <1>23 DEF SentBytes
  <2> QED
    BY <1>2, <1>12, <1>24, <2>1, BeginsWhole

-----------------------------------------------------------------------------
(***************************************************************************)
(* parseTCPHeader up to its loop.                                          *)
(***************************************************************************)

\* The received bytes hold L from the offset at.
Holds(buf, at, L) == at \in Nat /\ \A k \in 1 .. Len(L) : buf[at + k] = L[k]

LEMMA GetWord ==
    ASSUME NEW buf, NEW p \in Nat, NEW w, IsWord(buf, p, w)
    PROVE  get16BitInt(buf, p) = w
<1>1. w \in Half /\ buf[p + 1] = w \div 256 /\ buf[(p + 1) + 1] = w % 256
  BY DEF IsWord
<1>2. get16BitInt(buf, p) = 256 * (w \div 256) + (w % 256)
  BY <1>1 DEF get16BitInt, Byte
<1> QED
  BY <1>1, <1>2, HalfBytes

\* The fields of a received header are where the sender's layout has them.
LEMMA HeldFields ==
    ASSUME NEW s, IsSegment(s), NEW buf, NEW at, Holds(buf, at, Layout(s))
    PROVE  FieldsAt(buf, at, s.header)
<1>1. PICK L : L = Layout(s)
  OBVIOUS
<1>2. PICK n : n = getDataOffsetBytes(s.header)
  OBVIOUS
<1>3. PICK m \in Nat : m = Len(s.payload)
  BY DEF IsSegment
<1>4. PICK w : w = HeaderWords(s.header)
  OBVIOUS
<1>5. LaidOut(L, w, s.options, n, m)
  BY <1>1, <1>2, <1>3, <1>4, LayoutBytes, Zenon
<1>6. /\ n \in Int /\ 20 <= n /\ Len(L) = n + m
      /\ \A i \in 1 .. 10 : L[2 * i - 1] = w[i] \div 256 /\ L[2 * i] = w[i] % 256
  BY <1>5 DEF LaidOut
<1>7. at \in Nat /\ \A k \in 1 .. Len(L) : buf[at + k] = L[k]
  BY <1>1, Zenon DEF Holds
<1>8. ASSUME NEW i \in 1 .. 10
      PROVE  buf[at + (2 * i - 1)] = w[i] \div 256 /\ buf[at + 2 * i] = w[i] % 256
  <2>1. 2 * i - 1 \in 1 .. Len(L) /\ 2 * i \in 1 .. Len(L)
    BY <1>6
  <2>2. L[2 * i - 1] = w[i] \div 256 /\ L[2 * i] = w[i] % 256
    BY <1>6, ZenonT(40)
  <2> QED
    BY <2>1, <2>2, <1>7, ZenonT(40)
<1>9. WordsAt(buf, at, w)
  BY <1>8, Zenon DEF WordsAt
<1>10. s.header \in TCPHeader
  BY DEF IsSegment
<1> QED
  BY <1>4, <1>7, <1>9, <1>10, LayoutFields, Zenon

\* The data offset, the reserved bits and the control bits, from the two bytes that
\* they share.
MixedFields(buf, at, h) ==
    /\ get4BitInt(buf, at + 12, TRUE) = h.dataOffset
    /\ reserved(buf, at) = h.reserved
    /\ controlBits(buf, at) = h.control

LEMMA MixedRead ==
    ASSUME NEW h \in TCPHeader, NEW buf, NEW at \in Nat,
           IsWord(buf, at + 12, MixedWord(h.dataOffset, h.reserved, ControlWord(h.control)))
    PROVE  MixedFields(buf, at, h)
<1>1. PICK d \in Int : d = h.dataOffset /\ 5 <= d /\ d <= 15
  BY HeaderNumbers
<1>2. PICK r \in Int : r = h.reserved /\ 0 <= r /\ r <= 63
  BY HeaderNumbers
<1>3. PICK c \in Int : c = ControlWord(h.control) /\ 0 <= c /\ c <= 63
  BY HeaderNumbers
<1>4. PICK w : w = MixedWord(d, r, c)
  OBVIOUS
<1>5. TwoBytes(w, d, r, c)
  BY <1>1, <1>2, <1>3, <1>4, ControlWordBytes
<1>6. PICK y \in Int : y = r \div 4
  BY <1>2
<1>7. PICK z \in Int : z = r % 4
  BY <1>2
<1>8. 0 <= y /\ y <= 15 /\ 0 <= z /\ z <= 3 /\ r = 4 * y + z
  BY <1>2, <1>6, <1>7
<1>9. IsWord(buf, at + 12, w)
  BY <1>1, <1>2, <1>3, <1>4
<1>10. /\ buf[(at + 12) + 1] = 16 * d + y
       /\ buf[(at + 13) + 1] = 64 * z + c
  <2>1. (at + 12) + 2 = (at + 13) + 1
    OBVIOUS
  <2> QED
    BY <2>1, <1>5, <1>6, <1>7, <1>9 DEF IsWord, TwoBytes
<1>11. (16 * d + y) \div 16 = d /\ (16 * d + y) % 16 = y
  BY <1>1, <1>8
<1>12. get4BitInt(buf, at + 12, TRUE) = d /\ get4BitInt(buf, at + 12, FALSE) = y
  BY <1>10, <1>11 DEF get4BitInt, Byte
<1>13. PICK b : b = LowByte(z, c) /\ b = 64 * z + c
  BY DEF LowByte
<1>14. b \div 64 = z /\ ControlBits(b) = h.control
  <2>1. h.control \in SUBSET DOMAIN Index
    BY DEF TCPHeader
  <2>2. z \in 0 .. 3
    BY <1>8
  <2> QED
    BY <2>1, <2>2, <1>3, <1>13, ControlByte, ZenonT(40)
<1>15. reserved(buf, at) = r
  BY <1>8, <1>10, <1>12, <1>13, <1>14 DEF reserved, Byte
<1>16. controlBits(buf, at) = ControlBits(b)
  <2>1. Byte(buf, at + 13) = b
    BY <1>10, <1>13 DEF Byte
  <2> QED
    BY <2>1, Zenon DEF controlBits, ControlBits, getBit
<1> QED
  BY <1>1, <1>2, <1>12, <1>14, <1>15, <1>16, Zenon DEF MixedFields

HeaderOf(sp, dp, sn, an, off, res, c, win, sum, urg) ==
    [sourcePort |-> sp, destinationPort |-> dp, sequenceNumber |-> sn, ackNumber |-> an,
     dataOffset |-> off, reserved |-> res, control |-> c, windowSize |-> win,
     checksum |-> sum, urgentPointer |-> urg, maxSegmentSizeOption |-> 65535]

\* parseTCPHeader reads every field that the sender's layout has, and knows no
\* maximum segment size yet.
LEMMA ParseFixedFields ==
    ASSUME NEW s, IsSegment(s), NEW buf, NEW at, Holds(buf, at, Layout(s))
    PROVE  parseFixed(buf, at) = [s.header EXCEPT !.maxSegmentSizeOption = 65535]
<1>1. PICK h \in TCPHeader : h = s.header
  BY DEF IsSegment
<1>2. FieldsAt(buf, at, h) /\ at \in Nat
  BY <1>1, HeldFields DEF Holds
<1>3. /\ get16BitInt(buf, at) = h.sourcePort
      /\ get16BitInt(buf, at + 2) = h.destinationPort
      /\ get16BitInt(buf, at + 4) = h.sequenceNumber[1]
      /\ get16BitInt(buf, at + 6) = h.sequenceNumber[2]
      /\ get16BitInt(buf, at + 8) = h.ackNumber[1]
      /\ get16BitInt(buf, at + 10) = h.ackNumber[2]
      /\ get16BitInt(buf, at + 14) = h.windowSize
      /\ get16BitInt(buf, at + 16) = h.checksum
      /\ get16BitInt(buf, at + 18) = h.urgentPointer
  <2>1. /\ at + 2 \in Nat /\ at + 4 \in Nat /\ at + 6 \in Nat /\ at + 8 \in Nat
        /\ at + 10 \in Nat /\ at + 14 \in Nat /\ at + 16 \in Nat /\ at + 18 \in Nat
    BY <1>2
  <2> QED
    BY <2>1, <1>2, GetWord, ZenonT(40) DEF FieldsAt
<1>4. /\ get32BitInt(buf, at + 4) = h.sequenceNumber
      /\ get32BitInt(buf, at + 8) = h.ackNumber
  <2>1. (at + 4) + 2 = at + 6 /\ (at + 8) + 2 = at + 10
    BY <1>2
  <2>2. /\ h.sequenceNumber = <<h.sequenceNumber[1], h.sequenceNumber[2]>>
        /\ h.ackNumber = <<h.ackNumber[1], h.ackNumber[2]>>
    BY DEF TCPHeader
  <2> QED
    BY <1>3, <2>1, <2>2 DEF get32BitInt
<1>5. /\ get4BitInt(buf, at + 12, TRUE) = h.dataOffset
      /\ reserved(buf, at) = h.reserved
      /\ controlBits(buf, at) = h.control
  BY <1>2, MixedRead, Zenon DEF FieldsAt, MixedFields
<1>6. h = [sourcePort |-> h.sourcePort, destinationPort |-> h.destinationPort,
           sequenceNumber |-> h.sequenceNumber, ackNumber |-> h.ackNumber,
           dataOffset |-> h.dataOffset, reserved |-> h.reserved,
           control |-> h.control, windowSize |-> h.windowSize, checksum |-> h.checksum,
           urgentPointer |-> h.urgentPointer,
           maxSegmentSizeOption |-> h.maxSegmentSizeOption]
  BY DEF TCPHeader
<1>7. [h EXCEPT !.maxSegmentSizeOption = 65535] =
          HeaderOf(h.sourcePort, h.destinationPort, h.sequenceNumber, h.ackNumber,
                   h.dataOffset, h.reserved, h.control, h.windowSize, h.checksum,
                   h.urgentPointer)
  BY <1>6 DEF HeaderOf
<1>8. parseFixed(buf, at) =
          HeaderOf(get16BitInt(buf, at), get16BitInt(buf, at + 2), get32BitInt(buf, at + 4),
                   get32BitInt(buf, at + 8), get4BitInt(buf, at + 12, TRUE),
                   reserved(buf, at), controlBits(buf, at), get16BitInt(buf, at + 14),
                   get16BitInt(buf, at + 16), get16BitInt(buf, at + 18))
  BY SMT DEF parseFixed, HeaderOf
<1> QED
  <2>1. PICK P : P = parseFixed(buf, at)
    OBVIOUS
  <2>2. P = HeaderOf(h.sourcePort, h.destinationPort, h.sequenceNumber, h.ackNumber,
                     h.dataOffset, h.reserved, h.control, h.windowSize, h.checksum,
                     h.urgentPointer)
    BY <1>2, <1>3, <1>4, <1>5, <1>8, <2>1, Zenon
  <2>3. P = [h EXCEPT !.maxSegmentSizeOption = 65535]
    BY <1>7, <2>2
  <2> QED
    BY <1>1, <2>1, <2>3

-----------------------------------------------------------------------------
(***************************************************************************)
(* The loop over the options.                                              *)
(***************************************************************************)

\* The options that list a size, before the offset i; and the size that the last of
\* them lists.
SizesBefore(o, i) == {p \in DOMAIN o : p < i /\ Len(o[p]) = 4}

SizeBefore(o, i, size) ==
    \/ SizesBefore(o, i) = {} /\ size = 65535
    \/ \E p \in SizesBefore(o, i) :
           /\ \A q \in SizesBefore(o, i) : q <= p
           /\ size = 256 * o[p][3] + o[p][4]

\* Where the loop is: at an option or at the end, and past no end of the list.
AtOption(o, n, i) ==
    /\ i \in DOMAIN o \cup {n}
    /\ \A q \in DOMAIN o : q < i => o[q] # EndOfOptions

\* The options as far as the proofs need them.
LEMMA OptionShapes ==
    ASSUME NEW o, NEW n \in Nat, WellFormed(o, n), NEW p \in DOMAIN o
    PROVE  /\ p \in Int /\ 20 <= p /\ p < n
           /\ \/ o[p] = EndOfOptions /\ Len(o[p]) = 1 /\ o[p][1] = 0
              \/ o[p] = NoOperation /\ Len(o[p]) = 1 /\ o[p][1] = 1
              \/ /\ Len(o[p]) = 4 /\ o[p][1] = 2
                 /\ o[p] # EndOfOptions /\ o[p] # NoOperation
                 /\ \E size \in Half : o[p][3] = size \div 256 /\ o[p][4] = size % 256
           /\ p + Len(o[p]) \in DOMAIN o \cup {n}
           /\ \A q \in DOMAIN o : p < q => p + Len(o[p]) <= q
           /\ o[p] = EndOfOptions => \A q \in DOMAIN o : p < q => o[q] = EndOfOptions
<1>1. p \in Int /\ 20 <= p /\ p < n
  BY DEF WellFormed
<1>2. /\ p + Len(o[p]) \in DOMAIN o \cup {n}
      /\ \A q \in DOMAIN o : p < q => p + Len(o[p]) <= q
      /\ o[p] = EndOfOptions => \A q \in DOMAIN o : p < q => o[q] = EndOfOptions
  BY Zenon DEF WellFormed
<1>3. CASE o[p] = EndOfOptions
  <2>1. Len(o[p]) = 1 /\ o[p][1] = 0
    BY <1>3 DEF EndOfOptions
  <2> QED
    BY <1>1, <1>2, <1>3, <2>1, Zenon
<1>4. CASE o[p] = NoOperation
  <2>1. Len(o[p]) = 1 /\ o[p][1] = 1
    BY <1>4 DEF NoOperation
  <2> QED
    BY <1>1, <1>2, <1>4, <2>1, Zenon
<1>5. ASSUME NEW size \in Half, o[p] = MaxSegmentSize(size)
      PROVE  /\ Len(o[p]) = 4 /\ o[p][1] = 2
             /\ o[p] # EndOfOptions /\ o[p] # NoOperation
             /\ o[p][3] = size \div 256 /\ o[p][4] = size % 256
  <2>1. o[p] = <<2, 4, size \div 256, size % 256>>
    BY <1>5 DEF MaxSegmentSize
  <2>2. Len(o[p]) = 4 /\ o[p][1] = 2 /\ o[p][3] = size \div 256 /\ o[p][4] = size % 256
    BY <2>1
  <2>3. Len(EndOfOptions) = 1 /\ Len(NoOperation) = 1
    BY DEF EndOfOptions, NoOperation
  <2> QED
    BY <2>2, <2>3
<1>6. CASE \E size \in Half : o[p] = MaxSegmentSize(size)
  <2>1. PICK size \in Half : o[p] = MaxSegmentSize(size)
    BY <1>6
  <2>2. /\ Len(o[p]) = 4 /\ o[p][1] = 2
        /\ o[p] # EndOfOptions /\ o[p] # NoOperation
        /\ o[p][3] = size \div 256 /\ o[p][4] = size % 256
    BY <1>5, <2>1
  <2> QED
    BY <1>1, <1>2, <2>2, Zenon
<1>7. \/ o[p] \in {EndOfOptions, NoOperation}
      \/ \E size \in Half : o[p] = MaxSegmentSize(size)
  BY Zenon DEF WellFormed
<1> QED
  BY <1>3, <1>4, <1>6, <1>7, Zenon

\* The byte at an option's offset says which one it is.
LEMMA OptionRead ==
    ASSUME NEW s, IsSegment(s), NEW buf, NEW at, Holds(buf, at, Layout(s)),
           NEW p \in DOMAIN s.options
    PROVE  /\ Byte(buf, at + p) = s.options[p][1]
           /\ Len(s.options[p]) = 4 =>
                  get16BitInt(buf, at + p + 2) = 256 * s.options[p][3] + s.options[p][4]
<1>1. PICK L : L = Layout(s)
  OBVIOUS
<1>2. PICK o : o = s.options
  OBVIOUS
<1>3. PICK n : n = getDataOffsetBytes(s.header)
  OBVIOUS
<1>4. PICK m \in Nat : m = Len(s.payload)
  BY DEF IsSegment
<1>5. LaidOut(L, HeaderWords(s.header), o, n, m)
  BY <1>1, <1>2, <1>3, <1>4, LayoutBytes, Zenon
<1>6. /\ n \in Nat /\ 20 <= n /\ Len(L) = n + m
      /\ \A k \in 21 .. n : L[k] = OptionByte(o, k - 1)
  <2>1. /\ n \in 20 .. 60 /\ Len(L) = n + m
        /\ \A k \in 21 .. n : L[k] = OptionByte(o, k - 1)
    BY <1>5, Zenon DEF LaidOut
  <2>2. n \in Nat /\ 20 <= n
    BY <2>1
  <2> QED
    BY <2>1, <2>2, Zenon
<1>7. WellFormed(o, n)
  BY <1>2, <1>3 DEF IsSegment, getDataOffsetBytes, DATA_OFFSET_WORD_LENGTH
<1>8. at \in Nat /\ \A k \in 1 .. Len(L) : buf[at + k] = L[k]
  BY <1>1, Zenon DEF Holds
<1>9. Len(o[p]) \in {1, 4} /\ p \in Int
  BY <1>2, <1>6, <1>7, OptionShapes
<1>10. ASSUME NEW j \in 0 .. 3, j < Len(o[p])
      PROVE  buf[at + p + j + 1] = o[p][j + 1]
  <2>1. p + j \in 20 .. n - 1 /\ OptionByte(o, p + j) = o[p][j + 1]
    BY <1>2, <1>6, <1>7, <1>10, OptionBytes, Zenon
  <2>2. PICK k \in Int : k = p + j + 1 /\ 21 <= k /\ k <= n
    BY <1>6, <1>9, <2>1
  <2>3. k \in 21 .. n /\ k - 1 = p + j /\ at + p + j + 1 = at + k /\ k <= n + m
    <3>1. at \in Int /\ n \in Int /\ m \in Int /\ 0 <= m /\ p \in Int /\ j \in Int
      BY <1>6, <1>8, <1>9
    <3>2. k - 1 = p + j /\ at + p + j + 1 = at + k /\ k <= n + m
      BY <3>1, <2>2
    <3>3. k \in 21 .. n
      BY <3>1, <2>2
    <3> QED
      BY <3>2, <3>3
  <2>4. k \in 1 .. Len(L)
    BY <1>6, <2>2, <2>3
  <2>5. L[k] = OptionByte(o, k - 1) /\ buf[at + k] = L[k]
    BY <1>6, <1>8, <2>3, <2>4, Zenon
  <2> QED
    BY <2>1, <2>3, <2>5
<1>11. Byte(buf, at + p) = o[p][1]
  <2>1. buf[at + p + 0 + 1] = o[p][0 + 1]
    BY <1>10, <1>9
  <2> QED
    BY <2>1, <1>8, <1>9 DEF Byte
<1>12. ASSUME Len(o[p]) = 4
       PROVE  get16BitInt(buf, at + p + 2) = 256 * o[p][3] + o[p][4]
  <2>1. buf[at + p + 2 + 1] = o[p][2 + 1] /\ buf[at + p + 3 + 1] = o[p][3 + 1]
    BY <1>10, <1>12
  <2>2. at + p + 3 + 1 = ((at + p + 2) + 1) + 1
    BY <1>8, <1>9
  <2> QED
    BY <2>1, <2>2 DEF get16BitInt, Byte
<1> QED
  BY <1>2, <1>11, <1>12

\* A turn of the loop goes on to the next option, and keeps the last size listed.
LEMMA LoopStarts ==
    ASSUME NEW o, NEW n \in Nat, 20 <= n, WellFormed(o, n)
    PROVE  AtOption(o, n, 20) /\ SizeBefore(o, 20, 65535)
<1>1. \A q \in DOMAIN o : 20 <= q /\ q \in Int
  BY OptionShapes
<1>2. 20 \in DOMAIN o \cup {n}
  BY DEF WellFormed
<1>3. SizesBefore(o, 20) = {}
  BY <1>1 DEF SizesBefore
<1> QED
  BY <1>1, <1>2, <1>3 DEF AtOption, SizeBefore

LEMMA LoopTurn ==
    ASSUME NEW o, NEW n \in Nat, WellFormed(o, n), NEW i \in DOMAIN o, AtOption(o, n, i),
           NEW size, SizeBefore(o, i, size), o[i] # EndOfOptions
    PROVE  /\ AtOption(o, n, i + Len(o[i]))
           /\ Len(o[i]) = 1 => SizeBefore(o, i + 1, size)
           /\ Len(o[i]) = 4 => SizeBefore(o, i + 4, 256 * o[i][3] + o[i][4])
<1>1. /\ i \in Int /\ Len(o[i]) \in {1, 4}
      /\ i + Len(o[i]) \in DOMAIN o \cup {n}
      /\ \A q \in DOMAIN o : q \in Int /\ (i < q => i + Len(o[i]) <= q)
  BY OptionShapes
<1>2. \A q \in DOMAIN o : q < i + Len(o[i]) => q < i \/ q = i
  BY <1>1
<1>3. AtOption(o, n, i + Len(o[i]))
  BY <1>1, <1>2 DEF AtOption
<1>4. ASSUME Len(o[i]) = 1
      PROVE  SizeBefore(o, i + 1, size)
  <2>1. SizesBefore(o, i + 1) = SizesBefore(o, i)
    BY <1>1, <1>2, <1>4 DEF SizesBefore
  <2> QED
    BY <2>1 DEF SizeBefore
<1>5. ASSUME Len(o[i]) = 4
      PROVE  SizeBefore(o, i + 4, 256 * o[i][3] + o[i][4])
  <2>1. i \in SizesBefore(o, i + 4) /\ \A q \in SizesBefore(o, i + 4) : q <= i
    BY <1>1, <1>2, <1>5 DEF SizesBefore
  <2> QED
    BY <2>1 DEF SizeBefore
<1> QED
  BY <1>3, <1>4, <1>5

\* Where the loop stops, it has the size that the options list.
LEMMA LoopStops ==
    ASSUME NEW o, NEW n \in Nat, WellFormed(o, n), NEW i, AtOption(o, n, i),
           NEW size, SizeBefore(o, i, size), i \in DOMAIN o => o[i] = EndOfOptions
    PROVE  size = ListedSize(o)
<1>1. \A q \in DOMAIN o : q \in Int /\ q < n
  BY OptionShapes
<1>2. i \in Int
  BY <1>1 DEF AtOption
<1>3. Listed(o) = SizesBefore(o, i)
  <2>1. ASSUME NEW p \in DOMAIN o, Len(o[p]) = 4, p < i
        PROVE  \A q \in DOMAIN o : q < p => o[q] # EndOfOptions
    BY <1>1, <1>2, <2>1 DEF AtOption
  <2>2. ASSUME NEW p \in DOMAIN o, Len(o[p]) = 4,
               \A q \in DOMAIN o : q < p => o[q] # EndOfOptions
        PROVE  p < i
    <3>1. CASE i \notin DOMAIN o
      BY <3>1, <1>1 DEF AtOption
    <3>2. CASE i \in DOMAIN o
      <4>1. o[i] = EndOfOptions /\ Len(EndOfOptions) = 1
        BY <3>2 DEF EndOfOptions
      <4> QED
        BY <3>2, <4>1, <1>1, <1>2, <2>2
    <3> QED
      BY <3>1, <3>2
  <2> QED
    BY <2>1, <2>2 DEF Listed, SizesBefore
<1>4. CASE SizesBefore(o, i) = {}
  BY <1>3, <1>4 DEF SizeBefore, ListedSize
<1>5. CASE SizesBefore(o, i) # {}
  <2>1. PICK p \in Listed(o) :
            /\ \A q \in Listed(o) : q <= p
            /\ size = 256 * o[p][3] + o[p][4]
    BY <1>3, <1>5 DEF SizeBefore
  <2>2. \A q \in Listed(o) : q \in Int
    BY <1>1 DEF Listed
  <2>3. LastListed(o) = p
    BY <2>1, <2>2 DEF LastListed
  <2>4. Listed(o) # {}
    BY <1>3, <1>5
  <2>5. ListedSize(o) = 256 * o[p][3] + o[p][4]
    BY <2>3, <2>4 DEF ListedSize
  <2> QED
    BY <2>1, <2>5, Zenon
<1> QED
  BY <1>4, <1>5

-----------------------------------------------------------------------------
(***************************************************************************)
(* The headers before a segment that the raw socket reads.                 *)
(***************************************************************************)

\* An IPv4 header of 20 bytes without options, not fragmented, and a UDP header: the
\* bytes that processRawIPMessage takes from fixed offsets.
Prefix(P, length, sourceIP, destinationIP, sourcePort, destinationPort, udpLength) ==
    /\ P \in Seq(Int) /\ Len(P) = 28
    /\ P[1] = 69 /\ P[7] = 64 /\ P[8] = 0 /\ P[10] = 17
    /\ IsWord(P, 2, length)
    /\ IsWord(P, 12, sourceIP[1]) /\ IsWord(P, 14, sourceIP[2])
    /\ IsWord(P, 16, destinationIP[1]) /\ IsWord(P, 18, destinationIP[2])
    /\ IsWord(P, 20, sourcePort) /\ IsWord(P, 22, destinationPort) /\ IsWord(P, 24, udpLength)

\* What is appended comes behind, and what was there stays.
Appended(C, B, n, T, m) ==
    /\ Begins(B, C, n)
    /\ C \in Seq(Int) /\ Len(C) = n + m
    /\ \A j \in 1 .. m : C[n + j] = T[j]

LEMMA Appending ==
    ASSUME NEW B \in Seq(Int), NEW n \in Nat, Len(B) = n,
           NEW T \in Seq(Int), NEW m \in Nat, Len(T) = m
    PROVE  Appended(B \o T, B, n, T, m)
<1>1. /\ B \o T \in Seq(Int) /\ Len(B \o T) = Len(B) + Len(T)
      /\ \A i \in 1 .. Len(B) + Len(T) :
             (B \o T)[i] = IF i <= Len(B) THEN B[i] ELSE T[i - Len(B)]
  BY ConcatProperties, Zenon
<1>2. PICK C : C = B \o T
  OBVIOUS
<1>3. /\ C \in Seq(Int) /\ Len(C) = n + m
      /\ \A i \in 1 .. n + m : C[i] = IF i <= n THEN B[i] ELSE T[i - n]
  BY <1>1, <1>2, Zenon
<1>4. ASSUME NEW i \in 1 .. n
      PROVE  B[i] = C[i]
  <2>1. i \in 1 .. n + m /\ i <= n
    OBVIOUS
  <2> QED
    BY <2>1, <1>3, Zenon
<1>5. ASSUME NEW j \in 1 .. m
      PROVE  C[n + j] = T[j]
  <2>1. n + j \in 1 .. n + m /\ ~(n + j <= n) /\ (n + j) - n = j
    OBVIOUS
  <2>2. C[n + j] = T[(n + j) - n]
    BY <2>1, <1>3, Zenon
  <2> QED
    BY <2>1, <2>2, Zenon
<1>6. Begins(B, C, n)
  BY <1>4, Zenon DEF Begins
<1> QED
  BY <1>2, <1>3, <1>5, <1>6, Zenon DEF Appended

Bytes(B, n) == B \in Seq(Int) /\ Len(B) = n

AppendedTwo(C, B, n, a, b) ==
    Bytes(C, n + 2) /\ Begins(B, C, n) /\ C[n + 1] = a /\ C[n + 2] = b

LEMMA AppendTwo ==
    ASSUME NEW n \in Nat, NEW B, Bytes(B, n), NEW a \in Int, NEW b \in Int
    PROVE  AppendedTwo(B \o <<a, b>>, B, n, a, b)
<1>1. PICK T : T = <<a, b>>
  OBVIOUS
<1>2. T \in Seq(Int) /\ Len(T) = 2 /\ T[1] = a /\ T[2] = b
  BY <1>1
<1>3. 2 \in Nat /\ 1 \in 1 .. 2 /\ 2 \in 1 .. 2
  OBVIOUS
<1>4. Appended(B \o T, B, n, T, 2)
  BY <1>2, <1>3, Appending, Zenon DEF Bytes
<1>5. AppendedTwo(B \o T, B, n, a, b)
  BY <1>2, <1>3, <1>4, Zenon DEF Appended, AppendedTwo, Bytes
<1> QED
  BY <1>1, <1>5, Zenon

AppendedFour(C, B, n, a, b, c, d) ==
    /\ Bytes(C, n + 4) /\ Begins(B, C, n)
    /\ C[n + 1] = a /\ C[n + 2] = b /\ C[n + 3] = c /\ C[n + 4] = d

LEMMA AppendFour ==
    ASSUME NEW n \in Nat, NEW B, Bytes(B, n),
           NEW a \in Int, NEW b \in Int, NEW c \in Int, NEW d \in Int
    PROVE  AppendedFour(B \o <<a, b, c, d>>, B, n, a, b, c, d)
<1>1. PICK T : T = <<a, b, c, d>>
  OBVIOUS
<1>2. T \in Seq(Int) /\ Len(T) = 4 /\ T[1] = a /\ T[2] = b /\ T[3] = c /\ T[4] = d
  BY <1>1
<1>3. 4 \in Nat /\ 1 \in 1 .. 4 /\ 2 \in 1 .. 4 /\ 3 \in 1 .. 4 /\ 4 \in 1 .. 4
  OBVIOUS
<1>4. Appended(B \o T, B, n, T, 4)
  BY <1>2, <1>3, Appending, Zenon DEF Bytes
<1>5. AppendedFour(B \o T, B, n, a, b, c, d)
  BY <1>2, <1>3, <1>4, Zenon DEF Appended, AppendedFour, Bytes
<1> QED
  BY <1>1, <1>5, Zenon

AppendedWord(C, B, n, w) == Bytes(C, n + 2) /\ Begins(B, C, n) /\ IsWord(C, n, w)

LEMMA AppendWord ==
    ASSUME NEW n \in Nat, NEW B, Bytes(B, n), NEW w \in Half
    PROVE  /\ AppendedWord(B \o BigEndian(w), B, n, w)
           /\ AppendedWord(B \o insert16BitInt(w), B, n, w)
<1>1. PICK a \in Int : a = w \div 256
  BY HalfBytes
<1>2. PICK b \in Int : b = w % 256
  BY HalfBytes
<1>3. BigEndian(w) = <<a, b>> /\ insert16BitInt(w) = <<a, b>>
  BY <1>1, <1>2, HalfBytes DEF BigEndian, insert16BitInt
<1>4. AppendedTwo(B \o <<a, b>>, B, n, a, b)
  BY AppendTwo, Zenon
<1>5. AppendedWord(B \o <<a, b>>, B, n, w)
  BY <1>1, <1>2, <1>4, Zenon DEF AppendedTwo, AppendedWord, IsWord
<1> QED
  BY <1>3, <1>5, Zenon

\* A beginning of a beginning, and what it holds.
LEMMA BeginsTrans ==
    ASSUME NEW A, NEW B, NEW C, NEW n \in Nat, NEW m \in Nat, n <= m,
           Begins(A, B, n), Begins(B, C, m)
    PROVE  Begins(A, C, n)
<1>1. \A i \in 1 .. n : i \in 1 .. m
  OBVIOUS
<1> QED
  BY <1>1, Zenon DEF Begins

LEMMA BeginsKeeps ==
    ASSUME NEW B, NEW C, NEW n \in Nat, Begins(B, C, n)
    PROVE  /\ \A i \in 1 .. n : C[i] = B[i]
           /\ \A k \in Nat : \A w : k + 2 <= n /\ IsWord(B, k, w) => IsWord(C, k, w)
<1>1. \A i \in 1 .. n : C[i] = B[i]
  BY DEF Begins
<1>2. ASSUME NEW k \in Nat, NEW w, k + 2 <= n, IsWord(B, k, w)
      PROVE  IsWord(C, k, w)
  <2>1. k + 1 \in 1 .. n /\ k + 2 \in 1 .. n
    BY <1>2
  <2>2. C[k + 1] = B[k + 1] /\ C[k + 2] = B[k + 2]
    BY <2>1, <1>1, Zenon
  <2> QED
    BY <2>2, <1>2 DEF IsWord
<1> QED
  BY <1>1, <1>2

\* Small numbers as words.
LEMMA SmallWords ==
    /\ 0 \in Half /\ 0 \div 256 = 0 /\ 0 % 256 = 0
    /\ 1 \in Half /\ 1 \div 256 = 0 /\ 1 % 256 = 1
    /\ 48 \in Half /\ 48 \div 256 = 0 /\ 48 % 256 = 48
    /\ 32512 \in Half /\ 32512 \div 256 = 127 /\ 32512 % 256 = 0
<1>1. 0 \in Half /\ 1 \in Half /\ 48 \in Half /\ 32512 \in Half
  BY HalfRange
<1> QED
  BY <1>1

\* The headers that the system makes.
LEMMA DatagramPrefix ==
    ASSUME NEW h \in TCPHeader, NEW content, Len(content) \in Nat, 28 + Len(content) \in Half
    PROVE  Prefix(DatagramHeaders(h, content), 28 + Len(content), LOOPBACK, LOOPBACK,
                  h.sourcePort, h.destinationPort, 8 + Len(content))
<1>1. PICK l \in Nat : l = Len(content)
  OBVIOUS
<1>2. PICK a \in Int : a = 28 + l
  BY <1>1
<1>3. PICK u \in Int : u = 8 + l
  BY <1>1
<1>4. a \in Half /\ u \in Half
  <2>1. a \in Half
    BY <1>1, <1>2, Zenon
  <2> QED
    BY <2>1, <1>1, <1>2, <1>3, HalfRange
<1>5. PICK p \in Half : p = h.sourcePort
  BY DEF TCPHeader
<1>6. PICK q \in Half : q = h.destinationPort
  BY DEF TCPHeader
<1>7. PICK B2 : B2 = <<69, 0>>
  OBVIOUS
<1>8. PICK B4 : B4 = B2 \o BigEndian(a)
  BY Zenon
<1>9. PICK B8 : B8 = B4 \o <<0, 1, 64, 0>>
  BY Zenon
<1>10. PICK B12 : B12 = B8 \o <<128, 17, 0, 0>>
  BY Zenon
<1>11. PICK B16 : B16 = B12 \o <<127, 0, 0, 1>>
  BY Zenon
<1>12. PICK B20 : B20 = B16 \o <<127, 0, 0, 1>>
  BY Zenon
<1>13. PICK B22 : B22 = B20 \o BigEndian(p)
  BY Zenon
<1>14. PICK B24 : B24 = B22 \o BigEndian(q)
  BY Zenon
<1>15. PICK B26 : B26 = B24 \o BigEndian(u)
  BY Zenon
<1>16. PICK P : P = B26 \o <<0, 0>>
  BY Zenon
<1>17. DatagramHeaders(h, content) = P
  <2>1. IP_HEADER_LENGTH + UDP_HEADER_LENGTH + Len(content) = a
    BY <1>1, <1>2 DEF IP_HEADER_LENGTH, UDP_HEADER_LENGTH
  <2>2. UDP_HEADER_LENGTH + Len(content) = u
    BY <1>1, <1>3 DEF UDP_HEADER_LENGTH
  <2>3. DatagramHeaders(h, content) =
            <<69, 0>> \o BigEndian(a)
            \o <<0, 1, 64, 0>> \o <<128, 17, 0, 0>> \o <<127, 0, 0, 1>> \o <<127, 0, 0, 1>>
            \o BigEndian(p) \o BigEndian(q) \o BigEndian(u) \o <<0, 0>>
    BY <2>1, <2>2, <1>5, <1>6 DEF DatagramHeaders, IPPROTO_UDP
  <2> QED
    BY <2>3, <1>7, <1>8, <1>9, <1>10, <1>11, <1>12, <1>13, <1>14, <1>15, <1>16
<1>18. Bytes(B2, 2) /\ B2[1] = 69
  BY <1>7 DEF Bytes
<1>19. Bytes(B4, 4) /\ Begins(B2, B4, 2) /\ IsWord(B4, 2, a)
  <2>1. 2 \in Nat
    OBVIOUS
  <2>2. Bytes(B2, 2)
    BY <1>18, Zenon
  <2>3. AppendedWord(B4, B2, 2, a)
    BY <2>1, <1>4, <1>8, <2>2, AppendWord, Zenon
  <2> QED
    BY <2>3 DEF AppendedWord
<1>20. Bytes(B8, 8) /\ Begins(B4, B8, 4) /\ B8[7] = 64 /\ B8[8] = 0
  <2>1. 4 \in Nat /\ 0 \in Int /\ 1 \in Int /\ 64 \in Int
    OBVIOUS
  <2>2. Bytes(B4, 4)
    BY <1>19, Zenon
  <2>3. AppendedFour(B8, B4, 4, 0, 1, 64, 0)
    BY <2>1, <1>9, <2>2, AppendFour, Zenon
  <2> QED
    BY <2>3 DEF AppendedFour
<1>21. Bytes(B12, 12) /\ Begins(B8, B12, 8) /\ B12[10] = 17
  <2>1. 8 \in Nat /\ 128 \in Int /\ 17 \in Int /\ 0 \in Int
    OBVIOUS
  <2>2. Bytes(B8, 8)
    BY <1>20, Zenon
  <2>3. AppendedFour(B12, B8, 8, 128, 17, 0, 0)
    BY <2>1, <1>10, <2>2, AppendFour, ZenonT(40)
  <2> QED
    BY <2>3 DEF AppendedFour
<1>22. /\ Bytes(B16, 16) /\ Begins(B12, B16, 12)
       /\ B16[13] = 127 /\ B16[14] = 0 /\ B16[15] = 0 /\ B16[16] = 1
  <2>1. 12 \in Nat /\ 127 \in Int /\ 1 \in Int /\ 0 \in Int
    OBVIOUS
  <2>2. Bytes(B12, 12)
    BY <1>21, Zenon
  <2>3. AppendedFour(B16, B12, 12, 127, 0, 0, 1)
    BY <2>1, <1>11, <2>2, AppendFour, ZenonT(40)
  <2> QED
    BY <2>3 DEF AppendedFour
<1>23. /\ Bytes(B20, 20) /\ Begins(B16, B20, 16)
       /\ B20[17] = 127 /\ B20[18] = 0 /\ B20[19] = 0 /\ B20[20] = 1
  <2>1. 16 \in Nat /\ 127 \in Int /\ 1 \in Int /\ 0 \in Int
    OBVIOUS
  <2>2. Bytes(B16, 16)
    BY <1>22, Zenon
  <2>3. AppendedFour(B20, B16, 16, 127, 0, 0, 1)
    BY <2>1, <1>12, <2>2, AppendFour, ZenonT(40)
  <2> QED
    BY <2>3 DEF AppendedFour
<1>24. Bytes(B22, 22) /\ Begins(B20, B22, 20) /\ IsWord(B22, 20, p)
  <2>1. 20 \in Nat
    OBVIOUS
  <2>2. Bytes(B20, 20)
    BY <1>23, Zenon
  <2>3. AppendedWord(B22, B20, 20, p)
    BY <2>1, <1>13, <2>2, AppendWord, Zenon
  <2> QED
    BY <2>3 DEF AppendedWord
<1>25. Bytes(B24, 24) /\ Begins(B22, B24, 22) /\ IsWord(B24, 22, q)
  <2>1. 22 \in Nat
    OBVIOUS
  <2>2. Bytes(B22, 22)
    BY <1>24, Zenon
  <2>3. AppendedWord(B24, B22, 22, q)
    BY <2>1, <1>14, <2>2, AppendWord, Zenon
  <2> QED
    BY <2>3 DEF AppendedWord
<1>26. Bytes(B26, 26) /\ Begins(B24, B26, 24) /\ IsWord(B26, 24, u)
  <2>1. 24 \in Nat
    OBVIOUS
  <2>2. Bytes(B24, 24)
    BY <1>25, Zenon
  <2>3. AppendedWord(B26, B24, 24, u)
    BY <2>1, <1>4, <1>15, <2>2, AppendWord, Zenon
  <2> QED
    BY <2>3 DEF AppendedWord
<1>27. P \in Seq(Int) /\ Len(P) = 28 /\ Begins(B26, P, 26)
  <2>1. 26 \in Nat /\ 0 \in Int
    OBVIOUS
  <2>2. Bytes(B26, 26)
    BY <1>26, Zenon
  <2>3. AppendedTwo(P, B26, 26, 0, 0)
    BY <2>1, <1>16, <2>2, AppendTwo, Zenon
  <2> QED
    BY <2>3 DEF AppendedTwo, Bytes
<1>28. Begins(B24, P, 24)
  BY <1>26, <1>27, BeginsTrans
<1>29. Begins(B22, P, 22)
  BY <1>25, <1>28, BeginsTrans
<1>30. Begins(B20, P, 20)
  BY <1>24, <1>29, BeginsTrans
<1>31. Begins(B16, P, 16)
  BY <1>23, <1>30, BeginsTrans
<1>32. Begins(B12, P, 12)
  BY <1>22, <1>31, BeginsTrans
<1>33. Begins(B8, P, 8)
  BY <1>21, <1>32, BeginsTrans
<1>34. Begins(B4, P, 4)
  BY <1>20, <1>33, BeginsTrans
<1>35. Begins(B2, P, 2)
  BY <1>19, <1>34, BeginsTrans
<1>36. IsWord(P, 24, u)
  BY <1>26, <1>27, BeginsKeeps
<1>37. IsWord(P, 22, q)
  BY <1>25, <1>28, BeginsKeeps
<1>38. IsWord(P, 20, p)
  BY <1>24, <1>29, BeginsKeeps
<1>39. IsWord(P, 2, a)
  BY <1>19, <1>34, BeginsKeeps
<1>40. P[1] = 69
  BY <1>18, <1>35, BeginsKeeps
<1>41. P[7] = 64 /\ P[8] = 0
  BY <1>20, <1>33, BeginsKeeps
<1>42. P[10] = 17
  BY <1>21, <1>32, BeginsKeeps
<1>43. P[13] = 127 /\ P[14] = 0 /\ P[15] = 0 /\ P[16] = 1
  BY <1>22, <1>31, BeginsKeeps
<1>44. P[17] = 127 /\ P[18] = 0 /\ P[19] = 0 /\ P[20] = 1
  BY <1>23, <1>30, BeginsKeeps
<1>45. /\ IsWord(P, 12, LOOPBACK[1]) /\ IsWord(P, 14, LOOPBACK[2])
       /\ IsWord(P, 16, LOOPBACK[1]) /\ IsWord(P, 18, LOOPBACK[2])
  BY <1>43, <1>44, SmallWords DEF IsWord, LOOPBACK
<1> QED
  BY <1>1, <1>2, <1>3, <1>5, <1>6, <1>17, <1>27, <1>36, <1>37, <1>38, <1>39, <1>40, <1>41,
     <1>42, <1>45 DEF Prefix

AppendedOne(C, B, n, a) == Bytes(C, n + 1) /\ Begins(B, C, n) /\ C[n + 1] = a

LEMMA AppendOne ==
    ASSUME NEW n \in Nat, NEW B, Bytes(B, n), NEW a \in Int
    PROVE  AppendedOne(B \o <<a>>, B, n, a)
<1>1. PICK T : T = <<a>>
  OBVIOUS
<1>2. T \in Seq(Int) /\ Len(T) = 1 /\ T[1] = a
  BY <1>1
<1>3. 1 \in Nat /\ 1 \in 1 .. 1
  OBVIOUS
<1>4. Appended(B \o T, B, n, T, 1)
  BY <1>2, <1>3, Appending, Zenon DEF Bytes
<1>5. AppendedOne(B \o T, B, n, a)
  BY <1>2, <1>3, <1>4, Zenon DEF Appended, AppendedOne, Bytes
<1> QED
  BY <1>1, <1>5, Zenon

\* Four zeros, for an address or half of a UDP header.
AppendedZeros(C, B, n) ==
    Bytes(C, n + 4) /\ Begins(B, C, n) /\ IsWord(C, n, 0) /\ IsWord(C, n + 2, 0)

LEMMA AppendZeros ==
    ASSUME NEW n \in Nat, NEW B, Bytes(B, n)
    PROVE  AppendedZeros(B \o insert32BitInt(<<0, 0>>), B, n)
<1>1. insert32BitInt(<<0, 0>>) = insert16BitInt(0) \o insert16BitInt(0)
  BY DEF insert32BitInt
<1>2. insert16BitInt(0) = <<0, 0>>
  BY SmallWords DEF insert16BitInt
<1>3. PICK x : x = <<0, 0>>
  OBVIOUS
<1>4. x \in Seq(Int) /\ B \in Seq(Int)
  BY <1>3 DEF Bytes
<1>5. B \o (x \o x) = (B \o x) \o x
  BY <1>4, ConcatOfInts, Zenon
<1>6. 0 \in Int /\ n + 2 \in Nat
  OBVIOUS
<1>7. AppendedTwo(B \o x, B, n, 0, 0)
  BY <1>3, <1>6, AppendTwo, Zenon
<1>8. PICK C : C = B \o x
  OBVIOUS
<1>9. PICK D : D = C \o x
  OBVIOUS
<1>10. Bytes(C, n + 2) /\ Begins(B, C, n) /\ C[n + 1] = 0 /\ C[n + 2] = 0
  BY <1>7, <1>8, Zenon DEF AppendedTwo
<1>11. AppendedTwo(D, C, n + 2, 0, 0)
  BY <1>3, <1>6, <1>9, <1>10, AppendTwo, Zenon
<1>12. /\ Bytes(D, n + 4) /\ Begins(C, D, n + 2)
       /\ D[(n + 2) + 1] = 0 /\ D[(n + 2) + 2] = 0
  <2>1. (n + 2) + 2 = n + 4
    OBVIOUS
  <2>2. /\ Bytes(D, (n + 2) + 2) /\ Begins(C, D, n + 2)
        /\ D[(n + 2) + 1] = 0 /\ D[(n + 2) + 2] = 0
    BY <1>11, Zenon DEF AppendedTwo
  <2> QED
    BY <2>1, <2>2
<1>13. IsWord(C, n, 0) /\ IsWord(D, n + 2, 0)
  BY <1>10, <1>12, SmallWords DEF IsWord
<1>14. IsWord(D, n, 0)
  BY <1>6, <1>12, <1>13, BeginsKeeps
<1>15. Begins(B, D, n)
  BY <1>6, <1>10, <1>12, BeginsTrans
<1>16. B \o insert32BitInt(<<0, 0>>) = D
  BY <1>1, <1>2, <1>3, <1>5, <1>8, <1>9
<1> QED
  BY <1>12, <1>13, <1>14, <1>15, <1>16 DEF AppendedZeros

\* The headers that the tests make up.
LEMMA MockPrefix == Prefix(mockHeaders(1), 48, <<0, 0>>, <<0, 0>>, 0, 0, 0)
<1>1. PICK B1 : B1 = <<69>>
  OBVIOUS
<1>2. PICK B2 : B2 = B1 \o <<0>>
  OBVIOUS
<1>3. PICK B4 : B4 = B2 \o insert16BitInt(48)
  OBVIOUS
<1>4. PICK B6 : B6 = B4 \o insert16BitInt(1)
  OBVIOUS
<1>5. PICK B7 : B7 = B6 \o <<64>>
  OBVIOUS
<1>6. PICK B8 : B8 = B7 \o <<0>>
  OBVIOUS
<1>7. PICK B9 : B9 = B8 \o <<60>>
  OBVIOUS
<1>8. PICK B10 : B10 = B9 \o <<17>>
  OBVIOUS
<1>9. PICK B12 : B12 = B10 \o insert16BitInt(0)
  OBVIOUS
<1>10. PICK B16 : B16 = B12 \o insert32BitInt(<<0, 0>>)
  OBVIOUS
<1>11. PICK B20 : B20 = B16 \o insert32BitInt(<<0, 0>>)
  OBVIOUS
<1>12. PICK B24 : B24 = B20 \o insert32BitInt(<<0, 0>>)
  OBVIOUS
<1>13. PICK P : P = B24 \o insert32BitInt(<<0, 0>>)
  OBVIOUS
<1>14. mockHeaders(1) = P
  <2>1. /\ insert8BitInt(16 * IPv4_Version + IPv4_HEADER_LENGTH) = <<69>>
        /\ insert8BitInt(0) = <<0>> /\ insert8BitInt(IPv4_TTL) = <<60>>
        /\ insert8BitInt(IPPROTO_UDP) = <<17>>
    BY DEF insert8BitInt, IPv4_Version, IPv4_HEADER_LENGTH, IPv4_TTL, IPPROTO_UDP
  <2>2. insert8BitInt(2^6) = <<64>>
    BY DEF insert8BitInt
  <2> QED
    BY <2>1, <2>2, <1>1, <1>2, <1>3, <1>4, <1>5, <1>6, <1>7, <1>8, <1>9, <1>10, <1>11,
       <1>12, <1>13, Zenon DEF mockHeaders
<1>15. Bytes(B1, 1) /\ B1[1] = 69
  BY <1>1 DEF Bytes
<1>16. /\ 1 \in Nat /\ 2 \in Nat /\ 4 \in Nat /\ 6 \in Nat /\ 7 \in Nat /\ 8 \in Nat
       /\ 9 \in Nat /\ 10 \in Nat /\ 12 \in Nat /\ 16 \in Nat /\ 20 \in Nat /\ 24 \in Nat
       /\ 0 \in Int /\ 17 \in Int /\ 60 \in Int /\ 64 \in Int
  OBVIOUS
<1>17. 48 \in Half /\ 1 \in Half /\ 0 \in Half
  BY SmallWords
<1>18. Bytes(B2, 2) /\ Begins(B1, B2, 1)
  <2>1. AppendedOne(B2, B1, 1, 0)
    BY <1>2, <1>15, <1>16, AppendOne, Zenon
  <2> QED
    BY <2>1 DEF AppendedOne
<1>19. Bytes(B4, 4) /\ Begins(B2, B4, 2) /\ IsWord(B4, 2, 48)
  <2>1. AppendedWord(B4, B2, 2, 48)
    BY <1>3, <1>16, <1>17, <1>18, AppendWord, Zenon
  <2> QED
    BY <2>1 DEF AppendedWord
<1>20. Bytes(B6, 6) /\ Begins(B4, B6, 4)
  <2>1. AppendedWord(B6, B4, 4, 1)
    BY <1>4, <1>16, <1>17, <1>19, AppendWord, Zenon
  <2> QED
    BY <2>1 DEF AppendedWord
<1>21. Bytes(B7, 7) /\ Begins(B6, B7, 6) /\ B7[7] = 64
  <2>1. AppendedOne(B7, B6, 6, 64)
    BY <1>5, <1>16, <1>20, AppendOne, Zenon
  <2> QED
    BY <2>1 DEF AppendedOne
<1>22. Bytes(B8, 8) /\ Begins(B7, B8, 7) /\ B8[8] = 0
  <2>1. AppendedOne(B8, B7, 7, 0)
    BY <1>6, <1>16, <1>21, AppendOne, ZenonT(40)
  <2> QED
    BY <2>1 DEF AppendedOne
<1>23. Bytes(B9, 9) /\ Begins(B8, B9, 8)
  <2>1. AppendedOne(B9, B8, 8, 60)
    BY <1>7, <1>16, <1>22, AppendOne, Zenon
  <2> QED
    BY <2>1 DEF AppendedOne
<1>24. Bytes(B10, 10) /\ Begins(B9, B10, 9) /\ B10[10] = 17
  <2>1. AppendedOne(B10, B9, 9, 17)
    BY <1>8, <1>16, <1>23, AppendOne, Zenon
  <2> QED
    BY <2>1 DEF AppendedOne
<1>25. Bytes(B12, 12) /\ Begins(B10, B12, 10)
  <2>1. AppendedWord(B12, B10, 10, 0)
    BY <1>9, <1>16, <1>17, <1>24, AppendWord, Zenon
  <2> QED
    BY <2>1 DEF AppendedWord
<1>26. Bytes(B16, 16) /\ Begins(B12, B16, 12) /\ IsWord(B16, 12, 0) /\ IsWord(B16, 14, 0)
  <2>1. AppendedZeros(B16, B12, 12)
    BY <1>10, <1>16, <1>25, AppendZeros, Zenon
  <2> QED
    BY <2>1 DEF AppendedZeros
<1>27. Bytes(B20, 20) /\ Begins(B16, B20, 16) /\ IsWord(B20, 16, 0) /\ IsWord(B20, 18, 0)
  <2>1. AppendedZeros(B20, B16, 16)
    BY <1>11, <1>16, <1>26, AppendZeros, Zenon
  <2> QED
    BY <2>1 DEF AppendedZeros
<1>28. Bytes(B24, 24) /\ Begins(B20, B24, 20) /\ IsWord(B24, 20, 0) /\ IsWord(B24, 22, 0)
  <2>1. AppendedZeros(B24, B20, 20)
    BY <1>12, <1>16, <1>27, AppendZeros, Zenon
  <2> QED
    BY <2>1 DEF AppendedZeros
<1>29. Bytes(P, 28) /\ Begins(B24, P, 24) /\ IsWord(P, 24, 0)
  <2>1. AppendedZeros(P, B24, 24)
    BY <1>13, <1>16, <1>28, AppendZeros, Zenon
  <2> QED
    BY <2>1 DEF AppendedZeros
<1>30. Begins(B20, P, 20)
  BY <1>28, <1>29, BeginsTrans
<1>31. Begins(B16, P, 16)
  BY <1>27, <1>30, BeginsTrans
<1>32. Begins(B10, P, 10)
  BY <1>25, <1>26, <1>31, BeginsTrans
<1>33. Begins(B8, P, 8)
  BY <1>23, <1>24, <1>32, BeginsTrans
<1>34. Begins(B7, P, 7)
  BY <1>22, <1>33, BeginsTrans
<1>35. Begins(B4, P, 4)
  BY <1>20, <1>21, <1>34, BeginsTrans
<1>36. Begins(B1, P, 1)
  BY <1>18, <1>19, <1>35, BeginsTrans
<1>37. IsWord(P, 20, 0) /\ IsWord(P, 22, 0)
  BY <1>28, <1>29, BeginsKeeps
<1>38. IsWord(P, 16, 0) /\ IsWord(P, 18, 0)
  BY <1>27, <1>30, BeginsKeeps
<1>39. IsWord(P, 12, 0) /\ IsWord(P, 14, 0)
  BY <1>26, <1>31, BeginsKeeps
<1>40. IsWord(P, 2, 48)
  BY <1>19, <1>35, BeginsKeeps
<1>41. P[1] = 69
  BY <1>15, <1>36, BeginsKeeps
<1>42. P[7] = 64
  BY <1>21, <1>34, BeginsKeeps
<1>43. P[8] = 0
  BY <1>22, <1>33, BeginsKeeps
<1>44. P[10] = 17
  BY <1>24, <1>32, BeginsKeeps
<1> QED
  BY <1>14, <1>29, <1>37, <1>38, <1>39, <1>40, <1>41, <1>42, <1>43, <1>44
     DEF Prefix, Bytes

\* What processRawIPMessage reads from such headers.
HeadersRead(buf, length, sourceIP, destinationIP, sourcePort, destinationPort, udpLength) ==
    LET ip  == parseIPv4Header(buf, 0)
        udp == parseUDPHeader(buf, 20)
    IN  /\ ip.version = 4 /\ ip.headerLength = 5 /\ ip.protocol = 17
        /\ ip.dontFragment /\ ~ip.moreFragments /\ ip.fragmentOffset = 0
        /\ ip.totalLength = length
        /\ ip.sourceIPAddress = sourceIP /\ ip.destinationIPAddress = destinationIP
        /\ udp.sourcePort = sourcePort /\ udp.destinationPort = destinationPort
        /\ udp.length = udpLength

LEMMA PrefixRead ==
    ASSUME NEW P, NEW length, NEW sourceIP, NEW destinationIP, NEW sourcePort,
           NEW destinationPort, NEW udpLength,
           Prefix(P, length, sourceIP, destinationIP, sourcePort, destinationPort, udpLength),
           NEW buf, Begins(P, buf, 28),
           sourceIP = <<sourceIP[1], sourceIP[2]>>,
           destinationIP = <<destinationIP[1], destinationIP[2]>>
    PROVE  HeadersRead(buf, length, sourceIP, destinationIP, sourcePort, destinationPort,
                       udpLength)
<1>1. 28 \in Nat /\ \A i \in 1 .. 28 : buf[i] = P[i]
  BY BeginsKeeps
<1>2. buf[1] = 69 /\ buf[7] = 64 /\ buf[8] = 0 /\ buf[10] = 17
  BY <1>1 DEF Prefix
<1>3. /\ IsWord(buf, 2, length)
      /\ IsWord(buf, 12, sourceIP[1]) /\ IsWord(buf, 14, sourceIP[2])
      /\ IsWord(buf, 16, destinationIP[1]) /\ IsWord(buf, 18, destinationIP[2])
      /\ IsWord(buf, 20, sourcePort) /\ IsWord(buf, 22, destinationPort)
      /\ IsWord(buf, 24, udpLength)
  <2>1. /\ IsWord(P, 2, length)
        /\ IsWord(P, 12, sourceIP[1]) /\ IsWord(P, 14, sourceIP[2])
        /\ IsWord(P, 16, destinationIP[1]) /\ IsWord(P, 18, destinationIP[2])
        /\ IsWord(P, 20, sourcePort) /\ IsWord(P, 22, destinationPort)
        /\ IsWord(P, 24, udpLength)
    BY Zenon DEF Prefix
  <2>2. ASSUME NEW k \in {2, 12, 14, 16, 18, 20, 22, 24}, NEW w, IsWord(P, k, w)
        PROVE  IsWord(buf, k, w)
    <3>1. k \in Nat /\ k + 2 <= 28
      OBVIOUS
    <3> QED
      BY <3>1, <1>1, <2>2, BeginsKeeps, ZenonT(40)
  <2> QED
    BY <2>1, <2>2
<1>4. /\ get16BitInt(buf, 2) = length
      /\ get16BitInt(buf, 12) = sourceIP[1] /\ get16BitInt(buf, 14) = sourceIP[2]
      /\ get16BitInt(buf, 16) = destinationIP[1] /\ get16BitInt(buf, 18) = destinationIP[2]
      /\ get16BitInt(buf, 20) = sourcePort /\ get16BitInt(buf, 22) = destinationPort
      /\ get16BitInt(buf, 24) = udpLength
  BY <1>3, GetWord
<1>5. get32BitInt(buf, 12) = sourceIP /\ get32BitInt(buf, 16) = destinationIP
  BY <1>4 DEF get32BitInt
<1>6. /\ get4BitInt(buf, 0, TRUE) = 4 /\ get4BitInt(buf, 0, FALSE) = 5
      /\ Byte(buf, 9) = 17 /\ 256 * (Byte(buf, 6) % 32) + Byte(buf, 7) = 0
  BY <1>2 DEF get4BitInt, Byte
<1>7. getBit(buf, 6, 1) /\ ~getBit(buf, 6, 2)
  <2>1. 2^(7 - 1) = 64 /\ 2^(7 - 2) = 32
    OBVIOUS
  <2>2. Byte(buf, 6) = 64
    BY <1>2 DEF Byte
  <2>3. (64 \div 64) % 2 = 1 /\ (64 \div 32) % 2 # 1
    OBVIOUS
  <2> QED
    BY <2>1, <2>2, <2>3 DEF getBit
<1>8. /\ 0 + 2 = 2 /\ 0 + 6 = 6 /\ 0 + 7 = 7 /\ 0 + 9 = 9 /\ 0 + 12 = 12 /\ 0 + 16 = 16
      /\ 20 + 2 = 22 /\ 20 + 4 = 24
  OBVIOUS
<1> QED
  BY <1>4, <1>5, <1>6, <1>7, <1>8, ZenonT(40) DEF HeadersRead, parseIPv4Header, parseUDPHeader

-----------------------------------------------------------------------------
(***************************************************************************)
(* The inductive invariant.                                                *)
(***************************************************************************)

\* What the reader has: the bytes of the sender, behind the headers of the system or
\* of the tests if its socket gives them.
Received(buf, at, s) ==
    \/ at = 0 /\ buf = Layout(s)
    \/ /\ at = 28
       /\ \/ buf = DatagramHeaders(s.header, Layout(s)) \o Layout(s)
          \/ buf = mockHeaders(1) \o Layout(s) /\ s.header \in Sent

HalfRead ==
    /\ Received(buffer, offset, segment)
    /\ AtOption(segment.options, getDataOffsetBytes(segment.header), optionIndex)
    /\ \E size : /\ SizeBefore(segment.options, optionIndex, size)
                 /\ header = [segment.header EXCEPT !.maxSegmentSizeOption = size]

ReadInv ==
    /\ IsSegment(segment) /\ phase \in Phase
    /\ phase = "filling" => segment.header \in Sent /\ segment = SentSegment(segment.header)
    /\ phase = "sent" => buffer = Layout(segment)
    /\ phase \in {"filling", "sent"} => header = <<>> /\ offset = 0
    /\ phase \in {"options", "parsed"} => HalfRead
    /\ phase = "parsed" /\ optionIndex \in DOMAIN segment.options =>
           segment.options[optionIndex] = EndOfOptions

\* A header with another size is the same header otherwise.
LEMMA WithSize ==
    ASSUME NEW h \in TCPHeader, NEW size, NEW g, g = [h EXCEPT !.maxSegmentSizeOption = size]
    PROVE  /\ g.sourcePort = h.sourcePort /\ g.destinationPort = h.destinationPort
           /\ getDataOffsetBytes(g) = getDataOffsetBytes(h)
           /\ \A other : [g EXCEPT !.maxSegmentSizeOption = other]
                             = [h EXCEPT !.maxSegmentSizeOption = other]
<1>1. /\ g.sourcePort = h.sourcePort /\ g.destinationPort = h.destinationPort
      /\ g.dataOffset = h.dataOffset
  BY DEF TCPHeader
<1>2. \A other : [g EXCEPT !.maxSegmentSizeOption = other]
                     = [h EXCEPT !.maxSegmentSizeOption = other]
  BY Zenon
<1>3. getDataOffsetBytes(g) = getDataOffsetBytes(h)
  BY <1>1 DEF getDataOffsetBytes
<1> QED
  BY <1>1, <1>2, <1>3, Zenon

\* Facts about a segment that the steps need.
LEMMA SegmentFacts ==
    ASSUME NEW s, IsSegment(s)
    PROVE  /\ s.header \in TCPHeader
           /\ getDataOffsetBytes(s.header) \in Nat
           /\ 20 <= getDataOffsetBytes(s.header)
           /\ WellFormed(s.options, getDataOffsetBytes(s.header))
           /\ Len(s.payload) \in Nat
           /\ Len(Layout(s)) = getDataOffsetBytes(s.header) + Len(s.payload)
           /\ 28 + Len(Layout(s)) \in Half
           /\ Layout(s) \in Seq({Layout(s)[k] : k \in 1 .. Len(Layout(s))})
<1>1. PICK n : n = getDataOffsetBytes(s.header)
  OBVIOUS
<1>2. PICK m \in Nat : m = Len(s.payload)
  BY DEF IsSegment
<1>3. LaidOut(Layout(s), HeaderWords(s.header), s.options, n, m)
  BY <1>1, <1>2, LayoutBytes, Zenon
<1>4. /\ n \in 20 .. 60 /\ Len(Layout(s)) = n + m
      /\ Layout(s) \in Seq({Layout(s)[k] : k \in 1 .. n + m})
  BY <1>3, Zenon DEF LaidOut
<1>5. n \in Nat /\ 20 <= n
  BY <1>4
<1>6. PICK l \in Int : l = 28 + Len(Layout(s))
  BY <1>2, <1>4, <1>5
<1>7. 0 <= l /\ l <= 65535
  BY <1>1, <1>2, <1>4, <1>5, <1>6, SMTT(30)
     DEF IsSegment, IP_HEADER_LENGTH, UDP_HEADER_LENGTH,
         getDataOffsetBytes, DATA_OFFSET_WORD_LENGTH
<1>8. l \in Half
  BY <1>7, HalfRange
<1>9. s.header \in TCPHeader /\ WellFormed(s.options, getDataOffsetBytes(s.header))
  BY DEF IsSegment, getDataOffsetBytes, DATA_OFFSET_WORD_LENGTH
<1>10. PICK L : L = Layout(s)
  OBVIOUS
<1>11. L \in Seq({L[k] : k \in 1 .. Len(L)})
  BY <1>4, <1>10, Zenon
<1> QED
  BY <1>1, <1>2, <1>4, <1>5, <1>6, <1>8, <1>9, <1>10, <1>11, Zenon

\* Behind other headers the sender's bytes are found where the reader looks.
LEMMA BehindHeaders ==
    ASSUME NEW s, IsSegment(s), NEW n \in Nat, NEW P \in Seq(Int), Len(P) = n,
           NEW buf, buf = P \o Layout(s)
    PROVE  /\ Holds(buf, n, Layout(s))
           /\ Len(buf) = n + Len(Layout(s))
           /\ Begins(P, buf, n)
<1>1. PICK L : L = Layout(s)
  OBVIOUS
<1>2. PICK S : L \in Seq(S)
  BY <1>1, SegmentFacts, Zenon
<1>3. Behind(buf, P, L)
  BY <1>1, <1>2, BehindPrefix, Zenon
<1>4. /\ Len(buf) = n + Len(L)
      /\ \A i \in 1 .. n : buf[i] = P[i]
      /\ \A i \in 1 .. Len(L) : buf[n + i] = L[i]
  BY <1>3, Zenon DEF Behind
<1> QED
  BY <1>1, <1>4, Zenon DEF Holds, Begins

LEMMA ReceivedHolds ==
    ASSUME NEW s, IsSegment(s), NEW buf, NEW at, Received(buf, at, s)
    PROVE  /\ Holds(buf, at, Layout(s))
           /\ at \in Nat /\ Len(buf) = at + Len(Layout(s))
<1>1. PICK L : L = Layout(s)
  OBVIOUS
<1>2. Len(L) \in Nat
  BY <1>1, SegmentFacts
<1>3. CASE at = 0 /\ buf = L
  <2>1. \A k \in 1 .. Len(L) : buf[at + k] = L[k]
    BY <1>3
  <2>2. at \in Nat /\ Len(buf) = at + Len(L)
    BY <1>2, <1>3
  <2> QED
    BY <1>1, <2>1, <2>2, Zenon DEF Holds
<1>4. CASE at = 28 /\ buf = DatagramHeaders(s.header, L) \o L
  <2>1. PICK P : P = DatagramHeaders(s.header, L)
    OBVIOUS
  <2>2. P \in Seq(Int) /\ Len(P) = 28
    <3>1. s.header \in TCPHeader /\ Len(L) \in Nat /\ 28 + Len(L) \in Half
      BY <1>1, <1>2, SegmentFacts, Zenon
    <3>2. Prefix(P, 28 + Len(L), LOOPBACK, LOOPBACK,
                 s.header.sourcePort, s.header.destinationPort, 8 + Len(L))
      BY <2>1, <3>1, DatagramPrefix, Zenon
    <3> QED
      BY <3>2 DEF Prefix
  <2>3. Holds(buf, 28, L) /\ Len(buf) = 28 + Len(L)
    BY <1>1, <1>4, <2>1, <2>2, BehindHeaders
  <2> QED
    BY <1>1, <1>4, <2>3
<1>5. CASE at = 28 /\ buf = mockHeaders(1) \o L
  <2>1. mockHeaders(1) \in Seq(Int) /\ Len(mockHeaders(1)) = 28
    BY MockPrefix, Zenon DEF Prefix
  <2>2. Holds(buf, 28, L) /\ Len(buf) = 28 + Len(L)
    BY <1>1, <1>5, <2>1, BehindHeaders
  <2> QED
    BY <1>1, <1>5, <2>2
<1> QED
  BY <1>1, <1>3, <1>4, <1>5, Zenon DEF Received

LEMMA ReadInit == Init => ReadInv
<1> SUFFICES ASSUME Init
             PROVE  ReadInv
  OBVIOUS
<1>1. CASE /\ \E h \in Sent : segment = [header |-> h, options |-> SentOptions(h), payload |-> <<>>]
           /\ phase = "filling" /\ buffer = <<>>
  <2>1. PICK h \in Sent : segment = SentSegment(h)
    BY <1>1 DEF SentSegment
  <2>2. segment.header = h /\ IsSegment(segment)
    BY <2>1, SentIsSegment DEF SentSegment
  <2> QED
    BY <1>1, <2>1, <2>2 DEF Init, ReadInv, Phase
<1>2. CASE segment \in Foreign /\ phase = "sent" /\ buffer = Layout(segment)
  BY <1>2, ForeignAssumption DEF Init, ReadInv, Phase
<1> QED
  BY <1>1, <1>2 DEF Init

\* parseTCPHeader starts with the sender's header and no option read.
LEMMA ParseInv ==
    ASSUME ReadInv, NEW recvbuf, NEW at, Parse(recvbuf, at), Received(recvbuf, at, segment)
    PROVE  ReadInv'
<1>1. /\ phase = "sent" /\ phase' = "options" /\ buffer' = recvbuf /\ offset' = at
      /\ header' = parseFixed(recvbuf, at) /\ optionIndex' = 20 /\ segment' = segment
  BY DEF Parse
<1>2. IsSegment(segment)
  BY DEF ReadInv
<1>3. header' = [segment.header EXCEPT !.maxSegmentSizeOption = 65535]
  BY <1>1, <1>2, ReceivedHolds, ParseFixedFields
<1>4. /\ AtOption(segment.options, getDataOffsetBytes(segment.header), 20)
      /\ SizeBefore(segment.options, 20, 65535)
  <2>1. PICK n \in Nat : /\ n = getDataOffsetBytes(segment.header)
                         /\ 20 <= n /\ WellFormed(segment.options, n)
    BY <1>2, SegmentFacts
  <2>2. AtOption(segment.options, n, 20) /\ SizeBefore(segment.options, 20, 65535)
    BY <2>1, LoopStarts
  <2> QED
    BY <2>1, <2>2
<1>5. HalfRead'
  BY <1>1, <1>3, <1>4 DEF HalfRead
<1> QED
  BY <1>1, <1>2, <1>5 DEF ReadInv, Phase

\* What the loop sees.
LEMMA LoopSees ==
    ASSUME ReadInv, phase = "options"
    PROVE  LET o == segment.options
               n == getDataOffsetBytes(segment.header)
           IN  /\ getDataOffsetBytes(header) = n
               /\ InOptions <=> optionIndex \in DOMAIN o
               /\ optionIndex \in DOMAIN o =>
                      /\ Kind = <<o[optionIndex][1]>>
                      /\ Len(o[optionIndex]) = 4 =>
                             get16BitInt(buffer, offset + optionIndex + 2)
                                 = 256 * o[optionIndex][3] + o[optionIndex][4]
<1> DEFINE o == segment.options
           n == getDataOffsetBytes(segment.header)
<1>1. IsSegment(segment) /\ HalfRead
  BY DEF ReadInv
<1>2. segment.header \in TCPHeader /\ n \in Nat /\ WellFormed(o, n)
  BY <1>1, SegmentFacts
<1>3. PICK size : header = [segment.header EXCEPT !.maxSegmentSizeOption = size]
  BY <1>1 DEF HalfRead
<1>4. getDataOffsetBytes(header) = n
  BY <1>2, <1>3, WithSize
<1>5. optionIndex \in DOMAIN o \cup {n}
  BY <1>1 DEF HalfRead, AtOption
<1>6. \A p \in DOMAIN o : p \in Int /\ p < n
  BY <1>2, OptionShapes
<1>7. InOptions <=> optionIndex \in DOMAIN o
  BY <1>2, <1>4, <1>5, <1>6 DEF InOptions
<1>8. Holds(buffer, offset, Layout(segment))
  BY <1>1, ReceivedHolds DEF HalfRead
<1>9. ASSUME optionIndex \in DOMAIN o
      PROVE  /\ Byte(buffer, offset + optionIndex) = o[optionIndex][1]
             /\ Len(o[optionIndex]) = 4 =>
                    get16BitInt(buffer, offset + optionIndex + 2)
                        = 256 * o[optionIndex][3] + o[optionIndex][4]
  BY <1>1, <1>8, <1>9, OptionRead
<1> QED
  BY <1>4, <1>7, <1>9 DEF Kind

LEMMA ReadStep == ReadInv /\ [Next]_vars => ReadInv'
<1> SUFFICES ASSUME ReadInv, [Next]_vars
             PROVE  ReadInv'
  OBVIOUS
<1> DEFINE o == segment.options
           n == getDataOffsetBytes(segment.header)
           i == optionIndex
<1>1. IsSegment(segment) /\ n \in Nat /\ WellFormed(o, n) /\ segment.header \in TCPHeader
  BY SegmentFacts DEF ReadInv
<1>2. CASE Fill
  <2>1. segment.header \in Sent /\ segment = SentSegment(segment.header)
    BY <1>2 DEF Fill, ReadInv
  <2>2. buffer' = Layout(segment)
    BY <1>2, <2>1, FillIsLayout DEF Fill
  <2> QED
    BY <1>2, <2>2 DEF Fill, ReadInv, Phase
<1>3. CASE ReadUDP
  <2>1. Parse(buffer, 0) /\ Received(buffer, 0, segment)
    BY <1>3 DEF ReadUDP, Parse, ReadInv, Received
  <2> QED
    BY <2>1, ParseInv
<1>4. CASE ReadRaw
  <2>1. PICK recvbuf : recvbuf = DatagramHeaders(segment.header, buffer) \o buffer
    OBVIOUS
  <2>2. Parse(recvbuf, 28) /\ buffer = Layout(segment)
    BY <1>4, <2>1 DEF ReadRaw, Parse, ReadInv, IP_HEADER_LENGTH, UDP_HEADER_LENGTH
  <2>3. Received(recvbuf, 28, segment)
    BY <2>1, <2>2 DEF Received
  <2> QED
    BY <2>2, <2>3, ParseInv
<1>5. CASE ReadMock
  <2>1. PICK recvbuf : recvbuf = mockHeaders(1) \o buffer
    OBVIOUS
  <2>2. Parse(recvbuf, 28) /\ buffer = Layout(segment) /\ segment.header \in Sent
    BY <1>5, <2>1 DEF ReadMock, Parse, ReadInv, IP_HEADER_LENGTH, UDP_HEADER_LENGTH
  <2>3. Received(recvbuf, 28, segment)
    BY <2>1, <2>2 DEF Received
  <2> QED
    BY <2>2, <2>3, ParseInv
<1>6. ASSUME phase = "options", i \in DOMAIN o, o[i] # EndOfOptions,
             UNCHANGED <<segment, phase, buffer, offset>>,
             optionIndex' = i + Len(o[i]),
             \/ Len(o[i]) = 1 /\ header' = header
             \/ /\ Len(o[i]) = 4
                /\ header' = [header EXCEPT !.maxSegmentSizeOption = 256 * o[i][3] + o[i][4]]
      PROVE  ReadInv'
  <2>1. PICK size : /\ SizeBefore(o, i, size)
                    /\ header = [segment.header EXCEPT !.maxSegmentSizeOption = size]
    BY <1>6 DEF ReadInv, HalfRead
  <2>2. AtOption(o, n, i) /\ Received(buffer, offset, segment)
    BY <1>6 DEF ReadInv, HalfRead
  <2>3. /\ AtOption(o, n, i + Len(o[i]))
        /\ Len(o[i]) = 1 => SizeBefore(o, i + 1, size)
        /\ Len(o[i]) = 4 => SizeBefore(o, i + 4, 256 * o[i][3] + o[i][4])
    BY <1>1, <1>6, <2>1, <2>2, LoopTurn, ZenonT(40)
  <2>4. \E other : /\ SizeBefore(o, optionIndex', other)
                   /\ header' = [segment.header EXCEPT !.maxSegmentSizeOption = other]
    <3>1. CASE Len(o[i]) = 1
      BY <3>1, <1>6, <2>1, <2>3
    <3>2. CASE Len(o[i]) = 4
      <4>1. \A other : [header EXCEPT !.maxSegmentSizeOption = other]
                           = [segment.header EXCEPT !.maxSegmentSizeOption = other]
        BY <1>1, <2>1, WithSize
      <4>2. PICK other : other = 256 * o[i][3] + o[i][4]
        OBVIOUS
      <4>3. header' = [segment.header EXCEPT !.maxSegmentSizeOption = other]
        <5>1. header' = [header EXCEPT !.maxSegmentSizeOption = other]
          BY <3>2, <4>2, <1>6
        <5> QED
          BY <5>1, <4>1, Zenon
      <4>4. SizeBefore(o, i + 4, other)
        BY <3>2, <4>2, <2>3
      <4> QED
        BY <3>2, <4>3, <4>4, <1>6
    <3> QED
      BY <3>1, <3>2, <1>6
  <2>5. HalfRead'
    BY <1>6, <2>2, <2>3, <2>4 DEF HalfRead
  <2>6. IsSegment(segment') /\ phase' = "options"
    BY <1>6 DEF ReadInv
  <2> QED
    BY <2>5, <2>6 DEF ReadInv, Phase
<1>7. CASE SkipNoOperation
  <2>1. phase = "options" /\ i \in DOMAIN o /\ Kind = <<o[i][1]>> /\ Kind = <<1>>
    BY <1>7, LoopSees DEF SkipNoOperation, InOptions, NoOperation
  <2>2. o[i][1] = 1
    BY <2>1
  <2>3. Len(o[i]) = 1 /\ o[i] # EndOfOptions
    BY <1>1, <2>1, <2>2, OptionShapes
  <2> QED
    BY <1>6, <1>7, <2>1, <2>3 DEF SkipNoOperation, SkipsTo
<1>8. CASE TakeMaxSegmentSize
  <2>1. /\ phase = "options" /\ i \in DOMAIN o /\ Kind = <<o[i][1]>> /\ Kind = <<2>>
        /\ Len(o[i]) = 4 => get16BitInt(buffer, offset + i + 2) = 256 * o[i][3] + o[i][4]
    BY <1>8, LoopSees DEF TakeMaxSegmentSize, InOptions
  <2>2. o[i][1] = 2
    BY <2>1
  <2>3. Len(o[i]) = 4 /\ o[i] # EndOfOptions
    BY <1>1, <2>1, <2>2, OptionShapes
  <2> QED
    BY <1>6, <1>8, <2>1, <2>3 DEF TakeMaxSegmentSize, SkipsTo
<1>9. CASE EndOptions
  <2>1. /\ phase = "options" /\ phase' = "parsed"
        /\ UNCHANGED <<segment, buffer, offset, header, optionIndex>>
    BY <1>9 DEF EndOptions
  <2>2. ASSUME i \in DOMAIN o
        PROVE  o[i] = EndOfOptions
    <3>1. Kind = <<o[i][1]>> /\ Kind # <<1>> /\ Kind # <<2>>
      BY <1>9, <2>1, <2>2, LoopSees DEF EndOptions, NoOperation
    <3>2. o[i][1] # 1 /\ o[i][1] # 2
      BY <3>1
    <3> QED
      BY <1>1, <2>2, <3>2, OptionShapes
  <2>3. HalfRead'
    BY <2>1 DEF ReadInv, HalfRead
  <2> QED
    BY <2>1, <2>2, <2>3 DEF ReadInv, Phase
<1>10. CASE UNCHANGED vars
  BY <1>10 DEF vars, ReadInv, HalfRead
<1> QED
  BY <1>2, <1>3, <1>4, <1>5, <1>7, <1>8, <1>9, <1>10 DEF Next

-----------------------------------------------------------------------------
(***************************************************************************)
(* What the invariant says, for the properties.                            *)
(***************************************************************************)

\* While a header is parsed, its fields but the size are the sender's.
LEMMA HeaderRead ==
    ASSUME IsSegment(segment), HalfRead
    PROVE  /\ header.sourcePort = segment.header.sourcePort
           /\ header.destinationPort = segment.header.destinationPort
           /\ getDataOffsetBytes(header) = getDataOffsetBytes(segment.header)
<1>1. PICK size : header = [segment.header EXCEPT !.maxSegmentSizeOption = size]
  BY DEF HalfRead
<1>2. segment.header \in TCPHeader
  BY SegmentFacts
<1> QED
  BY <1>1, <1>2, WithSize

\* Once parsed, the size is the one listed.
LEMMA ReadAsSent == ReadInv => ParsedAsSent
<1> SUFFICES ASSUME ReadInv, phase = "parsed"
             PROVE  header = [segment.header EXCEPT !.maxSegmentSizeOption =
                                  ListedSize(segment.options)]
  BY DEF ParsedAsSent
<1>1. IsSegment(segment) /\ HalfRead
  BY DEF ReadInv
<1>2. PICK o : o = segment.options
  OBVIOUS
<1>3. PICK n \in Nat : n = getDataOffsetBytes(segment.header) /\ WellFormed(o, n)
  BY <1>1, <1>2, SegmentFacts
<1>4. PICK size : /\ SizeBefore(o, optionIndex, size)
                  /\ header = [segment.header EXCEPT !.maxSegmentSizeOption = size]
  BY <1>1, <1>2, Zenon DEF HalfRead
<1>5. AtOption(o, n, optionIndex)
  BY <1>1, <1>2, <1>3, Zenon DEF HalfRead
<1>6. optionIndex \in DOMAIN o => o[optionIndex] = EndOfOptions
  BY <1>2 DEF ReadInv
<1>7. size = ListedSize(o)
  BY <1>3, <1>4, <1>5, <1>6, LoopStops, Zenon
<1> QED
  BY <1>2, <1>4, <1>7, Zenon

LEMMA ReadWithin == ReadInv => OptionsWithinHeader
<1> SUFFICES ASSUME ReadInv, phase # "sent", header # <<>>
             PROVE  optionIndex <= getDataOffsetBytes(header)
  BY DEF OptionsWithinHeader
<1>1. IsSegment(segment) /\ HalfRead
  BY DEF ReadInv, Phase
<1>2. PICK o : o = segment.options
  OBVIOUS
<1>3. PICK n \in Nat : n = getDataOffsetBytes(segment.header) /\ WellFormed(o, n)
  BY <1>1, <1>2, SegmentFacts
<1>4. optionIndex \in DOMAIN o \cup {n}
  BY <1>1, <1>2, <1>3, Zenon DEF HalfRead, AtOption
<1>5. \A p \in DOMAIN o : p \in Int /\ p < n
  BY <1>3, OptionShapes
<1>6. optionIndex <= n
  BY <1>4, <1>5
<1> QED
  BY <1>1, <1>3, <1>6, HeaderRead

LEMMA ReadLength == ReadInv => SegLenIsPayload
<1> SUFFICES ASSUME ReadInv, phase = "parsed", offset > 0
             PROVE  Len(buffer) - IP_HEADER_LENGTH - UDP_HEADER_LENGTH
                        - getDataOffsetBytes(header) = Len(segment.payload)
  BY DEF SegLenIsPayload
<1>1. IsSegment(segment) /\ HalfRead
  BY DEF ReadInv
<1>2. Received(buffer, offset, segment)
  BY <1>1 DEF HalfRead
<1>3. offset = 28
  BY <1>2 DEF Received
<1>4. PICK n \in Nat : n = getDataOffsetBytes(segment.header)
  BY <1>1, SegmentFacts
<1>5. PICK m \in Nat : m = Len(segment.payload)
  BY <1>1, SegmentFacts
<1>6. Len(Layout(segment)) = n + m
  BY <1>1, <1>4, <1>5, SegmentFacts
<1>7. Len(buffer) = 28 + (n + m)
  BY <1>1, <1>2, <1>3, <1>6, ReceivedHolds
<1>8. getDataOffsetBytes(header) = n
  BY <1>1, <1>4, HeaderRead
<1> QED
  BY <1>5, <1>7, <1>8 DEF IP_HEADER_LENGTH, UDP_HEADER_LENGTH

LEMMA ReadRawHeaders == ReadInv => RawHeadersAgree
<1> SUFFICES ASSUME ReadInv, phase = "parsed", offset > 0
             PROVE  RawHeadersAgree
  BY DEF RawHeadersAgree
<1> DEFINE ip  == parseIPv4Header(buffer, 0)
           udp == parseUDPHeader(buffer, 20)
<1>1. IsSegment(segment) /\ HalfRead
  BY DEF ReadInv
<1>2. PICK L : L = Layout(segment)
  OBVIOUS
<1>3. /\ offset = 28
      /\ \/ buffer = DatagramHeaders(segment.header, L) \o L
         \/ buffer = mockHeaders(1) \o L /\ segment.header \in Sent
  BY <1>1, <1>2 DEF HalfRead, Received
<1>4. PICK l \in Nat : l = Len(L) /\ 28 + l \in Half /\ segment.header \in TCPHeader
  <2>1. Len(L) \in Nat
    BY <1>1, <1>2, SegmentFacts
  <2> QED
    BY <1>1, <1>2, <2>1, SegmentFacts, Zenon
<1>5. Len(buffer) = 28 + l
  BY <1>1, <1>2, <1>3, <1>4, ReceivedHolds DEF HalfRead
<1>6. LOOPBACK = <<LOOPBACK[1], LOOPBACK[2]>> /\ <<0, 0>> = <<<<0, 0>>[1], <<0, 0>>[2]>>
  BY DEF LOOPBACK
<1>7. 28 \in Nat
  OBVIOUS
<1>8. CASE buffer = DatagramHeaders(segment.header, L) \o L
  <2>1. PICK P : P = DatagramHeaders(segment.header, L)
    OBVIOUS
  <2>2. PICK p : p = segment.header.sourcePort
    OBVIOUS
  <2>3. PICK q : q = segment.header.destinationPort
    OBVIOUS
  <2>4. Prefix(P, 28 + l, LOOPBACK, LOOPBACK, p, q, 8 + l)
    BY <1>4, <2>1, <2>2, <2>3, DatagramPrefix, Zenon
  <2>5. P \in Seq(Int) /\ Len(P) = 28
    BY <2>4, Zenon DEF Prefix
  <2>6. Begins(P, buffer, 28)
    BY <1>1, <1>2, <1>7, <1>8, <2>1, <2>5, BehindHeaders
  <2>7. /\ ip.version = 4 /\ ip.headerLength = 5 /\ ip.protocol = 17
        /\ ip.dontFragment /\ ~ip.moreFragments /\ ip.fragmentOffset = 0
        /\ ip.totalLength = 28 + l
        /\ ip.sourceIPAddress = LOOPBACK /\ ip.destinationIPAddress = LOOPBACK
        /\ udp.sourcePort = p /\ udp.destinationPort = q
        /\ udp.length = 8 + l
    <3>1. HeadersRead(buffer, 28 + l, LOOPBACK, LOOPBACK, p, q, 8 + l)
      BY <1>6, <2>4, <2>6, PrefixRead, Zenon
    <3> QED
      BY <3>1 DEF HeadersRead
  <2>8. header.sourcePort = p /\ header.destinationPort = q
    BY <1>1, <2>2, <2>3, HeaderRead
  <2> HIDE DEF ip, udp
  <2>9. 4 * ip.headerLength = 20 /\ 20 + udp.length = ip.totalLength
    BY <2>7
  <2>10. ip = parseIPv4Header(buffer, 0) /\ udp = parseUDPHeader(buffer, 20)
    BY DEF ip, udp
  <2> QED
    BY <1>5, <2>7, <2>8, <2>9, <2>10
       DEF RawHeadersAgree, IP_HEADER_LENGTH, IPPROTO_UDP, DATA_OFFSET_WORD_LENGTH
<1>9. CASE buffer = mockHeaders(1) \o L /\ segment.header \in Sent
  <2>1. PICK P : P = mockHeaders(1)
    OBVIOUS
  <2>2. Prefix(P, 48, <<0, 0>>, <<0, 0>>, 0, 0, 0)
    BY <2>1, MockPrefix
  <2>3. P \in Seq(Int) /\ Len(P) = 28
    BY <2>2 DEF Prefix
  <2>4. Begins(P, buffer, 28)
    BY <1>1, <1>2, <1>7, <1>9, <2>1, <2>3, BehindHeaders
  <2>5. /\ ip.version = 4 /\ ip.headerLength = 5 /\ ip.protocol = 17
        /\ ip.dontFragment /\ ~ip.moreFragments /\ ip.fragmentOffset = 0
        /\ ip.totalLength = 48 /\ ip.sourceIPAddress = <<0, 0>>
        /\ udp.length = 0
    <3>1. HeadersRead(buffer, 48, <<0, 0>>, <<0, 0>>, 0, 0, 0)
      BY <1>6, <2>2, <2>4, PrefixRead, Zenon
    <3> QED
      BY <3>1 DEF HeadersRead
  <2>6. segment.header.dataOffset = 7
    BY <1>9, SentIsSegment
  <2>7. 28 <= l
    <3>1. PICK m \in Nat : m = Len(segment.payload)
      BY <1>1, SegmentFacts
    <3>2. getDataOffsetBytes(segment.header) = 28
      BY <2>6 DEF getDataOffsetBytes, DATA_OFFSET_WORD_LENGTH
    <3>3. l = 28 + m
      BY <1>1, <1>2, <1>4, <3>1, <3>2, SegmentFacts
    <3> QED
      BY <3>1, <3>3
  <2>8. SubSeq(buffer, 1, 28) = P
    <3>1. PICK S : L \in Seq(S)
      BY <1>1, <1>2, SegmentFacts, Zenon
    <3>2. PICK k : k = Len(P)
      OBVIOUS
    <3>3. SubSeq(P \o L, 1, k) = P
      BY <2>3, <3>1, <3>2, PrefixAgain, Zenon
    <3> QED
      BY <1>9, <2>1, <2>3, <3>2, <3>3
  <2> HIDE DEF ip, udp
  <2>9. ip = parseIPv4Header(buffer, 0) /\ udp = parseUDPHeader(buffer, 20)
    BY DEF ip, udp
  <2>10. 4 * ip.headerLength = 20 /\ ip.totalLength < Len(buffer)
    BY <1>5, <2>5, <2>7
  <2> QED
    BY <1>3, <2>1, <2>5, <2>8, <2>9, <2>10
       DEF RawHeadersAgree, IP_HEADER_LENGTH, IPPROTO_UDP, DATA_OFFSET_WORD_LENGTH
<1> QED
  BY <1>3, <1>8, <1>9

-----------------------------------------------------------------------------
(***************************************************************************)
(* The theorems.                                                           *)
(***************************************************************************)

\* At every turn of the loop of parseTCPHeader the buffer still is what was sent, the
\* loop stands at an option, and the header is the sender's with the size listed so far.
THEOREM ReadingInvariant == Spec => []ReadInv
<1>1. Init => ReadInv
  BY ReadInit
<1>2. ReadInv /\ [Next]_vars => ReadInv'
  BY ReadStep
<1> QED
  BY <1>1, <1>2, PTL DEF Spec

\* fillSendBuffer writes every header that the senders fill in as RFC 793 lays it out.
THEOREM HeadersFilledAsRFC793 == Spec => []FilledAsRFC793
<1>1. ReadInv => FilledAsRFC793
  BY DEF ReadInv, FilledAsRFC793
<1> QED
  BY <1>1, ReadingInvariant, PTL

\* parseTCPHeader ends with the header that was meant and the last size listed,
\* whoever sent the segment and whichever socket gave it.
THEOREM HeadersParsedAsSent == Spec => []ParsedAsSent
BY ReadingInvariant, ReadAsSent, PTL

\* Its loop never steps past the header.
THEOREM LoopWithinHeader == Spec => []OptionsWithinHeader
BY ReadingInvariant, ReadWithin, PTL

\* The length that processRawIPMessage computes is the payload's.
THEOREM SegmentLengthRight == Spec => []SegLenIsPayload
BY ReadingInvariant, ReadLength, PTL

\* The headers of IPv4, UDP and TCP that processRawIPMessage reads at fixed offsets
\* describe one datagram.
THEOREM FixedOffsetsAgree == Spec => []RawHeadersAgree
BY ReadingInvariant, ReadRawHeaders, PTL

=============================================================================
