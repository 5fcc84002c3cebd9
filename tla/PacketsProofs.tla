---------------------------- MODULE PacketsProofs ----------------------------
(***************************************************************************)
(* Packets, proved for any bytes: no packet makes a processor push         *)
(* anything but whole captions or whole sections, and none keeps it busy   *)
(* longer than it has bytes.                                               *)
(***************************************************************************)
EXTENDS Packets, SequenceFacts, FiniteSetTheorems, TLAPS

-----------------------------------------------------------------------------
(* numbers and sequences of bytes *)

LEMMA UpTo ==
  ASSUME NEW n \in Nat
  PROVE  \A x : x \in 0 .. n <=> x \in Nat /\ x <= n
OBVIOUS

\* The provers would write such a set out, element by element.
LEMMA ByteIs == \A x : x \in Byte <=> x \in Nat /\ x <= 255
<1> DEFINE n == 255
<1>1. n \in Nat
  OBVIOUS
<1>2. Byte = 0 .. n
  BY Zenon DEF Byte
<1> HIDE DEF n
<1>3. \A x : x \in Byte <=> x \in Nat /\ x <= n
  BY <1>1, <1>2, UpTo
<1> QED
  BY <1>3 DEF n

LEMMA U16Is == \A x : x \in U16 <=> x \in Nat /\ x <= 65535
<1> DEFINE n == 256 * 256 - 1
<1>1. n \in Nat
  OBVIOUS
<1>2. U16 = 0 .. n
  BY Zenon DEF U16
<1>3. n = 65535
  OBVIOUS
<1> HIDE DEF n
<1>4. \A x : x \in U16 <=> x \in Nat /\ x <= n
  BY <1>1, <1>2, UpTo
<1> QED
  BY <1>3, <1>4

LEMMA U12Is == \A x : x \in U12 <=> x \in Nat /\ x <= 4095
<1> DEFINE n == 4095
<1>1. n \in Nat
  OBVIOUS
<1>2. U12 = 0 .. n
  BY Zenon DEF U12
<1> HIDE DEF n
<1>3. \A x : x \in U12 <=> x \in Nat /\ x <= n
  BY <1>1, <1>2, UpTo
<1> QED
  BY <1>3 DEF n

LEMMA U6Is == \A x : x \in U6 <=> x \in Nat /\ x <= 63
<1> DEFINE n == 63
<1>1. n \in Nat
  OBVIOUS
<1>2. U6 = 0 .. n
  BY Zenon DEF U6
<1> HIDE DEF n
<1>3. \A x : x \in U6 <=> x \in Nat /\ x <= n
  BY <1>1, <1>2, UpTo
<1> QED
  BY <1>3 DEF n

LEMMA ConcatType ==
  ASSUME NEW S, NEW s \in Seq(S), NEW t \in Seq(S)
  PROVE  s \o t \in Seq(S) /\ Len(s \o t) = Len(s) + Len(t)
OBVIOUS

LEMMA SequenceOf ==
  ASSUME NEW S, NEW n \in Nat, NEW v \in [ 1 .. n -> S ]
  PROVE  v \in Seq(S) /\ Len(v) = n
OBVIOUS

LEMMA OnlyOne ==
  ASSUME NEW S, NEW x \in S
  PROVE  << x >> \in Seq(S) /\ Len(<< x >>) = 1
OBVIOUS

LEMMA SubSeqType ==
  ASSUME NEW S, NEW s \in Seq(S), NEW m \in Nat \ {0}, NEW n \in Nat, n <= Len(s)
  PROVE  /\ SubSeq(s, m, n) \in Seq(S)
         /\ Len(SubSeq(s, m, n)) = IF m <= n THEN n - m + 1 ELSE 0
         /\ \A i \in 1 .. Len(SubSeq(s, m, n)) : SubSeq(s, m, n)[i] = s[m + i - 1]
OBVIOUS

-----------------------------------------------------------------------------
(* bytes that are read *)

\* A byte is read everywhere, and with it numbers of every width.
LEMMA Scan8Type ==
  ASSUME NEW d \in Seq(Byte), NEW p
  PROVE  scan_8(d, p) \in Byte /\ scan_8(d, p) \in Nat /\ scan_8(d, p) <= 255
<1>1. CASE p \in DOMAIN d
  <2>1. d[p] \in Byte
    BY <1>1
  <2>2. scan_8(d, p) = d[p]
    BY <1>1 DEF scan_8
  <2> QED
    BY <2>1, <2>2, ByteIs
<1>2. CASE p \notin DOMAIN d
  BY <1>2, ByteIs DEF scan_8
<1> QED
  BY <1>1, <1>2

LEMMA ScanType ==
  ASSUME NEW d \in Seq(Byte), NEW p \in Nat
  PROVE  scan_16(d, p) \in U16 /\ scan_12_low(d, p) \in U12 /\ scan_12_high(d, p) \in U12
<1> DEFINE a == scan_8(d, p)
           b == scan_8(d, p + 1)
<1>1. a \in Nat /\ a <= 255 /\ b \in Nat /\ b <= 255
  BY Scan8Type
<1>2. scan_16(d, p) = a * 256 + b
  BY DEF scan_16
<1>3. scan_12_low(d, p) = (a % 16) * 256 + b
  BY DEF scan_12_low
<1>4. scan_12_high(d, p) = a * 16 + b \div 16
  BY DEF scan_12_high
<1> HIDE DEF a, b
<1>5. a * 256 + b \in Nat /\ a * 256 + b <= 65535
  BY <1>1
<1>6. (a % 16) * 256 + b \in Nat /\ (a % 16) * 256 + b <= 4095
  <2>1. a % 16 \in Nat /\ a % 16 <= 15
    BY <1>1
  <2> QED
    BY <1>1, <2>1
<1>7. a * 16 + b \div 16 \in Nat /\ a * 16 + b \div 16 <= 4095
  <2>1. b \div 16 \in Nat /\ b \div 16 <= 15
    BY <1>1
  <2> QED
    BY <1>1, <2>1
<1>8. scan_16(d, p) \in U16
  BY <1>2, <1>5, U16Is
<1>9. scan_12_low(d, p) \in U12
  BY <1>3, <1>6, U12Is
<1>10. scan_12_high(d, p) \in U12
  BY <1>4, <1>7, U12Is
<1> QED
  BY <1>8, <1>9, <1>10

LEMMA ScanBytes ==
  ASSUME NEW d \in Seq(Byte), NEW p, NEW n \in Nat
  PROVE  scan(d, p, n) \in Wide(n) /\ scan(d, p, n) \in Seq(Byte) /\ Len(scan(d, p, n)) = n
<1>1. scan(d, p, n) \in [ 1 .. n -> Byte ]
  BY Scan8Type DEF scan
<1> QED
  BY <1>1, SequenceOf DEF Wide

LEMMA ScanWide ==
  ASSUME NEW d \in Seq(Byte), NEW p
  PROVE  /\ scan_32(d, p) \in U32 /\ scan_33(d, p) \in U33
         /\ \A b : scan_48(d, p, b) \in U48
<1>1. 2 \in Nat /\ 4 \in Nat /\ 5 \in Nat
  OBVIOUS
<1>2. scan_32(d, p) \in U32
  BY <1>1, ScanBytes DEF scan_32, U32
<1>3. scan_33(d, p) \in U33
  <2> DEFINE v == scan(d, p, 5)
             w == v[1] % 2
  <2>1. v \in [ 1 .. 5 -> Byte ]
    BY <1>1, ScanBytes DEF Wide
  <2>2. scan_33(d, p) = [ v EXCEPT ![1] = w ]
    BY DEF scan_33
  <2> HIDE DEF v
  <2>3. w \in {0, 1} /\ w \in Byte
    <3>1. v[1] \in Nat
      BY <2>1, ByteIs
    <3>2. w \in {0, 1}
      BY <3>1
    <3> QED
      BY <3>2, ByteIs
  <2> HIDE DEF w
  <2>4. [ v EXCEPT ![1] = w ] \in [ 1 .. 5 -> Byte ] /\ [ v EXCEPT ![1] = w ][1] = w
    BY <2>1, <2>3
  <2> QED
    BY <2>2, <2>3, <2>4 DEF U33, Wide
<1>4. ASSUME NEW b PROVE scan_48(d, p, b) \in U48
  <2> DEFINE s == scan(d, p, 2)
             t == scan(d, IF b THEN p + 2 ELSE p, 4)
             u == s \o t
  <2>1. s \in Seq(Byte) /\ t \in Seq(Byte) /\ Len(s) = 2 /\ Len(t) = 4
    BY <1>1, ScanBytes
  <2> HIDE DEF s, t
  <2>2. u \in Seq(Byte) /\ Len(u) = Len(s) + Len(t)
    BY <2>1, ConcatType
  <2> HIDE DEF u
  <2>3. u \in [ 1 .. Len(u) -> Byte ]
    BY <2>2
  <2>4. Len(u) = 6
    BY <2>1, <2>2
  <2>5. u \in Wide(6)
    BY <2>3, <2>4, Zenon DEF Wide
  <2> QED
    BY <2>5 DEF s, t, u, scan_48, U48
<1> QED
  BY <1>2, <1>3, <1>4

-----------------------------------------------------------------------------
(* NAL units that are read *)

\* The bounds of a unit lie after its length and within the data.
LEMMA NextNalu ==
  ASSUME NEW d \in Seq(Byte), NEW p \in Nat \ {0},
         next_avcc_bounds(d, p) # Malformed
  PROVE  LET b == next_avcc_bounds(d, p)
         IN /\ b.first = p + 4 /\ b.last \in Nat /\ b.last >= p + 4 /\ b.last <= Len(d)
            /\ SubSeq(d, b.first, b.last) \in Seq(Byte)
            /\ Len(SubSeq(d, b.first, b.last)) = b.last - p - 3
<1> DEFINE length == scan_8(d, p + 1) * 65536 + scan_16(d, p + 2)
           b == next_avcc_bounds(d, p)
<1>1. scan_8(d, p + 1) \in Nat /\ scan_16(d, p + 2) \in Nat
  BY Scan8Type, ScanType, U16Is
<1>2. length \in Nat
  BY <1>1
<1>3. /\ length > 0 /\ p + 3 + length <= Len(d)
      /\ b = [ first |-> p + 4, last |-> p + 3 + length ]
  BY DEF next_avcc_bounds
<1> HIDE DEF length, b
<1>4. b.first = p + 4 /\ b.last = p + 3 + length
  BY <1>3
<1>5. b.first \in Nat \ {0} /\ b.last \in Nat /\ b.last >= p + 4 /\ b.last <= Len(d)
  BY <1>2, <1>3, <1>4
<1>6. /\ SubSeq(d, b.first, b.last) \in Seq(Byte)
      /\ Len(SubSeq(d, b.first, b.last)) =
           IF b.first <= b.last THEN b.last - b.first + 1 ELSE 0
  BY <1>5, SubSeqType
<1>7. b.first <= b.last /\ b.last - b.first + 1 = b.last - p - 3
  BY <1>2, <1>3, <1>4
<1> QED
  BY <1>4, <1>5, <1>6, <1>7 DEF b

\* There is a last byte that is not zero, or there is nothing else.
LEMMA LastByteIs ==
  ASSUME NEW s \in Seq(Byte)
  PROVE  /\ LastByte(s) \in 0 .. Len(s)
         /\ LastByte(s) > 0 => s[LastByte(s)] # 0
         /\ \A j \in LastByte(s) + 1 .. Len(s) : s[j] = 0
<1> DEFINE N == Len(s)
           T == { i \in 0 .. N : \A j \in i + 1 .. N : s[j] = 0 }
           Is(i) == (i > 0 => s[i] # 0) /\ \A j \in i + 1 .. N : s[j] = 0
<1>1. N \in Nat
  OBVIOUS
<1> HIDE DEF N
<1>2. N \in T
  BY <1>1
<1>3. PICK i \in T : \A k \in T : i <= k
  <2>1. T \subseteq Nat
    BY <1>1
  <2> QED
    BY <1>2, <2>1, NatMin
<1>4. ASSUME i > 0, s[i] = 0 PROVE FALSE
  <2>1. i - 1 \in 0 .. N
    BY <1>1, <1>3, <1>4
  <2>2. \A j \in (i - 1) + 1 .. N : j = i \/ j \in i + 1 .. N
    BY <1>1, <1>3
  <2>3. i - 1 \in T
    BY <1>3, <1>4, <2>1, <2>2
  <2>4. ~ (i <= i - 1)
    BY <1>3
  <2> HIDE DEF T
  <2> QED
    BY <1>3, <2>3, <2>4
<1>5. \E k \in 0 .. N : Is(k)
  BY <1>3, <1>4
<1>6. LastByte(s) = CHOOSE k \in 0 .. N : Is(k)
  BY DEF LastByte, N
<1> HIDE DEF Is
<1>7. LastByte(s) \in 0 .. N /\ Is(LastByte(s))
  BY <1>5, <1>6
<1> QED
  BY <1>7 DEF Is, N

\* Escape bytes are left out, and never the first byte.
LEMMA RbspType ==
  ASSUME NEW s \in Seq(Byte)
  PROVE  /\ copy_ebsp_to_rbsp(s) \in Seq(Byte)
         /\ Len(copy_ebsp_to_rbsp(s)) <= Len(s)
         /\ s # << >> => Len(copy_ebsp_to_rbsp(s)) >= 1
<1> DEFINE T == { i \in 1 .. Len(s) : ~ (AfterZeros(s, i) /\ s[i] = 3) }
           pieces == [ i \in DOMAIN s |-> IF i \in T THEN << s[i] >> ELSE << >> ]
           r == copy_ebsp_to_rbsp(s)
<1>1. r = FlattenSeq(pieces)
  <2>1. pieces = [ i \in DOMAIN s |-> IF AfterZeros(s, i) /\ s[i] = 3 THEN << >> ELSE << s[i] >> ]
    OBVIOUS
  <2> HIDE DEF pieces
  <2> QED
    BY <2>1 DEF copy_ebsp_to_rbsp
<1>2. T \in SUBSET (1 .. Len(s)) /\ pieces = [ n \in DOMAIN s |-> IF n \in T THEN << s[n] >> ELSE << >> ]
  OBVIOUS
<1>3. s # << >> => 1 \in T
  BY DEF AfterZeros
<1> HIDE DEF T, pieces, r
<1>4. r \in Seq(Byte) /\ \E e : IsAt(e, s, T, r)
  BY <1>1, <1>2, FlattenSelects
<1>5. Len(r) <= Len(s) /\ (T # {} => Len(r) >= 1)
  BY <1>2, <1>4, IsAtLength
<1> QED
  BY <1>3, <1>4, <1>5 DEF r

\* What a SEI unit holds is not longer than the unit, and there is at least
\* the byte with its type.
LEMMA SodbType ==
  ASSUME NEW nalu \in Seq(Byte), HasStopBit(nalu)
  PROVE  /\ copy_ebsp_to_sodb(nalu) \in Seq(Byte)
         /\ Len(copy_ebsp_to_sodb(nalu)) <= Len(nalu)
         /\ is_valid(nalu) => Len(copy_ebsp_to_sodb(nalu)) >= 1
<1> DEFINE k == LastByte(nalu) - 1
           s == SubSeq(nalu, 1, k)
<1>1. LastByte(nalu) \in 1 .. Len(nalu) /\ nalu[LastByte(nalu)] = 128
  BY LastByteIs DEF HasStopBit
<1>2. k \in Nat /\ k <= Len(nalu)
  BY <1>1
<1>3. is_valid(nalu) => k >= 1
  BY <1>1 DEF is_valid
<1> HIDE DEF k
<1>4. s \in Seq(Byte) /\ Len(s) = IF 1 <= k THEN k - 1 + 1 ELSE 0
  BY <1>2, SubSeqType
<1>5. Len(s) <= Len(nalu) /\ (is_valid(nalu) => s # << >>)
  BY <1>2, <1>3, <1>4
<1>6. copy_ebsp_to_sodb(nalu) = copy_ebsp_to_rbsp(s)
  BY DEF copy_ebsp_to_sodb, k
<1> HIDE DEF s
<1>7. /\ copy_ebsp_to_rbsp(s) \in Seq(Byte) /\ Len(copy_ebsp_to_rbsp(s)) <= Len(s)
      /\ s # << >> => Len(copy_ebsp_to_rbsp(s)) >= 1
  BY <1>4, RbspType
<1>8. Len(copy_ebsp_to_rbsp(s)) \in Nat
  BY <1>7
<1> QED
  BY <1>4, <1>5, <1>6, <1>7, <1>8

-----------------------------------------------------------------------------
(* SEI messages that are read *)

\* A number takes at least one byte.
LEMMA VariadicType ==
  ASSUME NEW d \in Seq(Byte), NEW p \in Nat
  PROVE  LET n == parse_variadic_length_int(d, p)
         IN n.number \in Nat /\ n.end \in Nat /\ n.end >= p + 1
<1> DEFINE N == Len(d)
           Is(n) == (\A i \in 0 .. n - 1 : scan_8(d, p + i) = 255) /\ scan_8(d, p + n) # 255
           T == { n \in 0 .. N : scan_8(d, p + n) # 255 }
           run == CHOOSE n \in 0 .. N : Is(n)
<1>1. N \in Nat /\ T # {}
  <2>1. N \in Nat /\ p + N + 1 \notin DOMAIN d /\ p + 0 = p
    OBVIOUS
  <2>2. CASE p = 0
    <3>1. p + 0 \notin DOMAIN d
      BY <2>2
    <3>2. scan_8(d, p + 0) # 255
      BY <3>1 DEF scan_8
    <3> QED
      BY <2>1, <3>2
  <2>3. CASE p # 0
    <3>1. p + N \notin DOMAIN d
      BY <2>3
    <3>2. scan_8(d, p + N) # 255
      BY <3>1 DEF scan_8
    <3> QED
      BY <2>1, <3>2
  <2> QED
    BY <2>2, <2>3
<1>2. PICK n \in T : \A m \in T : n <= m
  <2>1. T \subseteq Nat
    BY <1>1
  <2> QED
    BY <1>1, <2>1, NatMin
<1>3. n \in 0 .. N /\ Is(n)
  <2>1. n \in 0 .. N /\ scan_8(d, p + n) # 255
    BY <1>2
  <2>2. ASSUME NEW i \in 0 .. n - 1 PROVE scan_8(d, p + i) = 255
    <3>1. i \in 0 .. N /\ ~ (n <= i)
      BY <1>1, <2>1
    <3>2. i \notin T
      <4> HIDE DEF T
      <4> QED
        BY <1>2, <3>1
    <3> QED
      BY <3>1, <3>2
  <2> QED
    BY <2>1, <2>2
<1> HIDE DEF Is, T
<1>4. run \in 0 .. N
  BY <1>3
<1>5. parse_variadic_length_int(d, p) = [ number |-> 255 * run + scan_8(d, p + run), end |-> p + run + 1 ]
  BY DEF parse_variadic_length_int, Is, N
<1> HIDE DEF run, N
<1>6. run \in Nat /\ scan_8(d, p + run) \in Nat
  BY <1>1, <1>4, Scan8Type
<1>7. 255 * run + scan_8(d, p + run) \in Nat /\ p + run + 1 \in Nat /\ p + run + 1 >= p + 1
  BY <1>6
<1> QED
  BY <1>5, <1>7

\* A message takes at least two bytes, and lies within the data.
LEMMA NextMessage ==
  ASSUME NEW d \in Seq(Byte), NEW p \in Nat, sei_parser_next(d, p) # Malformed
  PROVE  LET b == sei_parser_next(d, p)
         IN /\ b.last \in Nat /\ b.last >= p + 1 /\ b.last <= Len(d)
            /\ [ type |-> b.type, data |-> SubSeq(d, b.first, b.last) ] \in SeiPayload
<1> DEFINE type == parse_variadic_length_int(d, p)
           size == parse_variadic_length_int(d, type.end)
           b == sei_parser_next(d, p)
<1>1. type.number \in Nat /\ type.end \in Nat \ {0} /\ type.end >= p + 1
  <2>1. type.number \in Nat /\ type.end \in Nat /\ type.end >= p + 1
    BY VariadicType
  <2> HIDE DEF type
  <2> QED
    BY <2>1
<1>2. size.number \in Nat /\ size.end \in Nat /\ size.end >= type.end + 1
  BY <1>1, VariadicType
<1>3. /\ size.end + size.number <= Len(d) + 1
      /\ b = [ first |-> size.end, last |-> size.end + size.number - 1, type |-> type.number ]
  BY DEF sei_parser_next
<1> HIDE DEF type, size, b
<1>4. b.first = size.end /\ b.last = size.end + size.number - 1 /\ b.type = type.number
  BY <1>3
<1>5. /\ b.first \in Nat \ {0} /\ b.last \in Nat /\ b.last >= p + 1 /\ b.last <= Len(d)
      /\ b.type \in Nat
  <2> DEFINE e == size.end
             m == size.number
             t == type.end
             N == Len(d)
  <2>1. m \in Nat /\ e \in Nat /\ e >= t + 1 /\ t \in Nat /\ t >= p + 1 /\ e + m <= N + 1 /\ N \in Nat
    BY <1>1, <1>2, <1>3
  <2> HIDE DEF e, m, t, N
  <2>2. e \in Nat \ {0} /\ e + m - 1 \in Nat /\ e + m - 1 >= p + 1 /\ e + m - 1 <= N
    BY <2>1
  <2> QED
    BY <1>1, <1>4, <2>2 DEF e, m, N
<1>6. SubSeq(d, b.first, b.last) \in Seq(Byte)
  BY <1>5, SubSeqType
<1> QED
  BY <1>5, <1>6 DEF b, SeiPayload

\* One round of the loop over the messages of a unit, given what comes of
\* the rest.
NextOf(d, from, q) ==
  IF q > Len(d) THEN << >>
  ELSE LET b == sei_parser_next(d, q)
           rest == from[b.last + 1]
       IN IF b = Malformed \/ rest = None THEN None
          ELSE << [ type |-> b.type, data |-> SubSeq(d, b.first, b.last) ] >> \o rest

\* A loop over the items of N bytes, as the parsers have it: item[q] says
\* whether there is one at position q, what it is, and where the next one is.
Item(item, N, from, q) ==
  IF q > N THEN << >>
  ELSE IF ~ item[q].there \/ from[item[q].next] = None THEN None
  ELSE << item[q].val >> \o from[item[q].next]
IsListing(from, item, N) == from = [ q \in Nat |-> Item(item, N, from, q) ]
Advances(item, N) ==
  \A q \in Nat : ~ (q > N) /\ item[q].there => item[q].next \in Nat /\ item[q].next > q

\* If every item takes a byte, the loop ends: what it returns is defined from
\* the last byte on, and backwards from there.
LEMMA ListingExists ==
  ASSUME NEW N \in Nat, NEW item, Advances(item, N)
  PROVE  \E from : IsListing(from, item, N)
<1> DEFINE Next1(from, q) == Item(item, N, from, q)
           After(from, n) == from = [ q \in Nat |-> IF q + n > N THEN Next1(from, q) ELSE << >> ]
           T == { n \in Nat : ~ \E from : After(from, n) }
<1>1. T = {}
  <2> SUFFICES ASSUME T # {} PROVE FALSE
    OBVIOUS
  <2>1. PICK n \in T : \A m \in T : n <= m
    BY NatMin
  <2>2. n # 0
    <3> DEFINE none == [ q \in Nat |-> << >> ]
    <3>1. \A q \in Nat : q > N => Next1(none, q) = << >>
      BY DEF Item
    <3>2. After(none, 0)
      <4>1. \A q \in Nat : (q + 0 > N) = (q > N)
        OBVIOUS
      <4> HIDE DEF Next1
      <4>2. \A q \in Nat : (IF q + 0 > N THEN Next1(none, q) ELSE << >>) = << >>
        BY <3>1, <4>1
      <4> QED
        BY <4>2
    <3> HIDE DEF After
    <3> QED
      BY <3>2
  <2>3. n \in Nat /\ n - 1 \in Nat
    BY <2>1, <2>2
  <2>4. PICK f : After(f, n - 1)
    <3>1. n - 1 \notin T
      <4> HIDE DEF T
      <4> QED
        BY <2>1, <2>3
    <3> QED
      BY <2>3, <3>1
  <2> DEFINE g == [ q \in Nat |-> IF q + n = N + 1 THEN Next1(f, q) ELSE f[q] ]
  <2>5. ASSUME NEW q \in Nat, q + n > N PROVE Next1(g, q) = Next1(f, q)
    <3>1. CASE q > N \/ ~ item[q].there
      BY <3>1 DEF Item
    <3>2. CASE ~ (q > N) /\ item[q].there
      <4> DEFINE e == item[q].next
      <4>1. e \in Nat /\ e > q
        BY <3>2 DEF Advances
      <4> HIDE DEF e
      <4>2. e + n # N + 1
        BY <2>3, <2>5, <4>1
      <4>3. g[e] = f[e]
        <5> HIDE DEF Next1
        <5> QED
          BY <4>1, <4>2
      <4> HIDE DEF g
      <4> QED
        BY <4>3 DEF e, Item
    <3> QED
      BY <3>1, <3>2
  <2> HIDE DEF Next1
  <2>6. \A q \in Nat : f[q] = IF q + (n - 1) > N THEN Next1(f, q) ELSE << >>
    BY <2>4
  <2>7. \A q \in Nat : g[q] = IF q + n = N + 1 THEN Next1(f, q) ELSE f[q]
    OBVIOUS
  <2>8. g = [ q \in Nat |-> g[q] ]
    OBVIOUS
  <2> HIDE DEF g
  <2>9. ASSUME NEW q \in Nat PROVE g[q] = IF q + n > N THEN Next1(g, q) ELSE << >>
    <3>1. CASE q + n = N + 1
      <4>1. q + n > N
        BY <2>3, <3>1
      <4> QED
        BY <2>5, <2>7, <3>1, <4>1
    <3>2. CASE q + n > N /\ q + n # N + 1
      <4>1. q + (n - 1) > N
        BY <2>3, <3>2
      <4> QED
        BY <2>5, <2>6, <2>7, <3>2, <4>1
    <3>3. CASE ~ (q + n > N)
      <4>1. ~ (q + (n - 1) > N) /\ q + n # N + 1
        BY <2>3, <3>3
      <4> QED
        BY <2>6, <2>7, <3>3, <4>1
    <3> QED
      BY <3>1, <3>2, <3>3
  <2>10. After(g, n)
    BY <2>8, <2>9
  <2> HIDE DEF After
  <2> QED
    BY <2>1, <2>10
<1>2. N + 1 \in Nat /\ N + 1 \notin T
  <2> HIDE DEF T
  <2> QED
    BY <1>1
<1>3. PICK from : After(from, N + 1)
  BY <1>2
<1>4. \A q \in Nat : q + (N + 1) > N
  OBVIOUS
<1> HIDE DEF Next1
<1>5. from = [ q \in Nat |-> Next1(from, q) ]
  BY <1>3, <1>4
<1> QED
  BY <1>5 DEF Next1, IsListing


LEMMA MessagesExist ==
  ASSUME NEW d \in Seq(Byte)
  PROVE  \E from : from = [ q \in Nat |-> NextOf(d, from, q) ]
<1> DEFINE N == Len(d)
           b(q) == sei_parser_next(d, q)
           val(q) == [ type |-> b(q).type, data |-> SubSeq(d, b(q).first, b(q).last) ]
           item == [ q \in Nat |-> [ there |-> b(q) # Malformed, val |-> val(q), next |-> b(q).last + 1 ] ]
<1>1. N \in Nat
  OBVIOUS
<1>2. \A q \in Nat : /\ item[q].there <=> b(q) # Malformed
                     /\ item[q].val = val(q) /\ item[q].next = b(q).last + 1
  OBVIOUS
<1> HIDE DEF item, val
<1>3. Advances(item, N)
  <2> SUFFICES ASSUME NEW q \in Nat, item[q].there PROVE item[q].next \in Nat /\ item[q].next > q
    BY DEF Advances
  <2>1. b(q).last \in Nat /\ b(q).last >= q + 1
    BY <1>2, NextMessage
  <2> HIDE DEF b
  <2> QED
    BY <1>2, <2>1
<1>4. PICK from : IsListing(from, item, N)
  BY <1>1, <1>3, ListingExists
<1>5. ASSUME NEW q \in Nat PROVE Item(item, N, from, q) = NextOf(d, from, q)
  <2>1. NextOf(d, from, q) =
          IF q > N THEN << >>
          ELSE IF b(q) = Malformed \/ from[b(q).last + 1] = None THEN None
          ELSE << val(q) >> \o from[b(q).last + 1]
    BY DEF NextOf, val
  <2> HIDE DEF b, N
  <2> QED
    BY <1>2, <2>1 DEF Item
<1>6. from = [ q \in Nat |-> NextOf(d, from, q) ]
  BY <1>4, <1>5 DEF IsListing
<1> QED
  BY <1>6

\* It returns SEI messages, or fails.
LEMMA MessagesType ==
  ASSUME NEW d \in Seq(Byte), NEW p \in Nat, MessagesFrom(d, p) # None
  PROVE  MessagesFrom(d, p) \in Seq(SeiPayload)
<1> DEFINE N == Len(d)
           from == CHOOSE f : f = [ q \in Nat |-> NextOf(d, f, q) ]
           Good(q) == from[q] = None \/ from[q] \in Seq(SeiPayload)
           Bad == { q \in Nat : ~ Good(q) }
<1>1. MessagesFrom(d, p) = from[p]
  BY DEF MessagesFrom, NextOf
<1>2. from = [ q \in Nat |-> NextOf(d, from, q) ]
  BY MessagesExist
<1> HIDE DEF from
<1>3. \A q \in Nat : from[q] = NextOf(d, from, q)
  BY <1>2
<1>4. N \in Nat /\ \A q \in Nat : q > N => from[q] = << >>
  <2>1. \A q \in Nat : q > N => NextOf(d, from, q) = << >>
    BY DEF NextOf
  <2> QED
    BY <1>3, <2>1
<1>5. << >> \in Seq(SeiPayload)
  OBVIOUS
<1>6. Bad \subseteq 0 .. N
  <2> SUFFICES ASSUME NEW q \in Nat, ~ Good(q) PROVE q \in 0 .. N
    OBVIOUS
  <2>1. ~ (q > N)
    BY <1>4, <1>5
  <2> QED
    BY <1>4, <2>1
<1>7. Bad = {}
  <2> SUFFICES ASSUME Bad # {} PROVE FALSE
    OBVIOUS
  <2>1. PICK q \in Bad : \A m \in Bad : m <= q
    BY <1>4, <1>6, NatMax
  <2> DEFINE b == sei_parser_next(d, q)
             rest == from[b.last + 1]
             sei == [ type |-> b.type, data |-> SubSeq(d, b.first, b.last) ]
  <2>2. q \in Nat /\ ~ Good(q)
    BY <2>1
  <2>3. ~ (q > N) /\ b # Malformed /\ rest # None /\ from[q] = << sei >> \o rest
    BY <1>3, <1>4, <1>5, <2>2 DEF NextOf
  <2>4. b.last \in Nat /\ b.last >= q + 1 /\ sei \in SeiPayload
    BY <2>2, <2>3, NextMessage
  <2> HIDE DEF Bad, b, sei
  <2>5. b.last + 1 \in Nat /\ ~ (b.last + 1 <= q)
    BY <2>2, <2>4
  <2>6. b.last + 1 \notin Bad
    BY <2>1, <2>5
  <2>7. rest \in Seq(SeiPayload)
    BY <2>3, <2>5, <2>6 DEF Bad
  <2>8. << sei >> \in Seq(SeiPayload)
    BY <2>4, OnlyOne
  <2> HIDE DEF rest
  <2>9. << sei >> \o rest \in Seq(SeiPayload)
    BY <2>7, <2>8, ConcatType
  <2> QED
    BY <2>2, <2>3, <2>9
<1> QED
  BY <1>1, <1>7

-----------------------------------------------------------------------------
(* NAL units that are written *)

LEMMA EachType ==
  ASSUME NEW S, NEW N \in Nat, NEW pieces \in [ 1 .. N -> Seq(S) ]
  PROVE  FlattenSeq(pieces) \in Seq(S)
<1> DEFINE T == Seq(S)
<1>1. pieces \in [ 1 .. N -> T ]
  OBVIOUS
<1> HIDE DEF T
<1>2. pieces \in Seq(T)
  BY <1>1, SequenceOf
<1> QED
  BY <1>2, FlattenType DEF T

LEMMA NaluLengthType ==
  ASSUME NEW n \in Nat
  PROVE  emit_nalu_length(n) \in Seq(Byte)
<1> DEFINE a == (n \div 65536) % 256
           m == n % 65536
           b == (m \div 256) % 256
           c == m % 256
<1>1. n \div 65536 \in Nat /\ m \in Nat /\ m \div 256 \in Nat
  <2>1. n \div 65536 \in Nat
    OBVIOUS
  <2>2. m \in Nat
    OBVIOUS
  <2> HIDE DEF m
  <2>3. m \div 256 \in Nat
    BY <2>2
  <2> QED
    BY <2>1, <2>2, <2>3
<1>2. \A k \in Nat : k % 256 \in Byte
  <2>1. \A k \in Nat : k % 256 \in Nat /\ k % 256 <= 255
    OBVIOUS
  <2> QED
    BY <2>1, ByteIs
<1>3. a \in Byte /\ b \in Byte /\ c \in Byte /\ 0 \in Byte
  BY <1>1, <1>2, ByteIs
<1>4. emit_nalu_length(n) = << 0, a >> \o << b, c >>
  BY DEF emit_nalu_length, write_16
<1> HIDE DEF a, b, c, m
<1>5. << 0, a >> \in Seq(Byte) /\ << b, c >> \in Seq(Byte)
  BY <1>3
<1> QED
  BY <1>4, <1>5, ConcatType

LEMMA WrittenNaluType ==
  ASSUME NEW nalu \in Seq(Byte)
  PROVE  emit_avcc_nalu(nalu) \in Seq(Byte)
<1>1. Len(nalu) \in Nat
  OBVIOUS
<1>2. emit_nalu_length(Len(nalu)) \in Seq(Byte)
  BY <1>1, NaluLengthType
<1> QED
  BY <1>2, ConcatType DEF emit_avcc_nalu

LEMMA NalusType ==
  ASSUME NEW us \in Seq(Seq(Byte))
  PROVE  Each(emit_avcc_nalu, us) \in Seq(Byte)
<1> DEFINE pieces == [ i \in DOMAIN us |-> emit_avcc_nalu(us[i]) ]
<1>1. Len(us) \in Nat /\ DOMAIN us = 1 .. Len(us) /\ \A i \in 1 .. Len(us) : us[i] \in Seq(Byte)
  OBVIOUS
<1>2. pieces \in [ 1 .. Len(us) -> Seq(Byte) ]
  BY <1>1, WrittenNaluType
<1>3. FlattenSeq(pieces) \in Seq(Byte)
  BY <1>1, <1>2, EachType
<1> QED
  BY <1>3 DEF Each

\* A number that is written: some 255s, and a byte.
WrittenFrom(f, n) == IF n >= 255 THEN << 255 >> \o f[n \div 255] ELSE << n >>

LEMMA SmallerQuotient ==
  ASSUME NEW n \in Nat, n >= 255
  PROVE  n \div 255 \in Nat /\ n \div 255 < n
OBVIOUS

LEMMA LengthIntExists ==
  ASSUME NEW num \in Nat
  PROVE  \E f : f = [ n \in 0 .. num |-> WrittenFrom(f, n) ]
<1> DEFINE Upto(f, m) == f = [ n \in 0 .. m |-> WrittenFrom(f, n) ]
           T == { m \in Nat : ~ \E f : Upto(f, m) }
<1>1. T = {}
  <2> SUFFICES ASSUME T # {} PROVE FALSE
    OBVIOUS
  <2>1. PICK m \in T : \A k \in T : m <= k
    BY NatMin
  <2>2. \E f : \A n \in 0 .. m - 1 : f[n] = WrittenFrom(f, n)
    <3>1. CASE m = 0
      BY <3>1
    <3>2. CASE m # 0
      <4>1. m - 1 \in Nat /\ ~ (m <= m - 1)
        BY <2>1, <3>2
      <4>2. m - 1 \notin T
        <5> HIDE DEF T
        <5> QED
          BY <2>1, <4>1
      <4>3. PICK f : Upto(f, m - 1)
        BY <4>1, <4>2
      <4> QED
        BY <4>3
    <3> QED
      BY <3>1, <3>2
  <2>3. PICK f : \A n \in 0 .. m - 1 : f[n] = WrittenFrom(f, n)
    BY <2>2
  <2> DEFINE g == [ n \in 0 .. m |-> IF n = m THEN WrittenFrom(f, n) ELSE f[n] ]
  <2>4. m \in Nat /\ \A n \in 0 .. m : g[n] = IF n = m THEN WrittenFrom(f, n) ELSE f[n]
    BY <2>1
  <2>5. g = [ n \in 0 .. m |-> g[n] ]
    OBVIOUS
  <2> HIDE DEF g
  <2>6. ASSUME NEW n \in 0 .. m PROVE g[n] = WrittenFrom(g, n)
    <3>1. WrittenFrom(g, n) = WrittenFrom(f, n)
      <4>1. CASE n >= 255
        <5>1. n \div 255 \in Nat /\ n \div 255 < n
          BY <2>4, <4>1, SmallerQuotient
        <5> DEFINE k == n \div 255
        <5> HIDE DEF k
        <5>2. k \in 0 .. m /\ k # m
          BY <2>4, <5>1 DEF k
        <5>3. g[k] = f[k]
          BY <2>4, <5>2
        <5> QED
          BY <5>3 DEF k, WrittenFrom
      <4>2. CASE ~ (n >= 255)
        BY <4>2 DEF WrittenFrom
      <4> QED
        BY <4>1, <4>2
    <3>2. n # m => f[n] = WrittenFrom(f, n)
      BY <2>3, <2>4
    <3> QED
      BY <2>4, <3>1, <3>2
  <2>7. Upto(g, m)
    BY <2>5, <2>6
  <2> HIDE DEF Upto
  <2> QED
    BY <2>1, <2>7
<1>2. num \notin T
  BY <1>1
<1> QED
  BY <1>2

LEMMA LengthIntType ==
  ASSUME NEW num \in Nat
  PROVE  emit_variadic_length_int(num) \in Seq(Byte)
<1> DEFINE emit == CHOOSE f : f = [ n \in 0 .. num |-> WrittenFrom(f, n) ]
           Bad == { n \in 0 .. num : emit[n] \notin Seq(Byte) }
<1>1. emit_variadic_length_int(num) = emit[num]
  BY DEF emit_variadic_length_int, WrittenFrom
<1>2. emit = [ n \in 0 .. num |-> WrittenFrom(emit, n) ]
  BY LengthIntExists
<1> HIDE DEF emit
<1>3. \A n \in 0 .. num : emit[n] = WrittenFrom(emit, n)
  BY <1>2
<1>4. Bad = {}
  <2> SUFFICES ASSUME Bad # {} PROVE FALSE
    OBVIOUS
  <2>1. PICK n \in Bad : \A m \in Bad : n <= m
    <3>1. Bad \subseteq Nat
      OBVIOUS
    <3> HIDE DEF Bad
    <3> QED
      BY <3>1, NatMin
  <2>2. n \in 0 .. num /\ n \in Nat /\ emit[n] \notin Seq(Byte)
    BY <2>1
  <2>3. n >= 255
    <3> SUFFICES ASSUME ~ (n >= 255) PROVE FALSE
      OBVIOUS
    <3>1. n \in Byte
      BY <2>2, ByteIs
    <3>2. << n >> \in Seq(Byte)
      BY <3>1, OnlyOne
    <3>3. emit[n] = << n >>
      BY <1>3, <2>2 DEF WrittenFrom
    <3> QED
      BY <2>2, <3>2, <3>3
  <2> DEFINE k == n \div 255
  <2>4. k \in Nat /\ k < n
    BY <2>2, <2>3, SmallerQuotient
  <2>5. emit[n] = << 255 >> \o emit[k]
    BY <1>3, <2>2, <2>3 DEF WrittenFrom
  <2> HIDE DEF Bad, k
  <2>6. k \in 0 .. num /\ k \notin Bad
    BY <2>1, <2>2, <2>4
  <2>7. emit[k] \in Seq(Byte)
    BY <2>6 DEF Bad
  <2>8. << 255 >> \in Seq(Byte)
    <3>1. 255 \in Byte
      BY ByteIs
    <3> QED
      BY <3>1, OnlyOne
  <2> QED
    BY <2>2, <2>5, <2>7, <2>8, ConcatType
<1> QED
  BY <1>1, <1>4

LEMMA EbspType ==
  ASSUME NEW s \in Seq(Byte)
  PROVE  copy_sodb_to_ebsp(s) \in Seq(Byte)
<1> DEFINE pieces == [ i \in DOMAIN s |-> IF AfterZeros(s, i) /\ s[i] <= 3 THEN << 3, s[i] >> ELSE << s[i] >> ]
<1>1. Len(s) \in Nat /\ DOMAIN s = 1 .. Len(s) /\ \A i \in 1 .. Len(s) : s[i] \in Byte
  OBVIOUS
<1>2. 3 \in Byte /\ 128 \in Byte
  BY ByteIs
<1>3. pieces \in [ 1 .. Len(s) -> Seq(Byte) ]
  <2>1. \A i \in 1 .. Len(s) : << 3, s[i] >> \in Seq(Byte) /\ << s[i] >> \in Seq(Byte)
    BY <1>1, <1>2
  <2> QED
    BY <1>1, <2>1
<1>4. copy_rbsp_to_ebsp(s) \in Seq(Byte)
  <2>1. FlattenSeq(pieces) \in Seq(Byte)
    BY <1>1, <1>3, EachType
  <2> QED
    BY <2>1 DEF copy_rbsp_to_ebsp
<1>5. Append(copy_rbsp_to_ebsp(s), 128) \in Seq(Byte)
  BY <1>2, <1>4
<1>6. << >> \in Seq(Byte)
  OBVIOUS
<1> QED
  BY <1>5, <1>6 DEF copy_sodb_to_ebsp

LEMMA HintType ==
  ASSUME NEW sei \in SeiPayload
  PROVE  sei_payload_size_hint(sei) \in Nat /\ emit_sei_payload(sei) \in Seq(Byte)
<1> DEFINE n == Len(sei.data)
           T == { i \in DOMAIN sei.data : AfterZeros(sei.data, i) /\ sei.data[i] = 3 }
<1>1. sei.type \in Nat /\ sei.data \in Seq(Byte) /\ n \in Nat /\ DOMAIN sei.data = 1 .. n
  BY DEF SeiPayload
<1>2. count_emulation_prevention_bytes(sei.data) \in Nat
  <2>1. T \in SUBSET (1 .. n)
    BY <1>1
  <2>2. IsFiniteSet(1 .. n)
    BY <1>1, FS_Interval
  <2> HIDE DEF T, n
  <2>3. IsFiniteSet(T)
    BY <2>1, <2>2, FS_Subset
  <2>4. Cardinality(T) \in Nat
    BY <2>3, FS_CardinalityType
  <2> QED
    BY <2>4 DEF T, count_emulation_prevention_bytes
<1>3. \A k \in Nat : variadic_length_int_size(k) \in Nat
  BY DEF variadic_length_int_size
<1>4. sei_payload_size_hint(sei) \in Nat
  <2> DEFINE a == count_emulation_prevention_bytes(sei.data)
             b == variadic_length_int_size(Len(sei.data))
             c == variadic_length_int_size(sei.type)
  <2>1. a \in Nat /\ b \in Nat /\ c \in Nat
    BY <1>1, <1>2, <1>3
  <2>2. sei_payload_size_hint(sei) = n + a + 1 + b + c
    BY DEF sei_payload_size_hint
  <2> HIDE DEF a, b, c, n
  <2> QED
    BY <1>1, <2>1, <2>2
<1>5. emit_sei_payload(sei) \in Seq(Byte)
  <2> DEFINE a == emit_variadic_length_int(sei.type)
             b == emit_variadic_length_int(Len(sei.data))
             c == copy_sodb_to_ebsp(sei.data)
  <2>1. a \in Seq(Byte) /\ b \in Seq(Byte) /\ c \in Seq(Byte)
    BY <1>1, LengthIntType, EbspType
  <2>2. emit_sei_payload(sei) = (a \o b) \o c
    BY DEF emit_sei_payload
  <2> HIDE DEF a, b, c
  <2> QED
    BY <2>1, <2>2, ConcatType
<1> QED
  BY <1>4, <1>5

LEMMA SeiNaluType ==
  ASSUME NEW seis \in Seq(SeiPayload)
  PROVE  emit_sei_payloads_to_avcc_nalu(seis) \in Seq(Byte)
<1> DEFINE sizes == [ i \in DOMAIN seis |-> sei_payload_size_hint(seis[i]) ]
           pieces == [ i \in DOMAIN seis |-> emit_sei_payload(seis[i]) ]
           N == Len(seis)
<1>1. N \in Nat /\ DOMAIN seis = 1 .. N /\ \A i \in 1 .. N : seis[i] \in SeiPayload
  OBVIOUS
<1>2. sizes \in [ 1 .. N -> Nat ] /\ pieces \in [ 1 .. N -> Seq(Byte) ]
  BY <1>1, HintType
<1>3. emit_sei_payloads_to_avcc_nalu(seis) =
        emit_nalu_length(1 + SumOf(sizes)) \o << SEI >> \o FlattenSeq(pieces)
  BY DEF emit_sei_payloads_to_avcc_nalu
<1> HIDE DEF sizes, pieces, N
<1>4. SumOf(sizes) \in Nat
  <2>1. sizes \in Seq(Nat)
    BY <1>1, <1>2, SequenceOf
  <2> QED
    BY <2>1, SumType DEF SumOf
<1>5. FlattenSeq(pieces) \in Seq(Byte)
  BY <1>1, <1>2, EachType
<1>6. emit_nalu_length(1 + SumOf(sizes)) \in Seq(Byte)
  <2>1. 1 + SumOf(sizes) \in Nat
    BY <1>4
  <2> QED
    BY <2>1, NaluLengthType
<1>7. << SEI >> \in Seq(Byte)
  <2>1. SEI \in Byte
    BY ByteIs DEF SEI
  <2> QED
    BY <2>1, OnlyOne
<1> QED
  BY <1>3, <1>5, <1>6, <1>7, ConcatType

-----------------------------------------------------------------------------
(* the packet that the injector writes *)

\* There is a first unit that does not belong before the SEI, or no such unit.
LEMMA LeadIs ==
  ASSUME NEW us \in Seq(Seq(Byte))
  PROVE  /\ Lead(us) \in 0 .. Len(us)
         /\ \A i \in 1 .. Lead(us) : NaluType(us[i]) \in {AUD, SPS, PPS}
         /\ Lead(us) < Len(us) => NaluType(us[Lead(us) + 1]) \notin {AUD, SPS, PPS}
<1> DEFINE N == Len(us)
           Leading(i) == NaluType(us[i]) \in {AUD, SPS, PPS}
           Is(k) == (\A i \in 1 .. k : Leading(i)) /\ (k < N => ~ Leading(k + 1))
           T == { k \in 0 .. N : k < N => ~ Leading(k + 1) }
<1>1. N \in Nat
  OBVIOUS
<1>2. Lead(us) = CHOOSE k \in 0 .. N : Is(k)
  BY DEF Lead
<1> HIDE DEF N, Leading
<1>3. N \in T
  BY <1>1
<1>4. PICK k \in T : \A j \in T : k <= j
  <2>1. T \subseteq Nat
    BY <1>1
  <2> HIDE DEF T
  <2> QED
    BY <1>3, <2>1, NatMin
<1>5. k \in 0 .. N /\ (k < N => ~ Leading(k + 1))
  BY <1>4
<1>6. ASSUME NEW i \in 1 .. k PROVE Leading(i)
  <2>1. i - 1 \in 0 .. N /\ ~ (k <= i - 1) /\ i - 1 < N /\ (i - 1) + 1 = i
    BY <1>1, <1>5
  <2>2. i - 1 \notin T
    <3> HIDE DEF T
    <3> QED
      BY <1>4, <2>1
  <2> QED
    BY <2>1, <2>2
<1>7. \E j \in 0 .. N : Is(j)
  BY <1>5, <1>6
<1> HIDE DEF Is
<1>8. Lead(us) \in 0 .. N /\ Is(Lead(us))
  BY <1>2, <1>7
<1> QED
  BY <1>8 DEF Is, N, Leading

LEMMA RewrittenType ==
  ASSUME NEW us \in Seq(Seq(Byte)), NEW seis \in Seq(SeiPayload)
  PROVE  Rewritten(us, seis) \in Seq(Byte)
<1> DEFINE before == SubSeq(us, 1, Lead(us))
           m == Lead(us) + Old(us) + 1
           a == Each(emit_avcc_nalu, before)
           b == emit_sei_payloads_to_avcc_nalu(seis)
           c == Each(emit_avcc_nalu, Rest(us))
           S == Seq(Byte)
<1>1. Lead(us) \in Nat /\ Lead(us) <= Len(us) /\ Len(us) \in Nat /\ us \in Seq(S)
  BY LeadIs
<1>2. m \in Nat \ {0}
  BY <1>1 DEF Old
<1> HIDE DEF S, m
<1>3. before \in Seq(S)
  BY <1>1, SubSeqType
<1>4. SubSeq(us, m, Len(us)) \in Seq(S)
  BY <1>1, <1>2, SubSeqType
<1>5. Rest(us) \in Seq(S)
  BY <1>4 DEF Rest, m
<1>6. a \in Seq(Byte) /\ b \in Seq(Byte) /\ c \in Seq(Byte)
  <2>1. before \in Seq(Seq(Byte)) /\ Rest(us) \in Seq(Seq(Byte))
    BY <1>3, <1>5 DEF S
  <2> HIDE DEF before
  <2> QED
    BY <2>1, NalusType, SeiNaluType
<1>7. Rewritten(us, seis) = (a \o b) \o c
  BY DEF Rewritten
<1> HIDE DEF a, b, c
<1> QED
  BY <1>6, <1>7, ConcatType

\* What is injected is SEI messages: those of the packet that are not
\* captions, and those of the queue.
LEMMA StrippedType ==
  ASSUME NEW nalu \in Seq(Byte), HasStopBit(nalu), Messages(nalu) # None
  PROVE  strip_cc(nalu) \in Seq(SeiPayload)
<1> DEFINE d == copy_ebsp_to_sodb(nalu)
           all == Messages(nalu)
           T == { i \in 1 .. Len(all) : NotCC(all[i]) }
           pieces == [ i \in DOMAIN all |-> IF i \in T THEN << all[i] >> ELSE << >> ]
<1>1. d \in Seq(Byte) /\ 2 \in Nat
  BY SodbType
<1>2. all \in Seq(SeiPayload)
  BY <1>1, MessagesType DEF Messages
<1> HIDE DEF d, all
<1>3. pieces = [ i \in DOMAIN all |-> IF NotCC(all[i]) THEN << all[i] >> ELSE << >> ]
  BY <1>2
<1>4. T \in SUBSET (1 .. Len(all)) /\ pieces = [ n \in DOMAIN all |-> IF n \in T THEN << all[n] >> ELSE << >> ]
  OBVIOUS
<1> HIDE DEF T, pieces
<1>5. FlattenSeq(pieces) \in Seq(SeiPayload)
  BY <1>2, <1>4, FlattenSelects
<1>6. strip_cc(nalu) = FlattenSeq(pieces)
  BY <1>3 DEF strip_cc, Only, all
<1> QED
  BY <1>5, <1>6

LEMMA OldIsThere ==
  ASSUME NEW us \in Seq(Seq(Byte)), Old(us) = 1
  PROVE  First(us) \in Seq(Byte)
<1>1. Lead(us) \in Nat /\ Lead(us) < Len(us) /\ Len(us) \in Nat
  BY LeadIs DEF Old
<1> DEFINE S == Seq(Byte)
           k == Lead(us) + 1
<1>2. k \in 1 .. Len(us)
  BY <1>1
<1>3. us \in Seq(S)
  OBVIOUS
<1> HIDE DEF S, k
<1>4. us[k] \in S
  BY <1>2, <1>3
<1> QED
  BY <1>4 DEF First, S, k

-----------------------------------------------------------------------------
(* splice information that is read *)

\* What the parser of an item returns: a value and the position after it, or
\* a position past the end of the data.
Parsed(item, p, T, d) ==
  /\ item.end \in Nat
  /\ item.end > Len(d) + 1 \/ (item.val \in T /\ item.end >= p)

LEMMA AtParsed ==
  ASSUME NEW T, NEW d, NEW p \in Nat, NEW q \in Nat, q >= p, NEW x \in T
  PROVE  Parsed(At(x, q), p, T, d)
BY DEF Parsed, At

LEMMA FailedParsed ==
  ASSUME NEW T, NEW d \in Seq(Byte), NEW p
  PROVE  Parsed(Failed(d), p, T, d)
<1>1. Len(d) \in Nat
  OBVIOUS
<1> QED
  BY <1>1 DEF Parsed, Failed, At

\* One item after another: if the first one failed, so has the second.
LEMMA ParsedAfter ==
  ASSUME NEW T, NEW U, NEW d \in Seq(Byte), NEW p \in Nat,
         NEW a, Parsed(a, p, T, d), NEW b, Parsed(b, a.end, U, d)
  PROVE  Parsed(b, p, U, d) /\ (b.end <= Len(d) + 1 => a.val \in T /\ b.val \in U)
<1>1. Len(d) \in Nat
  OBVIOUS
<1> QED
  BY <1>1 DEF Parsed

\* One round of the loop over a counted list.
CountedNext(items, from, n, q) ==
  IF n = 0 THEN At(<< >>, q)
  ELSE LET rest == from[n - 1][items[q].end]
       IN At(<< items[q].val >> \o rest.val, rest.end)

LEMMA CountedExists ==
  ASSUME NEW items, \A q \in Nat : items[q].end \in Nat
  PROVE  \E from : from = [ n \in Byte |-> [ q \in Nat |-> CountedNext(items, from, n, q) ] ]
<1> DEFINE Upto(f, m) == f = [ n \in Byte |-> [ q \in Nat |-> IF n <= m THEN CountedNext(items, f, n, q) ELSE 0 ] ]
           T == { m \in Nat : ~ \E f : Upto(f, m) }
<1>1. T = {}
  <2> SUFFICES ASSUME T # {} PROVE FALSE
    OBVIOUS
  <2>1. PICK m \in T : \A k \in T : m <= k
    BY NatMin
  <2>2. \E f : \A n \in Byte, q \in Nat : n < m => f[n][q] = CountedNext(items, f, n, q)
    <3>1. CASE m = 0
      BY <3>1, ByteIs
    <3>2. CASE m # 0
      <4>1. m - 1 \in Nat /\ ~ (m <= m - 1)
        BY <2>1, <3>2
      <4>2. m - 1 \notin T
        <5> HIDE DEF T
        <5> QED
          BY <2>1, <4>1
      <4>3. PICK f : Upto(f, m - 1)
        BY <4>1, <4>2
      <4>4. \A n \in Byte : n < m => n <= m - 1
        BY <2>1, ByteIs
      <4>5. \A n \in Byte, q \in Nat :
              f[n][q] = IF n <= m - 1 THEN CountedNext(items, f, n, q) ELSE 0
        BY <4>3
      <4> QED
        BY <4>4, <4>5
    <3> QED
      BY <3>1, <3>2
  <2>3. PICK f : \A n \in Byte, q \in Nat : n < m => f[n][q] = CountedNext(items, f, n, q)
    BY <2>2
  <2> DEFINE g == [ n \in Byte |-> [ q \in Nat |->
                      IF n = m THEN CountedNext(items, f, n, q)
                      ELSE IF n < m THEN f[n][q] ELSE 0 ] ]
  <2>4. \A n \in Byte, q \in Nat :
          g[n][q] = IF n = m THEN CountedNext(items, f, n, q)
                    ELSE IF n < m THEN f[n][q] ELSE 0
    OBVIOUS
  <2>5. g = [ n \in Byte |-> [ q \in Nat |-> g[n][q] ] ]
    OBVIOUS
  <2> HIDE DEF g
  <2>6. ASSUME NEW n \in Byte, NEW q \in Nat
        PROVE  g[n][q] = IF n <= m THEN CountedNext(items, g, n, q) ELSE 0
    <3>1. n \in Nat /\ m \in Nat
      BY <2>1, ByteIs
    <3>2. n <= m => CountedNext(items, g, n, q) = CountedNext(items, f, n, q)
      <4>1. CASE n = 0
        BY <4>1 DEF CountedNext
      <4>2. CASE n # 0 /\ n <= m
        <5> DEFINE e == items[q].end
                   k == n - 1
        <5>1. e \in Nat
          OBVIOUS
        <5>2. k \in Byte /\ k < m /\ k # m
          BY <3>1, <4>2, ByteIs
        <5> HIDE DEF e, k
        <5>3. g[k][e] = f[k][e]
          BY <2>4, <5>1, <5>2
        <5> QED
          BY <4>2, <5>3 DEF e, k, CountedNext
      <4> QED
        BY <4>1, <4>2
    <3>3. (n <= m) = (n = m \/ n < m)
      BY <3>1
    <3> QED
      BY <2>3, <2>4, <3>2, <3>3
  <2>7. Upto(g, m)
    BY <2>5, <2>6
  <2> HIDE DEF Upto
  <2> QED
    BY <2>1, <2>7
<1>2. PICK f : Upto(f, 255)
  <2>1. 255 \in Nat /\ 255 \notin T
    <3> HIDE DEF T
    <3> QED
      BY <1>1
  <2> QED
    BY <2>1
<1>3. \A n \in Byte : n <= 255
  BY ByteIs
<1>4. f = [ n \in Byte |-> [ q \in Nat |-> CountedNext(items, f, n, q) ] ]
  BY <1>2, <1>3
<1> QED
  BY <1>4

\* A counted list is a sequence of what its items are.
LEMMA CountedParsed ==
  ASSUME NEW d \in Seq(Byte), NEW T, NEW items,
         \A q \in Nat : Parsed(items[q], q, T, d), NEW p \in Nat
  PROVE  Parsed(ParseCounted(items, d, p), p, Seq(T), d)
<1> DEFINE from == CHOOSE f : f = [ n \in Byte |-> [ q \in Nat |-> CountedNext(items, f, n, q) ] ]
           Bad == { n \in Byte : \E q \in Nat : ~ Parsed(from[n][q], q, Seq(T), d) }
<1>1. ParseCounted(items, d, p) = from[scan_8(d, p)][p + 1]
  BY DEF ParseCounted, CountedNext
<1>2. from = [ n \in Byte |-> [ q \in Nat |-> CountedNext(items, from, n, q) ] ]
  <2>1. \A q \in Nat : items[q].end \in Nat
    BY DEF Parsed
  <2> QED
    BY <2>1, CountedExists
<1> HIDE DEF from
<1>3. \A n \in Byte, q \in Nat : from[n][q] = CountedNext(items, from, n, q)
  <2> DEFINE S == Byte
             next(n, q) == CountedNext(items, from, n, q)
  <2>1. from = [ n \in S |-> [ q \in Nat |-> next(n, q) ] ]
    BY <1>2
  <2> HIDE DEF S, next
  <2>2. \A n \in S : from[n] = [ q \in Nat |-> next(n, q) ]
    BY <2>1
  <2>3. \A n \in S, q \in Nat : from[n][q] = next(n, q)
    BY <2>2
  <2> QED
    BY <2>3 DEF S, next
<1>4. Bad = {}
  <2> SUFFICES ASSUME Bad # {} PROVE FALSE
    OBVIOUS
  <2>1. PICK n \in Bad : \A m \in Bad : n <= m
    <3>1. Bad \subseteq Nat
      BY ByteIs
    <3> HIDE DEF Bad
    <3> QED
      BY <3>1, NatMin
  <2>2. n \in Byte /\ n \in Nat
    BY <2>1, ByteIs
  <2>3. PICK q \in Nat : ~ Parsed(from[n][q], q, Seq(T), d)
    BY <2>1
  <2> DEFINE item == items[q]
             rest == from[n - 1][item.end]
  <2>4. n # 0
    <3> SUFFICES ASSUME n = 0 PROVE FALSE
      OBVIOUS
    <3>1. from[n][q] = At(<< >>, q)
      BY <1>3, <2>2 DEF CountedNext
    <3>2. << >> \in Seq(T) /\ q >= q
      OBVIOUS
    <3> QED
      BY <2>3, <3>1, <3>2, AtParsed
  <2>5. from[n][q] = At(<< item.val >> \o rest.val, rest.end)
    BY <1>3, <2>2, <2>4 DEF CountedNext
  <2>6. Parsed(item, q, T, d) /\ item.end \in Nat
    BY DEF Parsed
  <2> HIDE DEF Bad, item
  <2>7. n - 1 \in Byte /\ n - 1 \notin Bad
    <3>1. n - 1 \in Byte /\ ~ (n <= n - 1)
      BY <2>2, <2>4, ByteIs
    <3> QED
      BY <2>1, <3>1
  <2>8. Parsed(rest, item.end, Seq(T), d)
    BY <2>6, <2>7 DEF Bad
  <2> HIDE DEF rest
  <2>9. Parsed(rest, q, Seq(T), d) /\ (rest.end <= Len(d) + 1 => item.val \in T /\ rest.val \in Seq(T))
    BY <2>6, <2>8, ParsedAfter
  <2>10. rest.end \in Nat /\ (rest.end <= Len(d) + 1 => rest.end >= q)
    <3>1. Len(d) \in Nat
      OBVIOUS
    <3> QED
      BY <2>9, <3>1 DEF Parsed
  <2>11. CASE rest.end > Len(d) + 1
    BY <2>3, <2>5, <2>10, <2>11 DEF Parsed, At
  <2>12. CASE rest.end <= Len(d) + 1
    <3>1. << item.val >> \o rest.val \in Seq(T)
      <4>1. item.val \in T /\ rest.val \in Seq(T)
        BY <2>9, <2>12
      <4> DEFINE v == item.val
      <4>2. << v >> \in Seq(T)
        BY <4>1, OnlyOne
      <4> HIDE DEF v
      <4>3. << v >> \o rest.val \in Seq(T)
        BY <4>1, <4>2, ConcatType
      <4> QED
        BY <4>3 DEF v
    <3> QED
      BY <2>3, <2>5, <2>10, <2>12, <3>1, AtParsed
  <2>13. Len(d) \in Nat
    OBVIOUS
  <2> QED
    BY <2>10, <2>11, <2>12, <2>13
<1>5. scan_8(d, p) \in Byte /\ p + 1 \in Nat
  BY Scan8Type
<1>6. Parsed(from[scan_8(d, p)][p + 1], p + 1, Seq(T), d)
  BY <1>4, <1>5
<1>7. Len(d) \in Nat
  OBVIOUS
<1> HIDE DEF from
<1> QED
  BY <1>1, <1>6, <1>7 DEF Parsed

LEMMA ParsedFrom ==
  ASSUME NEW T, NEW d, NEW p \in Nat, NEW q \in Nat, q >= p, NEW a, Parsed(a, q, T, d)
  PROVE  Parsed(a, p, T, d)
BY DEF Parsed

\* What is put together from items that have been parsed, and from the k bytes
\* after the last of them.
LEMMA AtAfter ==
  ASSUME NEW T, NEW U, NEW d \in Seq(Byte), NEW p \in Nat, NEW a, Parsed(a, p, U, d),
         NEW k \in Nat, NEW x, a.end <= Len(d) + 1 => x \in T
  PROVE  Parsed(At(x, a.end + k), p, T, d)
<1>1. Len(d) \in Nat /\ a.end \in Nat
  BY DEF Parsed
<1>2. At(x, a.end + k).end = a.end + k /\ At(x, a.end + k).val = x
  BY DEF At
<1>3. a.end + k \in Nat /\ a.end + k >= a.end
  BY <1>1
<1>4. CASE a.end > Len(d) + 1
  BY <1>1, <1>2, <1>3, <1>4 DEF Parsed
<1>5. CASE a.end <= Len(d) + 1
  <2>1. a.end >= p /\ x \in T
    BY <1>1, <1>5 DEF Parsed
  <2>2. a.end + k >= p
    BY <1>1, <2>1
  <2> QED
    BY <1>2, <1>3, <2>1, <2>2 DEF Parsed
<1> QED
  BY <1>1, <1>4, <1>5

LEMMA AtEnd ==
  ASSUME NEW T, NEW U, NEW d \in Seq(Byte), NEW p \in Nat, NEW a, Parsed(a, p, U, d),
         NEW x, a.end <= Len(d) + 1 => x \in T
  PROVE  Parsed(At(x, a.end), p, T, d)
<1>1. Len(d) \in Nat
  OBVIOUS
<1> QED
  BY <1>1 DEF Parsed, At

LEMMA ItemIfParsed ==
  ASSUME NEW T, NEW d, NEW p \in Nat, NEW flag, NEW item,
         flag => Parsed(item, p, T, d)
  PROVE  Parsed(ItemIf(flag, item, p), p, Optional(T), d)
<1>1. CASE flag
  BY <1>1 DEF ItemIf, Parsed, Optional
<1>2. CASE ~ flag
  BY <1>2 DEF ItemIf, Parsed, At, Optional
<1> QED
  BY <1>1, <1>2

LEMMA IfHoldsParsed ==
  ASSUME NEW T, NEW d \in Seq(Byte), NEW p \in Nat, NEW test, NEW item,
         test => Parsed(item, p, T, d)
  PROVE  Parsed(IfHolds(test, d, item), p, T, d)
<1>1. Parsed(Failed(d), p, T, d)
  BY FailedParsed
<1> QED
  BY <1>1 DEF IfHolds

LEMMA FlagType ==
  \A d, p, mask : scan_flag(d, p, mask) \in BOOLEAN
BY DEF scan_flag

LEMMA SpliceTimeParsed ==
  ASSUME NEW d \in Seq(Byte), NEW p \in Nat
  PROVE  Parsed(parse_splice_time(d, p), p, SpliceTime, d)
<1>1. scan_33(d, p) \in U33
  BY ScanWide
<1>2. [ pts_time |-> scan_33(d, p) ] \in SpliceTime /\ [ pts_time |-> None ] \in SpliceTime
  BY <1>1 DEF SpliceTime, Optional
<1>3. /\ p + 5 \in Nat /\ p + 5 >= p /\ p + 1 \in Nat /\ p + 1 >= p
  OBVIOUS
<1>4. /\ Parsed(At([ pts_time |-> scan_33(d, p) ], p + 5), p, SpliceTime, d)
      /\ Parsed(At([ pts_time |-> None ], p + 1), p, SpliceTime, d)
  BY <1>2, <1>3, AtParsed
<1> QED
  BY <1>4 DEF parse_splice_time

LEMMA BreakDurationParsed ==
  ASSUME NEW d \in Seq(Byte), NEW p \in Nat
  PROVE  Parsed(parse_break_duration(d, p), p, BreakDuration, d)
<1> DEFINE x == [ auto_return |-> scan_flag(d, p, 128), duration |-> scan_33(d, p) ]
<1>1. x \in BreakDuration
  BY ScanWide, FlagType DEF BreakDuration
<1>2. p + 5 \in Nat /\ p + 5 >= p
  OBVIOUS
<1> HIDE DEF x
<1>3. Parsed(At(x, p + 5), p, BreakDuration, d)
  BY <1>1, <1>2, AtParsed
<1> QED
  BY <1>3 DEF x, parse_break_duration

LEMMA TimedComponentParsed ==
  ASSUME NEW d \in Seq(Byte), NEW p \in Nat
  PROVE  Parsed(parse_timed_component(d, p), p,
                [ component_tag : Byte, utc_splice_time : U32 ], d)
<1> DEFINE x == [ component_tag |-> scan_8(d, p), utc_splice_time |-> scan_32(d, p + 1) ]
           T == [ component_tag : Byte, utc_splice_time : U32 ]
<1>1. x \in T
  BY Scan8Type, ScanWide
<1>2. p + 5 \in Nat /\ p + 5 >= p
  OBVIOUS
<1> HIDE DEF x, T
<1>3. Parsed(At(x, p + 5), p, T, d)
  BY <1>1, <1>2, AtParsed
<1> QED
  BY <1>3 DEF x, T, parse_timed_component

LEMMA ProgramSpliceParsed ==
  ASSUME NEW d \in Seq(Byte), NEW p \in Nat, NEW program \in BOOLEAN
  PROVE  Parsed(parse_program_splice(d, p, program), p, ProgramSpliceOn \cup ProgramSpliceOff, d)
<1> DEFINE items == [ q \in Nat |-> parse_timed_component(d, q) ]
           T == [ component_tag : Byte, utc_splice_time : U32 ]
           U == ProgramSpliceOn \cup ProgramSpliceOff
           components == ParseCounted(items, d, p)
           on == At([ utc_splice_time |-> scan_32(d, p) ], p + 4)
           off == At([ components |-> components.val ], components.end)
<1>1. \A q \in Nat : Parsed(items[q], q, T, d)
  BY TimedComponentParsed
<1>2. parse_program_splice(d, p, program) = IF program THEN on ELSE IfHolds(scan_8(d, p) >= 1, d, off)
  BY DEF parse_program_splice
<1> HIDE DEF items
<1>3. Parsed(components, p, Seq(T), d)
  <2> HIDE DEF T
  <2> QED
    BY <1>1, CountedParsed
<1> HIDE DEF components
<1>4. Parsed(on, p, U, d)
  <2> DEFINE x == [ utc_splice_time |-> scan_32(d, p) ]
  <2>1. x \in U
    BY ScanWide DEF ProgramSpliceOn
  <2>2. p + 4 \in Nat /\ p + 4 >= p
    OBVIOUS
  <2> HIDE DEF x, U
  <2> QED
    BY <2>1, <2>2, AtParsed DEF x
<1>5. Parsed(off, p, U, d)
  <2> DEFINE x == [ components |-> components.val ]
  <2>1. components.val \in Seq(T) => x \in U
    BY DEF ProgramSpliceOff
  <2> HIDE DEF x, U
  <2>2. components.end <= Len(d) + 1 => x \in U
    <3>1. Len(d) \in Nat
      OBVIOUS
    <3> QED
      BY <1>3, <2>1, <3>1 DEF Parsed
  <2>3. Parsed(At(x, components.end), p, U, d)
    BY <1>3, <2>2, AtEnd
  <2> QED
    BY <2>3 DEF x
<1> HIDE DEF on, off, U
<1>6. Parsed(IfHolds(scan_8(d, p) >= 1, d, off), p, U, d)
  BY <1>5, IfHoldsParsed
<1> QED
  BY <1>2, <1>4, <1>6 DEF U

LEMMA ComponentParsed ==
  ASSUME NEW d \in Seq(Byte), NEW p \in Nat, NEW immediate \in BOOLEAN
  PROVE  Parsed(parse_component(d, p, immediate), p,
                [ component_tag : Byte, splice_time : Optional(SpliceTime) ], d)
<1> DEFINE time == ItemIf(~ immediate, parse_splice_time(d, p + 1), p + 1)
           x == [ component_tag |-> scan_8(d, p), splice_time |-> time.val ]
           S == Optional(SpliceTime)
           T == [ component_tag : Byte, splice_time : S ]
<1>1. p + 1 \in Nat /\ p + 1 >= p
  OBVIOUS
<1>2. Parsed(parse_splice_time(d, p + 1), p + 1, SpliceTime, d)
  BY <1>1, SpliceTimeParsed
<1>3. Parsed(time, p + 1, S, d)
  BY <1>1, <1>2, ItemIfParsed
<1>4. scan_8(d, p) \in Byte
  BY Scan8Type
<1>5. parse_component(d, p, immediate) = At(x, time.end)
  BY DEF parse_component
<1> HIDE DEF time, S
<1>6. time.val \in S => x \in T
  BY <1>4
<1>7. Parsed(time, p, S, d) /\ (time.end <= Len(d) + 1 => time.val \in S)
  <2>1. Len(d) \in Nat
    OBVIOUS
  <2> QED
    BY <1>1, <1>3, <2>1 DEF Parsed
<1> HIDE DEF x, T
<1>8. Parsed(At(x, time.end), p, T, d)
  BY <1>6, <1>7, AtEnd
<1> QED
  BY <1>5, <1>8 DEF T, S

\* What follows the id of an event of a schedule.
LEMMA ScheduleMoreParsed ==
  ASSUME NEW d \in Seq(Byte), NEW p \in Nat
  PROVE  Parsed(parse_schedule_more(d, p), p, ScheduleCancelOff, d)
<1> DEFINE splice == parse_program_splice(d, p + 1, scan_flag(d, p, 64))
           duration == ItemIf(scan_flag(d, p, 32), parse_break_duration(d, splice.end), splice.end)
           U == ProgramSpliceOn \cup ProgramSpliceOff
           V == Optional(BreakDuration)
           x == [ out_of_network |-> scan_flag(d, p, 128),
                  splice |-> splice.val,
                  break_duration |-> duration.val,
                  unique_program_id |-> scan_16(d, duration.end),
                  avail_num |-> scan_8(d, duration.end + 2),
                  avails_expected |-> scan_8(d, duration.end + 3) ]
<1>1. p + 1 \in Nat /\ p + 1 >= p
  OBVIOUS
<1>2. Parsed(splice, p + 1, U, d)
  BY <1>1, FlagType, ProgramSpliceParsed
<1>3. splice.end \in Nat
  BY <1>2 DEF Parsed
<1>4. Parsed(parse_break_duration(d, splice.end), splice.end, BreakDuration, d)
  BY <1>3, BreakDurationParsed
<1>5. Parsed(duration, splice.end, V, d)
  BY <1>3, <1>4, ItemIfParsed
<1>6. parse_schedule_more(d, p) = At(x, duration.end + 4)
  BY DEF parse_schedule_more
<1>7. duration.end \in Nat
  BY <1>5 DEF Parsed
<1>8. /\ scan_16(d, duration.end) \in U16
      /\ scan_8(d, duration.end + 2) \in Byte /\ scan_8(d, duration.end + 3) \in Byte
      /\ scan_flag(d, p, 128) \in BOOLEAN
  <2> HIDE DEF duration
  <2> QED
    BY <1>7, ScanType, Scan8Type, FlagType
<1> HIDE DEF splice, duration, U, V
<1>9. Parsed(duration, p, V, d) /\ (duration.end <= Len(d) + 1 => splice.val \in U /\ duration.val \in V)
  <2>1. Parsed(splice, p, U, d)
    BY <1>1, <1>2, ParsedFrom
  <2> QED
    BY <1>5, <2>1, ParsedAfter
<1>10. splice.val \in U /\ duration.val \in V => x \in ScheduleCancelOff
  BY <1>8 DEF ScheduleCancelOff, U, V
<1> HIDE DEF x
<1>11. Parsed(At(x, duration.end + 4), p, ScheduleCancelOff, d)
  BY <1>9, <1>10, AtAfter
<1> QED
  BY <1>6, <1>11

\* What follows the id of a splice_insert.
LEMMA InsertMoreParsed ==
  ASSUME NEW d \in Seq(Byte), NEW p \in Nat
  PROVE  Parsed(parse_insert_more(d, p), p, InsertCancelOff, d)
<1> DEFINE program == scan_flag(d, p, 64)
           immediate == scan_flag(d, p, 16)
           time == ItemIf(program /\ ~ immediate, parse_splice_time(d, p + 1), p + 1)
           items == [ q \in Nat |-> parse_component(d, q, immediate) ]
           listed == ParseCounted(items, d, p + 1)
           components == IF program THEN At(None, time.end)
                         ELSE IfHolds(scan_8(d, p + 1) >= 1, d, listed)
           duration ==
             ItemIf(scan_flag(d, p, 32), parse_break_duration(d, components.end), components.end)
           S == Optional(SpliceTime)
           I == [ component_tag : Byte, splice_time : S ]
           U == Optional(Seq(I))
           V == Optional(BreakDuration)
           x == [ out_of_network |-> scan_flag(d, p, 128),
                  program_splice |-> program,
                  splice_immediate |-> immediate,
                  splice_time |-> time.val,
                  components |-> components.val,
                  break_duration |-> duration.val,
                  unique_program_id |-> scan_16(d, duration.end),
                  avail_num |-> scan_8(d, duration.end + 2),
                  avails_expected |-> scan_8(d, duration.end + 3) ]
<1>1. p + 1 \in Nat /\ p + 1 >= p /\ Len(d) \in Nat
  OBVIOUS
<1>2. program \in BOOLEAN /\ immediate \in BOOLEAN /\ scan_flag(d, p, 128) \in BOOLEAN
  BY FlagType
<1>3. Parsed(time, p + 1, S, d)
  <2>1. Parsed(parse_splice_time(d, p + 1), p + 1, SpliceTime, d)
    BY <1>1, SpliceTimeParsed
  <2> QED
    BY <1>1, <2>1, ItemIfParsed
<1>4. \A q \in Nat : Parsed(items[q], q, I, d)
  BY <1>2, ComponentParsed
<1>5. parse_insert_more(d, p) = At(x, duration.end + 4)
  BY DEF parse_insert_more
<1> HIDE DEF program, immediate, time, items, I, S
<1>6. Parsed(listed, p + 1, Seq(I), d)
  BY <1>1, <1>4, CountedParsed
<1> HIDE DEF listed
\* The time is there, or there is none and nothing comes from it.
<1>7. Parsed(components, p + 1, U, d) /\ (components.end <= Len(d) + 1 => time.val \in S)
  <2>1. CASE program
    <3>1. components = At(None, time.end)
      BY <2>1
    <3> HIDE DEF components
    <3>2. None \in U
      BY DEF Optional
    <3> HIDE DEF U
    <3>3. Parsed(At(None, time.end), p + 1, U, d)
      BY <1>1, <1>3, <3>2, AtEnd
    <3>4. At(None, time.end).end = time.end
      BY DEF At
    <3> QED
      BY <1>1, <1>3, <3>1, <3>3, <3>4 DEF Parsed
  <2>2. CASE ~ program
    <3>1. components = IfHolds(scan_8(d, p + 1) >= 1, d, listed)
      BY <2>2
    <3>2. time = At(None, p + 1)
      BY <2>2 DEF time, ItemIf
    <3>3. time.val \in S
      BY <3>2 DEF At, S, Optional
    <3> HIDE DEF components
    <3>4. Parsed(listed, p + 1, U, d)
      BY <1>6 DEF Parsed, Optional
    <3> HIDE DEF U
    <3>5. Parsed(components, p + 1, U, d)
      BY <1>1, <3>1, <3>4, IfHoldsParsed
    <3> QED
      BY <3>3, <3>5
  <2> QED
    BY <2>1, <2>2
<1> HIDE DEF components
<1>8. components.end \in Nat
  BY <1>7 DEF Parsed
<1>9. Parsed(duration, components.end, V, d)
  <2>1. Parsed(parse_break_duration(d, components.end), components.end, BreakDuration, d)
    BY <1>8, BreakDurationParsed
  <2> QED
    BY <1>8, <2>1, ItemIfParsed
<1> HIDE DEF duration, V
<1>10. duration.end \in Nat
  BY <1>9 DEF Parsed
<1>11. /\ scan_16(d, duration.end) \in U16
       /\ scan_8(d, duration.end + 2) \in Byte /\ scan_8(d, duration.end + 3) \in Byte
  BY <1>10, ScanType, Scan8Type
<1> HIDE DEF U
<1>12. /\ Parsed(duration, p, V, d)
       /\ duration.end <= Len(d) + 1 =>
            time.val \in S /\ components.val \in U /\ duration.val \in V
  <2>1. Parsed(components, p, U, d)
    BY <1>1, <1>7, ParsedFrom
  <2>2. /\ Parsed(duration, p, V, d)
        /\ duration.end <= Len(d) + 1 => components.val \in U /\ duration.val \in V
    BY <1>9, <2>1, ParsedAfter
  <2>3. duration.end <= Len(d) + 1 => components.end <= Len(d) + 1
    BY <1>1, <1>8, <1>9, <1>10 DEF Parsed
  <2> QED
    BY <1>7, <2>2, <2>3
<1>13. time.val \in S /\ components.val \in U /\ duration.val \in V => x \in InsertCancelOff
  BY <1>2, <1>11 DEF InsertCancelOff, S, U, V, I
<1> HIDE DEF x
<1>14. Parsed(At(x, duration.end + 4), p, InsertCancelOff, d)
  BY <1>12, <1>13, AtAfter
<1> QED
  BY <1>5, <1>14

LEMMA ScheduleEventParsed ==
  ASSUME NEW d \in Seq(Byte), NEW p \in Nat
  PROVE  Parsed(parse_schedule_event(d, p), p, [ id : U32, more : Optional(ScheduleCancelOff) ], d)
<1> DEFINE more == ItemIf(~ scan_flag(d, p + 4, 128), parse_schedule_more(d, p + 5), p + 5)
           S == Optional(ScheduleCancelOff)
           T == [ id : U32, more : S ]
           x == [ id |-> scan_32(d, p), more |-> more.val ]
<1>1. p + 5 \in Nat /\ p + 5 >= p
  OBVIOUS
<1>2. Parsed(parse_schedule_more(d, p + 5), p + 5, ScheduleCancelOff, d)
  BY <1>1, ScheduleMoreParsed
<1>3. Parsed(more, p + 5, S, d)
  BY <1>1, <1>2, ItemIfParsed
<1>4. parse_schedule_event(d, p) = At(x, more.end)
  BY DEF parse_schedule_event
<1>5. scan_32(d, p) \in U32
  BY ScanWide
<1> HIDE DEF more, S
<1>6. Parsed(more, p, S, d)
  BY <1>1, <1>3, ParsedFrom
<1>7. more.end <= Len(d) + 1 => x \in T
  <2>1. Len(d) \in Nat
    OBVIOUS
  <2> QED
    BY <1>5, <1>6, <2>1 DEF Parsed
<1> HIDE DEF x, T
<1>8. Parsed(At(x, more.end), p, T, d)
  BY <1>6, <1>7, AtEnd
<1> QED
  BY <1>4, <1>8 DEF T, S

LEMMA SpliceScheduleParsed ==
  ASSUME NEW d \in Seq(Byte), NEW p \in Nat
  PROVE  Parsed(parse_splice_schedule(d, p), p, SpliceSchedule, d)
<1> DEFINE items == [ q \in Nat |-> parse_schedule_event(d, q) ]
           events == ParseCounted(items, d, p)
           T == [ id : U32, more : Optional(ScheduleCancelOff) ]
           x == [ type |-> 4, events |-> events.val ]
<1>1. \A q \in Nat : Parsed(items[q], q, T, d)
  BY ScheduleEventParsed
<1>2. parse_splice_schedule(d, p) = At(x, events.end)
  BY DEF parse_splice_schedule
<1>3. \A y \in Seq(T) : [ type |-> 4, events |-> y ] \in SpliceSchedule
  BY DEF SpliceSchedule
<1> HIDE DEF items, T
<1>4. Parsed(events, p, Seq(T), d)
  BY <1>1, CountedParsed
<1> HIDE DEF events
<1>5. events.end <= Len(d) + 1 => x \in SpliceSchedule
  <2>1. Len(d) \in Nat
    OBVIOUS
  <2>2. events.end <= Len(d) + 1 => events.val \in Seq(T)
    BY <1>4, <2>1 DEF Parsed
  <2> QED
    BY <1>3, <2>2
<1> HIDE DEF x
<1>6. Parsed(At(x, events.end), p, SpliceSchedule, d)
  BY <1>4, <1>5, AtEnd
<1> QED
  BY <1>2, <1>6

LEMMA SpliceInsertParsed ==
  ASSUME NEW d \in Seq(Byte), NEW p \in Nat
  PROVE  Parsed(parse_splice_insert(d, p), p, SpliceInsert, d)
<1> DEFINE more == ItemIf(~ scan_flag(d, p + 4, 128), parse_insert_more(d, p + 5), p + 5)
           S == Optional(InsertCancelOff)
           x == [ type |-> 5, id |-> scan_32(d, p), more |-> more.val ]
<1>1. p + 5 \in Nat /\ p + 5 >= p
  OBVIOUS
<1>2. Parsed(parse_insert_more(d, p + 5), p + 5, InsertCancelOff, d)
  BY <1>1, InsertMoreParsed
<1>3. Parsed(more, p + 5, S, d)
  BY <1>1, <1>2, ItemIfParsed
<1>4. parse_splice_insert(d, p) = At(x, more.end)
  BY DEF parse_splice_insert
<1>5. scan_32(d, p) \in U32
  BY ScanWide
<1>6. more.val \in S => x \in SpliceInsert
  BY <1>5 DEF SpliceInsert
<1> HIDE DEF more, S
<1>7. Parsed(more, p, S, d)
  BY <1>1, <1>3, ParsedFrom
<1>8. more.end <= Len(d) + 1 => x \in SpliceInsert
  <2>1. Len(d) \in Nat
    OBVIOUS
  <2> QED
    BY <1>6, <1>7, <2>1 DEF Parsed
<1> HIDE DEF x
<1>9. Parsed(At(x, more.end), p, SpliceInsert, d)
  BY <1>7, <1>8, AtEnd
<1> QED
  BY <1>4, <1>9

LEMMA TimeSignalParsed ==
  ASSUME NEW d \in Seq(Byte), NEW p \in Nat
  PROVE  Parsed(parse_time_signal(d, p), p, TimeSignal, d)
<1> DEFINE t == parse_splice_time(d, p)
           x == [ type |-> 6, splice_time |-> t.val ]
<1>1. Parsed(t, p, SpliceTime, d)
  BY SpliceTimeParsed
<1>2. parse_time_signal(d, p) = At(x, t.end)
  BY DEF parse_time_signal
<1> HIDE DEF t
<1>3. t.val \in SpliceTime => x \in TimeSignal
  BY DEF TimeSignal
<1>4. t.end <= Len(d) + 1 => x \in TimeSignal
  <2>1. Len(d) \in Nat
    OBVIOUS
  <2> QED
    BY <1>1, <1>3, <2>1 DEF Parsed
<1> HIDE DEF x
<1>5. Parsed(At(x, t.end), p, TimeSignal, d)
  BY <1>1, <1>4, AtEnd
<1> QED
  BY <1>2, <1>5

LEMMA PrivateCommandParsed ==
  ASSUME NEW d \in Seq(Byte), NEW p \in Nat, NEW length \in Nat
  PROVE  Parsed(parse_private_command(d, p, length), p, PrivateCommand, d)
<1> DEFINE x == [ type |-> 255, identifier |-> scan_32(d, p),
                  bytes |-> scan(d, p + 8, length - 4) ]
           q == p + 4 + length
           test == length > 4 /\ length < 4095
<1>1. CASE length > 4
  <2>1. length - 4 \in Nat /\ q \in Nat /\ q >= p
    BY <1>1
  <2>2. x \in PrivateCommand
    BY <2>1, ScanBytes, ScanWide DEF PrivateCommand
  <2> HIDE DEF x
  <2>3. Parsed(At(x, q), p, PrivateCommand, d)
    BY <2>1, <2>2, AtParsed
  <2>4. parse_private_command(d, p, length) = IfHolds(test, d, At(x, q))
    BY DEF x, parse_private_command
  <2> HIDE DEF test
  <2> QED
    BY <2>3, <2>4, IfHoldsParsed
<1>2. CASE ~ (length > 4)
  <2>1. parse_private_command(d, p, length) = Failed(d)
    BY <1>2 DEF parse_private_command, IfHolds
  <2> QED
    BY <2>1, FailedParsed
<1> QED
  BY <1>1, <1>2

LEMMA CommandParsed ==
  ASSUME NEW d \in Seq(Byte), NEW p \in Nat, NEW type, NEW length \in Nat
  PROVE  Parsed(parse_command(d, p, type, length), p, Command, d)
<1> DEFINE item == parse_command(d, p, type, length)
<1>1. ASSUME NEW T, T \subseteq Command, Parsed(item, p, T, d)
      PROVE  Parsed(item, p, Command, d)
  BY <1>1 DEF Parsed
<1>2. /\ SpliceNull \cup BandwidthReservation \subseteq Command
      /\ SpliceSchedule \subseteq Command /\ SpliceInsert \subseteq Command
      /\ TimeSignal \subseteq Command /\ PrivateCommand \subseteq Command
  BY Zenon DEF Command
<1>3. CASE type \in {0, 7}
  <2> DEFINE x == [ type |-> type ]
  <2>1. x \in SpliceNull \cup BandwidthReservation
    BY <1>3 DEF SpliceNull, BandwidthReservation
  <2>2. item = At(x, p)
    BY <1>3 DEF parse_command
  <2> HIDE DEF item, x
  <2>3. x \in Command
    BY <1>2, <2>1
  <2>4. p >= p
    OBVIOUS
  <2>5. Parsed(At(x, p), p, Command, d)
    BY <2>3, <2>4, AtParsed
  <2> QED
    BY <2>2, <2>5 DEF item
<1>4. CASE type = 4
  <2>1. item = parse_splice_schedule(d, p)
    BY <1>4 DEF parse_command
  <2> QED
    BY <1>1, <1>2, <2>1, SpliceScheduleParsed
<1>5. CASE type = 5
  <2>1. item = parse_splice_insert(d, p)
    BY <1>5 DEF parse_command
  <2> QED
    BY <1>1, <1>2, <2>1, SpliceInsertParsed
<1>6. CASE type = 6
  <2>1. item = parse_time_signal(d, p)
    BY <1>6 DEF parse_command
  <2> QED
    BY <1>1, <1>2, <2>1, TimeSignalParsed
<1>7. CASE type = 255
  <2>1. item = parse_private_command(d, p, length)
    BY <1>7 DEF parse_command
  <2> QED
    BY <1>1, <1>2, <2>1, PrivateCommandParsed
<1>8. CASE type \notin {0, 7, 4, 5, 6, 255}
  <2>1. item = Failed(d)
    BY <1>8 DEF parse_command
  <2> QED
    BY <2>1, FailedParsed
<1> QED
  BY <1>3, <1>4, <1>5, <1>6, <1>7, <1>8

-----------------------------------------------------------------------------
(* descriptors *)

LEMMA TimeDescriptorParsed ==
  ASSUME NEW d \in Seq(Byte), NEW q \in Nat, NEW b
  PROVE  Parsed(parse_time_descriptor(d, q, b), q, Descriptor, d)
<1> DEFINE fromLeft == b.args = "left"
           inOrder == b.sums = "left"
           x == [ tag |-> 3,
                  tai_seconds |-> scan_48(d, IF fromLeft THEN q ELSE q + 6, inOrder),
                  tai_nanoseconds |-> scan_32(d, IF fromLeft THEN q + 6 ELSE q + 2),
                  utc_offset |-> scan_16(d, IF fromLeft THEN q + 10 ELSE q) ]
           T == TimeDescriptor
<1>1. x \in T
  <2>1. scan_48(d, IF fromLeft THEN q ELSE q + 6, inOrder) \in U48
    BY ScanWide
  <2>2. scan_32(d, IF fromLeft THEN q + 6 ELSE q + 2) \in U32
    BY ScanWide
  <2>3. (IF fromLeft THEN q + 10 ELSE q) \in Nat
    OBVIOUS
  <2>4. scan_16(d, IF fromLeft THEN q + 10 ELSE q) \in U16
    BY <2>3, ScanType
  <2> HIDE DEF fromLeft, inOrder
  <2> QED
    BY <2>1, <2>2, <2>4 DEF TimeDescriptor
<1>2. q + 12 \in Nat /\ q + 12 >= q
  OBVIOUS
<1>3. parse_time_descriptor(d, q, b) = At(x, q + 12)
  BY DEF parse_time_descriptor
<1> HIDE DEF x
<1>4. x \in Descriptor
  BY <1>1 DEF Descriptor
<1>5. Parsed(At(x, q + 12), q, Descriptor, d)
  BY <1>2, <1>4, AtParsed
<1> QED
  BY <1>3, <1>5

LEMMA DescriptorParsed ==
  ASSUME NEW d \in Seq(Byte), NEW p \in Nat, NEW last, NEW b
  PROVE  Parsed(parse_descriptor(d, p, last, b), p + 6, Descriptor, d)
<1> DEFINE tag == scan_8(d, p)
           length == scan_8(d, p + 1)
           q == p + 6
           dtmf_count == scan_8(d, q + 1) \div 32
           avail == [ tag |-> 0, provider_avail_id |-> scan_32(d, q) ]
           dtmf == [ tag |-> 1, preroll |-> scan_8(d, q), dtmf_chars |-> scan(d, q + 2, dtmf_count) ]
           data == [ tag |-> 2, data |-> scan(d, q, length - 4) ]
           time == parse_time_descriptor(d, q, b)
           item == CASE tag = 0 /\ length = 8 -> At(avail, q + 4)
                     [] tag = 1 /\ length = 4 + 1 + dtmf_count -> At(dtmf, q + 2 + dtmf_count)
                     [] tag = 2 /\ length >= 4 -> At(data, q + length - 4)
                     [] tag = 3 /\ length = 16 -> time
                     [] OTHER -> Failed(d)
           test == p + 1 + length <= last /\ scan(d, p + 2, 4) = CUEI
<1>1. q \in Nat /\ length \in Nat /\ tag \in Nat /\ q + 4 \in Nat /\ q + 4 >= q
  BY Scan8Type
<1>2. dtmf_count \in Nat /\ q + 2 + dtmf_count \in Nat /\ q + 2 + dtmf_count >= q
  <2> DEFINE n == scan_8(d, q + 1)
  <2>1. n \in Nat
    BY Scan8Type
  <2> HIDE DEF n
  <2>2. n \div 32 \in Nat
    BY <2>1
  <2>3. dtmf_count \in Nat
    BY <2>2 DEF n
  <2> HIDE DEF dtmf_count
  <2> QED
    BY <1>1, <2>3
<1>3. parse_descriptor(d, p, last, b) = IfHolds(test, d, item)
  BY DEF parse_descriptor
<1>4. scan_8(d, q) \in Byte
  BY Scan8Type
<1> HIDE DEF length, tag, q, dtmf_count
<1>5. avail \in Descriptor
  BY ScanWide DEF Descriptor, AvailDescriptor
<1>6. dtmf \in Descriptor
  BY <1>2, <1>4, ScanBytes DEF Descriptor, DtmfDescriptor
<1>7. length >= 4 => data \in Descriptor /\ q + length - 4 \in Nat /\ q + length - 4 >= q
  <2> SUFFICES ASSUME length >= 4 PROVE data \in Descriptor /\ q + length - 4 \in Nat /\ q + length - 4 >= q
    OBVIOUS
  <2>1. length - 4 \in Nat
    BY <1>1
  <2> QED
    BY <1>1, <2>1, ScanBytes DEF Descriptor, SegmentationDescriptor
<1>8. Parsed(time, q, Descriptor, d)
  BY <1>1, TimeDescriptorParsed
<1> HIDE DEF avail, dtmf, data, time, test
<1>9. Parsed(item, q, Descriptor, d)
  <2>1. CASE tag = 0 /\ length = 8
    <3>1. item = At(avail, q + 4)
      BY <2>1
    <3> QED
      BY <1>1, <1>5, <3>1, AtParsed
  <2>2. CASE tag = 1 /\ length = 4 + 1 + dtmf_count
    <3>1. item = At(dtmf, q + 2 + dtmf_count)
      BY <2>2
    <3> QED
      BY <1>1, <1>2, <1>6, <3>1, AtParsed
  <2>3. CASE tag = 2 /\ length >= 4
    <3>1. item = At(data, q + length - 4)
      BY <2>3
    <3> QED
      BY <1>1, <1>7, <2>3, <3>1, AtParsed
  <2>4. CASE tag = 3 /\ length = 16
    <3>1. item = time
      BY <2>4
    <3> QED
      BY <1>8, <3>1
  <2>5. CASE /\ ~ (tag = 0 /\ length = 8) /\ ~ (tag = 1 /\ length = 4 + 1 + dtmf_count)
             /\ ~ (tag = 2 /\ length >= 4) /\ ~ (tag = 3 /\ length = 16)
    <3>1. item = Failed(d)
      BY <2>5
    <3> QED
      BY <3>1, FailedParsed
  <2> QED
    BY <2>1, <2>2, <2>3, <2>4, <2>5
<1> HIDE DEF item
<1>10. Parsed(IfHolds(test, d, item), q, Descriptor, d)
  BY <1>1, <1>9, IfHoldsParsed
<1> QED
  BY <1>3, <1>10 DEF q

\* One round of the loop over the descriptors.
DescriptorsNext(d, last, b, from, q) ==
  IF q > last THEN At(<< >>, q)
  ELSE LET item == parse_descriptor(d, q, last, b)
           rest == from[item.end]
       IN At(<< item.val >> \o rest.val, rest.end)

\* The loop moves on: a descriptor begins with a tag, a length and an
\* identifier, or has failed.
LEMMA DescriptorEnd ==
  ASSUME NEW d \in Seq(Byte), NEW last \in Nat, last <= Len(d), NEW b, NEW q \in Nat, ~ (q > last)
  PROVE  parse_descriptor(d, q, last, b).end \in Nat /\ parse_descriptor(d, q, last, b).end > q
<1> DEFINE item == parse_descriptor(d, q, last, b)
<1>1. Parsed(item, q + 6, Descriptor, d)
  BY DescriptorParsed
<1>2. Len(d) \in Nat
  OBVIOUS
<1> HIDE DEF item
<1>3. item.end \in Nat /\ item.end > q
  BY <1>1, <1>2 DEF Parsed
<1> QED
  BY <1>3 DEF item

LEMMA DescriptorsExist ==
  ASSUME NEW d \in Seq(Byte), NEW last \in Nat, last <= Len(d), NEW b
  PROVE  \E from : from = [ q \in Nat |-> DescriptorsNext(d, last, b, from, q) ]
<1> DEFINE After(from, n) ==
             from = [ q \in Nat |-> IF q + n > last THEN DescriptorsNext(d, last, b, from, q) ELSE << >> ]
           T == { n \in Nat : ~ \E from : After(from, n) }
<1>1. T = {}
  <2> SUFFICES ASSUME T # {} PROVE FALSE
    OBVIOUS
  <2>1. PICK n \in T : \A m \in T : n <= m
    BY NatMin
  <2>2. n # 0
    <3> DEFINE none == [ q \in Nat |-> IF q + 0 > last THEN At(<< >>, q) ELSE << >> ]
    <3>1. \A q \in Nat : q + 0 > last => DescriptorsNext(d, last, b, none, q) = At(<< >>, q)
      BY DEF DescriptorsNext
    <3>2. After(none, 0)
      BY <3>1
    <3> HIDE DEF After
    <3> QED
      BY <3>2
  <2>3. n \in Nat /\ n - 1 \in Nat
    BY <2>1, <2>2
  <2>4. PICK f : After(f, n - 1)
    <3>1. n - 1 \notin T
      <4> HIDE DEF T
      <4> QED
        BY <2>1, <2>3
    <3> QED
      BY <2>3, <3>1
  <2> DEFINE g == [ q \in Nat |-> IF q + n = last + 1 THEN DescriptorsNext(d, last, b, f, q) ELSE f[q] ]
  <2>5. \A q \in Nat : f[q] = IF q + (n - 1) > last THEN DescriptorsNext(d, last, b, f, q) ELSE << >>
    BY <2>4
  <2>6. \A q \in Nat : g[q] = IF q + n = last + 1 THEN DescriptorsNext(d, last, b, f, q) ELSE f[q]
    OBVIOUS
  <2>7. g = [ q \in Nat |-> g[q] ]
    OBVIOUS
  <2> HIDE DEF g
  <2>8. ASSUME NEW q \in Nat, q + n > last
        PROVE  DescriptorsNext(d, last, b, g, q) = DescriptorsNext(d, last, b, f, q)
    <3>1. CASE q > last
      BY <3>1 DEF DescriptorsNext
    <3>2. CASE ~ (q > last)
      <4> DEFINE e == parse_descriptor(d, q, last, b).end
      <4>1. e \in Nat /\ e > q
        BY <3>2, DescriptorEnd
      <4> HIDE DEF e
      <4>2. e + n # last + 1
        BY <2>3, <2>8, <4>1
      <4>3. g[e] = f[e]
        BY <2>6, <4>1, <4>2
      <4> QED
        BY <4>3 DEF e, DescriptorsNext
    <3> QED
      BY <3>1, <3>2
  <2>9. ASSUME NEW q \in Nat PROVE g[q] = IF q + n > last THEN DescriptorsNext(d, last, b, g, q) ELSE << >>
    <3>1. CASE q + n = last + 1
      <4>1. q + n > last
        BY <2>3, <3>1
      <4> QED
        BY <2>6, <2>8, <3>1, <4>1
    <3>2. CASE q + n > last /\ q + n # last + 1
      <4>1. q + (n - 1) > last
        BY <2>3, <3>2
      <4> QED
        BY <2>5, <2>6, <2>8, <3>2, <4>1
    <3>3. CASE ~ (q + n > last)
      <4>1. ~ (q + (n - 1) > last) /\ q + n # last + 1
        BY <2>3, <3>3
      <4> QED
        BY <2>5, <2>6, <3>3, <4>1
    <3> QED
      BY <3>1, <3>2, <3>3
  <2>10. After(g, n)
    BY <2>7, <2>9
  <2> HIDE DEF After
  <2> QED
    BY <2>1, <2>10
<1>2. last + 1 \in Nat /\ last + 1 \notin T
  <2> HIDE DEF T
  <2> QED
    BY <1>1
<1>3. PICK from : After(from, last + 1)
  BY <1>2
<1>4. \A q \in Nat : q + (last + 1) > last
  OBVIOUS
<1>5. from = [ q \in Nat |-> DescriptorsNext(d, last, b, from, q) ]
  BY <1>3, <1>4
<1> QED
  BY <1>5

LEMMA DescriptorsParsed ==
  ASSUME NEW d \in Seq(Byte), NEW last \in Nat, last <= Len(d), NEW b, NEW p \in Nat
  PROVE  Parsed(parse_descriptors(d, p, last, b), p, Seq(Descriptor), d)
<1> DEFINE from == CHOOSE f : f = [ q \in Nat |-> DescriptorsNext(d, last, b, f, q) ]
           T == Descriptor
           Bad == { q \in Nat : ~ Parsed(from[q], q, Seq(T), d) }
<1>1. parse_descriptors(d, p, last, b) = IfHolds(from[p].end = last + 1, d, from[p])
  BY DEF parse_descriptors, DescriptorsNext
<1>2. from = [ q \in Nat |-> DescriptorsNext(d, last, b, from, q) ]
  BY DescriptorsExist
<1> HIDE DEF from
<1>3. \A q \in Nat : from[q] = DescriptorsNext(d, last, b, from, q)
  BY <1>2
<1>4. \A q \in Nat : q > last => Parsed(from[q], q, Seq(T), d)
  <2> SUFFICES ASSUME NEW q \in Nat, q > last PROVE Parsed(from[q], q, Seq(T), d)
    OBVIOUS
  <2>1. from[q] = At(<< >>, q)
    BY <1>3 DEF DescriptorsNext
  <2>2. << >> \in Seq(T) /\ q >= q
    OBVIOUS
  <2> QED
    BY <2>1, <2>2, AtParsed
<1>5. Bad \subseteq 0 .. last
  BY <1>4
<1>6. Bad = {}
  <2> SUFFICES ASSUME Bad # {} PROVE FALSE
    OBVIOUS
  <2>1. PICK q \in Bad : \A m \in Bad : m <= q
    <3> HIDE DEF Bad
    <3> QED
      BY <1>5, NatMax
  <2> DEFINE item == parse_descriptor(d, q, last, b)
             rest == from[item.end]
  <2>2. q \in Nat /\ ~ Parsed(from[q], q, Seq(T), d) /\ ~ (q > last)
    BY <1>4, <2>1
  <2>3. from[q] = At(<< item.val >> \o rest.val, rest.end)
    BY <1>3, <2>2 DEF DescriptorsNext
  <2>4. item.end \in Nat /\ item.end > q
    BY <2>2, DescriptorEnd
  <2>5. Parsed(item, q, T, d)
    <3>1. Parsed(item, q + 6, T, d)
      BY <2>2, DescriptorParsed
    <3> HIDE DEF item, T
    <3> QED
      BY <2>2, <3>1, ParsedFrom
  <2> HIDE DEF Bad, item, T
  <2>6. item.end \notin Bad
    BY <2>1, <2>2, <2>4
  <2>7. Parsed(rest, item.end, Seq(T), d)
    BY <2>4, <2>6 DEF Bad
  <2> HIDE DEF rest
  <2>8. Parsed(rest, q, Seq(T), d) /\ (rest.end <= Len(d) + 1 => item.val \in T /\ rest.val \in Seq(T))
    BY <2>2, <2>5, <2>7, ParsedAfter
  <2>9. rest.end <= Len(d) + 1 => << item.val >> \o rest.val \in Seq(T)
    <3> SUFFICES ASSUME rest.end <= Len(d) + 1 PROVE << item.val >> \o rest.val \in Seq(T)
      OBVIOUS
    <3> DEFINE v == item.val
    <3>1. v \in T /\ rest.val \in Seq(T)
      BY <2>8
    <3> HIDE DEF v
    <3>2. << v >> \in Seq(T)
      BY <3>1, OnlyOne
    <3>3. << v >> \o rest.val \in Seq(T)
      BY <3>1, <3>2, ConcatType
    <3> QED
      BY <3>3 DEF v
  <2>10. Parsed(from[q], q, Seq(T), d)
    BY <2>2, <2>3, <2>8, <2>9, AtEnd
  <2> QED
    BY <2>2, <2>10
<1>7. Parsed(from[p], p, Seq(T), d)
  BY <1>6
<1> DEFINE test == from[p].end = last + 1
<1>8. parse_descriptors(d, p, last, b) = IfHolds(test, d, from[p])
  BY <1>1
<1> HIDE DEF test, T
<1>9. Parsed(IfHolds(test, d, from[p]), p, Seq(T), d)
  BY <1>7, IfHoldsParsed
<1> QED
  BY <1>8, <1>9 DEF T

LEMMA DescriptorLoopParsed ==
  ASSUME NEW d \in Seq(Byte), NEW last \in Nat, last <= Len(d), NEW b, NEW p \in Nat
  PROVE  Parsed(parse_descriptor_loop(d, p, last, b), p, Seq(Descriptor), d)
<1> DEFINE length == scan_16(d, p)
           T == Seq(Descriptor)
           all == parse_descriptors(d, p + 2, p + 1 + length, b)
           test == p + 2 + length <= last
<1>1. length \in Nat
  BY ScanType, U16Is
<1>2. p + 2 \in Nat /\ p + 2 >= p /\ Len(d) \in Nat
  OBVIOUS
<1>3. CASE length = 0
  <2>1. << >> \in T
    OBVIOUS
  <2>2. parse_descriptor_loop(d, p, last, b) = At(<< >>, p + 2)
    BY <1>3 DEF parse_descriptor_loop
  <2> QED
    BY <1>2, <2>1, <2>2, AtParsed
<1>4. CASE length # 0
  <2>1. parse_descriptor_loop(d, p, last, b) = IfHolds(test, d, all)
    BY <1>4 DEF parse_descriptor_loop
  <2> HIDE DEF length
  <2>2. test => Parsed(all, p, T, d)
    <3> SUFFICES ASSUME test PROVE Parsed(all, p, T, d)
      OBVIOUS
    <3>1. p + 1 + length \in Nat /\ p + 1 + length <= Len(d)
      BY <1>1, <1>2
    <3>2. Parsed(all, p + 2, T, d)
      BY <1>2, <3>1, DescriptorsParsed
    <3> HIDE DEF all
    <3> QED
      BY <1>2, <3>2, ParsedFrom
  <2> HIDE DEF test, all, T
  <2>3. Parsed(IfHolds(test, d, all), p, T, d)
    BY <2>2, IfHoldsParsed
  <2> QED
    BY <2>1, <2>3 DEF T
<1> QED
  BY <1>3, <1>4

-----------------------------------------------------------------------------
(* sections *)

\* A section ends after the position at which it is looked for, and not later
\* than the bytes there are.
LEMMA NextSection ==
  ASSUME NEW d \in Seq(Byte), NEW p \in Nat \ {0}, NEW last \in Nat, UntilLength(d, p, last) # None
  PROVE  LET b == UntilLength(d, p, last)
         IN /\ b.start \in Nat \ {0} /\ b.rest \in Nat
            /\ b.last \in Nat /\ b.last >= p /\ b.last <= last
<1> DEFINE start == IF scan_8(d, p) = 0 THEN p + 1 ELSE p
           section_length == scan_12_low(d, start + 1)
           rest == start + 3
           b == UntilLength(d, p, last)
<1>1. start \in Nat \ {0} /\ start >= p /\ start <= p + 1
  OBVIOUS
<1>2. section_length \in Nat
  <2>1. start + 1 \in Nat
    BY <1>1
  <2> HIDE DEF start
  <2> QED
    BY <2>1, ScanType, U12Is
<1>3. /\ b = [ start |-> start, rest |-> rest, last |-> rest + section_length - 1 ]
      /\ section_length >= MIN_SIS_LENGTH - (rest - p) /\ rest + section_length <= last + 1
  BY DEF UntilLength
<1> HIDE DEF start, section_length
<1>4. rest + section_length - 1 \in Nat /\ rest + section_length - 1 >= p /\ rest + section_length - 1 <= last
  BY <1>1, <1>2, <1>3 DEF MIN_SIS_LENGTH
<1> HIDE DEF b
<1> QED
  BY <1>1, <1>3, <1>4 DEF b

\* What the parser returns is a whole section, or no section.
LEMMA SectionType ==
  ASSUME NEW d \in Seq(Byte), NEW first \in Nat \ {0}, NEW last \in Nat, last <= Len(d), NEW b,
         scte35_parser_pack(d, first, last, b) # None
  PROVE  scte35_parser_pack(d, first, last, b) \in SpliceInfoSection
<1> DEFINE head == UntilLength(d, first, last)
           r == head.rest
           c == r + 11
           length == scan_12_low(d, r + 8)
           command == parse_command(d, c, scan_8(d, r + 10), length)
           descriptors == parse_descriptor_loop(d, command.end, last, b)
           algorithm == (scan_8(d, r + 1) \div 2) % 64
           x == [ encrypted_packet |-> FALSE,
                  encryption_algorithm |-> algorithm,
                  pts_adjustment |-> scan_33(d, r + 1),
                  cw_index |-> scan_8(d, r + 6),
                  tier |-> scan_12_high(d, r + 7),
                  command |-> command.val,
                  descriptors |-> descriptors.val ]
<1>1. /\ head # None /\ Within(command.end + 2, last) /\ Within(descriptors.end + 4, last)
      /\ scte35_parser_pack(d, first, last, b) = x
  BY DEF scte35_parser_pack, CommandHolds
<1>2. r \in Nat
  BY <1>1, NextSection
<1> HIDE DEF head, r
<1>3. c \in Nat /\ r + 8 \in Nat /\ r + 7 \in Nat
  BY <1>2
<1>4. length \in Nat
  BY <1>3, ScanType, U12Is
<1>5. /\ scan_33(d, r + 1) \in U33 /\ scan_8(d, r + 6) \in Byte /\ scan_12_high(d, r + 7) \in U12
  BY <1>3, ScanWide, Scan8Type, ScanType
<1>6. algorithm \in U6
  <2> DEFINE n == scan_8(d, r + 1)
  <2>1. n \in Nat
    BY Scan8Type
  <2> HIDE DEF n
  <2>2. (n \div 2) % 64 \in Nat /\ (n \div 2) % 64 <= 63
    BY <2>1
  <2> QED
    BY <2>2, U6Is DEF n
<1> HIDE DEF algorithm, c, length
<1>7. Parsed(command, c, Command, d)
  BY <1>3, <1>4, CommandParsed
<1> HIDE DEF command
<1>8. command.end \in Nat
  BY <1>7 DEF Parsed
<1>9. Parsed(descriptors, command.end, Seq(Descriptor), d)
  BY <1>8, DescriptorLoopParsed
<1> HIDE DEF descriptors
<1>10. Len(d) \in Nat /\ descriptors.end \in Nat
  BY <1>9 DEF Parsed
<1>11. command.end <= Len(d) + 1 /\ descriptors.end <= Len(d) + 1
  BY <1>1, <1>8, <1>10 DEF Within
<1>12. command.val \in Command /\ descriptors.val \in Seq(Descriptor)
  BY <1>7, <1>9, <1>10, <1>11 DEF Parsed
<1>13. x \in SpliceInfoSection
  <2> HIDE DEF x
  <2>1. x = [ encrypted_packet |-> FALSE, encryption_algorithm |-> algorithm,
              pts_adjustment |-> scan_33(d, r + 1), cw_index |-> scan_8(d, r + 6),
              tier |-> scan_12_high(d, r + 7),
              command |-> command.val, descriptors |-> descriptors.val ]
    BY DEF x
  <2> QED
    BY <1>5, <1>6, <1>12, <2>1 DEF SpliceInfoSection
<1> QED
  BY <1>1, <1>13

-----------------------------------------------------------------------------
(* packets *)

LEMMA WithoutType ==
  ASSUME NEW s \in Seq(Byte), NEW lost \in Nat
  PROVE  Without(lost, s) \in Seq(Byte)
<1>1. Len(s) \in Nat
  OBVIOUS
<1>2. CASE lost <= Len(s)
  <2>1. Len(s) - lost \in Nat /\ Len(s) - lost <= Len(s) /\ 1 \in Nat \ {0}
    BY <1>1, <1>2
  <2> QED
    BY <2>1, SubSeqType DEF Without
<1>3. CASE ~ (lost <= Len(s))
  <2> DEFINE n == Len(s) - lost
  <2>1. n \in Int /\ n < 0
    BY <1>1, <1>3
  <2> HIDE DEF n
  <2>2. SubSeq(s, 1, n) = << >>
    BY <2>1
  <2>3. << >> \in Seq(Byte)
    OBVIOUS
  <2> QED
    BY <2>2, <2>3 DEF Without, n
<1> QED
  BY <1>2, <1>3

LEMMA VideoBytesType ==
  ASSUME NEW v \in VideoPacket
  PROVE  VideoBytes(v) \in Seq(Byte)
<1>1. v.units \in Seq(Seq(Byte)) /\ v.lost \in Nat
  BY PacketsAssumption
<1>2. Each(emit_avcc_nalu, v.units) \in Seq(Byte)
  BY <1>1, NalusType
<1> QED
  BY <1>1, <1>2, WithoutType DEF VideoBytes

LEMMA SpliceBytesType ==
  ASSUME NEW s \in SplicePacket
  PROVE  SpliceBytes(s) \in Seq(Byte)
<1> DEFINE pointer == IF s.pointer THEN << 0 >> ELSE << >>
           sections == FlattenSeq(s.bytes)
<1>1. s.bytes \in Seq(Seq(Byte)) /\ s.lost \in Nat
  BY PacketsAssumption
<1>2. sections \in Seq(Byte)
  BY <1>1, FlattenType
<1>3. pointer \in Seq(Byte)
  <2>1. << >> \in Seq(Byte)
    OBVIOUS
  <2>2. 0 \in Byte
    BY ByteIs
  <2>3. << 0 >> \in Seq(Byte)
    BY <2>2, OnlyOne
  <2> QED
    BY <2>1, <2>3
<1> HIDE DEF pointer, sections
<1>4. pointer \o sections \in Seq(Byte)
  BY <1>2, <1>3, ConcatType
<1>5. Without(s.lost, pointer \o sections) \in Seq(Byte)
  BY <1>1, <1>4, WithoutType
<1> QED
  BY <1>5 DEF SpliceBytes, pointer, sections

-----------------------------------------------------------------------------
(* the inductive invariant *)

\* Nothing is left of the packet before.
NothingLeft ==
  task = "none" =>
    /\ found = << >> /\ packet = << >> /\ cursor = 1 /\ units = << >> /\ unit = NoUnit
    /\ rounds = 0 /\ pushed = << >> /\ outcome = "none"

\* Every round has taken a byte from the packet, and what is left of the unit
\* has already been taken from it.
RoundsPaid ==
  outcome = "none" => rounds + (Len(unit.sodb) + 1 - unit.cursor) <= cursor - 1

IInv == TypeOK /\ NothingLeft /\ RoundsPaid

LEMMA InitInv ==
  Init => IInv
<1> SUFFICES ASSUME Init PROVE IInv
  OBVIOUS
<1>1. /\ build \in Build /\ task = "none" /\ found = << >> /\ packet = << >> /\ cursor = 1
      /\ units = << >> /\ unit = NoUnit /\ rounds = 0 /\ pushed = << >> /\ outcome = "none"
  BY DEF Init
<1>2. \A S : << >> \in Seq(S)
  OBVIOUS
<1>3. NoUnit.sodb = << >> /\ NoUnit.cursor = 1 /\ NoUnit \in [ sodb : Seq(Byte), cursor : Nat ]
  BY DEF NoUnit
<1>4. Len(<< >>) = 0 /\ 1 \in 1 .. Len(<< >>) + 1
  OBVIOUS
<1>5. TypeOK
  BY <1>1, <1>2, <1>3, <1>4 DEF TypeOK
<1>6. NothingLeft
  BY <1>1 DEF NothingLeft
<1>7. RoundsPaid
  BY <1>1, <1>3, <1>4 DEF RoundsPaid
<1> QED
  BY <1>5, <1>6, <1>7 DEF IInv

LEMMA ReceiveInv ==
  ASSUME IInv, NEW what \in {"inject", "extract", "splice"}, NEW p, NEW bytes \in Seq(Byte),
         NEW metadata \in Seq(SeiPayload), Receive(what, p, bytes, metadata)
  PROVE  IInv'
<1>1. /\ task' = what /\ packet' = bytes /\ found' = metadata
      /\ build' = build /\ cursor' = cursor /\ units' = units /\ unit' = unit
      /\ rounds' = rounds /\ pushed' = pushed /\ outcome' = outcome
  BY DEF Receive
<1>2. cursor = 1 /\ pushed = << >> /\ outcome = "none" /\ Len(bytes) \in Nat
  BY DEF IInv, NothingLeft, Receive
<1>3. \A S : << >> \in Seq(S)
  OBVIOUS
<1>4. cursor' \in 1 .. Len(packet') + 1
  BY <1>1, <1>2
<1>5. /\ build \in Build /\ units \in Seq(Seq(Byte)) /\ unit \in [ sodb : Seq(Byte), cursor : Nat ]
      /\ unit.cursor \in 1 .. Len(unit.sodb) + 1 /\ rounds \in Nat
  BY DEF IInv, TypeOK
<1>6. TypeOK'
  BY <1>1, <1>2, <1>3, <1>4, <1>5 DEF TypeOK
<1>7. NothingLeft'
  BY <1>1 DEF NothingLeft
<1>8. RoundsPaid'
  BY <1>1 DEF IInv, RoundsPaid
<1> QED
  BY <1>6, <1>7, <1>8 DEF IInv

LEMMA PassInv ==
  ASSUME IInv, Pass
  PROVE  IInv'
<1>1. /\ build' = build /\ task' = "none" /\ found' = << >> /\ packet' = << >> /\ cursor' = 1
      /\ units' = << >> /\ unit' = NoUnit /\ rounds' = 0 /\ pushed' = << >> /\ outcome' = "none"
  BY DEF Pass
<1>2. \A S : << >> \in Seq(S)
  OBVIOUS
<1>3. NoUnit.sodb = << >> /\ NoUnit.cursor = 1 /\ NoUnit \in [ sodb : Seq(Byte), cursor : Nat ]
  BY DEF NoUnit
<1>4. Len(<< >>) = 0 /\ 1 \in 1 .. Len(<< >>) + 1
  OBVIOUS
<1>5. TypeOK'
  <2>1. build \in Build
    BY DEF IInv, TypeOK
  <2> QED
    BY <1>1, <1>2, <1>3, <1>4, <2>1 DEF TypeOK
<1>6. NothingLeft'
  BY <1>1 DEF NothingLeft
<1>7. RoundsPaid'
  BY <1>1, <1>3, <1>4 DEF RoundsPaid
<1> QED
  BY <1>5, <1>6, <1>7 DEF IInv

\* However process ends: only when it ended well may the packet be another.
LEMMA EndInv ==
  ASSUME IInv, task # "none", NEW how \in {"ok", "parse error", "thrown"}, End(how),
         packet' \in Seq(Byte), how # "ok" => packet' = packet, outcome = "none"
  PROVE  IInv'
<1>1. /\ outcome' = how /\ build' = build /\ task' = task /\ found' = found /\ cursor' = cursor
      /\ units' = units /\ unit' = unit /\ rounds' = rounds /\ pushed' = pushed
  BY DEF End
<1>2. Pushed' = Pushed
  BY <1>1 DEF Pushed
<1>3. TypeOK
  BY DEF IInv
<1>4. outcome' # "ok" => cursor' \in 1 .. Len(packet') + 1
  BY <1>1, <1>3 DEF TypeOK
<1>5. TypeOK'
  BY <1>1, <1>2, <1>3, <1>4 DEF TypeOK
<1>6. NothingLeft' /\ RoundsPaid'
  BY <1>1 DEF NothingLeft, RoundsPaid
<1> QED
  BY <1>5, <1>6 DEF IInv

\* However a loop goes round: the task stays what it is.
LEMMA RoundInv ==
  ASSUME IInv, task # "none", outcome = "none",
         UNCHANGED << build, task, found, packet, outcome >>,
         units' \in Seq(Seq(Byte)), unit' \in [ sodb : Seq(Byte), cursor : Nat ],
         unit'.cursor \in 1 .. Len(unit'.sodb) + 1,
         cursor' \in 1 .. Len(packet) + 1, rounds' = rounds + 1,
         pushed' \in Seq(Pushed),
         rounds + 1 + (Len(unit'.sodb) + 1 - unit'.cursor) <= cursor' - 1
  PROVE  IInv'
<1>1. Pushed' = Pushed
  BY DEF Pushed
<1>2. TypeOK /\ rounds' \in Nat
  BY DEF IInv, TypeOK
<1>3. TypeOK'
  BY <1>1, <1>2 DEF TypeOK
<1>4. NothingLeft' /\ RoundsPaid'
  BY DEF NothingLeft, RoundsPaid
<1> QED
  BY <1>3, <1>4 DEF IInv

\* what the invariant says while a processor works
LEMMA WhileWorking ==
  ASSUME IInv, outcome = "none"
  PROVE  /\ packet \in Seq(Byte) /\ Len(packet) \in Nat /\ units \in Seq(Seq(Byte))
         /\ unit \in [ sodb : Seq(Byte), cursor : Nat ] /\ Len(unit.sodb) \in Nat
         /\ unit.cursor \in 1 .. Len(unit.sodb) + 1
         /\ unit.sodb \in Seq(Byte) /\ unit.cursor \in Nat
         /\ cursor \in Nat \ {0} /\ cursor <= Len(packet) + 1
         /\ rounds \in Nat /\ pushed \in Seq(Pushed)
         /\ rounds + (Len(unit.sodb) + 1 - unit.cursor) <= cursor - 1
<1>1. TypeOK /\ RoundsPaid
  BY DEF IInv
<1>2. /\ packet \in Seq(Byte) /\ units \in Seq(Seq(Byte))
      /\ unit \in [ sodb : Seq(Byte), cursor : Nat ]
      /\ unit.cursor \in 1 .. Len(unit.sodb) + 1
      /\ cursor \in 1 .. Len(packet) + 1
      /\ rounds \in Nat /\ pushed \in Seq(Pushed)
  BY <1>1 DEF TypeOK
<1>3. Len(packet) \in Nat /\ unit.sodb \in Seq(Byte) /\ unit.cursor \in Nat
  BY <1>2
<1>4. Len(unit.sodb) \in Nat
  BY <1>3
<1>5. cursor \in Nat \ {0} /\ cursor <= Len(packet) + 1
  BY <1>2, <1>3
<1>6. rounds + (Len(unit.sodb) + 1 - unit.cursor) <= cursor - 1
  BY <1>1 DEF RoundsPaid
<1> QED
  BY <1>2, <1>3, <1>4, <1>5, <1>6

-----------------------------------------------------------------------------
(* SeiInjector::process *)

LEMMA CollectInv ==
  ASSUME IInv, Collect
  PROVE  IInv'
<1> DEFINE b == next_avcc_bounds(packet, cursor)
           nalu == SubSeq(packet, b.first, b.last)
<1>1. /\ task = "inject" /\ outcome = "none"
      /\ IF b = Malformed
         THEN End("parse error") /\ UNCHANGED packet
         ELSE /\ cursor' = b.last + 1 /\ rounds' = rounds + 1
              /\ units' = IF is_valid(nalu) THEN Append(units, nalu) ELSE units
              /\ UNCHANGED << build, task, sent, found, packet, unit, pushed, outcome >>
  BY DEF Collect, Working
<1>2. /\ packet \in Seq(Byte) /\ Len(packet) \in Nat /\ units \in Seq(Seq(Byte))
      /\ unit \in [ sodb : Seq(Byte), cursor : Nat ] /\ Len(unit.sodb) \in Nat
      /\ unit.cursor \in 1 .. Len(unit.sodb) + 1
      /\ unit.sodb \in Seq(Byte) /\ unit.cursor \in Nat
      /\ cursor \in Nat \ {0} /\ cursor <= Len(packet) + 1
      /\ rounds \in Nat /\ pushed \in Seq(Pushed)
      /\ rounds + (Len(unit.sodb) + 1 - unit.cursor) <= cursor - 1
  BY <1>1, WhileWorking
<1>3. CASE b = Malformed
  <2>1. End("parse error") /\ packet' = packet
    BY <1>1, <1>3
  <2> HIDE DEF b
  <2> QED
    BY <1>1, <1>2, <2>1, EndInv
<1>4. CASE b # Malformed
  <2>1. b.last \in Nat /\ b.last >= cursor + 4 /\ b.last <= Len(packet) /\ nalu \in Seq(Byte)
    BY <1>2, <1>4, NextNalu
  <2>2. /\ cursor' = b.last + 1 /\ rounds' = rounds + 1
        /\ units' = IF is_valid(nalu) THEN Append(units, nalu) ELSE units
        /\ UNCHANGED << build, task, sent, found, packet, unit, pushed, outcome >>
    BY <1>1, <1>4
  <2> HIDE DEF b, nalu
  <2>3. units' \in Seq(Seq(Byte))
    <3> DEFINE S == Seq(Byte)
    <3>1. units \in Seq(S) /\ nalu \in S
      BY <1>2, <2>1
    <3> HIDE DEF S
    <3>2. units' \in Seq(S)
      BY <2>2, <3>1
    <3> QED
      BY <3>2 DEF S
  <2>4. cursor' \in 1 .. Len(packet) + 1
    <3>1. Len(packet) \in Nat
      BY <1>2
    <3> QED
      BY <2>1, <2>2, <3>1
  <2>5. unit' = unit /\ pushed' \in Seq(Pushed)
    BY <1>2, <2>2
  <2>6. rounds + 1 + (Len(unit.sodb) + 1 - unit.cursor) <= cursor' - 1
    <3> DEFINE left == Len(unit.sodb) + 1 - unit.cursor
    <3>1. left \in Int
      BY <1>2
    <3>2. rounds + left <= cursor - 1 /\ cursor \in Nat /\ rounds \in Nat
      BY <1>2
    <3>3. b.last \in Nat /\ b.last >= cursor + 4 /\ cursor' = b.last + 1
      BY <2>1, <2>2
    <3> HIDE DEF left
    <3>4. rounds + 1 + left <= cursor' - 1
      BY <3>1, <3>2, <3>3
    <3> QED
      BY <3>4 DEF left
  <2>7. task # "none"
    BY <1>1
  <2> QED
    BY <1>1, <1>2, <2>2, <2>3, <2>4, <2>5, <2>6, <2>7, RoundInv
<1> QED
  BY <1>3, <1>4

LEMMA InjectedType ==
  ASSUME NEW us \in Seq(Seq(Byte)), NEW metadata \in Seq(SeiPayload),
         Old(us) = 1 => HasStopBit(First(us)) /\ Messages(First(us)) # None
  PROVE  (IF Old(us) = 1 THEN strip_cc(First(us)) ELSE << >>) \o metadata \in Seq(SeiPayload)
<1> DEFINE kept == IF Old(us) = 1 THEN strip_cc(First(us)) ELSE << >>
<1>1. CASE Old(us) = 1
  <2>1. strip_cc(First(us)) \in Seq(SeiPayload)
    BY <1>1, OldIsThere, StrippedType
  <2> QED
    BY <1>1, <2>1, ConcatType
<1>2. CASE Old(us) # 1
  <2>1. << >> \in Seq(SeiPayload)
    OBVIOUS
  <2> QED
    BY <1>2, <2>1, ConcatType
<1> QED
  BY <1>1, <1>2

LEMMA RewriteInv ==
  ASSUME IInv, Rewrite
  PROVE  IInv'
<1>1. /\ task = "inject" /\ outcome = "none" /\ End("ok")
      /\ packet' = Rewritten(units, Injected)
      /\ Old(units) = 1 => HasStopBit(First(units)) /\ Messages(First(units)) # None
  BY DEF Rewrite, Collected, Working
<1>2. units \in Seq(Seq(Byte)) /\ found \in Seq(SeiPayload)
  BY DEF IInv, TypeOK
<1>3. Injected \in Seq(SeiPayload)
  BY <1>1, <1>2, InjectedType DEF Injected
<1>4. packet' \in Seq(Byte)
  BY <1>1, <1>2, <1>3, RewrittenType
<1> QED
  BY <1>1, <1>4, EndInv

LEMMA StripFailsInv ==
  ASSUME IInv, StripFails
  PROVE  IInv'
<1> DEFINE how == IF HasStopBit(First(units)) THEN "parse error" ELSE "thrown"
<1>1. task = "inject" /\ outcome = "none" /\ packet' = packet /\ End(how)
  BY DEF StripFails, Collected, Working
<1>2. how \in {"ok", "parse error", "thrown"} /\ task # "none"
  BY <1>1
<1>3. packet \in Seq(Byte)
  BY DEF IInv, TypeOK
<1> HIDE DEF how
<1> QED
  BY <1>1, <1>2, <1>3, EndInv

-----------------------------------------------------------------------------
(* SeiExtractor::process *)

LEMMA ReadUnitInv ==
  ASSUME IInv, ReadUnit
  PROVE  IInv'
<1> DEFINE b == next_avcc_bounds(packet, cursor)
           nalu == SubSeq(packet, b.first, b.last)
           isSei == is_valid(nalu) /\ NaluType(nalu) = SEI
<1>1. /\ task = "extract" /\ outcome = "none" /\ packet' = packet /\ ~ InUnit
      /\ IF b = Malformed THEN End("parse error")
         ELSE IF isSei /\ ~ HasStopBit(nalu) THEN End("thrown")
         ELSE /\ cursor' = b.last + 1 /\ rounds' = rounds + 1
              /\ unit' = IF isSei THEN [ sodb |-> copy_ebsp_to_sodb(nalu), cursor |-> 2 ]
                                  ELSE NoUnit
              /\ UNCHANGED << build, task, sent, found, units, pushed, outcome >>
  BY DEF ReadUnit, Working
<1>2. /\ packet \in Seq(Byte) /\ Len(packet) \in Nat /\ units \in Seq(Seq(Byte))
      /\ unit \in [ sodb : Seq(Byte), cursor : Nat ] /\ Len(unit.sodb) \in Nat
      /\ unit.cursor \in 1 .. Len(unit.sodb) + 1
      /\ unit.sodb \in Seq(Byte) /\ unit.cursor \in Nat
      /\ cursor \in Nat \ {0} /\ cursor <= Len(packet) + 1
      /\ rounds \in Nat /\ pushed \in Seq(Pushed)
      /\ rounds + (Len(unit.sodb) + 1 - unit.cursor) <= cursor - 1
  BY <1>1, WhileWorking
<1>3. CASE b = Malformed
  <2>1. End("parse error")
    BY <1>1, <1>3
  <2> HIDE DEF b
  <2> QED
    BY <1>1, <1>2, <2>1, EndInv
<1>4. CASE b # Malformed /\ isSei /\ ~ HasStopBit(nalu)
  <2>1. End("thrown")
    BY <1>1, <1>4
  <2> HIDE DEF b
  <2> QED
    BY <1>1, <1>2, <2>1, EndInv
<1>5. CASE b # Malformed /\ (isSei => HasStopBit(nalu))
  <2>1. /\ b.last \in Nat /\ b.last >= cursor + 4 /\ b.last <= Len(packet)
        /\ nalu \in Seq(Byte) /\ Len(nalu) = b.last - cursor - 3
    BY <1>2, <1>5, NextNalu
  <2>2. /\ cursor' = b.last + 1 /\ rounds' = rounds + 1
        /\ unit' = IF isSei THEN [ sodb |-> copy_ebsp_to_sodb(nalu), cursor |-> 2 ]
                            ELSE NoUnit
        /\ UNCHANGED << build, task, sent, found, units, pushed, outcome >>
    BY <1>1, <1>5
\* all that was left of the last unit is nothing
  <2>3. rounds <= cursor - 1
    <3> DEFINE n == Len(unit.sodb)
               c == unit.cursor
    <3>1. n \in Nat /\ c \in Nat /\ c \in 1 .. n + 1 /\ ~ (c <= n) /\ rounds + (n + 1 - c) <= cursor - 1
      BY <1>1, <1>2 DEF InUnit
    <3> HIDE DEF n, c
    <3> QED
      BY <1>2, <3>1
  <2>4. cursor' \in 1 .. Len(packet) + 1
    <3>1. Len(packet) \in Nat
      BY <1>2
    <3> HIDE DEF b
    <3> QED
      BY <2>1, <2>2, <3>1
  <2>5. /\ unit' \in [ sodb : Seq(Byte), cursor : Nat ]
        /\ unit'.cursor \in 1 .. Len(unit'.sodb) + 1
        /\ rounds + 1 + (Len(unit'.sodb) + 1 - unit'.cursor) <= cursor' - 1
    <3>1. CASE isSei
      <4> DEFINE d == copy_ebsp_to_sodb(nalu)
      <4>1. d \in Seq(Byte) /\ Len(d) <= Len(nalu) /\ Len(d) >= 1
        BY <1>5, <2>1, <3>1, SodbType
      <4>2. unit' = [ sodb |-> d, cursor |-> 2 ]
        BY <2>2, <3>1
      <4> HIDE DEF d, b, nalu, isSei
      <4>3. Len(d) \in Nat
        BY <4>1
      <4>4. unit'.sodb = d /\ unit'.cursor = 2 /\ unit' \in [ sodb : Seq(Byte), cursor : Nat ]
        BY <4>1, <4>2
      <4> DEFINE n == Len(d)
      <4>5. n \in Nat /\ n >= 1 /\ n <= b.last - cursor - 3
        BY <2>1, <4>1, <4>3
      <4> HIDE DEF n
      <4>6. 2 \in 1 .. n + 1
        BY <4>5
      <4>7. rounds + 1 + (n + 1 - 2) <= cursor' - 1
        <5>1. cursor' = b.last + 1 /\ b.last \in Nat /\ cursor \in Nat /\ rounds \in Nat
          BY <1>2, <2>1, <2>2
        <5> QED
          BY <2>3, <4>5, <5>1
      <4> QED
        BY <4>4, <4>6, <4>7 DEF n
    <3>2. CASE ~ isSei
      <4>1. unit' = NoUnit
        BY <2>2, <3>2
      <4>2. unit'.sodb = << >> /\ unit'.cursor = 1 /\ unit' \in [ sodb : Seq(Byte), cursor : Nat ]
        BY <4>1 DEF NoUnit
      <4> HIDE DEF b, nalu, isSei
      <4>3. Len(<< >>) = 0
        OBVIOUS
      <4>4. 1 \in 1 .. 0 + 1 /\ rounds + 1 + (0 + 1 - 1) <= cursor' - 1
        <5>1. cursor' = b.last + 1 /\ b.last \in Nat /\ b.last >= cursor + 4
          BY <2>1, <2>2
        <5>2. cursor \in Nat /\ rounds \in Nat
          BY <1>2
        <5> QED
          BY <2>3, <5>1, <5>2
      <4> QED
        BY <4>2, <4>3, <4>4
    <3> QED
      BY <3>1, <3>2
  <2> HIDE DEF b, nalu, isSei
  <2>6. task # "none"
    BY <1>1
  <2> QED
    BY <1>1, <1>2, <2>2, <2>4, <2>5, <2>6, RoundInv
<1> QED
  BY <1>3, <1>4, <1>5

LEMMA ReadMessageInv ==
  ASSUME IInv, ReadMessage
  PROVE  IInv'
<1> DEFINE b == sei_parser_next(unit.sodb, unit.cursor)
           sei == [ type |-> b.type, data |-> SubSeq(unit.sodb, b.first, b.last) ]
<1>1. /\ task = "extract" /\ outcome = "none" /\ packet' = packet
      /\ IF b = Malformed THEN End("parse error")
         ELSE /\ rounds' = rounds + 1
              /\ unit' = [ unit EXCEPT !.cursor = b.last + 1 ]
              /\ pushed' = IF NotCC(sei) THEN pushed
                           ELSE Append(pushed, [ order |-> Len(pushed), val |-> sei ])
              /\ UNCHANGED << build, task, sent, found, cursor, units, outcome >>
  BY DEF ReadMessage, Working
<1>2. /\ packet \in Seq(Byte) /\ Len(packet) \in Nat /\ units \in Seq(Seq(Byte))
      /\ unit \in [ sodb : Seq(Byte), cursor : Nat ] /\ Len(unit.sodb) \in Nat
      /\ unit.cursor \in 1 .. Len(unit.sodb) + 1
      /\ unit.sodb \in Seq(Byte) /\ unit.cursor \in Nat
      /\ cursor \in Nat \ {0} /\ cursor <= Len(packet) + 1
      /\ rounds \in Nat /\ pushed \in Seq(Pushed)
      /\ rounds + (Len(unit.sodb) + 1 - unit.cursor) <= cursor - 1
  BY <1>1, WhileWorking
<1>3. CASE b = Malformed
  <2>1. End("parse error")
    BY <1>1, <1>3
  <2> HIDE DEF b
  <2> QED
    BY <1>1, <1>2, <2>1, EndInv
<1>4. CASE b # Malformed
  <2>1. b.last \in Nat /\ b.last >= unit.cursor + 1 /\ b.last <= Len(unit.sodb) /\ sei \in SeiPayload
    BY <1>2, <1>4, NextMessage
  <2>2. /\ rounds' = rounds + 1
        /\ unit' = [ unit EXCEPT !.cursor = b.last + 1 ]
        /\ pushed' = IF NotCC(sei) THEN pushed
                     ELSE Append(pushed, [ order |-> Len(pushed), val |-> sei ])
        /\ UNCHANGED << build, task, sent, found, cursor, units, outcome >>
    BY <1>1, <1>4
  <2> HIDE DEF b, sei
  <2>3. pushed' \in Seq(Pushed)
    <3> DEFINE x == [ order |-> Len(pushed), val |-> sei ]
    <3>1. Len(pushed) \in Nat
      BY <1>2
    <3>2. x \in Pushed
      BY <1>1, <2>1, <3>1 DEF Pushed
    <3> HIDE DEF x
    <3>3. Append(pushed, x) \in Seq(Pushed)
      BY <1>2, <3>2
    <3> QED
      BY <1>2, <2>2, <3>3 DEF x
  <2>4. unit'.sodb = unit.sodb /\ unit'.cursor = b.last + 1 /\ unit' \in [ sodb : Seq(Byte), cursor : Nat ]
    <3> DEFINE c == b.last + 1
    <3>1. unit' = [ unit EXCEPT !.cursor = c ]
      BY <2>2
    <3>2. c \in Nat
      BY <2>1
    <3> HIDE DEF c
    <3>3. unit'.sodb = unit.sodb /\ unit'.cursor = c /\ unit' \in [ sodb : Seq(Byte), cursor : Nat ]
      BY <1>2, <3>1, <3>2
    <3> QED
      BY <3>3 DEF c
  <2>5. /\ unit'.cursor \in 1 .. Len(unit'.sodb) + 1
        /\ rounds + 1 + (Len(unit'.sodb) + 1 - unit'.cursor) <= cursor - 1
    <3>1. Len(unit.sodb) \in Nat
      BY <1>2
    <3> DEFINE n == Len(unit.sodb)
               c == unit.cursor
    <3>2. n \in Nat /\ c \in Nat /\ b.last >= c + 1 /\ b.last <= n /\ rounds + (n + 1 - c) <= cursor - 1
      BY <1>2, <2>1, <3>1
    <3> HIDE DEF n, c
    <3>3. cursor \in Nat /\ rounds \in Nat /\ b.last \in Nat
      BY <1>2, <2>1
    <3>4. b.last + 1 \in 1 .. n + 1
      BY <3>2, <3>3
    <3>5. rounds + 1 + (n + 1 - (b.last + 1)) <= cursor - 1
      BY <3>2, <3>3
    <3> QED
      BY <2>4, <3>4, <3>5 DEF n
  <2>6. /\ task # "none" /\ outcome = "none" /\ UNCHANGED << build, task, found, packet, outcome >>
        /\ units' \in Seq(Seq(Byte)) /\ rounds' = rounds + 1 /\ cursor' = cursor
    BY <1>1, <1>2, <2>2
  <2>7. cursor' \in 1 .. Len(packet) + 1 /\ cursor' - 1 = cursor - 1
    BY <1>2, <2>6
  <2>8. rounds + 1 + (Len(unit'.sodb) + 1 - unit'.cursor) <= cursor' - 1
    BY <2>5, <2>7
  <2> QED
    BY <2>3, <2>4, <2>5, <2>6, <2>7, <2>8, RoundInv
<1> QED
  BY <1>3, <1>4

-----------------------------------------------------------------------------
(* ScteExtractor::process *)

LEMMA ReadSectionInv ==
  ASSUME IInv, ReadSection
  PROVE  IInv'
<1> DEFINE b == scte35_parser_next(packet, cursor)
           section == scte35_parser_pack(packet, b.start, b.last, build)
           throws == b # None /\ section_throws(packet, b.start, b.last, build)
<1>1. /\ task = "splice" /\ outcome = "none" /\ packet' = packet /\ cursor <= Len(packet)
      /\ IF b = None \/ section = None THEN End(IF throws THEN "thrown" ELSE "parse error")
         ELSE /\ cursor' = b.last + 1 /\ rounds' = rounds + 1
              /\ pushed' = Append(pushed, section)
              /\ UNCHANGED << build, task, sent, found, units, unit, outcome >>
  BY DEF ReadSection, Working
<1>2. /\ packet \in Seq(Byte) /\ Len(packet) \in Nat /\ units \in Seq(Seq(Byte))
      /\ unit \in [ sodb : Seq(Byte), cursor : Nat ] /\ Len(unit.sodb) \in Nat
      /\ unit.cursor \in 1 .. Len(unit.sodb) + 1
      /\ unit.sodb \in Seq(Byte) /\ unit.cursor \in Nat
      /\ cursor \in Nat \ {0} /\ cursor <= Len(packet) + 1
      /\ rounds \in Nat /\ pushed \in Seq(Pushed)
      /\ rounds + (Len(unit.sodb) + 1 - unit.cursor) <= cursor - 1
  BY <1>1, WhileWorking
<1>3. CASE b = None \/ section = None
  <2>1. End(IF throws THEN "thrown" ELSE "parse error")
    BY <1>1, <1>3
  <2> HIDE DEF b, section, throws
  <2> QED
    BY <1>1, <1>2, <2>1, EndInv
<1>4. CASE b # None /\ section # None
  <2>1. b.start \in Nat \ {0} /\ b.last \in Nat /\ b.last >= cursor /\ b.last <= Len(packet)
    BY <1>2, <1>4, NextSection DEF scte35_parser_next
  <2>2. /\ cursor' = b.last + 1 /\ rounds' = rounds + 1
        /\ pushed' = Append(pushed, section)
        /\ UNCHANGED << build, task, sent, found, units, unit, outcome >>
    BY <1>1, <1>4
  <2> HIDE DEF b
  <2>3. section \in Pushed
    BY <1>1, <1>2, <1>4, <2>1, SectionType DEF Pushed
  <2> HIDE DEF section
  <2>4. pushed' \in Seq(Pushed)
    BY <1>2, <2>2, <2>3
  <2>5. /\ task # "none" /\ UNCHANGED << build, task, found, packet, outcome >>
        /\ units' \in Seq(Seq(Byte)) /\ rounds' = rounds + 1 /\ unit' = unit
    BY <1>1, <1>2, <2>2
  <2>6. cursor' \in 1 .. Len(packet) + 1
    <3>1. cursor' = b.last + 1 /\ b.last \in Nat /\ b.last <= Len(packet) /\ Len(packet) \in Nat
      BY <1>2, <2>1, <2>2
    <3> QED
      BY <3>1
  <2>7. rounds + 1 + (Len(unit.sodb) + 1 - unit.cursor) <= cursor' - 1
    <3> DEFINE left == Len(unit.sodb) + 1 - unit.cursor
    <3>1. left \in Int
      BY <1>2
    <3>2. rounds + left <= cursor - 1 /\ cursor \in Nat /\ rounds \in Nat
      BY <1>2
    <3>3. b.last \in Nat /\ b.last >= cursor /\ cursor' = b.last + 1
      BY <2>1, <2>2
    <3> HIDE DEF left
    <3>4. rounds + 1 + left <= cursor' - 1
      BY <3>1, <3>2, <3>3
    <3> QED
      BY <3>4 DEF left
  <2>8. /\ unit' \in [ sodb : Seq(Byte), cursor : Nat ] /\ unit'.cursor \in 1 .. Len(unit'.sodb) + 1
        /\ rounds + 1 + (Len(unit'.sodb) + 1 - unit'.cursor) <= cursor' - 1
    BY <1>2, <2>5, <2>7
  <2> QED
    BY <1>1, <2>4, <2>5, <2>6, <2>8, RoundInv
<1> QED
  BY <1>3, <1>4

LEMMA AllReadInv ==
  ASSUME IInv, AllRead
  PROVE  IInv'
<1>1. task # "none" /\ outcome = "none" /\ End("ok") /\ packet' = packet
  BY DEF AllRead, Working
<1>2. packet \in Seq(Byte)
  BY DEF IInv, TypeOK
<1> QED
  BY <1>1, <1>2, EndInv

-----------------------------------------------------------------------------
(* the theorems *)

LEMMA StepInv ==
  ASSUME IInv, [Next]_vars
  PROVE  IInv'
<1>1. CASE \E v \in VideoPacket, m \in Metadata : Receive("inject", v, VideoBytes(v), m)
  <2>1. PICK v \in VideoPacket, m \in Metadata : Receive("inject", v, VideoBytes(v), m)
    BY <1>1
  <2>2. m \in Seq(SeiPayload) /\ VideoBytes(v) \in Seq(Byte)
    BY PacketsAssumption, VideoBytesType
  <2> QED
    BY <2>1, <2>2, ReceiveInv
<1>2. CASE \E v \in VideoPacket : Receive("extract", v, VideoBytes(v), << >>)
  <2>1. PICK v \in VideoPacket : Receive("extract", v, VideoBytes(v), << >>)
    BY <1>2
  <2>2. << >> \in Seq(SeiPayload) /\ VideoBytes(v) \in Seq(Byte)
    BY VideoBytesType
  <2> QED
    BY <2>1, <2>2, ReceiveInv
<1>3. CASE \E s \in SplicePacket : Receive("splice", s, SpliceBytes(s), << >>)
  <2>1. PICK s \in SplicePacket : Receive("splice", s, SpliceBytes(s), << >>)
    BY <1>3
  <2>2. << >> \in Seq(SeiPayload) /\ SpliceBytes(s) \in Seq(Byte)
    BY SpliceBytesType
  <2> QED
    BY <2>1, <2>2, ReceiveInv
<1>4. CASE Process
  BY <1>4, CollectInv, RewriteInv, StripFailsInv, ReadUnitInv, ReadMessageInv, ReadSectionInv,
     AllReadInv DEF Process
<1>5. CASE Pass
  BY <1>5, PassInv
<1>6. CASE UNCHANGED vars
  BY <1>6 DEF vars, IInv, TypeOK, NothingLeft, RoundsPaid, Pushed
<1> QED
  BY <1>1, <1>2, <1>3, <1>4, <1>5, <1>6 DEF Next

THEOREM Invariant == Spec => []IInv
BY InitInv, StepInv, PTL DEF Spec

\* Whatever the bytes of a packet are, damaged or not: the cursors of the
\* parsers (binary_parser_util.h) never leave the data, what the injector
\* writes is bytes, and the extractors push nothing to the queue but whole
\* captions and splice info sections with all their parts in range.
THEOREM TypeCorrect == Spec => []TypeOK
BY Invariant, PTL DEF IInv

\* The loops of SeiInjector::process, SeiExtractor::process and
\* ScteExtractor::process take a byte of the packet in every round, whatever
\* its lengths say: none of them goes on for longer than there are bytes.
THEOREM EveryRoundTakesAByte == Spec => []LoopsAdvance
<1>1. IInv => LoopsAdvance
  <2> SUFFICES ASSUME IInv, outcome = "none" PROVE rounds <= Len(packet)
    BY DEF LoopsAdvance
  <2> DEFINE n == Len(unit.sodb)
             c == unit.cursor
             N == Len(packet)
  <2>1. /\ n \in Nat /\ c \in Nat /\ c \in 1 .. n + 1 /\ N \in Nat
        /\ cursor \in Nat /\ cursor <= N + 1 /\ rounds \in Nat
        /\ rounds + (n + 1 - c) <= cursor - 1
    BY WhileWorking
  <2> HIDE DEF n, c, N
  <2>2. rounds <= N
    BY <2>1
  <2> QED
    BY <2>2 DEF N
<1> QED
  BY <1>1, Invariant, PTL

-----------------------------------------------------------------------------
(* units that are written and read again *)

Nalu == { u \in Seq(Byte) : u # << >> /\ Len(u) <= MAX_LENGTH }
Emit == [ u \in Nalu |-> emit_avcc_nalu(u) ]
Written(us) == FlatMap(Emit, us)

LEMMA ConcatAt ==
  ASSUME NEW S, NEW s \in Seq(S), NEW t \in Seq(S)
  PROVE  /\ Len(s \o t) = Len(s) + Len(t)
         /\ \A i \in 1 .. Len(s) + Len(t) : (s \o t)[i] = IF i <= Len(s) THEN s[i] ELSE t[i - Len(s)]
BY ConcatProperties

LEMMA TwoAndTwo ==
  ASSUME NEW a \in Nat, NEW b \in Nat, NEW c \in Nat, NEW d \in Nat
  PROVE  << a, b >> \o << c, d >> = << a, b, c, d >>
<1> DEFINE x == << a, b >>
           y == << c, d >>
           z == << a, b, c, d >>
<1>1. x \in Seq(Nat) /\ y \in Seq(Nat) /\ z \in Seq(Nat) /\ Len(x) = 2 /\ Len(y) = 2 /\ Len(z) = 4
  OBVIOUS
<1>2. x[1] = a /\ x[2] = b /\ y[1] = c /\ y[2] = d /\ z[1] = a /\ z[2] = b /\ z[3] = c /\ z[4] = d
  OBVIOUS
<1> HIDE DEF x, y, z
<1>3. x \o y \in Seq(Nat) /\ Len(x \o y) = 4 /\ \A i \in 1 .. 4 : (x \o y)[i] = IF i <= 2 THEN x[i] ELSE y[i - 2]
  <2>1. /\ x \o y \in Seq(Nat) /\ Len(x \o y) = Len(x) + Len(y)
        /\ \A i \in 1 .. Len(x) + Len(y) : (x \o y)[i] = IF i <= Len(x) THEN x[i] ELSE y[i - Len(x)]
    BY <1>1, ConcatProperties
  <2> QED
    BY <1>1, <2>1
<1>4. ASSUME NEW i \in 1 .. 4 PROVE (x \o y)[i] = z[i]
  <2>1. i = 1 \/ i = 2 \/ i = 3 \/ i = 4
    OBVIOUS
  <2>2. (x \o y)[i] = IF i <= 2 THEN x[i] ELSE y[i - 2]
    BY <1>3
  <2>3. CASE i <= 2
    BY <1>2, <2>1, <2>2, <2>3
  <2>4. CASE ~ (i <= 2)
    <3>1. (i - 2 = 1 /\ i = 3) \/ (i - 2 = 2 /\ i = 4)
      BY <2>1, <2>4
    <3> QED
      BY <1>2, <2>2, <2>4, <3>1
  <2> QED
    BY <2>3, <2>4
<1> QED
  BY <1>1, <1>3, <1>4, SeqEqual DEF x, y, z

\* The length of a unit in its four bytes.
LEMMA LengthBytes ==
  ASSUME NEW n \in Nat, n <= MAX_LENGTH
  PROVE  \E a, b, c \in Nat : /\ emit_nalu_length(n) = << 0, a, b, c >>
                              /\ a * 65536 + (b * 256 + c) = n
<1> DEFINE m == n % 65536
           a == n \div 65536
           b == m \div 256
           c == m % 256
<1>1. n < 16777216
  BY DEF MAX_LENGTH
<1>2. a \in Nat /\ m \in Nat /\ n = a * 65536 + m /\ m < 65536
  BY <1>1
<1>3. a < 256
  <2> HIDE DEF a, m
  <2> QED
    BY <1>1, <1>2
<1> HIDE DEF m
<1>4. b \in Nat /\ c \in Nat /\ m = b * 256 + c /\ c < 256
  BY <1>2
<1>5. b < 256
  <2> HIDE DEF b, c
  <2> QED
    BY <1>2, <1>4
<1> HIDE DEF a, b, c
<1>6. a % 256 = a /\ b % 256 = b
  BY <1>2, <1>3, <1>4, <1>5
<1>7. emit_nalu_length(n) = << 0, a % 256 >> \o << b % 256, c >>
  BY DEF emit_nalu_length, write_16, a, b, c, m
<1>8. emit_nalu_length(n) = << 0, a, b, c >>
  <2>1. << 0, a >> \o << b, c >> = << 0, a, b, c >>
    <3> DEFINE z == 0
    <3>1. z \in Nat
      OBVIOUS
    <3> HIDE DEF z
    <3>2. << z, a >> \o << b, c >> = << z, a, b, c >>
      BY <1>2, <1>4, <3>1, TwoAndTwo
    <3> QED
      BY <3>2 DEF z
  <2> QED
    BY <1>6, <1>7, <2>1
<1>9. a * 65536 + (b * 256 + c) = n
  BY <1>2, <1>4
<1> QED
  BY <1>2, <1>4, <1>8, <1>9

\* A unit behind its length, after anything and before anything, of which the
\* end may have been lost: the parser finds it if all of it is there, and
\* finds it malformed otherwise.
LEMMA UnitIsRead ==
  ASSUME NEW pre \in Seq(Byte), NEW post \in Seq(Byte), NEW u \in Nalu,
         NEW d \in Seq(Byte), NEW E, E = pre \o (emit_avcc_nalu(u) \o post),
         Len(d) <= Len(E), \A i \in 1 .. Len(d) : d[i] = E[i]
  PROVE  LET p == Len(pre) + 1
             q == p + 3 + Len(u)
         IN IF q <= Len(d)
            THEN /\ next_avcc_bounds(d, p) = [ first |-> p + 4, last |-> q ]
                 /\ SubSeq(d, p + 4, q) = u
            ELSE next_avcc_bounds(d, p) = Malformed
<1> DEFINE n == Len(u)
           h == emit_nalu_length(n)
           p == Len(pre) + 1
           N == Len(d)
<1>1. u \in Seq(Byte) /\ n \in Nat /\ n > 0 /\ n <= MAX_LENGTH
  BY DEF Nalu
<1> HIDE DEF n
<1>2. PICK a \in Nat, b \in Nat, c \in Nat : h = << 0, a, b, c >> /\ a * 65536 + (b * 256 + c) = n
  BY <1>1, LengthBytes
<1>3. h \in Seq(Byte)
  BY <1>1, NaluLengthType
<1>4. Len(h) = 4 /\ h[1] = 0 /\ h[2] = a /\ h[3] = b /\ h[4] = c
  BY <1>2
<1>5. emit_avcc_nalu(u) = h \o u
  BY DEF emit_avcc_nalu, n
<1> HIDE DEF h
<1>6. /\ (h \o u) \o post \in Seq(Byte) /\ Len((h \o u) \o post) = 4 + n + Len(post)
      /\ \A i \in 1 .. 4 : ((h \o u) \o post)[i] = h[i]
      /\ \A i \in 1 .. n : ((h \o u) \o post)[4 + i] = u[i]
  <2> DEFINE v == h \o u
  <2>1. v \in Seq(Byte) /\ Len(v) = 4 + n
        /\ \A i \in 1 .. 4 + n : v[i] = IF i <= 4 THEN h[i] ELSE u[i - 4]
    <3>1. /\ v \in Seq(Byte) /\ Len(v) = Len(h) + Len(u)
          /\ \A i \in 1 .. Len(h) + Len(u) : v[i] = IF i <= Len(h) THEN h[i] ELSE u[i - Len(h)]
      BY <1>1, <1>3, ConcatProperties
    <3> QED
      BY <1>4, <3>1 DEF n
  <2> HIDE DEF v
  <2>2. /\ v \o post \in Seq(Byte) /\ Len(v \o post) = 4 + n + Len(post)
        /\ \A i \in 1 .. 4 + n + Len(post) : (v \o post)[i] = IF i <= 4 + n THEN v[i] ELSE post[i - (4 + n)]
    BY <2>1, ConcatProperties
  <2>3. Len(post) \in Nat
    OBVIOUS
  <2>4. \A i \in 1 .. 4 : i \in 1 .. 4 + n + Len(post) /\ i <= 4 + n /\ i \in 1 .. 4 + n /\ i <= 4
    BY <1>1, <2>3
  <2>5. \A i \in 1 .. n : /\ 4 + i \in 1 .. 4 + n + Len(post) /\ 4 + i <= 4 + n
                          /\ 4 + i \in 1 .. 4 + n /\ ~ (4 + i <= 4) /\ (4 + i) - 4 = i
    BY <1>1, <2>3
  <2>6. \A i \in 1 .. 4 : (v \o post)[i] = h[i]
    BY <2>1, <2>2, <2>4
  <2>7. \A i \in 1 .. n : (v \o post)[4 + i] = u[i]
    BY <2>1, <2>2, <2>5
  <2> QED
    BY <2>2, <2>6, <2>7 DEF v
<1> DEFINE w == (h \o u) \o post
<1>7. E = pre \o w
  BY <1>5
<1> HIDE DEF w
<1>8. /\ Len(E) = Len(pre) + Len(w) /\ Len(w) = 4 + n + Len(post)
      /\ \A i \in 1 .. Len(pre) + Len(w) : E[i] = IF i <= Len(pre) THEN pre[i] ELSE w[i - Len(pre)]
  <2>1. w \in Seq(Byte) /\ Len(w) = 4 + n + Len(post)
    BY <1>6 DEF w
  <2>2. /\ Len(pre \o w) = Len(pre) + Len(w)
        /\ \A i \in 1 .. Len(pre) + Len(w) : (pre \o w)[i] = IF i <= Len(pre) THEN pre[i] ELSE w[i - Len(pre)]
    BY <2>1, ConcatAt
  <2> QED
    BY <1>7, <2>1, <2>2
<1>9. p \in Nat \ {0} /\ Len(pre) = p - 1 /\ Len(post) \in Nat /\ N \in Nat
  OBVIOUS
<1>10. \A i \in 1 .. 4 : E[p - 1 + i] = h[i]
  <2>1. \A i \in 1 .. 4 : /\ p - 1 + i \in 1 .. Len(pre) + Len(w) /\ ~ (p - 1 + i <= Len(pre))
                          /\ (p - 1 + i) - Len(pre) = i
    BY <1>1, <1>8, <1>9
  <2>2. \A i \in 1 .. 4 : w[i] = h[i]
    BY <1>6 DEF w
  <2> HIDE DEF p
  <2> QED
    BY <1>8, <2>1, <2>2
<1>11. \A i \in 1 .. n : E[p + 3 + i] = u[i]
  <2>1. \A i \in 1 .. n : /\ p + 3 + i \in 1 .. Len(pre) + Len(w) /\ ~ (p + 3 + i <= Len(pre))
                          /\ (p + 3 + i) - Len(pre) = 4 + i
    BY <1>1, <1>8, <1>9
  <2>2. \A i \in 1 .. n : w[4 + i] = u[i]
    BY <1>6 DEF w
  <2> HIDE DEF p
  <2> QED
    BY <1>8, <2>1, <2>2
<1> HIDE DEF p, N
<1> DEFINE length == scan_8(d, p + 1) * 65536 + scan_16(d, p + 2)
<1>12. p + 3 <= N => scan_8(d, p) = 0 /\ length = n
  <2> SUFFICES ASSUME p + 3 <= N PROVE scan_8(d, p) = 0 /\ length = n
    OBVIOUS
  <2>1. /\ p \in 1 .. N /\ p + 1 \in 1 .. N /\ p + 2 \in 1 .. N /\ p + 3 \in 1 .. N
        /\ p - 1 + 1 = p /\ p - 1 + 2 = p + 1 /\ p - 1 + 3 = p + 2 /\ p - 1 + 4 = p + 3
        /\ p + 2 + 1 = p + 3
    BY <1>9
  <2>2. DOMAIN d = 1 .. N
    BY DEF N
  <2>3. /\ E[p - 1 + 1] = h[1] /\ E[p - 1 + 2] = h[2] /\ E[p - 1 + 3] = h[3] /\ E[p - 1 + 4] = h[4]
    <3>1. 1 \in 1 .. 4 /\ 2 \in 1 .. 4 /\ 3 \in 1 .. 4 /\ 4 \in 1 .. 4
      OBVIOUS
    <3> QED
      BY <1>10, <3>1
  <2>4. d[p] = 0 /\ d[p + 1] = a /\ d[p + 2] = b /\ d[p + 3] = c
    BY <1>4, <2>1, <2>3 DEF N
  <2>5. scan_8(d, p) = 0 /\ scan_8(d, p + 1) = a /\ scan_8(d, p + 2) = b /\ scan_8(d, p + 3) = c
    BY <2>1, <2>2, <2>4 DEF scan_8
  <2>6. scan_16(d, p + 2) = b * 256 + c
    BY <2>1, <2>5 DEF scan_16
  <2> QED
    BY <1>2, <2>5, <2>6
<1>13. next_avcc_bounds(d, p) =
         IF p + 3 <= N /\ scan_8(d, p) = 0 /\ length > 0 /\ length <= MAX_LENGTH /\ p + 3 + length <= N
         THEN [ first |-> p + 4, last |-> p + 3 + length ]
         ELSE Malformed
  BY DEF next_avcc_bounds, N
<1> HIDE DEF length
<1>14. CASE p + 3 + n <= N
  <2>1. p + 3 <= N
    BY <1>1, <1>9, <1>14
  <2>2. next_avcc_bounds(d, p) = [ first |-> p + 4, last |-> p + 3 + n ]
    BY <1>1, <1>12, <1>13, <1>14, <2>1
  <2> DEFINE s == SubSeq(d, p + 4, p + 3 + n)
  <2>3. p + 4 \in Nat \ {0} /\ p + 3 + n \in Nat /\ p + 4 <= p + 3 + n /\ (p + 3 + n) - (p + 4) + 1 = n
    BY <1>1, <1>9
  <2>4. s \in Seq(Byte) /\ Len(s) = n /\ \A i \in 1 .. n : s[i] = d[(p + 4) + i - 1]
    <3> DEFINE m == p + 4
               k == p + 3 + n
    <3>1. d \in Seq(Byte) /\ m \in Nat \ {0} /\ k \in Nat /\ k <= Len(d) /\ m <= k /\ k - m + 1 = n
      BY <1>14, <2>3 DEF N
    <3> HIDE DEF m, k
    <3>2. /\ SubSeq(d, m, k) \in Seq(Byte) /\ Len(SubSeq(d, m, k)) = n
          /\ \A i \in 1 .. n : SubSeq(d, m, k)[i] = d[m + i - 1]
      BY <3>1, SubSeqType
    <3> QED
      BY <3>2 DEF m, k
  <2>5. \A i \in 1 .. n : (p + 4) + i - 1 = p + 3 + i /\ p + 3 + i \in 1 .. N
    BY <1>1, <1>9, <1>14
  <2>6. \A i \in 1 .. n : s[i] = u[i]
    BY <1>11, <2>4, <2>5 DEF N
  <2> HIDE DEF s
  <2>7. s = u
    BY <1>1, <2>4, <2>6, SeqEqual DEF n
  <2> QED
    BY <1>14, <2>2, <2>7 DEF s, n, N, p
<1>15. CASE ~ (p + 3 + n <= N)
  <2>1. next_avcc_bounds(d, p) = Malformed
    BY <1>12, <1>13, <1>15
  <2> QED
    BY <1>15, <2>1 DEF n, N, p
<1> QED
  BY <1>14, <1>15

LEMMA EmitType == Emit \in [ Nalu -> Seq(Byte) ]
<1>1. \A u \in Nalu : u \in Seq(Byte)
  BY DEF Nalu
<1>2. \A u \in Nalu : emit_avcc_nalu(u) \in Seq(Byte)
  BY <1>1, WrittenNaluType
<1> QED
  BY <1>2 DEF Emit

LEMMA WrittenConcat ==
  ASSUME NEW s \in Seq(Nalu), NEW t \in Seq(Nalu)
  PROVE  Written(s) \in Seq(Byte) /\ Written(s \o t) = Written(s) \o Written(t)
<1> DEFINE f == Emit
           S == Nalu
           B == Byte
<1>1. PutsTogether(f, S, B) /\ s \in Seq(S) /\ t \in Seq(S)
  BY EmitType DEF PutsTogether
<1> HIDE DEF f, S, B
<1>2. FlatMap(f, s) \in Seq(B) /\ FlatMap(f, s \o t) = FlatMap(f, s) \o FlatMap(f, t)
  BY <1>1, FlatMapConcat
<1> QED
  BY <1>2 DEF Written, f, B

LEMMA WrittenFew ==
  ASSUME NEW x \in Nalu
  PROVE  Written(<< >>) = << >> /\ Written(<< x >>) = emit_avcc_nalu(x)
<1> DEFINE f == Emit
           S == Nalu
           B == Byte
<1>1. PutsTogether(f, S, B) /\ x \in S
  BY EmitType DEF PutsTogether
<1> HIDE DEF f, S, B
<1>2. FlatMap(f, << >>) = << >> /\ FlatMap(f, << x >>) = f[x]
  BY <1>1, FlatMapFew
<1>3. Emit[x] = emit_avcc_nalu(x)
  BY DEF Emit
<1> QED
  BY <1>2, <1>3 DEF Written, f

LEMMA EachIsWritten ==
  ASSUME NEW us \in Seq(Nalu)
  PROVE  Each(emit_avcc_nalu, us) = Written(us)
<1>1. DOMAIN us = 1 .. Len(us) /\ \A i \in 1 .. Len(us) : us[i] \in Nalu
  OBVIOUS
<1>2. \A u \in Nalu : Emit[u] = emit_avcc_nalu(u)
  BY DEF Emit
<1>3. [ i \in DOMAIN us |-> emit_avcc_nalu(us[i]) ] = [ i \in DOMAIN us |-> Emit[us[i]] ]
  BY <1>1, <1>2
<1> QED
  BY <1>3 DEF Each, Written, FlatMap, ImageOf

\* A sequence, around one of its elements.
LEMMA Around ==
  ASSUME NEW S, NEW s \in Seq(S), NEW k \in Nat, k < Len(s)
  PROVE  LET pre == SubSeq(s, 1, k)
             post == SubSeq(s, k + 2, Len(s))
         IN /\ pre \in Seq(S) /\ post \in Seq(S) /\ s[k + 1] \in S
            /\ s = pre \o (<< s[k + 1] >> \o post)
            /\ SubSeq(s, 1, k + 1) = pre \o << s[k + 1] >>
            /\ SubSeq(s, k + 1, Len(s)) = << s[k + 1] >> \o post
<1> DEFINE N == Len(s)
           x == s[k + 1]
           pre == SubSeq(s, 1, k)
           post == SubSeq(s, k + 2, N)
           upto == SubSeq(s, 1, k + 1)
           since == SubSeq(s, k + 1, N)
<1>1. N \in Nat /\ k + 1 \in 1 .. N /\ x \in S
  OBVIOUS
<1>2. pre \in Seq(S) /\ Len(pre) = k /\ \A i \in 1 .. k : pre[i] = s[i]
  OBVIOUS
<1>3. post \in Seq(S) /\ Len(post) = N - k - 1 /\ \A i \in 1 .. N - k - 1 : post[i] = s[k + 1 + i]
  OBVIOUS
<1>4. upto \in Seq(S) /\ Len(upto) = k + 1 /\ \A i \in 1 .. k + 1 : upto[i] = s[i]
  OBVIOUS
<1>5. since \in Seq(S) /\ Len(since) = N - k /\ \A i \in 1 .. N - k : since[i] = s[k + i]
  OBVIOUS
<1>6. << x >> \in Seq(S) /\ Len(<< x >>) = 1 /\ << x >>[1] = x
  BY <1>1
<1> DEFINE one == << x >>
<1> HIDE DEF pre, post, upto, since, N, one
<1>7. pre \o one \in Seq(S) /\ Len(pre \o one) = k + 1
      /\ \A i \in 1 .. k + 1 : (pre \o one)[i] = IF i <= k THEN pre[i] ELSE one[i - k]
  <2>1. one \in Seq(S) /\ Len(one) = 1
    BY <1>6 DEF one
  <2> QED
    <3>1. /\ pre \o one \in Seq(S) /\ Len(pre \o one) = Len(pre) + Len(one)
          /\ \A i \in 1 .. Len(pre) + Len(one) : (pre \o one)[i] = IF i <= Len(pre) THEN pre[i] ELSE one[i - Len(pre)]
      BY <1>2, <2>1, ConcatProperties
    <3>2. Len(pre) = k /\ Len(one) = 1
      BY <1>2, <2>1
    <3> QED
      BY <3>1, <3>2
<1>8. one \o post \in Seq(S) /\ Len(one \o post) = N - k
      /\ \A i \in 1 .. N - k : (one \o post)[i] = IF i <= 1 THEN one[i] ELSE post[i - 1]
  <2>1. one \in Seq(S) /\ Len(one) = 1
    BY <1>6 DEF one
  <2>2. /\ one \o post \in Seq(S) /\ Len(one \o post) = 1 + Len(post)
        /\ \A i \in 1 .. 1 + Len(post) : (one \o post)[i] = IF i <= 1 THEN one[i] ELSE post[i - 1]
    <3>1. /\ one \o post \in Seq(S) /\ Len(one \o post) = Len(one) + Len(post)
          /\ \A i \in 1 .. Len(one) + Len(post) : (one \o post)[i] = IF i <= Len(one) THEN one[i] ELSE post[i - Len(one)]
      BY <1>3, <2>1, ConcatProperties
    <3>2. Len(one) = 1 /\ Len(post) = Len(post)
      BY <1>3, <2>1
    <3> QED
      BY <3>1, <3>2
  <2>3. 1 + Len(post) = N - k
    BY <1>1, <1>3
  <2> QED
    BY <2>2, <2>3
<1>9. upto = pre \o one
  <2>1. ASSUME NEW i \in 1 .. k + 1 PROVE upto[i] = (pre \o one)[i]
    <3>1. CASE i <= k
      <4>1. i \in 1 .. k
        BY <3>1
      <4> QED
        BY <1>2, <1>4, <1>7, <3>1, <4>1
    <3>2. CASE ~ (i <= k)
      <4>1. i = k + 1 /\ i - k = 1
        BY <3>2
      <4> QED
        BY <1>4, <1>6, <1>7, <3>2, <4>1 DEF one
    <3> QED
      BY <3>1, <3>2
  <2> QED
    BY <1>4, <1>7, <2>1, SeqEqual
<1>10. since = one \o post
  <2>1. ASSUME NEW i \in 1 .. N - k PROVE since[i] = (one \o post)[i]
    <3>1. CASE i <= 1
      <4>1. i = 1
        BY <3>1
      <4> QED
        BY <1>5, <1>6, <1>8, <3>1, <4>1 DEF one
    <3>2. CASE ~ (i <= 1)
      <4>1. i - 1 \in 1 .. N - k - 1 /\ k + 1 + (i - 1) = k + i
        BY <1>1, <3>2
      <4> QED
        BY <1>3, <1>5, <1>8, <3>2, <4>1
    <3> QED
      BY <3>1, <3>2
  <2> QED
    BY <1>5, <1>8, <2>1, SeqEqual
<1>11. s = pre \o (one \o post)
  <2> DEFINE t == one \o post
  <2>1. t \in Seq(S) /\ Len(t) = N - k
    BY <1>8
  <2>2. \A i \in 1 .. N - k : t[i] = s[k + i]
    BY <1>5, <1>10
  <2> HIDE DEF t
  <2>3. /\ pre \o t \in Seq(S) /\ Len(pre \o t) = k + (N - k)
        /\ \A i \in 1 .. k + (N - k) : (pre \o t)[i] = IF i <= k THEN pre[i] ELSE t[i - k]
    <3>1. /\ pre \o t \in Seq(S) /\ Len(pre \o t) = Len(pre) + Len(t)
          /\ \A i \in 1 .. Len(pre) + Len(t) : (pre \o t)[i] = IF i <= Len(pre) THEN pre[i] ELSE t[i - Len(pre)]
      BY <1>2, <2>1, ConcatProperties
    <3>2. Len(pre) = k /\ Len(t) = N - k
      BY <1>2, <2>1
    <3> QED
      BY <3>1, <3>2
  <2>4. k + (N - k) = N
    BY <1>1
  <2>5. ASSUME NEW i \in 1 .. N PROVE s[i] = (pre \o t)[i]
    <3>1. CASE i <= k
      <4>1. i \in 1 .. k
        BY <3>1
      <4> QED
        BY <1>2, <2>3, <2>4, <3>1, <4>1
    <3>2. CASE ~ (i <= k)
      <4>1. i - k \in 1 .. N - k /\ k + (i - k) = i
        BY <1>1, <3>2
      <4> QED
        BY <2>2, <2>3, <2>4, <3>2, <4>1
    <3> QED
      BY <3>1, <3>2
  <2>6. s = pre \o t
    <3>1. Len(s) = N
      BY DEF N
    <3> QED
      BY <2>3, <2>4, <2>5, <3>1, SeqEqual
  <2> QED
    BY <2>6 DEF t
<1> QED
  BY <1>1, <1>2, <1>3, <1>9, <1>10, <1>11 DEF pre, post, upto, since, N, one

\* where unit k + 1 begins
Start(us, k) == Len(Written(SubSeq(us, 1, k))) + 1

\* The parser at the beginning of a unit, where the end of the packet may have
\* been lost.
LEMMA NextIsRead ==
  ASSUME NEW us \in Seq(Nalu), NEW k \in Nat, k < Len(us),
         NEW d \in Seq(Byte), Len(d) <= Len(Written(us)),
         \A i \in 1 .. Len(d) : d[i] = Written(us)[i]
  PROVE  LET b == next_avcc_bounds(d, Start(us, k))
         IN /\ Start(us, k) \in Nat \ {0} /\ us[k + 1] \in Nalu
            /\ Start(us, k + 1) = Start(us, k) + 4 + Len(us[k + 1])
            /\ IF Start(us, k + 1) <= Len(d) + 1
               THEN b # Malformed /\ b.last + 1 = Start(us, k + 1) /\ SubSeq(d, b.first, b.last) = us[k + 1]
               ELSE b = Malformed
<1> DEFINE before == SubSeq(us, 1, k)
           x == us[k + 1]
           after == SubSeq(us, k + 2, Len(us))
           pre == Written(before)
           post == Written(after)
<1>1. /\ before \in Seq(Nalu) /\ after \in Seq(Nalu) /\ x \in Nalu
      /\ us = before \o (<< x >> \o after) /\ SubSeq(us, 1, k + 1) = before \o << x >>
  BY Around
<1> HIDE DEF before, after, x
<1>2. << x >> \in Seq(Nalu) /\ << x >> \o after \in Seq(Nalu)
  BY <1>1, ConcatType
<1>3. Written(<< x >>) = emit_avcc_nalu(x)
  BY <1>1, WrittenFew
<1>4. Written(us) = pre \o (emit_avcc_nalu(x) \o post) /\ pre \in Seq(Byte) /\ post \in Seq(Byte)
  <2>1. Written(before \o (<< x >> \o after)) = pre \o Written(<< x >> \o after)
    BY <1>1, <1>2, WrittenConcat
  <2>2. Written(<< x >> \o after) = Written(<< x >>) \o post
    BY <1>1, <1>2, WrittenConcat
  <2>3. pre \in Seq(Byte) /\ post \in Seq(Byte)
    BY <1>1, WrittenConcat
  <2> QED
    BY <1>1, <1>3, <2>1, <2>2, <2>3
<1>5. Written(SubSeq(us, 1, k + 1)) = pre \o emit_avcc_nalu(x)
  <2>1. Written(before \o << x >>) = pre \o Written(<< x >>)
    BY <1>1, <1>2, WrittenConcat
  <2> QED
    BY <1>1, <1>3, <2>1
<1>6. Len(emit_avcc_nalu(x)) = 4 + Len(x) /\ emit_avcc_nalu(x) \in Seq(Byte) /\ Len(x) \in Nat /\ Len(x) > 0
  <2>1. x \in Seq(Byte) /\ Len(x) \in Nat /\ Len(x) > 0 /\ Len(x) <= MAX_LENGTH
    BY <1>1 DEF Nalu
  <2>2. PICK a, b, c \in Nat : emit_nalu_length(Len(x)) = << 0, a, b, c >>
    BY <2>1, LengthBytes
  <2>3. Len(emit_nalu_length(Len(x))) = 4
    BY <2>2
  <2>4. emit_nalu_length(Len(x)) \in Seq(Byte) /\ emit_avcc_nalu(x) \in Seq(Byte)
    BY <2>1, NaluLengthType, WrittenNaluType
  <2>5. Len(emit_nalu_length(Len(x)) \o x) = Len(emit_nalu_length(Len(x))) + Len(x)
    BY <2>1, <2>4, ConcatType
  <2> QED
    BY <2>1, <2>3, <2>4, <2>5 DEF emit_avcc_nalu
<1> HIDE DEF pre, post
<1>7. /\ Start(us, k) = Len(pre) + 1 /\ Len(pre) \in Nat
      /\ Start(us, k + 1) = Len(pre) + (4 + Len(x)) + 1
  <2>1. Len(pre \o emit_avcc_nalu(x)) = Len(pre) + Len(emit_avcc_nalu(x))
    BY <1>4, <1>6, ConcatType
  <2>2. Start(us, k + 1) = Len(pre) + (4 + Len(x)) + 1
    BY <1>5, <1>6, <2>1 DEF Start
  <2>3. Start(us, k) = Len(pre) + 1 /\ Len(pre) \in Nat
    BY <1>4 DEF Start, pre, before
  <2> QED
    BY <2>2, <2>3
<1> DEFINE E == Written(us)
           p == Len(pre) + 1
           q == p + 3 + Len(x)
<1>8. E = pre \o (emit_avcc_nalu(x) \o post) /\ Len(d) <= Len(E) /\ \A i \in 1 .. Len(d) : d[i] = E[i]
  BY <1>4
<1> HIDE DEF E
<1>9. IF q <= Len(d)
      THEN /\ next_avcc_bounds(d, p) = [ first |-> p + 4, last |-> q ]
           /\ SubSeq(d, p + 4, q) = x
      ELSE next_avcc_bounds(d, p) = Malformed
  BY <1>1, <1>4, <1>8, UnitIsRead
<1>10. p = Start(us, k) /\ q + 1 = Start(us, k + 1)
  <2> DEFINE m == Len(pre)
             n == Len(x)
  <2>1. m \in Nat /\ n \in Nat
    BY <1>6, <1>7
  <2> HIDE DEF m, n
  <2>2. (m + 1) + 3 + n + 1 = m + (4 + n) + 1
    BY <2>1
  <2> QED
    BY <1>7, <2>2 DEF m, n
<1>11. p \in Nat \ {0} /\ q \in Nat /\ q > 0 /\ Len(d) \in Nat /\ q + 1 = p + 4 + Len(x) /\ p + 4 > 1
  BY <1>6, <1>7
<1> HIDE DEF p, q
<1>12. CASE q <= Len(d)
  <2> DEFINE b == next_avcc_bounds(d, p)
  <2>1. b = [ first |-> p + 4, last |-> q ] /\ SubSeq(d, p + 4, q) = x
    BY <1>9, <1>12
  <2> HIDE DEF b
  <2>2. b.first = p + 4 /\ b.last = q
    BY <2>1
  <2>3. b # Malformed
    <3>1. Malformed.first = 1
      BY DEF Malformed
    <3>2. p + 4 # 1
      BY <1>11
    <3> QED
      BY <2>2, <3>1, <3>2
  <2>4. q + 1 <= Len(d) + 1
    BY <1>11, <1>12
  <2> QED
    BY <1>1, <1>10, <1>11, <2>1, <2>2, <2>3, <2>4 DEF b, x
<1>13. CASE ~ (q <= Len(d))
  <2>1. ~ (q + 1 <= Len(d) + 1)
    BY <1>11, <1>13
  <2>2. next_avcc_bounds(d, p) = Malformed
    BY <1>9, <1>13
  <2> QED
    BY <1>1, <1>10, <1>11, <2>1, <2>2 DEF x
<1> QED
  BY <1>12, <1>13

\* A unit takes bytes, even where nothing is read.
LEMMA NaluAdvances ==
  ASSUME NEW d \in Seq(Byte), NEW p \in Nat, next_avcc_bounds(d, p) # Malformed
  PROVE  next_avcc_bounds(d, p).last \in Nat /\ next_avcc_bounds(d, p).last >= p
<1> DEFINE length == scan_8(d, p + 1) * 65536 + scan_16(d, p + 2)
           b == next_avcc_bounds(d, p)
<1>1. scan_8(d, p + 1) \in Nat /\ scan_16(d, p + 2) \in Nat
  BY Scan8Type, ScanType, U16Is
<1>2. length \in Nat
  BY <1>1
<1>3. b = [ first |-> p + 4, last |-> p + 3 + length ]
  BY DEF next_avcc_bounds
<1> HIDE DEF length, b
<1>4. b.last = p + 3 + length
  BY <1>3
<1> QED
  BY <1>2, <1>4 DEF b

UnitsFrom(d, from, p) ==
  IF p > Len(d) THEN << >>
  ELSE LET b == next_avcc_bounds(d, p)
           rest == from[b.last + 1]
       IN IF b = Malformed \/ rest = None THEN None
          ELSE << SubSeq(d, b.first, b.last) >> \o rest

\* (UnitsIn is defined at positions from 0 on, and nothing is read at 0.)
LEMMA UnitsExist ==
  ASSUME NEW d \in Seq(Byte)
  PROVE  \E from : from = [ p \in Nat |-> UnitsFrom(d, from, p) ]
<1> DEFINE N == Len(d)
           b(q) == next_avcc_bounds(d, q)
           val(q) == SubSeq(d, b(q).first, b(q).last)
           item == [ q \in Nat |-> [ there |-> b(q) # Malformed, val |-> val(q), next |-> b(q).last + 1 ] ]
<1>1. N \in Nat
  OBVIOUS
<1>2. \A q \in Nat : /\ item[q].there <=> b(q) # Malformed
                     /\ item[q].val = val(q) /\ item[q].next = b(q).last + 1
  OBVIOUS
<1> HIDE DEF item, val
<1>3. Advances(item, N)
  <2> SUFFICES ASSUME NEW q \in Nat, item[q].there PROVE item[q].next \in Nat /\ item[q].next > q
    BY DEF Advances
  <2>1. b(q).last \in Nat /\ b(q).last >= q
    BY <1>2, NaluAdvances
  <2> HIDE DEF b
  <2> QED
    BY <1>2, <2>1
<1>4. PICK from : IsListing(from, item, N)
  BY <1>1, <1>3, ListingExists
<1>5. ASSUME NEW q \in Nat PROVE Item(item, N, from, q) = UnitsFrom(d, from, q)
  <2>1. UnitsFrom(d, from, q) =
          IF q > N THEN << >>
          ELSE IF b(q) = Malformed \/ from[b(q).last + 1] = None THEN None
          ELSE << val(q) >> \o from[b(q).last + 1]
    BY DEF UnitsFrom, val
  <2> HIDE DEF b, N
  <2> QED
    BY <1>2, <2>1 DEF Item
<1>6. from = [ q \in Nat |-> UnitsFrom(d, from, q) ]
  BY <1>4, <1>5 DEF IsListing
<1> QED
  BY <1>6

LEMMA FirstStart ==
  ASSUME NEW us \in Seq(Nalu)
  PROVE  Start(us, 0) = 1
<1>1. SubSeq(us, 1, 0) = << >> /\ Len(<< >>) = 0
  OBVIOUS
<1>2. Written(<< >>) = << >>
  <2>1. [ i \in DOMAIN << >> |-> Emit[<< >>[i]] ] = << >>
    OBVIOUS
  <2> QED
    BY <2>1, FlattenEmpty DEF Written, FlatMap, ImageOf
<1>3. Written(SubSeq(us, 1, 0)) = << >>
  BY <1>1, <1>2
<1>4. Start(us, 0) = 0 + 1
  BY <1>1, <1>3 DEF Start
<1> QED
  BY <1>4

\* Units that have been written are found again, all of them, in their order.
LEMMA UnitsRead ==
  ASSUME NEW us \in Seq(Nalu)
  PROVE  UnitsIn(Written(us)) = us
<1> DEFINE d == Written(us)
           N == Len(us)
           from == CHOOSE f : f = [ p \in Nat |-> UnitsFrom(d, f, p) ]
           Tail1(k) == SubSeq(us, k + 1, N)
           Good(k) == from[Start(us, k)] = Tail1(k)
           Bad == { k \in 0 .. N : ~ Good(k) }
<1>1. N \in Nat /\ d \in Seq(Byte) /\ Len(d) \in Nat
  <2>1. d \in Seq(Byte)
    BY WrittenConcat
  <2> QED
    BY <2>1
<1>2. UnitsIn(d) = from[1]
  BY DEF UnitsIn, UnitsFrom
<1>3. from = [ p \in Nat |-> UnitsFrom(d, from, p) ]
  BY <1>1, UnitsExist
<1> HIDE DEF from
<1>4. \A p \in Nat : from[p] = UnitsFrom(d, from, p)
  BY <1>3
<1>5. \A k \in 0 .. N : Start(us, k) \in Nat \ {0}
  <2> SUFFICES ASSUME NEW k \in 0 .. N PROVE Start(us, k) \in Nat \ {0}
    OBVIOUS
  <2>1. SubSeq(us, 1, k) \in Seq(Nalu)
    OBVIOUS
  <2>2. Written(SubSeq(us, 1, k)) \in Seq(Byte)
    BY <2>1, WrittenConcat
  <2>3. Len(Written(SubSeq(us, 1, k))) \in Nat
    BY <2>2
  <2> QED
    BY <2>3 DEF Start
<1>6. Start(us, N) = Len(d) + 1
  <2>1. SubSeq(us, 1, N) = us
    OBVIOUS
  <2> QED
    BY <2>1 DEF Start
<1>7. Start(us, 0) = 1 /\ Tail1(0) = us
  <2>1. SubSeq(us, 0 + 1, N) = us
    OBVIOUS
  <2>2. Tail1(0) = us
    BY <2>1
  <2> QED
    BY <2>2, FirstStart
<1>8. \A k \in 0 .. N : Start(us, k) <= Len(d) + 1
  <2> DEFINE Over == { k \in 0 .. N : ~ (Start(us, k) <= Len(d) + 1) }
  <2> SUFFICES ASSUME Over # {} PROVE FALSE
    OBVIOUS
  <2>1. PICK k \in Over : \A j \in Over : j <= k
    <3>1. Over \subseteq 0 .. N
      OBVIOUS
    <3> HIDE DEF Over
    <3> QED
      BY <1>1, <3>1, NatMax
  <2>2. k \in 0 .. N /\ ~ (Start(us, k) <= Len(d) + 1)
    BY <2>1
  <2>3. k # N
    BY <1>1, <1>6, <2>2
  <2>4. k \in Nat /\ k < N /\ k + 1 \in 0 .. N /\ ~ (k + 1 <= k)
    BY <1>1, <2>2, <2>3
  <2>5. Start(us, k + 1) = Start(us, k) + 4 + Len(us[k + 1]) /\ Len(us[k + 1]) \in Nat
    <3>1. \A i \in 1 .. Len(d) : d[i] = d[i]
      OBVIOUS
    <3>2. Start(us, k + 1) = Start(us, k) + 4 + Len(us[k + 1]) /\ us[k + 1] \in Nalu
      BY <1>1, <2>4, NextIsRead
    <3> QED
      BY <3>2 DEF Nalu
  <2>6. ~ (Start(us, k + 1) <= Len(d) + 1)
    <3> DEFINE a == Start(us, k)
               m == Len(us[k + 1])
               n == Len(d)
    <3>1. a \in Nat /\ m \in Nat /\ n \in Nat /\ ~ (a <= n + 1)
      BY <1>1, <1>5, <2>2, <2>5
    <3> HIDE DEF a, m, n
    <3>2. ~ (a + 4 + m <= n + 1)
      BY <3>1
    <3> QED
      BY <2>5, <3>2 DEF a, m, n
  <2>7. k + 1 \in Over
    BY <2>4, <2>6
  <2> HIDE DEF Over
  <2> QED
    BY <2>1, <2>4, <2>7
<1>9. Bad = {}
  <2> SUFFICES ASSUME Bad # {} PROVE FALSE
    OBVIOUS
  <2>1. PICK k \in Bad : \A j \in Bad : j <= k
    <3>1. Bad \subseteq 0 .. N
      OBVIOUS
    <3> HIDE DEF Bad
    <3> QED
      BY <1>1, <3>1, NatMax
  <2>2. k \in 0 .. N /\ ~ Good(k)
    BY <2>1
  <2> HIDE DEF Good
  <2>3. CASE k = N
    <3>1. Tail1(N) = << >>
      OBVIOUS
    <3>2. UnitsFrom(d, from, Start(us, N)) = << >>
      <4>1. Start(us, N) > Len(d)
        BY <1>1, <1>6
      <4> QED
        BY <4>1 DEF UnitsFrom
    <3>3. N \in 0 .. N
      BY <1>1
    <3> QED
      BY <1>4, <1>5, <2>2, <2>3, <3>1, <3>2, <3>3 DEF Good
  <2>4. CASE k # N
    <3> DEFINE b == next_avcc_bounds(d, Start(us, k))
               rest == from[b.last + 1]
    <3>1. k \in Nat /\ k < N /\ k + 1 \in 0 .. N /\ ~ (k + 1 <= k)
      BY <1>1, <2>2, <2>4
    <3>2. Good(k + 1)
      <4>1. k + 1 \notin Bad
        <5> HIDE DEF Bad
        <5> QED
          BY <2>1, <3>1
      <4> QED
        BY <3>1, <4>1
    <3>3. /\ us[k + 1] \in Nalu /\ Start(us, k) \in Nat
          /\ Start(us, k + 1) = Start(us, k) + 4 + Len(us[k + 1])
          /\ IF Start(us, k + 1) <= Len(d) + 1
             THEN b # Malformed /\ b.last + 1 = Start(us, k + 1) /\ SubSeq(d, b.first, b.last) = us[k + 1]
             ELSE b = Malformed
      BY <1>1, <3>1, NextIsRead
    <3>4. b # Malformed /\ b.last + 1 = Start(us, k + 1) /\ SubSeq(d, b.first, b.last) = us[k + 1]
      BY <1>8, <3>1, <3>3
    <3>5. ~ (Start(us, k) > Len(d))
      <4> DEFINE a == Start(us, k)
                 m == Len(us[k + 1])
                 n == Len(d)
      <4>1. m \in Nat
        BY <3>3 DEF Nalu
      <4>2. a \in Nat /\ n \in Nat /\ Start(us, k + 1) = a + 4 + m /\ Start(us, k + 1) <= n + 1
        BY <1>1, <1>8, <3>1, <3>3
      <4> HIDE DEF a, m, n
      <4>3. ~ (a > n)
        BY <4>1, <4>2
      <4> QED
        BY <4>3 DEF a, n
    <3>6. rest = Tail1(k + 1)
      BY <3>2, <3>4 DEF Good
    <3>7. Tail1(k + 1) \in Seq(Nalu) /\ Tail1(k + 1) # None
      <4>1. Tail1(k + 1) \in Seq(Nalu)
        BY <3>1
      <4>2. \A t \in Seq(Nalu) : t \in Seq(Seq(Byte))
        <5>1. \A u \in Nalu : u \in Seq(Byte)
          BY DEF Nalu
        <5> QED
          BY <5>1
      <4> QED
        BY <4>1, <4>2, PacketsAssumption
    <3>8. UnitsFrom(d, from, Start(us, k)) = << us[k + 1] >> \o Tail1(k + 1)
      <4> HIDE DEF Tail1, d
      <4> QED
        BY <3>4, <3>5, <3>6, <3>7 DEF UnitsFrom
    <3>9. Tail1(k) = << us[k + 1] >> \o Tail1(k + 1)
      <4>1. SubSeq(us, k + 1, Len(us)) = << us[k + 1] >> \o SubSeq(us, k + 2, Len(us))
        BY <3>1, Around
      <4>2. (k + 1) + 1 = k + 2
        BY <3>1
      <4> QED
        BY <4>1, <4>2
    <3>10. Good(k)
      BY <1>4, <3>3, <3>8, <3>9 DEF Good
    <3> QED
      BY <2>2, <3>10
  <2> QED
    BY <2>3, <2>4
<1>10. Good(0)
  <2>1. 0 \in 0 .. N
    BY <1>1
  <2> HIDE DEF Good
  <2> QED
    BY <1>9, <2>1
<1> QED
  BY <1>2, <1>7, <1>10

-----------------------------------------------------------------------------
(* units that are kept *)

IfValid == [ u \in Nalu |-> IF is_valid(u) THEN << u >> ELSE << >> ]
IfNotSei == [ u \in Nalu |-> IF NotSei(u) THEN << u >> ELSE << >> ]

LEMMA KeepTypes ==
  PutsTogether(IfValid, Nalu, Nalu) /\ PutsTogether(IfNotSei, Nalu, Nalu)
<1>1. \A u \in Nalu : << u >> \in Seq(Nalu) /\ << >> \in Seq(Nalu)
  OBVIOUS
<1>2. IfValid \in [ Nalu -> Seq(Nalu) ]
  BY <1>1 DEF IfValid
<1>3. IfNotSei \in [ Nalu -> Seq(Nalu) ]
  BY <1>1 DEF IfNotSei
<1> QED
  BY <1>2, <1>3 DEF PutsTogether

LEMMA OnlyIs ==
  ASSUME NEW us \in Seq(Nalu)
  PROVE  /\ Only(is_valid, us) = FlatMap(IfValid, us) /\ Only(is_valid, us) \in Seq(Nalu)
         /\ Only(NotSei, us) = FlatMap(IfNotSei, us) /\ Only(NotSei, us) \in Seq(Nalu)
<1>1. DOMAIN us = 1 .. Len(us) /\ \A i \in 1 .. Len(us) : us[i] \in Nalu
  OBVIOUS
<1>2. Only(is_valid, us) = FlatMap(IfValid, us)
  <2>1. \A u \in Nalu : IfValid[u] = IF is_valid(u) THEN << u >> ELSE << >>
    BY DEF IfValid
  <2>2. [ i \in DOMAIN us |-> IF is_valid(us[i]) THEN << us[i] >> ELSE << >> ]
          = [ i \in DOMAIN us |-> IfValid[us[i]] ]
    BY <1>1, <2>1
  <2> QED
    BY <2>2 DEF Only, FlatMap, ImageOf
<1>3. Only(NotSei, us) = FlatMap(IfNotSei, us)
  <2>1. \A u \in Nalu : IfNotSei[u] = IF NotSei(u) THEN << u >> ELSE << >>
    BY DEF IfNotSei
  <2>2. [ i \in DOMAIN us |-> IF NotSei(us[i]) THEN << us[i] >> ELSE << >> ]
          = [ i \in DOMAIN us |-> IfNotSei[us[i]] ]
    BY <1>1, <2>1
  <2> QED
    BY <2>2 DEF Only, FlatMap, ImageOf
<1>4. FlatMap(IfValid, us) \in Seq(Nalu) /\ FlatMap(IfNotSei, us) \in Seq(Nalu)
  <2> DEFINE S == Nalu
             B == Nalu
  <2>1. PutsTogether(IfValid, S, B) /\ PutsTogether(IfNotSei, S, B) /\ us \in Seq(S)
    BY KeepTypes
  <2> HIDE DEF S, B
  <2>2. FlatMap(IfValid, us) \in Seq(B) /\ FlatMap(IfNotSei, us) \in Seq(B)
    BY <2>1, FlatMapConcat
  <2> QED
    BY <2>2 DEF B
<1> QED
  BY <1>2, <1>3, <1>4

LEMMA OnlyConcat ==
  ASSUME NEW s \in Seq(Nalu), NEW t \in Seq(Nalu)
  PROVE  /\ Only(is_valid, s \o t) = Only(is_valid, s) \o Only(is_valid, t)
         /\ Only(NotSei, s \o t) = Only(NotSei, s) \o Only(NotSei, t)
<1>1. s \o t \in Seq(Nalu)
  BY ConcatType
<1>2. /\ FlatMap(IfValid, s \o t) = FlatMap(IfValid, s) \o FlatMap(IfValid, t)
      /\ FlatMap(IfNotSei, s \o t) = FlatMap(IfNotSei, s) \o FlatMap(IfNotSei, t)
  <2> DEFINE S == Nalu
             B == Nalu
  <2>1. PutsTogether(IfValid, S, B) /\ PutsTogether(IfNotSei, S, B) /\ s \in Seq(S) /\ t \in Seq(S)
    BY KeepTypes
  <2> HIDE DEF S, B
  <2>2. FlatMap(IfValid, s \o t) = FlatMap(IfValid, s) \o FlatMap(IfValid, t)
    BY <2>1, FlatMapConcat
  <2>3. FlatMap(IfNotSei, s \o t) = FlatMap(IfNotSei, s) \o FlatMap(IfNotSei, t)
    BY <2>1, FlatMapConcat
  <2> QED
    BY <2>2, <2>3
<1> QED
  BY <1>1, <1>2, OnlyIs

LEMMA OnlyFew ==
  ASSUME NEW u \in Nalu
  PROVE  /\ Only(is_valid, << >>) = << >> /\ Only(NotSei, << >>) = << >>
         /\ Only(is_valid, << u >>) = IF is_valid(u) THEN << u >> ELSE << >>
         /\ Only(NotSei, << u >>) = IF NotSei(u) THEN << u >> ELSE << >>
<1>1. << >> \in Seq(Nalu) /\ << u >> \in Seq(Nalu)
  OBVIOUS
<1>2. /\ FlatMap(IfValid, << >>) = << >> /\ FlatMap(IfValid, << u >>) = IfValid[u]
      /\ FlatMap(IfNotSei, << >>) = << >> /\ FlatMap(IfNotSei, << u >>) = IfNotSei[u]
  <2> DEFINE S == Nalu
             B == Nalu
  <2>1. PutsTogether(IfValid, S, B) /\ PutsTogether(IfNotSei, S, B) /\ u \in S
    BY KeepTypes
  <2> HIDE DEF S, B
  <2> QED
    BY <2>1, FlatMapFew
<1>3. IfValid[u] = IF is_valid(u) THEN << u >> ELSE << >>
  BY DEF IfValid
<1>4. IfNotSei[u] = IF NotSei(u) THEN << u >> ELSE << >>
  BY DEF IfNotSei
<1> QED
  BY <1>1, <1>2, <1>3, <1>4, OnlyIs

\* One unit more is collected, or left out.
LEMMA OnlyNext ==
  ASSUME NEW us \in Seq(Nalu), NEW k \in Nat, k < Len(us)
  PROVE  Only(is_valid, SubSeq(us, 1, k + 1)) =
           IF is_valid(us[k + 1]) THEN Append(Only(is_valid, SubSeq(us, 1, k)), us[k + 1])
                                  ELSE Only(is_valid, SubSeq(us, 1, k))
<1> DEFINE pre == SubSeq(us, 1, k)
           x == us[k + 1]
           s == Only(is_valid, pre)
<1>1. pre \in Seq(Nalu) /\ x \in Nalu /\ SubSeq(us, 1, k + 1) = pre \o << x >>
  BY Around
<1> HIDE DEF pre, x
<1>2. Only(is_valid, pre \o << x >>) = s \o Only(is_valid, << x >>)
  <2>1. << x >> \in Seq(Nalu)
    BY <1>1, OnlyOne
  <2> QED
    BY <1>1, <2>1, OnlyConcat
<1>3. Only(is_valid, << x >>) = IF is_valid(x) THEN << x >> ELSE << >>
  BY <1>1, OnlyFew
<1>4. s \in Seq(Nalu)
  BY <1>1, OnlyIs
<1> HIDE DEF s
<1>5. s \o << x >> = Append(s, x) /\ s \o << >> = s
  BY <1>1, <1>4, AppendIsConcat, ConcatEmptySeq
<1>6. Only(is_valid, SubSeq(us, 1, k + 1)) = IF is_valid(x) THEN Append(s, x) ELSE s
  BY <1>1, <1>2, <1>3, <1>5
<1> QED
  BY <1>6 DEF pre, x, s

LEMMA WithoutIs ==
  ASSUME NEW s \in Seq(Byte), NEW lost \in Nat
  PROVE  LET d == Without(lost, s)
         IN /\ Len(d) <= Len(s) /\ \A i \in 1 .. Len(d) : d[i] = s[i]
            /\ lost <= Len(s) => Len(d) = Len(s) - lost
<1>1. Len(s) \in Nat
  OBVIOUS
<1>2. CASE lost <= Len(s)
  <2> DEFINE n == Len(s) - lost
             d == SubSeq(s, 1, n)
  <2>1. n \in Nat /\ n <= Len(s) /\ 1 \in Nat \ {0}
    BY <1>1, <1>2
  <2> HIDE DEF n
  <2>2. Len(d) = n /\ \A i \in 1 .. n : d[i] = s[i]
    BY <2>1
  <2> QED
    BY <2>1, <2>2 DEF Without, n
<1>3. CASE ~ (lost <= Len(s))
  <2> DEFINE n == Len(s) - lost
  <2>1. n \in Int /\ n < 0
    BY <1>1, <1>3
  <2> HIDE DEF n
  <2>2. SubSeq(s, 1, n) = << >> /\ Len(<< >>) = 0
    BY <2>1
  <2>3. \A i \in 1 .. 0 : FALSE
    OBVIOUS
  <2>4. Without(lost, s) = << >>
    BY <2>2 DEF Without, n
  <2> QED
    BY <1>1, <1>3, <2>2, <2>3, <2>4
<1> QED
  BY <1>2, <1>3

\* No unit but the last one begins where the packet may have been cut off.
LEMMA LastStart ==
  ASSUME NEW us \in Seq(Nalu), NEW k \in Nat, k < Len(us)
  PROVE  /\ Start(us, k) \in Nat
         /\ Start(us, k) + 4 + Len(us[Len(us)]) <= Len(Written(us)) + 1
<1> DEFINE N == Len(us)
           W == Len(Written(us))
           l == Len(us[N])
           Ok(j) == Start(us, j) \in Nat /\ Start(us, j) + 4 + l <= W + 1
           Bad == { j \in 0 .. N - 1 : ~ Ok(j) }
<1>1. N \in Nat /\ N - 1 \in Nat /\ N - 1 + 1 = N
  OBVIOUS
<1>2. W \in Nat /\ l \in Nat /\ Written(us) \in Seq(Byte)
  <2>1. Written(us) \in Seq(Byte)
    BY WrittenConcat
  <2>2. us[N] \in Nalu
    OBVIOUS
  <2> QED
    BY <2>1, <2>2 DEF Nalu
<1>3. Start(us, N) = W + 1
  <2>1. SubSeq(us, 1, N) = us
    OBVIOUS
  <2> QED
    BY <2>1 DEF Start
<1>4. ASSUME NEW j \in 0 .. N - 1
      PROVE  /\ Start(us, j) \in Nat /\ Len(us[j + 1]) \in Nat
             /\ Start(us, j + 1) = Start(us, j) + 4 + Len(us[j + 1])
  <2>1. j \in Nat /\ j < N
    BY <1>1
  <2> DEFINE d == Written(us)
  <2>2. d \in Seq(Byte) /\ Len(d) <= Len(Written(us)) /\ \A i \in 1 .. Len(d) : d[i] = Written(us)[i]
    BY <1>2
  <2> HIDE DEF d
  <2>3. us[j + 1] \in Nalu /\ Start(us, j) \in Nat
        /\ Start(us, j + 1) = Start(us, j) + 4 + Len(us[j + 1])
    BY <2>1, <2>2, NextIsRead
  <2> QED
    BY <2>3 DEF Nalu
<1> HIDE DEF W, l
<1>5. Ok(N - 1)
  <2>1. N - 1 \in 0 .. N - 1
    BY <1>1
  <2>2. Start(us, N) = Start(us, N - 1) + 4 + l /\ Start(us, N - 1) \in Nat
    BY <1>1, <1>4, <2>1 DEF l
  <2> QED
    BY <1>2, <1>3, <2>2
<1>6. Bad = {}
  <2> SUFFICES ASSUME Bad # {} PROVE FALSE
    OBVIOUS
  <2>1. PICK j \in Bad : \A i \in Bad : i <= j
    <3>1. Bad \subseteq 0 .. N - 1
      OBVIOUS
    <3> DEFINE M == N - 1
    <3> HIDE DEF Bad
    <3>2. M \in Nat /\ Bad \subseteq 0 .. M
      BY <1>1, <3>1
    <3> HIDE DEF M
    <3> QED
      BY <3>2, NatMax
  <2>2. j \in 0 .. N - 1 /\ ~ Ok(j)
    BY <2>1
  <2> HIDE DEF Ok
  <2>3. j # N - 1
    BY <1>5, <2>2
  <2>4. j + 1 \in 0 .. N - 1 /\ ~ (j + 1 <= j)
    <3> DEFINE M == N - 1
    <3>1. M \in Nat /\ j \in 0 .. M /\ j # M
      BY <1>1, <2>2, <2>3
    <3> HIDE DEF M
    <3>2. j + 1 \in 0 .. M /\ ~ (j + 1 <= j)
      BY <3>1
    <3> QED
      BY <3>2 DEF M
  <2>5. Ok(j + 1)
    <3>1. j + 1 \notin Bad
      <4> HIDE DEF Bad
      <4> QED
        BY <2>1, <2>4
    <3> QED
      BY <2>4, <3>1
  <2>6. Ok(j)
    <3> DEFINE a == Start(us, j)
               m == Len(us[j + 1])
    <3>1. a \in Nat /\ m \in Nat /\ Start(us, j + 1) = a + 4 + m
      BY <1>4, <2>2
    <3>2. Start(us, j + 1) + 4 + l <= W + 1
      BY <2>5 DEF Ok
    <3> HIDE DEF a, m
    <3>3. a + 4 + l <= W + 1
      BY <1>2, <3>1, <3>2
    <3> QED
      BY <3>1, <3>3 DEF Ok, a
  <2> QED
    BY <2>2, <2>6
<1>7. Ok(k)
  <2>1. k \in 0 .. N - 1
    BY <1>1
  <2> HIDE DEF Ok
  <2> QED
    BY <1>6, <2>1
<1> QED
  BY <1>7 DEF W, l

\* What is written for a packet of units, with a unit in place of its SEI.
LEMMA RewrittenUnits ==
  ASSUME NEW us \in Seq(Nalu), NEW sei \in Nalu, IsSei(sei),
         NEW p, p = Written(SubSeq(us, 1, Lead(us))) \o emit_avcc_nalu(sei) \o Written(Rest(us))
  PROVE  LET new == UnitsIn(p)
         IN /\ new # None
            /\ Only(NotSei, new) = Only(NotSei, us)
            /\ \E k \in DOMAIN new : IsSei(new[k]) /\ \A i \in 1 .. k : BeforePicture(new[i])
            /\ FirstSei(new) = sei
<1> DEFINE m == Lead(us)
           N == Len(us)
           before == SubSeq(us, 1, m)
           rest == Rest(us)
           new == before \o (<< sei >> \o rest)
<1>1. us \in Seq(Seq(Byte)) /\ Seq(Nalu) \subseteq Seq(Seq(Byte))
  <2>1. \A u \in Nalu : u \in Seq(Byte)
    BY DEF Nalu
  <2> QED
    BY <2>1
<1>2. /\ m \in Nat /\ m <= N /\ N \in Nat
      /\ \A i \in 1 .. m : NaluType(us[i]) \in {AUD, SPS, PPS}
      /\ m < N => NaluType(us[m + 1]) \notin {AUD, SPS, PPS}
  <2>1. N \in Nat /\ m \in 0 .. N
    BY <1>1, LeadIs
  <2>2. m \in Nat /\ m <= N
    BY <2>1
  <2> QED
    BY <1>1, <2>1, <2>2, LeadIs
<1>3. before \in Seq(Nalu) /\ Len(before) = m /\ \A i \in 1 .. m : before[i] = us[i]
  BY <1>2
<1>4. Old(us) \in {0, 1} /\ rest = SubSeq(us, m + Old(us) + 1, N)
  BY DEF Old, Rest
<1>5. rest \in Seq(Nalu)
  <2> DEFINE k == m + Old(us) + 1
  <2>1. k \in Nat \ {0}
    BY <1>2, <1>4
  <2> HIDE DEF k
  <2>2. SubSeq(us, k, N) \in Seq(Nalu)
    BY <1>2, <2>1, SubSeqType
  <2> QED
    BY <1>4, <2>2 DEF k
<1> HIDE DEF before, rest
<1>6. << sei >> \in Seq(Nalu) /\ << sei >> \o rest \in Seq(Nalu) /\ new \in Seq(Nalu)
      /\ Len(new) = m + (1 + Len(rest)) /\ Len(<< sei >>) = 1
  <2>1. << sei >> \in Seq(Nalu) /\ Len(<< sei >>) = 1
    BY OnlyOne
  <2>2. << sei >> \o rest \in Seq(Nalu) /\ Len(<< sei >> \o rest) = 1 + Len(rest)
    BY <1>5, <2>1, ConcatType
  <2>3. new \in Seq(Nalu) /\ Len(new) = Len(before) + Len(<< sei >> \o rest)
    BY <1>3, <2>2, ConcatType
  <2> QED
    BY <1>3, <2>1, <2>2, <2>3
<1>7. Written(new) = p
  <2>1. Written(new) = Written(before) \o Written(<< sei >> \o rest)
    BY <1>3, <1>6, WrittenConcat
  <2>2. Written(<< sei >> \o rest) = emit_avcc_nalu(sei) \o Written(rest)
    BY <1>5, <1>6, WrittenConcat, WrittenFew
  <2> DEFINE a == Written(before)
             b == emit_avcc_nalu(sei)
             c == Written(rest)
  <2>3. a \in Seq(Byte) /\ b \in Seq(Byte) /\ c \in Seq(Byte)
    <3>1. sei \in Seq(Byte)
      BY DEF Nalu
    <3> QED
      BY <1>3, <1>5, <3>1, WrittenConcat, WrittenNaluType
  <2>4. p = a \o b \o c
    BY DEF before, rest
  <2> HIDE DEF a, b, c
  <2>5. a \o (b \o c) = a \o b \o c
    BY <2>3, ConcatAssociative
  <2>6. Written(new) = a \o (b \o c)
    BY <2>1, <2>2 DEF a, b, c
  <2> QED
    BY <2>4, <2>5, <2>6
<1>8. UnitsIn(p) = new
  BY <1>6, <1>7, UnitsRead
<1>9. new # None
  BY <1>1, <1>6, PacketsAssumption
<1>10. Only(NotSei, new) = Only(NotSei, before) \o Only(NotSei, rest)
  <2>1. Only(NotSei, new) = Only(NotSei, before) \o Only(NotSei, << sei >> \o rest)
    BY <1>3, <1>6, OnlyConcat
  <2>2. Only(NotSei, << sei >> \o rest) = Only(NotSei, << sei >>) \o Only(NotSei, rest)
    BY <1>5, <1>6, OnlyConcat
  <2>3. Only(NotSei, << sei >>) = << >>
    BY OnlyFew DEF NotSei
  <2>4. Only(NotSei, rest) \in Seq(Nalu)
    BY <1>5, OnlyIs
  <2>5. << >> \o Only(NotSei, rest) = Only(NotSei, rest)
    BY <2>4, ConcatEmptySeq
  <2> QED
    BY <2>1, <2>2, <2>3, <2>5
<1>11. Only(NotSei, us) = Only(NotSei, before) \o Only(NotSei, rest)
  <2>1. CASE Old(us) = 1
    <3> DEFINE x == us[m + 1]
    <3>1. m < N /\ IsSei(x)
      BY <2>1 DEF Old, IsSei
    <3>2. /\ us = before \o (<< x >> \o SubSeq(us, m + 2, N)) /\ x \in Nalu
      BY <1>2, <3>1, Around DEF before
    <3>3. rest = SubSeq(us, m + 2, N)
      <4>1. m + 1 + 1 = m + 2
        BY <1>2
      <4> QED
        BY <1>4, <2>1, <4>1
    <3> HIDE DEF x
    <3>4. << x >> \in Seq(Nalu) /\ << x >> \o rest \in Seq(Nalu)
      BY <1>5, <3>2, ConcatType, OnlyOne
    <3>5. Only(NotSei, us) = Only(NotSei, before) \o (Only(NotSei, << x >>) \o Only(NotSei, rest))
      <4>1. Only(NotSei, before \o (<< x >> \o rest)) = Only(NotSei, before) \o Only(NotSei, << x >> \o rest)
        BY <1>3, <3>4, OnlyConcat
      <4>2. Only(NotSei, << x >> \o rest) = Only(NotSei, << x >>) \o Only(NotSei, rest)
        BY <1>5, <3>4, OnlyConcat
      <4> QED
        BY <3>2, <3>3, <4>1, <4>2
    <3>6. Only(NotSei, << x >>) = << >>
      BY <3>1, <3>2, OnlyFew DEF NotSei
    <3>7. Only(NotSei, rest) \in Seq(Nalu)
      BY <1>5, OnlyIs
    <3>8. << >> \o Only(NotSei, rest) = Only(NotSei, rest)
      BY <3>7, ConcatEmptySeq
    <3> QED
      BY <3>5, <3>6, <3>8
  <2>2. CASE Old(us) = 0
    <3>1. us = before \o rest
      <4>1. CASE m < N
        <5> DEFINE x == us[m + 1]
                   tail == SubSeq(us, m + 2, N)
        <5>1. us = before \o (<< x >> \o tail) /\ SubSeq(us, m + 1, N) = << x >> \o tail
          BY <1>2, <4>1, Around DEF before
        <5>2. m + 0 + 1 = m + 1
          BY <1>2
        <5> QED
          BY <1>4, <2>2, <5>1, <5>2
      <4>2. CASE ~ (m < N)
        <5>1. m = N
          BY <1>2, <4>2
        <5>2. before = us
          BY <5>1 DEF before
        <5>3. rest = << >>
          BY <1>2, <1>4, <2>2, <5>1
        <5> HIDE DEF N
        <5>4. us \o << >> = us
          BY ConcatEmptySeq
        <5> QED
          BY <5>2, <5>3, <5>4
      <4> QED
        BY <4>1, <4>2
    <3> QED
      BY <1>3, <1>5, <3>1, OnlyConcat
  <2> QED
    BY <1>4, <2>1, <2>2
<1>12. /\ m + 1 \in DOMAIN new /\ new[m + 1] = sei
       /\ \A i \in 1 .. m + 1 : BeforePicture(new[i])
       /\ \A i \in 1 .. m : NotSei(new[i])
  <2> DEFINE t == << sei >> \o rest
  <2>1. t \in Seq(Nalu) /\ Len(t) = 1 + Len(rest) /\ Len(rest) \in Nat
    BY <1>5, <1>6, ConcatType
  <2>2. t[1] = sei
    BY <1>5, <1>6
  <2>3. new = before \o t
    OBVIOUS
  <2> HIDE DEF t, new
  <2>4. /\ Len(before \o t) = Len(before) + Len(t)
        /\ \A i \in 1 .. Len(before) + Len(t) :
             (before \o t)[i] = IF i <= Len(before) THEN before[i] ELSE t[i - Len(before)]
    BY <1>3, <2>1, ConcatAt
  <2>5. \A i \in 1 .. m + (1 + Len(rest)) : new[i] = IF i <= m THEN before[i] ELSE t[i - m]
    BY <1>3, <2>1, <2>3, <2>4
  <2>6. m + 1 \in 1 .. m + (1 + Len(rest)) /\ ~ (m + 1 <= m) /\ (m + 1) - m = 1
    <3> DEFINE l == Len(rest)
    <3>1. m \in Nat /\ l \in Nat
      BY <1>2, <2>1
    <3> HIDE DEF m, l
    <3>2. m + 1 \in 1 .. m + (1 + l) /\ ~ (m + 1 <= m) /\ (m + 1) - m = 1
      BY <3>1
    <3> QED
      BY <3>2 DEF l
  <2>7. new[m + 1] = sei
    BY <2>2, <2>5, <2>6
  <2>8. \A i \in 1 .. m : new[i] = us[i]
    <3>1. \A i \in 1 .. m : i \in 1 .. m + (1 + Len(rest)) /\ i <= m
      BY <1>2, <2>1
    <3> QED
      BY <1>3, <2>5, <3>1
  <2>9. \A i \in 1 .. m + 1 : i \in 1 .. m \/ i = m + 1
    BY <1>2
  <2>10. \A i \in 1 .. m + 1 : BeforePicture(new[i])
    <3> SUFFICES ASSUME NEW i \in 1 .. m + 1 PROVE NaluType(new[i]) \in {AUD, SPS, PPS, SEI}
      BY DEF BeforePicture
    <3>1. CASE i = m + 1
      BY <2>7, <3>1 DEF IsSei
    <3>2. CASE i \in 1 .. m
      BY <1>2, <2>8, <3>2
    <3> QED
      BY <2>9, <3>1, <3>2
  <2>11. m + 1 \in DOMAIN new
    BY <1>6, <2>6
  <2>12. \A i \in 1 .. m : NotSei(new[i])
    <3> SUFFICES ASSUME NEW i \in 1 .. m PROVE NaluType(new[i]) # SEI
      BY DEF NotSei, IsSei
    <3>1. new[i] = us[i]
      BY <2>8
    <3>2. NaluType(us[i]) \in {AUD, SPS, PPS}
      BY <1>2
    <3> QED
      BY <3>1, <3>2 DEF SEI, AUD, SPS, PPS
  <2> QED
    BY <2>7, <2>10, <2>11, <2>12
<1>13. FirstSei(new) = sei
  <2> DEFINE IsFirstSei(nalu) == \E k \in DOMAIN new :
               new[k] = nalu /\ IsSei(nalu) /\ \A i \in 1 .. k - 1 : NotSei(new[i])
  <2>1. FirstSei(new) = CHOOSE nalu \in Range(new) : IsFirstSei(nalu)
    BY DEF FirstSei
  <2>2. DOMAIN new \subseteq Nat
    <3> HIDE DEF new
    <3>1. DOMAIN new = 1 .. Len(new) /\ Len(new) \in Nat
      BY <1>6
    <3> QED
      BY <3>1
  <2> HIDE DEF new
  <2>3. sei \in Range(new)
    BY <1>12 DEF Range
  <2>4. IsFirstSei(sei)
    <3>1. (m + 1) - 1 = m
      BY <1>2
    <3> QED
      BY <1>12, <3>1
  <2>5. ASSUME NEW nalu, IsFirstSei(nalu)
        PROVE  nalu = sei
    <3>1. PICK k \in DOMAIN new : new[k] = nalu /\ IsSei(nalu) /\ \A i \in 1 .. k - 1 : NotSei(new[i])
      BY <2>5
    <3>2. k \in Nat
      BY <2>2
    <3>3. ~ (k \in 1 .. m)
      BY <1>12, <3>1 DEF NotSei
    <3>4. ~ (m + 1 \in 1 .. k - 1)
      BY <1>12, <3>1 DEF NotSei
    <3>5. 0 \notin DOMAIN new
      <4>1. DOMAIN new = 1 .. Len(new)
        BY <1>6
      <4> QED
        BY <4>1
    <3>6. k # 0
      BY <3>5
    <3>7. k = m + 1
      BY <1>2, <3>2, <3>3, <3>4, <3>6
    <3> QED
      BY <1>12, <3>1, <3>7
  <2> HIDE DEF IsFirstSei
  <2> QED
    BY <2>1, <2>3, <2>4, <2>5
<1> HIDE DEF new
<1> QED
  BY <1>8, <1>9, <1>10, <1>11, <1>12, <1>13

\* The steps of the extractors.
LEMMA Elsewhere ==
  ASSUME ReadUnit \/ ReadMessage \/ ReadSection \/ AllRead
  PROVE  task # "inject" /\ task' = task
<1>1. CASE ReadUnit
  <2>1. task = "extract"
    BY <1>1 DEF ReadUnit, Working
  <2>2. task' = task
    BY <1>1 DEF ReadUnit, End
  <2> QED
    BY <2>1, <2>2
<1>2. CASE ReadMessage
  <2>1. task = "extract"
    BY <1>2 DEF ReadMessage, Working
  <2>2. task' = task
    BY <1>2 DEF ReadMessage, End
  <2> QED
    BY <2>1, <2>2
<1>3. CASE ReadSection
  <2>1. task = "splice"
    BY <1>3 DEF ReadSection, Working
  <2>2. task' = task
    BY <1>3 DEF ReadSection, End
  <2> QED
    BY <2>1, <2>2
<1>4. CASE AllRead
  BY <1>4 DEF AllRead, Working, End
<1> QED
  BY <1>1, <1>2, <1>3, <1>4

-----------------------------------------------------------------------------
(* what the injector has of a packet *)

\* While it collects, it stands at the beginning of a unit and has the valid
\* ones of those before; what it has written is made of all the valid units.
AllCollected ==
  task = "inject" =>
    /\ sent \in VideoPacket
    /\ outcome = "none" =>
         /\ packet = VideoBytes(sent)
         /\ \E k \in 0 .. Len(sent.units) :
              /\ cursor = Start(sent.units, k)
              /\ units = Only(is_valid, SubSeq(sent.units, 1, k))
    /\ outcome = "ok" =>
         /\ units = Only(is_valid, sent.units)
         /\ Injected \in Seq(SeiPayload)
         /\ packet = Rewritten(units, Injected)

LEMMA SentUnits ==
  ASSUME NEW v \in VideoPacket
  PROVE  /\ v.units \in Seq(Nalu) /\ v.lost \in Nat
         /\ Len(v.units) > 0 => v.lost < 4 + Len(v.units[Len(v.units)])
<1> DEFINE us == v.units
           N == Len(us)
<1>1. /\ us \in Seq(Seq(Byte)) /\ v.lost \in Nat
      /\ \A i \in DOMAIN us : us[i] # << >> /\ Len(us[i]) <= MAX_LENGTH
      /\ us # << >> => v.lost < 4 + Len(Last(us))
  BY PacketsAssumption
<1>2. N \in Nat /\ us = [ i \in 1 .. N |-> us[i] ] /\ DOMAIN us = 1 .. N /\ \A i \in 1 .. N : us[i] \in Seq(Byte)
  <2> DEFINE S == Seq(Byte)
  <2>1. us \in Seq(S)
    BY <1>1
  <2> HIDE DEF S, us
  <2>2. Len(us) \in Nat /\ DOMAIN us = 1 .. Len(us) /\ us \in [ 1 .. Len(us) -> S ]
    BY <2>1
  <2> QED
    BY <2>2 DEF S
<1>3. Len(<< >>) = 0
  OBVIOUS
<1>4. \A i \in 1 .. N : us[i] \in Nalu
  BY <1>1, <1>2 DEF Nalu
<1>5. us \in Seq(Nalu)
  <2> HIDE DEF us, N
  <2>1. us \in [ 1 .. N -> Nalu ]
    BY <1>2, <1>4
  <2> QED
    BY <1>2, <2>1, SequenceOf
<1>6. N > 0 => us # << >>
  BY <1>3
<1> QED
  BY <1>1, <1>5, <1>6 DEF Last

\* the bytes of a packet: those of its units, as far as they go
LEMMA VideoBytesAre ==
  ASSUME NEW v \in VideoPacket
  PROVE  LET d == VideoBytes(v)
             E == Written(v.units)
         IN /\ d \in Seq(Byte) /\ Len(d) \in Nat /\ Len(E) \in Nat
            /\ Len(d) <= Len(E) /\ \A i \in 1 .. Len(d) : d[i] = E[i]
            /\ v.lost <= Len(E) => Len(d) = Len(E) - v.lost
<1> DEFINE d == VideoBytes(v)
           E == Written(v.units)
<1>1. v.units \in Seq(Nalu) /\ v.lost \in Nat
  BY SentUnits
<1>2. E \in Seq(Byte) /\ d = Without(v.lost, E)
  BY <1>1, EachIsWritten, WrittenConcat DEF VideoBytes
<1> HIDE DEF d, E
<1>3. d \in Seq(Byte)
  BY <1>1, <1>2, WithoutType
<1>4. /\ Len(d) <= Len(E) /\ \A i \in 1 .. Len(d) : d[i] = E[i]
      /\ v.lost <= Len(E) => Len(d) = Len(E) - v.lost
  BY <1>1, <1>2, WithoutIs
<1>5. Len(d) \in Nat /\ Len(E) \in Nat
  BY <1>2, <1>3
<1> QED
  BY <1>3, <1>4, <1>5 DEF d, E

LEMMA ReceiveCollected ==
  ASSUME IInv, NEW v \in VideoPacket, NEW m, Receive("inject", v, VideoBytes(v), m)
  PROVE  AllCollected'
<1>1. sent' = v /\ packet' = VideoBytes(v) /\ cursor' = 1 /\ units' = << >> /\ outcome' = "none"
  BY DEF Receive, IInv, NothingLeft
<1>2. v.units \in Seq(Nalu)
  BY SentUnits
<1>3. 0 \in 0 .. Len(v.units) /\ SubSeq(v.units, 1, 0) = << >>
  BY <1>2
<1>4. Start(v.units, 0) = 1
  BY <1>2, FirstStart
<1>5. Only(is_valid, << >>) = << >>
  <2>1. [ i \in DOMAIN << >> |-> IF is_valid(<< >>[i]) THEN << << >>[i] >> ELSE << >> ] = << >>
    OBVIOUS
  <2> QED
    BY <2>1, FlattenEmpty DEF Only
<1>6. \E k \in 0 .. Len(v.units) : cursor' = Start(v.units, k) /\ units' = Only(is_valid, SubSeq(v.units, 1, k))
  BY <1>1, <1>3, <1>4, <1>5
<1> QED
  BY <1>1, <1>6 DEF AllCollected

LEMMA CollectCollected ==
  ASSUME IInv, AllCollected, Collect
  PROVE  AllCollected'
<1> DEFINE b == next_avcc_bounds(packet, cursor)
           nalu == SubSeq(packet, b.first, b.last)
           us == sent.units
<1>1. /\ task = "inject" /\ outcome = "none" /\ cursor <= Len(packet)
      /\ task' = task /\ sent' = sent
      /\ IF b = Malformed
         THEN outcome' = "parse error"
         ELSE /\ cursor' = b.last + 1
              /\ units' = IF is_valid(nalu) THEN Append(units, nalu) ELSE units
              /\ packet' = packet /\ outcome' = outcome
  BY DEF Collect, Working, End
<1>2. PICK k \in 0 .. Len(us) : cursor = Start(us, k) /\ units = Only(is_valid, SubSeq(us, 1, k))
  BY <1>1 DEF AllCollected
<1>3. sent \in VideoPacket /\ packet = VideoBytes(sent) /\ us \in Seq(Nalu)
  BY <1>1, SentUnits DEF AllCollected
<1>4. CASE b = Malformed
  <2>1. outcome' = "parse error"
    BY <1>1, <1>4
  <2> QED
    BY <1>1, <1>3, <2>1 DEF AllCollected
<1>5. CASE b # Malformed
  <2> DEFINE E == Written(us)
             N == Len(us)
  <2>1. /\ packet \in Seq(Byte) /\ Len(packet) \in Nat /\ Len(E) \in Nat
        /\ Len(packet) <= Len(E) /\ \A i \in 1 .. Len(packet) : packet[i] = E[i]
    BY <1>3, VideoBytesAre
  <2>2. N \in Nat /\ k \in Nat /\ k <= N
    BY <1>2, <1>3
  <2>3. k < N
    <3> SUFFICES ASSUME k = N PROVE FALSE
      BY <2>2
    <3>1. SubSeq(us, 1, N) = us
      BY <1>3
    <3>2. cursor = Len(E) + 1
      BY <1>2, <3>1 DEF Start
    <3> DEFINE e == Len(E)
               n == Len(packet)
    <3>3. e \in Nat /\ n \in Nat /\ n <= e /\ cursor = e + 1 /\ cursor <= n
      BY <1>1, <2>1, <3>2
    <3> HIDE DEF e, n
    <3> QED
      BY <3>3
  <2>4. b.last + 1 = Start(us, k + 1) /\ nalu = us[k + 1]
    <3> HIDE DEF us
    <3> QED
      BY <1>2, <1>3, <1>5, <2>1, <2>2, <2>3, NextIsRead
  <2>5. /\ cursor' = Start(us, k + 1) /\ packet' = packet /\ outcome' = "none"
        /\ units' = IF is_valid(us[k + 1]) THEN Append(units, us[k + 1]) ELSE units
    <3> HIDE DEF b, nalu
    <3> QED
      BY <1>1, <1>5, <2>4
  <2>6. units' = Only(is_valid, SubSeq(us, 1, k + 1))
    <3>1. Only(is_valid, SubSeq(us, 1, k + 1)) =
            IF is_valid(us[k + 1]) THEN Append(Only(is_valid, SubSeq(us, 1, k)), us[k + 1])
                                   ELSE Only(is_valid, SubSeq(us, 1, k))
      <4> HIDE DEF us
      <4> QED
        BY <1>3, <2>2, <2>3, OnlyNext
    <3> HIDE DEF us
    <3> QED
      BY <1>2, <2>5, <3>1
  <2>7. k + 1 \in 0 .. N
    BY <2>2, <2>3
  <2>8. \E j \in 0 .. N : cursor' = Start(us, j) /\ units' = Only(is_valid, SubSeq(us, 1, j))
    BY <2>5, <2>6, <2>7
  <2> QED
    BY <1>1, <1>3, <2>5, <2>8 DEF AllCollected
<1> QED
  BY <1>4, <1>5

\* At the end of the packet all units have been seen.
LEMMA AllSeen ==
  ASSUME IInv, AllCollected, task = "inject", outcome = "none", cursor > Len(packet)
  PROVE  units = Only(is_valid, sent.units)
<1> DEFINE us == sent.units
           N == Len(us)
           E == Written(us)
<1>1. PICK k \in 0 .. N : cursor = Start(us, k) /\ units = Only(is_valid, SubSeq(us, 1, k))
  BY DEF AllCollected
<1>2. sent \in VideoPacket /\ packet = VideoBytes(sent)
  BY DEF AllCollected
<1>3. us \in Seq(Nalu) /\ sent.lost \in Nat /\ (N > 0 => sent.lost < 4 + Len(us[N]))
  BY <1>2, SentUnits
<1>4. /\ packet \in Seq(Byte) /\ Len(packet) \in Nat /\ Len(E) \in Nat
      /\ Len(packet) <= Len(E)
      /\ sent.lost <= Len(E) => Len(packet) = Len(E) - sent.lost
  BY <1>2, VideoBytesAre
<1>5. N \in Nat /\ k \in Nat /\ k <= N
  BY <1>1, <1>3
<1>6. CASE k < N
  <2> DEFINE l == Len(us[N])
             s == Start(us, k)
             e == Len(E)
  <2>1. s \in Nat /\ s + 4 + l <= e + 1
    <3> HIDE DEF us
    <3> QED
      BY <1>3, <1>5, <1>6, LastStart
  <2>2. l \in Nat
    <3>1. us[N] \in Nalu
      BY <1>3, <1>5, <1>6
    <3> QED
      BY <3>1 DEF Nalu
  <2>3. s >= 1
    <3>1. SubSeq(us, 1, k) \in Seq(Nalu)
      BY <1>3, <1>5
    <3>2. Written(SubSeq(us, 1, k)) \in Seq(Byte)
      BY <3>1, WrittenConcat
    <3>3. Len(Written(SubSeq(us, 1, k))) \in Nat
      BY <3>2
    <3> QED
      BY <3>3 DEF Start
  <2>4. N > 0 /\ cursor = s /\ sent.lost < 4 + l
    BY <1>1, <1>3, <1>5, <1>6
  <2> HIDE DEF l, s
  <2>5. sent.lost <= e
    BY <1>3, <1>4, <2>1, <2>2, <2>3, <2>4
  <2>6. Len(packet) = e - sent.lost
    BY <1>4, <2>5
  <2> DEFINE n == Len(packet)
             x == sent.lost
  <2>7. n \in Nat /\ x \in Nat /\ e \in Nat /\ s > n /\ n = e - x /\ x < 4 + l
    BY <1>3, <1>4, <2>4, <2>6
  <2> HIDE DEF e, n, x
  <2>8. FALSE
    BY <2>1, <2>2, <2>7
  <2> QED
    BY <2>8
<1>7. CASE k = N
  <2>1. SubSeq(us, 1, N) = us
    BY <1>3
  <2> QED
    BY <1>1, <1>7, <2>1
<1> QED
  BY <1>5, <1>6, <1>7

LEMMA RewriteCollected ==
  ASSUME IInv, AllCollected, Rewrite
  PROVE  AllCollected'
<1>1. /\ task = "inject" /\ outcome = "none" /\ outcome' = "ok" /\ cursor > Len(packet)
      /\ packet' = Rewritten(units, Injected)
      /\ task' = task /\ sent' = sent /\ units' = units /\ found' = found
      /\ Old(units) = 1 => HasStopBit(First(units)) /\ Messages(First(units)) # None
  BY DEF Rewrite, Collected, Working, End
<1>2. units = Only(is_valid, sent.units) /\ sent \in VideoPacket
  BY <1>1, AllSeen DEF AllCollected
<1>3. Injected \in Seq(SeiPayload)
  <2>1. units \in Seq(Seq(Byte)) /\ found \in Seq(SeiPayload)
    BY DEF IInv, TypeOK
  <2> QED
    BY <1>1, <2>1, InjectedType DEF Injected
<1>4. Injected' = Injected
  BY <1>1 DEF Injected
<1> QED
  BY <1>1, <1>2, <1>3, <1>4 DEF AllCollected

LEMMA StepCollected ==
  ASSUME IInv, AllCollected, [Next]_vars
  PROVE  AllCollected'
<1>1. CASE \E v \in VideoPacket, m \in Metadata : Receive("inject", v, VideoBytes(v), m)
  BY <1>1, ReceiveCollected
<1>2. CASE \/ \E v \in VideoPacket : Receive("extract", v, VideoBytes(v), << >>)
           \/ \E s \in SplicePacket : Receive("splice", s, SpliceBytes(s), << >>)
  <2>1. task' # "inject"
    BY <1>2 DEF Receive
  <2> QED
    BY <2>1 DEF AllCollected
<1>3. CASE StripFails
  <2>1. /\ task' = task /\ sent' = sent /\ outcome' \in {"parse error", "thrown"}
        /\ task = "inject"
    BY <1>3 DEF StripFails, Collected, Working, End
  <2> QED
    BY <2>1 DEF AllCollected
<1>4. CASE ReadUnit \/ ReadMessage \/ ReadSection \/ AllRead
  <2>1. task # "inject" /\ task' = task
    BY <1>4, Elsewhere
  <2> QED
    BY <2>1 DEF AllCollected
<1>5. CASE Pass
  <2>1. task' # "inject"
    BY <1>5 DEF Pass
  <2> QED
    BY <2>1 DEF AllCollected
<1>6. CASE UNCHANGED vars
  BY <1>6 DEF vars, AllCollected, Injected
<1> QED
  BY <1>1, <1>2, <1>3, <1>4, <1>5, <1>6, CollectCollected, RewriteCollected DEF Next, Process

THEOREM Collecting == Spec => []AllCollected
<1>1. Init => AllCollected
  BY DEF Init, AllCollected
<1>2. IInv /\ AllCollected /\ [Next]_vars => AllCollected'
  BY StepCollected
<1> QED
  BY <1>1, <1>2, Invariant, PTL DEF Spec

-----------------------------------------------------------------------------
(* the length that is declared for the SEI unit *)

\* Messages of which the length is right: emulation prevention is counted for
\* 00 00 03 only, a stop bit also for a message without data, and numbers are
\* divided where 255 should be subtracted.
PlainData(s) == \A i \in DOMAIN s : AfterZeros(s, i) => s[i] > 2
Plain(sei) ==
  /\ sei.data # << >> /\ Len(sei.data) < 510 /\ sei.type < 510
  /\ PlainData(sei.data)

LEMMA NumberLength ==
  ASSUME NEW n \in Nat, n < 510
  PROVE  Len(emit_variadic_length_int(n)) = variadic_length_int_size(n)
<1> DEFINE emit == CHOOSE f : f = [ k \in 0 .. n |-> WrittenFrom(f, k) ]
<1>1. emit_variadic_length_int(n) = emit[n]
  BY DEF emit_variadic_length_int, WrittenFrom
<1>2. emit = [ k \in 0 .. n |-> WrittenFrom(emit, k) ]
  BY LengthIntExists
<1> HIDE DEF emit
<1>3. \A k \in 0 .. n : emit[k] = WrittenFrom(emit, k)
  BY <1>2
<1>4. n \in 0 .. n
  OBVIOUS
<1>5. CASE n < 255
  <2>1. emit[n] = << n >>
    <3>1. ~ (n >= 255)
      BY <1>5
    <3> QED
      BY <1>3, <1>4, <3>1 DEF WrittenFrom
  <2>2. Len(<< n >>) = 1
    OBVIOUS
  <2>3. n \div 255 + 1 = 1
    BY <1>5
  <2> QED
    BY <1>1, <2>1, <2>2, <2>3 DEF variadic_length_int_size
<1>6. CASE ~ (n < 255)
  <2>1. n \div 255 = 1 /\ 1 \in 0 .. n /\ ~ (1 >= 255) /\ n >= 255 /\ n \div 255 + 1 = 2
    BY <1>6
  <2>2. emit[1] = << 1 >>
    BY <1>3, <2>1 DEF WrittenFrom
  <2>3. emit[n] = << 255 >> \o << 1 >>
    <3>1. WrittenFrom(emit, n) = << 255 >> \o emit[n \div 255]
      BY <2>1 DEF WrittenFrom
    <3>2. emit[n \div 255] = << 1 >>
      BY <2>1, <2>2
    <3> QED
      BY <1>3, <1>4, <3>1, <3>2
  <2>4. Len(<< 255 >> \o << 1 >>) = 2
    <3>1. << 255 >> \in Seq(Nat) /\ << 1 >> \in Seq(Nat) /\ Len(<< 255 >>) = 1 /\ Len(<< 1 >>) = 1
      OBVIOUS
    <3>2. Len(<< 255 >> \o << 1 >>) = Len(<< 255 >>) + Len(<< 1 >>)
      BY <3>1, ConcatType
    <3> QED
      BY <3>1, <3>2
  <2> QED
    BY <1>1, <2>1, <2>3, <2>4 DEF variadic_length_int_size
<1> QED
  BY <1>5, <1>6

\* The escape bytes that are written are those that have been counted.
LEMMA EbspLength ==
  ASSUME NEW s \in Seq(Byte), PlainData(s)
  PROVE  /\ copy_rbsp_to_ebsp(s) \in Seq(Byte)
         /\ count_emulation_prevention_bytes(s) \in Nat
         /\ Len(copy_rbsp_to_ebsp(s)) = Len(s) + count_emulation_prevention_bytes(s)
<1> DEFINE N == Len(s)
           T == { i \in DOMAIN s : AfterZeros(s, i) /\ s[i] = 3 }
           pieces == [ i \in DOMAIN s |-> IF AfterZeros(s, i) /\ s[i] <= 3 THEN << 3, s[i] >> ELSE << s[i] >> ]
<1>1. N \in Nat /\ DOMAIN s = 1 .. N /\ \A i \in 1 .. N : s[i] \in Byte
  OBVIOUS
<1>2. 3 \in Byte
  BY ByteIs
<1>3. ASSUME NEW i \in 1 .. N
      PROVE  /\ pieces[i] \in Seq(Byte)
             /\ Len(pieces[i]) = IF i \in T THEN 2 ELSE 1
  <2>1. pieces[i] = IF AfterZeros(s, i) /\ s[i] <= 3 THEN << 3, s[i] >> ELSE << s[i] >>
    BY <1>1
  <2>2. (AfterZeros(s, i) /\ s[i] <= 3) <=> i \in T
    <3>1. s[i] \in Nat /\ (AfterZeros(s, i) => s[i] > 2)
      BY <1>1, ByteIs DEF PlainData
    <3>2. AfterZeros(s, i) => (s[i] <= 3 <=> s[i] = 3)
      BY <3>1
    <3> QED
      BY <1>1, <3>1, <3>2
  <2>3. << 3, s[i] >> \in Seq(Byte) /\ << s[i] >> \in Seq(Byte) /\ Len(<< 3, s[i] >>) = 2 /\ Len(<< s[i] >>) = 1
    BY <1>1, <1>2
  <2> HIDE DEF pieces, T
  <2> QED
    BY <2>1, <2>2, <2>3
<1>4. pieces \in [ 1 .. N -> Seq(Byte) ] /\ T \subseteq 1 .. N
  <2>1. pieces = [ i \in 1 .. N |-> pieces[i] ]
    BY <1>1
  <2>2. T \subseteq 1 .. N
    BY <1>1
  <2> HIDE DEF pieces, T
  <2> QED
    BY <1>3, <2>1, <2>2
<1>5. copy_rbsp_to_ebsp(s) = FlattenSeq(pieces) /\ count_emulation_prevention_bytes(s) = Cardinality(T)
  BY DEF copy_rbsp_to_ebsp, count_emulation_prevention_bytes
<1> HIDE DEF pieces, T, N
<1>6. pieces \in Seq(Seq(Byte)) /\ Len(pieces) = N
  <2> DEFINE B == Seq(Byte)
  <2>1. pieces \in [ 1 .. N -> B ]
    BY <1>4
  <2> HIDE DEF B
  <2>2. pieces \in Seq(B) /\ Len(pieces) = N
    BY <1>1, <2>1, SequenceOf
  <2> QED
    BY <2>2 DEF B
<1>7. FlattenSeq(pieces) \in Seq(Byte)
  BY <1>6, FlattenType
<1> DEFINE C(n) == T \cap (1 .. n)
           g == [ n \in 0 .. N |-> n + Cardinality(C(n)) ]
<1>8. ASSUME NEW n \in Nat PROVE IsFiniteSet(C(n)) /\ Cardinality(C(n)) \in Nat
  <2>1. IsFiniteSet(1 .. n)
    BY FS_Interval
  <2>2. C(n) \in SUBSET (1 .. n)
    OBVIOUS
  <2> HIDE DEF C
  <2>3. IsFiniteSet(C(n))
    BY <2>1, <2>2, FS_Subset
  <2> QED
    BY <2>3, FS_CardinalityType
<1>9. ASSUME NEW n \in 1 .. N
      PROVE  Cardinality(C(n)) = Cardinality(C(n - 1)) + (IF n \in T THEN 1 ELSE 0)
  <2> DEFINE m == n - 1
  <2>1. m \in Nat /\ n = m + 1
    BY <1>1
  <2> HIDE DEF m
  <2>2. CASE n \in T
    <3>1. C(n) = C(m) \cup {n} /\ n \notin C(m)
      BY <2>1, <2>2
    <3> HIDE DEF C
    <3>2. Cardinality(C(m) \cup {n}) = Cardinality(C(m)) + 1
      BY <1>8, <2>1, <3>1, FS_AddElement
    <3> QED
      BY <2>2, <3>1, <3>2 DEF m
  <2>3. CASE n \notin T
    <3>1. C(n) = C(m)
      BY <2>1, <2>3
    <3>2. Cardinality(C(m)) \in Nat
      BY <1>8, <2>1
    <3> HIDE DEF C
    <3> QED
      BY <2>3, <3>1, <3>2 DEF m
  <2> QED
    BY <2>2, <2>3
<1>10. Cardinality(C(0)) = 0 /\ C(N) = T
  <2>1. 1 .. 0 = {}
    OBVIOUS
  <2>2. C(0) = {}
    BY <2>1
  <2>3. C(N) = T
    BY <1>4
  <2> QED
    BY <2>2, <2>3, FS_EmptySet
<1> HIDE DEF C
<1> DEFINE sizes == [ i \in 1 .. N |-> Len(pieces[i]) ]
<1>11. sizes \in [ 1 .. N -> Nat ] /\ \A i \in 1 .. N : sizes[i] = Len(pieces[i])
  <2>1. \A i \in 1 .. N : Len(pieces[i]) \in Nat
    BY <1>3
  <2> QED
    BY <2>1
<1> HIDE DEF sizes
<1>12. sizes \in Seq(Nat) /\ Len(sizes) = N
  BY <1>1, <1>11, SequenceOf
<1>13. Len(FlattenSeq(pieces)) = FoldLeft(+, 0, sizes)
  BY <1>6, <1>11, <1>12, FlattenLength
<1>14. PICK h : /\ FoldLeft(+, 0, sizes) = h[N]
                /\ h[0] = 0 /\ \A n \in 1 .. N : h[n] = h[n - 1] + sizes[n]
  <2>1. \E h : /\ FoldLeft(+, 0, sizes) = h[Len(sizes)]
               /\ h[0] = 0 /\ \A n \in 1 .. Len(sizes) : h[n] = h[n - 1] + sizes[n]
    BY <1>12, SumByPosition
  <2> QED
    BY <1>12, <2>1
<1> DEFINE Good(n) == h[n] = n + Cardinality(C(n))
           Bad == { n \in 0 .. N : ~ Good(n) }
<1>15. Bad = {}
  <2> SUFFICES ASSUME Bad # {} PROVE FALSE
    OBVIOUS
  <2>1. PICK n \in Bad : \A m \in Bad : n <= m
    <3>1. Bad \subseteq Nat
      BY <1>1
    <3> HIDE DEF Bad
    <3> QED
      BY <3>1, NatMin
  <2>2. n \in 0 .. N /\ ~ Good(n)
    BY <2>1
  <2>3. n # 0
    <3>1. h[0] = 0 + Cardinality(C(0))
      <4> DEFINE z == Cardinality(C(0))
                 y == h[0]
      <4>1. z = 0 /\ y = 0
        BY <1>10, <1>14
      <4> HIDE DEF y, z
      <4>2. y = 0 + z
        BY <4>1
      <4> QED
        BY <4>2 DEF y, z
    <3> QED
      BY <2>2, <3>1
  <2>4. n \in 1 .. N /\ n - 1 \in 0 .. N /\ n - 1 \in Nat /\ ~ (n <= n - 1)
    BY <1>1, <2>2, <2>3
  <2>5. Good(n - 1)
    <3>1. n - 1 \notin Bad
      <4> HIDE DEF Bad
      <4> QED
        BY <2>1, <2>4
    <3> QED
      BY <2>4, <3>1
  <2> DEFINE a == Cardinality(C(n - 1))
             x == IF n \in T THEN 1 ELSE 0
  <2>6. /\ h[n] = h[n - 1] + sizes[n] /\ h[n - 1] = (n - 1) + a /\ a \in Nat
        /\ sizes[n] = 1 + x /\ x \in Nat /\ Cardinality(C(n)) = a + x
    <3>1. sizes[n] = IF n \in T THEN 2 ELSE 1
      BY <1>3, <1>11, <2>4
    <3>2. a \in Nat
      BY <1>8, <2>4
    <3>3. h[n] = h[n - 1] + sizes[n]
      <4> HIDE DEF Bad
      <4> QED
        BY <1>14, <2>4
    <3>4. h[n - 1] = (n - 1) + a
      BY <2>5
    <3>5. Cardinality(C(n)) = a + x
      BY <1>9, <2>4
    <3>6. sizes[n] = 1 + x /\ x \in Nat
      BY <3>1
    <3> HIDE DEF a, x
    <3> QED
      BY <3>2, <3>3, <3>4, <3>5, <3>6
  <2> HIDE DEF a, x
  <2>7. h[n] = n + Cardinality(C(n))
    <3>1. n \in Nat
      BY <2>4
    <3>2. ((n - 1) + a) + (1 + x) = n + (a + x)
      BY <2>6, <3>1
    <3> QED
      BY <2>6, <3>2
  <2> QED
    BY <2>2, <2>7
<1>16. h[N] = N + Cardinality(T)
  <2>1. N \in 0 .. N
    BY <1>1
  <2> QED
    BY <1>10, <1>15, <2>1
<1>17. Cardinality(T) \in Nat
  BY <1>1, <1>8, <1>10
<1> QED
  BY <1>5, <1>7, <1>13, <1>14, <1>16, <1>17 DEF N

LEMMA PlainLength ==
  ASSUME NEW sei \in SeiPayload, Plain(sei)
  PROVE  Len(emit_sei_payload(sei)) = sei_payload_size_hint(sei)
<1> DEFINE s == sei.data
           n == Len(s)
           a == emit_variadic_length_int(sei.type)
           b == emit_variadic_length_int(n)
           r == copy_rbsp_to_ebsp(s)
           c == Append(r, 128)
           e == count_emulation_prevention_bytes(s)
<1>1. sei.type \in Nat /\ s \in Seq(Byte) /\ n \in Nat
  BY DEF SeiPayload
<1>2. s # << >> /\ n < 510 /\ sei.type < 510 /\ PlainData(s)
  BY DEF Plain
<1>3. a \in Seq(Byte) /\ b \in Seq(Byte)
  BY <1>1, LengthIntType
<1>4. Len(a) = variadic_length_int_size(sei.type) /\ Len(b) = variadic_length_int_size(n)
  BY <1>1, <1>2, NumberLength
<1>5. r \in Seq(Byte) /\ e \in Nat /\ Len(r) = n + e
  BY <1>1, <1>2, EbspLength
<1>6. emit_sei_payload(sei) = (a \o b) \o c
  BY <1>2 DEF emit_sei_payload, copy_sodb_to_ebsp
<1>7. sei_payload_size_hint(sei) = n + e + 1 + Len(b) + Len(a)
  BY <1>4 DEF sei_payload_size_hint
<1> HIDE DEF a, b, r, e, n, s
<1>8. c \in Seq(Byte) /\ Len(c) = (n + e) + 1
  <2>1. 128 \in Byte
    BY ByteIs
  <2>2. c \in Seq(Byte) /\ Len(c) = Len(r) + 1
    BY <1>5, <2>1
  <2> QED
    BY <1>5, <2>2
<1> HIDE DEF c
<1>9. a \o b \in Seq(Byte) /\ Len(a \o b) = Len(a) + Len(b)
  BY <1>3, ConcatType
<1>10. Len((a \o b) \o c) = (Len(a) + Len(b)) + ((n + e) + 1)
  <2>1. Len((a \o b) \o c) = Len(a \o b) + Len(c)
    BY <1>8, <1>9, ConcatType
  <2> QED
    BY <1>8, <1>9, <2>1
<1>11. Len(a) \in Nat /\ Len(b) \in Nat
  BY <1>3
<1> DEFINE la == Len(a)
           lb == Len(b)
<1>12. (la + lb) + ((n + e) + 1) = n + e + 1 + lb + la
  <2>1. la \in Nat /\ lb \in Nat /\ n \in Nat /\ e \in Nat
    BY <1>1, <1>5, <1>11
  <2> HIDE DEF la, lb
  <2> QED
    BY <2>1
<1> QED
  BY <1>6, <1>7, <1>10, <1>12

Hints(seis) == [ i \in DOMAIN seis |-> sei_payload_size_hint(seis[i]) ]
SeiUnit(seis) == << SEI >> \o FlattenSeq([ i \in DOMAIN seis |-> emit_sei_payload(seis[i]) ])

\* Then the SEI unit is written like any other.
LEMMA SeiUnitWritten ==
  ASSUME NEW seis \in Seq(SeiPayload), \A i \in DOMAIN seis : Plain(seis[i]),
         SumOf(Hints(seis)) < MAX_LENGTH
  PROVE  /\ SeiUnit(seis) \in Nalu /\ IsSei(SeiUnit(seis))
         /\ emit_sei_payloads_to_avcc_nalu(seis) = emit_avcc_nalu(SeiUnit(seis))
<1> DEFINE N == Len(seis)
           sizes == Hints(seis)
           pieces == [ i \in DOMAIN seis |-> emit_sei_payload(seis[i]) ]
           all == FlattenSeq(pieces)
           u == << SEI >> \o all
           m == SumOf(sizes)
<1>1. N \in Nat /\ DOMAIN seis = 1 .. N /\ \A i \in 1 .. N : seis[i] \in SeiPayload
  OBVIOUS
<1>2. ASSUME NEW i \in 1 .. N
      PROVE  /\ sizes[i] \in Nat /\ pieces[i] \in Seq(Byte) /\ sizes[i] = Len(pieces[i])
             /\ sizes[i] = sei_payload_size_hint(seis[i]) /\ pieces[i] = emit_sei_payload(seis[i])
  <2>1. sizes[i] = sei_payload_size_hint(seis[i]) /\ pieces[i] = emit_sei_payload(seis[i])
    BY <1>1 DEF Hints
  <2>2. seis[i] \in SeiPayload /\ Plain(seis[i])
    BY <1>1
  <2> HIDE DEF sizes, pieces
  <2>3. sei_payload_size_hint(seis[i]) \in Nat /\ emit_sei_payload(seis[i]) \in Seq(Byte)
        /\ Len(emit_sei_payload(seis[i])) = sei_payload_size_hint(seis[i])
    BY <2>2, HintType, PlainLength
  <2> QED
    BY <2>1, <2>3
<1>3. sizes \in Seq(Nat) /\ Len(sizes) = N /\ pieces \in Seq(Seq(Byte)) /\ Len(pieces) = N
  <2> DEFINE B == Seq(Byte)
  <2>1. DOMAIN sizes = 1 .. N /\ sizes = [ i \in 1 .. N |-> sizes[i] ]
    BY <1>1 DEF Hints
  <2>2. DOMAIN pieces = 1 .. N /\ pieces = [ i \in 1 .. N |-> pieces[i] ]
    BY <1>1
  <2>3. sizes \in [ 1 .. N -> Nat ]
    <3> HIDE DEF sizes, pieces
    <3> QED
      BY <1>2, <2>1
  <2>4. pieces \in [ 1 .. N -> B ]
    <3> HIDE DEF sizes, pieces
    <3> QED
      BY <1>2, <2>2
  <2> HIDE DEF sizes, pieces, B
  <2>5. sizes \in Seq(Nat) /\ Len(sizes) = N /\ pieces \in Seq(B) /\ Len(pieces) = N
    BY <1>1, <2>3, <2>4, SequenceOf
  <2> QED
    BY <2>5 DEF B
<1>4. emit_sei_payloads_to_avcc_nalu(seis) = emit_nalu_length(1 + m) \o << SEI >> \o all
  BY DEF emit_sei_payloads_to_avcc_nalu, Hints
<1>5. SeiUnit(seis) = u
  BY DEF SeiUnit
<1> HIDE DEF sizes, pieces, N
<1>6. all \in Seq(Byte) /\ Len(all) = m
  <2>1. \A i \in 1 .. Len(pieces) : sizes[i] = Len(pieces[i])
    BY <1>2, <1>3
  <2>2. Len(sizes) = Len(pieces)
    BY <1>3
  <2> QED
    BY <1>3, <2>1, <2>2, FlattenType, FlattenLength DEF SumOf
<1>7. m \in Nat /\ m < MAX_LENGTH
  <2>1. Len(all) \in Nat
    BY <1>6
  <2> QED
    BY <1>6, <2>1 DEF sizes
<1> HIDE DEF m, all
<1>8. << SEI >> \in Seq(Byte) /\ Len(<< SEI >>) = 1 /\ << SEI >>[1] = SEI
  <2>1. SEI \in Byte
    BY ByteIs DEF SEI
  <2> QED
    BY <2>1
<1>9. u \in Seq(Byte) /\ Len(u) = 1 + m /\ u[1] = SEI
  <2>1. /\ u \in Seq(Byte) /\ Len(u) = Len(<< SEI >>) + Len(all)
        /\ \A i \in 1 .. Len(<< SEI >>) + Len(all) :
             u[i] = IF i <= Len(<< SEI >>) THEN << SEI >>[i] ELSE all[i - Len(<< SEI >>)]
    BY <1>6, <1>8, ConcatProperties
  <2>2. Len(u) = 1 + m /\ u[1] = << SEI >>[1]
    <3>1. \A i \in 1 .. 1 + m : u[i] = IF i <= 1 THEN << SEI >>[i] ELSE all[i - 1]
      BY <1>6, <1>8, <2>1
    <3>2. 1 \in 1 .. 1 + m /\ 1 <= 1
      BY <1>7
    <3>3. u[1] = << SEI >>[1]
      BY <3>1, <3>2
    <3>4. Len(u) = 1 + m
      BY <1>6, <1>8, <2>1
    <3> QED
      BY <3>3, <3>4
  <2> QED
    BY <1>8, <2>1, <2>2
<1>10. emit_nalu_length(1 + m) \o << SEI >> \o all = emit_nalu_length(1 + m) \o u
  <2>1. emit_nalu_length(1 + m) \in Seq(Byte)
    BY <1>7, NaluLengthType
  <2> QED
    BY <1>6, <1>8, <2>1, ConcatAssociative
<1> HIDE DEF u
<1>11. u \in Nalu
  <2>1. 1 + m <= MAX_LENGTH /\ 1 + m # 0
    BY <1>7 DEF MAX_LENGTH
  <2>2. Len(<< >>) = 0
    OBVIOUS
  <2> QED
    BY <1>9, <2>1, <2>2 DEF Nalu
<1>12. IsSei(u)
  BY <1>9 DEF IsSei, NaluType, SEI
<1> QED
  BY <1>4, <1>5, <1>9, <1>10, <1>11, <1>12 DEF emit_avcc_nalu

-----------------------------------------------------------------------------
(* emulation prevention is undone by the reader *)

LEMMA Regroup ==
  ASSUME NEW a \in Seq(Byte), NEW b \in Seq(Byte), NEW c \in Seq(Byte)
  PROVE  (a \o b) \o c = a \o (b \o c)
BY ConcatAssociative

LEMMA ThreeIsByte == 3 \in Byte
BY ByteIs

LEMMA OneMore ==
  ASSUME NEW S, NEW s \in Seq(S), NEW x \in S
  PROVE  /\ s \o << x >> \in Seq(S) /\ Len(s \o << x >>) = Len(s) + 1
         /\ (s \o << x >>)[Len(s) + 1] = x
         /\ \A i \in 1 .. Len(s) : (s \o << x >>)[i] = s[i]
<1>1. << x >> \in Seq(S) /\ Len(<< x >>) = 1 /\ << x >>[1] = x
  OBVIOUS
<1>2. /\ Len(s \o << x >>) = Len(s) + Len(<< x >>) /\ s \o << x >> \in Seq(S)
      /\ \A i \in 1 .. Len(s) + Len(<< x >>) :
           (s \o << x >>)[i] = IF i <= Len(s) THEN s[i] ELSE << x >>[i - Len(s)]
  BY <1>1, ConcatAt, ConcatType
<1> DEFINE t == s \o << x >>
           n == Len(s)
<1>3. n \in Nat /\ Len(t) = n + 1 /\ t \in Seq(S) /\ \A i \in 1 .. n + 1 : t[i] = IF i <= n THEN s[i] ELSE << x >>[i - n]
  BY <1>1, <1>2
<1> HIDE DEF t, n
<1>4. n + 1 \in 1 .. n + 1 /\ ~ (n + 1 <= n) /\ (n + 1) - n = 1 /\ \A i \in 1 .. n : i \in 1 .. n + 1 /\ i <= n
  BY <1>3
<1>5. t[n + 1] = << x >>[1]
  BY <1>3, <1>4
<1> QED
  BY <1>1, <1>3, <1>4, <1>5 DEF t, n

Begins(s, t) == Len(s) <= Len(t) /\ \A i \in 1 .. Len(s) : t[i] = s[i]
Behind(s, t) == SubSeq(t, Len(s) + 1, Len(t))

LEMMA Extended ==
  ASSUME NEW S, NEW s \in Seq(S), NEW t \in Seq(S), Begins(s, t)
  PROVE  /\ Behind(s, t) \in Seq(S) /\ t = s \o Behind(s, t)
         /\ Len(t) = Len(s) + 1 => t = s \o << t[Len(t)] >>
<1> DEFINE m == Len(s)
           n == Len(t)
           q == SubSeq(t, m + 1, n)
<1>1. m \in Nat /\ n \in Nat /\ m <= n /\ m + 1 \in Nat \ {0} /\ n <= Len(t)
  BY DEF Begins
<1>2. /\ q \in Seq(S) /\ Len(q) = IF m + 1 <= n THEN n - (m + 1) + 1 ELSE 0
      /\ \A i \in 1 .. Len(q) : q[i] = t[(m + 1) + i - 1]
  BY <1>1, SubSeqType
<1> HIDE DEF q
<1>3. Len(q) = n - m /\ \A i \in 1 .. Len(q) : q[i] = t[m + i]
  <2>1. Len(q) = n - m
    BY <1>1, <1>2
  <2>2. \A i \in 1 .. Len(q) : (m + 1) + i - 1 = m + i
    BY <1>1
  <2> QED
    BY <1>2, <2>1, <2>2
<1>4. t = s \o q
  <2>1. /\ Len(s \o q) = m + Len(q) /\ s \o q \in Seq(S)
        /\ \A i \in 1 .. m + Len(q) : (s \o q)[i] = IF i <= m THEN s[i] ELSE q[i - m]
    BY <1>2, ConcatAt, ConcatType
  <2>2. m + Len(q) = n
    BY <1>1, <1>3
  <2>3. \A i \in 1 .. n : (s \o q)[i] = t[i]
    <3> SUFFICES ASSUME NEW i \in 1 .. n PROVE (s \o q)[i] = t[i]
      OBVIOUS
    <3>1. CASE i <= m
      <4>1. i \in 1 .. m
        BY <1>1, <3>1
      <4>2. t[i] = s[i]
        BY <4>1 DEF Begins
      <4> QED
        BY <2>1, <2>2, <3>1, <4>1, <4>2
    <3>2. CASE ~ (i <= m)
      <4>1. i - m \in 1 .. Len(q) /\ m + (i - m) = i
        BY <1>1, <1>3, <3>2
      <4>2. q[i - m] = t[i]
        BY <1>3, <4>1
      <4> QED
        BY <2>1, <2>2, <3>2, <4>2
    <3> QED
      BY <3>1, <3>2
  <2> DEFINE r == s \o q
  <2>4. r \in Seq(S) /\ Len(r) = n /\ \A i \in 1 .. n : r[i] = t[i]
    BY <2>1, <2>2, <2>3
  <2> HIDE DEF r, q
  <2>5. r = t
    BY <2>4
  <2> QED
    BY <2>5 DEF r
<1>5. ASSUME n = m + 1 PROVE q = << t[n] >>
  <2>1. Len(q) = 1 /\ m + 1 = n /\ 1 \in 1 .. 1
    BY <1>1, <1>3, <1>5
  <2>2. q[1] = t[n]
    BY <1>3, <2>1
  <2> QED
    BY <1>2, <2>1, <2>2
<1>6. q = Behind(s, t)
  BY DEF q, Behind
<1> QED
  BY <1>2, <1>4, <1>5, <1>6

\* The bytes end with a zero, or with two.
EndsZero(s) == Len(s) > 0 /\ s[Len(s)] = 0
EndsZeros(s) == Len(s) > 1 /\ s[Len(s)] = 0 /\ s[Len(s) - 1] = 0

LEMMA EndsAfter ==
  ASSUME NEW s \in Seq(Byte), NEW b \in Byte
  PROVE  /\ EndsZero(s \o << b >>) <=> b = 0
         /\ EndsZeros(s \o << b >>) <=> b = 0 /\ EndsZero(s)
<1> DEFINE t == s \o << b >>
           n == Len(s)
<1>1. n \in Nat /\ Len(t) = n + 1 /\ t[n + 1] = b /\ \A i \in 1 .. n : t[i] = s[i]
  BY OneMore
<1> HIDE DEF t, n
<1>2. n + 1 > 0 /\ (n + 1) - 1 = n /\ (n + 1 > 1 <=> n > 0) /\ (n > 0 => n \in 1 .. n)
  BY <1>1
<1>3. EndsZero(t) <=> b = 0
  BY <1>1, <1>2 DEF EndsZero
<1>4. EndsZeros(t) <=> n > 0 /\ b = 0 /\ t[n] = 0
  BY <1>1, <1>2 DEF EndsZeros
<1>5. EndsZero(s) <=> n > 0 /\ s[n] = 0
  BY DEF EndsZero, n
<1>6. n > 0 => t[n] = s[n]
  BY <1>1, <1>2
<1> QED
  BY <1>3, <1>4, <1>5, <1>6 DEF t

\* A byte of the first sequence follows two zeros in both or in none.
LEMMA ZerosBefore ==
  ASSUME NEW s \in Seq(Byte), NEW t \in Seq(Byte), Begins(s, t)
  PROVE  /\ \A i \in 1 .. Len(s) : AfterZeros(t, i) <=> AfterZeros(s, i)
         /\ AfterZeros(t, Len(s) + 1) <=> EndsZeros(s)
<1>1. Len(s) \in Nat
  OBVIOUS
<1> DEFINE n == Len(s)
<1> HIDE DEF n
<1>2. ASSUME NEW i \in 1 .. n PROVE AfterZeros(t, i) <=> AfterZeros(s, i)
  <2>1. i > 2 => i - 2 \in 1 .. n /\ i - 1 \in 1 .. n
    BY <1>1 DEF n
  <2> QED
    BY <2>1 DEF AfterZeros, Begins, n
<1>3. AfterZeros(t, n + 1) <=> EndsZeros(s)
  <2>1. (n + 1 > 2 <=> n > 1) /\ (n + 1) - 2 = n - 1 /\ (n + 1) - 1 = n
        /\ (n > 1 => n \in 1 .. n /\ n - 1 \in 1 .. n)
    BY <1>1 DEF n
  <2>2. AfterZeros(t, n + 1) <=> n > 1 /\ t[n - 1] = 0 /\ t[n] = 0
    BY <2>1 DEF AfterZeros
  <2>3. n > 1 => t[n - 1] = s[n - 1] /\ t[n] = s[n]
    BY <2>1 DEF n, Begins
  <2>4. EndsZeros(s) <=> n > 1 /\ s[n] = 0 /\ s[n - 1] = 0
    BY DEF EndsZeros, n
  <2> QED
    BY <2>2, <2>3, <2>4
<1> QED
  BY <1>2, <1>3 DEF n

\* what becomes of each byte, when it is written and when it is read
Escaping(s) ==
  [ i \in DOMAIN s |-> IF AfterZeros(s, i) /\ s[i] <= 3 THEN << 3, s[i] >> ELSE << s[i] >> ]
Unescaping(s) ==
  [ i \in DOMAIN s |-> IF AfterZeros(s, i) /\ s[i] = 3 THEN << >> ELSE << s[i] >> ]

LEMMA PiecesType ==
  ASSUME NEW s \in Seq(Byte)
  PROVE  /\ Escaping(s) \in Seq(Seq(Byte)) /\ Len(Escaping(s)) = Len(s)
         /\ Unescaping(s) \in Seq(Seq(Byte)) /\ Len(Unescaping(s)) = Len(s)
         /\ \A i \in 1 .. Len(s) :
              /\ Escaping(s)[i] = IF AfterZeros(s, i) /\ s[i] <= 3 THEN << 3, s[i] >> ELSE << s[i] >>
              /\ Unescaping(s)[i] = IF AfterZeros(s, i) /\ s[i] = 3 THEN << >> ELSE << s[i] >>
<1> DEFINE B == Seq(Byte)
           n == Len(s)
<1>1. n \in Nat /\ DOMAIN s = 1 .. n /\ \A i \in 1 .. n : s[i] \in Byte
  OBVIOUS
<1>2. 3 \in Byte
  BY ByteIs
<1>3. \A i \in 1 .. n : << 3, s[i] >> \in B /\ << s[i] >> \in B /\ << >> \in B
  BY <1>1, <1>2
<1> HIDE DEF B, n
<1>4. /\ Escaping(s) = [ i \in 1 .. n |-> IF AfterZeros(s, i) /\ s[i] <= 3 THEN << 3, s[i] >> ELSE << s[i] >> ]
      /\ Unescaping(s) = [ i \in 1 .. n |-> IF AfterZeros(s, i) /\ s[i] = 3 THEN << >> ELSE << s[i] >> ]
  BY <1>1 DEF Escaping, Unescaping
<1>5. Escaping(s) \in [ 1 .. n -> B ] /\ Unescaping(s) \in [ 1 .. n -> B ]
  BY <1>3, <1>4
<1>6. Escaping(s) \in Seq(B) /\ Len(Escaping(s)) = n /\ Unescaping(s) \in Seq(B) /\ Len(Unescaping(s)) = n
  BY <1>1, <1>5, SequenceOf
<1> QED
  BY <1>4, <1>6 DEF B, n

\* What is read of the first bytes does not depend on those that follow.
LEMMA ReadOn ==
  ASSUME NEW s \in Seq(Byte), NEW t \in Seq(Byte)
  PROVE  \E c \in Seq(Byte) : copy_ebsp_to_rbsp(s \o t) = copy_ebsp_to_rbsp(s) \o c
<1> DEFINE u == s \o t
           p == Unescaping(s)
           q == Unescaping(u)
<1>1. u \in Seq(Byte) /\ Len(s) \in Nat /\ Begins(s, u)
  <2>1. /\ u \in Seq(Byte) /\ Len(u) = Len(s) + Len(t) /\ Len(s) \in Nat /\ Len(t) \in Nat
        /\ \A i \in 1 .. Len(s) + Len(t) : u[i] = IF i <= Len(s) THEN s[i] ELSE t[i - Len(s)]
    BY ConcatAt, ConcatType
  <2> HIDE DEF u
  <2>2. \A i \in 1 .. Len(s) : i \in 1 .. Len(s) + Len(t) /\ i <= Len(s)
    BY <2>1
  <2> QED
    BY <2>1, <2>2 DEF Begins
<1> HIDE DEF u
<1>2. /\ p \in Seq(Seq(Byte)) /\ Len(p) = Len(s) /\ q \in Seq(Seq(Byte)) /\ Len(q) = Len(u)
      /\ \A i \in 1 .. Len(s) : p[i] = IF AfterZeros(s, i) /\ s[i] = 3 THEN << >> ELSE << s[i] >>
      /\ \A i \in 1 .. Len(u) : q[i] = IF AfterZeros(u, i) /\ u[i] = 3 THEN << >> ELSE << u[i] >>
  BY <1>1, PiecesType
<1>3. \A i \in 1 .. Len(s) : q[i] = p[i]
  <2> SUFFICES ASSUME NEW i \in 1 .. Len(s) PROVE q[i] = p[i]
    OBVIOUS
  <2>1. Len(s) \in Nat /\ Len(u) \in Nat
    BY <1>1
  <2>2. i \in 1 .. Len(u)
    BY <1>1, <2>1 DEF Begins
  <2>3. (AfterZeros(u, i) <=> AfterZeros(s, i)) /\ u[i] = s[i]
    BY <1>1, ZerosBefore DEF Begins
  <2> QED
    BY <1>2, <2>2, <2>3
<1> HIDE DEF p, q
<1> DEFINE B == Seq(Byte)
           r == Behind(p, q)
<1>4. r \in Seq(B) /\ q = p \o r
  <2> HIDE DEF B
  <2>1. p \in Seq(B) /\ q \in Seq(B) /\ Begins(p, q)
    BY <1>1, <1>2, <1>3 DEF B, Begins
  <2> QED
    BY <2>1, Extended
<1> HIDE DEF r
<1>5. FlattenSeq(q) = FlattenSeq(p) \o FlattenSeq(r)
  BY <1>2, <1>4, FlattenConcat
<1>6. FlattenSeq(r) \in Seq(Byte)
  BY <1>4, FlattenType
<1>7. copy_ebsp_to_rbsp(u) = FlattenSeq(q) /\ copy_ebsp_to_rbsp(s) = FlattenSeq(p)
  BY DEF copy_ebsp_to_rbsp, p, q, Unescaping
<1> QED
  BY <1>5, <1>6, <1>7 DEF u

\* One more byte is written, or read.
LEMMA OneMorePiece ==
  ASSUME NEW s \in Seq(Byte), NEW b \in Byte
  PROVE  /\ copy_rbsp_to_ebsp(s \o << b >>) =
              copy_rbsp_to_ebsp(s) \o (IF EndsZeros(s) /\ b <= 3 THEN << 3, b >> ELSE << b >>)
         /\ copy_ebsp_to_rbsp(s \o << b >>) =
              copy_ebsp_to_rbsp(s) \o (IF EndsZeros(s) /\ b = 3 THEN << >> ELSE << b >>)
<1> DEFINE t == s \o << b >>
           n == Len(s)
           B == Seq(Byte)
           e == IF EndsZeros(s) /\ b <= 3 THEN << 3, b >> ELSE << b >>
           r == IF EndsZeros(s) /\ b = 3 THEN << >> ELSE << b >>
<1>1. n \in Nat /\ t \in Seq(Byte) /\ Len(t) = n + 1 /\ t[n + 1] = b /\ \A i \in 1 .. n : t[i] = s[i]
  BY OneMore
<1>2. e \in B /\ r \in B
  <2>1. 3 \in Byte
    BY ByteIs
  <2>2. << 3, b >> \in Seq(Byte) /\ << b >> \in Seq(Byte) /\ << >> \in Seq(Byte)
    BY <2>1
  <2> QED
    BY <2>2
<1> HIDE DEF t
<1>3. Begins(s, t)
  BY <1>1 DEF Begins
<1>4. /\ \A i \in 1 .. n : AfterZeros(t, i) <=> AfterZeros(s, i)
      /\ AfterZeros(t, n + 1) <=> EndsZeros(s)
  BY <1>1, <1>3, ZerosBefore
<1>5. /\ Escaping(s) \in Seq(B) /\ Len(Escaping(s)) = n
      /\ Unescaping(s) \in Seq(B) /\ Len(Unescaping(s)) = n
      /\ \A i \in 1 .. n :
           /\ Escaping(s)[i] = IF AfterZeros(s, i) /\ s[i] <= 3 THEN << 3, s[i] >> ELSE << s[i] >>
           /\ Unescaping(s)[i] = IF AfterZeros(s, i) /\ s[i] = 3 THEN << >> ELSE << s[i] >>
  BY PiecesType
<1>6. /\ Escaping(t) \in Seq(B) /\ Len(Escaping(t)) = n + 1
      /\ Unescaping(t) \in Seq(B) /\ Len(Unescaping(t)) = n + 1
      /\ \A i \in 1 .. n + 1 :
           /\ Escaping(t)[i] = IF AfterZeros(t, i) /\ t[i] <= 3 THEN << 3, t[i] >> ELSE << t[i] >>
           /\ Unescaping(t)[i] = IF AfterZeros(t, i) /\ t[i] = 3 THEN << >> ELSE << t[i] >>
  <2>1. /\ Escaping(t) \in Seq(Seq(Byte)) /\ Len(Escaping(t)) = Len(t)
        /\ Unescaping(t) \in Seq(Seq(Byte)) /\ Len(Unescaping(t)) = Len(t)
        /\ \A i \in 1 .. Len(t) :
             /\ Escaping(t)[i] = IF AfterZeros(t, i) /\ t[i] <= 3 THEN << 3, t[i] >> ELSE << t[i] >>
             /\ Unescaping(t)[i] = IF AfterZeros(t, i) /\ t[i] = 3 THEN << >> ELSE << t[i] >>
    BY <1>1, PiecesType
  <2> QED
    BY <1>1, <2>1
<1> HIDE DEF n
<1>7. n + 1 \in 1 .. n + 1 /\ \A i \in 1 .. n : i \in 1 .. n + 1
  BY <1>1
<1>8. Escaping(t)[n + 1] = e /\ Unescaping(t)[n + 1] = r
  BY <1>1, <1>4, <1>6, <1>7
<1>9. \A i \in 1 .. n : Escaping(t)[i] = Escaping(s)[i] /\ Unescaping(t)[i] = Unescaping(s)[i]
  <2> SUFFICES ASSUME NEW i \in 1 .. n
               PROVE  Escaping(t)[i] = Escaping(s)[i] /\ Unescaping(t)[i] = Unescaping(s)[i]
    OBVIOUS
  <2>1. i \in 1 .. n + 1
    BY <1>7
  <2>2. t[i] = s[i] /\ (AfterZeros(t, i) <=> AfterZeros(s, i))
    BY <1>1, <1>4
  <2>3. /\ Escaping(t)[i] = IF AfterZeros(t, i) /\ t[i] <= 3 THEN << 3, t[i] >> ELSE << t[i] >>
        /\ Unescaping(t)[i] = IF AfterZeros(t, i) /\ t[i] = 3 THEN << >> ELSE << t[i] >>
    BY <1>6, <2>1
  <2>4. /\ Escaping(s)[i] = IF AfterZeros(s, i) /\ s[i] <= 3 THEN << 3, s[i] >> ELSE << s[i] >>
        /\ Unescaping(s)[i] = IF AfterZeros(s, i) /\ s[i] = 3 THEN << >> ELSE << s[i] >>
    BY <1>5
  <2>5. CASE AfterZeros(s, i)
    BY <2>2, <2>3, <2>4, <2>5
  <2>6. CASE ~ AfterZeros(s, i)
    BY <2>2, <2>3, <2>4, <2>6
  <2> QED
    BY <2>5, <2>6
<1> HIDE DEF e, r, B
<1>10. n <= n + 1
  BY <1>1
<1>11. Begins(Escaping(s), Escaping(t)) /\ Begins(Unescaping(s), Unescaping(t))
  BY <1>5, <1>6, <1>9, <1>10 DEF Begins
<1>12. Escaping(t) = Escaping(s) \o << Escaping(t)[n + 1] >>
  <2>1. Len(Escaping(t)) = Len(Escaping(s)) + 1
    BY <1>5, <1>6
  <2>2. Escaping(t) = Escaping(s) \o << Escaping(t)[Len(Escaping(t))] >>
    BY <1>5, <1>6, <1>11, <2>1, Extended
  <2> QED
    BY <1>6, <2>2
<1>13. Unescaping(t) = Unescaping(s) \o << Unescaping(t)[n + 1] >>
  <2>1. Len(Unescaping(t)) = Len(Unescaping(s)) + 1
    BY <1>5, <1>6
  <2>2. Unescaping(t) = Unescaping(s) \o << Unescaping(t)[Len(Unescaping(t))] >>
    BY <1>5, <1>6, <1>11, <2>1, Extended
  <2> QED
    BY <1>6, <2>2
<1>14. /\ FlattenSeq(Escaping(s) \o << e >>) = FlattenSeq(Escaping(s)) \o e
       /\ FlattenSeq(Unescaping(s) \o << r >>) = FlattenSeq(Unescaping(s)) \o r
  <2>1. Escaping(s) \in Seq(Seq(Byte)) /\ Unescaping(s) \in Seq(Seq(Byte)) /\ e \in Seq(Byte) /\ r \in Seq(Byte)
    BY <1>2, <1>5 DEF B
  <2> QED
    BY <2>1, FlattenSnoc
<1>15. /\ copy_rbsp_to_ebsp(t) = FlattenSeq(Escaping(t)) /\ copy_rbsp_to_ebsp(s) = FlattenSeq(Escaping(s))
       /\ copy_ebsp_to_rbsp(t) = FlattenSeq(Unescaping(t)) /\ copy_ebsp_to_rbsp(s) = FlattenSeq(Unescaping(s))
  BY DEF copy_rbsp_to_ebsp, copy_ebsp_to_rbsp, Escaping, Unescaping
<1> QED
  BY <1>8, <1>12, <1>13, <1>14, <1>15 DEF t, e, r

LEMMA NothingWritten ==
  copy_rbsp_to_ebsp(<< >>) = << >> /\ copy_ebsp_to_rbsp(<< >>) = << >>
<1>1. << >> \in Seq(Byte) /\ Len(<< >>) = 0
  OBVIOUS
<1>2. Escaping(<< >>) \in Seq(Seq(Byte)) /\ Len(Escaping(<< >>)) = 0
      /\ Unescaping(<< >>) \in Seq(Seq(Byte)) /\ Len(Unescaping(<< >>)) = 0
  BY <1>1, PiecesType
<1>3. Escaping(<< >>) = << >> /\ Unescaping(<< >>) = << >>
  <2> DEFINE B == Seq(Byte)
             p == Escaping(<< >>)
             q == Unescaping(<< >>)
  <2>1. p \in Seq(B) /\ q \in Seq(B) /\ Len(p) = 0 /\ Len(q) = 0
    BY <1>2
  <2> HIDE DEF B, p, q
  <2>2. p = << >> /\ q = << >>
    BY <2>1
  <2> QED
    BY <2>2 DEF p, q
<1>4. copy_rbsp_to_ebsp(<< >>) = FlattenSeq(Escaping(<< >>)) /\ copy_ebsp_to_rbsp(<< >>) = FlattenSeq(Unescaping(<< >>))
  BY DEF copy_rbsp_to_ebsp, copy_ebsp_to_rbsp, Escaping, Unescaping
<1> QED
  BY <1>3, <1>4, FlattenEmpty

\* Behind p, a is read as it was before it was written, and bytes that follow
\* are escaped in one where they are escaped in the other.
ReadBack(p, a) ==
  LET w == p \o copy_rbsp_to_ebsp(a)
  IN /\ w \in Seq(Byte)
     /\ copy_ebsp_to_rbsp(w) = copy_ebsp_to_rbsp(p) \o a
     /\ EndsZero(w) <=> EndsZero(a)
     /\ EndsZeros(w) <=> EndsZeros(a)

LEMMA OneMoreReadBack ==
  ASSUME NEW p \in Seq(Byte), NEW a \in Seq(Byte), NEW b \in Byte,
         EndsZeros(a) => b > 2, copy_rbsp_to_ebsp(a) \in Seq(Byte), ReadBack(p, a)
  PROVE  ReadBack(p, a \o << b >>) /\ copy_rbsp_to_ebsp(a \o << b >>) \in Seq(Byte)
<1> DEFINE e == copy_rbsp_to_ebsp(a)
           w == p \o e
           put == IF EndsZeros(a) /\ b <= 3 THEN << 3, b >> ELSE << b >>
           q == copy_ebsp_to_rbsp(p)
<1>1. /\ w \in Seq(Byte) /\ copy_ebsp_to_rbsp(w) = q \o a
      /\ EndsZero(w) <=> EndsZero(a)
      /\ EndsZeros(w) <=> EndsZeros(a)
  BY DEF ReadBack
<1>2. 3 \in Byte /\ b \in Nat
  <2>1. 3 \in Byte
    BY ThreeIsByte
  <2>2. b \in Nat
    BY ByteIs
  <2> QED
    BY <2>1, <2>2
<1>3. << b >> \in Seq(Byte) /\ << 3 >> \in Seq(Byte) /\ << 3, b >> \in Seq(Byte)
  BY <1>2
<1>4. put \in Seq(Byte)
  BY <1>3
<1>5. copy_rbsp_to_ebsp(a \o << b >>) = e \o put
  BY OneMorePiece
<1>6. q \in Seq(Byte) /\ e \in Seq(Byte)
  BY RbspType
<1> HIDE DEF put, e, q
<1>7. e \o put \in Seq(Byte)
  BY <1>4, <1>6, ConcatType
<1>8. p \o (e \o put) = w \o put
  <2>1. (p \o e) \o put = p \o (e \o put)
    <3>1. p \in Seq(Byte) /\ e \in Seq(Byte) /\ put \in Seq(Byte)
      BY <1>4, <1>6
    <3> QED
      BY <3>1, Regroup, ZenonT(20)
  <2> QED
    BY <2>1
<1> HIDE DEF w
<1>9. q \o (a \o << b >>) = (q \o a) \o << b >>
  BY <1>3, <1>6, ConcatAssociative
<1>10. /\ w \o put \in Seq(Byte)
       /\ copy_ebsp_to_rbsp(w \o put) = (q \o a) \o << b >>
       /\ EndsZero(w \o put) <=> b = 0
       /\ EndsZeros(w \o put) <=> b = 0 /\ EndsZero(a)
  <2>1. w \o put \in Seq(Byte)
    BY <1>1, <1>4, ConcatType
  <2>2. CASE ~ (EndsZeros(a) /\ b <= 3)
    <3>1. put = << b >>
      BY <2>2 DEF put
    <3>2. ~ (EndsZeros(w) /\ b = 3)
      BY <1>1, <1>2, <2>2
    <3>3. copy_ebsp_to_rbsp(w \o << b >>) = copy_ebsp_to_rbsp(w) \o << b >>
      BY <1>1, <3>2, OneMorePiece
    <3>4. (EndsZero(w \o << b >>) <=> b = 0) /\ (EndsZeros(w \o << b >>) <=> b = 0 /\ EndsZero(w))
      BY <1>1, EndsAfter
    <3> QED
      BY <1>1, <2>1, <3>1, <3>3, <3>4
  <2>3. CASE EndsZeros(a) /\ b <= 3
    <3>1. b = 3 /\ EndsZeros(w)
      BY <1>1, <1>2, <2>3
    <3> DEFINE v == w \o << 3 >>
    <3>2. put = << 3 >> \o << 3 >>
      BY <2>3, <3>1 DEF put
    <3>3. v \in Seq(Byte) /\ w \o put = v \o << 3 >>
      BY <1>1, <1>3, <3>2, ConcatType, ConcatAssociative
    <3>4. copy_ebsp_to_rbsp(v) = copy_ebsp_to_rbsp(w)
      <4>1. copy_ebsp_to_rbsp(v) = copy_ebsp_to_rbsp(w) \o << >>
        BY <1>1, <1>2, <3>1, OneMorePiece
      <4>2. copy_ebsp_to_rbsp(w) \in Seq(Byte)
        BY <1>1, RbspType
      <4>3. copy_ebsp_to_rbsp(w) \o << >> = copy_ebsp_to_rbsp(w)
        BY <4>2, ConcatEmptySeq
      <4> QED
        BY <4>1, <4>3
    <3>5. 3 # 0
      OBVIOUS
    <3>6. ~ EndsZero(v) /\ ~ EndsZeros(v)
      BY <1>1, <1>2, <3>5, EndsAfter
    <3> HIDE DEF v
    <3>7. copy_ebsp_to_rbsp(v \o << 3 >>) = copy_ebsp_to_rbsp(v) \o << 3 >>
      BY <1>2, <3>3, <3>6, OneMorePiece
    <3>8. ~ EndsZero(v \o << 3 >>) /\ ~ EndsZeros(v \o << 3 >>)
      BY <1>2, <3>3, <3>5, EndsAfter
    <3> QED
      BY <1>1, <2>1, <3>1, <3>3, <3>4, <3>5, <3>7, <3>8
  <2> QED
    BY <2>2, <2>3
<1>11. (EndsZero(a \o << b >>) <=> b = 0) /\ (EndsZeros(a \o << b >>) <=> b = 0 /\ EndsZero(a))
  BY EndsAfter
<1> DEFINE c == a \o << b >>
           f == e \o put
<1>12. /\ copy_rbsp_to_ebsp(c) = f /\ p \o f = w \o put /\ q \o c = (q \o a) \o << b >>
       /\ (EndsZero(c) <=> b = 0) /\ (EndsZeros(c) <=> b = 0 /\ EndsZero(a))
  BY <1>5, <1>8, <1>9, <1>11
<1> HIDE DEF c, f
<1>13. ReadBack(p, c)
  BY <1>10, <1>12 DEF ReadBack, q
<1> QED
  BY <1>5, <1>7, <1>13 DEF c

LEMMA ReadAsWritten ==
  ASSUME NEW p \in Seq(Byte), ~ EndsZero(p), NEW s \in Seq(Byte), PlainData(s)
  PROVE  /\ copy_rbsp_to_ebsp(s) \in Seq(Byte)
         /\ copy_ebsp_to_rbsp(p \o copy_rbsp_to_ebsp(s)) = copy_ebsp_to_rbsp(p) \o s
<1> DEFINE N == Len(s)
           to(n) == SubSeq(s, 1, n)
           Good(n) == ReadBack(p, to(n)) /\ copy_rbsp_to_ebsp(to(n)) \in Seq(Byte)
           Bad == { n \in 0 .. N : ~ Good(n) }
<1>1. N \in Nat /\ DOMAIN s = 1 .. N /\ to(0) = << >> /\ to(N) = s
  OBVIOUS
<1>2. Good(0)
  <2>1. p \o << >> = p /\ copy_ebsp_to_rbsp(p) \o << >> = copy_ebsp_to_rbsp(p)
    BY RbspType, ConcatEmptySeq
  <2>2. Len(<< >>) = 0 /\ ~ (0 > 0) /\ ~ (0 > 1) /\ << >> \in Seq(Byte)
    OBVIOUS
  <2>3. ~ EndsZero(<< >>) /\ ~ EndsZeros(<< >>)
    BY <2>2 DEF EndsZero, EndsZeros
  <2>4. ~ EndsZeros(p)
    <3>1. Len(p) \in Nat
      OBVIOUS
    <3> QED
      BY <3>1 DEF EndsZero, EndsZeros
  <2>5. ReadBack(p, << >>)
    BY <2>1, <2>3, <2>4, NothingWritten DEF ReadBack
  <2> QED
    BY <1>1, <2>2, <2>5, NothingWritten
<1>3. ASSUME NEW n \in Nat, n < N, Good(n)
      PROVE  Good(n + 1)
  <2> DEFINE a == to(n)
             b == s[n + 1]
  <2>1. a \in Seq(Byte) /\ b \in Byte /\ to(n + 1) = a \o << b >>
    BY <1>3, Around
  <2>2. Len(a) = n /\ Begins(a, s)
    <3>1. Len(a) = n /\ \A i \in 1 .. n : s[i] = a[i]
      BY <1>3
    <3> HIDE DEF a
    <3> QED
      BY <1>1, <1>3, <3>1 DEF Begins
  <2>3. EndsZeros(a) => b > 2
    <3>1. AfterZeros(s, n + 1) <=> EndsZeros(a)
      BY <2>1, <2>2, ZerosBefore
    <3>2. n + 1 \in DOMAIN s
      BY <1>1, <1>3
    <3> QED
      BY <3>1, <3>2 DEF PlainData
  <2>4. ReadBack(p, a) /\ copy_rbsp_to_ebsp(a) \in Seq(Byte)
    BY <1>3
  <2> HIDE DEF a, b
  <2>5. ReadBack(p, a \o << b >>) /\ copy_rbsp_to_ebsp(a \o << b >>) \in Seq(Byte)
    BY <2>1, <2>3, <2>4, OneMoreReadBack
  <2> QED
    BY <2>1, <2>5
<1> HIDE DEF to, Good
<1>4. Bad = {}
  <2> SUFFICES ASSUME Bad # {} PROVE FALSE
    OBVIOUS
  <2>1. PICK n \in Bad : \A m \in Bad : n <= m
    <3>1. Bad \subseteq Nat
      BY <1>1
    <3> HIDE DEF Bad
    <3> QED
      BY <3>1, NatMin
  <2>2. n \in 0 .. N /\ ~ Good(n)
    BY <2>1
  <2>3. n # 0
    BY <1>2, <2>2
  <2>4. n - 1 \in Nat /\ n - 1 < N /\ n - 1 \in 0 .. N /\ ~ (n <= n - 1) /\ (n - 1) + 1 = n
    BY <1>1, <2>2, <2>3
  <2>5. Good(n - 1)
    BY <2>1, <2>4
  <2> QED
    BY <1>3, <2>2, <2>4, <2>5
<1>5. Good(N)
  <2>1. N \in 0 .. N
    BY <1>1
  <2> QED
    BY <1>4, <2>1
<1> QED
  BY <1>1, <1>5 DEF Good, ReadBack

\* The three bytes before the data of the first message of a unit.
HeaderOf(type, size) == (<< SEI >> \o << type >>) \o << size >>

LEMMA HeaderIsRead ==
  ASSUME NEW t \in Byte, NEW l \in Byte, l # 0
  PROVE  LET h == HeaderOf(t, l)
         IN /\ h \in Seq(Byte) /\ Len(h) = 3 /\ h[2] = t /\ h[3] = l
            /\ ~ EndsZero(h) /\ copy_ebsp_to_rbsp(h) = h
<1> DEFINE a == << SEI >>
           b == a \o << t >>
           c == b \o << l >>
<1>1. SEI \in Byte /\ SEI # 0
  BY ByteIs DEF SEI
<1>2. a \in Seq(Byte) /\ Len(a) = 1 /\ a[1] = SEI /\ << >> \o << SEI >> = a /\ << >> \in Seq(Byte)
  BY <1>1, ConcatEmptySeq, OnlyOne
<1>3. ~ EndsZero(a) /\ ~ EndsZeros(a) /\ ~ EndsZeros(<< >>)
  <2>1. Len(<< >>) = 0 /\ ~ (1 > 1) /\ ~ (0 > 1)
    OBVIOUS
  <2> HIDE DEF a
  <2> QED
    BY <1>1, <1>2, <2>1 DEF EndsZero, EndsZeros
<1> HIDE DEF a
<1>4. b \in Seq(Byte) /\ Len(b) = 2 /\ b[2] = t
  <2>1. b \in Seq(Byte) /\ Len(b) = Len(a) + 1 /\ b[Len(a) + 1] = t
    BY <1>2, OneMore
  <2>2. 1 + 1 = 2
    OBVIOUS
  <2> HIDE DEF b
  <2> QED
    BY <1>2, <2>1, <2>2
<1>5. ~ EndsZeros(b)
  BY <1>2, <1>3, EndsAfter
<1>6. copy_ebsp_to_rbsp(a) = a
  <2>1. copy_ebsp_to_rbsp(<< >> \o << SEI >>) = copy_ebsp_to_rbsp(<< >>) \o << SEI >>
    BY <1>1, <1>2, <1>3, OneMorePiece
  <2> QED
    BY <1>2, <2>1, NothingWritten
<1>7. copy_ebsp_to_rbsp(b) = b
  <2>1. copy_ebsp_to_rbsp(a \o << t >>) = copy_ebsp_to_rbsp(a) \o << t >>
    BY <1>2, <1>3, OneMorePiece
  <2> QED
    BY <1>6, <2>1
<1> HIDE DEF b
<1>8. copy_ebsp_to_rbsp(c) = c
  <2>1. copy_ebsp_to_rbsp(b \o << l >>) = copy_ebsp_to_rbsp(b) \o << l >>
    BY <1>4, <1>5, OneMorePiece
  <2> QED
    BY <1>7, <2>1
<1>9. c \in Seq(Byte) /\ Len(c) = 3 /\ c[3] = l /\ c[2] = b[2]
  <2>1. /\ c \in Seq(Byte) /\ Len(c) = Len(b) + 1 /\ c[Len(b) + 1] = l
        /\ \A i \in 1 .. Len(b) : c[i] = b[i]
    <3>1. b \in Seq(Byte)
      BY <1>4
    <3> QED
      BY <3>1, OneMore
  <2>2. 2 + 1 = 3 /\ 2 \in 1 .. 2
    OBVIOUS
  <2> HIDE DEF c
  <2> QED
    BY <1>4, <2>1, <2>2
<1>10. ~ EndsZero(c)
  BY <1>4, EndsAfter
<1> QED
  BY <1>4, <1>8, <1>9, <1>10 DEF HeaderOf, a, b

\* The byte of the stop bit is found, and what is before it is decoded.
LEMMA StopBitFound ==
  ASSUME NEW s \in Seq(Byte)
  PROVE  /\ s \o << 128 >> \in Seq(Byte) /\ HasStopBit(s \o << 128 >>)
         /\ copy_ebsp_to_sodb(s \o << 128 >>) = copy_ebsp_to_rbsp(s)
<1> DEFINE t == s \o << 128 >>
           n == Len(s)
<1>1. 128 \in Byte
  BY ByteIs
<1>2. n \in Nat /\ t \in Seq(Byte) /\ Len(t) = n + 1 /\ t[n + 1] = 128 /\ \A i \in 1 .. n : t[i] = s[i]
  BY <1>1, OneMore
<1> HIDE DEF t
<1>3. SubSeq(t, 1, n) = s
  <2> DEFINE r == SubSeq(t, 1, n)
  <2>1. r \in Seq(Byte) /\ Len(r) = n /\ \A i \in 1 .. n : r[i] = t[i]
    BY <1>2
  <2> HIDE DEF r
  <2>2. Len(r) = Len(s) /\ \A i \in 1 .. Len(s) : r[i] = s[i]
    BY <1>2, <2>1
  <2>3. r = s
    BY <2>1, <2>2
  <2> QED
    BY <2>3 DEF r
<1> HIDE DEF n
<1>4. LastByte(t) = n + 1
  <2> DEFINE k == LastByte(t)
  <2>1. k \in 0 .. n + 1 /\ \A j \in k + 1 .. n + 1 : t[j] = 0
    BY <1>2, LastByteIs
  <2> HIDE DEF k
  <2>2. ~ (n + 1 \in k + 1 .. n + 1)
    BY <1>2, <2>1
  <2>3. k = n + 1
    BY <1>2, <2>1, <2>2
  <2> QED
    BY <2>3 DEF k
<1>5. n + 1 > 0 /\ (n + 1) - 1 = n
  BY <1>2
<1> QED
  BY <1>2, <1>3, <1>4, <1>5 DEF t, HasStopBit, copy_ebsp_to_sodb

\* A number below 255 is one byte, for the writer and for the reader.
LEMMA SmallNumber ==
  ASSUME NEW n \in Nat, n < 255
  PROVE  emit_variadic_length_int(n) = << n >>
<1> DEFINE emit == CHOOSE f : f = [ k \in 0 .. n |-> WrittenFrom(f, k) ]
<1>1. emit_variadic_length_int(n) = emit[n]
  BY DEF emit_variadic_length_int, WrittenFrom
<1>2. emit = [ k \in 0 .. n |-> WrittenFrom(emit, k) ]
  BY LengthIntExists
<1> HIDE DEF emit
<1>3. n \in 0 .. n /\ ~ (n >= 255)
  OBVIOUS
<1>4. emit[n] = WrittenFrom(emit, n)
  BY <1>2, <1>3
<1> QED
  BY <1>1, <1>3, <1>4 DEF WrittenFrom

LEMMA SmallNumberRead ==
  ASSUME NEW d \in Seq(Byte), NEW p \in 1 .. Len(d), d[p] # 255
  PROVE  parse_variadic_length_int(d, p) = [ number |-> d[p], end |-> p + 1 ]
<1> DEFINE Is(n) == (\A i \in 0 .. n - 1 : scan_8(d, p + i) = 255) /\ scan_8(d, p + n) # 255
           run == CHOOSE n \in 0 .. Len(d) : Is(n)
<1>1. Len(d) \in Nat /\ p \in Nat /\ p + 0 = p /\ 0 \in 0 .. Len(d) /\ DOMAIN d = 1 .. Len(d) /\ d[p] \in Nat
  <2>1. d[p] \in Byte
    OBVIOUS
  <2> QED
    BY <2>1, ByteIs
<1>2. scan_8(d, p + 0) = d[p]
  BY <1>1 DEF scan_8
<1>3. Is(0)
  <2>1. 0 .. 0 - 1 = {}
    OBVIOUS
  <2> QED
    BY <1>2, <2>1
<1>4. ASSUME NEW n \in 0 .. Len(d), Is(n) PROVE n = 0
  <2>1. n # 0 => 0 \in 0 .. n - 1
    BY <1>1
  <2>2. \A i \in 0 .. n - 1 : scan_8(d, p + i) = 255
    BY <1>4
  <2>3. ~ (0 \in 0 .. n - 1)
    BY <1>2, <2>2
  <2> QED
    BY <2>1, <2>3
<1> HIDE DEF Is
<1>5. run = 0
  BY <1>1, <1>3, <1>4
<1>6. parse_variadic_length_int(d, p) = [ number |-> 255 * run + scan_8(d, p + run), end |-> p + run + 1 ]
  BY DEF parse_variadic_length_int, Is
<1> HIDE DEF run
<1>7. 255 * 0 + d[p] = d[p] /\ p + 0 + 1 = p + 1
  BY <1>1
<1> QED
  BY <1>2, <1>5, <1>6, <1>7

LEMMA ByteRange ==
  ASSUME NEW n \in Nat, 0 < n, n < 255
  PROVE  n \in Byte /\ n # 0 /\ n # 255 /\ n \in Nat
BY ByteIs

LEMMA SizeIsByte ==
  ASSUME NEW s \in Seq(Byte), 0 < Len(s), Len(s) < 255
  PROVE  Len(s) \in Byte /\ Len(s) # 0 /\ Len(s) # 255 /\ Len(s) \in Nat
<1>1. Len(s) \in Nat
  OBVIOUS
<1> DEFINE l == Len(s)
<1> HIDE DEF l
<1>2. l \in Byte /\ l # 0 /\ l # 255 /\ l \in Nat
  BY <1>1, ByteRange DEF l
<1> QED
  BY <1>2 DEF l

LEMMA Middle ==
  ASSUME NEW S, NEW h \in Seq(S), NEW s \in Seq(S), NEW c \in Seq(S)
  PROVE  LET d == (h \o s) \o c
         IN /\ d \in Seq(S) /\ Len(d) = Len(h) + Len(s) + Len(c)
            /\ \A i \in 1 .. Len(h) : d[i] = h[i]
            /\ SubSeq(d, Len(h) + 1, Len(h) + Len(s)) = s
<1> DEFINE a == h \o s
           d == a \o c
           m == Len(h)
           n == Len(s)
           k == Len(c)
           q == SubSeq(d, m + 1, m + n)
<1>1. m \in Nat /\ n \in Nat /\ k \in Nat
  OBVIOUS
<1>2. /\ a \in Seq(S) /\ Len(a) = m + n
      /\ \A i \in 1 .. m + n : a[i] = IF i <= m THEN h[i] ELSE s[i - m]
  BY ConcatAt, ConcatType
<1> HIDE DEF a
<1>3. /\ d \in Seq(S) /\ Len(d) = (m + n) + k
      /\ \A i \in 1 .. m + n : d[i] = a[i]
  <2>1. /\ d \in Seq(S) /\ Len(d) = Len(a) + k
        /\ \A i \in 1 .. Len(a) + k : d[i] = IF i <= Len(a) THEN a[i] ELSE c[i - Len(a)]
    <3>1. a \in Seq(S)
      BY <1>2
    <3> QED
      BY <3>1, ConcatAt, ConcatType
  <2>2. Len(a) = m + n
    BY <1>2
  <2> HIDE DEF d, m, n, k
  <2>3. \A i \in 1 .. m + n : i \in 1 .. (m + n) + k /\ i <= m + n
    BY <1>1
  <2> QED
    BY <2>1, <2>2, <2>3
<1> HIDE DEF d
<1>4. \A i \in 1 .. m : i \in 1 .. m + n /\ i <= m
  BY <1>1
<1>5. \A i \in 1 .. m : d[i] = h[i]
  BY <1>2, <1>3, <1>4
<1>6. q = s
  <2>1. m + 1 \in Nat \ {0} /\ m + n \in Nat /\ m + n <= Len(d)
    BY <1>1, <1>3
  <2>2. /\ q \in Seq(S) /\ Len(q) = IF m + 1 <= m + n THEN (m + n) - (m + 1) + 1 ELSE 0
        /\ \A i \in 1 .. Len(q) : q[i] = d[(m + 1) + i - 1]
    BY <1>3, <2>1, SubSeqType
  <2> HIDE DEF q
  <2>3. Len(q) = n
    BY <1>1, <2>2
  <2>4. \A i \in 1 .. n : q[i] = s[i]
    <3> SUFFICES ASSUME NEW i \in 1 .. n PROVE q[i] = s[i]
      OBVIOUS
    <3>1. (m + 1) + i - 1 = m + i /\ m + i \in 1 .. m + n /\ ~ (m + i <= m) /\ (m + i) - m = i
      BY <1>1
    <3>2. q[i] = d[m + i]
      BY <2>2, <2>3, <3>1
    <3> QED
      BY <1>2, <1>3, <3>1, <3>2
  <2> QED
    BY <2>2, <2>3, <2>4
<1> HIDE DEF q
<1>7. (m + n) + k = m + n + k
  OBVIOUS
<1> QED
  BY <1>3, <1>5, <1>6, <1>7 DEF d, a, q

LEMMA FirstIsRead ==
  ASSUME NEW t \in Byte, t # 255, NEW s \in Seq(Byte), 0 < Len(s), Len(s) < 255,
         NEW c \in Seq(Byte)
  PROVE  LET d == (HeaderOf(t, Len(s)) \o s) \o c
         IN /\ d \in Seq(Byte) /\ Len(d) = 3 + Len(s) + Len(c)
            /\ sei_parser_next(d, 2) = [ first |-> 4, last |-> 3 + Len(s), type |-> t ]
            /\ SubSeq(d, 4, 3 + Len(s)) = s
<1> DEFINE l == Len(s)
           h == HeaderOf(t, l)
           k == Len(c)
           d == (HeaderOf(t, Len(s)) \o s) \o c
<1>0. l \in Byte /\ l # 0 /\ l # 255 /\ l \in Nat
  BY SizeIsByte
<1> HIDE DEF l
<1>1. h \in Seq(Byte) /\ Len(h) = 3 /\ h[2] = t /\ h[3] = l
  BY <1>0, HeaderIsRead
<1> HIDE DEF h
<1>2. /\ d \in Seq(Byte) /\ Len(d) = Len(h) + Len(s) + Len(c)
      /\ \A i \in 1 .. Len(h) : d[i] = h[i]
      /\ SubSeq(d, Len(h) + 1, Len(h) + Len(s)) = s
  <2>1. d = (h \o s) \o c
    BY DEF h, l
  <2> HIDE DEF d
  <2>2. h \in Seq(Byte)
    BY <1>1
  <2> QED
    BY <2>1, <2>2, Middle
<1> HIDE DEF d
<1>3. 3 + 1 = 4 /\ 2 \in 1 .. 3 /\ 3 \in 1 .. 3 /\ 2 + 1 = 3
  OBVIOUS
<1>4. Len(d) = 3 + l + k /\ d[2] = t /\ d[3] = l /\ SubSeq(d, 4, 3 + l) = s
  <2>1. Len(s) = l /\ Len(c) = k
    BY DEF l
  <2> HIDE DEF k
  <2> QED
    BY <1>1, <1>2, <1>3, <2>1
<1>5. l \in Nat /\ k \in Nat
  BY <1>0
<1> HIDE DEF k
<1>6. 2 \in 1 .. Len(d) /\ 3 \in 1 .. Len(d) /\ 4 + l <= Len(d) + 1 /\ 4 + l - 1 = 3 + l
  BY <1>4, <1>5
<1>7. parse_variadic_length_int(d, 2) = [ number |-> t, end |-> 3 ]
  <2>1. d[2] # 255 /\ d \in Seq(Byte)
    BY <1>2, <1>4
  <2>2. parse_variadic_length_int(d, 2) = [ number |-> d[2], end |-> 2 + 1 ]
    BY <1>6, <2>1, SmallNumberRead
  <2> QED
    BY <1>3, <1>4, <2>2
<1>8. parse_variadic_length_int(d, 3) = [ number |-> l, end |-> 4 ]
  <2>1. d[3] # 255 /\ d \in Seq(Byte)
    BY <1>0, <1>2, <1>4
  <2>2. parse_variadic_length_int(d, 3) = [ number |-> d[3], end |-> 3 + 1 ]
    BY <1>6, <2>1, SmallNumberRead
  <2> QED
    BY <1>3, <1>4, <2>2
<1>9. sei_parser_next(d, 2) = [ first |-> 4, last |-> 3 + l, type |-> t ]
  BY <1>6, <1>7, <1>8 DEF sei_parser_next
<1> QED
  BY <1>2, <1>4, <1>9 DEF d, k, l

\* If it is all there is, it is the list of the messages.
LEMMA OnlyMessage ==
  ASSUME NEW t \in Byte, t # 255, NEW s \in Seq(Byte), 0 < Len(s), Len(s) < 255,
         NEW d \in Seq(Byte), Len(d) = 3 + Len(s),
         sei_parser_next(d, 2) = [ first |-> 4, last |-> 3 + Len(s), type |-> t ],
         SubSeq(d, 4, 3 + Len(s)) = s
  PROVE  MessagesFrom(d, 2) = << [ type |-> t, data |-> s ] >>
<1> DEFINE from == CHOOSE f : f = [ q \in Nat |-> NextOf(d, f, q) ]
           m == [ type |-> t, data |-> s ]
           l == Len(s)
<1>0. l \in Byte /\ l # 0 /\ l # 255 /\ l \in Nat
  BY SizeIsByte
<1>2. /\ d \in Seq(Byte) /\ Len(d) = 3 + l
      /\ sei_parser_next(d, 2) = [ first |-> 4, last |-> 3 + l, type |-> t ]
      /\ SubSeq(d, 4, 3 + l) = s
  OBVIOUS
<1> HIDE DEF l
<1>3. from = [ q \in Nat |-> NextOf(d, from, q) ]
  BY <1>2, MessagesExist
<1>4. MessagesFrom(d, 2) = from[2]
  BY DEF MessagesFrom, NextOf
<1> HIDE DEF from
<1>5. l \in Nat
  BY <1>0
<1>6. ~ (2 > Len(d)) /\ (3 + l) + 1 > Len(d) /\ (3 + l) + 1 \in Nat /\ 2 \in Nat
  BY <1>2, <1>5
<1>7. from[(3 + l) + 1] = << >>
  <2>1. from[(3 + l) + 1] = NextOf(d, from, (3 + l) + 1)
    BY <1>3, <1>6
  <2> QED
    BY <1>6, <2>1 DEF NextOf
<1>8. from[2] = NextOf(d, from, 2)
  BY <1>3, <1>6
<1> DEFINE b == sei_parser_next(d, 2)
<1>9. b # Malformed /\ b.type = t /\ b.first = 4 /\ b.last = 3 + l
  <2>1. b.first = 4 /\ Malformed.first = 1
    BY <1>2 DEF Malformed
  <2> QED
    BY <1>2, <2>1
<1>10. << >> # None
  <2>1. << >> \in Seq(Seq(Byte))
    OBVIOUS
  <2> QED
    BY <2>1, PacketsAssumption
<1>11. from[2] = << m >> \o << >>
  <2>1. NextOf(d, from, 2) = << [ type |-> b.type, data |-> SubSeq(d, b.first, b.last) ] >> \o from[b.last + 1]
    <3> HIDE DEF b
    <3>1. from[b.last + 1] # None
      BY <1>7, <1>9, <1>10
    <3> QED
      BY <1>6, <1>9, <3>1 DEF NextOf, b
  <2> HIDE DEF b
  <2>2. [ type |-> b.type, data |-> SubSeq(d, b.first, b.last) ] = m
    BY <1>2, <1>9
  <2> HIDE DEF m
  <2> QED
    BY <1>7, <1>8, <1>9, <2>1, <2>2
<1>12. << m >> \o << >> = << m >>
  <2> HIDE DEF m
  <2>1. << m >> \in Seq({m})
    BY OnlyOne
  <2> QED
    BY <2>1, ConcatEmptySeq
<1> QED
  BY <1>4, <1>11, <1>12

LEMMA MarkersAreBytes == 128 \in Byte /\ SEI \in Byte
BY ByteIs DEF SEI

\* Every message ends with a stop bit, and the first begins with two numbers.
LEMMA MessageEnds ==
  ASSUME NEW sei \in SeiPayload, Plain(sei)
  PROVE  /\ emit_sei_payload(sei) \in Seq(Byte)
         /\ \E h \in Seq(Byte) : emit_sei_payload(sei) = h \o << 128 >>
<1> DEFINE s == sei.data
           a == emit_variadic_length_int(sei.type)
           b == emit_variadic_length_int(Len(s))
           e == copy_rbsp_to_ebsp(s)
           z == << 128 >>
<1>1. sei.type \in Nat /\ s \in Seq(Byte) /\ Len(s) \in Nat /\ s # << >> /\ PlainData(s)
  BY DEF SeiPayload, Plain
<1>2. a \in Seq(Byte) /\ b \in Seq(Byte) /\ e \in Seq(Byte)
  BY <1>1, LengthIntType, EbspLength
<1>3. 128 \in Byte
  BY ByteIs
<1>4. z \in Seq(Byte) /\ Append(e, 128) = e \o z
  BY <1>2, <1>3
<1>5. emit_sei_payload(sei) = (a \o b) \o (e \o z)
  BY <1>1, <1>4 DEF emit_sei_payload, copy_sodb_to_ebsp
<1> HIDE DEF a, b, e, z
<1>6. a \o b \in Seq(Byte)
  BY <1>2, ConcatType
<1>7. ((a \o b) \o e) \o z = (a \o b) \o (e \o z)
  BY <1>2, <1>4, <1>6, Regroup
<1>8. (a \o b) \o e \in Seq(Byte)
  BY <1>2, <1>6, ConcatType
<1>9. ((a \o b) \o e) \o z \in Seq(Byte)
  BY <1>4, <1>8, ConcatType
<1> QED
  BY <1>5, <1>7, <1>8, <1>9 DEF z

LEMMA ShortMessage ==
  ASSUME NEW sei \in SeiPayload, Plain(sei), sei.type < 255, Len(sei.data) < 255
  PROVE  LET h == (<< sei.type >> \o << Len(sei.data) >>) \o copy_rbsp_to_ebsp(sei.data)
         IN h \in Seq(Byte) /\ emit_sei_payload(sei) = h \o << 128 >>
<1> DEFINE s == sei.data
           a == << sei.type >>
           b == << Len(s) >>
           e == copy_rbsp_to_ebsp(s)
           z == << 128 >>
<1>1. sei.type \in Nat /\ s \in Seq(Byte) /\ Len(s) \in Nat /\ s # << >> /\ PlainData(s)
  BY DEF SeiPayload, Plain
<1>2. a \in Seq(Byte) /\ b \in Seq(Byte) /\ e \in Seq(Byte)
  <2>1. sei.type \in Byte /\ Len(s) \in Byte
    <3> DEFINE t == sei.type
               l == Len(s)
    <3>1. t \in Nat /\ l \in Nat /\ t <= 255 /\ l <= 255
      BY <1>1
    <3> HIDE DEF t, l
    <3>2. t \in Byte /\ l \in Byte
      BY <3>1, ByteIs
    <3> QED
      BY <3>2 DEF t, l
  <2>2. e \in Seq(Byte)
    BY <1>1, EbspLength
  <2> QED
    BY <2>1, <2>2, OnlyOne
<1>3. 128 \in Byte
  BY ByteIs
<1>4. z \in Seq(Byte) /\ Append(e, 128) = e \o z
  BY <1>2, <1>3
<1>5. emit_variadic_length_int(sei.type) = a /\ emit_variadic_length_int(Len(s)) = b
  BY <1>1, SmallNumber
<1>6. emit_sei_payload(sei) = (a \o b) \o (e \o z)
  BY <1>1, <1>4, <1>5 DEF emit_sei_payload, copy_sodb_to_ebsp
<1> HIDE DEF a, b, e, z
<1>7. a \o b \in Seq(Byte)
  BY <1>2, ConcatType
<1>8. ((a \o b) \o e) \o z = (a \o b) \o (e \o z)
  BY <1>2, <1>4, <1>7, Regroup
<1>9. (a \o b) \o e \in Seq(Byte)
  BY <1>2, <1>7, ConcatType
<1> QED
  BY <1>6, <1>8, <1>9 DEF a, b, e, z, s

\* The bytes of the SEI unit: those of the first message, whatever follows it,
\* and a stop bit.
LEMMA SeiUnitBytes ==
  ASSUME NEW seis \in Seq(SeiPayload), seis # << >>, \A i \in DOMAIN seis : Plain(seis[i]),
         NEW h \in Seq(Byte), emit_sei_payload(seis[1]) = h \o << 128 >>
  PROVE  \E y \in Seq(Byte) : /\ SeiUnit(seis) = ((<< SEI >> \o h) \o y) \o << 128 >>
                              /\ Len(seis) = 1 => y = << >>
<1> DEFINE N == Len(seis)
           B == Seq(Byte)
           pieces == [ i \in DOMAIN seis |-> emit_sei_payload(seis[i]) ]
           all == FlattenSeq(pieces)
           z == << 128 >>
           x == << SEI >>
<1>1. N \in Nat \ {0} /\ DOMAIN seis = 1 .. N /\ 1 \in 1 .. N /\ \A i \in 1 .. N : seis[i] \in SeiPayload
  OBVIOUS
<1>2. z \in Seq(Byte) /\ x \in Seq(Byte)
  <2>1. 128 \in Byte /\ SEI \in Byte
    BY MarkersAreBytes
  <2> QED
    BY <2>1, OnlyOne
<1>3. /\ pieces \in Seq(B) /\ Len(pieces) = N
      /\ \A i \in 1 .. N : pieces[i] = emit_sei_payload(seis[i])
  <2>1. \A i \in 1 .. N : pieces[i] = emit_sei_payload(seis[i]) /\ emit_sei_payload(seis[i]) \in B
    <3> SUFFICES ASSUME NEW i \in 1 .. N
                 PROVE  pieces[i] = emit_sei_payload(seis[i]) /\ emit_sei_payload(seis[i]) \in B
      OBVIOUS
    <3>1. seis[i] \in SeiPayload /\ Plain(seis[i])
      BY <1>1
    <3>2. emit_sei_payload(seis[i]) \in B
      BY <3>1, MessageEnds
    <3> QED
      BY <1>1, <3>2
  <2>2. pieces = [ i \in 1 .. N |-> pieces[i] ]
    BY <1>1
  <2> HIDE DEF pieces, B
  <2>3. pieces \in [ 1 .. N -> B ]
    BY <2>1, <2>2
  <2>4. pieces \in Seq(B) /\ Len(pieces) = N
    BY <1>1, <2>3, SequenceOf
  <2> QED
    BY <2>1, <2>4
<1>4. pieces[1] = h \o z
  BY <1>1, <1>3
<1>5. SeiUnit(seis) = x \o all
  BY DEF SeiUnit
<1> HIDE DEF pieces, z, x, all
<1>6. \E y \in Seq(Byte) : all = (h \o y) \o z /\ (N = 1 => y = << >>)
  <2>1. CASE N = 1
    <3>1. pieces = << pieces[1] >>
      <4> HIDE DEF B
      <4> QED
        BY <1>3, <2>1
    <3>2. FlattenSeq(<< pieces[1] >>) = pieces[1]
      <4>1. pieces[1] \in Seq(Byte)
        BY <1>2, <1>4, ConcatType
      <4> QED
        BY <4>1, FlattenOne
    <3>3. all = h \o z
      BY <1>4, <3>1, <3>2 DEF all
    <3>4. h \o << >> = h /\ << >> \in Seq(Byte)
      BY ConcatEmptySeq
    <3>5. all = (h \o << >>) \o z
      BY <3>3, <3>4
    <3> QED
      BY <2>1, <3>4, <3>5
  <2>2. CASE N # 1
    <3> DEFINE post == SubSeq(pieces, 2, N)
               M == Len(post)
               mid == SubSeq(post, 1, M - 1)
               end == post[M]
    <3>1. pieces = << pieces[1] >> \o post /\ pieces[1] \in B /\ post \in Seq(B)
      <4>1. 0 \in Nat /\ 0 < N /\ 0 + 1 = 1 /\ 0 + 2 = 2
        BY <1>1
      <4> HIDE DEF B
      <4>2. /\ SubSeq(pieces, 0 + 2, Len(pieces)) \in Seq(B) /\ pieces[0 + 1] \in B
            /\ SubSeq(pieces, 0 + 1, Len(pieces)) = << pieces[0 + 1] >> \o SubSeq(pieces, 0 + 2, Len(pieces))
        BY <1>3, <4>1, Around
      <4>3. SubSeq(pieces, 1, N) = pieces
        BY <1>1, <1>3
      <4> QED
        BY <1>3, <4>1, <4>2, <4>3
    <3>2. M = N - 1 /\ M \in Nat \ {0}
      <4>1. /\ Len(SubSeq(pieces, 2, N)) = IF 2 <= N THEN N - 2 + 1 ELSE 0
        <5>1. 2 \in Nat \ {0} /\ N \in Nat /\ N <= Len(pieces)
          BY <1>1, <1>3
        <5> HIDE DEF B
        <5> QED
          BY <1>3, <5>1, SubSeqType
      <4> QED
        BY <1>1, <2>2, <4>1
    <3>3. \A i \in 1 .. M : post[i] = pieces[i + 1]
      <4>1. 2 \in Nat \ {0} /\ N \in Nat /\ N <= Len(pieces)
        BY <1>1, <1>3
      <4>2. \A i \in 1 .. M : post[i] = pieces[2 + i - 1]
        <5> HIDE DEF B
        <5> QED
          BY <1>3, <4>1, SubSeqType
      <4>3. \A i \in 1 .. M : 2 + i - 1 = i + 1
        BY <3>2
      <4> HIDE DEF post, M
      <4> QED
        BY <4>2, <4>3
    <3> HIDE DEF post
    <3>4. post = mid \o << end >> /\ mid \in Seq(B) /\ end \in B
      <4>1. M - 1 \in Nat /\ M - 1 < Len(post) /\ (M - 1) + 1 = M
        BY <3>2
      <4> DEFINE k == M - 1
      <4> HIDE DEF B
      <4>2. /\ SubSeq(post, 1, k) \in Seq(B) /\ post[k + 1] \in B
            /\ SubSeq(post, 1, k + 1) = SubSeq(post, 1, k) \o << post[k + 1] >>
        <5>1. k \in Nat /\ k < Len(post) /\ post \in Seq(B)
          BY <3>1, <4>1
        <5> HIDE DEF k, M
        <5> QED
          BY <5>1, Around
      <4>3. SubSeq(post, 1, M) = post
        BY <3>1
      <4> QED
        BY <4>1, <4>2, <4>3
    <3>5. PICK g \in Seq(Byte) : end = g \o z
      <4>1. M \in 1 .. M /\ M + 1 = N /\ N \in 1 .. N
        BY <1>1, <3>2
      <4>2. end = emit_sei_payload(seis[N])
        BY <1>3, <3>3, <4>1
      <4>3. seis[N] \in SeiPayload /\ Plain(seis[N])
        BY <1>1, <4>1
      <4>4. \E g \in Seq(Byte) : emit_sei_payload(seis[N]) = g \o << 128 >>
        BY <4>3, MessageEnds
      <4> QED
        BY <4>2, <4>4 DEF z
    <3> HIDE DEF mid, end, M
    <3> DEFINE f == FlattenSeq(mid)
               k == f \o g
               y == z \o k
    <3>6. f \in Seq(Byte) /\ k \in Seq(Byte) /\ y \in Seq(Byte)
      <4>1. f \in Seq(Byte)
        BY <3>4, FlattenType
      <4>2. k \in Seq(Byte)
        BY <3>5, <4>1, ConcatType
      <4> HIDE DEF k
      <4>3. y \in Seq(Byte)
        BY <1>2, <4>2, ConcatType
      <4> QED
        BY <4>1, <4>2, <4>3
    <3>7. FlattenSeq(post) = f \o (g \o z)
      <4>1. mid \in Seq(Seq(Byte)) /\ end \in Seq(Byte)
        BY <3>4
      <4>2. FlattenSeq(mid \o << end >>) = f \o end
        BY <4>1, FlattenSnoc
      <4> QED
        BY <3>4, <3>5, <4>2
    <3>8. all = (h \o z) \o FlattenSeq(post)
      <4>1. << pieces[1] >> \in Seq(B) /\ FlattenSeq(<< pieces[1] >>) = pieces[1]
        <5>1. pieces[1] \in Seq(Byte)
          BY <3>1
        <5>2. FlattenSeq(<< pieces[1] >>) = pieces[1]
          BY <5>1, FlattenOne
        <5> HIDE DEF B
        <5>3. << pieces[1] >> \in Seq(B)
          BY <3>1, OnlyOne
        <5> QED
          BY <5>2, <5>3
      <4>2. FlattenSeq(<< pieces[1] >> \o post) = FlattenSeq(<< pieces[1] >>) \o FlattenSeq(post)
        <5>1. << pieces[1] >> \in Seq(Seq(Byte)) /\ post \in Seq(Seq(Byte))
          BY <3>1, <4>1
        <5> QED
          BY <5>1, FlattenConcat
      <4> QED
        BY <1>4, <3>1, <4>1, <4>2 DEF all
    <3> HIDE DEF f
    <3>9. f \o (g \o z) = k \o z
      <4>1. (f \o g) \o z = f \o (g \o z)
        <5>1. f \in Seq(Byte) /\ z \in Seq(Byte)
          BY <1>2, <3>6
        <5> QED
          BY <5>1, Regroup, ZenonT(20)
      <4> QED
        BY <4>1
    <3> HIDE DEF k
    <3>10. (h \o z) \o (k \o z) = (h \o y) \o z
      <4>1. h \o z \in Seq(Byte)
        BY <1>2, ConcatType
      <4>2. ((h \o z) \o k) \o z = (h \o z) \o (k \o z)
        <5>1. h \o z \in Seq(Byte) /\ k \in Seq(Byte) /\ z \in Seq(Byte)
          BY <1>2, <3>6, <4>1
        <5> QED
          BY <5>1, Regroup, ZenonT(20)
      <4>3. (h \o z) \o k = h \o (z \o k)
        <5>1. k \in Seq(Byte) /\ z \in Seq(Byte)
          BY <1>2, <3>6
        <5> QED
          BY <5>1, Regroup, ZenonT(20)
      <4> QED
        BY <4>2, <4>3
    <3> HIDE DEF y
    <3>11. all = (h \o y) \o z
      BY <3>7, <3>8, <3>9, <3>10
    <3> QED
      BY <2>2, <3>6, <3>11
  <2> QED
    BY <2>1, <2>2
<1>7. PICK y \in Seq(Byte) : all = (h \o y) \o z /\ (N = 1 => y = << >>)
  BY <1>6
<1>8. x \o ((h \o y) \o z) = ((x \o h) \o y) \o z
  <2>1. /\ x \in Seq(Byte) /\ h \in Seq(Byte)
        /\ y \in Seq(Byte) /\ z \in Seq(Byte)
    BY <1>2, <1>7
  <2> HIDE DEF x, z, all, N
  <2>2. h \o y \in Seq(Byte)
    BY <2>1, ConcatType
  <2>3. (x \o (h \o y)) \o z = x \o ((h \o y) \o z)
    BY <2>1, <2>2, Regroup, ZenonT(20)
  <2>4. (x \o h) \o y = x \o (h \o y)
    BY <2>1, Regroup
  <2> QED
    BY <2>3, <2>4
<1>9. SeiUnit(seis) = ((x \o h) \o y) \o z
  BY <1>5, <1>7, <1>8
<1> QED
  BY <1>7, <1>9 DEF x, z

\* What a reader of the SEI unit finds first.
LEMMA FirstIsFound ==
  ASSUME NEW seis \in Seq(SeiPayload), seis # << >>, \A i \in DOMAIN seis : Plain(seis[i]),
         seis[1].type < 255, Len(seis[1].data) < 255
  PROVE  LET u == SeiUnit(seis)
         IN /\ HasMessage(u) /\ FirstMessage(u) = seis[1]
            /\ Len(seis) = 1 => Messages(u) = seis
<1> DEFINE m == seis[1]
           t == m.type
           s == m.data
           l == Len(s)
           e == copy_rbsp_to_ebsp(s)
           h == (<< t >> \o << l >>) \o e
           H == HeaderOf(t, l)
           x == << SEI >>
           T == << t >>
           L == << l >>
           u == SeiUnit(seis)
           N == Len(seis)
<1>1. m \in SeiPayload /\ Plain(m) /\ N \in Nat \ {0}
  <2>1. 1 \in DOMAIN seis /\ N \in Nat \ {0}
    OBVIOUS
  <2> QED
    BY <2>1
<1>2. t \in Nat /\ s \in Seq(Byte) /\ PlainData(s) /\ m = [ type |-> t, data |-> s ] /\ l > 0 /\ l \in Nat
  <2>1. t \in Nat /\ s \in Seq(Byte) /\ m = [ type |-> t, data |-> s ]
    BY <1>1 DEF SeiPayload
  <2>2. PlainData(s) /\ s # << >>
    BY <1>1 DEF Plain
  <2> HIDE DEF s
  <2>3. l \in Nat /\ l > 0
    BY <2>1, <2>2
  <2> QED
    BY <2>1, <2>2, <2>3
<1>3. t \in Byte /\ t # 255 /\ l \in Byte /\ l # 0 /\ t < 255 /\ l < 255
  <2>1. t < 255 /\ l < 255
    OBVIOUS
  <2> HIDE DEF t, l
  <2>2. t <= 255 /\ l <= 255 /\ t # 255 /\ l # 0
    BY <1>2, <2>1
  <2> QED
    BY <1>2, <2>1, <2>2, ByteIs
<1>4. h \in Seq(Byte) /\ emit_sei_payload(m) = h \o << 128 >>
  <2> HIDE DEF m
  <2>1. m.type < 255 /\ Len(m.data) < 255
    BY <1>3
  <2> QED
    BY <1>1, <2>1, ShortMessage
<1> HIDE DEF h
<1>5. PICK y \in Seq(Byte) : u = ((x \o h) \o y) \o << 128 >> /\ (N = 1 => y = << >>)
  BY <1>4, SeiUnitBytes
<1> HIDE DEF u
<1>6. H \in Seq(Byte) /\ ~ EndsZero(H) /\ copy_ebsp_to_rbsp(H) = H
  <2> HIDE DEF t, l
  <2> QED
    BY <1>3, HeaderIsRead
<1>7. e \in Seq(Byte) /\ copy_ebsp_to_rbsp(H \o e) = H \o s
  <2> HIDE DEF H, s
  <2>1. e \in Seq(Byte) /\ copy_ebsp_to_rbsp(H \o e) = copy_ebsp_to_rbsp(H) \o s
    BY <1>2, <1>6, ReadAsWritten
  <2> QED
    BY <1>6, <2>1
<1>8. x \o h = H \o e
  <2>1. x \in Seq(Byte) /\ T \in Seq(Byte) /\ L \in Seq(Byte)
    BY <1>3, MarkersAreBytes, OnlyOne
  <2>2. h = (T \o L) \o e /\ H = (x \o T) \o L
    BY DEF h, HeaderOf
  <2> HIDE DEF x, T, L, e, H
  <2>3. T \o L \in Seq(Byte)
    BY <2>1, ConcatType
  <2>4. (x \o (T \o L)) \o e = x \o ((T \o L) \o e)
    <3>1. e \in Seq(Byte) /\ x \in Seq(Byte) /\ T \o L \in Seq(Byte)
      BY <1>7, <2>1, <2>3
    <3> DEFINE TL == T \o L
    <3> HIDE DEF TL
    <3>2. (x \o TL) \o e = x \o (TL \o e)
      BY <3>1, Regroup DEF TL
    <3> QED
      BY <3>2 DEF TL
  <2>5. (x \o T) \o L = x \o (T \o L)
    BY <2>1, Regroup
  <2> QED
    BY <2>2, <2>4, <2>5
<1> HIDE DEF x, e, H
<1> DEFINE v == (H \o e) \o y
           d == copy_ebsp_to_rbsp(v)
<1>9. v \in Seq(Byte) /\ H \o e \in Seq(Byte) /\ H \o s \in Seq(Byte)
  <2>1. H \o e \in Seq(Byte)
    BY <1>6, <1>7, ConcatType
  <2>2. H \o s \in Seq(Byte)
    <3> HIDE DEF s
    <3> QED
      BY <1>2, <1>6, ConcatType
  <2>3. v \in Seq(Byte)
    BY <1>5, <2>1, ConcatType
  <2> QED
    BY <2>1, <2>2, <2>3
<1>10. HasStopBit(u) /\ copy_ebsp_to_sodb(u) = d
  <2>1. u = v \o << 128 >>
    BY <1>5, <1>8
  <2> HIDE DEF v
  <2> QED
    BY <1>9, <2>1, StopBitFound
<1>11. PICK c \in Seq(Byte) : d = (H \o s) \o c /\ (N = 1 => c = << >>)
  <2>1. CASE N = 1
    <3>1. v = H \o e
      BY <1>5, <1>9, <2>1, ConcatEmptySeq
    <3>2. d = H \o s
      BY <1>7, <3>1
    <3>3. (H \o s) \o << >> = H \o s /\ << >> \in Seq(Byte)
      BY <1>9, ConcatEmptySeq
    <3> QED
      BY <3>2, <3>3
  <2>2. CASE N # 1
    <3>1. PICK c \in Seq(Byte) : copy_ebsp_to_rbsp((H \o e) \o y) = copy_ebsp_to_rbsp(H \o e) \o c
      BY <1>5, <1>9, ReadOn
    <3> QED
      BY <1>7, <2>2, <3>1
  <2> QED
    BY <2>1, <2>2
<1> HIDE DEF d, v
<1>12. /\ d \in Seq(Byte) /\ Len(d) = 3 + l + Len(c)
       /\ sei_parser_next(d, 2) = [ first |-> 4, last |-> 3 + l, type |-> t ]
       /\ SubSeq(d, 4, 3 + l) = s
  <2>1. 0 < Len(s) /\ Len(s) < 255 /\ d = (HeaderOf(t, Len(s)) \o s) \o c
    BY <1>2, <1>3, <1>11 DEF H
  <2> HIDE DEF s, t, l
  <2> DEFINE f == (HeaderOf(t, Len(s)) \o s) \o c
  <2>2. /\ f \in Seq(Byte) /\ Len(f) = 3 + Len(s) + Len(c)
        /\ sei_parser_next(f, 2) = [ first |-> 4, last |-> 3 + Len(s), type |-> t ]
        /\ SubSeq(f, 4, 3 + Len(s)) = s
    <3>1. t \in Byte /\ t # 255 /\ s \in Seq(Byte) /\ 0 < Len(s) /\ Len(s) < 255
      BY <1>2, <1>3, <2>1
    <3> QED
      BY <3>1, FirstIsRead
  <2> HIDE DEF f
  <2>3. f = d
    BY <2>1 DEF f
  <2> QED
    BY <2>2, <2>3 DEF l
<1> HIDE DEF H
<1>13. HasMessage(u)
  <2>1. sei_parser_next(d, 2).first = 4 /\ Malformed.first = 1
    BY <1>12 DEF Malformed
  <2>2. sei_parser_next(d, 2) # Malformed
    BY <2>1
  <2> QED
    BY <1>10, <2>2 DEF HasMessage
<1>14. FirstMessage(u) = m
  <2> DEFINE b == sei_parser_next(d, 2)
  <2>1. b.first = 4 /\ b.last = 3 + l /\ b.type = t
    BY <1>12
  <2>2. FirstMessage(u) = [ type |-> b.type, data |-> SubSeq(d, b.first, b.last) ]
    BY <1>10 DEF FirstMessage
  <2> HIDE DEF b, l
  <2>3. FirstMessage(u) = [ type |-> t, data |-> s ]
    BY <1>12, <2>1, <2>2 DEF l
  <2> QED
    BY <1>2, <2>3
<1>15. ASSUME N = 1 PROVE Messages(u) = seis
  <2>1. Len(d) = 3 + l
    <3>1. Len(c) = 0
      BY <1>11, <1>15
    <3> HIDE DEF l
    <3> QED
      BY <1>2, <1>12, <3>1
  <2>2. MessagesFrom(d, 2) = << [ type |-> t, data |-> s ] >>
    <3>1. 0 < Len(s) /\ Len(s) < 255 /\ Len(d) = 3 + Len(s)
          /\ sei_parser_next(d, 2) = [ first |-> 4, last |-> 3 + Len(s), type |-> t ]
          /\ SubSeq(d, 4, 3 + Len(s)) = s
      BY <1>2, <1>3, <1>12, <2>1
    <3> HIDE DEF s, t
    <3> QED
      BY <1>2, <1>3, <1>12, <3>1, OnlyMessage
  <2>3. seis = << m >>
    BY <1>15
  <2>4. Messages(u) = MessagesFrom(d, 2)
    BY <1>10 DEF Messages
  <2> HIDE DEF m
  <2> QED
    BY <1>2, <2>2, <2>3, <2>4
<1> QED
  BY <1>13, <1>14, <1>15 DEF u, N

-----------------------------------------------------------------------------
\* The messages that are written are of lengths that the code gets right, and
\* together not too long for a unit.
PlainMessages ==
  /\ \A i \in DOMAIN Injected : Plain(Injected[i])
  /\ SumOf(Hints(Injected)) < MAX_LENGTH

\* What is read of a packet that has been rewritten.
LEMMA WhenRewritten ==
  ASSUME AllCollected, PlainMessages, Rewrites
  PROVE  /\ Injected \in Seq(SeiPayload) /\ units = Only(is_valid, sent.units)
         /\ LET new == UnitsIn(packet)
            IN /\ new # None
               /\ Only(NotSei, new) = Only(NotSei, units)
               /\ \E k \in DOMAIN new : IsSei(new[k]) /\ \A i \in 1 .. k : BeforePicture(new[i])
               /\ FirstSei(new) = SeiUnit(Injected)
<1> DEFINE sei == SeiUnit(Injected)
<1>1. /\ sent \in VideoPacket /\ units = Only(is_valid, sent.units)
      /\ Injected \in Seq(SeiPayload) /\ packet = Rewritten(units, Injected)
  BY DEF Rewrites, AllCollected
<1>2. units \in Seq(Nalu)
  <2>1. sent.units \in Seq(Nalu)
    BY <1>1, SentUnits
  <2> QED
    BY <1>1, <2>1, OnlyIs
<1>3. sei \in Nalu /\ IsSei(sei) /\ emit_sei_payloads_to_avcc_nalu(Injected) = emit_avcc_nalu(sei)
  BY <1>1, SeiUnitWritten DEF PlainMessages
<1>4. SubSeq(units, 1, Lead(units)) \in Seq(Nalu) /\ Rest(units) \in Seq(Nalu)
  <2>1. units \in Seq(Seq(Byte))
    <3>1. \A u \in Nalu : u \in Seq(Byte)
      BY DEF Nalu
    <3> QED
      BY <1>2, <3>1
  <2>2. Lead(units) \in 0 .. Len(units) /\ Len(units) \in Nat
    BY <1>2, <2>1, LeadIs
  <2>3. SubSeq(units, 1, Lead(units)) \in Seq(Nalu)
    BY <1>2, <2>2
  <2> DEFINE k == Lead(units) + Old(units) + 1
  <2>4. k \in Nat \ {0}
    BY <2>2 DEF Old
  <2> HIDE DEF k
  <2>5. SubSeq(units, k, Len(units)) \in Seq(Nalu)
    BY <1>2, <2>2, <2>4, SubSeqType
  <2> QED
    BY <2>3, <2>5 DEF Rest, k
<1>5. packet = Written(SubSeq(units, 1, Lead(units))) \o emit_avcc_nalu(sei) \o Written(Rest(units))
  BY <1>1, <1>3, <1>4, EachIsWritten DEF Rewritten
<1> HIDE DEF sei
<1>6. LET new == UnitsIn(packet)
      IN /\ new # None
         /\ Only(NotSei, new) = Only(NotSei, units)
         /\ \E k \in DOMAIN new : IsSei(new[k]) /\ \A i \in 1 .. k : BeforePicture(new[i])
         /\ FirstSei(new) = sei
  BY <1>2, <1>3, <1>5, RewrittenUnits
<1> QED
  BY <1>1, <1>6 DEF sei

LEMMA KeptByRewriting ==
  ASSUME AllCollected, PlainMessages
  PROVE  PicturesKept
<1> SUFFICES ASSUME Rewrites
             PROVE  LET new == UnitsIn(packet)
                    IN /\ new # None
                       /\ Only(NotSei, new) = Only(NotSei, Only(is_valid, sent.units))
                       /\ \E k \in DOMAIN new :
                            IsSei(new[k]) /\ \A i \in 1 .. k : BeforePicture(new[i])
  BY DEF PicturesKept
<1> QED
  BY WhenRewritten

\* CHANGELOG.md, line 11, "Fixed broken NALUs in output", for every packet and
\* all that may be found for it: as long as the lengths of the messages are
\* ones that sei_payload_size_hint and emit_variadic_length_int get right, a
\* reader of the rewritten packet finds every valid unit of the picture whole
\* and in its place, and a SEI unit before it (SeiInjector::process).
THEOREM PicturesAreKept == Spec => [](PlainMessages => PicturesKept)
<1>1. AllCollected => (PlainMessages => PicturesKept)
  BY KeptByRewriting
<1> QED
  BY <1>1, Collecting, PTL

-----------------------------------------------------------------------------
\* The first message is of a type and a size that the code can write: from 255
\* on a number is written as another one.
FirstIsShort ==
  Injected # << >> => Injected[1].type < 255 /\ Len(Injected[1].data) < 255

LEMMA FirstInPacket ==
  ASSUME AllCollected, PlainMessages, FirstIsShort
  PROVE  FirstArrives
<1> SUFFICES ASSUME Rewrites, Injected # << >>
             PROVE  LET sei == FirstSei(UnitsIn(packet))
                    IN /\ UnitsIn(packet) # None
                       /\ HasMessage(sei) /\ FirstMessage(sei) = Injected[1]
                       /\ Len(Injected) = 1 => Messages(sei) = Injected
  BY DEF FirstArrives
<1>1. /\ Injected \in Seq(SeiPayload) /\ UnitsIn(packet) # None
      /\ FirstSei(UnitsIn(packet)) = SeiUnit(Injected)
  BY WhenRewritten
<1>2. /\ \A i \in DOMAIN Injected : Plain(Injected[i])
      /\ Injected[1].type < 255 /\ Len(Injected[1].data) < 255
  BY DEF PlainMessages, FirstIsShort
<1> DEFINE seis == Injected
<1> HIDE DEF seis
<1>3. LET u == SeiUnit(seis)
      IN /\ HasMessage(u) /\ FirstMessage(u) = seis[1]
         /\ Len(seis) = 1 => Messages(u) = seis
  BY <1>1, <1>2, FirstIsFound DEF seis
<1> QED
  BY <1>1, <1>3 DEF seis

\* README.md, line 42, "injects closed captions and metadata", for every packet
\* of the output and all that may be found for it, within the lengths of
\* PicturesAreKept and if the first message is short: whoever reads the first
\* SEI unit of the rewritten packet, undoing emulation prevention, finds the
\* first message byte by byte as it was, and if there is no other one, it is
\* all that the unit says (emit_sei_payloads_to_avcc_nalu, copy_sodb_to_ebsp,
\* copy_ebsp_to_sodb, sei_parser_next).
THEOREM FirstMessageArrives == Spec => [](PlainMessages /\ FirstIsShort => FirstArrives)
<1>1. AllCollected => (PlainMessages /\ FirstIsShort => FirstArrives)
  BY FirstInPacket
<1> QED
  BY <1>1, Collecting, PTL

-----------------------------------------------------------------------------
(* the messages of a unit, written as H.264 has it, are read *)

LEMMA MiddleAt ==
  ASSUME NEW S, NEW h \in Seq(S), NEW s \in Seq(S), NEW c \in Seq(S)
  PROVE  LET d == (h \o s) \o c
         IN /\ d \in Seq(S) /\ Len(d) = Len(h) + Len(s) + Len(c)
            /\ \A i \in 1 .. Len(s) : d[Len(h) + i] = s[i]
<1> DEFINE d == (h \o s) \o c
           m == Len(h)
           n == Len(s)
           q == SubSeq(d, m + 1, m + n)
<1>1. d \in Seq(S) /\ Len(d) = m + n + Len(c) /\ q = s
  BY Middle
<1>2. m \in Nat /\ n \in Nat /\ Len(c) \in Nat
  OBVIOUS
<1> DEFINE k == Len(c)
<1> HIDE DEF d
<1>3. ASSUME NEW i \in 1 .. n PROVE d[m + i] = s[i]
  <2>1. m + 1 \in Nat \ {0} /\ m + n \in Nat /\ m + n <= Len(d) /\ m + 1 <= m + n /\ (m + n) - (m + 1) + 1 = n
    <3>1. Len(d) = m + n + k /\ k \in Nat
      BY <1>1, <1>2
    <3> HIDE DEF m, n, k
    <3> QED
      BY <1>2, <1>3, <3>1
  <2>2. /\ Len(q) = IF m + 1 <= m + n THEN (m + n) - (m + 1) + 1 ELSE 0
        /\ \A j \in 1 .. Len(q) : q[j] = d[(m + 1) + j - 1]
    BY <1>1, <2>1, SubSeqType
  <2>3. Len(q) = n
    BY <2>1, <2>2
  <2>4. q[i] = d[(m + 1) + i - 1]
    BY <1>3, <2>2, <2>3
  <2>5. (m + 1) + i - 1 = m + i
    <3> HIDE DEF m, n
    <3> QED
      BY <1>2, <1>3
  <2> HIDE DEF q
  <2> QED
    BY <1>1, <2>4, <2>5
<1> QED
  BY <1>1, <1>3 DEF d

\* bytes of 255 and a smaller one
Whole(n) == n \div 255
Part(n) == n % 255
Counts(b, r, e) ==
  /\ b \in Seq(Byte) /\ Len(b) = r + 1
  /\ \A i \in 1 .. r : b[i] = 255
  /\ b[r + 1] = e

LEMMA NumberIs ==
  ASSUME NEW n \in Nat
  PROVE  /\ Whole(n) \in Nat /\ Part(n) \in Nat /\ Part(n) < 255
         /\ 255 * Whole(n) + Part(n) = n
         /\ Counts(NumberBytes(n), Whole(n), Part(n))
<1> DEFINE b == NumberBytes(n)
           r == Whole(n)
           e == Part(n)
           x == [ i \in 1 .. r |-> 255 ]
<1>1. r \in Nat /\ e \in Nat /\ e < 255 /\ 255 * r + e = n
  BY DEF Whole, Part
<1>2. b = Append(x, e)
  BY DEF NumberBytes, Whole, Part
<1> HIDE DEF r, e, b
<1>3. 255 \in Byte /\ e \in Byte
  <2>1. 255 \in Nat /\ 255 <= 255 /\ e <= 255
    BY <1>1
  <2> QED
    BY <1>1, <2>1, ByteIs
<1>4. x \in Seq(Byte) /\ Len(x) = r /\ \A i \in 1 .. r : x[i] = 255
  <2>1. x \in [ 1 .. r -> Byte ]
    BY <1>3
  <2>2. \A i \in 1 .. r : x[i] = 255
    OBVIOUS
  <2> HIDE DEF x
  <2>3. x \in Seq(Byte) /\ Len(x) = r
    BY <1>1, <2>1, SequenceOf
  <2> QED
    BY <2>2, <2>3
<1> HIDE DEF x
<1>5. Counts(b, r, e)
  BY <1>1, <1>2, <1>3, <1>4 DEF Counts
<1> QED
  BY <1>1, <1>5 DEF r, e, b

\* and they are read as the number
LEMMA NumberIsRead ==
  ASSUME NEW n \in Nat, NEW a \in Seq(Byte), NEW c \in Seq(Byte)
  PROVE  LET d == (a \o NumberBytes(n)) \o c
             p == Len(a) + 1
         IN parse_variadic_length_int(d, p) = [ number |-> n, end |-> p + Len(NumberBytes(n)) ]
<1> DEFINE b == NumberBytes(n)
           r == Whole(n)
           e == Part(n)
           d == (a \o b) \o c
           m == Len(a)
           p == m + 1
           N == Len(d)
           Is(k) == (\A i \in 0 .. k - 1 : scan_8(d, p + i) = 255) /\ scan_8(d, p + k) # 255
           run == CHOOSE k \in 0 .. N : Is(k)
<1>1. r \in Nat /\ e \in Nat /\ e < 255 /\ 255 * r + e = n
  BY NumberIs
<1>2. Counts(b, r, e)
  BY NumberIs
<1> HIDE DEF r, e, b
<1>3. /\ b \in Seq(Byte) /\ Len(b) = r + 1
      /\ \A i \in 1 .. r : b[i] = 255
      /\ b[r + 1] = e
  BY <1>2 DEF Counts
<1>4. m \in Nat /\ Len(c) \in Nat
  OBVIOUS
<1>5. /\ d \in Seq(Byte) /\ N = m + Len(b) + Len(c)
      /\ \A i \in 1 .. Len(b) : d[m + i] = b[i]
  <2>1. b \in Seq(Byte)
    BY <1>3
  <2> QED
    BY <2>1, MiddleAt
<1> DEFINE l == Len(c)
<1>6. N = m + (r + 1) + l /\ l \in Nat /\ N \in Nat /\ DOMAIN d = 1 .. N
  BY <1>1, <1>3, <1>4, <1>5
<1> HIDE DEF d, m, l, N
<1>7. ASSUME NEW i \in 0 .. r PROVE scan_8(d, p + i) = IF i = r THEN e ELSE 255
  <2>1. p + i = m + (i + 1) /\ i + 1 \in 1 .. r + 1 /\ p + i \in 1 .. N
    BY <1>1, <1>4, <1>6, <1>7
  <2>2. d[p + i] = b[i + 1]
    BY <1>3, <1>5, <2>1
  <2>3. i # r => i + 1 \in 1 .. r
    BY <1>1, <1>7
  <2>4. b[i + 1] = IF i = r THEN e ELSE 255
    <3>1. CASE i = r
      BY <1>3, <3>1
    <3>2. CASE i # r
      <4>1. i + 1 \in 1 .. r
        BY <2>3, <3>2
      <4>2. b[i + 1] = 255
        BY <1>3, <4>1
      <4> QED
        BY <3>2, <4>2
    <3> QED
      BY <3>1, <3>2
  <2> QED
    BY <1>6, <2>1, <2>2, <2>4 DEF scan_8
<1>8. r \in 0 .. N /\ Is(r)
  <2>1. r \in 0 .. r /\ e # 255 /\ r \in 0 .. N
    BY <1>1, <1>4, <1>6
  <2>2. \A i \in 0 .. r - 1 : i \in 0 .. r /\ i # r
    BY <1>1
  <2> QED
    BY <1>7, <2>1, <2>2
<1>9. ASSUME NEW k \in 0 .. N, Is(k) PROVE k = r
  <2>1. ~ (r \in 0 .. k - 1)
    BY <1>8, <1>9
  <2>2. k \in 0 .. r => k = r
    BY <1>7, <1>9
  <2> QED
    BY <1>1, <1>6, <2>1, <2>2
<1> HIDE DEF Is
<1>10. run = r
  BY <1>8, <1>9
<1>11. parse_variadic_length_int(d, p) = [ number |-> 255 * run + scan_8(d, p + run), end |-> p + run + 1 ]
  BY DEF parse_variadic_length_int, Is, N
<1> HIDE DEF run
<1>12. scan_8(d, p + r) = e /\ p + r + 1 = p + Len(b)
  <2>1. r \in 0 .. r
    BY <1>1
  <2>2. scan_8(d, p + r) = e
    BY <1>7, <2>1
  <2>3. Len(b) = r + 1
    BY <1>3
  <2> HIDE DEF p
  <2>4. p \in Nat
    BY <1>4 DEF p
  <2>5. p + r + 1 = p + (r + 1)
    BY <1>1, <2>4
  <2> QED
    BY <2>2, <2>3, <2>5
<1> HIDE DEF p
<1>13. parse_variadic_length_int(d, p) = [ number |-> n, end |-> p + Len(b) ]
  BY <1>1, <1>10, <1>11, <1>12
<1> QED
  BY <1>13 DEF d, p, m, b

\* The parser at the beginning of a message, whatever is before and behind it.
LEMMA MessageIsRead ==
  ASSUME NEW sei \in SeiPayload, NEW a \in Seq(Byte), NEW c \in Seq(Byte)
  PROVE  LET d == (a \o MessageBytes(sei)) \o c
             p == Len(a) + 1
             b == sei_parser_next(d, p)
         IN /\ MessageBytes(sei) \in Seq(Byte) /\ Len(MessageBytes(sei)) >= 2
            /\ b # Malformed /\ b.last + 1 = p + Len(MessageBytes(sei))
            /\ b.type = sei.type /\ SubSeq(d, b.first, b.last) = sei.data
<1> DEFINE t == sei.type
           s == sei.data
           T == NumberBytes(t)
           L == NumberBytes(Len(s))
           M == MessageBytes(sei)
           d == (a \o M) \o c
           p == Len(a) + 1
           b == sei_parser_next(d, p)
           aT == a \o T
           aTL == aT \o L
           sc == s \o c
           Lsc == L \o sc
<1>1. t \in Nat /\ s \in Seq(Byte) /\ Len(s) \in Nat
  BY DEF SeiPayload
<1>2. M = (T \o L) \o s
  BY DEF MessageBytes
<1> HIDE DEF t, s
<1>3. T \in Seq(Byte) /\ Len(T) \in Nat /\ Len(T) >= 1
  <2>1. Counts(T, Whole(t), Part(t)) /\ Whole(t) \in Nat
    BY <1>1, NumberIs
  <2> HIDE DEF T
  <2> QED
    BY <2>1 DEF Counts
<1>4. L \in Seq(Byte) /\ Len(L) \in Nat /\ Len(L) >= 1
  <2> DEFINE l == Len(s)
  <2>1. Counts(L, Whole(l), Part(l)) /\ Whole(l) \in Nat
    BY <1>1, NumberIs
  <2> HIDE DEF L, l
  <2> QED
    BY <2>1 DEF Counts
<1>5. /\ parse_variadic_length_int(aT \o Lsc, Len(a) + 1)
           = [ number |-> t, end |-> Len(a) + 1 + Len(T) ]
      /\ parse_variadic_length_int(aTL \o sc, Len(aT) + 1)
           = [ number |-> Len(s), end |-> Len(aT) + 1 + Len(L) ]
  <2>1. sc \in Seq(Byte)
    BY <1>1, ConcatType
  <2> HIDE DEF sc
  <2>2. Lsc \in Seq(Byte)
    <3> HIDE DEF L
    <3> QED
      BY <1>4, <2>1, ConcatType
  <2> HIDE DEF Lsc
  <2>3. parse_variadic_length_int((a \o NumberBytes(t)) \o Lsc, Len(a) + 1)
          = [ number |-> t, end |-> Len(a) + 1 + Len(NumberBytes(t)) ]
    BY <1>1, <2>2, NumberIsRead
  <2>4. aT \in Seq(Byte)
    <3> HIDE DEF T
    <3> QED
      BY <1>3, ConcatType
  <2> HIDE DEF aT
  <2>5. parse_variadic_length_int((aT \o NumberBytes(Len(s))) \o sc, Len(aT) + 1)
          = [ number |-> Len(s), end |-> Len(aT) + 1 + Len(NumberBytes(Len(s))) ]
    BY <1>1, <2>1, <2>4, NumberIsRead
  <2> QED
    BY <2>3, <2>5 DEF aT
<1> HIDE DEF T, L
<1>6. /\ aT \in Seq(Byte) /\ aTL \in Seq(Byte) /\ sc \in Seq(Byte) /\ M \in Seq(Byte)
      /\ Len(aT) = Len(a) + Len(T) /\ Len(aTL) = Len(aT) + Len(L)
      /\ Len(M) = (Len(T) + Len(L)) + Len(s)
  <2>1. aT \in Seq(Byte) /\ Len(aT) = Len(a) + Len(T)
    BY <1>3, ConcatType
  <2>2. sc \in Seq(Byte)
    BY <1>1, ConcatType
  <2>3. T \o L \in Seq(Byte) /\ Len(T \o L) = Len(T) + Len(L)
    BY <1>3, <1>4, ConcatType
  <2> DEFINE TL == T \o L
  <2> HIDE DEF aT
  <2>4. aTL \in Seq(Byte) /\ Len(aTL) = Len(aT) + Len(L)
    BY <1>4, <2>1, ConcatType
  <2> HIDE DEF TL
  <2>5. TL \o s \in Seq(Byte) /\ Len(TL \o s) = Len(TL) + Len(s)
    <3>1. TL \in Seq(Byte)
      BY <2>3 DEF TL
    <3> QED
      BY <1>1, <3>1, ConcatType
  <2> HIDE DEF M
  <2>6. M = TL \o s /\ Len(TL) = Len(T) + Len(L)
    BY <1>2, <2>3 DEF TL
  <2> QED
    BY <2>1, <2>2, <2>4, <2>5, <2>6 DEF aT
<1> HIDE DEF M
<1>7. a \o M = aTL \o s
  <2> DEFINE TL == T \o L
  <2>1. TL \in Seq(Byte)
    BY <1>3, <1>4, ConcatType
  <2>2. (a \o T) \o L = a \o (T \o L)
    BY <1>3, <1>4, Regroup
  <2> HIDE DEF TL
  <2>3. (a \o TL) \o s = a \o (TL \o s)
    BY <1>1, <2>1, Regroup
  <2>4. M = TL \o s /\ aTL = a \o TL
    BY <1>2, <2>2 DEF TL
  <2> HIDE DEF aTL
  <2> QED
    BY <2>3, <2>4
<1>8. d = aTL \o sc /\ d = aT \o Lsc
  <2> HIDE DEF aT
  <2>1. (aT \o L) \o sc = aT \o (L \o sc)
    <3>1. L \in Seq(Byte) /\ aT \in Seq(Byte) /\ sc \in Seq(Byte)
      BY <1>4, <1>6
    <3> HIDE DEF sc
    <3> QED
      BY <3>1, Regroup
  <2> HIDE DEF aTL
  <2>2. (aTL \o s) \o c = aTL \o (s \o c)
    <3>1. aTL \in Seq(Byte) /\ s \in Seq(Byte)
      BY <1>1, <1>6
    <3> QED
      BY <3>1, Regroup
  <2>3. d = (aTL \o s) \o c
    BY <1>7
  <2> HIDE DEF d
  <2> QED
    BY <2>1, <2>2, <2>3 DEF aTL
<1>9. /\ d \in Seq(Byte) /\ Len(d) = Len(aTL) + Len(s) + Len(c)
      /\ SubSeq(d, Len(aTL) + 1, Len(aTL) + Len(s)) = s
  <2>1. d = (aTL \o s) \o c
    BY <1>7
  <2>2. aTL \in Seq(Byte) /\ s \in Seq(Byte)
    BY <1>1, <1>6
  <2> HIDE DEF d, aTL
  <2> QED
    BY <2>1, <2>2, Middle
<1> DEFINE A == Len(a)
           x == Len(T)
           y == Len(L)
           z == Len(s)
           w == Len(c)
           f == A + 1 + x + y
<1>10. /\ A \in Nat /\ x \in Nat /\ y \in Nat /\ z \in Nat /\ w \in Nat /\ x >= 1 /\ y >= 1
       /\ Len(aT) = A + x /\ Len(aTL) = (A + x) + y /\ Len(M) = (x + y) + z
       /\ Len(d) = ((A + x) + y) + z + w /\ p = A + 1
  BY <1>1, <1>3, <1>4, <1>6, <1>9
<1>11. /\ parse_variadic_length_int(d, p) = [ number |-> t, end |-> p + x ]
       /\ parse_variadic_length_int(d, p + x) = [ number |-> z, end |-> f ]
  <2>1. p + x = Len(aT) + 1 /\ f = Len(aT) + 1 + y /\ p = Len(a) + 1
    <3> HIDE DEF A, x, y, p
    <3> QED
      BY <1>10 DEF A
  <2> HIDE DEF d, p, f, aT, aTL, sc, Lsc, x, y, z
  <2>2. parse_variadic_length_int(d, p) = [ number |-> t, end |-> p + Len(T) ]
    BY <1>5, <1>8, <2>1
  <2>3. parse_variadic_length_int(d, p + x) = [ number |-> Len(s), end |-> Len(aT) + 1 + Len(L) ]
    BY <1>5, <1>8, <2>1
  <2> QED
    BY <2>1, <2>2, <2>3 DEF x, y, z
<1> HIDE DEF d, p, aT, aTL, A, x, y, z, w
<1>12. /\ f + z <= Len(d) + 1 /\ f \in Nat /\ f > 1 /\ f + z - 1 + 1 = p + Len(M)
       /\ f = Len(aTL) + 1 /\ f + z - 1 = Len(aTL) + z /\ Len(M) >= 2
  BY <1>10
<1> HIDE DEF f
<1>13. sei_parser_next(d, p) = [ first |-> f, last |-> f + z - 1, type |-> t ]
  BY <1>11, <1>12 DEF sei_parser_next
<1>14. b.first = f /\ b.last = f + z - 1 /\ b.type = t
  BY <1>13
<1> HIDE DEF b
<1>15. b # Malformed
  <2>1. Malformed.first = 1
    BY DEF Malformed
  <2> QED
    BY <1>12, <1>14, <2>1
<1>16. SubSeq(d, b.first, b.last) = s
  <2>1. Len(s) = z
    BY DEF z
  <2> QED
    BY <1>9, <1>12, <1>14, <2>1
<1> QED
  BY <1>6, <1>12, <1>14, <1>15, <1>16 DEF b, d, p, M, t, s

\* the messages of a unit, and where message k + 1 begins behind its header
Pack == [ sei \in SeiPayload |-> MessageBytes(sei) ]
Packed(seis) == FlatMap(Pack, seis)
Place(seis, k) == Len(Packed(SubSeq(seis, 1, k))) + 2

LEMMA PackedConcat ==
  ASSUME NEW s \in Seq(SeiPayload), NEW t \in Seq(SeiPayload)
  PROVE  Packed(s) \in Seq(Byte) /\ Packed(s \o t) = Packed(s) \o Packed(t)
<1> DEFINE f == Pack
           S == SeiPayload
           B == Byte
<1>1. \A sei \in SeiPayload : MessageBytes(sei) \in Seq(Byte)
  <2> SUFFICES ASSUME NEW sei \in SeiPayload PROVE MessageBytes(sei) \in Seq(Byte)
    OBVIOUS
  <2>1. << >> \in Seq(Byte)
    OBVIOUS
  <2> QED
    BY <2>1, MessageIsRead
<1>2. PutsTogether(f, S, B) /\ s \in Seq(S) /\ t \in Seq(S)
  BY <1>1 DEF PutsTogether, Pack
<1> HIDE DEF f, S, B
<1>3. FlatMap(f, s) \in Seq(B) /\ FlatMap(f, s \o t) = FlatMap(f, s) \o FlatMap(f, t)
  BY <1>2, FlatMapConcat
<1> QED
  BY <1>3 DEF Packed, f, B

LEMMA PackedFew ==
  ASSUME NEW sei \in SeiPayload
  PROVE  Packed(<< >>) = << >> /\ Packed(<< sei >>) = MessageBytes(sei)
<1> DEFINE f == Pack
           S == SeiPayload
           B == Byte
<1>1. \A x \in SeiPayload : MessageBytes(x) \in Seq(Byte)
  <2> SUFFICES ASSUME NEW x \in SeiPayload PROVE MessageBytes(x) \in Seq(Byte)
    OBVIOUS
  <2>1. << >> \in Seq(Byte)
    OBVIOUS
  <2> QED
    BY <2>1, MessageIsRead
<1>2. PutsTogether(f, S, B) /\ sei \in S
  BY <1>1 DEF PutsTogether, Pack
<1> HIDE DEF f, S, B
<1>3. FlatMap(f, << >>) = << >> /\ FlatMap(f, << sei >>) = f[sei]
  BY <1>2, FlatMapFew
<1>4. Pack[sei] = MessageBytes(sei)
  BY DEF Pack
<1> QED
  BY <1>3, <1>4 DEF Packed, f

LEMMA EachIsPacked ==
  ASSUME NEW seis \in Seq(SeiPayload)
  PROVE  Each(MessageBytes, seis) = Packed(seis)
<1>1. DOMAIN seis = 1 .. Len(seis) /\ \A i \in 1 .. Len(seis) : seis[i] \in SeiPayload
  OBVIOUS
<1>2. \A sei \in SeiPayload : Pack[sei] = MessageBytes(sei)
  BY DEF Pack
<1>3. [ i \in DOMAIN seis |-> MessageBytes(seis[i]) ] = [ i \in DOMAIN seis |-> Pack[seis[i]] ]
  BY <1>1, <1>2
<1> QED
  BY <1>3 DEF Each, Packed, FlatMap, ImageOf

\* The parser at the beginning of a message of a unit.
LEMMA NextIsFound ==
  ASSUME NEW h \in Seq(Byte), Len(h) = 1, NEW seis \in Seq(SeiPayload), NEW k \in Nat, k < Len(seis)
  PROVE  LET d == h \o Packed(seis)
             b == sei_parser_next(d, Place(seis, k))
         IN /\ seis[k + 1] \in SeiPayload /\ Place(seis, k) \in Nat
            /\ Place(seis, k) < Place(seis, k + 1)
            /\ b # Malformed /\ b.last + 1 = Place(seis, k + 1)
            /\ [ type |-> b.type, data |-> SubSeq(d, b.first, b.last) ] = seis[k + 1]
<1> DEFINE before == SubSeq(seis, 1, k)
           x == seis[k + 1]
           after == SubSeq(seis, k + 2, Len(seis))
           pre == Packed(before)
           post == Packed(after)
           M == MessageBytes(x)
           d == h \o Packed(seis)
           a == h \o pre
<1>1. /\ before \in Seq(SeiPayload) /\ after \in Seq(SeiPayload) /\ x \in SeiPayload
      /\ seis = before \o (<< x >> \o after) /\ SubSeq(seis, 1, k + 1) = before \o << x >>
  BY Around
<1> HIDE DEF before, after, x
<1>2. << x >> \in Seq(SeiPayload) /\ << x >> \o after \in Seq(SeiPayload)
  BY <1>1, ConcatType
<1>3. Packed(<< x >>) = M
  BY <1>1, PackedFew
<1>4. Packed(seis) = pre \o (M \o post) /\ pre \in Seq(Byte) /\ post \in Seq(Byte)
  <2>1. Packed(before \o (<< x >> \o after)) = pre \o Packed(<< x >> \o after)
    BY <1>1, <1>2, PackedConcat
  <2>2. Packed(<< x >> \o after) = Packed(<< x >>) \o post
    BY <1>1, <1>2, PackedConcat
  <2>3. pre \in Seq(Byte) /\ post \in Seq(Byte)
    BY <1>1, PackedConcat
  <2> QED
    BY <1>1, <1>3, <2>1, <2>2, <2>3
<1>5. Packed(SubSeq(seis, 1, k + 1)) = pre \o M
  <2>1. Packed(before \o << x >>) = pre \o Packed(<< x >>)
    BY <1>1, <1>2, PackedConcat
  <2> QED
    BY <1>1, <1>3, <2>1
<1>6. Place(seis, k) = Len(pre) + 2 /\ Place(seis, k + 1) = Len(pre \o M) + 2
  BY <1>5 DEF Place, before, pre
<1> HIDE DEF pre, post
<1>7. M \in Seq(Byte) /\ Len(M) \in Nat /\ Len(M) >= 2
  <2>1. M \in Seq(Byte) /\ Len(M) >= 2
    BY <1>1, <1>4, MessageIsRead
  <2> HIDE DEF M
  <2> QED
    BY <2>1
<1>8. a \in Seq(Byte) /\ Len(a) = 1 + Len(pre) /\ Len(pre) \in Nat
  <2>1. pre \in Seq(Byte)
    BY <1>4
  <2>2. h \o pre \in Seq(Byte) /\ Len(h \o pre) = Len(h) + Len(pre)
    BY <2>1, ConcatType
  <2>3. Len(h) = 1 /\ Len(pre) \in Nat
    BY <2>1
  <2> HIDE DEF pre
  <2> QED
    BY <2>2, <2>3
<1>9. d = (a \o M) \o post
  <2> HIDE DEF M
  <2>1. M \o post \in Seq(Byte)
    BY <1>4, <1>7, ConcatType
  <2> DEFINE Mp == M \o post
  <2>2. (h \o pre) \o Mp = h \o (pre \o Mp)
    <3> HIDE DEF Mp
    <3>1. Mp \in Seq(Byte)
      BY <2>1 DEF Mp
    <3> QED
      BY <1>4, <3>1, Regroup
  <2>3. (a \o M) \o post = a \o (M \o post)
    <3>1. a \in Seq(Byte)
      BY <1>8
    <3> HIDE DEF a
    <3> QED
      BY <1>4, <1>7, <3>1, Regroup
  <2> QED
    BY <1>4, <2>2, <2>3
<1> HIDE DEF a, d
<1> DEFINE p == Len(a) + 1
           b == sei_parser_next(d, p)
<1>10. /\ b # Malformed /\ b.last + 1 = p + Len(M)
       /\ b.type = x.type /\ SubSeq(d, b.first, b.last) = x.data
  <2>1. a \in Seq(Byte)
    BY <1>8
  <2> DEFINE e == (a \o MessageBytes(x)) \o post
             c == sei_parser_next(e, Len(a) + 1)
  <2>2. /\ c # Malformed /\ c.last + 1 = (Len(a) + 1) + Len(MessageBytes(x))
        /\ c.type = x.type /\ SubSeq(e, c.first, c.last) = x.data
    BY <1>1, <1>4, <2>1, MessageIsRead
  <2> QED
    BY <1>9, <2>2
<1> HIDE DEF M, b
<1>11. p = Place(seis, k) /\ p + Len(M) = Place(seis, k + 1) /\ p \in Nat /\ p < p + Len(M)
  <2>1. Len(pre \o M) = Len(pre) + Len(M)
    BY <1>4, <1>7, ConcatType
  <2> DEFINE l == Len(pre)
             m == Len(M)
             n == Len(a)
  <2>2. /\ l \in Nat /\ m \in Nat /\ m >= 2 /\ n = 1 + l
        /\ Place(seis, k) = l + 2 /\ Place(seis, k + 1) = (l + m) + 2
    BY <1>6, <1>7, <1>8, <2>1
  <2> HIDE DEF l, m, n
  <2>3. n + 1 = l + 2 /\ (n + 1) + m = (l + m) + 2 /\ n + 1 \in Nat /\ n + 1 < (n + 1) + m
    BY <2>2
  <2> QED
    BY <2>2, <2>3 DEF l, m, n
<1> HIDE DEF p
<1>12. x = [ type |-> x.type, data |-> x.data ]
  BY <1>1 DEF SeiPayload
<1> QED
  BY <1>1, <1>10, <1>11, <1>12 DEF x, b, d

\* They are read again, all of them, in their order.
LEMMA MessagesRead ==
  ASSUME NEW h \in Seq(Byte), Len(h) = 1, NEW seis \in Seq(SeiPayload)
  PROVE  MessagesFrom(h \o Packed(seis), 2) = seis
<1> DEFINE d == h \o Packed(seis)
           N == Len(seis)
           from == CHOOSE f : f = [ q \in Nat |-> NextOf(d, f, q) ]
           Tail1(k) == SubSeq(seis, k + 1, N)
           Good(k) == from[Place(seis, k)] = Tail1(k)
           Bad == { k \in 0 .. N : ~ Good(k) }
           P == Packed(seis)
<1>1. N \in Nat /\ d \in Seq(Byte) /\ Len(d) = 1 + Len(P) /\ Len(P) \in Nat
  <2>1. P \in Seq(Byte)
    BY PackedConcat
  <2> HIDE DEF P
  <2>2. h \o P \in Seq(Byte) /\ Len(h \o P) = Len(h) + Len(P)
    BY <2>1, ConcatType
  <2>3. d = h \o P
    BY DEF P
  <2> HIDE DEF d
  <2> QED
    BY <2>1, <2>2, <2>3
<1>2. MessagesFrom(d, 2) = from[2]
  BY DEF MessagesFrom, NextOf
<1>3. from = [ q \in Nat |-> NextOf(d, from, q) ]
  BY <1>1, MessagesExist
<1> HIDE DEF from
<1>4. \A q \in Nat : from[q] = NextOf(d, from, q)
  BY <1>3
<1>5. \A k \in 0 .. N : Place(seis, k) \in Nat
  <2> SUFFICES ASSUME NEW k \in 0 .. N PROVE Place(seis, k) \in Nat
    OBVIOUS
  <2>1. SubSeq(seis, 1, k) \in Seq(SeiPayload)
    OBVIOUS
  <2>2. Packed(SubSeq(seis, 1, k)) \in Seq(Byte)
    BY <2>1, PackedConcat
  <2>3. Len(Packed(SubSeq(seis, 1, k))) \in Nat
    BY <2>2
  <2> QED
    BY <2>3 DEF Place
<1>6. Place(seis, N) = Len(d) + 1
  <2>1. SubSeq(seis, 1, N) = seis
    OBVIOUS
  <2>2. Place(seis, N) = Len(P) + 2
    BY <2>1 DEF Place
  <2> HIDE DEF d, P
  <2> QED
    BY <1>1, <2>2
<1>7. Place(seis, 0) = 2 /\ Tail1(0) = seis
  <2>1. SubSeq(seis, 0 + 1, N) = seis
    OBVIOUS
  <2>2. Tail1(0) = seis
    BY <2>1
  <2>3. SubSeq(seis, 1, 0) = << >> /\ Len(<< >>) = 0
    OBVIOUS
  <2>4. Packed(<< >>) = << >>
    <3>1. [ i \in DOMAIN << >> |-> Pack[<< >>[i]] ] = << >>
      OBVIOUS
    <3> QED
      BY <3>1, FlattenEmpty DEF Packed, FlatMap, ImageOf
  <2>5. Packed(SubSeq(seis, 1, 0)) = << >>
    BY <2>3, <2>4
  <2>6. Place(seis, 0) = 0 + 2
    BY <2>3, <2>5 DEF Place
  <2> QED
    BY <2>2, <2>6
<1>8. ASSUME NEW k \in 0 .. N, k # N
      PROVE  LET b == sei_parser_next(d, Place(seis, k))
             IN /\ k \in Nat /\ k < N /\ k + 1 \in 0 .. N /\ ~ (k + 1 <= k)
                /\ seis[k + 1] \in SeiPayload
                /\ Place(seis, k) \in Nat /\ Place(seis, k) < Place(seis, k + 1)
                /\ b # Malformed /\ b.last + 1 = Place(seis, k + 1)
                /\ [ type |-> b.type, data |-> SubSeq(d, b.first, b.last) ] = seis[k + 1]
  <2>1. k \in Nat /\ k < N /\ k + 1 \in 0 .. N /\ ~ (k + 1 <= k)
    BY <1>1, <1>8
  <2> QED
    BY <2>1, NextIsFound
<1> HIDE DEF d, P
<1>9. \A k \in 0 .. N : Place(seis, k) <= Len(d) + 1
  <2> DEFINE Over == { k \in 0 .. N : ~ (Place(seis, k) <= Len(d) + 1) }
  <2> SUFFICES ASSUME Over # {} PROVE FALSE
    OBVIOUS
  <2>1. PICK k \in Over : \A j \in Over : j <= k
    <3>1. Over \subseteq 0 .. N
      OBVIOUS
    <3> HIDE DEF Over
    <3> QED
      BY <1>1, <3>1, NatMax
  <2>2. k \in 0 .. N /\ ~ (Place(seis, k) <= Len(d) + 1)
    BY <2>1
  <2>3. k # N
    BY <1>1, <1>6, <2>2
  <2>4. k + 1 \in 0 .. N /\ ~ (k + 1 <= k) /\ Place(seis, k) < Place(seis, k + 1)
    BY <1>8, <2>2, <2>3
  <2>5. ~ (Place(seis, k + 1) <= Len(d) + 1)
    <3>1. Place(seis, k) \in Nat /\ Place(seis, k + 1) \in Nat /\ Len(d) \in Nat
      BY <1>1, <1>5, <2>2, <2>4
    <3> QED
      BY <2>2, <2>4, <3>1
  <2>6. k + 1 \in Over
    BY <2>4, <2>5
  <2> HIDE DEF Over
  <2> QED
    BY <2>1, <2>4, <2>6
<1>10. Bad = {}
  <2> SUFFICES ASSUME Bad # {} PROVE FALSE
    OBVIOUS
  <2>1. PICK k \in Bad : \A j \in Bad : j <= k
    <3>1. Bad \subseteq 0 .. N
      OBVIOUS
    <3> HIDE DEF Bad
    <3> QED
      BY <1>1, <3>1, NatMax
  <2>2. k \in 0 .. N /\ ~ Good(k)
    BY <2>1
  <2> HIDE DEF Good
  <2>3. CASE k = N
    <3>1. Tail1(N) = << >>
      OBVIOUS
    <3>2. NextOf(d, from, Place(seis, N)) = << >>
      <4>1. Place(seis, N) > Len(d)
        BY <1>1, <1>6
      <4> QED
        BY <4>1 DEF NextOf
    <3>3. N \in 0 .. N
      BY <1>1
    <3> QED
      BY <1>4, <1>5, <2>2, <2>3, <3>1, <3>2, <3>3 DEF Good
  <2>4. CASE k # N
    <3> DEFINE b == sei_parser_next(d, Place(seis, k))
               rest == from[b.last + 1]
    <3>1. /\ k \in Nat /\ k < N /\ k + 1 \in 0 .. N /\ ~ (k + 1 <= k)
          /\ seis[k + 1] \in SeiPayload
          /\ Place(seis, k) \in Nat /\ Place(seis, k) < Place(seis, k + 1)
          /\ b # Malformed /\ b.last + 1 = Place(seis, k + 1)
          /\ [ type |-> b.type, data |-> SubSeq(d, b.first, b.last) ] = seis[k + 1]
      BY <1>8, <2>2, <2>4
    <3>2. Good(k + 1)
      <4>1. k + 1 \notin Bad
        <5> HIDE DEF Bad
        <5> QED
          BY <2>1, <3>1
      <4> QED
        BY <3>1, <4>1
    <3>3. ~ (Place(seis, k) > Len(d))
      <4>1. Place(seis, k + 1) \in Nat /\ Place(seis, k + 1) <= Len(d) + 1 /\ Len(d) \in Nat
        BY <1>1, <1>5, <1>9, <3>1
      <4> QED
        BY <3>1, <4>1
    <3>4. rest = Tail1(k + 1)
      BY <3>1, <3>2 DEF Good
    <3>5. Tail1(k + 1) \in Seq(SeiPayload) /\ Tail1(k + 1) # None
      <4>1. Tail1(k + 1) \in Seq(SeiPayload)
        BY <3>1
      <4> QED
        BY <4>1, PacketsAssumption
    <3>6. NextOf(d, from, Place(seis, k)) = << seis[k + 1] >> \o Tail1(k + 1)
      <4> HIDE DEF Tail1
      <4> QED
        BY <3>1, <3>3, <3>4, <3>5 DEF NextOf
    <3>7. Tail1(k) = << seis[k + 1] >> \o Tail1(k + 1)
      <4>1. SubSeq(seis, k + 1, Len(seis)) = << seis[k + 1] >> \o SubSeq(seis, k + 2, Len(seis))
        BY <3>1, Around
      <4>2. (k + 1) + 1 = k + 2
        BY <3>1
      <4> QED
        BY <4>1, <4>2
    <3>8. Good(k)
      BY <1>4, <3>1, <3>6, <3>7 DEF Good
    <3> QED
      BY <2>2, <3>8
  <2> QED
    BY <2>3, <2>4
<1>11. Good(0)
  <2>1. 0 \in 0 .. N
    BY <1>1
  <2> HIDE DEF Good
  <2> QED
    BY <1>10, <2>1
<1>12. from[2] = seis
  BY <1>7, <1>11
<1> QED
  BY <1>2, <1>12 DEF d

-----------------------------------------------------------------------------
(* what the extractor has of a packet *)

CCs(seis) == Only(IsCC, seis)
IfCC == [ sei \in SeiPayload |-> IF IsCC(sei) THEN << sei >> ELSE << >> ]

LEMMA CCsConcat ==
  ASSUME NEW s \in Seq(SeiPayload), NEW t \in Seq(SeiPayload)
  PROVE  CCs(s) \in Seq(SeiPayload) /\ CCs(s \o t) = CCs(s) \o CCs(t)
<1> DEFINE f == IfCC
           S == SeiPayload
           B == SeiPayload
<1>1. \A sei \in SeiPayload : << sei >> \in Seq(SeiPayload) /\ << >> \in Seq(SeiPayload)
  OBVIOUS
<1>2. PutsTogether(f, S, B) /\ s \in Seq(S) /\ t \in Seq(S)
  BY <1>1 DEF PutsTogether, IfCC
<1> HIDE DEF f, S, B
<1>3. FlatMap(f, s) \in Seq(B) /\ FlatMap(f, s \o t) = FlatMap(f, s) \o FlatMap(f, t)
  BY <1>2, FlatMapConcat
<1>4. \A v \in Seq(SeiPayload) : CCs(v) = FlatMap(f, v)
  <2> SUFFICES ASSUME NEW v \in Seq(SeiPayload) PROVE CCs(v) = FlatMap(f, v)
    OBVIOUS
  <2>1. DOMAIN v = 1 .. Len(v) /\ \A i \in 1 .. Len(v) : v[i] \in SeiPayload
    OBVIOUS
  <2>2. \A sei \in SeiPayload : IfCC[sei] = IF IsCC(sei) THEN << sei >> ELSE << >>
    BY DEF IfCC
  <2>3. [ i \in DOMAIN v |-> IF IsCC(v[i]) THEN << v[i] >> ELSE << >> ] = [ i \in DOMAIN v |-> IfCC[v[i]] ]
    BY <2>1, <2>2
  <2> QED
    BY <2>3 DEF CCs, Only, FlatMap, ImageOf, f
<1>5. s \o t \in Seq(SeiPayload)
  BY ConcatType
<1> QED
  BY <1>3, <1>4, <1>5 DEF B

LEMMA CCsFew ==
  ASSUME NEW sei \in SeiPayload
  PROVE  CCs(<< sei >>) = IF IsCC(sei) THEN << sei >> ELSE << >>
<1>1. [ i \in DOMAIN << sei >> |-> IF IsCC(<< sei >>[i]) THEN << << sei >>[i] >> ELSE << >> ]
        = << IF IsCC(sei) THEN << sei >> ELSE << >> >>
  OBVIOUS
<1> DEFINE x == IF IsCC(sei) THEN << sei >> ELSE << >>
<1>2. x \in Seq(SeiPayload)
  OBVIOUS
<1> HIDE DEF x
<1>3. FlattenSeq(<< x >>) = x
  BY <1>2, FlattenOne
<1> QED
  BY <1>1, <1>3 DEF CCs, Only, x

LEMMA NoCCs == CCs(<< >>) = << >>
<1>1. [ i \in DOMAIN << >> |-> IF IsCC(<< >>[i]) THEN << << >>[i] >> ELSE << >> ] = << >>
  OBVIOUS
<1> QED
  BY <1>1, FlattenEmpty DEF CCs, Only

\* The messages from a position on: none, or the next one and the others.
LEMMA MessagesUnfold ==
  ASSUME NEW d \in Seq(Byte), NEW p \in Nat
  PROVE  LET b == sei_parser_next(d, p)
             sei == [ type |-> b.type, data |-> SubSeq(d, b.first, b.last) ]
         IN /\ p > Len(d) => MessagesFrom(d, p) = << >>
            /\ ~ (p > Len(d)) /\ MessagesFrom(d, p) # None =>
                 /\ b # Malformed /\ MessagesFrom(d, b.last + 1) # None
                 /\ MessagesFrom(d, p) = << sei >> \o MessagesFrom(d, b.last + 1)
<1> DEFINE from == CHOOSE f : f = [ q \in Nat |-> NextOf(d, f, q) ]
           b == sei_parser_next(d, p)
           sei == [ type |-> b.type, data |-> SubSeq(d, b.first, b.last) ]
<1>1. \A q : MessagesFrom(d, q) = from[q]
  BY DEF MessagesFrom, NextOf
<1>2. from = [ q \in Nat |-> NextOf(d, from, q) ]
  BY MessagesExist
<1> HIDE DEF from
<1>3. from[p] = NextOf(d, from, p)
  BY <1>2
<1>4. NextOf(d, from, p) =
        IF p > Len(d) THEN << >>
        ELSE IF b = Malformed \/ from[b.last + 1] = None THEN None
             ELSE << sei >> \o from[b.last + 1]
  BY DEF NextOf
<1> HIDE DEF b, sei
<1>5. p > Len(d) => from[p] = << >>
  BY <1>3, <1>4
<1>6. ~ (p > Len(d)) /\ from[p] # None =>
        b # Malformed /\ from[b.last + 1] # None /\ from[p] = << sei >> \o from[b.last + 1]
  BY <1>3, <1>4
<1> QED
  BY <1>1, <1>5, <1>6 DEF b, sei

LostIn(v, i) ==
  \/ i = Len(v.units) /\ v.lost > 0
  \/ is_valid(v.units[i]) /\ IsSei(v.units[i]) /\ ~ HasStopBit(v.units[i])

\* the messages of the first k units, and the captions that have been pushed
Read(v, k) == FlattenSeq(SubSeq(v.sei, 1, k))
Values(ps) == [ i \in DOMAIN ps |-> ps[i].val ]
Numbered(ps) == \A i \in DOMAIN ps : ps[i].order = i - 1

\* what is left of the unit the extractor is in
Ahead == MessagesFrom(unit.sodb, unit.cursor)

ExtractedUpTo(k) ==
  /\ cursor = Start(sent.units, k)
  /\ \A i \in 1 .. k : ~ LostIn(sent, i)
  /\ Ahead # None
  /\ CCs(Read(sent, k)) = Values(pushed) \o CCs(Ahead)

StoppedAfter(k) ==
  /\ \A i \in 1 .. k : ~ LostIn(sent, i)
  /\ k < Len(sent.units) => LostIn(sent, k + 1)
  /\ CCs(Read(sent, k)) = Values(pushed)

\* While it reads, it stands behind unit k, none of the units up to there
\* could not be read, and what has been pushed are the captions in them,
\* but for those that are still ahead in the last of them.  It has stopped
\* before the first unit that cannot be read, or at the end.
AllPushed ==
  task = "extract" =>
    /\ sent \in VideoPacket /\ Numbered(pushed)
    /\ outcome = "none" => packet = VideoBytes(sent) /\ \E k \in 0 .. Len(sent.units) : ExtractedUpTo(k)
    /\ outcome # "none" => \E k \in 0 .. Len(sent.units) : StoppedAfter(k)

\* That is what the run checks.
LEMMA PushedIsExtracted ==
  ASSUME IInv, AllPushed
  PROVE  CaptionsExtracted
<1> SUFFICES ASSUME task = "extract", outcome # "none"
             PROVE  LET whole == FlattenSeq(SubSeq(sent.sei, 1, Before(LostUnit, sent.units)))
                    IN /\ [ i \in DOMAIN pushed |-> pushed[i].val ] = Only(IsCC, whole)
                       /\ \A i, j \in DOMAIN pushed : i < j => pushed[i].order < pushed[j].order
  BY DEF CaptionsExtracted
<1> DEFINE us == sent.units
           N == Len(us)
           Is(n) == (\A i \in 1 .. n : ~ LostUnit(i)) /\ (n < N => LostUnit(n + 1))
<1>1. PICK k \in 0 .. N : StoppedAfter(k)
  BY DEF AllPushed
<1>2. sent \in VideoPacket /\ Numbered(pushed)
  BY DEF AllPushed
<1>3. N \in Nat
  BY <1>2, SentUnits
<1>4. \A i : LostUnit(i) = LostIn(sent, i)
  BY DEF LostUnit, LostIn
<1>5. Is(k)
  BY <1>1, <1>4 DEF StoppedAfter
<1>6. ASSUME NEW n \in 0 .. N, Is(n) PROVE n = k
  <2>1. CASE n < k
    <3>1. n + 1 \in 1 .. k /\ n < N
      BY <1>1, <1>3, <2>1
    <3> QED
      BY <1>5, <1>6, <3>1
  <2>2. CASE k < n
    <3>1. k + 1 \in 1 .. n /\ k < N
      BY <1>1, <1>3, <2>2
    <3> QED
      BY <1>5, <1>6, <3>1
  <2> QED
    BY <1>1, <1>3, <2>1, <2>2
<1>7. Before(LostUnit, us) = CHOOSE n \in 0 .. N : Is(n)
  BY DEF Before
<1> HIDE DEF Is
<1>8. Before(LostUnit, us) = k
  BY <1>1, <1>5, <1>6, <1>7
<1>9. Only(IsCC, FlattenSeq(SubSeq(sent.sei, 1, k))) = [ i \in DOMAIN pushed |-> pushed[i].val ]
  BY <1>1 DEF StoppedAfter, CCs, Read, Values
<1>10. ASSUME NEW i \in DOMAIN pushed, NEW j \in DOMAIN pushed, i < j
       PROVE  pushed[i].order < pushed[j].order
  <2>1. pushed \in Seq(Pushed)
    BY DEF IInv, TypeOK
  <2>2. i \in Nat /\ j \in Nat
    BY <2>1
  <2>3. pushed[i].order = i - 1 /\ pushed[j].order = j - 1
    BY <1>2 DEF Numbered
  <2> QED
    BY <1>10, <2>2, <2>3
<1> QED
  BY <1>8, <1>9, <1>10

\* What the sender says of its units is what is found in them.
LEMMA Described ==
  ASSUME AsStandardised, NEW v \in VideoPacket
  PROVE  /\ v.sei \in Seq(Seq(SeiPayload)) /\ Len(v.sei) = Len(v.units)
         /\ \A i \in DOMAIN v.units : Carries(v.units[i], v.sei[i])
BY DEF AsStandardised

LEMMA CarriedIsRead ==
  ASSUME NEW u \in Nalu, NEW seis \in Seq(SeiPayload), Carries(u, seis)
  PROVE  IF is_valid(u) /\ IsSei(u)
         THEN HasStopBit(u) => MessagesFrom(copy_ebsp_to_sodb(u), 2) = seis
         ELSE seis = << >>
<1>1. CASE is_valid(u) /\ IsSei(u) /\ HasStopBit(u)
  <2> DEFINE h == << u[1] >>
  <2>1. copy_ebsp_to_sodb(u) = h \o Packed(seis)
    <3>1. copy_ebsp_to_sodb(u) = h \o Each(MessageBytes, seis)
      BY <1>1 DEF Carries
    <3> QED
      BY <3>1, EachIsPacked
  <2>2. u[1] \in Byte
    <3>1. u \in Seq(Byte) /\ u # << >>
      BY DEF Nalu
    <3> QED
      BY <3>1
  <2>3. h \in Seq(Byte) /\ Len(h) = 1
    BY <2>2, OnlyOne
  <2> HIDE DEF h
  <2>4. MessagesFrom(h \o Packed(seis), 2) = seis
    BY <2>3, MessagesRead
  <2> QED
    BY <1>1, <2>1, <2>4
<1>2. CASE ~ (is_valid(u) /\ IsSei(u) /\ HasStopBit(u))
  <2>1. seis = << >>
    BY <1>2 DEF Carries
  <2> QED
    BY <1>2, <2>1
<1> QED
  BY <1>1, <1>2

\* One unit more is read.
LEMMA ReadNext ==
  ASSUME AsStandardised, NEW v \in VideoPacket, NEW k \in Nat, k < Len(v.units)
  PROVE  /\ Read(v, k) \in Seq(SeiPayload) /\ v.sei[k + 1] \in Seq(SeiPayload)
         /\ CCs(Read(v, k + 1)) = CCs(Read(v, k)) \o CCs(v.sei[k + 1])
<1> DEFINE S == Seq(SeiPayload)
           s == v.sei
           pre == SubSeq(s, 1, k)
           x == s[k + 1]
<1>1. s \in Seq(S) /\ k < Len(s)
  BY Described
<1> HIDE DEF S, s
<1>2. pre \in Seq(S) /\ x \in S /\ SubSeq(s, 1, k + 1) = pre \o << x >>
  BY <1>1, Around
<1> HIDE DEF pre, x
<1>3. FlattenSeq(pre) \in Seq(SeiPayload)
  <2>1. pre \in Seq(Seq(SeiPayload))
    BY <1>2 DEF S
  <2> QED
    BY <2>1, FlattenType
<1>4. FlattenSeq(pre \o << x >>) = FlattenSeq(pre) \o x
  <2>1. pre \in Seq(Seq(SeiPayload)) /\ x \in Seq(SeiPayload)
    BY <1>2 DEF S
  <2> QED
    BY <2>1, FlattenSnoc
<1>5. x \in Seq(SeiPayload)
  BY <1>2 DEF S
<1> DEFINE f == FlattenSeq(pre)
<1> HIDE DEF f
<1>6. CCs(f \o x) = CCs(f) \o CCs(x)
  <2>1. f \in Seq(SeiPayload)
    BY <1>3 DEF f
  <2> QED
    BY <1>5, <2>1, CCsConcat
<1>7. Read(v, k) = f /\ Read(v, k + 1) = f \o x
  BY <1>2, <1>4 DEF Read, f, pre, s
<1> QED
  BY <1>3, <1>5, <1>6, <1>7 DEF f, x, s

\* The bytes of a unit are all there, if it is not the one that was cut off.
LEMMA CutOff ==
  ASSUME NEW v \in VideoPacket, NEW k \in Nat, k < Len(v.units)
  PROVE  /\ Start(v.units, k) <= Len(VideoBytes(v))
         /\ Start(v.units, k + 1) <= Len(VideoBytes(v)) + 1
              <=> ~ (k + 1 = Len(v.units) /\ v.lost > 0)
<1> DEFINE us == v.units
           N == Len(us)
           l == Len(us[N])
           n == Len(VideoBytes(v))
           W == Written(us)
           e == Len(W)
           x == v.lost
           s == Start(us, k)
           t == Start(us, k + 1)
<1>1. us \in Seq(Nalu) /\ x \in Nat /\ (N > 0 => x < 4 + l) /\ N \in Nat
  BY SentUnits
<1>2. N > 0 /\ N \in 1 .. N
  BY <1>1
<1>3. l \in Nat
  <2>1. us[N] \in Nalu
    BY <1>1, <1>2
  <2> HIDE DEF us, N
  <2> QED
    BY <2>1 DEF Nalu
<1>4. /\ n \in Nat /\ e \in Nat
      /\ x <= e => n = e - x
  BY VideoBytesAre
<1>5. s \in Nat /\ s + 4 + l <= e + 1
  <2>1. k < N
    OBVIOUS
  <2> HIDE DEF us
  <2> QED
    BY <1>1, <2>1, LastStart
<1>6. s >= 1
  <2>1. SubSeq(us, 1, k) \in Seq(Nalu)
    BY <1>1
  <2>2. Written(SubSeq(us, 1, k)) \in Seq(Byte)
    BY <2>1, WrittenConcat
  <2>3. Len(Written(SubSeq(us, 1, k))) \in Nat
    BY <2>2
  <2> QED
    BY <2>3 DEF Start
<1>7. CASE k + 1 = N
  <2>1. SubSeq(us, 1, N) = us
    BY <1>1
  <2>2. t = e + 1
    BY <1>7, <2>1 DEF Start
  <2> HIDE DEF us, N, l, n, W, e, x, s, t
  <2>3. x < 4 + l
    BY <1>1, <1>2
  <2>4. n = e - x /\ s <= n /\ (t <= n + 1 <=> ~ (x > 0))
    BY <1>1, <1>3, <1>4, <1>5, <1>6, <2>2, <2>3
  <2> QED
    BY <1>7, <2>4 DEF us, N, n, e, x, s, t, W
<1>8. CASE k + 1 # N
  <2>1. k + 1 \in Nat /\ k + 1 < N
    BY <1>1, <1>8
  <2>2. t \in Nat /\ t + 4 + l <= e + 1
    <3> HIDE DEF us
    <3> QED
      BY <1>1, <2>1, LastStart
  <2> HIDE DEF us, N, l, n, W, e, x, s, t
  <2>3. x < 4 + l
    BY <1>1, <1>2
  <2>4. n = e - x /\ s <= n /\ t <= n + 1
    BY <1>1, <1>3, <1>4, <1>5, <1>6, <2>2, <2>3
  <2> QED
    BY <1>8, <2>4 DEF us, N, n, e, x, s, t, W
<1> QED
  BY <1>7, <1>8

LEMMA ReceivePushed ==
  ASSUME AsStandardised, IInv, NEW v \in VideoPacket, Receive("extract", v, VideoBytes(v), << >>)
  PROVE  AllPushed'
<1>1. /\ sent' = v /\ packet' = VideoBytes(v) /\ cursor' = 1 /\ outcome' = "none"
      /\ pushed' = << >> /\ unit' = NoUnit
  BY DEF Receive, IInv, NothingLeft
<1>2. v.units \in Seq(Nalu) /\ Len(v.units) \in Nat /\ 0 \in 0 .. Len(v.units) /\ 1 .. 0 = {}
  <2>1. v.units \in Seq(Nalu)
    BY SentUnits
  <2> QED
    BY <2>1
<1>3. Start(v.units, 0) = 1
  BY <1>2, FirstStart
<1>4. Numbered(<< >>) /\ Values(<< >>) = << >>
  BY DEF Numbered, Values
<1>5. MessagesFrom(<< >>, 1) = << >>
  <2> DEFINE c == << >>
  <2>1. c \in Seq(Byte) /\ Len(c) = 0 /\ 1 > 0 /\ 1 \in Nat
    OBVIOUS
  <2> HIDE DEF c
  <2>2. MessagesFrom(c, 1) = << >>
    BY <2>1, MessagesUnfold
  <2> QED
    BY <2>2 DEF c
<1>6. Ahead' = << >>
  BY <1>1, <1>5 DEF Ahead, NoUnit
<1>7. << >> # None
  <2>1. << >> \in Seq(SeiPayload)
    OBVIOUS
  <2> QED
    BY <2>1, PacketsAssumption
<1>8. Read(v, 0) = << >>
  <2>1. SubSeq(v.sei, 1, 0) = << >>
    <3>1. v.sei \in Seq(Seq(SeiPayload))
      BY Described
    <3> QED
      BY <3>1
  <2> QED
    BY <2>1, FlattenEmpty DEF Read
<1>9. << >> \o << >> = << >>
  OBVIOUS
<1>10. ExtractedUpTo(0)'
  BY <1>1, <1>2, <1>3, <1>4, <1>6, <1>7, <1>8, <1>9, NoCCs DEF ExtractedUpTo
<1>11. \E k \in 0 .. Len(v.units) : ExtractedUpTo(k)'
  BY <1>2, <1>10
<1> QED
  BY <1>1, <1>4, <1>11 DEF AllPushed

\* Behind the last message of a unit, nothing is left of it.
LEMMA AtUnitEnd ==
  ASSUME IInv, task = "extract", outcome = "none", ~ InUnit
  PROVE  Ahead # None /\ Values(pushed) \o CCs(Ahead) = Values(pushed)
<1>1. Ahead = << >>
  <2>1. unit.sodb \in Seq(Byte) /\ unit.cursor \in Nat /\ Len(unit.sodb) \in Nat
    BY WhileWorking
  <2>2. unit.cursor > Len(unit.sodb)
    BY <2>1 DEF InUnit
  <2> DEFINE d == unit.sodb
             p == unit.cursor
  <2> HIDE DEF d, p
  <2>3. d \in Seq(Byte) /\ p \in Nat /\ p > Len(d)
    BY <2>1, <2>2 DEF d, p
  <2>4. MessagesFrom(d, p) = << >>
    BY <2>3, MessagesUnfold
  <2> QED
    BY <2>4 DEF Ahead, d, p
<1>2. Values(pushed) \o << >> = Values(pushed)
  <2>1. pushed \in Seq(Pushed)
    BY DEF IInv, TypeOK
  <2>2. pushed \in [ 1 .. Len(pushed) -> Pushed ] /\ Len(pushed) \in Nat /\ DOMAIN pushed = 1 .. Len(pushed)
    BY <2>1
  <2> DEFINE n == Len(pushed)
             V == { pushed[i].val : i \in 1 .. n }
  <2>3. Values(pushed) \in [ 1 .. n -> V ]
    BY <2>2 DEF Values
  <2> HIDE DEF n, V
  <2>4. Values(pushed) \in Seq(V)
    BY <2>2, <2>3, SequenceOf DEF n
  <2> QED
    BY <2>4, ConcatEmptySeq
<1>3. << >> \in Seq(SeiPayload)
  OBVIOUS
<1> QED
  BY <1>1, <1>2, <1>3, NoCCs, PacketsAssumption

LEMMA ReadUnitPushed ==
  ASSUME AsStandardised, IInv, AllPushed, ReadUnit
  PROVE  AllPushed'
<1> DEFINE b == next_avcc_bounds(packet, cursor)
           nalu == SubSeq(packet, b.first, b.last)
           isSei == is_valid(nalu) /\ NaluType(nalu) = SEI
           us == sent.units
           N == Len(us)
<1>1. /\ task = "extract" /\ outcome = "none" /\ cursor <= Len(packet) /\ ~ InUnit
      /\ packet' = packet /\ task' = task /\ sent' = sent /\ pushed' = pushed
      /\ IF b = Malformed THEN outcome' = "parse error"
         ELSE IF isSei /\ ~ HasStopBit(nalu) THEN outcome' = "thrown"
         ELSE /\ cursor' = b.last + 1 /\ outcome' = outcome
              /\ unit' = IF isSei THEN [ sodb |-> copy_ebsp_to_sodb(nalu), cursor |-> 2 ]
                                  ELSE NoUnit
  BY DEF ReadUnit, Working, End
<1>2. PICK k \in 0 .. N : ExtractedUpTo(k)
  BY <1>1 DEF AllPushed
<1>3. sent \in VideoPacket /\ packet = VideoBytes(sent) /\ Numbered(pushed)
  BY <1>1 DEF AllPushed
<1>4. us \in Seq(Nalu) /\ N \in Nat /\ k \in Nat /\ k <= N
  <2>1. us \in Seq(Nalu)
    BY <1>3, SentUnits
  <2> QED
    BY <1>2, <2>1
<1>5. /\ packet \in Seq(Byte) /\ Len(packet) \in Nat /\ Len(Written(us)) \in Nat
      /\ Len(packet) <= Len(Written(us)) /\ \A i \in 1 .. Len(packet) : packet[i] = Written(us)[i]
  BY <1>3, VideoBytesAre
<1>6. cursor = Start(us, k) /\ (\A i \in 1 .. k : ~ LostIn(sent, i)) /\ CCs(Read(sent, k)) = Values(pushed)
  BY <1>1, <1>2, AtUnitEnd DEF ExtractedUpTo
<1>7. k < N
  <2> SUFFICES ASSUME k = N PROVE FALSE
    BY <1>4
  <2>1. SubSeq(us, 1, N) = us
    BY <1>4
  <2>2. cursor = Len(Written(us)) + 1
    BY <1>6, <2>1 DEF Start
  <2> DEFINE e == Len(Written(us))
             n == Len(packet)
  <2>3. e \in Nat /\ n \in Nat /\ n <= e /\ cursor = e + 1 /\ cursor <= n
    BY <1>1, <1>5, <2>2
  <2> HIDE DEF e, n
  <2> QED
    BY <2>3
<1> DEFINE u == us[k + 1]
<1>8. /\ u \in Nalu
      /\ IF Start(us, k + 1) <= Len(packet) + 1
         THEN b # Malformed /\ b.last + 1 = Start(us, k + 1) /\ nalu = u
         ELSE b = Malformed
  <2> HIDE DEF us
  <2> QED
    BY <1>4, <1>5, <1>6, <1>7, NextIsRead
<1>9. Start(us, k + 1) <= Len(packet) + 1 <=> ~ (k + 1 = N /\ sent.lost > 0)
  BY <1>3, <1>4, <1>7, CutOff
<1>10. k + 1 \in 0 .. N /\ k \in 0 .. N /\ \A i \in 1 .. k + 1 : i \in 1 .. k \/ i = k + 1
  BY <1>4, <1>7
<1>11. ASSUME LostIn(sent, k + 1), outcome' # "none" PROVE AllPushed'
  <2>1. StoppedAfter(k)'
    BY <1>1, <1>6, <1>11 DEF StoppedAfter
  <2>2. \E j \in 0 .. N : StoppedAfter(j)'
    BY <1>10, <2>1
  <2> QED
    BY <1>1, <1>3, <1>11, <2>2 DEF AllPushed
<1>12. CASE b = Malformed
  <2>1. k + 1 = N /\ sent.lost > 0
    BY <1>8, <1>9, <1>12
  <2>2. LostIn(sent, k + 1)
    BY <2>1 DEF LostIn
  <2>3. outcome' # "none"
    BY <1>1, <1>12
  <2> QED
    BY <1>11, <2>2, <2>3
<1>13. b # Malformed => nalu = u /\ b.last + 1 = Start(us, k + 1) /\ ~ (k + 1 = N /\ sent.lost > 0)
  BY <1>8, <1>9
<1>14. CASE b # Malformed /\ isSei /\ ~ HasStopBit(nalu)
  <2>1. LostIn(sent, k + 1)
    BY <1>13, <1>14 DEF LostIn, IsSei
  <2>2. outcome' # "none"
    BY <1>1, <1>14
  <2> QED
    BY <1>11, <2>1, <2>2
<1>15. CASE b # Malformed /\ ~ (isSei /\ ~ HasStopBit(nalu))
  <2> DEFINE m == sent.sei[k + 1]
             sei == is_valid(u) /\ IsSei(u)
  <2>1. /\ cursor' = Start(us, k + 1) /\ outcome' = "none"
        /\ unit' = IF sei THEN [ sodb |-> copy_ebsp_to_sodb(u), cursor |-> 2 ] ELSE NoUnit
        /\ sei => HasStopBit(u)
    <3>1. nalu = u /\ b.last + 1 = Start(us, k + 1)
      BY <1>13, <1>15
    <3>2. isSei <=> sei
      BY <3>1 DEF IsSei
    <3> HIDE DEF b, nalu, u, isSei, sei
    <3>3. /\ cursor' = b.last + 1 /\ outcome' = "none"
          /\ unit' = IF isSei THEN [ sodb |-> copy_ebsp_to_sodb(nalu), cursor |-> 2 ] ELSE NoUnit
          /\ isSei => HasStopBit(nalu)
      BY <1>1, <1>15
    <3> QED
      BY <3>1, <3>2, <3>3
  <2>2. ~ LostIn(sent, k + 1)
    BY <1>13, <1>15, <2>1 DEF LostIn
  <2>3. m \in Seq(SeiPayload) /\ CCs(Read(sent, k + 1)) = CCs(Read(sent, k)) \o CCs(m)
    BY <1>3, <1>4, <1>7, ReadNext
  <2>4. Carries(u, m)
    <3>1. k + 1 \in DOMAIN us
      BY <1>4, <1>7
    <3> QED
      BY <1>3, <3>1, Described
  <2>5. IF sei THEN HasStopBit(u) => MessagesFrom(copy_ebsp_to_sodb(u), 2) = m ELSE m = << >>
    <3> HIDE DEF u, m
    <3> QED
      BY <1>8, <2>3, <2>4, CarriedIsRead
  <2>6. Ahead' = m
    <3>1. CASE sei
      <4>1. unit'.sodb = copy_ebsp_to_sodb(u) /\ unit'.cursor = 2
        BY <2>1, <3>1
      <4> QED
        BY <2>1, <2>5, <3>1, <4>1 DEF Ahead
    <3>2. CASE ~ sei
      <4>1. unit'.sodb = << >> /\ unit'.cursor = 1
        BY <2>1, <3>2 DEF NoUnit
      <4>2. MessagesFrom(<< >>, 1) = << >>
        <5> DEFINE c == << >>
        <5>1. c \in Seq(Byte) /\ Len(c) = 0 /\ 1 > 0 /\ 1 \in Nat
          OBVIOUS
        <5> HIDE DEF c
        <5>2. MessagesFrom(c, 1) = << >>
          BY <5>1, MessagesUnfold
        <5> QED
          BY <5>2 DEF c
      <4> QED
        BY <2>5, <3>2, <4>1, <4>2 DEF Ahead
    <3> QED
      BY <3>1, <3>2
  <2>7. m # None
    BY <2>3, PacketsAssumption
  <2> HIDE DEF m, sei
  <2>8. \A i \in 1 .. k + 1 : ~ LostIn(sent, i)
    BY <1>6, <1>10, <2>2
  <2>9. ExtractedUpTo(k + 1)'
    BY <1>1, <1>6, <2>1, <2>3, <2>6, <2>7, <2>8 DEF ExtractedUpTo
  <2>10. \E j \in 0 .. N : ExtractedUpTo(j)'
    BY <1>10, <2>9
  <2> QED
    BY <1>1, <1>3, <2>1, <2>10 DEF AllPushed
<1> QED
  BY <1>12, <1>14, <1>15

LEMMA ReadMessagePushed ==
  ASSUME AsStandardised, IInv, AllPushed, ReadMessage
  PROVE  AllPushed'
<1> DEFINE d == unit.sodb
           p == unit.cursor
           b == sei_parser_next(d, p)
           sei == [ type |-> b.type, data |-> SubSeq(d, b.first, b.last) ]
           rest == MessagesFrom(d, b.last + 1)
           N == Len(sent.units)
<1>1. /\ task = "extract" /\ outcome = "none" /\ InUnit
      /\ packet' = packet /\ task' = task /\ sent' = sent
      /\ b # Malformed => 
           /\ outcome' = outcome /\ cursor' = cursor
           /\ unit' = [ unit EXCEPT !.cursor = b.last + 1 ]
           /\ pushed' = IF NotCC(sei) THEN pushed
                        ELSE Append(pushed, [ order |-> Len(pushed), val |-> sei ])
  BY DEF ReadMessage, Working, End
<1>2. PICK k \in 0 .. N : ExtractedUpTo(k)
  BY <1>1 DEF AllPushed
<1>3. sent \in VideoPacket /\ packet = VideoBytes(sent) /\ Numbered(pushed)
  BY <1>1 DEF AllPushed
<1>4. /\ d \in Seq(Byte) /\ p \in Nat /\ Len(d) \in Nat /\ p <= Len(d) /\ pushed \in Seq(Pushed)
      /\ unit \in [ sodb : Seq(Byte), cursor : Nat ]
  BY <1>1, WhileWorking DEF InUnit
<1>5. b # Malformed /\ rest # None /\ Ahead = << sei >> \o rest
  <2>1. MessagesFrom(d, p) = Ahead /\ Ahead # None /\ ~ (p > Len(d))
    BY <1>2, <1>4 DEF Ahead, ExtractedUpTo
  <2> HIDE DEF d, p
  <2> QED
    BY <1>4, <2>1, MessagesUnfold
<1>6. b.last \in Nat /\ sei \in SeiPayload
  <2> HIDE DEF d, p
  <2> QED
    BY <1>4, <1>5, NextMessage
<1>7. /\ outcome' = "none" /\ cursor' = cursor
      /\ unit' = [ unit EXCEPT !.cursor = b.last + 1 ]
      /\ pushed' = IF NotCC(sei) THEN pushed
                   ELSE Append(pushed, [ order |-> Len(pushed), val |-> sei ])
  BY <1>1, <1>5
<1>8. rest \in Seq(SeiPayload)
  <2>1. b.last + 1 \in Nat
    BY <1>6
  <2> DEFINE q == b.last + 1
  <2> HIDE DEF d, q
  <2>2. MessagesFrom(d, q) # None
    BY <1>5 DEF q
  <2> QED
    BY <1>4, <2>1, <2>2, MessagesType DEF q
<1>9. Ahead' = rest
  <2> DEFINE q == b.last + 1
  <2>1. unit' = [ unit EXCEPT !.cursor = q ]
    BY <1>7
  <2>2. q \in Nat
    BY <1>6
  <2> HIDE DEF q
  <2>3. unit'.sodb = d /\ unit'.cursor = q
    BY <1>4, <2>1, <2>2
  <2> QED
    BY <2>3 DEF Ahead, q
<1> HIDE DEF b, rest, sei, d, p
<1>10. CCs(Ahead) = CCs(<< sei >>) \o CCs(rest)
  <2>1. << sei >> \in Seq(SeiPayload)
    BY <1>6, OnlyOne
  <2> QED
    BY <1>5, <1>8, <2>1, CCsConcat
<1>11. CCs(<< sei >>) = IF NotCC(sei) THEN << >> ELSE << sei >>
  BY <1>6, CCsFew DEF IsCC
<1>12. CCs(rest) \in Seq(SeiPayload)
  <2>1. << >> \in Seq(SeiPayload)
    OBVIOUS
  <2> QED
    BY <1>8, <2>1, CCsConcat
<1> DEFINE n == Len(pushed)
           x == [ order |-> n, val |-> sei ]
           vs == Values(pushed)
<1>13. n \in Nat /\ DOMAIN pushed = 1 .. n /\ \A i \in 1 .. n : pushed[i].val \in SeiPayload
  <2>1. \A y \in Pushed : y.val \in SeiPayload
    BY <1>1 DEF Pushed
  <2>2. n \in Nat /\ DOMAIN pushed = 1 .. n /\ \A i \in 1 .. n : pushed[i] \in Pushed
    BY <1>4
  <2> QED
    BY <2>1, <2>2
<1>14. vs \in Seq(SeiPayload) /\ Len(vs) = n /\ \A i \in 1 .. n : vs[i] = pushed[i].val
  <2>1. vs \in [ 1 .. n -> SeiPayload ] /\ \A i \in 1 .. n : vs[i] = pushed[i].val
    BY <1>13 DEF Values
  <2> HIDE DEF n, vs
  <2> QED
    BY <1>13, <2>1, SequenceOf
<1>15. Numbered(pushed') /\ Values(pushed') \o CCs(rest) = vs \o CCs(Ahead)
  <2>1. CASE NotCC(sei)
    <3>1. pushed' = pushed /\ CCs(<< sei >>) = << >>
      BY <1>7, <1>11, <2>1
    <3>2. << >> \o CCs(rest) = CCs(rest)
      BY <1>12, ConcatEmptySeq
    <3> QED
      BY <1>3, <1>10, <3>1, <3>2
  <2>2. CASE ~ NotCC(sei)
    <3> DEFINE ps == Append(pushed, x)
    <3>1. pushed' = ps /\ CCs(<< sei >>) = << sei >>
      BY <1>7, <1>11, <2>2
    <3>2. x.order = n /\ x.val = sei
      OBVIOUS
    <3> HIDE DEF x
    <3>3. /\ DOMAIN ps = 1 .. n + 1 /\ ps[n + 1] = x
          /\ \A i \in 1 .. n : ps[i] = pushed[i]
      BY <1>4, <1>13
    <3> HIDE DEF ps, n
    <3>4. \A i \in 1 .. n + 1 : i \in 1 .. n \/ i = n + 1
      BY <1>13
    <3>5. Numbered(ps)
      <4> SUFFICES ASSUME NEW i \in 1 .. n + 1 PROVE ps[i].order = i - 1
        BY <3>3 DEF Numbered
      <4>1. CASE i \in 1 .. n
        <5>1. pushed[i].order = i - 1
          BY <1>3, <1>13, <4>1 DEF Numbered
        <5> QED
          BY <3>3, <4>1, <5>1
      <4>2. CASE i = n + 1
        <5>1. i - 1 = n
          BY <1>13, <4>2
        <5> QED
          BY <3>2, <3>3, <4>2, <5>1
      <4> QED
        BY <3>4, <4>1, <4>2
    <3>6. Values(ps) = vs \o << sei >>
      <4> DEFINE w == vs \o << sei >>
                 y == Values(ps)
      <4>1. /\ w \in Seq(SeiPayload) /\ Len(w) = n + 1 /\ w[n + 1] = sei
            /\ \A i \in 1 .. n : w[i] = vs[i]
        <5> HIDE DEF vs
        <5>1. /\ vs \o << sei >> \in Seq(SeiPayload) /\ Len(vs \o << sei >>) = Len(vs) + 1
              /\ (vs \o << sei >>)[Len(vs) + 1] = sei
              /\ \A i \in 1 .. Len(vs) : (vs \o << sei >>)[i] = vs[i]
          <6>1. vs \in Seq(SeiPayload)
            BY <1>14
          <6> QED
            BY <1>6, <6>1, OneMore
        <5> QED
          BY <1>14, <5>1
      <4>2. /\ y \in [ 1 .. n + 1 -> SeiPayload ] /\ y[n + 1] = sei
            /\ \A i \in 1 .. n : y[i] = pushed[i].val
        <5>1. y = [ i \in 1 .. n + 1 |-> ps[i].val ]
          BY <3>3 DEF Values
        <5>2. n + 1 \in 1 .. n + 1 /\ \A i \in 1 .. n : i \in 1 .. n + 1
          BY <1>13
        <5>3. \A i \in 1 .. n + 1 : ps[i].val \in SeiPayload
          BY <1>6, <1>13, <3>2, <3>3, <3>4
        <5> HIDE DEF y
        <5> QED
          BY <3>2, <3>3, <5>1, <5>2, <5>3
      <4>3. y \in Seq(SeiPayload) /\ Len(y) = n + 1
        <5>1. n + 1 \in Nat
          BY <1>13
        <5> HIDE DEF y
        <5> QED
          BY <4>2, <5>1, SequenceOf
      <4> HIDE DEF w, y, vs
      <4>4. \A i \in 1 .. n + 1 : y[i] = w[i]
        BY <1>14, <3>4, <4>1, <4>2
      <4>5. y = w
        BY <4>1, <4>3, <4>4, SeqEqual
      <4> QED
        BY <4>5 DEF w, y
    <3> HIDE DEF vs
    <3>7. (vs \o << sei >>) \o CCs(rest) = vs \o (<< sei >> \o CCs(rest))
      <4>1. << sei >> \in Seq(SeiPayload) /\ vs \in Seq(SeiPayload)
        BY <1>6, <1>14, OnlyOne
      <4> DEFINE one == << sei >>
                 r == CCs(rest)
                 S == SeiPayload
      <4>2. one \in Seq(S) /\ vs \in Seq(S) /\ r \in Seq(S)
        BY <1>12, <4>1
      <4> HIDE DEF one, r, S
      <4>3. (vs \o one) \o r = vs \o (one \o r)
        BY <4>2, ConcatAssociative
      <4> QED
        BY <4>3 DEF one, r
    <3> QED
      BY <1>10, <3>1, <3>5, <3>6, <3>7
  <2> QED
    BY <2>1, <2>2
<1>16. ExtractedUpTo(k)'
  BY <1>1, <1>2, <1>5, <1>7, <1>9, <1>15 DEF ExtractedUpTo
<1>17. \E j \in 0 .. N : ExtractedUpTo(j)'
  BY <1>2, <1>16
<1> QED
  BY <1>1, <1>3, <1>7, <1>15, <1>17 DEF AllPushed

LEMMA AllReadPushed ==
  ASSUME AsStandardised, IInv, AllPushed, AllRead, task = "extract"
  PROVE  AllPushed'
<1> DEFINE us == sent.units
           N == Len(us)
<1>1. /\ outcome = "none" /\ cursor > Len(packet) /\ ~ InUnit
      /\ packet' = packet /\ task' = task /\ sent' = sent /\ pushed' = pushed /\ outcome' = "ok"
  BY DEF AllRead, Working, End
<1>2. PICK k \in 0 .. N : ExtractedUpTo(k)
  BY <1>1 DEF AllPushed
<1>3. sent \in VideoPacket /\ packet = VideoBytes(sent) /\ Numbered(pushed)
  BY <1>1 DEF AllPushed
<1>4. us \in Seq(Nalu) /\ N \in Nat /\ k \in Nat /\ k <= N
  <2>1. us \in Seq(Nalu)
    BY <1>3, SentUnits
  <2> QED
    BY <1>2, <2>1
<1>5. k = N
  <2> SUFFICES ASSUME k < N PROVE FALSE
    BY <1>4
  <2>1. Start(us, k) <= Len(VideoBytes(sent))
    BY <1>3, <1>4, CutOff
  <2>2. Start(us, k) > Len(packet)
    BY <1>1, <1>2 DEF ExtractedUpTo
  <2>3. Start(us, k) \in Nat /\ Len(packet) \in Nat
    <3>1. Start(us, k) \in Nat
      <4> HIDE DEF us
      <4> QED
        BY <1>4, LastStart
    <3>2. packet \in Seq(Byte)
      BY DEF IInv, TypeOK
    <3> QED
      BY <3>1, <3>2
  <2> QED
    BY <1>3, <2>1, <2>2, <2>3
<1>6. (\A i \in 1 .. k : ~ LostIn(sent, i)) /\ CCs(Read(sent, k)) = Values(pushed)
  BY <1>1, <1>2, AtUnitEnd DEF ExtractedUpTo
<1>7. StoppedAfter(k)'
  BY <1>1, <1>4, <1>5, <1>6 DEF StoppedAfter
<1>8. \E j \in 0 .. N : StoppedAfter(j)'
  BY <1>2, <1>7
<1> QED
  BY <1>1, <1>3, <1>8 DEF AllPushed

LEMMA StepPushed ==
  ASSUME AsStandardised, IInv, AllPushed, [Next]_vars
  PROVE  AllPushed'
<1>1. CASE \E v \in VideoPacket : Receive("extract", v, VideoBytes(v), << >>)
  BY <1>1, ReceivePushed
<1>2. CASE \/ \E v \in VideoPacket, m \in Metadata : Receive("inject", v, VideoBytes(v), m)
           \/ \E s \in SplicePacket : Receive("splice", s, SpliceBytes(s), << >>)
  <2>1. task' # "extract"
    BY <1>2 DEF Receive
  <2> QED
    BY <2>1 DEF AllPushed
<1>3. CASE Collect \/ Rewrite \/ StripFails \/ ReadSection
  <2>1. task # "extract" /\ task' = task
    <3>1. CASE Collect
      BY <3>1 DEF Collect, Working, End
    <3>2. CASE Rewrite
      BY <3>2 DEF Rewrite, Collected, Working, End
    <3>3. CASE StripFails
      BY <3>3 DEF StripFails, Collected, Working, End
    <3>4. CASE ReadSection
      <4>1. task = "splice"
        BY <3>4 DEF ReadSection, Working
      <4>2. task' = task
        BY <3>4, Elsewhere
      <4> QED
        BY <4>1, <4>2
    <3> QED
      BY <1>3, <3>1, <3>2, <3>3, <3>4
  <2> QED
    BY <2>1 DEF AllPushed
<1>4. CASE ReadUnit
  BY <1>4, ReadUnitPushed
<1>5. CASE ReadMessage
  BY <1>5, ReadMessagePushed
<1>6. CASE AllRead
  <2>1. CASE task = "extract"
    BY <1>6, <2>1, AllReadPushed
  <2>2. CASE task # "extract"
    <3>1. task' = task
      BY <1>6 DEF AllRead, End
    <3> QED
      BY <2>2, <3>1 DEF AllPushed
  <2> QED
    BY <2>1, <2>2
<1>7. CASE Pass
  <2>1. task' = "none"
    BY <1>7 DEF Pass
  <2> QED
    BY <2>1 DEF AllPushed
<1>8. CASE UNCHANGED vars
  BY <1>8 DEF vars, AllPushed, ExtractedUpTo, StoppedAfter, Ahead
<1> QED
  BY <1>1, <1>2, <1>3, <1>4, <1>5, <1>6, <1>7, <1>8 DEF Next, Process

\* SeiExtractor::process (src/proc/extractor.cpp), lines 91 to 133: whatever the
\* packet, if its messages are written as H.264 has it, and wherever it
\* was cut off or a unit of it cannot be read, process has pushed
\* the captions of the units before, each once, in the order in which they were
\* sent, whatever their number, their sizes and what is between them.
THEOREM CaptionsAreExtracted == AsStandardised => (Spec => []CaptionsExtracted)
<1> SUFFICES ASSUME AsStandardised PROVE Spec => []CaptionsExtracted
  OBVIOUS
<1>1. Init => AllPushed
  BY DEF Init, AllPushed
<1>2. IInv /\ AllPushed /\ [Next]_vars => AllPushed'
  BY StepPushed
<1>3. IInv /\ AllPushed => CaptionsExtracted
  BY PushedIsExtracted
<1> QED
  BY <1>1, <1>2, <1>3, Invariant, PTL DEF Spec
=============================================================================
