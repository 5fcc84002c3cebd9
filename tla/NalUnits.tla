------------------------------ MODULE NalUnits ------------------------------
(***************************************************************************)
(* src/h264: NAL units and SEI messages as sequences of bytes.             *)
(*                                                                         *)
(* A packet of the video is a sequence of NAL units, each after its length *)
(* in four bytes.  A NAL unit is a byte that says its type, and a payload  *)
(* in which 00 00 00..03 is kept apart from start codes by another 03 (the *)
(* EBSP; without those bytes, the RBSP; without the stop bit as well, the  *)
(* SODB).  The payload of a SEI unit is a list of SEI messages.            *)
(***************************************************************************)
EXTENDS Bytes, FiniteSets, SequencesExt

(* NaluType, SeiType *)
SEI == 6
SPS == 7
PPS == 8
AUD == 9
USER_DATA_REGISTERED == 4

MAX_LENGTH == 4 * 1024 * 2014

\* A SEI message; its size is that of its data.
SeiPayload == [ type : Nat, data : Seq(Byte) ]

is_valid(nalu) == nalu # << >> /\ nalu[1] < 128
NaluType(nalu) == nalu[1] % 32

-----------------------------------------------------------------------------
(* rbsp.h *)

\* s[i] follows two zeros
AfterZeros(s, i) == i > 2 /\ s[i - 2] = 0 /\ s[i - 1] = 0

\* mutant of copy_rbsp_to_ebsp: an escape byte in the data is not escaped
EscapeStartCodesOnly(s) ==
  FlattenSeq([ i \in DOMAIN s |->
                 IF AfterZeros(s, i) /\ s[i] <= 2 THEN << 3, s[i] >> ELSE << s[i] >> ])

copy_rbsp_to_ebsp(s) ==
  FlattenSeq([ i \in DOMAIN s |->
                 IF AfterZeros(s, i) /\ s[i] <= 3 THEN << 3, s[i] >> ELSE << s[i] >> ])

copy_ebsp_to_rbsp(s) ==
  FlattenSeq([ i \in DOMAIN s |->
                 IF AfterZeros(s, i) /\ s[i] = 3 THEN << >> ELSE << s[i] >> ])

copy_sodb_to_ebsp(s) == IF s = << >> THEN << >> ELSE Append(copy_rbsp_to_ebsp(s), 128)

\* the last byte that is not zero, if there is one
LastByte(s) == CHOOSE i \in 0 .. Len(s) :
                 /\ i > 0 => s[i] # 0
                 /\ \A j \in i + 1 .. Len(s) : s[j] = 0

\* the byte of the stop bit; a std::runtime_error, if it is missing
HasStopBit(s) == LastByte(s) > 0 /\ s[LastByte(s)] = 128
copy_ebsp_to_sodb(s) == copy_ebsp_to_rbsp(SubSeq(s, 1, LastByte(s) - 1))

\* counts 00 00 03 only, and it is applied to data that is not escaped yet
count_emulation_prevention_bytes(s) ==
  Cardinality({ i \in DOMAIN s : AfterZeros(s, i) /\ s[i] = 3 })

-----------------------------------------------------------------------------
(* emitter.h *)
variadic_length_int_size(num) == num \div 255 + 1

\* num is divided by 255 where 255 should be subtracted
emit_variadic_length_int(num) ==
  LET emit[n \in 0 .. num] ==
        IF n >= 255 THEN << 255 >> \o emit[n \div 255] ELSE << n >>
  IN emit[num]

\* lengths are below MAX_LENGTH
emit_nalu_length(n) == << 0, (n \div 65536) % 256 >> \o write_16(n % 65536)

\* mutant of sei_payload_size_hint: the escape bytes are not counted
HintWithoutEscapes(sei) ==
  Len(sei.data) + 1 + variadic_length_int_size(Len(sei.data)) + variadic_length_int_size(sei.type)

sei_payload_size_hint(sei) ==
  Len(sei.data) + count_emulation_prevention_bytes(sei.data) + 1
    + variadic_length_int_size(Len(sei.data)) + variadic_length_int_size(sei.type)

\* every payload gets a stop bit, and not the unit
emit_sei_payload(sei) ==
  emit_variadic_length_int(sei.type) \o emit_variadic_length_int(Len(sei.data))
    \o copy_sodb_to_ebsp(sei.data)

SumOf(sizes) == FoldLeft(+, 0, sizes)

emit_sei_payloads_to_avcc_nalu(seis) ==
  emit_nalu_length(1 + SumOf([ i \in DOMAIN seis |-> sei_payload_size_hint(seis[i]) ]))
    \o << SEI >> \o FlattenSeq([ i \in DOMAIN seis |-> emit_sei_payload(seis[i]) ])

emit_avcc_nalu(nalu) == emit_nalu_length(Len(nalu)) \o nalu

-----------------------------------------------------------------------------
(***************************************************************************)
(* nalu_parser.cpp, sei_parser.cpp.  The bounds of the next NAL unit or    *)
(* SEI message at position p, or Malformed for a BinaryParseError.  They   *)
(* are only called when there is a byte at p.                              *)
(***************************************************************************)
Malformed == [ first |-> 1, last |-> 0 ]

next_avcc_bounds(d, p) ==
  LET length == scan_8(d, p + 1) * 65536 + scan_16(d, p + 2)
  IN IF /\ p + 3 <= Len(d)
        /\ scan_8(d, p) = 0          \* otherwise it is beyond MAX_LENGTH
        /\ length > 0 /\ length <= MAX_LENGTH
        /\ p + 3 + length <= Len(d)
     THEN [ first |-> p + 4, last |-> p + 3 + length ]
     ELSE Malformed

\* A number is the sum of bytes up to the first that is not 255.  It is
\* malformed if the data ends after a 255.  (If the data ends before its
\* first byte, the code reads a byte that is not there; an encoder writes no
\* such unit.)
parse_variadic_length_int(d, p) ==
  LET run == CHOOSE n \in 0 .. Len(d) :
               /\ \A i \in 0 .. n - 1 : scan_8(d, p + i) = 255
               /\ scan_8(d, p + n) # 255
  IN [ number |-> 255 * run + scan_8(d, p + run), end |-> p + run + 1 ]

\* mutant of sei_parser_next: a message at the end of the data is refused
RefuseLast(d, p) ==
  LET type == parse_variadic_length_int(d, p)
      size == parse_variadic_length_int(d, type.end)
  IN IF size.end + size.number <= Len(d)
     THEN [ first |-> size.end, last |-> size.end + size.number - 1, type |-> type.number ]
     ELSE Malformed

\* As it is built for release: a message without data is let through, which
\* an assert of BinaryParser::next stops in a build for debugging.
sei_parser_next(d, p) ==
  LET type == parse_variadic_length_int(d, p)
      size == parse_variadic_length_int(d, type.end)
  IN IF size.end + size.number <= Len(d) + 1
     THEN [ first |-> size.end, last |-> size.end + size.number - 1, type |-> type.number ]
     ELSE Malformed
=============================================================================
