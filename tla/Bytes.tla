-------------------------------- MODULE Bytes --------------------------------
(***************************************************************************)
(* The helpers of src/binary_parser_util.h and src/binary_emitter_util.h   *)
(* on sequences of bytes.                                                  *)
(*                                                                         *)
(* A number of up to 16 bits is a natural.  A wider one (32, 33, 48 bits)  *)
(* is only ever carried around: it is kept as its bytes, the most          *)
(* significant one first.                                                  *)
(*                                                                         *)
(* A reader is given the data and the position p of its cursor.  Reading   *)
(* past the end throws BinaryParseError in the code.  Here a byte out      *)
(* there is zero and the cursor ends up past the end, where the parser     *)
(* finds it (Within); nothing is done in between that anybody sees.        *)
(***************************************************************************)
EXTENDS Naturals, Sequences

Byte == 0 .. 255
U6 == 0 .. 63
U12 == 0 .. 4095
U16 == 0 .. 256 * 256 - 1
Wide(n) == [ 1 .. n -> Byte ]
U32 == Wide(4)
U33 == { v \in Wide(5) : v[1] \in {0, 1} }
U48 == Wide(6)

-----------------------------------------------------------------------------
(* reading *)
scan_8(d, p) == IF p \in DOMAIN d THEN d[p] ELSE 0
scan(d, p, n) == [ i \in 1 .. n |-> scan_8(d, p + i - 1) ]
scan_flag(d, p, mask) == (scan_8(d, p) \div mask) % 2 = 1

\* mutant of scan_12_high: shifts by 8 as scan_16 does
AllSixteen(d, p) == scan_8(d, p) * 256 + scan_8(d, p + 1)

scan_12_high(d, p) == scan_8(d, p) * 16 + scan_8(d, p + 1) \div 16
scan_12_low(d, p) == (scan_8(d, p) % 16) * 256 + scan_8(d, p + 1)
scan_16(d, p) == scan_8(d, p) * 256 + scan_8(d, p + 1)
scan_32(d, p) == scan(d, p, 4)
scan_33(d, p) == [ scan(d, p, 5) EXCEPT ![1] = @ % 2 ]

\* The two halves are the operands of one sum, and reading the first one
\* moves the pointer from which the second one is read: it is up to the
\* compiler which operand comes first.
scan_48(d, p, inOrder) ==
  scan(d, p, 2) \o scan(d, IF inOrder THEN p + 2 ELSE p, 4)

\* require_distance, for all reads of an item together: the cursor is not
\* past the position after the last byte
Within(p, last) == p <= last + 1

-----------------------------------------------------------------------------
(* writing *)
Bit(b) == IF b THEN 1 ELSE 0

\* bitwise or of two numbers of four bits
NibbleOr(a, b) ==
  LET OrBit(m) == IF (a \div m) % 2 = 1 \/ (b \div m) % 2 = 1 THEN m ELSE 0
  IN OrBit(1) + OrBit(2) + OrBit(4) + OrBit(8)

write_16(v) == << (v \div 256) % 256, v % 256 >>
write_12_prefix(prefix, v) == << 16 * (prefix % 16) + ((v \div 256) % 16), v % 256 >>
write_33_prefix(prefix, v) == [ v EXCEPT ![1] = prefix - (prefix % 2) + @ ]

\* "low & 0x0f00 >> 4" is "low & 0x00f0": the second byte does not get bits
\* 8 to 11 of low, but its bits 4 to 7, over the last ones of high
write_12_pair(high, low) ==
  << (high \div 16) % 256, 16 * NibbleOr(high % 16, (low \div 16) % 16), low % 256 >>
=============================================================================
