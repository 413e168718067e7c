-------------------------------- MODULE Crc8 --------------------------------
(***************************************************************************)
(* jni/include/crc8.h: the check byte of the NFC/IR part of a report, from *)
(* a table, against what it stands for: the remainder of the message, as a *)
(* polynomial over the field of two elements, by x^8 + x^2 + x + 1.        *)
(*                                                                         *)
(* The register takes the bytes of a message one by one. The history       *)
(* variables message and quotient, the set of the exponents of a           *)
(* polynomial each, say what it should hold.                               *)
(***************************************************************************)
EXTENDS Integers

CONSTANTS
  Bytes,     \* bytes a message is made of
  MaxLen     \* bound on the bytes of a message

ASSUME BytesAssumption == Bytes \subseteq 0..255 /\ MaxLen \in Nat

VARIABLES
  crc,       \* the register
  len,       \* number of bytes so far
  message,   \* history: the message so far
  quotient   \* history: what the register has shifted out at the top

crcVars == <<crc, len, message, quotient>>

-----------------------------------------------------------------------------
(* Polynomials.                                                            *)

Plus(p, q) == (p \ q) \cup (q \ p)

\* p times x^n.
Up(p, n) == {i + n : i \in p}

\* p times x^8 + x^2 + x + 1.
TimesDivisor(p) == Plus(Plus(Up(p, 8), Up(p, 2)), Plus(Up(p, 1), p))

-----------------------------------------------------------------------------
(* Bytes.                                                                  *)

Weight == <<1, 2, 4, 8, 16, 32, 64, 128>>

Digit(b, i) == (b \div Weight[i + 1]) % 2

Bits(b) == {i \in 0..7 : Digit(b, i) = 1}

\* The operator ^ of C on two bytes.
Xor(a, b) ==
  LET d(i) == Weight[i + 1] * ((Digit(a, i) + Digit(b, i)) % 2)
  IN  d(0) + d(1) + d(2) + d(3) + d(4) + d(5) + d(6) + d(7)

-----------------------------------------------------------------------------

CRC8_POLYNOMIAL == 7

\* The table, sixteen entries to a row.
Rows == <<
 <<0, 7, 14, 9, 28, 27, 18, 21, 56, 63, 54, 49, 36, 35, 42, 45>>,
 <<112, 119, 126, 121, 108, 107, 98, 101, 72, 79, 70, 65, 84, 83, 90, 93>>,
 <<224, 231, 238, 233, 252, 251, 242, 245, 216, 223, 214, 209, 196, 195, 202, 205>>,
 <<144, 151, 158, 153, 140, 139, 130, 133, 168, 175, 166, 161, 180, 179, 186, 189>>,
 <<199, 192, 201, 206, 219, 220, 213, 210, 255, 248, 241, 246, 227, 228, 237, 234>>,
 <<183, 176, 185, 190, 171, 172, 165, 162, 143, 136, 129, 134, 147, 148, 157, 154>>,
 <<39, 32, 41, 46, 59, 60, 53, 50, 31, 24, 17, 22, 3, 4, 13, 10>>,
 <<87, 80, 89, 94, 75, 76, 69, 66, 111, 104, 97, 102, 115, 116, 125, 122>>,
 <<137, 142, 135, 128, 149, 146, 155, 156, 177, 182, 191, 184, 173, 170, 163, 164>>,
 <<249, 254, 247, 240, 229, 226, 235, 236, 193, 198, 207, 200, 221, 218, 211, 212>>,
 <<105, 110, 103, 96, 117, 114, 123, 124, 81, 86, 95, 88, 77, 74, 67, 68>>,
 <<25, 30, 23, 16, 5, 2, 11, 12, 33, 38, 47, 40, 61, 58, 51, 52>>,
 <<78, 73, 64, 71, 82, 85, 92, 91, 118, 113, 120, 127, 106, 109, 100, 99>>,
 <<62, 57, 48, 55, 34, 37, 44, 43, 6, 1, 8, 15, 26, 29, 20, 19>>,
 <<174, 169, 160, 167, 178, 181, 188, 187, 150, 145, 152, 159, 138, 141, 132, 131>>,
 <<222, 217, 208, 215, 194, 197, 204, 203, 230, 225, 232, 239, 250, 253, 244, 243>>
>>

_crc8_07_table == [n \in 0..255 |-> Rows[n \div 16 + 1][(n % 16) + 1]]

\* One turn of the loop of crc8_table_high_first, and the bit it shifts out.
Shift(c) ==
  IF c >= 128 THEN Xor((2 * c) % 256, CRC8_POLYNOMIAL) ELSE 2 * c

ShiftedOut(c) == IF c >= 128 THEN {0} ELSE {}

\* Faulty variant of crc8_table_high_first: one turn too few.
HighFirstSeven(value) ==
  Shift(Shift(Shift(Shift(Shift(Shift(Shift(value)))))))

\* Eight turns: what is shifted out is replaced by the polynomial.
crc8_table_high_first(value) ==
  Shift(Shift(Shift(Shift(Shift(Shift(Shift(Shift(value))))))))

\* What the eight turns shift out, the first bit at the top.
Turn(s) ==
  [crc |-> Shift(s.crc), out |-> Plus(Up(s.out, 1), ShiftedOut(s.crc))]

Quotient(value) ==
  Turn(Turn(Turn(Turn(Turn(Turn(Turn(Turn([crc |-> value, out |-> {}])))))))).out

\* Faulty variant of Step: the byte is added after the table.
StepAfter(c, b) == Xor(_crc8_07_table[c], b)

\* One turn of the loop of crc8.
Step(c, b) == _crc8_07_table[Xor(c, b)]

CrcInit == crc = 0 /\ len = 0 /\ message = {} /\ quotient = {}

\* The next byte, shifted in at the low end of the message.
Feed(b) ==
  /\ len < MaxLen
  /\ crc' = Step(crc, b)
  /\ len' = len + 1
  /\ message' = Plus(Up(message, 8), Bits(b))
  /\ quotient' = Plus(Up(quotient, 8), Quotient(Xor(crc, b)))

CrcNext == \E b \in Bytes : Feed(b)

CrcSpec == CrcInit /\ [][CrcNext]_crcVars

-----------------------------------------------------------------------------
(* Properties.                                                             *)

\* The register is a byte, and no exponent lies beyond the bytes it is made of.
CrcTypeOK ==
  /\ crc \in 0..255
  /\ len \in 0..MaxLen
  /\ message \subseteq 0..(8 * len - 1)
  /\ quotient \subseteq 0..(8 * len - 1)

\* The table has for each value of the register what the loop it was made with
\* computes: no entry was mistyped.
TableMatchesPolynomial ==
  _crc8_07_table[crc] = crc8_table_high_first(crc)

\* The message, times x^8, is a multiple of the divisor and the register, which
\* has a degree less than 8: the check byte is the remainder, so that two
\* messages have the same check byte only if the divisor divides their sum.
CrcIsRemainder ==
  Up(message, 8) = Plus(TimesDivisor(quotient), Bits(crc))
=============================================================================
