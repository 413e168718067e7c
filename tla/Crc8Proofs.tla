----------------------------- MODULE Crc8Proofs -----------------------------
(***************************************************************************)
(* The check byte is the remainder of the message, whatever bytes it is    *)
(* made of and however long it is.                                         *)
(*                                                                         *)
(* The argument: multiplication by the divisor is linear and commutes with *)
(* shifts; a turn of the loop of crc8_table_high_first is a step of the    *)
(* long division, so that eight of them divide a byte; the table holds     *)
(* their result, entry by entry; and a byte fed to the register adds its   *)
(* quotient to the one of the message before it.                           *)
(***************************************************************************)
EXTENDS Crc8, TLAPS

-----------------------------------------------------------------------------
(* Polynomials.                                                            *)

LEMMA PlusCommutes == \A p, q : Plus(p, q) = Plus(q, p)
BY DEF Plus

LEMMA PlusAssociates == \A p, q, r : Plus(Plus(p, q), r) = Plus(p, Plus(q, r))
BY DEF Plus

\* Sums, multiples and shifts of polynomials are polynomials. Exponents are
\* integers, which is all the algebra below needs of them.
Polynomial == SUBSET Int

LEMMA PlusType ==
  ASSUME NEW p \in Polynomial, NEW q \in Polynomial
  PROVE  Plus(p, q) \in Polynomial
BY DEF Plus, Polynomial

LEMMA UpType ==
  ASSUME NEW p \in Polynomial, NEW n \in Int
  PROVE  Up(p, n) \in Polynomial
BY DEF Up, Polynomial

LEMMA UpPlus ==
  ASSUME NEW p \in Polynomial, NEW q \in Polynomial, NEW n \in Int
  PROVE  Up(Plus(p, q), n) = Plus(Up(p, n), Up(q, n))
BY DEF Plus, Up, Polynomial

LEMMA UpUp ==
  ASSUME NEW p \in Polynomial, NEW m \in Int, NEW n \in Int
  PROVE  Up(Up(p, m), n) = Up(p, m + n)
<1>1. ASSUME NEW x
      PROVE  x \in Up(Up(p, m), n) <=> \E i \in p : x = (i + m) + n
  BY DEF Up
<1>2. ASSUME NEW x
      PROVE  x \in Up(p, m + n) <=> \E i \in p : x = (i + m) + n
  BY DEF Up, Polynomial
<1> QED
  BY <1>1, <1>2

LEMMA UpCommutes ==
  ASSUME NEW p \in Polynomial, NEW m \in Int, NEW n \in Int
  PROVE  Up(Up(p, m), n) = Up(Up(p, n), m)
<1>1. m + n = n + m
  OBVIOUS
<1> QED
  BY <1>1, UpUp

LEMMA DivisorType ==
  ASSUME NEW p \in Polynomial
  PROVE  TimesDivisor(p) \in Polynomial
BY UpType, PlusType DEF TimesDivisor

\* Multiplication by the divisor is linear, and commutes with shifts.
LEMMA DivisorPlus ==
  ASSUME NEW p \in Polynomial, NEW q \in Polynomial
  PROVE  TimesDivisor(Plus(p, q)) = Plus(TimesDivisor(p), TimesDivisor(q))
<1>1. TimesDivisor(Plus(p, q)) =
        Plus(Plus(Plus(Up(p, 8), Up(q, 8)), Plus(Up(p, 2), Up(q, 2))),
             Plus(Plus(Up(p, 1), Up(q, 1)), Plus(p, q)))
  BY UpPlus DEF TimesDivisor
<1>2. ASSUME NEW a, NEW b, NEW c, NEW d, NEW e, NEW f, NEW g, NEW h
      PROVE  Plus(Plus(Plus(a, e), Plus(b, f)), Plus(Plus(c, g), Plus(d, h)))
               = Plus(Plus(Plus(a, b), Plus(c, d)), Plus(Plus(e, f), Plus(g, h)))
  BY DEF Plus
<1> QED
  BY <1>1, <1>2 DEF TimesDivisor

LEMMA DivisorUp ==
  ASSUME NEW p \in Polynomial, NEW n \in Int
  PROVE  TimesDivisor(Up(p, n)) = Up(TimesDivisor(p), n)
<1>1. /\ Up(Up(p, n), 8) = Up(Up(p, 8), n)
      /\ Up(Up(p, n), 2) = Up(Up(p, 2), n)
      /\ Up(Up(p, n), 1) = Up(Up(p, 1), n)
  BY UpCommutes
<1>2. /\ Up(p, 8) \in Polynomial
      /\ Up(p, 2) \in Polynomial
      /\ Up(p, 1) \in Polynomial
  BY UpType
<1>3. Up(TimesDivisor(p), n) =
        Plus(Plus(Up(Up(p, 8), n), Up(Up(p, 2), n)),
             Plus(Up(Up(p, 1), n), Up(p, n)))
  BY <1>2, PlusType, UpPlus DEF TimesDivisor
<1> QED
  BY <1>1, <1>3 DEF TimesDivisor

-----------------------------------------------------------------------------
(* Bytes, their digits, and a turn of the loop on them.                    *)

LEMMA BitsType == \A b : Bits(b) \in Polynomial
BY DEF Bits, Polynomial

\* The values of an unsigned char.
Byte == 0..255

LEMMA DigitType ==
  ASSUME NEW b \in Int, NEW i \in 0..7
  PROVE  Digit(b, i) \in {0, 1}
<1> Weight[i + 1] \in {1, 2, 4, 8, 16, 32, 64, 128}
  BY DEF Weight
<1> QED
  BY DEF Digit

\* A byte put together from its digits has those digits.
LEMMA DigitsOfSum ==
  ASSUME NEW d0 \in {0, 1}, NEW d1 \in {0, 1}, NEW d2 \in {0, 1},
         NEW d3 \in {0, 1}, NEW d4 \in {0, 1}, NEW d5 \in {0, 1},
         NEW d6 \in {0, 1}, NEW d7 \in {0, 1}, NEW s,
         s = d0 + 2 * d1 + 4 * d2 + 8 * d3 + 16 * d4 + 32 * d5 + 64 * d6
               + 128 * d7
  PROVE  /\ s \in Byte
         /\ Digit(s, 0) = d0 /\ Digit(s, 1) = d1
         /\ Digit(s, 2) = d2 /\ Digit(s, 3) = d3
         /\ Digit(s, 4) = d4 /\ Digit(s, 5) = d5
         /\ Digit(s, 6) = d6 /\ Digit(s, 7) = d7
BY DEF Byte, Digit, Weight

\* Xor adds digit by digit, without a carry.
LEMMA XorDigits ==
  ASSUME NEW a \in Int, NEW b \in Int
  PROVE  /\ Xor(a, b) \in Byte
         /\ \A i \in 0..7 :
              Digit(Xor(a, b), i) = (Digit(a, i) + Digit(b, i)) % 2
<1> DEFINE d(i) == (Digit(a, i) + Digit(b, i)) % 2
<1>1. \A i \in 0..7 : d(i) \in {0, 1}
  BY DigitType
<1>2. Xor(a, b) = d(0) + 2 * d(1) + 4 * d(2) + 8 * d(3) + 16 * d(4)
                    + 32 * d(5) + 64 * d(6) + 128 * d(7)
  <2> HIDE DEF d
  <2>1. Xor(a, b) = 1 * d(0) + 2 * d(1) + 4 * d(2) + 8 * d(3) + 16 * d(4)
                    + 32 * d(5) + 64 * d(6) + 128 * d(7)
    BY DEF Xor, Weight, d
  <2> QED
    BY <1>1, <2>1
<1> HIDE DEF d
<1>3. /\ Xor(a, b) \in Byte
      /\ Digit(Xor(a, b), 0) = d(0) /\ Digit(Xor(a, b), 1) = d(1)
      /\ Digit(Xor(a, b), 2) = d(2) /\ Digit(Xor(a, b), 3) = d(3)
      /\ Digit(Xor(a, b), 4) = d(4) /\ Digit(Xor(a, b), 5) = d(5)
      /\ Digit(Xor(a, b), 6) = d(6) /\ Digit(Xor(a, b), 7) = d(7)
  BY <1>1, <1>2, DigitsOfSum
<1>4. \A i \in 0..7 : Digit(Xor(a, b), i) = d(i)
  BY <1>3
<1> QED
  BY <1>3, <1>4 DEF d

\* As polynomials, Xor is the sum.
LEMMA XorBits ==
  ASSUME NEW a \in Int, NEW b \in Int
  PROVE  Bits(Xor(a, b)) = Plus(Bits(a), Bits(b))
BY DigitType, XorDigits DEF Bits, Plus

LEMMA SumOfDigits ==
  ASSUME NEW b \in Byte
  PROVE  b = Digit(b, 0) + 2 * Digit(b, 1) + 4 * Digit(b, 2)
               + 8 * Digit(b, 3) + 16 * Digit(b, 4) + 32 * Digit(b, 5)
               + 64 * Digit(b, 6) + 128 * Digit(b, 7)
BY DEF Byte, Digit, Weight

LEMMA PolynomialDigits ==
  /\ Bits(7) = {0, 1, 2}
  /\ \A i \in 0..2 : Digit(7, i) = 1
  /\ \A i \in 3..7 : Digit(7, i) = 0
<1>1. /\ Digit(7, 0) = 1 /\ Digit(7, 1) = 1 /\ Digit(7, 2) = 1
      /\ Digit(7, 3) = 0 /\ Digit(7, 4) = 0 /\ Digit(7, 5) = 0
      /\ Digit(7, 6) = 0 /\ Digit(7, 7) = 0
  BY DEF Digit, Weight
<1> QED
  BY <1>1 DEF Bits

\* The turn of the loop in terms of arithmetic: the table is checked with it.
LEMMA ShiftFact ==
  ASSUME NEW c \in Byte
  PROVE  Shift(c) = IF c < 128 THEN 2 * c ELSE (2 * c - 249) - 4 * (c % 4)
<1> USE DEF Byte
<1>1. CASE c < 128
  BY <1>1 DEF Shift
<1>2. CASE c >= 128
  <2> DEFINE m == 2 * c - 256
  <2>1. m \in Byte /\ Shift(c) = Xor(m, 7)
    BY <1>2 DEF Shift, CRC8_POLYNOMIAL
  <2>2. m % 8 = 2 * (c % 4)
    OBVIOUS
  <2> HIDE DEF m
  <2> DEFINE d(i) == Digit(m, i)
  <2>3. \A i \in 0..7 : d(i) \in {0, 1}
    BY <2>1, DigitType
  <2>4. m = d(0) + 2 * d(1) + 4 * d(2) + 8 * d(3) + 16 * d(4) + 32 * d(5)
              + 64 * d(6) + 128 * d(7)
    BY <2>1, SumOfDigits
  <2>5. Xor(m, 7) = 1 * ((d(0) + 1) % 2) + 2 * ((d(1) + 1) % 2)
                      + 4 * ((d(2) + 1) % 2) + 8 * ((d(3) + 0) % 2)
                      + 16 * ((d(4) + 0) % 2) + 32 * ((d(5) + 0) % 2)
                      + 64 * ((d(6) + 0) % 2) + 128 * ((d(7) + 0) % 2)
    BY PolynomialDigits DEF Xor, Weight
  <2> HIDE DEF d
  <2>6. \A i \in 0..7 : /\ (d(i) + 1) % 2 = 1 - d(i)
                        /\ (d(i) + 0) % 2 = d(i)
    BY <2>3
  <2>7. Xor(m, 7) = m + 7 - 2 * (d(0) + 2 * d(1) + 4 * d(2))
    BY <2>3, <2>4, <2>5, <2>6
  <2>8. m % 8 = d(0) + 2 * d(1) + 4 * d(2)
    BY <2>3, <2>4
  <2> QED
    BY <1>2, <2>1, <2>2, <2>7, <2>8 DEF m
<1> QED
  BY <1>1, <1>2

\* A turn of the loop multiplies the register by x and takes the divisor off
\* when a bit is shifted out.
LEMMA ShiftBits ==
  ASSUME NEW c \in Byte
  PROVE  Up(Bits(c), 1) = Plus(TimesDivisor(ShiftedOut(c)), Bits(Shift(c)))
<1> USE DEF Byte
<1>1. CASE c < 128
  <2>1. ASSUME NEW i \in 0..6
        PROVE  Digit(2 * c, i + 1) = Digit(c, i)
    BY DEF Digit, Weight
  <2>2. Digit(2 * c, 0) = 0 /\ Digit(c, 7) = 0
    BY <1>1 DEF Digit, Weight
  <2>3. ASSUME NEW x
        PROVE  x \in Bits(2 * c) <=> x \in Up(Bits(c), 1)
    <3>1. x \in Up(Bits(c), 1) <=> \E i \in 0..6 : x = i + 1 /\ Digit(c, i) = 1
      BY <2>2 DEF Bits, Up
    <3>2. x \in Bits(2 * c) <=> \E i \in 0..6 : x = i + 1 /\ Digit(2 * c, x) = 1
      BY <2>2 DEF Bits
    <3> QED
      BY <3>1, <3>2, <2>1
  <2>4. TimesDivisor(ShiftedOut(c)) = {}
    BY <1>1 DEF TimesDivisor, ShiftedOut, Plus, Up
  <2> QED
    BY <1>1, <2>3, <2>4 DEF Shift, Plus
<1>2. CASE c >= 128
  <2> DEFINE m == 2 * c - 256
  <2>1. m \in Byte /\ Shift(c) = Xor(m, 7)
    BY <1>2 DEF Shift, CRC8_POLYNOMIAL
  <2>2. Digit(c, 7) = 1
    BY <1>2 DEF Digit, Weight
  <2>3. /\ Digit(m, 0) = 0
        /\ \A i \in 0..6 : Digit(m, i + 1) = Digit(c, i)
    <3> DEFINE d(i) == Digit(c, i)
    <3>1. \A i \in 0..7 : d(i) \in {0, 1}
      BY DigitType
    <3>2. m = 0 + 2 * d(0) + 4 * d(1) + 8 * d(2) + 16 * d(3) + 32 * d(4)
                + 64 * d(5) + 128 * d(6)
      <4>1. c = d(0) + 2 * d(1) + 4 * d(2) + 8 * d(3) + 16 * d(4)
                  + 32 * d(5) + 64 * d(6) + 128 * 1
        BY <2>2, SumOfDigits
      <4> QED
        BY <3>1, <4>1
    <3> HIDE DEF d, m
    <3>3. /\ Digit(m, 0) = 0
          /\ Digit(m, 1) = d(0) /\ Digit(m, 2) = d(1) /\ Digit(m, 3) = d(2)
          /\ Digit(m, 4) = d(3) /\ Digit(m, 5) = d(4) /\ Digit(m, 6) = d(5)
          /\ Digit(m, 7) = d(6)
      BY <3>1, <3>2, DigitsOfSum
    <3>4. \A i \in 0..6 : Digit(m, i + 1) = d(i)
      BY <3>3
    <3> QED
      BY <3>3, <3>4 DEF d
  <2>4. Up(Bits(c), 1) = Plus({8}, Bits(m))
    <3>1. ASSUME NEW x
          PROVE  x \in Up(Bits(c), 1)
                   <=> x = 8 \/ \E i \in 0..6 : x = i + 1 /\ Digit(c, i) = 1
      BY <2>2 DEF Bits, Up
    <3>2. ASSUME NEW x
          PROVE  x \in Bits(m)
                   <=> \E i \in 0..6 : x = i + 1 /\ Digit(m, x) = 1
      BY <2>3 DEF Bits
    <3>3. 8 \notin Bits(m)
      BY DEF Bits
    <3> QED
      BY <2>3, <3>1, <3>2, <3>3 DEF Plus
  <2>5. TimesDivisor(ShiftedOut(c)) = Plus({8}, {0, 1, 2})
    BY <1>2 DEF TimesDivisor, ShiftedOut, Plus, Up
  <2>6. Bits(Shift(c)) = Plus(Bits(m), {0, 1, 2})
    BY <2>1, XorBits, PolynomialDigits
  <2> QED
    BY <2>4, <2>5, <2>6 DEF Plus
<1> QED
  BY <1>1, <1>2

LEMMA ShiftType ==
  ASSUME NEW c \in Byte
  PROVE  Shift(c) \in Byte
<1>1. CASE c < 128
  BY <1>1 DEF Shift, Byte
<1>2. CASE c >= 128
  <2>1. (2 * c) % 256 \in Int /\ 7 \in Int
    BY DEF Byte
  <2>2. Xor((2 * c) % 256, 7) \in Byte
    BY <2>1, XorDigits
  <2> QED
    BY <1>2, <2>2 DEF Shift, CRC8_POLYNOMIAL, Byte
<1> QED
  BY <1>1, <1>2 DEF Byte

LEMMA HighFirstType ==
  ASSUME NEW v \in Byte
  PROVE  crc8_table_high_first(v) \in Byte
BY ShiftType DEF crc8_table_high_first

-----------------------------------------------------------------------------
(* The table, and what eight turns divide.                                 *)

\* Every entry of the table is what the loop computes for it.
LEMMA TableIsHighFirst ==
  ASSUME NEW n \in Byte
  PROVE  _crc8_07_table[n] = crc8_table_high_first(n)
<1> USE DEF Byte
<1> DEFINE row == n \div 16  k == n % 16
<1>1. row \in 0..15 /\ k \in 0..15 /\ n = 16 * row + k
  OBVIOUS
<1>2. _crc8_07_table[n] = Rows[row + 1][k + 1]
  BY DEF _crc8_07_table
<1> HIDE DEF row, k
<1>3. \A c \in Byte :
        Shift(c) = IF c < 128 THEN 2 * c ELSE (2 * c - 249) - 4 * (c % 4)
  BY ShiftFact
<1>4. Rows[row + 1][k + 1] = crc8_table_high_first(16 * row + k)
  BY <1>1, <1>3, SMTT(120) DEF crc8_table_high_first, Rows
<1> QED
  BY <1>1, <1>2, <1>4
\* The states of the loop, with what it has shifted out.
Turning == [crc : Byte, out : Polynomial]

\* A turn keeps p the multiple of the divisor plus the register, times x.
LEMMA TurnDivides ==
  ASSUME NEW s \in Turning, NEW p \in Polynomial,
         p = Plus(TimesDivisor(s.out), Bits(s.crc))
  PROVE  /\ Turn(s) \in Turning
         /\ Turn(s).crc = Shift(s.crc)
         /\ Up(p, 1) = Plus(TimesDivisor(Turn(s).out), Bits(Turn(s).crc))
<1> DEFINE c == s.crc  q == s.out
<1>1. c \in Byte /\ q \in Polynomial
  BY DEF Turning
<1>2. ShiftedOut(c) \in Polynomial
  BY DEF ShiftedOut, Polynomial
<1>3. /\ Turn(s).crc = Shift(c)
      /\ Turn(s).out = Plus(Up(q, 1), ShiftedOut(c))
  BY DEF Turn
<1>4. Turn(s) \in Turning
  <2>1. Shift(c) \in Byte
    BY <1>1, ShiftType
  <2>2. Plus(Up(q, 1), ShiftedOut(c)) \in Polynomial
    BY <1>1, <1>2, UpType, PlusType
  <2> QED
    BY <2>1, <2>2 DEF Turn, Turning
<1> HIDE DEF c, q
<1>5. Up(p, 1) = Plus(Up(TimesDivisor(q), 1), Up(Bits(c), 1))
  BY <1>1, UpPlus, DivisorType, BitsType DEF c, q
<1>6. Up(TimesDivisor(q), 1) = TimesDivisor(Up(q, 1))
  BY <1>1, DivisorUp
<1>7. Up(Bits(c), 1) = Plus(TimesDivisor(ShiftedOut(c)), Bits(Shift(c)))
  BY <1>1, ShiftBits
<1>8. TimesDivisor(Turn(s).out)
        = Plus(TimesDivisor(Up(q, 1)), TimesDivisor(ShiftedOut(c)))
  BY <1>1, <1>2, <1>3, UpType, DivisorPlus
<1> QED
  BY <1>3, <1>4, <1>5, <1>6, <1>7, <1>8, PlusAssociates DEF c

\* After n turns of a register that started with v, what was shifted out and
\* the register are the quotient and the remainder of v, times x^n.
Divided(v, n, s) ==
  /\ s \in Turning
  /\ Up(Bits(v), n) = Plus(TimesDivisor(s.out), Bits(s.crc))

LEMMA TurnKeepsDivided ==
  ASSUME NEW v \in Byte, NEW n \in Nat, NEW s, Divided(v, n, s)
  PROVE  Divided(v, n + 1, Turn(s)) /\ Turn(s).crc = Shift(s.crc)
<1> DEFINE p == Up(Bits(v), n)
<1>1. p \in Polynomial
  BY BitsType, UpType
<1>2. s \in Turning /\ p = Plus(TimesDivisor(s.out), Bits(s.crc))
  BY DEF Divided
<1> HIDE DEF p
<1>3. /\ Turn(s) \in Turning
      /\ Turn(s).crc = Shift(s.crc)
      /\ Up(p, 1) = Plus(TimesDivisor(Turn(s).out), Bits(Turn(s).crc))
  BY <1>1, <1>2, TurnDivides
<1>4. Up(p, 1) = Up(Bits(v), n + 1)
  BY BitsType, UpUp DEF p
<1> QED
  BY <1>3, <1>4 DEF Divided

\* The loop divides its byte, times x^8.
LEMMA HighFirstDivides ==
  ASSUME NEW v \in Byte
  PROVE  /\ Quotient(v) \in Polynomial
         /\ Up(Bits(v), 8) = Plus(TimesDivisor(Quotient(v)),
                                  Bits(crc8_table_high_first(v)))
<1> DEFINE s0 == [crc |-> v, out |-> {}]
           s1 == Turn(s0)  s2 == Turn(s1)  s3 == Turn(s2)  s4 == Turn(s3)
           s5 == Turn(s4)  s6 == Turn(s5)  s7 == Turn(s6)  s8 == Turn(s7)
<1>0. Divided(v, 0, s0)
  <2>1. Up(Bits(v), 0) = Bits(v)
    BY DEF Up, Bits
  <2>2. TimesDivisor({}) = {}
    BY DEF TimesDivisor, Plus, Up
  <2>3. s0 \in Turning
    BY DEF Turning, Polynomial
  <2> QED
    BY <2>1, <2>2, <2>3 DEF Divided, Plus
<1>1. s0.crc = v
  OBVIOUS
<1>2. Quotient(v) = s8.out
  BY DEF Quotient
<1> HIDE DEF s0, s1, s2, s3, s4, s5, s6, s7, s8
<1>3. Divided(v, 1, s1) /\ s1.crc = Shift(s0.crc)
  BY <1>0, 0 + 1 = 1, TurnKeepsDivided DEF s1
<1>4. Divided(v, 2, s2) /\ s2.crc = Shift(s1.crc)
  BY <1>3, 1 + 1 = 2, TurnKeepsDivided DEF s2
<1>5. Divided(v, 3, s3) /\ s3.crc = Shift(s2.crc)
  BY <1>4, 2 + 1 = 3, TurnKeepsDivided DEF s3
<1>6. Divided(v, 4, s4) /\ s4.crc = Shift(s3.crc)
  BY <1>5, 3 + 1 = 4, TurnKeepsDivided DEF s4
<1>7. Divided(v, 5, s5) /\ s5.crc = Shift(s4.crc)
  BY <1>6, 4 + 1 = 5, TurnKeepsDivided DEF s5
<1>8. Divided(v, 6, s6) /\ s6.crc = Shift(s5.crc)
  BY <1>7, 5 + 1 = 6, TurnKeepsDivided DEF s6
<1>9. Divided(v, 7, s7) /\ s7.crc = Shift(s6.crc)
  BY <1>8, 6 + 1 = 7, TurnKeepsDivided DEF s7
<1>10. Divided(v, 8, s8) /\ s8.crc = Shift(s7.crc)
  BY <1>9, 7 + 1 = 8, TurnKeepsDivided DEF s8
<1>11. s8.crc = crc8_table_high_first(v)
  BY <1>1, <1>3, <1>4, <1>5, <1>6, <1>7, <1>8, <1>9, <1>10
     DEF crc8_table_high_first
<1> QED
  BY <1>2, <1>10, <1>11 DEF Divided, Turning

-----------------------------------------------------------------------------
(* The register.                                                           *)

\* The inductive invariant: the division, of polynomials, by a byte.
CrcInv ==
  /\ crc \in Byte
  /\ message \in Polynomial
  /\ quotient \in Polynomial
  /\ CrcIsRemainder

LEMMA CrcInitInv == CrcInit => CrcInv
<1> SUFFICES ASSUME CrcInit PROVE CrcInv
  OBVIOUS
<1>1. Up({}, 8) = {} /\ TimesDivisor({}) = {}
  BY DEF Up, TimesDivisor, Plus
<1>2. Bits(0) = {}
  <2>1. \A i \in 0..7 : Digit(0, i) = 0
    BY DEF Digit, Weight
  <2> QED
    BY <2>1 DEF Bits
<1> QED
  BY <1>1, <1>2 DEF CrcInit, CrcInv, CrcIsRemainder, Polynomial, Plus, Byte

LEMMA CrcStepInv == CrcInv /\ [CrcNext]_crcVars => CrcInv'
<1> SUFFICES ASSUME CrcInv, [CrcNext]_crcVars PROVE CrcInv'
  OBVIOUS
<1>1. CASE UNCHANGED crcVars
  BY <1>1 DEF crcVars, CrcInv, CrcIsRemainder
<1>2. ASSUME NEW b \in Bytes, Feed(b) PROVE CrcInv'
  <2> DEFINE x == Xor(crc, b)
             T(p) == TimesDivisor(p)
  <2>1. b \in Int /\ crc \in Int
    BY BytesAssumption DEF CrcInv, Byte
  <2>2. x \in Byte /\ Bits(x) = Plus(Bits(crc), Bits(b))
    BY <2>1, XorDigits, XorBits
  <2>3. /\ message \in Polynomial /\ quotient \in Polynomial
        /\ Up(message, 8) = Plus(T(quotient), Bits(crc))
    BY DEF CrcInv, CrcIsRemainder
  <2> HIDE DEF x
  <2>4. /\ crc' = crc8_table_high_first(x)
        /\ message' = Plus(Up(message, 8), Bits(b))
        /\ quotient' = Plus(Up(quotient, 8), Quotient(x))
    BY <1>2, <2>2, TableIsHighFirst DEF Feed, Step, x
  <2>5. crc' \in Byte
    BY <2>2, <2>4, HighFirstType
  <2>6. /\ Quotient(x) \in Polynomial
        /\ Up(Bits(x), 8) = Plus(T(Quotient(x)), Bits(crc'))
    BY <2>2, <2>4, HighFirstDivides
  <2>7. /\ Up(message, 8) \in Polynomial /\ Up(quotient, 8) \in Polynomial
        /\ message' \in Polynomial /\ quotient' \in Polynomial
    BY <2>3, <2>4, <2>6, UpType, PlusType, BitsType
  <2>8. Up(message', 8) = Up(Plus(Plus(T(quotient), Bits(crc)), Bits(b)), 8)
    BY <2>3, <2>4
  <2>9. @ = Up(Plus(T(quotient), Bits(x)), 8)
    BY <2>2, PlusAssociates
  <2>10. @ = Plus(Up(T(quotient), 8), Up(Bits(x), 8))
    BY <2>3, UpPlus, DivisorType, BitsType
  <2>11. @ = Plus(T(Up(quotient, 8)), Plus(T(Quotient(x)), Bits(crc')))
    BY <2>3, <2>6, DivisorUp
  <2>12. @ = Plus(T(quotient'), Bits(crc'))
    BY <2>4, <2>6, <2>7, PlusAssociates, DivisorPlus
  <2> QED
    BY <2>5, <2>7, <2>8, <2>9, <2>10, <2>11, <2>12
       DEF CrcInv, CrcIsRemainder
<1> QED
  BY <1>1, <1>2 DEF CrcNext

\* The invariant holds of every behaviour.
LEMMA CrcInvariant == CrcSpec => []CrcInv
BY CrcInitInv, CrcStepInv, PTL DEF CrcSpec

\* The check byte that crc8 computes of a message of any length, of any bytes,
\* is the remainder of its division by the polynomial of crc8.h.
THEOREM CheckByteIsRemainder == CrcSpec => []CrcIsRemainder
<1>1. CrcInv => CrcIsRemainder
  BY DEF CrcInv
<1> QED
  BY <1>1, CrcInvariant, PTL

\* The table of crc8.h holds, for every value the register takes, what
\* crc8_table_high_first computes.
THEOREM TableIsRight == CrcSpec => []TableMatchesPolynomial
<1>1. CrcInv => TableMatchesPolynomial
  BY TableIsHighFirst DEF CrcInv, TableMatchesPolynomial
<1> QED
  BY <1>1, CrcInvariant, PTL
=============================================================================
