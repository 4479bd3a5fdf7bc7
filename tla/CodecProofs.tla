----------------------------- MODULE CodecProofs -----------------------------
(***************************************************************************)
(* Theorems about the wire format, for bytes of any width the flags fit,   *)
(* for any magic number, any bitmap and any packets the programs can send: *)
(* what is sent is what is read, and what is read is what was sent.        *)
(***************************************************************************)
EXTENDS Codec, SequenceTheorems, TLAPS

-----------------------------------------------------------------------------
(* Division. *)

LEMMA Divide ==
    ASSUME NEW v \in Nat, NEW d \in Nat \ {0}
    PROVE  /\ v \div d \in Nat
           /\ v % d \in 0 .. d - 1
           /\ v = (v \div d) * d + (v % d)
OBVIOUS

LEMMA ProductIsNat ==
    ASSUME NEW a \in Nat, NEW b \in Nat
    PROVE  a * b \in Nat
OBVIOUS

LEMMA ProductGrows ==
    ASSUME NEW a \in Nat, NEW b \in Nat, NEW d \in Nat, a <= b
    PROVE  a * d <= b * d
OBVIOUS

\* A quotient and a remainder that fit are the quotient and the remainder.
LEMMA DivideUniquely ==
    ASSUME NEW v \in Nat, NEW d \in Nat \ {0}, NEW q \in Nat, NEW r \in 0 .. d - 1,
           v = q * d + r
    PROVE  v \div d = q /\ v % d = r
<1> DEFINE k == v \div d
           s == v % d
<1>1. k \in Nat /\ s \in 0 .. d - 1 /\ v = k * d + s
  BY Divide
<1> HIDE DEF k, s
<1>2. q * d \in Nat /\ k * d \in Nat
  BY <1>1, ProductIsNat
<1>3. ASSUME k + 1 <= q PROVE FALSE
  <2>1. (k + 1) * d <= q * d
    BY <1>1, <1>3, ProductGrows
  <2>2. (k + 1) * d = k * d + d
    BY <1>1
  <2>3. QED
    BY <1>1, <1>2, <2>1, <2>2
<1>4. ASSUME q + 1 <= k PROVE FALSE
  <2>1. (q + 1) * d <= k * d
    BY <1>1, <1>4, ProductGrows
  <2>2. (q + 1) * d = q * d + d
    OBVIOUS
  <2>3. QED
    BY <1>1, <1>2, <2>1, <2>2
<1>5. k = q
  BY <1>1, <1>3, <1>4
<1>6. s = r
  BY <1>1, <1>2, <1>5
<1>7. QED
  BY <1>5, <1>6 DEF k, s

\* Dividing twice is dividing by the product.
LEMMA DivideTwice ==
    ASSUME NEW v \in Nat, NEW a \in Nat \ {0}, NEW b \in Nat \ {0}
    PROVE  (v \div a) \div b = v \div (a * b)
<1> DEFINE q == v \div a
           r == v % a
           p == q \div b
           t == q % b
<1>1. q \in Nat /\ r \in 0 .. a - 1 /\ v = q * a + r
  BY Divide
<1> HIDE DEF q, r
<1>2. p \in Nat /\ t \in 0 .. b - 1 /\ q = p * b + t
  BY <1>1, Divide
<1> HIDE DEF p, t
<1>3. v = p * (a * b) + (t * a + r)
  <2>1. q * a = (p * b) * a + t * a
    BY <1>1, <1>2, ProductIsNat
  <2>2. (p * b) * a = p * (a * b)
    BY <1>2
  <2>3. p * (a * b) \in Nat /\ t * a \in Nat
    BY <1>2, ProductIsNat
  <2>4. QED
    BY <1>1, <2>1, <2>2, <2>3
<1>4. t * a + r \in 0 .. a * b - 1
  <2>1. (t + 1) * a <= b * a
    BY <1>2, ProductGrows
  <2>2. (t + 1) * a = t * a + a /\ b * a = a * b
    BY <1>2
  <2>3. t * a \in Nat /\ a * b \in Nat
    BY <1>2, ProductIsNat
  <2>4. QED
    BY <1>1, <2>1, <2>2, <2>3
<1>5. a * b \in Nat \ {0}
  <2>1. a * b \in Nat /\ 1 * a <= b * a /\ 1 * a = a /\ b * a = a * b
    BY ProductIsNat, ProductGrows
  <2>2. QED
    BY <2>1
<1>6. v \div (a * b) = p
  BY <1>2, <1>3, <1>4, <1>5, DivideUniquely
<1>7. QED
  BY <1>6 DEF p, q

\* What is below a product has a quotient below the other factor.
LEMMA QuotientBelow ==
    ASSUME NEW a \in Nat \ {0}, NEW b \in Nat \ {0}, NEW v \in 0 .. a * b - 1
    PROVE  v \div a \in 0 .. b - 1
<1> DEFINE q == v \div a
           r == v % a
<1>1. a * b \in Nat /\ v \in Nat
  BY ProductIsNat
<1>2. q \in Nat /\ r \in 0 .. a - 1 /\ v = q * a + r
  BY <1>1, Divide
<1> HIDE DEF q, r
<1>3. ASSUME b <= q PROVE FALSE
  <2>1. b * a <= q * a /\ b * a = a * b
    BY <1>2, <1>3, ProductGrows
  <2>2. QED
    BY <1>1, <1>2, <2>1, ProductIsNat
<1>4. QED
  BY <1>2, <1>3 DEF q

-----------------------------------------------------------------------------
(* Bytes and numbers. *)

LEMMA ByteValuesAre == ByteValues \in 8 .. 256
<1>1. ByteBits \in {3, 4, 5, 6, 7, 8}
  BY CodecAssumption
<1>2. QED
  BY <1>1 DEF ByteValues, TwoTo

\* Each weight is the one before, a byte up.
LEMMA WeightsAre ==
    /\ Weight[1] = 1
    /\ \A k \in 1 .. 7 : Weight[k + 1] = Weight[k] * ByteValues
    /\ \A k \in 1 .. 8 : Weight[k] \in Nat \ {0}
<1> DEFINE two == ByteValues * ByteValues
           four == two * two
<1>1. /\ Weight[1] = 1 /\ Weight[2] = ByteValues /\ Weight[3] = two
      /\ Weight[4] = two * ByteValues /\ Weight[5] = four
      /\ Weight[6] = four * ByteValues /\ Weight[7] = four * two
      /\ Weight[8] = four * two * ByteValues
  BY DEF Weight
<1>2. \A a, b \in Nat \ {0} : a * b \in Nat \ {0}
  <2>1. ASSUME NEW a \in Nat \ {0}, NEW b \in Nat \ {0}
        PROVE  a * b \in Nat \ {0}
    <3>1. a * b \in Nat /\ 1 * b <= a * b /\ 1 * b = b
      BY ProductIsNat, ProductGrows
    <3>2. QED
      BY <3>1
  <2>2. QED
    BY <2>1
<1>3. ByteValues \in Nat \ {0}
  BY ByteValuesAre
<1>4. two \in Nat \ {0}
  BY <1>2, <1>3
<1>5. four \in Nat \ {0}
  BY <1>2, <1>4
<1> HIDE DEF four
<1>6. four = two * ByteValues * ByteValues
  BY <1>3 DEF four
<1>7. four * two = four * ByteValues * ByteValues
  BY <1>3, <1>5
<1> HIDE DEF two
<1>8. two * ByteValues \in Nat \ {0} /\ four * ByteValues \in Nat \ {0}
      /\ four * two \in Nat \ {0}
  BY <1>2, <1>3, <1>4, <1>5
<1>9. four * two * ByteValues \in Nat \ {0}
  BY <1>2, <1>3, <1>8
<1>10. \A k \in 1 .. 8 : Weight[k] \in Nat \ {0}
  <2>1. \A k \in 1 .. 8 : k \in {1, 2, 3, 4, 5, 6, 7, 8}
    OBVIOUS
  <2>2. QED
    BY <1>1, <1>3, <1>4, <1>5, <1>8, <1>9, <2>1
<1>11. \A k \in 1 .. 7 : Weight[k + 1] = Weight[k] * ByteValues
  <2>1. \A k \in 1 .. 7 : k \in {1, 2, 3, 4, 5, 6, 7}
    OBVIOUS
  <2>2. Weight[2] = Weight[1] * ByteValues
    BY <1>1, <1>3
  <2>3. Weight[3] = Weight[2] * ByteValues
    BY <1>1 DEF two
  <2>4. /\ Weight[4] = Weight[3] * ByteValues /\ Weight[6] = Weight[5] * ByteValues
        /\ Weight[8] = Weight[7] * ByteValues
    BY <1>1
  <2>5. Weight[5] = Weight[4] * ByteValues
    BY <1>1, <1>6
  <2>6. Weight[7] = Weight[6] * ByteValues
    BY <1>1, <1>7
  <2>7. QED
    BY <2>1, <2>2, <2>3, <2>4, <2>5, <2>6
<1>12. QED
  BY <1>1, <1>10, <1>11

\* What was shifted in comes out as quotient and remainder.
LEMMA ShiftedIn ==
    ASSUME NEW value \in Nat, NEW byte \in Byte
    PROVE  /\ Shift(value, byte) \in Nat
           /\ Shift(value, byte) \div ByteValues = value
           /\ Shift(value, byte) % ByteValues = byte
<1>1. ByteValues \in Nat \ {0} /\ byte \in 0 .. ByteValues - 1
  BY ByteValuesAre DEF Byte
<1>2. value * ByteValues \in Nat
  BY <1>1, ProductIsNat
<1>3. Shift(value, byte) \in Nat /\ Shift(value, byte) = value * ByteValues + byte
  BY <1>1, <1>2 DEF Shift
<1>4. QED
  BY <1>1, <1>3, DivideUniquely

\* The bytes of a number, one by one from its quotients by the weights.
LEMMA Quotients ==
    ASSUME NEW value \in Nat, NEW k \in 1 .. 7
    PROVE  /\ value \div Weight[k] \in Nat
           /\ (value \div Weight[k]) % ByteValues \in Byte
           /\ (value \div Weight[k]) \div ByteValues = value \div Weight[k + 1]
           /\ value \div Weight[k]
                = Shift(value \div Weight[k + 1], (value \div Weight[k]) % ByteValues)
<1> DEFINE q == value \div Weight[k]
<1>1. /\ ByteValues \in Nat \ {0} /\ Weight[k] \in Nat \ {0}
      /\ Weight[k + 1] = Weight[k] * ByteValues
  BY ByteValuesAre, WeightsAre
<1>2. q \in Nat
  BY <1>1, Divide
<1>3. q \div ByteValues = value \div Weight[k + 1]
  BY <1>1, DivideTwice
<1> HIDE DEF q
<1>4. /\ q % ByteValues \in 0 .. ByteValues - 1
      /\ q = (q \div ByteValues) * ByteValues + (q % ByteValues)
  BY <1>1, <1>2, Divide
<1>5. QED
  BY <1>2, <1>3, <1>4 DEF q, Byte, Shift

Widths == {1, 2, 4, 8}

\* The bytes that write_uN() puts down are those that read_uN() puts together.
LEMMA NumberWritten ==
    ASSUME NEW width \in Widths, NEW value \in Fits(width), NEW bytes, NEW p \in Nat,
           \A i \in 0 .. width - 1 : bytes[p + (i + 1)] = Digit(value, width, i)
    PROVE  Number(bytes, p, width) = value
<1> DEFINE q(k) == value \div Weight[k]
<1>1. value \in Nat /\ Weight[width] \in Nat \ {0} /\ ByteValues \in Nat \ {0}
  <2>1. Weight[width] \in Nat \ {0} /\ ByteValues \in Nat \ {0}
    BY WeightsAre, ByteValuesAre DEF Widths
  <2>2. QED
    BY <2>1, ProductIsNat DEF Fits
<1>2. q(1) = value
  BY <1>1, WeightsAre
<1>3. q(width) % ByteValues = q(width)
  <2>1. q(width) \in 0 .. ByteValues - 1
    BY <1>1, QuotientBelow DEF Fits
  <2>2. QED
    BY <1>1, <2>1
<1>4. \A i \in 0 .. width - 1 : bytes[p + (i + 1)] = q(width - i) % ByteValues
  BY DEF Digit
<1>5. \A k \in 1 .. 7 : q(k) = Shift(q(k + 1), q(k) % ByteValues)
  BY <1>1, Quotients
<1> HIDE DEF q
<1>6. /\ q(1) = Shift(q(2), q(1) % ByteValues)
      /\ q(2) = Shift(q(3), q(2) % ByteValues)
      /\ q(3) = Shift(q(4), q(3) % ByteValues)
      /\ q(4) = Shift(q(5), q(4) % ByteValues)
      /\ q(5) = Shift(q(6), q(5) % ByteValues)
      /\ q(6) = Shift(q(7), q(6) % ByteValues)
      /\ q(7) = Shift(q(8), q(7) % ByteValues)
  BY <1>5
<1>7. CASE width = 1
  <2>1. bytes[p + 1] = q(1) % ByteValues
    BY <1>4, <1>7
  <2>2. QED
    BY <1>2, <1>3, <1>7, <2>1 DEF Number
<1>8. CASE width = 2
  <2>1. bytes[p + 1] = q(2) % ByteValues /\ bytes[p + 2] = q(1) % ByteValues
    BY <1>4, <1>8
  <2>2. QED
    BY <1>2, <1>3, <1>6, <1>8, <2>1 DEF Number, ReadU16
<1>9. CASE width = 4
  <2>1. /\ bytes[p + 1] = q(4) % ByteValues /\ bytes[p + 2] = q(3) % ByteValues
        /\ bytes[p + 3] = q(2) % ByteValues /\ bytes[p + 4] = q(1) % ByteValues
    BY <1>4, <1>9
  <2>2. QED
    BY <1>2, <1>3, <1>6, <1>9, <2>1 DEF Number, ReadU32, ReadU16
<1>10. CASE width = 8
  <2>1. /\ bytes[p + 1] = q(8) % ByteValues /\ bytes[p + 2] = q(7) % ByteValues
        /\ bytes[p + 3] = q(6) % ByteValues /\ bytes[p + 4] = q(5) % ByteValues
        /\ bytes[p + 5] = q(4) % ByteValues /\ bytes[p + 6] = q(3) % ByteValues
        /\ bytes[p + 7] = q(2) % ByteValues /\ bytes[p + 8] = q(1) % ByteValues
    BY <1>4, <1>10
  <2>2. QED
    BY <1>2, <1>3, <1>6, <1>10, <2>1 DEF Number, ReadU64, ReadU32, ReadU16
<1>11. QED
  BY <1>7, <1>8, <1>9, <1>10 DEF Widths

\* A number with one more byte has the bytes it had, and that one.
LEMMA DigitsOfShift ==
    ASSUME NEW value \in Nat, NEW byte \in Byte, NEW width \in 1 .. 7
    PROVE  /\ \A i \in 0 .. width - 1 :
                Digit(Shift(value, byte), width + 1, i) = Digit(value, width, i)
           /\ Digit(Shift(value, byte), width + 1, width) = byte
<1> DEFINE n == Shift(value, byte)
<1>1. n \in Nat /\ n \div ByteValues = value /\ n % ByteValues = byte
  BY ShiftedIn
<1>2. ByteValues \in Nat \ {0}
  BY ByteValuesAre
<1> HIDE DEF n
<1>3. ASSUME NEW i \in 0 .. width - 1
      PROVE  n \div Weight[width + 1 - i] = value \div Weight[width - i]
  <2>1. width - i \in 1 .. 7 /\ width + 1 - i = (width - i) + 1
    OBVIOUS
  <2>2. /\ Weight[(width - i) + 1] = Weight[width - i] * ByteValues
        /\ Weight[width - i] \in Nat \ {0}
    BY <2>1, WeightsAre
  <2>3. (n \div ByteValues) \div Weight[width - i] = n \div (ByteValues * Weight[width - i])
    BY <1>1, <1>2, <2>2, DivideTwice
  <2>4. ByteValues * Weight[width - i] = Weight[width - i] * ByteValues
    BY <1>2, <2>2
  <2>5. QED
    BY <1>1, <2>1, <2>2, <2>3, <2>4
<1>4. n \div Weight[width + 1 - width] = n
  <2>1. width + 1 - width = 1
    OBVIOUS
  <2>2. QED
    BY <1>1, <2>1, WeightsAre
<1>5. QED
  BY <1>1, <1>3, <1>4 DEF Digit, n

LEMMA DigitOfByte ==
    ASSUME NEW byte \in Byte
    PROVE  byte \in Nat /\ Digit(byte, 1, 0) = byte
<1>1. byte \in 0 .. ByteValues - 1 /\ ByteValues \in Nat \ {0} /\ Weight[1] = 1
  BY ByteValuesAre, WeightsAre DEF Byte
<1>2. byte \div 1 = byte /\ byte % ByteValues = byte
  BY <1>1
<1>3. QED
  BY <1>1, <1>2 DEF Digit

\* The bytes that read_uN() puts together are those that write_uN() would put
\* down for the number.
LEMMA NumberRead ==
    ASSUME NEW width \in Widths, NEW bytes, NEW p \in Nat,
           \A i \in 0 .. width - 1 : bytes[p + (i + 1)] \in Byte
    PROVE  /\ Number(bytes, p, width) \in Nat
           /\ \A i \in 0 .. width - 1 :
                 Digit(Number(bytes, p, width), width, i) = bytes[p + (i + 1)]
<1> DEFINE b(i) == bytes[p + (i + 1)]
<1>1. \A i \in 0 .. width - 1 : b(i) \in Byte
  OBVIOUS
<1>2. /\ bytes[p + 1] = b(0) /\ bytes[p + 2] = b(1) /\ bytes[p + 3] = b(2)
      /\ bytes[p + 4] = b(3) /\ bytes[p + 5] = b(4) /\ bytes[p + 6] = b(5)
      /\ bytes[p + 7] = b(6) /\ bytes[p + 8] = b(7)
  BY p + (0 + 1) = p + 1, p + (1 + 1) = p + 2, p + (2 + 1) = p + 3, p + (3 + 1) = p + 4,
     p + (4 + 1) = p + 5, p + (5 + 1) = p + 6, p + (6 + 1) = p + 7, p + (7 + 1) = p + 8
<1>3. SUFFICES /\ Number(bytes, p, width) \in Nat
               /\ \A i \in 0 .. width - 1 : Digit(Number(bytes, p, width), width, i) = b(i)
  OBVIOUS
<1> HIDE DEF b
<1> DEFINE n1 == b(0)
           n2 == Shift(n1, b(1))
           n3 == Shift(n2, b(2))
           n4 == Shift(n3, b(3))
           n5 == Shift(n4, b(4))
           n6 == Shift(n5, b(5))
           n7 == Shift(n6, b(6))
           n8 == Shift(n7, b(7))
           Has(n, w) == n \in Nat /\ \A i \in 0 .. w - 1 : Digit(n, w, i) = b(i)
<1>4. Has(n1, 1)
  <2>1. b(0) \in Byte
    BY <1>1 DEF Widths
  <2>2. QED
    BY <2>1, DigitOfByte
<1>5. ASSUME NEW n, NEW w \in 1 .. 7, Has(n, w), b(w) \in Byte
      PROVE  Has(Shift(n, b(w)), w + 1)
  <2>1. /\ \A i \in 0 .. w - 1 : Digit(Shift(n, b(w)), w + 1, i) = Digit(n, w, i)
        /\ Digit(Shift(n, b(w)), w + 1, w) = b(w)
        /\ Shift(n, b(w)) \in Nat
    BY <1>5, DigitsOfShift, ShiftedIn
  <2>2. \A i \in 0 .. w + 1 - 1 : i \in 0 .. w - 1 \/ i = w
    OBVIOUS
  <2>3. QED
    BY <1>5, <2>1, <2>2
<1> HIDE DEF Has, n1
<1>6. width >= 2 => Has(n2, 2)
  BY <1>1, <1>4, <1>5, 1 + 1 = 2 DEF Widths
<1> HIDE DEF n2
<1>7. width >= 4 => Has(n4, 4)
  <2> SUFFICES ASSUME width >= 4 PROVE Has(n4, 4)
    OBVIOUS
  <2>1. b(2) \in Byte /\ b(3) \in Byte /\ Has(n2, 2)
    BY <1>1, <1>6 DEF Widths
  <2>2. Has(n3, 3)
    BY <1>5, <2>1, 2 + 1 = 3
  <2> HIDE DEF n3
  <2>3. QED
    BY <1>5, <2>1, <2>2, 3 + 1 = 4
<1> HIDE DEF n4
<1>8. width = 8 => Has(n8, 8)
  <2> SUFFICES ASSUME width = 8 PROVE Has(n8, 8)
    OBVIOUS
  <2>1. /\ b(4) \in Byte /\ b(5) \in Byte /\ b(6) \in Byte /\ b(7) \in Byte
        /\ Has(n4, 4)
    BY <1>1, <1>7
  <2>2. Has(n5, 5)
    BY <1>5, <2>1, 4 + 1 = 5
  <2> HIDE DEF n5
  <2>3. Has(n6, 6)
    BY <1>5, <2>1, <2>2, 5 + 1 = 6
  <2> HIDE DEF n6
  <2>4. Has(n7, 7)
    BY <1>5, <2>1, <2>3, 6 + 1 = 7
  <2> HIDE DEF n7
  <2>5. QED
    BY <1>5, <2>1, <2>4, 7 + 1 = 8
<1>9. /\ width = 1 => Number(bytes, p, width) = n1
      /\ width = 2 => Number(bytes, p, width) = n2
      /\ width = 4 => Number(bytes, p, width) = n4
      /\ width = 8 => Number(bytes, p, width) = n8
  BY <1>2 DEF Number, ReadU16, ReadU32, ReadU64, n1, n2, n3, n4
<1>10. Has(Number(bytes, p, width), width)
  BY <1>4, <1>6, <1>7, <1>8, <1>9 DEF Widths
<1>11. QED
  BY <1>10 DEF Has

-----------------------------------------------------------------------------
(* Layouts. *)

\* The fields lie within the block and no two share a byte.
WellLaid(layout, size) ==
    /\ \A f \in DOMAIN layout :
          /\ layout[f][1] \in Nat /\ layout[f][2] \in Widths
          /\ layout[f][1] + layout[f][2] <= size
    /\ \A f, g \in DOMAIN layout : \A p \in Nat :
          Covers(layout, f, p) /\ Covers(layout, g, p) => f = g

\* Every byte of the block but those of `padding' belongs to a field.
Fully(layout, size, padding) ==
    \A p \in (0 .. size - 1) \ padding : \E f \in DOMAIN layout : Covers(layout, f, p)

LEMMA WrittenAt ==
    ASSUME NEW layout, NEW size \in Nat, WellLaid(layout, size), NEW fields,
           NEW f \in DOMAIN layout, NEW i \in 0 .. layout[f][2] - 1
    PROVE  /\ layout[f][1] + (i + 1) \in 1 .. size
           /\ Write(layout, size, fields)[layout[f][1] + (i + 1)]
                = Digit(fields[f], layout[f][2], i)
<1> DEFINE j == layout[f][1] + (i + 1)
<1>1. /\ layout[f][1] \in Nat /\ layout[f][2] \in Nat
      /\ layout[f][1] + layout[f][2] <= size
  BY DEF WellLaid, Widths
<1>2. j \in 1 .. size /\ j - 1 \in Nat /\ j - 1 - layout[f][1] = i
  BY <1>1
<1>3. Covers(layout, f, j - 1)
  BY <1>1 DEF Covers
<1> HIDE DEF j
<1>4. \A g \in DOMAIN layout : Covers(layout, g, j - 1) => g = f
  BY <1>2, <1>3 DEF WellLaid
<1>5. (CHOOSE g \in DOMAIN layout : Covers(layout, g, j - 1)) = f
  BY <1>3, <1>4
<1>6. Write(layout, size, fields)[j] = Digit(fields[f], layout[f][2], j - 1 - layout[f][1])
  BY <1>2, <1>3, <1>5 DEF Write
<1>7. QED
  BY <1>2, <1>6 DEF j

\* The byte at an offset that a field takes, counted from where the field begins.
LEMMA WithinField ==
    ASSUME NEW layout, NEW size \in Nat, WellLaid(layout, size), NEW i \in 1 .. size,
           NEW f \in DOMAIN layout, Covers(layout, f, i - 1)
    PROVE  /\ i - 1 - layout[f][1] \in 0 .. layout[f][2] - 1
           /\ i = layout[f][1] + ((i - 1 - layout[f][1]) + 1)
           /\ layout[f][2] \in 1 .. 8
<1> DEFINE p == layout[f][1]
           width == layout[f][2]
<1>1. p \in Nat /\ width \in 1 .. 8
  BY DEF WellLaid, Widths
<1>2. i - 1 \in p .. p + width - 1
  BY DEF Covers
<1> HIDE DEF p, width
<1>3. i - 1 - p \in 0 .. width - 1 /\ i = p + ((i - 1 - p) + 1)
  BY <1>1, <1>2
<1>4. QED
  BY <1>1, <1>3 DEF p, width

\* A block is a sequence of bytes.
LEMMA BlockOfBytes ==
    ASSUME NEW layout, NEW size \in Nat, WellLaid(layout, size), NEW fields,
           \A f \in DOMAIN layout : fields[f] \in Nat
    PROVE  /\ Write(layout, size, fields) \in Seq(Byte)
           /\ Len(Write(layout, size, fields)) = size
<1>1. ASSUME NEW i \in 1 .. size
      PROVE  Write(layout, size, fields)[i] \in Byte
  <2>1. CASE \E f \in DOMAIN layout : Covers(layout, f, i - 1)
    <3>1. PICK f \in DOMAIN layout : Covers(layout, f, i - 1)
      BY <2>1
    <3> DEFINE k == i - 1 - layout[f][1]
    <3>2. /\ k \in 0 .. layout[f][2] - 1 /\ i = layout[f][1] + (k + 1)
          /\ layout[f][2] \in 1 .. 8
      BY <3>1, WithinField
    <3>3. Write(layout, size, fields)[i] = Digit(fields[f], layout[f][2], k)
      BY <3>2, WrittenAt
    <3> HIDE DEF k
    <3>5. layout[f][2] - k \in 1 .. 8
      BY <3>2
    <3>6. fields[f] \div Weight[layout[f][2] - k] \in Nat
      BY <3>5, WeightsAre, Divide
    <3>7. ByteValues \in Nat \ {0}
      BY ByteValuesAre
    <3>8. Digit(fields[f], layout[f][2], k) \in Byte
      BY <3>6, <3>7, Divide DEF Digit, Byte
    <3>9. QED
      BY <3>3, <3>8
  <2>2. CASE ~ \E f \in DOMAIN layout : Covers(layout, f, i - 1)
    <3>1. Write(layout, size, fields)[i] = 0
      BY <2>2 DEF Write
    <3>2. QED
      BY <3>1, ByteValuesAre DEF Byte
  <2>3. QED
    BY <2>1, <2>2
<1>2. Write(layout, size, fields) \in [1 .. size -> Byte]
  BY <1>1 DEF Write
<1>3. QED
  BY <1>2

\* Every field comes out as it went in.
LEMMA ReadWritten ==
    ASSUME NEW layout, NEW size \in Nat, WellLaid(layout, size), NEW fields,
           Fills(layout, fields), NEW bytes,
           \A i \in 1 .. size : bytes[i] = Write(layout, size, fields)[i],
           NEW f \in DOMAIN layout
    PROVE  Read(layout, bytes)[f] = fields[f]
<1> DEFINE p == layout[f][1]
           width == layout[f][2]
<1>1. p \in Nat /\ width \in Widths /\ fields[f] \in Fits(width)
  BY DEF WellLaid, Fills
<1>2. \A i \in 0 .. width - 1 : bytes[p + (i + 1)] = Digit(fields[f], width, i)
  BY WrittenAt
<1>3. Read(layout, bytes)[f] = Number(bytes, p, width)
  BY DEF Read
<1> HIDE DEF p, width
<1>4. QED
  BY <1>1, <1>2, <1>3, NumberWritten

\* What was read is what would be written, wherever there is a field.
LEMMA WrittenRead ==
    ASSUME NEW layout, NEW size \in Nat, WellLaid(layout, size), NEW bytes,
           \A i \in 1 .. size : bytes[i] \in Byte,
           NEW fields, \A f \in DOMAIN layout : fields[f] = Read(layout, bytes)[f]
    PROVE  /\ \A f \in DOMAIN layout : fields[f] \in Nat
           /\ \A i \in 1 .. size :
                 (\E f \in DOMAIN layout : Covers(layout, f, i - 1))
                    => Write(layout, size, fields)[i] = bytes[i]
<1>1. ASSUME NEW f \in DOMAIN layout
      PROVE  /\ fields[f] \in Nat
             /\ \A k \in 0 .. layout[f][2] - 1 :
                   Write(layout, size, fields)[layout[f][1] + (k + 1)]
                     = bytes[layout[f][1] + (k + 1)]
  <2> DEFINE p == layout[f][1]
             width == layout[f][2]
  <2>1. p \in Nat /\ width \in Widths
    BY DEF WellLaid
  <2>2. \A k \in 0 .. width - 1 : p + (k + 1) \in 1 .. size
    BY WrittenAt
  <2>3. \A k \in 0 .. width - 1 :
           Write(layout, size, fields)[p + (k + 1)] = Digit(fields[f], width, k)
    BY WrittenAt
  <2>4. fields[f] = Number(bytes, p, width)
    BY DEF Read
  <2> HIDE DEF p, width
  <2>5. /\ Number(bytes, p, width) \in Nat
        /\ \A k \in 0 .. width - 1 :
              Digit(Number(bytes, p, width), width, k) = bytes[p + (k + 1)]
    BY <2>1, <2>2, NumberRead
  <2>6. QED
    BY <2>3, <2>4, <2>5 DEF p, width
<1>2. ASSUME NEW i \in 1 .. size, NEW f \in DOMAIN layout, Covers(layout, f, i - 1)
      PROVE  Write(layout, size, fields)[i] = bytes[i]
  <2> DEFINE k == i - 1 - layout[f][1]
  <2>1. k \in 0 .. layout[f][2] - 1 /\ i = layout[f][1] + (k + 1)
    BY <1>2, WithinField
  <2>2. QED
    BY <1>1, <2>1
<1>3. QED
  BY <1>1, <1>2

\* The five structures of protocol.cpp, with the bytes no field takes.
LEMMA HeaderIsLaid ==
    /\ WellLaid(HeaderWritten, 24) /\ Fully(HeaderWritten, 24, {})
    /\ HeaderRead = HeaderWritten
BY DEF WellLaid, Fully, Covers, Widths, HeaderWritten, HeaderRead

LEMMA StartIsLaid ==
    /\ WellLaid(StartWritten, 24) /\ Fully(StartWritten, 24, {})
    /\ StartRead = StartWritten
BY DEF WellLaid, Fully, Covers, Widths, StartWritten, StartRead

LEMMA StartAckIsLaid ==
    /\ WellLaid(StartAckWritten, 12) /\ Fully(StartAckWritten, 12, {2, 3})
    /\ StartAckRead = StartAckWritten
BY DEF WellLaid, Fully, Covers, Widths, StartAckWritten, StartAckRead

LEMMA AckIsLaid ==
    /\ WellLaid(AckWritten, 16) /\ Fully(AckWritten, 16, {14, 15})
    /\ AckRead = AckWritten
BY DEF WellLaid, Fully, Covers, Widths, AckWritten, AckRead

LEMMA CompleteAckIsLaid ==
    /\ WellLaid(CompleteAckWritten, 24) /\ Fully(CompleteAckWritten, 24, {2, 3})
    /\ CompleteAckRead = CompleteAckWritten
BY DEF WellLaid, Fully, Covers, Widths, CompleteAckWritten, CompleteAckRead

-----------------------------------------------------------------------------
(* Bitmaps. *)

LEMMA PowersAre ==
    /\ TwoTo(0) = 1 /\ TwoTo(1) = 2 /\ TwoTo(2) = 4 /\ TwoTo(3) = 8 /\ TwoTo(4) = 16
    /\ TwoTo(5) = 32 /\ TwoTo(6) = 64 /\ TwoTo(7) = 128 /\ TwoTo(8) = 256
BY DEF TwoTo

LEMMA ByteBitsAre == ByteBits \in {3, 4, 5, 6, 7, 8}
BY CodecAssumption

\* The bit of weight w stands between what is below it and what is above.
LEMMA BitBetween ==
    ASSUME NEW w \in Nat \ {0}, NEW low \in 0 .. w - 1, NEW bit \in {0, 1}, NEW high \in Nat
    PROVE  ((low + bit * w + high * (2 * w)) \div w) % 2 = bit
<1> DEFINE n == low + bit * w + high * (2 * w)
           q == bit + 2 * high
<1>1. high * w \in Nat /\ bit * w \in Nat /\ high * (2 * w) = 2 * (high * w)
  BY ProductIsNat
<1>2. (2 * high) * w = 2 * (high * w)
  OBVIOUS
<1>3. q * w = bit * w + (2 * high) * w
  OBVIOUS
<1>4. n = q * w + low /\ n \in Nat /\ q \in Nat
  BY <1>1, <1>2, <1>3
<1>5. n \div w = q
  BY <1>4, DivideUniquely
<1>6. q = high * 2 + bit
  OBVIOUS
<1> HIDE DEF n, q
<1>7. q % 2 = bit
  BY <1>4, <1>6, DivideUniquely
<1>8. QED
  BY <1>5, <1>7 DEF n

\* The bits of the byte built from a set are that set.
LEMMA BitsOfByteOf ==
    ASSUME NEW S, S \subseteq 0 .. ByteBits - 1
    PROVE  /\ ByteOf(S) \in Byte
           /\ \A k \in 0 .. ByteBits - 1 : HasFlag(ByteOf(S), k) <=> k \in S
<1> DEFINE b(k) == IF k \in S THEN 1 ELSE 0
           n == ByteOf(S)
<1>1. n = b(0) + b(1) * 2 + b(2) * 4 + b(3) * 8 + b(4) * 16 + b(5) * 32 + b(6) * 64
          + b(7) * 128
  BY PowersAre DEF ByteOf
<1>2. /\ b(0) \in {0, 1} /\ b(1) \in {0, 1} /\ b(2) \in {0, 1} /\ b(3) \in {0, 1}
      /\ b(4) \in {0, 1} /\ b(5) \in {0, 1} /\ b(6) \in {0, 1} /\ b(7) \in {0, 1}
  OBVIOUS
<1>a. /\ b(0) \in 0 .. 1 /\ b(1) \in 0 .. 1 /\ b(2) \in 0 .. 1 /\ b(3) \in 0 .. 1
      /\ b(4) \in 0 .. 1 /\ b(5) \in 0 .. 1 /\ b(6) \in 0 .. 1 /\ b(7) \in 0 .. 1
  OBVIOUS
<1>3. \A k \in ByteBits .. 7 : b(k) = 0
  BY ByteBitsAre
<1>4. \A k : b(k) = 1 <=> k \in S
  OBVIOUS
<1> HIDE DEF b, n
<1>5. n \in Byte
  <2>1. CASE ByteBits = 3
    <3>1. b(3) = 0 /\ b(4) = 0 /\ b(5) = 0 /\ b(6) = 0 /\ b(7) = 0
      BY <1>3, <2>1
    <3>2. QED
      BY <1>1, <1>a, <2>1, <3>1, PowersAre DEF Byte, ByteValues
  <2>2. CASE ByteBits = 4
    <3>1. b(4) = 0 /\ b(5) = 0 /\ b(6) = 0 /\ b(7) = 0
      BY <1>3, <2>2
    <3>2. QED
      BY <1>1, <1>a, <2>2, <3>1, PowersAre DEF Byte, ByteValues
  <2>3. CASE ByteBits = 5
    <3>1. b(5) = 0 /\ b(6) = 0 /\ b(7) = 0
      BY <1>3, <2>3
    <3>2. QED
      BY <1>1, <1>a, <2>3, <3>1, PowersAre DEF Byte, ByteValues
  <2>4. CASE ByteBits = 6
    <3>1. b(6) = 0 /\ b(7) = 0
      BY <1>3, <2>4
    <3>2. QED
      BY <1>1, <1>a, <2>4, <3>1, PowersAre DEF Byte, ByteValues
  <2>5. CASE ByteBits = 7
    <3>1. b(7) = 0
      BY <1>3, <2>5
    <3>2. QED
      BY <1>1, <1>a, <2>5, <3>1, PowersAre DEF Byte, ByteValues
  <2>6. CASE ByteBits = 8
    BY <1>1, <1>a, <2>6, PowersAre DEF Byte, ByteValues
  <2>7. QED
    BY <2>1, <2>2, <2>3, <2>4, <2>5, <2>6, ByteBitsAre
<1>6. /\ (n \div 1) % 2 = b(0) /\ (n \div 2) % 2 = b(1)
      /\ (n \div 4) % 2 = b(2) /\ (n \div 8) % 2 = b(3)
      /\ (n \div 16) % 2 = b(4) /\ (n \div 32) % 2 = b(5)
      /\ (n \div 64) % 2 = b(6) /\ (n \div 128) % 2 = b(7)
  <2>1. (n \div 1) % 2 = b(0)
    <3> DEFINE low == 0
               high == b(1) + b(2) * 2 + b(3) * 4 + b(4) * 8 + b(5) * 16 + b(6) * 32 + b(7) * 64
    <3>1. low \in 0 .. 1 - 1 /\ high \in Nat
      BY <1>a
    <3>2. n = low + b(0) * 1 + high * (2 * 1)
      BY <1>1, <1>a
    <3> HIDE DEF low, high
    <3>3. QED
      BY <1>2, <3>1, <3>2, BitBetween
  <2>2. (n \div 2) % 2 = b(1)
    <3> DEFINE low == b(0)
               high == b(2) + b(3) * 2 + b(4) * 4 + b(5) * 8 + b(6) * 16 + b(7) * 32
    <3>1. low \in 0 .. 2 - 1 /\ high \in Nat
      BY <1>a
    <3>2. n = low + b(1) * 2 + high * (2 * 2)
      BY <1>1, <1>a
    <3> HIDE DEF low, high
    <3>3. QED
      BY <1>2, <3>1, <3>2, BitBetween
  <2>3. (n \div 4) % 2 = b(2)
    <3> DEFINE low == b(0) + b(1) * 2
               high == b(3) + b(4) * 2 + b(5) * 4 + b(6) * 8 + b(7) * 16
    <3>1. low \in 0 .. 4 - 1 /\ high \in Nat
      BY <1>a
    <3>2. n = low + b(2) * 4 + high * (2 * 4)
      BY <1>1, <1>a
    <3> HIDE DEF low, high
    <3>3. QED
      BY <1>2, <3>1, <3>2, BitBetween
  <2>4. (n \div 8) % 2 = b(3)
    <3> DEFINE low == b(0) + b(1) * 2 + b(2) * 4
               high == b(4) + b(5) * 2 + b(6) * 4 + b(7) * 8
    <3>1. low \in 0 .. 8 - 1 /\ high \in Nat
      BY <1>a
    <3>2. n = low + b(3) * 8 + high * (2 * 8)
      BY <1>1, <1>a
    <3> HIDE DEF low, high
    <3>3. QED
      BY <1>2, <3>1, <3>2, BitBetween
  <2>5. (n \div 16) % 2 = b(4)
    <3> DEFINE low == b(0) + b(1) * 2 + b(2) * 4 + b(3) * 8
               high == b(5) + b(6) * 2 + b(7) * 4
    <3>1. low \in 0 .. 16 - 1 /\ high \in Nat
      BY <1>a
    <3>2. n = low + b(4) * 16 + high * (2 * 16)
      BY <1>1, <1>a
    <3> HIDE DEF low, high
    <3>3. QED
      BY <1>2, <3>1, <3>2, BitBetween
  <2>6. (n \div 32) % 2 = b(5)
    <3> DEFINE low == b(0) + b(1) * 2 + b(2) * 4 + b(3) * 8 + b(4) * 16
               high == b(6) + b(7) * 2
    <3>1. low \in 0 .. 32 - 1 /\ high \in Nat
      BY <1>a
    <3>2. n = low + b(5) * 32 + high * (2 * 32)
      BY <1>1, <1>a
    <3> HIDE DEF low, high
    <3>3. QED
      BY <1>2, <3>1, <3>2, BitBetween
  <2>7. (n \div 64) % 2 = b(6)
    <3> DEFINE low == b(0) + b(1) * 2 + b(2) * 4 + b(3) * 8 + b(4) * 16 + b(5) * 32
               high == b(7)
    <3>1. low \in 0 .. 64 - 1 /\ high \in Nat
      BY <1>a
    <3>2. n = low + b(6) * 64 + high * (2 * 64)
      BY <1>1, <1>a
    <3> HIDE DEF low, high
    <3>3. QED
      BY <1>2, <3>1, <3>2, BitBetween
  <2>8. (n \div 128) % 2 = b(7)
    <3> DEFINE low == b(0) + b(1) * 2 + b(2) * 4 + b(3) * 8 + b(4) * 16 + b(5) * 32 + b(6) * 64
               high == 0
    <3>1. low \in 0 .. 128 - 1 /\ high \in Nat
      BY <1>a
    <3>2. n = low + b(7) * 128 + high * (2 * 128)
      BY <1>1, <1>a
    <3> HIDE DEF low, high
    <3>3. QED
      BY <1>2, <3>1, <3>2, BitBetween
  <2>9. QED
    BY <2>1, <2>2, <2>3, <2>4, <2>5, <2>6, <2>7, <2>8
<1>7. ASSUME NEW k \in 0 .. 7
      PROVE  (n \div TwoTo(k)) % 2 = b(k)
  <2>1. k \in {0, 1, 2, 3, 4, 5, 6, 7}
    OBVIOUS
  <2>2. QED
    BY <1>6, <2>1, PowersAre
<1>8. \A k \in 0 .. ByteBits - 1 : HasFlag(n, k) <=> k \in S
  BY <1>4, <1>7, ByteBitsAre DEF HasFlag
<1>9. QED
  BY <1>5, <1>8 DEF n

\* The byte built from the bits of a byte is that byte.
LEMMA ByteOfBits ==
    ASSUME NEW byte \in Byte
    PROVE  ByteOf({k \in 0 .. ByteBits - 1 : HasFlag(byte, k)}) = byte
<1> DEFINE S == {k \in 0 .. ByteBits - 1 : HasFlag(byte, k)}
           b(k) == IF k \in S THEN 1 ELSE 0
<1>1. ByteOf(S) = b(0) + b(1) * 2 + b(2) * 4 + b(3) * 8 + b(4) * 16 + b(5) * 32 + b(6) * 64
                  + b(7) * 128
  BY PowersAre DEF ByteOf
<1>2. byte \in 0 .. ByteValues - 1 /\ ByteValues \in 8 .. 256
  BY ByteValuesAre DEF Byte
<1>3. ASSUME NEW k \in 0 .. 7
      PROVE  b(k) = (byte \div TwoTo(k)) % 2
  <2>1. k \in {0, 1, 2, 3, 4, 5, 6, 7}
    OBVIOUS
  <2>2. (byte \div TwoTo(k)) % 2 \in {0, 1}
    BY <1>2, <2>1, PowersAre
  <2>3. CASE k < ByteBits
    BY <2>2, <2>3, ByteBitsAre DEF HasFlag
  <2>4. CASE k >= ByteBits
    <3>1. byte \div TwoTo(k) = 0
      BY <1>2, <2>1, <2>4, ByteBitsAre, PowersAre DEF ByteValues
    <3>2. b(k) = 0
      BY <2>4, ByteBitsAre
    <3>3. QED
      BY <3>1, <3>2
  <2>5. QED
    BY <2>3, <2>4, ByteBitsAre
<1> HIDE DEF S, b
<1>4. /\ b(0) = (byte \div 1) % 2 /\ b(1) = (byte \div 2) % 2
      /\ b(2) = (byte \div 4) % 2 /\ b(3) = (byte \div 8) % 2
      /\ b(4) = (byte \div 16) % 2 /\ b(5) = (byte \div 32) % 2
      /\ b(6) = (byte \div 64) % 2 /\ b(7) = (byte \div 128) % 2
  BY <1>3, PowersAre
<1>5. byte = ((byte \div 1) % 2) + ((byte \div 2) % 2) * 2 + ((byte \div 4) % 2) * 4
             + ((byte \div 8) % 2) * 8 + ((byte \div 16) % 2) * 16
             + ((byte \div 32) % 2) * 32 + ((byte \div 64) % 2) * 64
             + ((byte \div 128) % 2) * 128
  BY <1>2
<1>6. QED
  BY <1>1, <1>4, <1>5 DEF S

\* A bitmap that fills its bytes has as many bits as they have together.
LEMMA WholeBytes ==
    ASSUME NEW bits \in Nat, bits % ByteBits = 0
    PROVE  BitmapBytes(bits) \in Nat /\ bits = BitmapBytes(bits) * ByteBits
<1> DEFINE q == bits \div ByteBits
<1>1. ByteBits \in Nat \ {0}
  BY ByteBitsAre
<1>2. q \in Nat /\ bits = q * ByteBits + (bits % ByteBits)
  BY <1>1, Divide
<1> HIDE DEF q
<1>3. q * ByteBits \in Nat
  BY <1>1, <1>2, ProductIsNat
<1>4. bits + ByteBits - 1 = q * ByteBits + (ByteBits - 1) /\ bits = q * ByteBits
  BY <1>1, <1>2, <1>3
<1>5. BitmapBytes(bits) = q
  <2>1. bits + ByteBits - 1 \in Nat /\ ByteBits - 1 \in 0 .. ByteBits - 1
    BY <1>1
  <2>2. QED
    BY <1>1, <1>2, <1>4, <2>1, DivideUniquely DEF BitmapBytes
<1>6. QED
  BY <1>2, <1>4, <1>5

\* Bit b of a bitmap is a bit of one of its bytes.
LEMMA BitInByte ==
    ASSUME NEW bits \in Nat, bits % ByteBits = 0, NEW b \in 0 .. bits - 1
    PROVE  \E i \in 1 .. BitmapBytes(bits), k \in 0 .. ByteBits - 1 :
              /\ i = b \div ByteBits + 1 /\ k = b % ByteBits
              /\ b = (i - 1) * ByteBits + k
<1>1. ByteBits \in Nat \ {0}
  BY ByteBitsAre
<1>2. /\ b \div ByteBits \in Nat /\ b % ByteBits \in 0 .. ByteBits - 1
      /\ b = (b \div ByteBits) * ByteBits + (b % ByteBits)
  <2>1. b \in Nat
    OBVIOUS
  <2>2. QED
    BY <1>1, <2>1, Divide
<1>3. BitmapBytes(bits) \in Nat /\ bits = ByteBits * BitmapBytes(bits)
  BY <1>1, WholeBytes
<1>4. BitmapBytes(bits) # 0
  BY <1>1, <1>3
<1>5. b \div ByteBits \in 0 .. BitmapBytes(bits) - 1
  BY <1>1, <1>3, <1>4, QuotientBelow
<1> DEFINE q == b \div ByteBits
           r == b % ByteBits
<1>6. /\ q \in Nat /\ r \in 0 .. ByteBits - 1 /\ b = q * ByteBits + r
      /\ q \in 0 .. BitmapBytes(bits) - 1
  BY <1>2, <1>5
<1> HIDE DEF q, r
<1>7. PICK i \in 1 .. BitmapBytes(bits) : i = q + 1 /\ i - 1 = q
  BY <1>3, <1>6
<1>8. QED
  BY <1>6, <1>7 DEF q, r

\* process_ack() finds in the bytes of a bitmap the bits make_ack_snapshot() set.
LEMMA BitmapPacked ==
    ASSUME NEW bits \in Nat, bits % ByteBits = 0, NEW bitmap, bitmap \subseteq 0 .. bits - 1
    PROVE  /\ PackBitmap(bits, bitmap) \in Seq(Byte)
           /\ Len(PackBitmap(bits, bitmap)) = BitmapBytes(bits)
           /\ UnpackBitmap(bits, PackBitmap(bits, bitmap)) = bitmap
<1> DEFINE Ones(i) == {k \in 0 .. ByteBits - 1 : (i - 1) * ByteBits + k \in bitmap}
           packed == PackBitmap(bits, bitmap)
<1>1. packed = [i \in 1 .. BitmapBytes(bits) |-> ByteOf(Ones(i))]
  BY DEF PackBitmap
<1>2. \A i : /\ ByteOf(Ones(i)) \in Byte
             /\ \A k \in 0 .. ByteBits - 1 : HasFlag(ByteOf(Ones(i)), k) <=> k \in Ones(i)
  <2>1. ASSUME NEW i
        PROVE  /\ ByteOf(Ones(i)) \in Byte
               /\ \A k \in 0 .. ByteBits - 1 : HasFlag(ByteOf(Ones(i)), k) <=> k \in Ones(i)
    <3>1. Ones(i) \subseteq 0 .. ByteBits - 1
      OBVIOUS
    <3> HIDE DEF Ones
    <3>2. QED
      BY <3>1, BitsOfByteOf
  <2>2. QED
    BY <2>1
<1>3. ASSUME NEW b \in 0 .. bits - 1
      PROVE  HasFlag(packed[b \div ByteBits + 1], b % ByteBits) <=> b \in bitmap
  <2>1. PICK i \in 1 .. BitmapBytes(bits), k \in 0 .. ByteBits - 1 :
          /\ i = b \div ByteBits + 1 /\ k = b % ByteBits
          /\ b = (i - 1) * ByteBits + k
    BY BitInByte
  <2>2. packed[i] = ByteOf(Ones(i))
    BY <1>1, <2>1
  <2>3. HasFlag(packed[i], k) <=> b \in bitmap
    <3>1. HasFlag(ByteOf(Ones(i)), k) <=> k \in Ones(i)
      BY <1>2
    <3>2. k \in Ones(i) <=> b \in bitmap
      BY <2>1
    <3>3. QED
      BY <2>2, <3>1, <3>2
  <2>4. QED
    BY <2>1, <2>3
<1>4. UnpackBitmap(bits, packed) = bitmap
  BY <1>3 DEF UnpackBitmap
<1>5. BitmapBytes(bits) \in Nat
  BY WholeBytes
<1> HIDE DEF packed, Ones
<1>6. packed \in [1 .. BitmapBytes(bits) -> Byte]
  BY <1>1, <1>2
<1>7. packed \in Seq(Byte) /\ Len(packed) = BitmapBytes(bits)
  BY <1>5, <1>6
<1>8. QED
  BY <1>4, <1>7 DEF packed

\* The bits found in the bytes of a bitmap give the same bytes again.
LEMMA BitmapUnpacked ==
    ASSUME NEW bits \in Nat, bits % ByteBits = 0,
           NEW bytes \in Seq(Byte), Len(bytes) = BitmapBytes(bits)
    PROVE  /\ UnpackBitmap(bits, bytes) \subseteq 0 .. bits - 1
           /\ PackBitmap(bits, UnpackBitmap(bits, bytes)) = bytes
<1> DEFINE found == UnpackBitmap(bits, bytes)
<1>1. ByteBits \in Nat \ {0} /\ BitmapBytes(bits) \in Nat
      /\ bits = BitmapBytes(bits) * ByteBits
  BY ByteBitsAre, WholeBytes
<1>2. ASSUME NEW i \in 1 .. BitmapBytes(bits), NEW k \in 0 .. ByteBits - 1
      PROVE  (i - 1) * ByteBits + k \in found <=> HasFlag(bytes[i], k)
  <2> DEFINE b == (i - 1) * ByteBits + k
  <2>1. (i - 1) * ByteBits \in Nat
    BY <1>1, ProductIsNat
  <2>2. b \in Nat
    BY <1>1, <2>1
  <2>3. b \div ByteBits = i - 1 /\ b % ByteBits = k
    <3>1. b = (i - 1) * ByteBits + k /\ i - 1 \in Nat
      BY <1>1
    <3> HIDE DEF b
    <3>2. QED
      BY <1>1, <2>2, <3>1, DivideUniquely
  <2>4. b \in 0 .. bits - 1
    <3>1. i * ByteBits <= BitmapBytes(bits) * ByteBits
      BY <1>1, ProductGrows
    <3>2. i * ByteBits = (i - 1) * ByteBits + ByteBits
      BY <1>1
    <3>3. QED
      BY <1>1, <2>1, <2>2, <3>1, <3>2
  <2> HIDE DEF b
  <2>5. b \div ByteBits + 1 = i
    BY <2>3
  <2>6. b \in found <=> HasFlag(bytes[b \div ByteBits + 1], b % ByteBits)
    BY <2>4 DEF UnpackBitmap
  <2>7. QED
    BY <2>3, <2>5, <2>6 DEF b
<1>3. found \subseteq 0 .. bits - 1
  BY DEF UnpackBitmap
<1> HIDE DEF found
<1>4. ASSUME NEW i \in 1 .. BitmapBytes(bits)
      PROVE  ByteOf({k \in 0 .. ByteBits - 1 : (i - 1) * ByteBits + k \in found}) = bytes[i]
  <2>1. {k \in 0 .. ByteBits - 1 : (i - 1) * ByteBits + k \in found}
          = {k \in 0 .. ByteBits - 1 : HasFlag(bytes[i], k)}
    BY <1>2
  <2>2. bytes[i] \in Byte
    OBVIOUS
  <2>3. QED
    BY <2>1, <2>2, ByteOfBits
<1>5. PackBitmap(bits, found) = [i \in 1 .. BitmapBytes(bits) |-> bytes[i]]
  BY <1>4 DEF PackBitmap
<1>6. bytes = [i \in 1 .. BitmapBytes(bits) |-> bytes[i]]
  BY <1>1
<1>7. QED
  BY <1>3, <1>5, <1>6 DEF found
-----------------------------------------------------------------------------
(* Whole packets, from the sender to the receiver. *)

LEMMA TypesAre ==
    /\ PacketType.START = 1 /\ PacketType.START_ACK = 2 /\ PacketType.DATA = 3
    /\ PacketType.ACK = 4 /\ PacketType.COMPLETE = 5 /\ PacketType.COMPLETE_ACK = 6
    /\ PacketType.ERROR = 7
BY DEF PacketType

\* The payloads of every type are short enough for the header to say how long.
LEMMA LengthsFit ==
    /\ {0, 12, 24} \subseteq Fits(2)
    /\ 16 + BitmapBytes(AckBitmapBits) \in Fits(2)
<1> DEFINE most == ByteValues * ByteValues
           n == BitmapBytes(AckBitmapBits)
<1>1. Fits(2) = 0 .. most - 1
  <2>1. Weight[2] = ByteValues
    BY DEF Weight
  <2>2. QED
    BY <2>1 DEF Fits
<1>2. most \in Nat /\ 64 <= most
  <2>1. ByteValues \in Nat /\ 8 <= ByteValues
    BY ByteValuesAre
  <2>2. 8 * 8 <= ByteValues * 8 /\ 8 * ByteValues <= ByteValues * ByteValues
    BY <2>1, ProductGrows
  <2>3. QED
    BY <2>1, <2>2, ProductIsNat
<1>3. AckBitmapBits \in 0 .. most - 1 /\ AckBitmapBits % ByteBits = 0
  BY <1>1, CodecAssumption
<1> HIDE DEF most, n
<1>4. n \in Nat /\ AckBitmapBits = n * ByteBits
  BY <1>2, <1>3, WholeBytes DEF n
<1>5. 3 * n <= ByteBits * n /\ ByteBits * n = n * ByteBits
  BY <1>4, ByteBitsAre, ProductGrows
<1>6. 3 * n <= most - 1
  BY <1>2, <1>3, <1>4, <1>5
<1>7. {0, 12, 24} \subseteq 0 .. most - 1 /\ 16 + n \in 0 .. most - 1
  BY <1>2, <1>4, <1>6
<1>8. QED
  BY <1>1, <1>7 DEF n

LEMMA BitmapIsWhole == AckBitmapBits \in Nat /\ AckBitmapBits % ByteBits = 0
<1>1. Weight[2] \in Nat /\ ByteValues \in Nat
  BY WeightsAre, ByteValuesAre
<1>2. Weight[2] * ByteValues \in Nat
  BY <1>1, ProductIsNat
<1>3. QED
  BY <1>2, CodecAssumption DEF Fits

\* What two blocks of bytes one after the other are made of.
LEMMA TwoBlocks ==
    ASSUME NEW S, NEW first \in Seq(S), NEW second \in Seq(S)
    PROVE  /\ first \o second \in Seq(S)
           /\ Len(first \o second) = Len(first) + Len(second)
           /\ \A i \in 1 .. Len(first) : (first \o second)[i] = first[i]
           /\ \A i \in 1 .. Len(second) : (first \o second)[Len(first) + i] = second[i]
           /\ SubSeq(first \o second, Len(first) + 1, Len(first) + Len(second)) = second
<1> DEFINE both == first \o second
           m == Len(first)
           n == Len(second)
           part == SubSeq(both, m + 1, m + n)
<1>1. m \in Nat /\ n \in Nat
  OBVIOUS
<1>2. both \in Seq(S) /\ Len(both) = m + n /\ \A i \in 1 .. m : both[i] = first[i]
  OBVIOUS
<1>3. \A i \in 1 .. n : both[m + i] = second[i]
  OBVIOUS
<1>4. part = second
  <2> HIDE DEF both, m, n
  <2>1. part = [i \in 1 .. n |-> both[m + i]]
    BY <1>1, <1>2
  <2>2. part = [i \in 1 .. n |-> second[i]]
    BY <1>3, <2>1
  <2>3. QED
    BY <2>2 DEF n
<1>5. QED
  BY <1>2, <1>3, <1>4

\* A structure that fills a layout is read as it was written.
LEMMA RecordSurvives ==
    ASSUME NEW layout, NEW size \in Nat, WellLaid(layout, size), NEW payload,
           Fills(layout, payload)
    PROVE  /\ Write(layout, size, payload) \in Seq(Byte)
           /\ Len(Write(layout, size, payload)) = size
           /\ IsRecordOf(DOMAIN layout, payload)
                => Read(layout, Write(layout, size, payload)) = payload
<1>1. \A f \in DOMAIN layout : payload[f] \in Nat
  <2>1. ASSUME NEW f \in DOMAIN layout
        PROVE  payload[f] \in Nat
    <3>1. layout[f][2] \in 1 .. 8
      BY DEF WellLaid, Widths
    <3>2. Weight[layout[f][2]] * ByteValues \in Nat
      BY <3>1, WeightsAre, ByteValuesAre, ProductIsNat
    <3>3. QED
      BY <3>2 DEF Fills, Fits
  <2>2. QED
    BY <2>1
<1>2. \A f \in DOMAIN layout : Read(layout, Write(layout, size, payload))[f] = payload[f]
  BY ReadWritten
<1>3. Read(layout, Write(layout, size, payload)) = [f \in DOMAIN layout |-> payload[f]]
  BY <1>2 DEF Read
<1>4. QED
  BY <1>1, <1>3, BlockOfBytes DEF IsRecordOf

\* So it is when bytes of another kind follow it, and they are found behind it.
LEMMA BlockThenBytes ==
    ASSUME NEW layout, NEW size \in Nat, WellLaid(layout, size),
           NEW fields, Fills(layout, fields), NEW rest \in Seq(Byte)
    PROVE  LET both == Write(layout, size, fields) \o rest
           IN /\ both \in Seq(Byte) /\ Len(both) = size + Len(rest)
              /\ \A f \in DOMAIN layout : Read(layout, both)[f] = fields[f]
              /\ SubSeq(both, size + 1, size + Len(rest)) = rest
<1> DEFINE block == Write(layout, size, fields)
           both == block \o rest
<1>1. block \in Seq(Byte) /\ Len(block) = size
  BY RecordSurvives
<1>2. /\ both \in Seq(Byte) /\ Len(both) = Len(block) + Len(rest)
      /\ (\A i \in 1 .. Len(block) : both[i] = block[i])
      /\ SubSeq(both, Len(block) + 1, Len(block) + Len(rest)) = rest
  <2> HIDE DEF block
  <2>1. both \in Seq(Byte) /\ Len(both) = Len(block) + Len(rest)
    BY <1>1, TwoBlocks
  <2>2. \A i \in 1 .. Len(block) : both[i] = block[i]
    BY <1>1, TwoBlocks
  <2>3. SubSeq(both, Len(block) + 1, Len(block) + Len(rest)) = rest
    BY <1>1, TwoBlocks
  <2>4. QED
    BY <2>1, <2>2, <2>3
<1> HIDE DEF both
<1>3. \A i \in 1 .. size : both[i] = Write(layout, size, fields)[i]
  BY <1>1, <1>2
<1>4. \A f \in DOMAIN layout : Read(layout, both)[f] = fields[f]
  BY <1>3, ReadWritten
<1>5. QED
  BY <1>1, <1>2, <1>4 DEF both, block

\* An ACK's payload is the fields and, after them, the bitmap.
LEMMA AckSurvives ==
    ASSUME NEW payload, PayloadFits(PacketType.ACK, payload), NEW flags, HasFlag(flags, 2)
    PROVE  LET bytes == WritePayload(PacketType.ACK, payload)
           IN /\ bytes \in Seq(Byte)
              /\ Len(bytes) = 16 + BitmapBytes(AckBitmapBits)
              /\ AckIsValid(flags, bytes)
              /\ ReadPayload(PacketType.ACK, bytes) = payload
<1> DEFINE fixed == Write(AckWritten, 16, payload)
           packed == PackBitmap(AckBitmapBits, payload.bitmap)
           bytes == fixed \o packed
           ack == Read(AckRead, bytes)
           n == BitmapBytes(AckBitmapBits)
<1>1. /\ payload = [f \in DOMAIN AckWritten \union {"bitmap"} |-> payload[f]]
      /\ Fills(AckWritten, payload) /\ payload.bitmap_bits = AckBitmapBits
      /\ payload.bitmap \subseteq 0 .. AckBitmapBits - 1
  BY TypesAre DEF PayloadFits, IsRecordOf
<1>2. WritePayload(PacketType.ACK, payload) = bytes
  <2>1. WritePayload(PacketType.ACK, payload)
          = Write(AckWritten, 16, payload) \o PackBitmap(payload.bitmap_bits, payload.bitmap)
    BY TypesAre DEF WritePayload
  <2>2. QED
    BY <1>1, <2>1
<1>3. AckBitmapBits \in Nat /\ AckBitmapBits % ByteBits = 0
  BY BitmapIsWhole
<1>4. /\ packed \in Seq(Byte) /\ Len(packed) = n
      /\ UnpackBitmap(AckBitmapBits, packed) = payload.bitmap
  BY <1>1, <1>3, BitmapPacked
<1>5. n \in Nat
  BY <1>3, WholeBytes
<1>6. /\ bytes \in Seq(Byte) /\ Len(bytes) = 16 + n
      /\ \A f \in DOMAIN AckWritten : Read(AckWritten, bytes)[f] = payload[f]
      /\ SubSeq(bytes, 16 + 1, 16 + n) = packed
  <2> DEFINE k == Len(packed)
  <2> HIDE DEF packed
  <2>1. /\ bytes \in Seq(Byte) /\ Len(bytes) = 16 + k
        /\ \A f \in DOMAIN AckWritten : Read(AckWritten, bytes)[f] = payload[f]
        /\ SubSeq(bytes, 16 + 1, 16 + k) = packed
    <3>1. /\ WellLaid(AckWritten, 16) /\ Fills(AckWritten, payload)
          /\ packed \in Seq(Byte)
      BY <1>1, <1>4, AckIsLaid
    <3>2. bytes \in Seq(Byte) /\ Len(bytes) = 16 + k
      BY <3>1, BlockThenBytes
    <3>3. \A f \in DOMAIN AckWritten : Read(AckWritten, bytes)[f] = payload[f]
      BY <3>1, BlockThenBytes
    <3>4. SubSeq(bytes, 16 + 1, 16 + k) = packed
      BY <3>1, BlockThenBytes
    <3>5. QED
      BY <3>2, <3>3, <3>4
  <2>2. k = n
    BY <1>4
  <2> HIDE DEF k, n, bytes
  <2>3. QED
    BY <2>1, <2>2
<1> HIDE DEF packed, n, bytes
<1>7. SubSeq(bytes, 17, Len(bytes)) = packed
  BY <1>6, 16 + 1 = 17
<1>8. \A f \in DOMAIN AckWritten : ack[f] = payload[f]
  BY <1>6, AckIsLaid
<1>9. DOMAIN ack = DOMAIN AckWritten
  BY AckIsLaid DEF Read
<1>10. "bitmap_bits" \in DOMAIN AckWritten /\ "bitmap" \notin DOMAIN AckWritten
  BY DEF AckWritten
<1>11. ack.bitmap_bits = AckBitmapBits
  BY <1>1, <1>8, <1>10
<1>12. AckIsValid(flags, bytes)
  BY <1>5, <1>6, <1>11 DEF AckIsValid, n
<1>13. ReadPayload(PacketType.ACK, bytes)
         = [f \in DOMAIN ack \union {"bitmap"} |->
               IF f = "bitmap" THEN UnpackBitmap(ack.bitmap_bits, SubSeq(bytes, 17, Len(bytes)))
               ELSE ack[f]]
  BY TypesAre DEF ReadPayload
<1> HIDE DEF ack
<1>14. ReadPayload(PacketType.ACK, bytes) = payload
  BY <1>1, <1>4, <1>7, <1>8, <1>9, <1>10, <1>11, <1>13
<1>15. QED
  BY <1>2, <1>6, <1>12, <1>14 DEF n, bytes, packed

\* Of every type, the payload is read as it was written.
LEMMA PayloadSurvives ==
    ASSUME NEW h, h.type \in PacketType.START .. PacketType.COMPLETE_ACK,
           h.type = PacketType.ACK => HasFlag(h.flags, 2),
           NEW payload, PayloadFits(h.type, payload)
    PROVE  LET bytes == WritePayload(h.type, payload)
           IN /\ bytes \in Seq(Byte)
              /\ Len(bytes) \in Fits(2)
              /\ PayloadIsValid(h, bytes)
              /\ ReadPayload(h.type, bytes) = payload
<1> DEFINE bytes == WritePayload(h.type, payload)
<1>1. h.type \in {1, 2, 3, 4, 5, 6}
  BY TypesAre
<1>2. CASE h.type = 1
  <2>1. IsRecordOf(DOMAIN StartWritten, payload) /\ Fills(StartWritten, payload)
    BY <1>2, TypesAre DEF PayloadFits
  <2>2. bytes = Write(StartWritten, 24, payload)
    BY <1>2, TypesAre DEF WritePayload
  <2> HIDE DEF bytes
  <2>3. bytes \in Seq(Byte) /\ Len(bytes) = 24 /\ Read(StartRead, bytes) = payload
    BY <2>1, <2>2, StartIsLaid, RecordSurvives
  <2>4. PayloadIsValid(h, bytes) /\ ReadPayload(h.type, bytes) = payload
    BY <1>2, <2>3, TypesAre DEF PayloadIsValid, ReadPayload
  <2>5. QED
    BY <2>3, <2>4, LengthsFit DEF bytes
<1>3. CASE h.type = 2
  <2>1. IsRecordOf(DOMAIN StartAckWritten, payload) /\ Fills(StartAckWritten, payload)
    BY <1>3, TypesAre DEF PayloadFits
  <2>2. bytes = Write(StartAckWritten, 12, payload)
    BY <1>3, TypesAre DEF WritePayload
  <2> HIDE DEF bytes
  <2>3. bytes \in Seq(Byte) /\ Len(bytes) = 12 /\ Read(StartAckRead, bytes) = payload
    BY <2>1, <2>2, StartAckIsLaid, RecordSurvives
  <2>4. PayloadIsValid(h, bytes) /\ ReadPayload(h.type, bytes) = payload
    BY <1>3, <2>3, TypesAre DEF PayloadIsValid, ReadPayload
  <2>5. QED
    BY <2>3, <2>4, LengthsFit DEF bytes
<1>4. CASE h.type = 3
  <2>1. /\ IsRecordOf({"bytes"}, payload) /\ payload.bytes \in Seq(Byte)
        /\ Len(payload.bytes) \in Fits(2)
    BY <1>4, TypesAre DEF PayloadFits
  <2>2. bytes = payload.bytes
    BY <1>4, TypesAre DEF WritePayload
  <2> HIDE DEF bytes
  <2>3. payload = [bytes |-> bytes]
    BY <2>1, <2>2 DEF IsRecordOf
  <2>4. PayloadIsValid(h, bytes) /\ ReadPayload(h.type, bytes) = payload
    BY <1>4, <2>3, TypesAre DEF PayloadIsValid, ReadPayload
  <2>5. QED
    BY <2>1, <2>2, <2>4 DEF bytes
<1>5. CASE h.type = 4
  <2>1. h.type = PacketType.ACK
    BY <1>5, TypesAre
  <2>2. /\ bytes \in Seq(Byte) /\ Len(bytes) = 16 + BitmapBytes(AckBitmapBits)
        /\ AckIsValid(h.flags, bytes) /\ ReadPayload(h.type, bytes) = payload
    BY <2>1, AckSurvives
  <2> HIDE DEF bytes
  <2>3. PayloadIsValid(h, bytes)
    BY <1>5, <2>2, TypesAre DEF PayloadIsValid
  <2>4. QED
    BY <2>2, <2>3, LengthsFit DEF bytes
<1>6. CASE h.type = 5
  <2>1. payload = [bytes |-> <<>>]
    BY <1>6, TypesAre DEF PayloadFits
  <2>2. bytes = <<>>
    BY <1>6, <2>1, TypesAre DEF WritePayload
  <2> HIDE DEF bytes
  <2>3. PayloadIsValid(h, bytes) /\ ReadPayload(h.type, bytes) = payload
    BY <1>6, <2>1, <2>2, TypesAre DEF PayloadIsValid, ReadPayload
  <2>4. bytes \in Seq(Byte) /\ Len(bytes) = 0
    BY <2>2
  <2>5. QED
    BY <2>3, <2>4, LengthsFit DEF bytes
<1>7. CASE h.type = 6
  <2>1. IsRecordOf(DOMAIN CompleteAckWritten, payload) /\ Fills(CompleteAckWritten, payload)
    BY <1>7, TypesAre DEF PayloadFits
  <2>2. bytes = Write(CompleteAckWritten, 24, payload)
    BY <1>7, TypesAre DEF WritePayload
  <2> HIDE DEF bytes
  <2>3. bytes \in Seq(Byte) /\ Len(bytes) = 24 /\ Read(CompleteAckRead, bytes) = payload
    BY <2>1, <2>2, CompleteAckIsLaid, RecordSurvives
  <2>4. PayloadIsValid(h, bytes) /\ ReadPayload(h.type, bytes) = payload
    BY <1>7, <2>3, TypesAre DEF PayloadIsValid, ReadPayload
  <2>5. QED
    BY <2>3, <2>4, LengthsFit DEF bytes
<1>8. QED
  BY <1>1, <1>2, <1>3, <1>4, <1>5, <1>6, <1>7
\* What a receiver takes for the payload.
PayloadIn(d) == SubSeq(d, HeaderSize + 1, HeaderSize + Read(HeaderRead, d).payload_length)

\* Both lengths are in the header, and all the rest is what make_header() set.
LEMMA HeaderIsFull ==
    ASSUME NEW header, HeaderFits(header), NEW n \in Fits(2)
    PROVE  /\ Fills(HeaderWritten, Full(header, n))
           /\ Full(header, n).payload_length = n
           /\ Full(header, n).header_length = HeaderSize
           /\ \A f \in DOMAIN header :
                 f \in DOMAIN HeaderWritten /\ Full(header, n)[f] = header[f]
<1>1. /\ DOMAIN header = DOMAIN HeaderWritten \ {"payload_length", "header_length"}
      /\ \A f \in DOMAIN header : header[f] \in Fits(HeaderWritten[f][2])
  BY DEF HeaderFits
<1>2. /\ HeaderWritten["payload_length"][2] = 2 /\ HeaderWritten["header_length"][2] = 2
      /\ {"payload_length", "header_length"} \subseteq DOMAIN HeaderWritten
  BY DEF HeaderWritten
<1>3. Full(header, n).payload_length = n /\ Full(header, n).header_length = HeaderSize
  BY <1>2 DEF Full
<1>4. \A f \in DOMAIN header : f \in DOMAIN HeaderWritten /\ Full(header, n)[f] = header[f]
  BY <1>1 DEF Full
<1>5. HeaderSize \in Fits(2)
  BY LengthsFit DEF HeaderSize
<1>6. Fills(HeaderWritten, Full(header, n))
  BY <1>1, <1>2, <1>3, <1>4, <1>5 DEF Fills
<1>7. QED
  BY <1>3, <1>4, <1>6

\* A header that make_header() and serialize_packet_header() fill in is one that
\* deserialize_packet_view() accepts, and reads as it was.
LEMMA HeaderSurvives ==
    ASSUME NEW header, HeaderFits(header), NEW bytes \in Seq(Byte), Len(bytes) \in Fits(2)
    PROVE  LET d == Write(HeaderWritten, HeaderSize, Full(header, Len(bytes))) \o bytes
           IN /\ d \in Seq(Byte) /\ HeaderIsValid(d) /\ PayloadIn(d) = bytes
              /\ Read(HeaderRead, d) = Full(header, Len(bytes))
<1> DEFINE full == Full(header, Len(bytes))
           d == Write(HeaderWritten, HeaderSize, full) \o bytes
           h == Read(HeaderRead, d)
<1>1. /\ Fills(HeaderWritten, full)
      /\ full.payload_length = Len(bytes) /\ full.header_length = HeaderSize
      /\ \A f \in DOMAIN header : f \in DOMAIN HeaderWritten /\ full[f] = header[f]
  BY HeaderIsFull
<1>2. HeaderSize = 24
  BY DEF HeaderSize
<1> HIDE DEF full
<1>3. /\ d \in Seq(Byte) /\ Len(d) = HeaderSize + Len(bytes)
      /\ \A f \in DOMAIN HeaderWritten : Read(HeaderWritten, d)[f] = full[f]
      /\ SubSeq(d, HeaderSize + 1, HeaderSize + Len(bytes)) = bytes
  BY <1>1, <1>2, HeaderIsLaid, BlockThenBytes
<1> HIDE DEF d
<1>4. \A f \in DOMAIN HeaderWritten : h[f] = full[f]
  BY <1>3, HeaderIsLaid
<1> HIDE DEF h
<1>5. /\ {"magic", "version", "type", "flags"} \subseteq DOMAIN header
      /\ {"payload_length", "header_length"} \subseteq DOMAIN HeaderWritten
  BY DEF HeaderFits, HeaderWritten
<1>6. h.header_length = HeaderSize /\ h.payload_length = Len(bytes)
  BY <1>1, <1>4, <1>5
<1>7. \A f \in DOMAIN header : h[f] = header[f]
  BY <1>1, <1>4
<1>8. PayloadIn(d) = bytes
  BY <1>3, <1>6 DEF PayloadIn, h
<1>9. HeaderIsValid(d)
  <2>1. /\ header.type \in PacketType.START .. PacketType.COMPLETE_ACK
        /\ header.magic = Magic /\ header.version = Version /\ ~HasFlag(header.flags, 0)
    BY DEF HeaderFits
  <2>2. /\ h.type = header.type /\ h.magic = header.magic /\ h.version = header.version
        /\ h.flags = header.flags
    BY <1>5, <1>7
  <2>3. Len(bytes) \in Nat
    OBVIOUS
  <2>4. Len(d) >= HeaderSize /\ LengthMatches(h, Len(d))
    BY <1>2, <1>3, <1>6, <2>3 DEF LengthMatches
  <2>5. h.type \in PacketType.START .. PacketType.ERROR
    BY <2>1, <2>2, TypesAre
  <2>6. QED
    BY <1>6, <2>1, <2>2, <2>4, <2>5 DEF HeaderIsValid, h
<1>10. Read(HeaderRead, d) = Full(header, Len(bytes))
  <2>1. /\ Read(HeaderRead, d) = [f \in DOMAIN HeaderWritten |-> h[f]]
        /\ full = [f \in DOMAIN HeaderWritten |-> full[f]]
    BY HeaderIsLaid DEF Read, h, full, Full
  <2>2. QED
    BY <1>4, <2>1 DEF full
<1>11. QED
  BY <1>3, <1>8, <1>9, <1>10 DEF d, full

\* What the sender serialises, undamaged, is what a receiver that takes its
\* header decodes.
LEMMA PacketSurvives ==
    ASSUME NEW r, NEW header, HeaderFits(header),
           NEW payload, PayloadFits(header.type, payload)
    PROVE  LET d == Datagram(header, payload)
               h == Full(header, Len(WritePayload(header.type, payload)))
           IN /\ d \in Seq(Byte)
              /\ ~Takes(r, h) => Decode(r, d) = Refused
              /\ Takes(r, h) /\ Unread(r, h)
                   => Decode(r, d) = [type |-> "header", header |-> h]
              /\ Takes(r, h) /\ ~Unread(r, h)
                   => Decode(r, d) = [type |-> "packet", header |-> h, payload |-> payload]
<1> DEFINE bytes == WritePayload(header.type, payload)
           h == Full(header, Len(bytes))
           d == Write(HeaderWritten, HeaderSize, h) \o bytes
<1>1. Datagram(header, payload) = d
  BY DEF Datagram
<1>2. header.type \in PacketType.START .. PacketType.COMPLETE_ACK
  BY DEF HeaderFits
<1>3. bytes \in Seq(Byte) /\ Len(bytes) \in Fits(2)
  BY <1>2, PayloadSurvives DEF HeaderFits
<1>4. d \in Seq(Byte) /\ HeaderIsValid(d) /\ PayloadIn(d) = bytes /\ Read(HeaderRead, d) = h
  <2> HIDE DEF bytes
  <2>1. QED
    BY <1>3, HeaderSurvives
<1>5. {"type", "flags"} \subseteq DOMAIN header
  BY DEF HeaderFits, HeaderWritten
<1>6. h.type = header.type /\ h.flags = header.flags
  BY <1>3, <1>5, HeaderIsFull
<1> HIDE DEF d, h
<1>7. PayloadIsValid(h, bytes) /\ ReadPayload(h.type, bytes) = payload
  <2>1. h.type = PacketType.ACK => HasFlag(h.flags, 2)
    BY <1>6 DEF HeaderFits
  <2>2. QED
    BY <1>2, <1>6, <2>1, PayloadSurvives
<1> HIDE DEF bytes
<1>8. /\ ~Takes(r, h) => Decode(r, d) = Refused
      /\ Takes(r, h) /\ Unread(r, h) => Decode(r, d) = [type |-> "header", header |-> h]
      /\ Takes(r, h) /\ ~Unread(r, h)
           => Decode(r, d) = [type |-> "packet", header |-> h, payload |-> payload]
  BY <1>4, <1>7 DEF Decode, PayloadIn
<1>9. QED
  BY <1>1, <1>4, <1>8 DEF h, bytes
-----------------------------------------------------------------------------
(* Whole packets, from the receiver back to the sender. *)

AreBytes(bytes, size) == \A i \in 1 .. size : bytes[i] \in Byte

AreRead(fields, layout, bytes) == \A f \in DOMAIN layout : fields[f] = Read(layout, bytes)[f]

\* The bytes of a structure are those of the values read from it, but for the
\* padding.
LEMMA RecordAgain ==
    ASSUME NEW layout, NEW size \in Nat, WellLaid(layout, size),
           NEW padding, Fully(layout, size, padding),
           NEW bytes, AreBytes(bytes, size), NEW fields, AreRead(fields, layout, bytes)
    PROVE  LET again == Write(layout, size, fields)
           IN /\ again \in Seq(Byte) /\ Len(again) = size
              /\ \A i \in 1 .. size : i - 1 \notin padding => again[i] = bytes[i]
<1> DEFINE again == Write(layout, size, fields)
<1> USE DEF AreBytes, AreRead
<1>1. /\ \A f \in DOMAIN layout : fields[f] \in Nat
      /\ \A i \in 1 .. size :
            (\E f \in DOMAIN layout : Covers(layout, f, i - 1)) => again[i] = bytes[i]
  BY WrittenRead
<1>2. again \in Seq(Byte) /\ Len(again) = size
  BY <1>1, BlockOfBytes
<1> HIDE DEF again
<1>3. ASSUME NEW i \in 1 .. size, i - 1 \notin padding
      PROVE  \E f \in DOMAIN layout : Covers(layout, f, i - 1)
  <2>1. i - 1 \in (0 .. size - 1) \ padding
    BY <1>3
  <2>2. QED
    BY <2>1 DEF Fully
<1>4. QED
  BY <1>1, <1>2, <1>3 DEF again

\* The payload of an ACK that is accepted.
LEMMA AckAgain ==
    ASSUME NEW flags, NEW bytes \in Seq(Byte), AckIsValid(flags, bytes)
    PROVE  LET again == WritePayload(PacketType.ACK, ReadPayload(PacketType.ACK, bytes))
           IN /\ again \in Seq(Byte) /\ Len(again) = Len(bytes)
              /\ \A i \in 1 .. Len(bytes) : i - 1 \notin {14, 15} => again[i] = bytes[i]
<1> DEFINE payload == ReadPayload(PacketType.ACK, bytes)
           n == BitmapBytes(AckBitmapBits)
           rest == SubSeq(bytes, 17, Len(bytes))
           fixed == Write(AckWritten, 16, payload)
           packed == PackBitmap(AckBitmapBits, payload.bitmap)
           again == fixed \o packed
           ack == Read(AckRead, bytes)
<1>1. AckBitmapBits \in Nat /\ AckBitmapBits % ByteBits = 0
  BY BitmapIsWhole
<1>2. n \in Nat
  BY <1>1, WholeBytes
<1>3. ack.bitmap_bits = AckBitmapBits /\ Len(bytes) = 16 + n
  BY DEF AckIsValid
<1>4. payload = [f \in DOMAIN ack \union {"bitmap"} |->
                    IF f = "bitmap" THEN UnpackBitmap(ack.bitmap_bits, rest) ELSE ack[f]]
  BY TypesAre DEF ReadPayload
<1>5. /\ DOMAIN ack = DOMAIN AckWritten
      /\ "bitmap_bits" \in DOMAIN AckWritten /\ "bitmap" \notin DOMAIN AckWritten
  BY AckIsLaid DEF Read, AckWritten
<1> HIDE DEF payload, ack, rest, n
<1>6. /\ payload.bitmap = UnpackBitmap(AckBitmapBits, rest)
      /\ payload.bitmap_bits = AckBitmapBits
      /\ \A f \in DOMAIN AckWritten : payload[f] = ack[f]
  BY <1>3, <1>4, <1>5
<1>7. WritePayload(PacketType.ACK, payload) = again
  <2>1. WritePayload(PacketType.ACK, payload)
          = Write(AckWritten, 16, payload) \o PackBitmap(payload.bitmap_bits, payload.bitmap)
    BY TypesAre DEF WritePayload
  <2>2. QED
    BY <1>6, <2>1
<1>8. /\ rest \in Seq(Byte) /\ Len(rest) = n
      /\ \A i \in 1 .. n : rest[i] = bytes[16 + i]
  BY <1>2, <1>3 DEF rest
<1>9. packed = rest
  BY <1>1, <1>6, <1>8, BitmapUnpacked DEF n
<1>10. /\ fixed \in Seq(Byte) /\ Len(fixed) = 16
       /\ \A i \in 1 .. 16 : i - 1 \notin {14, 15} => fixed[i] = bytes[i]
  <2>1. \A i \in 1 .. 16 : bytes[i] \in Byte
    BY <1>2, <1>3
  <2>2. AreRead(payload, AckWritten, bytes)
    BY <1>6, AckIsLaid DEF ack, AreRead
  <2> DEFINE padding == {14, 15}
             size == 16
  <2>3. /\ WellLaid(AckWritten, size) /\ Fully(AckWritten, size, padding) /\ size \in Nat
        /\ AreBytes(bytes, size) /\ fixed = Write(AckWritten, size, payload)
    BY <2>1, AckIsLaid DEF AreBytes
  <2> HIDE DEF fixed, padding, size
  <2>4. /\ fixed \in Seq(Byte) /\ Len(fixed) = size
        /\ \A i \in 1 .. size : i - 1 \notin padding => fixed[i] = bytes[i]
    BY <2>2, <2>3, RecordAgain
  <2>5. QED
    BY <2>4 DEF padding, size
<1> HIDE DEF fixed, packed
<1>11. /\ again \in Seq(Byte) /\ Len(again) = 16 + n
       /\ \A i \in 1 .. 16 : again[i] = fixed[i]
       /\ \A i \in 1 .. n : again[16 + i] = rest[i]
  <2>1. packed \in Seq(Byte) /\ Len(packed) = n
    BY <1>8, <1>9
  <2>2. /\ again \in Seq(Byte) /\ Len(again) = Len(fixed) + Len(packed)
        /\ \A i \in 1 .. Len(fixed) : again[i] = fixed[i]
        /\ \A i \in 1 .. Len(packed) : again[Len(fixed) + i] = packed[i]
    <3>1. fixed \in Seq(Byte) /\ packed \in Seq(Byte)
      BY <1>10, <2>1
    <3>2. again \in Seq(Byte) /\ Len(again) = Len(fixed) + Len(packed)
      BY <3>1, TwoBlocks
    <3>3. \A i \in 1 .. Len(fixed) : again[i] = fixed[i]
      BY <3>1, TwoBlocks
    <3>4. \A i \in 1 .. Len(packed) : again[Len(fixed) + i] = packed[i]
      BY <3>1, TwoBlocks
    <3>5. QED
      BY <3>2, <3>3, <3>4
  <2> HIDE DEF again
  <2>3. QED
    BY <1>9, <1>10, <2>1, <2>2
<1> HIDE DEF again
<1>12. ASSUME NEW i \in 1 .. Len(bytes), i - 1 \notin {14, 15}
       PROVE  again[i] = bytes[i]
  <2>1. CASE i \in 1 .. 16
    BY <1>10, <1>11, <1>12, <2>1
  <2>2. CASE i > 16
    <3>1. PICK j \in 1 .. n : i = 16 + j
      BY <1>2, <1>3, <2>2, i - 16 \in 1 .. n, i = 16 + (i - 16)
    <3>2. again[16 + j] = rest[j] /\ rest[j] = bytes[16 + j]
      BY <1>8, <1>11
    <3>3. QED
      BY <3>1, <3>2
  <2>3. QED
    BY <1>2, <1>3, <2>1, <2>2
<1>13. QED
  BY <1>3, <1>7, <1>11, <1>12 DEF payload

\* Of every type, the bytes of a payload that is accepted are those of what was
\* read from it, padding aside.
LEMMA PayloadAgain ==
    ASSUME NEW h, h.type \in PacketType.START .. PacketType.COMPLETE_ACK,
           NEW bytes \in Seq(Byte), PayloadIsValid(h, bytes)
    PROVE  LET again == WritePayload(h.type, ReadPayload(h.type, bytes))
           IN /\ again \in Seq(Byte) /\ Len(again) = Len(bytes)
              /\ \A i \in 1 .. Len(bytes) : i - 1 \notin Padding(h.type) => again[i] = bytes[i]
<1> DEFINE payload == ReadPayload(h.type, bytes)
           again == WritePayload(h.type, payload)
<1>1. h.type \in {1, 2, 3, 4, 5, 6}
  BY TypesAre
<1>2. ASSUME NEW layout, NEW size \in Nat, NEW padding, WellLaid(layout, size),
             Fully(layout, size, padding), Len(bytes) = size,
             payload = Read(layout, bytes), again = Write(layout, size, payload),
             padding = Padding(h.type)
      PROVE  /\ again \in Seq(Byte) /\ Len(again) = Len(bytes)
             /\ \A i \in 1 .. Len(bytes) : i - 1 \notin Padding(h.type) => again[i] = bytes[i]
  <2> HIDE DEF payload, again
  <2>1. AreBytes(bytes, size)
    BY <1>2 DEF AreBytes
  <2>2. AreRead(payload, layout, bytes)
    BY <1>2 DEF AreRead
  <2>3. again \in Seq(Byte) /\ Len(again) = size
    BY <1>2, <2>1, <2>2, RecordAgain
  <2>4. \A i \in 1 .. size : i - 1 \notin padding => again[i] = bytes[i]
    BY <1>2, <2>1, <2>2, RecordAgain
  <2>5. QED
    BY <1>2, <2>3, <2>4
<1>3. CASE h.type = 1
  <2>1. Len(bytes) = 24 /\ payload = Read(StartWritten, bytes)
    BY <1>3, TypesAre, StartIsLaid DEF PayloadIsValid, ReadPayload
  <2>2. again = Write(StartWritten, 24, payload) /\ {} = Padding(h.type)
    BY <1>3, TypesAre DEF WritePayload, Padding
  <2> HIDE DEF payload, again
  <2>3. QED
    BY <1>2, <2>1, <2>2, StartIsLaid DEF payload, again
<1>4. CASE h.type = 2
  <2>1. Len(bytes) = 12 /\ payload = Read(StartAckWritten, bytes)
    BY <1>4, TypesAre, StartAckIsLaid DEF PayloadIsValid, ReadPayload
  <2>2. again = Write(StartAckWritten, 12, payload) /\ {2, 3} = Padding(h.type)
    BY <1>4, TypesAre DEF WritePayload, Padding
  <2> HIDE DEF payload, again
  <2>3. QED
    BY <1>2, <2>1, <2>2, StartAckIsLaid DEF payload, again
<1>5. CASE h.type = 6
  <2>1. Len(bytes) = 24 /\ payload = Read(CompleteAckWritten, bytes)
    BY <1>5, TypesAre, CompleteAckIsLaid DEF PayloadIsValid, ReadPayload
  <2>2. again = Write(CompleteAckWritten, 24, payload) /\ {2, 3} = Padding(h.type)
    BY <1>5, TypesAre DEF WritePayload, Padding
  <2> HIDE DEF payload, again
  <2>3. QED
    BY <1>2, <2>1, <2>2, CompleteAckIsLaid DEF payload, again
<1>6. CASE h.type \in {3, 5}
  <2>1. payload = [bytes |-> bytes]
    BY <1>6, TypesAre DEF ReadPayload
  <2>2. again = payload.bytes
    BY <1>6, TypesAre DEF WritePayload
  <2> HIDE DEF payload, again
  <2>3. again = bytes
    BY <2>1, <2>2
  <2>4. QED
    BY <2>3 DEF payload, again
<1>7. CASE h.type = 4
  <2>1. AckIsValid(h.flags, bytes) /\ h.type = PacketType.ACK /\ Padding(h.type) = {14, 15}
    BY <1>7, TypesAre DEF PayloadIsValid, Padding
  <2>2. QED
    BY <2>1, AckAgain
<1>8. QED
  BY <1>1, <1>3, <1>4, <1>5, <1>6, <1>7
\* What deserialize_packet_view() accepts is a header and as many bytes as it says.
LEMMA HeaderAccepted ==
    ASSUME NEW d \in Seq(Byte), HeaderIsValid(d)
    PROVE  LET h == Read(HeaderRead, d)
               bytes == PayloadIn(d)
           IN /\ h.type \in PacketType.START .. PacketType.ERROR
              /\ h.header_length = HeaderSize
              /\ bytes \in Seq(Byte) /\ Len(bytes) = h.payload_length
              /\ Len(d) = HeaderSize + Len(bytes)
              /\ \A i \in 1 .. Len(bytes) : bytes[i] = d[HeaderSize + i]
              /\ \A i \in 1 .. HeaderSize : d[i] \in Byte
<1> DEFINE h == Read(HeaderRead, d)
           bytes == PayloadIn(d)
           n == h.payload_length
<1>1. /\ Len(d) >= HeaderSize /\ h.type \in PacketType.START .. PacketType.ERROR
      /\ h.header_length = HeaderSize /\ Len(d) = HeaderSize + n
  BY DEF HeaderIsValid, LengthMatches
<1>2. HeaderSize = 24
  BY DEF HeaderSize
<1>3. \A i \in 1 .. 24 : d[i] \in Byte
  BY <1>1, <1>2
<1>4. n \in Nat
  <2>1. WellLaid(HeaderWritten, 24) /\ HeaderRead = HeaderWritten
    BY HeaderIsLaid
  <2>2. \A f \in DOMAIN HeaderWritten : h[f] \in Nat
    BY <1>3, <2>1, WrittenRead
  <2>3. "payload_length" \in DOMAIN HeaderWritten
    BY DEF HeaderWritten
  <2>4. QED
    BY <2>2, <2>3
<1>5. bytes = SubSeq(d, HeaderSize + 1, HeaderSize + n)
  BY DEF PayloadIn
<1> HIDE DEF h, n, bytes
<1>6. /\ bytes \in Seq(Byte) /\ Len(bytes) = n
      /\ \A i \in 1 .. n : bytes[i] = d[HeaderSize + i]
  BY <1>1, <1>2, <1>4, <1>5
<1>7. QED
  BY <1>1, <1>2, <1>3, <1>6 DEF h, n, bytes

\* The header's bytes are those of the fields read from it.
LEMMA HeaderAgain ==
    ASSUME NEW d \in Seq(Byte), HeaderIsValid(d),
           NEW fields, AreRead(fields, HeaderWritten, d)
    PROVE  LET head == Write(HeaderWritten, HeaderSize, fields)
           IN /\ head \in Seq(Byte) /\ Len(head) = 24
              /\ \A i \in 1 .. 24 : head[i] = d[i]
<1> DEFINE size == 24
           padding == {}
           head == Write(HeaderWritten, HeaderSize, fields)
<1>1. HeaderSize = 24
  BY DEF HeaderSize
<1>2. /\ WellLaid(HeaderWritten, size) /\ Fully(HeaderWritten, size, padding)
      /\ size \in Nat /\ AreBytes(d, size) /\ head = Write(HeaderWritten, size, fields)
  BY <1>1, HeaderAccepted, HeaderIsLaid DEF AreBytes
<1>3. \A i : i \notin padding
  OBVIOUS
<1> HIDE DEF size, padding, head
<1>4. /\ head \in Seq(Byte) /\ Len(head) = size
      /\ \A i \in 1 .. size : i - 1 \notin padding => head[i] = d[i]
  BY <1>2, RecordAgain
<1>5. QED
  BY <1>3, <1>4 DEF size, head

\* The three ways a datagram is taken, and what is known of it then.
LEMMA TakenAs ==
    ASSUME NEW r \in Receivers, NEW d \in Seq(Byte)
    PROVE  LET h == Read(HeaderRead, d)
               bytes == PayloadIn(d)
           IN /\ Decode(r, d).type = "packet" =>
                   /\ HeaderIsValid(d) /\ PayloadIsValid(h, bytes)
                   /\ h.type \in PacketType.START .. PacketType.COMPLETE_ACK
                   /\ Decode(r, d) = [type |-> "packet", header |-> h,
                                      payload |-> ReadPayload(h.type, bytes)]
              /\ Decode(r, d).type = "header" =>
                   HeaderIsValid(d) /\ Decode(r, d) = [type |-> "header", header |-> h]
<1> DEFINE h == Read(HeaderRead, d)
           bytes == PayloadIn(d)
<1>1. Refused.type = "refused" /\ OnInvalid(r).type \in {"refused", "failed"}
  BY DEF Refused, OnInvalid, Failed
<1>2. CASE ~HeaderIsValid(d)
  BY <1>1, <1>2 DEF Decode
<1>3. CASE HeaderIsValid(d) /\ ~Takes(r, h)
  BY <1>1, <1>3 DEF Decode
<1>4. CASE HeaderIsValid(d) /\ Takes(r, h) /\ Unread(r, h)
  BY <1>4 DEF Decode
<1>5. CASE HeaderIsValid(d) /\ Takes(r, h) /\ ~Unread(r, h)
  <2>1. h.type \in PacketType.START .. PacketType.COMPLETE_ACK
    <3> HIDE DEF h
    <3>1. \/ IdleTakes(h) \/ ActiveTakes(h) \/ IsComplete(h)
          \/ ClientTakes(PacketType.START_ACK, h) \/ ClientTakes(PacketType.ACK, h)
          \/ ClientTakes(PacketType.COMPLETE_ACK, h)
      BY <1>5 DEF Receivers, Takes
    <3>2. h.type \in {1, 2, 3, 4, 5, 6}
      BY <3>1, TypesAre DEF IdleTakes, ActiveTakes, ClientTakes, IsComplete
    <3>3. QED
      BY <3>2, TypesAre
  <2>2. Decode(r, d) = IF PayloadIsValid(h, bytes)
                       THEN [type |-> "packet", header |-> h,
                             payload |-> ReadPayload(h.type, bytes)]
                       ELSE OnInvalid(r)
    BY <1>5 DEF Decode, PayloadIn
  <2> HIDE DEF h, bytes
  <2>3. CASE PayloadIsValid(h, bytes)
    BY <1>5, <2>1, <2>2, <2>3 DEF h, bytes
  <2>4. CASE ~PayloadIsValid(h, bytes)
    BY <1>1, <2>2, <2>4
  <2>5. QED
    BY <2>3, <2>4
<1>6. QED
  BY <1>2, <1>3, <1>4, <1>5

\* What the receiver accepts is what a sender of the values it reads would send.
LEMMA AcceptedIsWritten ==
    ASSUME NEW r \in Receivers, NEW d \in Seq(Byte), Decode(r, d).type = "packet"
    PROVE  LET again == Datagram(Decode(r, d).header, Decode(r, d).payload)
           IN /\ Len(again) = Len(d)
              /\ \A i \in 1 .. Len(d) :
                    i - 1 - HeaderSize \notin Padding(Decode(r, d).header.type)
                       => again[i] = d[i]
<1> DEFINE h == Read(HeaderRead, d)
           bytes == PayloadIn(d)
           payload == ReadPayload(h.type, bytes)
           rest == WritePayload(h.type, payload)
           full == Full(h, Len(rest))
           head == Write(HeaderWritten, HeaderSize, full)
           again == head \o rest
<1>1. /\ HeaderIsValid(d) /\ PayloadIsValid(h, bytes)
      /\ Decode(r, d) = [type |-> "packet", header |-> h, payload |-> payload]
      /\ h.type \in PacketType.START .. PacketType.COMPLETE_ACK
  BY TakenAs
<1>2. Datagram(h, payload) = again
  BY DEF Datagram
<1>3. /\ h.header_length = HeaderSize
      /\ bytes \in Seq(Byte) /\ Len(bytes) = h.payload_length
      /\ Len(d) = HeaderSize + Len(bytes)
      /\ \A i \in 1 .. Len(bytes) : bytes[i] = d[HeaderSize + i]
      /\ \A i \in 1 .. HeaderSize : d[i] \in Byte
  BY <1>1, HeaderAccepted
<1>4. /\ rest \in Seq(Byte) /\ Len(rest) = Len(bytes)
      /\ \A i \in 1 .. Len(bytes) : i - 1 \notin Padding(h.type) => rest[i] = bytes[i]
  <2> HIDE DEF h, bytes
  <2>1. QED
    BY <1>1, <1>3, PayloadAgain
<1>5. HeaderSize = 24 /\ Len(bytes) \in Nat
  BY <1>3 DEF HeaderSize
<1> HIDE DEF bytes, payload, rest
<1>6. \A f \in DOMAIN HeaderWritten : full[f] = Read(HeaderWritten, d)[f]
  BY <1>3, <1>4, HeaderIsLaid DEF Full
<1> HIDE DEF full, h
<1>7. /\ head \in Seq(Byte) /\ Len(head) = 24
      /\ \A i \in 1 .. 24 : head[i] = d[i]
  BY <1>1, <1>6, HeaderAgain DEF AreRead
<1> HIDE DEF head
<1>8. /\ Len(again) = 24 + Len(bytes)
      /\ \A i \in 1 .. 24 : again[i] = d[i]
      /\ \A i \in 1 .. Len(bytes) : again[24 + i] = rest[i]
  <2>1. head \in Seq(Byte) /\ rest \in Seq(Byte)
    BY <1>4, <1>7
  <2>2. Len(again) = Len(head) + Len(rest)
    BY <2>1, TwoBlocks
  <2>3. \A i \in 1 .. Len(head) : again[i] = head[i]
    BY <2>1, TwoBlocks
  <2>4. \A i \in 1 .. Len(rest) : again[Len(head) + i] = rest[i]
    BY <2>1, TwoBlocks
  <2> HIDE DEF again
  <2>5. QED
    BY <1>4, <1>7, <2>2, <2>3, <2>4
<1> HIDE DEF again
<1>9. ASSUME NEW i \in 1 .. Len(d), i - 1 - HeaderSize \notin Padding(h.type)
      PROVE  again[i] = d[i]
  <2>1. CASE i \in 1 .. 24
    BY <1>8, <2>1
  <2>2. CASE i > 24
    <3>1. PICK j \in 1 .. Len(bytes) : i = 24 + j
      BY <1>3, <1>5, <2>2, i - 24 \in 1 .. Len(bytes), i = 24 + (i - 24)
    <3>2. j - 1 \notin Padding(h.type)
      BY <1>5, <1>9, <3>1, i - 1 - 24 = j - 1
    <3>3. again[24 + j] = rest[j] /\ rest[j] = bytes[j] /\ bytes[j] = d[24 + j]
      BY <1>3, <1>4, <1>5, <1>8, <3>2
    <3>4. QED
      BY <3>1, <3>3
  <2>3. QED
    BY <1>3, <1>5, <2>1, <2>2
<1>10. QED
  <2>1. /\ Decode(r, d).header = h
        /\ Datagram(Decode(r, d).header, Decode(r, d).payload) = again
    BY <1>1, <1>2
  <2>2. Len(again) = Len(d)
    BY <1>3, <1>5, <1>8
  <2>3. QED
    BY <1>9, <2>1, <2>2

-----------------------------------------------------------------------------
(* The theorems. *)

\* What is in the air is what was sent until it is damaged, and what was decoded
\* is what is in the air.
CodecInv ==
    /\ receiver \in Receivers
    /\ datagram \in Seq(Byte)
    /\ damaged \in BOOLEAN
    /\ sent # Pending => sent \in Packets
    /\ sent # Pending /\ ~damaged => datagram = Datagram(sent.header, sent.payload)
    /\ sent = Pending => decoded = Pending /\ ~damaged
    /\ decoded # Pending => decoded = Decode(receiver, datagram)

LEMMA InitGivesCodec == Init => CodecInv
<1>1. <<>> \in Seq(Byte)
  OBVIOUS
<1>2. QED
  BY <1>1 DEF Init, CodecInv

\* A byte that is changed is still a byte.
LEMMA DamagedIsBytes ==
    ASSUME CodecInv, Damage
    PROVE  datagram' \in Seq(Byte)
<1>1. datagram \in Seq(Byte)
  BY DEF CodecInv
<1>2. ByteValues \in Nat \ {0} /\ 0 \in Byte
  BY ByteValuesAre DEF Byte
<1>3. ASSUME NEW n \in 0 .. Len(datagram) - 1, datagram' = SubSeq(datagram, 1, n)
      PROVE  datagram' \in Seq(Byte)
  BY <1>1, <1>3
<1>4. CASE datagram' = Append(datagram, 0)
  BY <1>1, <1>2, <1>4
<1>5. ASSUME NEW i \in 1 .. Len(datagram), NEW step \in {1, TwoTo(ByteBits - 1)},
             datagram' = [datagram EXCEPT ![i] = (@ + step) % ByteValues]
      PROVE  datagram' \in Seq(Byte)
  <2> DEFINE v == datagram[i] + step
  <2>1. datagram[i] \in Byte
    BY <1>1
  <2>2. step \in {1, 2, 4, 8, 16, 32, 64, 128}
    <3>1. ByteBits - 1 \in {2, 3, 4, 5, 6, 7}
      BY ByteBitsAre
    <3>2. QED
      BY <3>1, PowersAre
  <2>3. v \in Nat
    BY <1>2, <2>1, <2>2 DEF Byte
  <2> HIDE DEF v
  <2>4. v % ByteValues \in Byte
    BY <1>2, <2>3, Divide DEF Byte
  <2>5. QED
    BY <1>1, <1>5, <2>4 DEF v
<1>6. QED
  BY <1>3, <1>4, <1>5 DEF Damage

LEMMA StepKeepsCodec == CodecInv /\ [Next]_vars => CodecInv'
<1> SUFFICES ASSUME CodecInv, [Next]_vars PROVE CodecInv'
  OBVIOUS
<1>1. CASE Serialize
  <2>1. PICK packet \in Packets : /\ sent' = packet
                                  /\ datagram' = Datagram(packet.header, packet.payload)
    BY <1>1 DEF Serialize
  <2>2. datagram' \in Seq(Byte)
    BY <2>1, PacketsAssumption, PacketSurvives
  <2>3. /\ decoded = Pending /\ ~damaged /\ receiver \in Receivers
        /\ decoded' = decoded /\ damaged' = damaged /\ receiver' = receiver
    BY <1>1 DEF Serialize, CodecInv
  <2>4. QED
    BY <2>1, <2>2, <2>3 DEF CodecInv
<1>2. CASE Damage
  BY <1>2, DamagedIsBytes DEF Damage, CodecInv
<1>3. CASE Deserialize
  BY <1>3 DEF Deserialize, CodecInv
<1>4. CASE UNCHANGED vars
  BY <1>4 DEF vars, CodecInv
<1>5. QED
  BY <1>1, <1>2, <1>3, <1>4 DEF Next

LEMMA CodecInvariant == Spec => []CodecInv
BY InitGivesCodec, StepKeepsCodec, PTL DEF Spec

\* Of a datagram that arrives as it was sent, header and payload are read as
\* they were sent, whatever packet of the protocol it is, at each loop that waits
\* for it; every other loop ignores it.  The offsets, widths and byte orders of
\* protocol.cpp's writers and readers agree, its bitmaps are packed and unpacked
\* alike, and no check of bytes refuses what a sender produces or makes the
\* client throw (server.cpp:250-255 and 313-399, client.cpp:326-347).
THEOREM PacketsSurvive == Spec => []RoundTrip
<1>1. CodecInv => RoundTrip
  <2> SUFFICES ASSUME CodecInv, decoded # Pending, ~damaged PROVE RoundTrip
    BY DEF RoundTrip
  <2> DEFINE h == Full(sent.header, Len(WritePayload(sent.header.type, sent.payload)))
             d == Datagram(sent.header, sent.payload)
  <2>1. sent \in Packets /\ datagram = d /\ decoded = Decode(receiver, d)
    BY DEF CodecInv
  <2>2. HeaderFits(sent.header) /\ PayloadFits(sent.header.type, sent.payload)
    BY <2>1, PacketsAssumption
  <2>3. /\ ~Takes(receiver, h) => Decode(receiver, d) = Refused
        /\ Takes(receiver, h) /\ Unread(receiver, h)
             => Decode(receiver, d) = [type |-> "header", header |-> h]
        /\ Takes(receiver, h) /\ ~Unread(receiver, h)
             => Decode(receiver, d)
                  = [type |-> "packet", header |-> h, payload |-> sent.payload]
    BY <2>2, PacketSurvives
  <2> HIDE DEF h, d
  <2>4. Takes(receiver, h) =>
           /\ decoded.type \in {"header", "packet"} /\ decoded.header = h
           /\ decoded.type = "header" <=> Unread(receiver, h)
           /\ decoded.type = "packet" => decoded.payload = sent.payload
    BY <2>1, <2>3
  <2>5. ~Takes(receiver, h) => decoded = Refused
    BY <2>1, <2>3
  <2>6. QED
    BY <2>4, <2>5 DEF RoundTrip, h
<1>2. QED
  BY <1>1, CodecInvariant, PTL

\* Whatever bytes arrive, those that were sent or others, at whatever loop: if the
\* receiver reads a packet from them they are the bytes a sender of the values it
\* reads would have sent, padding aside.  Nothing is cut off or appended, no byte
\* is ignored and none is read for two fields.  If it answers by the header alone,
\* as a server that has a session does a START, this holds of the header, and the
\* datagram has the length the header says (server.cpp:313-321).
THEOREM NothingIsMisread == Spec => []NothingMisread
<1>1. CodecInv => NothingMisread
  <2> SUFFICES ASSUME CodecInv PROVE NothingMisread
    OBVIOUS
  <2>1. decoded # Pending =>
           /\ decoded = Decode(receiver, datagram)
           /\ datagram \in Seq(Byte) /\ receiver \in Receivers
    BY DEF CodecInv
  <2>2. ASSUME decoded.type = "packet"
        PROVE  LET again == Datagram(decoded.header, decoded.payload)
               IN /\ Len(again) = Len(datagram)
                  /\ \A i \in 1 .. Len(datagram) :
                        i - 1 - HeaderSize \notin Padding(decoded.header.type)
                           => again[i] = datagram[i]
    <3>1. decoded # Pending
      BY <2>2 DEF Pending
    <3>2. QED
      BY <2>1, <2>2, <3>1, AcceptedIsWritten
  <2>3. ASSUME decoded.type = "header"
        PROVE  LET again == Write(HeaderWritten, HeaderSize, decoded.header)
               IN /\ Len(datagram) = HeaderSize + decoded.header.payload_length
                  /\ \A i \in 1 .. HeaderSize : again[i] = datagram[i]
    <3>1. decoded # Pending
      BY <2>3 DEF Pending
    <3>2. HeaderIsValid(datagram) /\ decoded.header = Read(HeaderRead, datagram)
      BY <2>1, <2>3, <3>1, TakenAs
    <3>3. AreRead(decoded.header, HeaderWritten, datagram)
      BY <3>2, HeaderIsLaid DEF AreRead
    <3>4. Len(datagram) = HeaderSize + decoded.header.payload_length
      BY <2>1, <3>1, <3>2, HeaderAccepted
    <3>5. QED
      BY <2>1, <3>1, <3>2, <3>3, <3>4, HeaderAgain DEF HeaderSize
  <2>4. QED
    BY <2>2, <2>3 DEF NothingMisread
<1>2. QED
  BY <1>1, CodecInvariant, PTL
=============================================================================
