---------------------------- MODULE LibraryProofs ----------------------------
(***************************************************************************)
(* Proofs about the libraries.                                             *)
(***************************************************************************)
EXTENDS Int96, SolutionObjects, Bits, RouteProofs, FiniteSetTheorems

(***************************************************************************)
(* The 96-bit integers.  A number stands for an integer when both agree    *)
(* modulo 2^96.                                                            *)
(***************************************************************************)
Modulus == Full * Half
Value(a) == a.high * Half + a.low
Halves(a) == a = [high |-> a.high, low |-> a.low] /\ a.high \in 0 .. Full - 1 /\ a.low \in 0 .. Half - 1
Stands(a, v) == Halves(a) /\ v \in Int /\ \E k \in Int : Value(a) = v + k * Modulus

Int96Inv ==
  /\ Stands(num, exact)
  /\ adds \in 0 .. MaxAdds
  /\ -((adds + 1) * (Full - 1)) <= exact /\ exact <= (adds + 1) * (Full - 1)

\* A half word has an even number of values.
LEMMA HalfFacts ==
  /\ Half \in Nat \ {0} /\ MaxAdds \in Nat
  /\ Half \div 2 \in Nat \ {0} /\ Half = 2 * (Half \div 2)
  /\ MaxAdds + 1 <= Half \div 2
  /\ Full \in Nat \ {0} /\ Modulus \in Nat \ {0}
<1>1. /\ Half \in Nat \ {0} /\ Half % 2 = 0
      /\ MaxAdds \in Nat /\ MaxAdds < Half \div 2
  BY Int96Assumption
<1>2. Half \div 2 \in Nat \ {0} /\ Half = 2 * (Half \div 2)
  BY <1>1, SMT
<1>3. MaxAdds + 1 <= Half \div 2
  BY <1>1, <1>2
<1>4. Half * Half \in Nat \ {0} /\ Half * Half * Half \in Nat \ {0}
  BY <1>1, SMT
<1> QED
  BY <1>1, <1>2, <1>3, <1>4 DEF Full, Modulus

\* Division with remainder.
LEMMA Division ==
  ASSUME NEW a \in Int, NEW b \in Nat \ {0}
  PROVE  a \div b \in Int /\ a % b \in 0 .. b - 1 /\ a = b * (a \div b) + (a % b)
BY SMT

\* A number whose halves are these modulo their ranges stands for what they weigh.
LEMMA HalvesStand ==
  ASSUME NEW h \in Int, NEW l \in 0 .. Half - 1, NEW v \in Int, NEW k \in Int,
         h * Half + l = v + k * Modulus
  PROVE  Stands([high |-> h % Full, low |-> l], v)
<1>1. Half \in Nat \ {0} /\ Full \in Nat \ {0}
  BY HalfFacts
<1>2. h \div Full \in Int /\ h % Full \in 0 .. Full - 1 /\ h = Full * (h \div Full) + (h % Full)
  BY <1>1, Division
<1> DEFINE a == [high |-> h % Full, low |-> l]
<1>3. Halves(a)
  BY <1>2 DEF Halves
<1>4. PICK q \in Int, r \in Int : q = h \div Full /\ r = h % Full
  BY <1>2
<1>5. h = Full * q + r
  BY <1>2, <1>4
<1>6. Value(a) = r * Half + l
  BY <1>4 DEF Value
<1>7. r * Half + l = v + k * Modulus - q * Modulus
  <2>1. h * Half = Full * q * Half + r * Half
    BY <1>1, <1>5, SMT
  <2>2. Full * q * Half = q * Modulus
    BY <1>1, SMT DEF Modulus
  <2>3. r * Half \in Int /\ h * Half \in Int /\ q * Modulus \in Int /\ k * Modulus \in Int
    BY <1>1, HalfFacts, SMT
  <2> QED
    BY <2>1, <2>2, <2>3, <1>1
<1>8. k * Modulus - q * Modulus = (k - q) * Modulus /\ k - q \in Int /\ v + k * Modulus - q * Modulus = v + (k - q) * Modulus
  BY HalfFacts, SMT
<1>9. \E n \in Int : Value(a) = v + n * Modulus
  BY <1>6, <1>7, <1>8
<1> QED
  BY <1>3, <1>9 DEF Stands

\* An unsigned 64-bit integer is represented as itself (int96_set_unsigned).
LEMMA SetUnsigned ==
  ASSUME NEW val \in Unsigned
  PROVE  Stands(int96_set_unsigned(val), val) /\ val \in Int /\ -(Full - 1) <= val /\ val <= Full - 1
<1>1. Half \in Nat \ {0} /\ Full \in Nat \ {0}
  BY HalfFacts
<1>2. val \in Int /\ 0 <= val /\ val < Full
  BY <1>1 DEF Unsigned
<1>3. val \div Half \in Int /\ val % Half \in 0 .. Half - 1 /\ val = Half * (val \div Half) + (val % Half)
  BY <1>1, <1>2, Division
<1>4. (val \div Half) * Half + (val % Half) = val + 0 * Modulus
  BY <1>1, <1>2, <1>3, HalfFacts, SMT
<1>5. Stands([high |-> (val \div Half) % Full, low |-> val % Half], val)
  BY <1>2, <1>3, <1>4, HalvesStand
<1>6. 0 <= val \div Half /\ val \div Half < Full
  BY <1>1, <1>2, SMT DEF Full
<1>7. (val \div Half) % Full = val \div Half
  <2>1. PICK q \in Int : q = val \div Half
    BY <1>3
  <2>2. q % Full = q
    BY <1>1, <1>6, <2>1, SMT
  <2> QED
    BY <2>1, <2>2
<1> QED
  BY <1>1, <1>2, <1>5, <1>7 DEF int96_set_unsigned

\* So is a signed one (int96_set_signed).
LEMMA SetSigned ==
  ASSUME NEW val \in Signed
  PROVE  Stands(int96_set_signed(val), val) /\ val \in Int /\ -(Full - 1) <= val /\ val <= Full - 1
<1>1. Half \in Nat \ {0} /\ Full \in Nat \ {0}
  BY HalfFacts
<1>2. val \in Int /\ -(Full \div 2) <= val /\ val < Full \div 2
  BY <1>1 DEF Signed
<1>3. val \div Half \in Int /\ val % Half \in 0 .. Half - 1 /\ val = Half * (val \div Half) + (val % Half)
  BY <1>1, <1>2, Division
<1>4. (val \div Half) * Half + (val % Half) = val + 0 * Modulus
  BY <1>1, <1>2, <1>3, HalfFacts, SMT
<1>5. Stands([high |-> (val \div Half) % Full, low |-> val % Half], val)
  BY <1>2, <1>3, <1>4, HalvesStand
<1>6. Full >= 2
  <2>1. PICK d \in Nat \ {0} : Half = 2 * d
    BY HalfFacts
  <2> QED
    BY <2>1, SMT DEF Full
<1>7. -(Full - 1) <= val /\ val <= Full - 1
  BY <1>1, <1>2, <1>6, SMT
<1> QED
  BY <1>2, <1>5, <1>7 DEF int96_set_signed

\* The inverted number stands for the inverse (int96_invert).
LEMMA Inverts ==
  ASSUME NEW a, NEW v, Stands(a, v)
  PROVE  Stands(int96_invert(a), -v) /\ v \in Int
<1>1. Half \in Nat \ {0} /\ Full \in Nat \ {0} /\ Modulus \in Nat \ {0}
  BY HalfFacts
<1>2. v \in Int /\ a.high \in 0 .. Full - 1 /\ a.low \in 0 .. Half - 1
  BY DEF Stands, Halves
<1>3. PICK k \in Int : Value(a) = v + k * Modulus
  BY DEF Stands
<1>4. PICK h \in Int, l \in Int : h = a.high /\ l = a.low /\ l \in 0 .. Half - 1
  BY <1>1, <1>2
<1> DEFINE low == Half - 1 - a.low + 1
<1>5. low = Half - l /\ low \in Int
  BY <1>1, <1>4
<1>6. low \div Half \in Int /\ low % Half \in 0 .. Half - 1 /\ low = Half * (low \div Half) + (low % Half)
  BY <1>1, <1>5, Division
<1>7. PICK c \in Int, r \in Int : c = low \div Half /\ r = low % Half
  BY <1>6
<1>8. r \in 0 .. Half - 1 /\ Half - l = Half * c + r
  BY <1>5, <1>6, <1>7
<1> DEFINE g == Full - 1 - h + c
<1>9. g \in Int
  BY <1>1
<1>10. h * Half + l = v + k * Modulus
  BY <1>3, <1>4 DEF Value
<1>11. g * Half + r = -v + (1 - k) * Modulus
  <2>1. g * Half = Full * Half - Half - h * Half + c * Half
    BY <1>1, SMT
  <2>2. g * Half + r = Full * Half - (h * Half + l)
    <3>1. c * Half = Half * c
      BY <1>1, SMT
    <3>2. c * Half + r = Half - l
      BY <1>8, <3>1
    <3>3. g * Half \in Int /\ h * Half \in Int /\ c * Half \in Int /\ Full * Half \in Int
      BY <1>1, SMT
    <3> QED
      BY <2>1, <3>2, <3>3, <1>1
  <2>3. (1 - k) * Modulus = Modulus - k * Modulus /\ k * Modulus \in Int
    BY <1>1, SMT
  <2> QED
    BY <2>2, <2>3, <1>10, <1>2, <1>1 DEF Modulus
<1>12. -v \in Int /\ 1 - k \in Int
  BY <1>2
<1> HIDE DEF g
<1>13. Stands([high |-> g % Full, low |-> r], -v)
  BY <1>8, <1>9, <1>11, <1>12, HalvesStand
<1>14. int96_invert(a) = [high |-> (Full - 1 - a.high + low \div Half) % Full, low |-> low % Half]
  BY DEF int96_invert
<1>15. int96_invert(a) = [high |-> g % Full, low |-> r]
  BY <1>4, <1>7, <1>14 DEF g
<1> QED
  BY <1>2, <1>13, <1>15

\* The sum of two numbers stands for the sum (int96_add).
LEMMA StandsAdd ==
  ASSUME NEW a, NEW v, NEW b, NEW w, Stands(a, v), Stands(b, w)
  PROVE  Stands(int96_add(a, b), v + w)
<1>1. Half \in Nat \ {0} /\ Full \in Nat \ {0} /\ Modulus \in Nat \ {0}
  BY HalfFacts
<1>2. /\ v \in Int /\ a.high \in 0 .. Full - 1 /\ a.low \in 0 .. Half - 1
      /\ w \in Int /\ b.high \in 0 .. Full - 1 /\ b.low \in 0 .. Half - 1
  BY DEF Stands, Halves
<1>3. PICK k \in Int : Value(a) = v + k * Modulus
  BY DEF Stands
<1>4. PICK n \in Int : Value(b) = w + n * Modulus
  BY DEF Stands
<1>5. PICK h \in Int, l \in Int : h = a.high /\ l = a.low
  BY <1>1, <1>2
<1>6. PICK g \in Int, m \in Int : g = b.high /\ m = b.low
  BY <1>1, <1>2
<1> DEFINE low == a.low + b.low
<1>7. low = l + m /\ low \in Int
  BY <1>5, <1>6
<1>8. low \div Half \in Int /\ low % Half \in 0 .. Half - 1 /\ low = Half * (low \div Half) + (low % Half)
  BY <1>1, <1>7, Division
<1>9. PICK c \in Int, r \in Int : c = low \div Half /\ r = low % Half
  BY <1>8
<1>10. r \in 0 .. Half - 1 /\ l + m = Half * c + r
  BY <1>7, <1>8, <1>9
<1> DEFINE s == h + c + g
<1>11. s \in Int
  OBVIOUS
<1>12. h * Half + l = v + k * Modulus /\ g * Half + m = w + n * Modulus
  BY <1>3, <1>4, <1>5, <1>6 DEF Value
<1>13. s * Half + r = (v + w) + (k + n) * Modulus
  <2>1. s * Half = h * Half + c * Half + g * Half /\ c * Half = Half * c
    BY <1>1, SMT
  <2>2. s * Half \in Int /\ h * Half \in Int /\ c * Half \in Int /\ g * Half \in Int
    BY <1>1, SMT
  <2>3. (k + n) * Modulus = k * Modulus + n * Modulus /\ k * Modulus \in Int /\ n * Modulus \in Int
    BY <1>1, SMT
  <2>4. s * Half + r = (h * Half + l) + (g * Half + m)
    BY <2>1, <2>2, <1>10
  <2> QED
    BY <2>3, <2>4, <1>12, <1>2
<1>14. v + w \in Int /\ k + n \in Int
  BY <1>2
<1> HIDE DEF s
<1>15. Stands([high |-> s % Full, low |-> r], v + w)
  BY <1>10, <1>11, <1>13, <1>14, HalvesStand
<1>16. int96_add(a, b) = [high |-> (a.high + low \div Half + b.high) % Full, low |-> low % Half]
  BY DEF int96_add
<1>17. int96_add(a, b) = [high |-> s % Full, low |-> r]
  BY <1>5, <1>6, <1>9, <1>16 DEF s
<1> QED
  BY <1>15, <1>17

\* A product with a larger factor is no smaller.
LEMMA Scales ==
  ASSUME NEW a \in Int, NEW b \in Int, NEW c \in Nat, a <= b
  PROVE  a * c \in Int /\ b * c \in Int /\ a * c <= b * c
BY SMT

\* While at most MaxAdds integers were added, the number tells their sum.
LEMMA StandsExactly ==
  ASSUME NEW a, NEW v, Stands(a, v),
         -((MaxAdds + 1) * (Full - 1)) <= v, v <= (MaxAdds + 1) * (Full - 1)
  PROVE  /\ v >= 0 => Value(a) = v
         /\ v < 0 => Value(a) = v + Modulus
         /\ 0 <= Value(a) /\ Value(a) < Modulus /\ Value(a) \in Int
         /\ v \in Int /\ -(Half \div 2) * Full < v /\ v < (Half \div 2) * Full
<1>1. PICK d \in Nat \ {0} : d = Half \div 2 /\ Half = 2 * d /\ MaxAdds + 1 <= d
  BY HalfFacts
<1>2. Half \in Nat \ {0} /\ Full \in Nat \ {0} /\ MaxAdds \in Nat
  BY HalfFacts
<1>3. v \in Int /\ a.high \in 0 .. Full - 1 /\ a.low \in 0 .. Half - 1
  BY DEF Stands, Halves
<1>4. PICK k \in Int : Value(a) = v + k * Modulus
  BY DEF Stands
<1>5. (MaxAdds + 1) * (Full - 1) <= d * (Full - 1)
  BY <1>1, <1>2, Scales
<1>6. d * (Full - 1) = d * Full - d /\ d * Full \in Int
  BY <1>1, <1>2, SMT
<1>7. -(d * Full) < v /\ v < d * Full
  <2>1. (MaxAdds + 1) * (Full - 1) \in Int
    BY <1>2, SMT
  <2> QED
    BY <1>1, <1>3, <1>5, <1>6, <2>1
<1>8. Modulus = 2 * (d * Full)
  BY <1>1, <1>2, SMT DEF Modulus
<1>9. 0 <= Value(a) /\ Value(a) < Modulus /\ Value(a) \in Int
  <2>1. PICK h \in Int, l \in Int : h = a.high /\ l = a.low
    BY <1>2, <1>3
  <2>2. 0 <= h /\ h <= Full - 1 /\ 0 <= l /\ l < Half
    BY <1>2, <1>3, <2>1
  <2>3. 0 <= h * Half /\ h * Half <= (Full - 1) * Half /\ h * Half \in Int
    BY <1>2, <2>1, <2>2, SMT
  <2>4. (Full - 1) * Half = Modulus - Half
    BY <1>2, SMT DEF Modulus
  <2>5. Modulus \in Int
    BY HalfFacts
  <2> QED
    BY <2>1, <2>2, <2>3, <2>4, <2>5, <1>2 DEF Value
<1>10. Modulus \in Nat \ {0}
  BY HalfFacts
<1>11. v >= 0 => k = 0
  <2>1. k >= 1 => k * Modulus >= Modulus
    BY <1>10, SMT
  <2>2. k <= -1 => k * Modulus <= -Modulus
    BY <1>10, SMT
  <2>3. k * Modulus \in Int
    BY <1>10, SMT
  <2> QED
    BY <1>3, <1>4, <1>6, <1>7, <1>8, <1>9, <1>10, <2>1, <2>2, <2>3
<1>12. v < 0 => k = 1
  <2>1. k >= 2 => k * Modulus >= 2 * Modulus
    BY <1>10, SMT
  <2>2. k <= 0 => k * Modulus <= 0
    BY <1>10, SMT
  <2>3. k * Modulus \in Int
    BY <1>10, SMT
  <2> QED
    BY <1>3, <1>4, <1>6, <1>7, <1>8, <1>9, <1>10, <2>1, <2>2, <2>3
<1>13. -(Half \div 2) * Full = -(d * Full) /\ (Half \div 2) * Full = d * Full
  BY <1>1, <1>2, SMT
<1> QED
  BY <1>3, <1>4, <1>7, <1>9, <1>10, <1>11, <1>12, <1>13

\* The tests of the upper half word find the range of a number (int96_is_uint64 and
\* int96_is_neg_int64), and the lower half words are the number (int96_get_low64bit).
LEMMA TestsExact ==
  ASSUME NEW a, Halves(a)
  PROVE  /\ int96_is_uint64(a) <=> Value(a) < Full
         /\ int96_is_neg_int64(a) <=> Value(a) >= Modulus - Full \div 2
         /\ int96_is_uint64(a) => int96_extract_uint64(a) = Value(a)
         /\ int96_is_neg_int64(a) => int96_extract_neg_int64(a) = Value(a) - Modulus
<1>1. PICK d \in Nat \ {0} : d = Half \div 2 /\ Half = 2 * d
  BY HalfFacts
<1>2. Half \in Nat \ {0} /\ Full \in Nat \ {0}
  BY HalfFacts
<1>3. PICK h \in 0 .. Full - 1, l \in 0 .. Half - 1 : h = a.high /\ l = a.low
  BY DEF Halves
<1>4. Value(a) = h * Half + l /\ Value(a) \in Int
  BY <1>2, <1>3, SMT DEF Value
<1>5. int96_is_uint64(a) <=> h < Half
  BY <1>2, <1>3, SMT DEF int96_is_uint64
<1>6. h < Half <=> h * Half + l < Full
  BY <1>2, <1>3, SMT DEF Full
<1>7. Full = (2 * d) * (2 * d) /\ Full \div 2 = 2 * (d * d) /\ Modulus = (2 * d) * (2 * d) * (2 * d)
  BY <1>1, SMT DEF Full, Modulus
<1>8. int96_is_neg_int64(a) <=> h >= d * (4 * d - 1)
  <2>1. int96_is_neg_int64(a) <=> h \div d = 4 * d - 1
    BY <1>1, <1>3, SMT DEF int96_is_neg_int64
  <2>2. h < d * (4 * d - 1) + d /\ h \in Int
    BY <1>1, <1>2, <1>3, <1>7, SMT
  <2>3. h \div d \in Int /\ h % d \in 0 .. d - 1 /\ h = d * (h \div d) + (h % d)
    <3>1. h \in Int /\ d \in Nat \ {0}
      BY <1>1, <1>2
    <3> QED
      BY <3>1, Division
  <2>4. h \div d = 4 * d - 1 => h >= d * (4 * d - 1)
    BY <1>1, <2>2, <2>3, SMT
  <2>5. ASSUME h >= d * (4 * d - 1) PROVE h \div d = 4 * d - 1
    <3>1. PICK r \in Int : r = h - d * (4 * d - 1) /\ 0 <= r /\ r < d
      BY <1>1, <2>2, <2>5, SMT
    <3>2. h = d * (4 * d - 1) + r
      BY <1>1, <2>2, <3>1, SMT
    <3> QED
      BY <1>1, <3>1, <3>2, SMT
  <2> QED
    BY <2>1, <2>4, <2>5
<1>9. h >= d * (4 * d - 1) <=> h * Half + l >= Modulus - Full \div 2
  <2>1. PICK e \in Int : e = d * (4 * d - 1)
    BY <1>1, SMT
  <2>2. Modulus - Full \div 2 = e * Half
    BY <1>1, <1>7, <2>1, SMT
  <2> QED
    BY <1>2, <1>3, <2>1, <2>2, SMT
<1>10. h < Half => int96_get_low64bit(a) = h * Half + l
  <2>1. (l + h * Half) \in Int
    BY <1>2, <1>3, SMT
  <2>2. h < Half => 0 <= l + h * Half /\ l + h * Half < Full
    BY <1>2, <1>3, SMT DEF Full
  <2>3. h < Half => (l + h * Half) % Full = l + h * Half
    BY <1>2, <2>1, <2>2, SMT
  <2>4. h * Half \in Int
    BY <1>2, <1>3, SMT
  <2> QED
    BY <1>3, <2>3, <2>4 DEF int96_get_low64bit
<1>11. ASSUME h >= d * (4 * d - 1)
       PROVE  int96_get_low64bit(a) - Full = (h * Half + l) - Modulus
  <2>1. PICK x \in Int : x = h * Half + l - Modulus + Full
    <3>1. h * Half \in Int /\ Modulus \in Int
      BY <1>2, <1>3, HalfFacts, SMT
    <3> QED
      BY <3>1, <1>2, <1>3
  <2>2. h * Half \in Int /\ Modulus \in Int /\ h * Half <= Modulus - Half
    <3>1. h <= Full - 1 /\ h \in Int
      BY <1>2, <1>3
    <3>2. h * Half <= (Full - 1) * Half /\ (Full - 1) * Half = Modulus - Half /\ h * Half \in Int
      BY <1>2, <3>1, SMT DEF Modulus
    <3> QED
      BY <3>2, HalfFacts
  <2>3. x < Full
    BY <1>2, <1>3, <2>1, <2>2
  <2>4. x >= 0
    <3>1. h * Half + l >= Modulus - Full \div 2
      BY <1>9, <1>11
    <3>2. Full \div 2 \in Int /\ Full \div 2 <= Full
      BY <1>2, SMT
    <3> QED
      BY <1>2, <1>3, <2>1, <2>2, <3>1, <3>2
  <2>5. l + h * Half = Full * (Half - 1) + x
    <3>1. Full * (Half - 1) = Modulus - Full
      BY <1>2, SMT DEF Modulus
    <3>2. PICK p \in Int, y \in Int : p = h * Half /\ y = Full * (Half - 1)
      BY <2>2, <3>1, <1>2
    <3>3. y = Modulus - Full /\ x = p + l - Modulus + Full
      BY <2>1, <3>1, <3>2
    <3>4. l + p = y + x
      <4>1. PICK m \in Int, f \in Int : m = Modulus /\ f = Full
        BY <1>2, <2>2
      <4>2. y = m - f /\ x = p + l - m + f
        BY <3>3, <4>1
      <4>3. l \in Int
        BY <1>2, <1>3
      <4> QED
        BY <4>2, <4>3
    <3> QED
      BY <3>2, <3>4
  <2>6. (Full * (Half - 1) + x) % Full = x
    BY <1>2, <2>3, <2>4, SMT
  <2>7. int96_get_low64bit(a) = (l + h * Half) % Full
    BY <1>3 DEF int96_get_low64bit
  <2>8. int96_get_low64bit(a) = x
    BY <2>5, <2>6, <2>7
  <2> QED
    BY <1>2, <1>3, <2>1, <2>2, <2>8
<1>12. int96_is_uint64(a) <=> Value(a) < Full
  BY <1>4, <1>5, <1>6
<1>13. int96_is_neg_int64(a) <=> Value(a) >= Modulus - Full \div 2
  BY <1>4, <1>8, <1>9
<1>14. int96_is_uint64(a) => int96_extract_uint64(a) = Value(a)
  BY <1>4, <1>5, <1>10 DEF int96_extract_uint64
<1>15. int96_is_neg_int64(a) => int96_extract_neg_int64(a) = Value(a) - Modulus
  <2>1. SUFFICES ASSUME int96_is_neg_int64(a)
                 PROVE  int96_extract_neg_int64(a) = Value(a) - Modulus
    OBVIOUS
  <2>2. int96_get_low64bit(a) - Full = (h * Half + l) - Modulus
    BY <1>8, <1>11, <2>1
  <2>3. int96_extract_neg_int64(a) = int96_get_low64bit(a) - Full
    BY DEF int96_extract_neg_int64
  <2> QED
    BY <1>4, <2>2, <2>3, Zenon
<1> QED
  BY <1>12, <1>13, <1>14, <1>15

\* The number is exact whenever the invariant holds.
LEMMA SumsExactInv == Int96Inv => SumsExact96
<1> SUFFICES ASSUME Int96Inv PROVE SumsExact96
  OBVIOUS
<1>1. Stands(num, exact) /\ Halves(num) /\ exact \in Int
  BY DEF Int96Inv, Stands
<1>2. Full \in Nat \ {0} /\ MaxAdds \in Nat /\ Modulus \in Nat \ {0}
  BY HalfFacts
<1>3. -((MaxAdds + 1) * (Full - 1)) <= exact /\ exact <= (MaxAdds + 1) * (Full - 1)
  <2>1. /\ adds \in 0 .. MaxAdds
        /\ -((adds + 1) * (Full - 1)) <= exact /\ exact <= (adds + 1) * (Full - 1)
    BY DEF Int96Inv
  <2>2. adds + 1 \in Int /\ MaxAdds + 1 \in Int /\ Full - 1 \in Nat /\ adds + 1 <= MaxAdds + 1
    BY <1>2, <2>1
  <2>3. /\ (adds + 1) * (Full - 1) \in Int /\ (MaxAdds + 1) * (Full - 1) \in Int
        /\ (adds + 1) * (Full - 1) <= (MaxAdds + 1) * (Full - 1)
    BY <2>2, Scales
  <2> QED
    BY <1>1, <2>1, <2>3
<1>4. /\ exact >= 0 => Value(num) = exact
      /\ exact < 0 => Value(num) = exact + Modulus
      /\ 0 <= Value(num) /\ Value(num) < Modulus /\ Value(num) \in Int
      /\ exact \in Int /\ -(Half \div 2) * Full < exact /\ exact < (Half \div 2) * Full
  BY <1>1, <1>3, StandsExactly
<1>5. /\ int96_is_uint64(num) <=> Value(num) < Full
      /\ int96_is_neg_int64(num) <=> Value(num) >= Modulus - Full \div 2
      /\ int96_is_uint64(num) => int96_extract_uint64(num) = Value(num)
      /\ int96_is_neg_int64(num) => int96_extract_neg_int64(num) = Value(num) - Modulus
  BY <1>1, TestsExact
<1>6. PICK d \in Nat \ {0} : d = Half \div 2 /\ Half = 2 * d
  BY HalfFacts
<1>7. PICK f \in Nat : f = Full \div 2 /\ Full = 2 * f
  BY <1>6, SMT DEF Full
<1>8. Modulus = 2 * (d * Full) /\ d * Full \in Int /\ d * Full >= Full
  BY <1>2, <1>6, SMT DEF Modulus
<1>9. -(d * Full) < exact /\ exact < d * Full
  <2>1. -(Half \div 2) * Full = -(d * Full) /\ (Half \div 2) * Full = d * Full
    BY <1>2, <1>6, SMT
  <2> QED
    BY <2>1, <1>4
<1>10. Value(num) < Full <=> exact \in 0 .. Full - 1
  BY <1>1, <1>2, <1>4, <1>8, <1>9
<1>11. Value(num) >= Modulus - f <=> exact \in -f .. f - 1 /\ exact < 0
  BY <1>1, <1>2, <1>4, <1>7, <1>8, <1>9
<1>12. int96_is_uint64(num) <=> exact \in Unsigned
  BY <1>5, <1>10 DEF Unsigned
<1>13. int96_is_neg_int64(num) <=> (exact \in Signed /\ exact < 0)
  BY <1>5, <1>7, <1>11 DEF Signed
<1>14. int96_is_uint64(num) => int96_extract_uint64(num) = exact
  BY <1>2, <1>4, <1>5, <1>10
<1>15. int96_is_neg_int64(num) => int96_extract_neg_int64(num) = exact
  BY <1>1, <1>2, <1>4, <1>5, <1>7, <1>11
<1> QED
  BY <1>12, <1>13, <1>14, <1>15 DEF SumsExact96

\* Zero is exact.
LEMMA Int96Starts == Int96Init => Int96Inv
<1> SUFFICES ASSUME Int96Init PROVE Int96Inv
  OBVIOUS
<1>1. num = int96_set_unsigned(0) /\ exact = 0 /\ adds = 0
  BY DEF Int96Init
<1>2. Full \in Nat \ {0} /\ MaxAdds \in Nat
  BY HalfFacts
<1>3. 0 \in Unsigned
  BY <1>2 DEF Unsigned
<1>4. Stands(num, exact)
  BY <1>1, <1>3, SetUnsigned
<1>5. (0 + 1) * (Full - 1) = Full - 1
  BY <1>2, SMT
<1> QED
  BY <1>1, <1>2, <1>4, <1>5 DEF Int96Inv

\* A number that is set is as close to zero as one summand.
LEMMA SetKeeps ==
  ASSUME NEW val \in Int, NEW as, Stands(as, val), -(Full - 1) <= val, val <= Full - 1, Set(val, as)
  PROVE  Int96Inv'
<1>1. num' = as /\ exact' = val /\ adds' = 0
  BY DEF Set
<1>2. Full \in Nat \ {0} /\ MaxAdds \in Nat
  BY HalfFacts
<1>3. (0 + 1) * (Full - 1) = Full - 1
  BY <1>2, SMT
<1>4. Stands(num', exact')
  BY <1>1
<1>5. /\ -((adds' + 1) * (Full - 1)) <= exact' /\ exact' <= (adds' + 1) * (Full - 1)
      /\ adds' \in 0 .. MaxAdds
  BY <1>1, <1>2, <1>3
<1>6. Stands(num, exact)'
  BY <1>4 DEF Stands, Halves, Value, Modulus, Full
<1> QED
  BY <1>5, <1>6 DEF Int96Inv, Full

\* Each addition moves it by at most one summand more.
LEMMA AddKeeps ==
  ASSUME NEW val \in Int, NEW as, Stands(as, val), -(Full - 1) <= val, val <= Full - 1,
         Add96(val, as), Int96Inv
  PROVE  Int96Inv'
<1>1. adds < MaxAdds /\ num' = int96_add(num, as) /\ exact' = exact + val /\ adds' = adds + 1
  BY DEF Add96
<1>2. Full \in Nat \ {0} /\ MaxAdds \in Nat
  BY HalfFacts
<1>3. /\ Stands(num, exact) /\ exact \in Int /\ adds \in 0 .. MaxAdds
      /\ -((adds + 1) * (Full - 1)) <= exact /\ exact <= (adds + 1) * (Full - 1)
  BY DEF Int96Inv, Stands
<1>4. Stands(num', exact')
  BY <1>1, <1>3, StandsAdd
<1>5. /\ (adds + 1 + 1) * (Full - 1) = (adds + 1) * (Full - 1) + (Full - 1)
      /\ (adds + 1) * (Full - 1) \in Int
  BY <1>2, <1>3, SMT
<1>6. adds' + 1 = adds + 1 + 1 /\ adds' \in 0 .. MaxAdds
  BY <1>1, <1>2, <1>3
<1>7. -((adds' + 1) * (Full - 1)) <= exact' /\ exact' <= (adds' + 1) * (Full - 1)
  <2>1. (adds' + 1) * (Full - 1) = (adds + 1) * (Full - 1) + (Full - 1)
    BY <1>5, <1>6
  <2> QED
    BY <1>1, <1>2, <1>3, <1>5, <2>1
<1>8. Stands(num, exact)'
  BY <1>4 DEF Stands, Halves, Value, Modulus, Full
<1> QED
  BY <1>6, <1>7, <1>8 DEF Int96Inv, Full

\* An inversion moves it to the other side of zero.
LEMMA InvertKeeps ==
  ASSUME Invert, Int96Inv
  PROVE  Int96Inv'
<1>1. num' = int96_invert(num) /\ exact' = -exact /\ adds' = adds
  BY DEF Invert
<1>2. Full \in Nat \ {0} /\ MaxAdds \in Nat
  BY HalfFacts
<1>3. /\ Stands(num, exact) /\ exact \in Int /\ adds \in 0 .. MaxAdds
      /\ -((adds + 1) * (Full - 1)) <= exact /\ exact <= (adds + 1) * (Full - 1)
  BY DEF Int96Inv, Stands
<1>4. Stands(num', exact')
  BY <1>1, <1>3, Inverts
<1>5. (adds + 1) * (Full - 1) \in Int
  BY <1>2, <1>3, SMT
<1>6. -((adds' + 1) * (Full - 1)) <= exact' /\ exact' <= (adds' + 1) * (Full - 1)
  BY <1>1, <1>3, <1>5
<1>7. Stands(num, exact)'
  BY <1>4 DEF Stands, Halves, Value, Modulus, Full
<1> QED
  BY <1>1, <1>3, <1>6, <1>7 DEF Int96Inv, Full

(***************************************************************************)
(* Sums of 64-bit integers, inverted or not, are exact for every width of  *)
(* a half word and up to half as many additions as it has values: whether  *)
(* a sum fits 64 bits is known, and then it is extracted (the comment on   *)
(* struct int96_num, int96.h).                                             *)
(***************************************************************************)
THEOREM SumsStayExact96 == Int96Spec => []SumsExact96
<1>1. Int96Init => Int96Inv
  BY Int96Starts
<1>2. Int96Inv /\ [Int96Next]_int96Vars => Int96Inv'
  <2> SUFFICES ASSUME Int96Inv, [Int96Next]_int96Vars PROVE Int96Inv'
    OBVIOUS
  <2>1. ASSUME NEW val \in Unsigned, Set(val, int96_set_unsigned(val)) PROVE Int96Inv'
    BY <2>1, SetUnsigned, SetKeeps
  <2>2. ASSUME NEW val \in Unsigned, Add96(val, int96_set_unsigned(val)) PROVE Int96Inv'
    BY <2>2, SetUnsigned, AddKeeps
  <2>3. ASSUME NEW val \in Signed, Set(val, int96_set_signed(val)) PROVE Int96Inv'
    BY <2>3, SetSigned, SetKeeps
  <2>4. ASSUME NEW val \in Signed, Add96(val, int96_set_signed(val)) PROVE Int96Inv'
    BY <2>4, SetSigned, AddKeeps
  <2>5. CASE Invert
    BY <2>5, InvertKeeps
  <2>6. CASE UNCHANGED int96Vars
    BY <2>6 DEF int96Vars, Int96Inv, Stands, Halves, Value, Modulus, Full
  <2> QED
    BY <2>1, <2>2, <2>3, <2>4, <2>5, <2>6 DEF Int96Next
<1>3. Int96Inv => SumsExact96
  BY SumsExactInv
<1> QED
  BY <1>1, <1>2, <1>3, PTL DEF Int96Spec

-----------------------------------------------------------------------------
(***************************************************************************)
(* The memory of solutions.  First how numbers are chosen from a set.      *)
(***************************************************************************)
UpToIn(P, c) == {b \in P : b <= c}

\* The numbers up to one more than before, counted.
LEMMA CountStep ==
  ASSUME NEW M \in Nat, NEW P \in SUBSET (1 .. M), NEW x \in Nat
  PROVE  /\ IsFiniteSet(P) /\ Cardinality(P) \in Nat
         /\ IsFiniteSet(UpToIn(P, x)) /\ Cardinality(UpToIn(P, x)) \in Nat
         /\ Cardinality(UpToIn(P, x)) <= Cardinality(P)
         /\ x \in P => /\ x - 1 \in Nat
                       /\ Cardinality(UpToIn(P, x)) = Cardinality(UpToIn(P, x - 1)) + 1
         /\ x \notin P /\ x # 0 => UpToIn(P, x) = UpToIn(P, x - 1)
<1>0. \A b \in P : b \in Int /\ 1 <= b /\ b <= M
  OBVIOUS
<1>1. IsFiniteSet(1 .. M)
  BY FS_Interval
<1>2. IsFiniteSet(P)
  BY <1>1, FS_Subset
<1>3. IsFiniteSet(UpToIn(P, x)) /\ Cardinality(UpToIn(P, x)) <= Cardinality(P)
  BY <1>2, FS_Subset DEF UpToIn
<1>4. Cardinality(P) \in Nat /\ Cardinality(UpToIn(P, x)) \in Nat
  BY <1>2, <1>3, FS_CardinalityType
<1>5. ASSUME x \in P
      PROVE  /\ x - 1 \in Nat
             /\ Cardinality(UpToIn(P, x)) = Cardinality(UpToIn(P, x - 1)) + 1
  <2>1. x \in 1 .. M /\ x - 1 \in Nat
    BY <1>5
  <2>2. UpToIn(P, x) = UpToIn(P, x - 1) \cup {x}
    <3>1. \A b \in P : b <= x <=> b <= x - 1 \/ b = x
      BY <1>0, <2>1
    <3> QED
      BY <1>5, <3>1 DEF UpToIn
  <2>3. x \notin UpToIn(P, x - 1)
    BY <2>1 DEF UpToIn
  <2>4. IsFiniteSet(UpToIn(P, x - 1))
    BY <1>2, FS_Subset DEF UpToIn
  <2> QED
    BY <2>1, <2>2, <2>3, <2>4, FS_AddElement
<1>6. ASSUME x \notin P, x # 0 PROVE UpToIn(P, x) = UpToIn(P, x - 1)
  <2>1. \A b \in P : b <= x <=> b <= x - 1
    BY <1>0, <1>6
  <2> QED
    BY <2>1 DEF UpToIn
<1> QED
  BY <1>2, <1>3, <1>4, <1>5, <1>6

\* A larger number of the set has more numbers up to it.
LEMMA CountOrder ==
  ASSUME NEW M \in Nat, NEW P \in SUBSET (1 .. M), NEW a \in P, NEW b \in P, a < b
  PROVE  Cardinality(UpToIn(P, a)) < Cardinality(UpToIn(P, b))
<1>1. a \in Nat /\ b \in Nat /\ b - 1 \in Nat /\ a <= b - 1
  OBVIOUS
<1>2. /\ IsFiniteSet(UpToIn(P, b - 1)) /\ Cardinality(UpToIn(P, b - 1)) \in Nat
      /\ Cardinality(UpToIn(P, b)) = Cardinality(UpToIn(P, b - 1)) + 1
  BY <1>1, CountStep
<1>3. UpToIn(P, a) \in SUBSET UpToIn(P, b - 1)
  <2>1. \A c \in P : c \in Int
    OBVIOUS
  <2>2. \A c \in P : c <= a => c <= b - 1
    BY <1>1, <2>1
  <2> QED
    BY <2>2 DEF UpToIn
<1>4. Cardinality(UpToIn(P, a)) <= Cardinality(UpToIn(P, b - 1))
  BY <1>2, <1>3, FS_Subset
<1>5. Cardinality(UpToIn(P, a)) \in Nat
  BY <1>1, CountStep
<1> QED
  BY <1>2, <1>4, <1>5

\* A set of K numbers has a k-th smallest for each k up to K.
LEMMA NthExists ==
  ASSUME NEW M \in Nat, NEW P \in SUBSET (1 .. M), NEW k \in 1 .. Cardinality(P)
  PROVE  Nth(P, k) \in P /\ Cardinality(UpToIn(P, Nth(P, k))) = k
<1>1. Cardinality(P) \in Nat /\ k \in Nat /\ k >= 1 /\ k <= Cardinality(P)
  <2>1. Cardinality(P) \in Nat
    BY CountStep
  <2> QED
    BY <2>1
<1>0. \A b \in P : b \in Int /\ 1 <= b /\ b <= M
  OBVIOUS
<1> DEFINE T == {c \in 0 .. M : Cardinality(UpToIn(P, c)) >= k}
<1>2. M \in T
  <2>1. UpToIn(P, M) = P
    BY <1>0 DEF UpToIn
  <2> QED
    BY <1>1, <2>1
<1>3. PICK x \in T : \A y \in T : x <= y
  <2>1. T \subseteq Nat /\ T # {}
    BY <1>2
  <2> HIDE DEF T
  <2> QED
    BY <2>1, LeastElement
<1>4. x \in 0 .. M /\ x \in Nat /\ Cardinality(UpToIn(P, x)) >= k
  BY <1>3
<1>5. x # 0
  <2>1. UpToIn(P, 0) = {}
    <3>1. \A b \in P : ~(b <= 0)
      BY <1>0
    <3> QED
      BY <3>1 DEF UpToIn
  <2>2. Cardinality(UpToIn(P, 0)) = 0
    BY <2>1, FS_EmptySet
  <2> QED
    BY <1>1, <1>4, <2>2
<1>6. x - 1 \in Nat /\ x - 1 \in 0 .. M /\ ~(x <= x - 1)
  BY <1>4, <1>5
<1>7. ~(Cardinality(UpToIn(P, x - 1)) >= k)
  BY <1>3, <1>6
<1>8. x \in P
  BY <1>4, <1>5, <1>7, CountStep
<1>9. Cardinality(UpToIn(P, x)) = Cardinality(UpToIn(P, x - 1)) + 1
  BY <1>4, <1>8, CountStep
<1>10. Cardinality(UpToIn(P, x - 1)) \in Nat
  BY <1>6, CountStep
<1>11. Cardinality(UpToIn(P, x)) = k
  BY <1>1, <1>4, <1>7, <1>9, <1>10
<1>12. \E a \in P : Cardinality({b \in P : b <= a}) = k
  BY <1>8, <1>11 DEF UpToIn
<1> QED
  BY <1>12 DEF Nth, UpToIn

\* The numbers of a set in their order.
LEMMA NthFacts ==
  ASSUME NEW M \in Nat, NEW P \in SUBSET (1 .. M)
  PROVE  /\ Cardinality(P) \in Nat
         /\ \A k \in 1 .. Cardinality(P) : Nth(P, k) \in P
         /\ \A k, l \in 1 .. Cardinality(P) : k < l => Nth(P, k) < Nth(P, l)
         /\ \A k, l \in 1 .. Cardinality(P) : Nth(P, k) = Nth(P, l) => k = l
         /\ \A a \in P : \E k \in 1 .. Cardinality(P) : Nth(P, k) = a
<1>1. Cardinality(P) \in Nat
  BY CountStep
<1>2. \A k \in 1 .. Cardinality(P) : Nth(P, k) \in P /\ Cardinality(UpToIn(P, Nth(P, k))) = k
  BY NthExists
<1>3. ASSUME NEW k \in 1 .. Cardinality(P), NEW l \in 1 .. Cardinality(P), k < l
      PROVE  Nth(P, k) < Nth(P, l)
  <2>1. PICK a \in P, b \in P : a = Nth(P, k) /\ b = Nth(P, l)
    BY <1>2
  <2>2. Cardinality(UpToIn(P, a)) = k /\ Cardinality(UpToIn(P, b)) = l
    BY <1>2, <2>1
  <2>3. a # b
    BY <1>3, <2>2
  <2>4. ~(b < a)
    <3> SUFFICES ASSUME b < a PROVE FALSE
      OBVIOUS
    <3>1. Cardinality(UpToIn(P, b)) < Cardinality(UpToIn(P, a))
      BY CountOrder
    <3> QED
      BY <1>1, <1>3, <2>2, <3>1
  <2> QED
    BY <2>1, <2>3, <2>4
<1>4. ASSUME NEW a \in P PROVE \E k \in 1 .. Cardinality(P) : Nth(P, k) = a
  <2>1. a \in Nat
    OBVIOUS
  <2> DEFINE k == Cardinality(UpToIn(P, a))
  <2>2. k \in Nat /\ k <= Cardinality(P) /\ a - 1 \in Nat /\ k = Cardinality(UpToIn(P, a - 1)) + 1
    BY <2>1, CountStep
  <2>3. Cardinality(UpToIn(P, a - 1)) \in Nat
    BY <2>2, CountStep
  <2>4. k \in 1 .. Cardinality(P)
    BY <1>1, <2>2, <2>3
  <2>5. PICK b \in P : b = Nth(P, k) /\ Cardinality(UpToIn(P, b)) = k
    BY <1>2, <2>4
  <2>6. ~(a < b)
    <3> SUFFICES ASSUME a < b PROVE FALSE
      OBVIOUS
    <3>1. Cardinality(UpToIn(P, a)) < Cardinality(UpToIn(P, b))
      BY CountOrder
    <3> QED
      BY <2>2, <2>5, <3>1
  <2>7. ~(b < a)
    <3> SUFFICES ASSUME b < a PROVE FALSE
      OBVIOUS
    <3>1. Cardinality(UpToIn(P, b)) < Cardinality(UpToIn(P, a))
      BY CountOrder
    <3> QED
      BY <2>2, <2>5, <3>1
  <2>8. a = b
    BY <2>1, <2>6, <2>7
  <2> QED
    BY <2>4, <2>5, <2>8
<1>5. ASSUME NEW k \in 1 .. Cardinality(P), NEW l \in 1 .. Cardinality(P), Nth(P, k) = Nth(P, l)
      PROVE  k = l
  BY <1>2, <1>5
<1> QED
  BY <1>1, <1>2, <1>3, <1>4, <1>5

\* What is chosen from a sequence keeps its order and is not chosen twice.
LEMMA ChosenElems ==
  ASSUME NEW C, NEW q \in Seq(C), NEW P \in SUBSET (1 .. Len(q)), Distinct(q)
  PROVE  /\ Chosen(q, P) \in Seq(C)
         /\ Len(Chosen(q, P)) = Cardinality(P)
         /\ \A k \in 1 .. Cardinality(P) : Chosen(q, P)[k] = q[Nth(P, k)]
         /\ Distinct(Chosen(q, P))
         /\ Elems(Chosen(q, P)) = {q[x] : x \in P}
<1>1. Len(q) \in Nat
  OBVIOUS
<1>2. PICK K \in Nat : K = Cardinality(P)
  BY <1>1, NthFacts
<1>3. /\ \A k \in 1 .. K : Nth(P, k) \in P
      /\ \A k, l \in 1 .. K : Nth(P, k) = Nth(P, l) => k = l
      /\ \A a \in P : \E k \in 1 .. K : Nth(P, k) = a
  BY <1>1, <1>2, NthFacts
<1>4. Chosen(q, P) = [k \in 1 .. K |-> q[Nth(P, k)]]
  BY <1>2 DEF Chosen
<1>5. \A k \in 1 .. K : Nth(P, k) \in 1 .. Len(q) /\ q[Nth(P, k)] \in C
  <2>1. \A x \in P : x \in 1 .. Len(q) /\ q[x] \in C
    OBVIOUS
  <2> QED
    BY <1>3, <2>1
<1>6. Chosen(q, P) \in Seq(C) /\ Len(Chosen(q, P)) = K
  BY <1>4, <1>5
<1>7. \A k \in 1 .. K : Chosen(q, P)[k] = q[Nth(P, k)]
  BY <1>4
<1>8. Distinct(Chosen(q, P))
  <2> SUFFICES ASSUME NEW i \in 1 .. K, NEW j \in 1 .. K, Chosen(q, P)[i] = Chosen(q, P)[j]
               PROVE  i = j
    BY <1>6 DEF Distinct
  <2>1. q[Nth(P, i)] = q[Nth(P, j)]
    BY <1>7
  <2>2. Nth(P, i) = Nth(P, j)
    BY <1>5, <2>1 DEF Distinct
  <2> QED
    BY <1>3, <2>2
<1>9. Elems(Chosen(q, P)) = {q[x] : x \in P}
  <2>1. Elems(Chosen(q, P)) = {Chosen(q, P)[k] : k \in 1 .. K}
    BY <1>6 DEF Elems
  <2>2. \A k \in 1 .. K : Chosen(q, P)[k] \in {q[x] : x \in P}
    BY <1>3, <1>7
  <2>3. \A x \in P : q[x] \in {Chosen(q, P)[k] : k \in 1 .. K}
    BY <1>3, <1>7
  <2> QED
    BY <2>1, <2>2, <2>3
<1> QED
  BY <1>2, <1>6, <1>7, <1>8, <1>9

(***************************************************************************)
(* A solution in a memory of objects and routes: its list -1 is w, its     *)
(* list 0 the pool, the others are its routes.                             *)
(***************************************************************************)
Solutions ==
  [w : Addresses \cup {NULL}, meta : [Ids -> Addresses], pool : Seq(Addresses),
   n_routes : 0 .. n_customers, routes : [Slots -> RouteAddresses \cup {NULL}]]

List(rts, s, i) ==
  IF i = -1 THEN (IF s.w = NULL THEN <<>> ELSE <<s.w>>)
  ELSE IF i = 0 THEN s.pool ELSE rts[s.routes[i]]

ListIndexes(s) == -1 .. s.n_routes

Held(rts, s) == UNION {Elems(List(rts, s, i)) : i \in ListIndexes(s)}

\* Depots at both ends of a route and nowhere else.
Good(cust, q, i) ==
  /\ q \in Seq(Addresses) /\ Distinct(q)
  /\ i > 0 => Len(q) >= 2
  /\ \A x \in 1 .. Len(q) : cust[q[x]] = 0 <=> i > 0 /\ x \in {1, Len(q)}

Slotted(s) ==
  /\ s \in Solutions
  /\ \A i \in 1 .. s.n_routes : s.routes[i] \in RouteAddresses
  /\ \A i, j \in 1 .. s.n_routes : s.routes[i] = s.routes[j] => i = j

GoodLists(cust, rts, s) == \A i \in ListIndexes(s) : Good(cust, List(rts, s, i), i)

Apart(rts, s) ==
  \A i, j \in ListIndexes(s) : i # j => Elems(List(rts, s, i)) \cap Elems(List(rts, s, j)) = {}

\* id_to_customer leads to each object that is not a depot.
Known(cust, s, held) ==
  /\ \A id \in Ids : s.meta[id] \in held /\ cust[s.meta[id]] = id
  /\ \A a \in held : cust[a] # 0 => cust[a] \in Ids /\ s.meta[cust[a]] = a

Sound(cust, rts, s) ==
  /\ Slotted(s) /\ GoodLists(cust, rts, s) /\ Apart(rts, s)
  /\ Known(cust, s, Held(rts, s))

\* What the solution has is addressed.
LEMMA SoundTypes ==
  ASSUME NEW cust, NEW rts, NEW s, Sound(cust, rts, s)
  PROVE  /\ s.n_routes \in 0 .. n_customers /\ n_customers \in Nat \ {0}
         /\ s.w \in Addresses \cup {NULL} /\ NULL \notin Addresses
         /\ s.pool \in Seq(Addresses) /\ s.meta \in [Ids -> Addresses]
         /\ RoutesOf(s) \subseteq RouteAddresses
         /\ \A i \in ListIndexes(s) :
              /\ List(rts, s, i) \in Seq(Addresses)
              /\ Elems(List(rts, s, i)) \subseteq Held(rts, s)
         /\ Held(rts, s) \subseteq Addresses
         /\ \A a \in Held(rts, s) : \E i \in ListIndexes(s) : a \in Elems(List(rts, s, i))
<1>1. n_customers \in Nat \ {0}
  BY ObjectsAssumption
<1>2. s \in Solutions /\ \A i \in 1 .. s.n_routes : s.routes[i] \in RouteAddresses
  BY DEF Sound, Slotted
<1>3. /\ s.n_routes \in 0 .. n_customers /\ s.w \in Addresses \cup {NULL}
      /\ s.pool \in Seq(Addresses) /\ s.meta \in [Ids -> Addresses]
  BY <1>2 DEF Solutions
<1>4. NULL \notin Addresses
  BY DEF NULL, Addresses
<1>5. RoutesOf(s) \subseteq RouteAddresses
  BY <1>2 DEF RoutesOf
<1>6. \A i \in ListIndexes(s) : List(rts, s, i) \in Seq(Addresses)
  BY DEF Sound, GoodLists, Good
<1>7. \A i \in ListIndexes(s) : Elems(List(rts, s, i)) \subseteq Held(rts, s)
  BY DEF Held
<1>8. \A a \in Held(rts, s) : \E i \in ListIndexes(s) : a \in Elems(List(rts, s, i))
  BY DEF Held
<1>9. \A i \in ListIndexes(s) : Elems(List(rts, s, i)) \subseteq Addresses
  BY <1>6 DEF Elems
<1>10. Held(rts, s) \subseteq Addresses
  BY <1>8, <1>9
<1> QED
  BY <1>1, <1>3, <1>4, <1>5, <1>6, <1>7, <1>8, <1>10

\* The lists of D share out anew what they held.
Exchanges(cust, rts, s, rts2, s2, D) ==
  /\ D \subseteq ListIndexes(s)
  /\ \A i \in ListIndexes(s) \ D : List(rts2, s2, i) = List(rts, s, i)
  /\ \A i \in D : Good(cust, List(rts2, s2, i), i)
  /\ \A i, j \in D : i # j => Elems(List(rts2, s2, i)) \cap Elems(List(rts2, s2, j)) = {}
  /\ UNION {Elems(List(rts2, s2, i)) : i \in D} = UNION {Elems(List(rts, s, i)) : i \in D}

\* Such a solution is as sound as it was, and holds the same objects.
LEMMA ExchangesSound ==
  ASSUME NEW cust, NEW rts, NEW s, Sound(cust, rts, s), NEW rts2, NEW s2, NEW D,
         Exchanges(cust, rts, s, rts2, s2, D), Slotted(s2),
         s2.n_routes = s.n_routes, s2.meta = s.meta
  PROVE  Sound(cust, rts2, s2) /\ Held(rts2, s2) = Held(rts, s)
<1> DEFINE I == ListIndexes(s)
           old(i) == Elems(List(rts, s, i))
           new(i) == Elems(List(rts2, s2, i))
<1>1. ListIndexes(s2) = I
  BY DEF ListIndexes
<1>2. /\ D \subseteq I
      /\ \A i \in I \ D : List(rts2, s2, i) = List(rts, s, i)
      /\ \A i \in D : Good(cust, List(rts2, s2, i), i)
      /\ \A i, j \in D : i # j => new(i) \cap new(j) = {}
      /\ UNION {new(i) : i \in D} = UNION {old(i) : i \in D}
  BY DEF Exchanges
<1>3. \A i \in I : Good(cust, List(rts, s, i), i)
  BY DEF Sound, GoodLists
<1>4. \A i, j \in I : i # j => old(i) \cap old(j) = {}
  BY DEF Sound, Apart
<1>5. \A i \in I \ D : new(i) = old(i)
  BY <1>2
<1>6. \A i \in D : \A a \in new(i) : \E j \in D : a \in old(j)
  BY <1>2
<1>7. \A i \in D : \A a \in old(i) : \E j \in D : a \in new(j)
  BY <1>2
<1> HIDE DEF I, old, new
<1>8. GoodLists(cust, rts2, s2)
  BY <1>1, <1>2, <1>3 DEF GoodLists
<1>9. ASSUME NEW i \in I, NEW j \in I, i # j PROVE new(i) \cap new(j) = {}
  <2>1. CASE i \in D /\ j \in D
    BY <1>2, <1>9, <2>1
  <2>2. CASE i \notin D /\ j \notin D
    BY <1>4, <1>5, <1>9, <2>2
  <2>3. CASE i \in D /\ j \notin D
    <3> SUFFICES ASSUME NEW a, a \in new(i), a \in new(j) PROVE FALSE
      OBVIOUS
    <3>1. PICK k \in D : a \in old(k)
      BY <1>6, <2>3
    <3>2. a \in old(j) /\ k \in I /\ k # j
      BY <1>2, <1>5, <2>3
    <3> QED
      BY <1>4, <3>1, <3>2
  <2>4. CASE i \notin D /\ j \in D
    <3> SUFFICES ASSUME NEW a, a \in new(i), a \in new(j) PROVE FALSE
      OBVIOUS
    <3>1. PICK k \in D : a \in old(k)
      BY <1>6, <2>4
    <3>2. a \in old(i) /\ k \in I /\ k # i
      BY <1>2, <1>5, <2>4
    <3> QED
      BY <1>4, <3>1, <3>2
  <2> QED
    BY <2>1, <2>2, <2>3, <2>4
<1>10. Apart(rts2, s2)
  BY <1>1, <1>9 DEF Apart, new
<1>11. Held(rts2, s2) = UNION {new(i) : i \in I} /\ Held(rts, s) = UNION {old(i) : i \in I}
  BY <1>1 DEF Held, new, old, I
<1>12. UNION {new(i) : i \in I} = UNION {old(i) : i \in I}
  <2>1. ASSUME NEW i \in I, NEW a \in new(i) PROVE \E j \in I : a \in old(j)
    BY <1>2, <1>5, <1>6
  <2>2. ASSUME NEW i \in I, NEW a \in old(i) PROVE \E j \in I : a \in new(j)
    BY <1>2, <1>5, <1>7
  <2> QED
    BY <2>1, <2>2
<1>13. Known(cust, s2, Held(rts2, s2))
  <2>1. Known(cust, s, Held(rts, s))
    BY DEF Sound
  <2> QED
    BY <2>1, <1>11, <1>12 DEF Known
<1> QED
  BY <1>8, <1>10, <1>11, <1>12, <1>13 DEF Sound

\* A solution stays sound while nobody touches what is its own.
LEMMA SoundFrame ==
  ASSUME NEW cust, NEW rts, NEW s, Sound(cust, rts, s), NEW cust2, NEW rts2,
         \A a \in Held(rts, s) : cust2[a] = cust[a],
         \A r \in RoutesOf(s) : rts2[r] = rts[r]
  PROVE  Sound(cust2, rts2, s) /\ Held(rts2, s) = Held(rts, s)
<1>1. \A i \in ListIndexes(s) : List(rts2, s, i) = List(rts, s, i)
  <2> SUFFICES ASSUME NEW i \in ListIndexes(s) PROVE List(rts2, s, i) = List(rts, s, i)
    OBVIOUS
  <2>1. s.n_routes \in Int
    BY SoundTypes
  <2>2. i = -1 \/ i = 0 \/ i \in 1 .. s.n_routes
    BY <2>1 DEF ListIndexes
  <2>3. i \in 1 .. s.n_routes => s.routes[i] \in RoutesOf(s)
    BY DEF RoutesOf
  <2> QED
    BY <2>2, <2>3 DEF List
<1>2. Held(rts2, s) = Held(rts, s)
  BY <1>1 DEF Held
<1>3. ASSUME NEW i \in ListIndexes(s) PROVE Good(cust2, List(rts2, s, i), i)
  <2>1. PICK q : q = List(rts, s, i)
    OBVIOUS
  <2>2. Good(cust, q, i)
    BY <2>1 DEF Sound, GoodLists
  <2>3. \A x \in 1 .. Len(q) : q[x] \in Held(rts, s)
    BY <2>1 DEF Held, Elems
  <2>4. Good(cust2, q, i)
    BY <2>2, <2>3 DEF Good
  <2> QED
    BY <1>1, <2>1, <2>4
<1>4. Apart(rts2, s)
  BY <1>1 DEF Sound, Apart
<1>5. Known(cust2, s, Held(rts2, s))
  BY <1>2 DEF Sound, Known
<1> QED
  BY <1>2, <1>3, <1>4, <1>5 DEF Sound, GoodLists

(***************************************************************************)
(* K solutions that share the memory: nothing is held twice, and nothing   *)
(* is allocated that none holds.                                           *)
(***************************************************************************)
HeapTypes(cust, rts) ==
  /\ cust \in [Addresses -> 0 .. n_customers \cup {Free}]
  /\ rts \in [RouteAddresses -> Seq(Addresses)]

Heaped(cust, rts, ss, K) ==
  /\ HeapTypes(cust, rts)
  /\ \A k \in 1 .. K : Sound(cust, rts, ss[k])
  /\ \A k, l \in 1 .. K : k # l => /\ RoutesOf(ss[k]) \cap RoutesOf(ss[l]) = {}
                                   /\ Held(rts, ss[k]) \cap Held(rts, ss[l]) = {}
  /\ \A r \in RouteAddresses : rts[r] # <<>> <=> \E k \in 1 .. K : r \in RoutesOf(ss[k])
  /\ \A a \in Addresses : cust[a] # Free <=> \E k \in 1 .. K : a \in Held(rts, ss[k])

\* An object that is held is allocated, and so is a route.
LEMMA SoundAllocated ==
  ASSUME NEW cust, NEW rts, NEW s, Sound(cust, rts, s)
  PROVE  /\ \A a \in Held(rts, s) : a \in Addresses /\ cust[a] # Free
         /\ \A r \in RoutesOf(s) : r \in RouteAddresses /\ rts[r] # <<>>
<1>1. ASSUME NEW a \in Held(rts, s) PROVE a \in Addresses /\ cust[a] # Free
  <2>1. a \in Addresses
    BY SoundTypes
  <2>2. cust[a] # 0 => cust[a] \in Ids
    BY DEF Sound, Known
  <2>3. Free # 0 /\ Free \notin Ids
    BY DEF Free, Ids
  <2> QED
    BY <2>1, <2>2, <2>3
<1>2. ASSUME NEW r \in RoutesOf(s) PROVE r \in RouteAddresses /\ rts[r] # <<>>
  <2>1. r \in RouteAddresses
    BY SoundTypes
  <2>2. PICK i \in 1 .. s.n_routes : r = s.routes[i]
    BY DEF RoutesOf
  <2>3. i \in ListIndexes(s) /\ List(rts, s, i) = rts[r] /\ i > 0
    BY <2>2, SoundTypes DEF ListIndexes, List
  <2>4. Good(cust, rts[r], i)
    BY <2>3 DEF Sound, GoodLists
  <2>5. Len(rts[r]) >= 2
    BY <2>3, <2>4 DEF Good
  <2>6. Len(<<>>) = 0
    OBVIOUS
  <2> QED
    BY <2>1, <2>5, <2>6
<1> QED
  BY <1>1, <1>2

\* The first solution changes what is its own, and may give some of it back.
LEMMA HeapChanges ==
  ASSUME NEW cust, NEW rts, NEW ss, NEW K \in Nat \ {0}, Heaped(cust, rts, ss, K),
         NEW cust2, NEW rts2, NEW ss2, HeapTypes(cust2, rts2),
         Sound(cust2, rts2, ss2[1]), \A k \in 2 .. K : ss2[k] = ss[k],
         Held(rts2, ss2[1]) \subseteq Held(rts, ss[1]), RoutesOf(ss2[1]) \subseteq RoutesOf(ss[1]),
         \A a \in Addresses \ Held(rts, ss[1]) : cust2[a] = cust[a],
         \A a \in Held(rts, ss[1]) \ Held(rts2, ss2[1]) : cust2[a] = Free,
         \A r \in RouteAddresses \ RoutesOf(ss[1]) : rts2[r] = rts[r],
         \A r \in RoutesOf(ss[1]) \ RoutesOf(ss2[1]) : rts2[r] = <<>>
  PROVE  Heaped(cust2, rts2, ss2, K)
<1>0. 1 \in 1 .. K /\ \A k \in 1 .. K : k = 1 \/ k \in 2 .. K
  OBVIOUS
<1>1. \A k \in 1 .. K : Sound(cust, rts, ss[k])
  BY DEF Heaped
<1>2. \A k, l \in 1 .. K : k # l => /\ RoutesOf(ss[k]) \cap RoutesOf(ss[l]) = {}
                                    /\ Held(rts, ss[k]) \cap Held(rts, ss[l]) = {}
  BY DEF Heaped
<1>3. /\ \A r \in RouteAddresses : rts[r] # <<>> <=> \E k \in 1 .. K : r \in RoutesOf(ss[k])
      /\ \A a \in Addresses : cust[a] # Free <=> \E k \in 1 .. K : a \in Held(rts, ss[k])
  BY DEF Heaped
<1>4. ASSUME NEW k \in 2 .. K
      PROVE  Sound(cust2, rts2, ss2[k]) /\ Held(rts2, ss2[k]) = Held(rts, ss[k])
  <2>1. k \in 1 .. K /\ k # 1 /\ ss2[k] = ss[k]
    OBVIOUS
  <2>2. Sound(cust, rts, ss[k])
    BY <1>1, <2>1
  <2>3. \A a \in Held(rts, ss[k]) : a \in Addresses \ Held(rts, ss[1])
    BY <1>0, <1>2, <2>1, <2>2, SoundAllocated
  <2>4. \A r \in RoutesOf(ss[k]) : r \in RouteAddresses \ RoutesOf(ss[1])
    BY <1>0, <1>2, <2>1, <2>2, SoundAllocated
  <2>5. \A a \in Held(rts, ss[k]) : cust2[a] = cust[a]
    BY <2>3
  <2>6. \A r \in RoutesOf(ss[k]) : rts2[r] = rts[r]
    BY <2>4
  <2> QED
    BY <2>1, <2>2, <2>5, <2>6, SoundFrame
<1>5. \A k \in 1 .. K : Sound(cust2, rts2, ss2[k])
  BY <1>0, <1>4
<1>6. \A k \in 1 .. K : /\ RoutesOf(ss2[k]) \subseteq RoutesOf(ss[k])
                        /\ Held(rts2, ss2[k]) \subseteq Held(rts, ss[k])
  BY <1>0, <1>4
<1>7. \A k, l \in 1 .. K : k # l => /\ RoutesOf(ss2[k]) \cap RoutesOf(ss2[l]) = {}
                                    /\ Held(rts2, ss2[k]) \cap Held(rts2, ss2[l]) = {}
  <2> SUFFICES ASSUME NEW k \in 1 .. K, NEW l \in 1 .. K, k # l
               PROVE  /\ RoutesOf(ss2[k]) \cap RoutesOf(ss2[l]) = {}
                      /\ Held(rts2, ss2[k]) \cap Held(rts2, ss2[l]) = {}
    OBVIOUS
  <2>1. /\ RoutesOf(ss[k]) \cap RoutesOf(ss[l]) = {}
        /\ Held(rts, ss[k]) \cap Held(rts, ss[l]) = {}
    BY <1>2
  <2>2. /\ RoutesOf(ss2[k]) \subseteq RoutesOf(ss[k]) /\ RoutesOf(ss2[l]) \subseteq RoutesOf(ss[l])
        /\ Held(rts2, ss2[k]) \subseteq Held(rts, ss[k]) /\ Held(rts2, ss2[l]) \subseteq Held(rts, ss[l])
    BY <1>6
  <2> QED
    BY <2>1, <2>2
<1>8. ASSUME NEW r \in RouteAddresses
      PROVE  rts2[r] # <<>> <=> \E k \in 1 .. K : r \in RoutesOf(ss2[k])
  <2>1. CASE r \in RoutesOf(ss[1])
    <3>1. r \in RoutesOf(ss2[1]) => rts2[r] # <<>>
      BY SoundAllocated
    <3>2. r \notin RoutesOf(ss2[1]) => rts2[r] = <<>> /\ \A k \in 2 .. K : r \notin RoutesOf(ss2[k])
      <4>1. \A k \in 2 .. K : k \in 1 .. K /\ k # 1 /\ ss2[k] = ss[k]
        OBVIOUS
      <4> QED
        BY <1>0, <1>2, <2>1, <4>1
    <3> QED
      BY <1>0, <3>1, <3>2
  <2>2. CASE r \notin RoutesOf(ss[1])
    <3>1. rts2[r] = rts[r] /\ r \notin RoutesOf(ss2[1])
      BY <2>2
    <3> QED
      BY <1>0, <1>3, <2>2, <3>1
  <2> QED
    BY <2>1, <2>2
<1>9. ASSUME NEW a \in Addresses
      PROVE  cust2[a] # Free <=> \E k \in 1 .. K : a \in Held(rts2, ss2[k])
  <2>1. CASE a \in Held(rts, ss[1])
    <3>1. a \in Held(rts2, ss2[1]) => cust2[a] # Free
      BY SoundAllocated
    <3>2. \A k \in 2 .. K : a \notin Held(rts2, ss2[k])
      <4>1. \A k \in 2 .. K : k \in 1 .. K /\ k # 1
        OBVIOUS
      <4> QED
        BY <1>0, <1>2, <1>6, <2>1, <4>1
    <3>3. a \notin Held(rts2, ss2[1]) => cust2[a] = Free
      BY <2>1
    <3> QED
      BY <1>0, <3>1, <3>2, <3>3
  <2>2. CASE a \notin Held(rts, ss[1])
    <3>1. cust2[a] = cust[a] /\ a \notin Held(rts2, ss2[1])
      BY <2>2
    <3> QED
      BY <1>0, <1>3, <1>4, <2>2, <3>1
  <2> QED
    BY <2>1, <2>2
<1> QED
  BY <1>5, <1>7, <1>8, <1>9 DEF Heaped

\* A solution that only uses memory that was free joins the others.
Joins(cust, rts, cust2, rts2, s) ==
  /\ HeapTypes(cust2, rts2) /\ Sound(cust2, rts2, s)
  /\ \A a \in Held(rts2, s) : cust[a] = Free
  /\ \A a \in Addresses \ Held(rts2, s) : cust2[a] = cust[a]
  /\ \A r \in RoutesOf(s) : rts[r] = <<>>
  /\ \A r \in RouteAddresses \ RoutesOf(s) : rts2[r] = rts[r]

\* The heap with such a solution as its last one.
LEMMA HeapGrows ==
  ASSUME NEW cust, NEW rts, NEW ss, NEW K \in Nat, Heaped(cust, rts, ss, K),
         NEW cust2, NEW rts2, NEW ss2, Joins(cust, rts, cust2, rts2, ss2[K + 1]),
         \A k \in 1 .. K : ss2[k] = ss[k]
  PROVE  Heaped(cust2, rts2, ss2, K + 1)
<1>0. \A k \in 1 .. K + 1 : k = K + 1 \/ (k \in 1 .. K /\ k # K + 1)
  OBVIOUS
<1>1. \A k \in 1 .. K : Sound(cust, rts, ss[k])
  BY DEF Heaped
<1>2. \A k, l \in 1 .. K : k # l => /\ RoutesOf(ss[k]) \cap RoutesOf(ss[l]) = {}
                                    /\ Held(rts, ss[k]) \cap Held(rts, ss[l]) = {}
  BY DEF Heaped
<1>3. /\ \A r \in RouteAddresses : rts[r] # <<>> <=> \E k \in 1 .. K : r \in RoutesOf(ss[k])
      /\ \A a \in Addresses : cust[a] # Free <=> \E k \in 1 .. K : a \in Held(rts, ss[k])
  BY DEF Heaped
<1> DEFINE s == ss2[K + 1]
<1>4. /\ HeapTypes(cust2, rts2) /\ Sound(cust2, rts2, s)
      /\ \A a \in Held(rts2, s) : cust[a] = Free
      /\ \A a \in Addresses \ Held(rts2, s) : cust2[a] = cust[a]
      /\ \A r \in RoutesOf(s) : rts[r] = <<>>
      /\ \A r \in RouteAddresses \ RoutesOf(s) : rts2[r] = rts[r]
  BY DEF Joins
<1>5. ASSUME NEW k \in 1 .. K
      PROVE  /\ Sound(cust2, rts2, ss2[k]) /\ Held(rts2, ss2[k]) = Held(rts, ss[k])
             /\ RoutesOf(ss2[k]) \cap RoutesOf(s) = {}
             /\ Held(rts2, ss2[k]) \cap Held(rts2, s) = {}
  <2>1. ss2[k] = ss[k] /\ Sound(cust, rts, ss[k])
    BY <1>1
  <2>2. \A a \in Held(rts, ss[k]) : a \in Addresses /\ cust[a] # Free
    BY <2>1, SoundAllocated
  <2>3. \A r \in RoutesOf(ss[k]) : r \in RouteAddresses /\ rts[r] # <<>>
    BY <2>1, SoundAllocated
  <2>4. \A a \in Held(rts, ss[k]) : a \notin Held(rts2, s) /\ cust2[a] = cust[a]
    BY <1>4, <2>2
  <2>5. \A r \in RoutesOf(ss[k]) : r \notin RoutesOf(s) /\ rts2[r] = rts[r]
    BY <1>4, <2>3
  <2>6. Sound(cust2, rts2, ss[k]) /\ Held(rts2, ss[k]) = Held(rts, ss[k])
    BY <2>1, <2>4, <2>5, SoundFrame
  <2> QED
    BY <2>1, <2>4, <2>5, <2>6
<1>6. \A k \in 1 .. K + 1 : Sound(cust2, rts2, ss2[k])
  BY <1>0, <1>4, <1>5
<1>7. ASSUME NEW k \in 1 .. K + 1, NEW l \in 1 .. K + 1, k # l
      PROVE  /\ RoutesOf(ss2[k]) \cap RoutesOf(ss2[l]) = {}
             /\ Held(rts2, ss2[k]) \cap Held(rts2, ss2[l]) = {}
  <2>1. CASE k \in 1 .. K /\ l \in 1 .. K
    <3>1. ss2[k] = ss[k] /\ ss2[l] = ss[l]
      BY <2>1
    <3>2. Held(rts2, ss2[k]) = Held(rts, ss[k]) /\ Held(rts2, ss2[l]) = Held(rts, ss[l])
      BY <1>5, <2>1
    <3> QED
      BY <1>2, <1>7, <2>1, <3>1, <3>2
  <2>2. CASE k \in 1 .. K /\ l = K + 1
    BY <1>5, <2>2
  <2>3. CASE k = K + 1 /\ l \in 1 .. K
    BY <1>5, <2>3
  <2> QED
    BY <1>0, <1>7, <2>1, <2>2, <2>3
<1>8. ASSUME NEW r \in RouteAddresses
      PROVE  rts2[r] # <<>> <=> \E k \in 1 .. K + 1 : r \in RoutesOf(ss2[k])
  <2>0. K + 1 \in 1 .. K + 1 /\ \A k \in 1 .. K : k \in 1 .. K + 1 /\ ss2[k] = ss[k]
    OBVIOUS
  <2>1. CASE r \in RoutesOf(s)
    BY <1>4, <2>0, <2>1, SoundAllocated
  <2>2. CASE r \notin RoutesOf(s)
    <3>1. rts2[r] = rts[r]
      BY <1>4, <2>2
    <3>2. (\E k \in 1 .. K + 1 : r \in RoutesOf(ss2[k])) <=> (\E k \in 1 .. K : r \in RoutesOf(ss[k]))
      BY <1>0, <2>0, <2>2
    <3> QED
      BY <1>3, <3>1, <3>2
  <2> QED
    BY <2>1, <2>2
<1>9. ASSUME NEW a \in Addresses
      PROVE  cust2[a] # Free <=> \E k \in 1 .. K + 1 : a \in Held(rts2, ss2[k])
  <2>0. K + 1 \in 1 .. K + 1 /\ \A k \in 1 .. K : k \in 1 .. K + 1
    OBVIOUS
  <2>1. CASE a \in Held(rts2, s)
    BY <1>4, <2>0, <2>1, SoundAllocated
  <2>2. CASE a \notin Held(rts2, s)
    <3>1. cust2[a] = cust[a]
      BY <1>4, <2>2
    <3>2. (\E k \in 1 .. K + 1 : a \in Held(rts2, ss2[k])) <=> (\E k \in 1 .. K : a \in Held(rts, ss[k]))
      BY <1>0, <1>5, <2>0, <2>2
    <3> QED
      BY <1>3, <3>1, <3>2
  <2> QED
    BY <2>1, <2>2
<1> QED
  BY <1>4, <1>6, <1>7, <1>8, <1>9 DEF Heaped

\* The last solution is deleted (solution_delete).
LEMMA HeapShrinks ==
  ASSUME NEW cust, NEW rts, NEW ss, NEW K \in Nat, Heaped(cust, rts, ss, K + 1),
         NEW cust2, NEW rts2, NEW ss2, \A k \in 1 .. K : ss2[k] = ss[k],
         cust2 = [a \in Addresses |-> IF a \in Held(rts, ss[K + 1]) THEN Free ELSE cust[a]],
         rts2 = [r \in RouteAddresses |-> IF r \in RoutesOf(ss[K + 1]) THEN <<>> ELSE rts[r]]
  PROVE  Heaped(cust2, rts2, ss2, K)
<1>0. /\ K + 1 \in 1 .. K + 1
      /\ \A k \in 1 .. K : k \in 1 .. K + 1 /\ k # K + 1
      /\ \A k \in 1 .. K + 1 : k = K + 1 \/ k \in 1 .. K
  OBVIOUS
<1> DEFINE s == ss[K + 1]
<1>1. \A k \in 1 .. K + 1 : Sound(cust, rts, ss[k])
  BY DEF Heaped
<1>2. \A k, l \in 1 .. K + 1 : k # l => /\ RoutesOf(ss[k]) \cap RoutesOf(ss[l]) = {}
                                        /\ Held(rts, ss[k]) \cap Held(rts, ss[l]) = {}
  BY DEF Heaped
<1>3. /\ \A r \in RouteAddresses : rts[r] # <<>> <=> \E k \in 1 .. K + 1 : r \in RoutesOf(ss[k])
      /\ \A a \in Addresses : cust[a] # Free <=> \E k \in 1 .. K + 1 : a \in Held(rts, ss[k])
  BY DEF Heaped
<1>4. HeapTypes(cust2, rts2)
  <2>1. HeapTypes(cust, rts)
    BY DEF Heaped
  <2>2. <<>> \in Seq(Addresses)
    OBVIOUS
  <2> QED
    BY <2>1, <2>2 DEF HeapTypes
<1>5. ASSUME NEW k \in 1 .. K
      PROVE  Sound(cust2, rts2, ss2[k]) /\ Held(rts2, ss2[k]) = Held(rts, ss[k]) /\ ss2[k] = ss[k]
  <2>1. ss2[k] = ss[k] /\ Sound(cust, rts, ss[k])
    BY <1>0, <1>1
  <2>2. \A a \in Held(rts, ss[k]) : a \in Addresses
    BY <2>1, SoundAllocated
  <2>3. \A r \in RoutesOf(ss[k]) : r \in RouteAddresses
    BY <2>1, SoundAllocated
  <2>4. \A a \in Held(rts, ss[k]) : cust2[a] = cust[a]
    BY <1>0, <1>2, <2>2
  <2>5. \A r \in RoutesOf(ss[k]) : rts2[r] = rts[r]
    BY <1>0, <1>2, <2>3
  <2>6. Sound(cust2, rts2, ss[k]) /\ Held(rts2, ss[k]) = Held(rts, ss[k])
    BY ONLY <2>1, <2>4, <2>5, SoundFrame
  <2> QED
    BY <2>1, <2>6
<1>6. \A k, l \in 1 .. K : k # l => /\ RoutesOf(ss2[k]) \cap RoutesOf(ss2[l]) = {}
                                    /\ Held(rts2, ss2[k]) \cap Held(rts2, ss2[l]) = {}
  BY <1>0, <1>2, <1>5
<1>7. ASSUME NEW r \in RouteAddresses
      PROVE  rts2[r] # <<>> <=> \E k \in 1 .. K : r \in RoutesOf(ss2[k])
  <2>1. CASE r \in RoutesOf(s)
    <3>1. rts2[r] = <<>>
      BY <2>1
    <3>2. \A k \in 1 .. K : r \notin RoutesOf(ss2[k])
      BY <1>0, <1>2, <1>5, <2>1
    <3> QED
      BY <3>1, <3>2
  <2>2. CASE r \notin RoutesOf(s)
    <3>1. rts2[r] = rts[r]
      BY <2>2
    <3>2. (\E k \in 1 .. K + 1 : r \in RoutesOf(ss[k])) <=> (\E k \in 1 .. K : r \in RoutesOf(ss2[k]))
      BY <1>0, <1>5, <2>2
    <3> QED
      BY <1>3, <3>1, <3>2
  <2> QED
    BY <2>1, <2>2
<1>8. ASSUME NEW a \in Addresses
      PROVE  cust2[a] # Free <=> \E k \in 1 .. K : a \in Held(rts2, ss2[k])
  <2>1. CASE a \in Held(rts, s)
    <3>1. cust2[a] = Free
      BY <2>1
    <3>2. \A k \in 1 .. K : a \notin Held(rts2, ss2[k])
      BY <1>0, <1>2, <1>5, <2>1
    <3> QED
      BY <3>1, <3>2
  <2>2. CASE a \notin Held(rts, s)
    <3>1. cust2[a] = cust[a]
      BY <2>2
    <3>2. (\E k \in 1 .. K + 1 : a \in Held(rts, ss[k])) <=> (\E k \in 1 .. K : a \in Held(rts2, ss2[k]))
      BY <1>0, <1>5, <2>2
    <3> QED
      BY <1>3, <3>1, <3>2
  <2> QED
    BY <2>1, <2>2
<1> QED
  BY <1>4, <1>5, <1>6, <1>7, <1>8 DEF Heaped

\* The slots behind the routes may differ.
Alike(s, s2) ==
  /\ s2 \in Solutions
  /\ s2.w = s.w /\ s2.meta = s.meta /\ s2.pool = s.pool /\ s2.n_routes = s.n_routes
  /\ \A i \in 1 .. s.n_routes : s2.routes[i] = s.routes[i]

\* What lies behind the routes is of no account.
LEMMA AlikeSound ==
  ASSUME NEW cust, NEW rts, NEW s, Sound(cust, rts, s), NEW s2, Alike(s, s2)
  PROVE  Sound(cust, rts, s2) /\ Held(rts, s2) = Held(rts, s) /\ RoutesOf(s2) = RoutesOf(s)
<1>1. ListIndexes(s2) = ListIndexes(s)
  BY DEF Alike, ListIndexes
<1>2. \A i \in ListIndexes(s) : List(rts, s2, i) = List(rts, s, i)
  <2> SUFFICES ASSUME NEW i \in ListIndexes(s) PROVE List(rts, s2, i) = List(rts, s, i)
    OBVIOUS
  <2>1. s.n_routes \in Int
    BY SoundTypes
  <2>2. i = -1 \/ i = 0 \/ i \in 1 .. s.n_routes
    BY <2>1 DEF ListIndexes
  <2> QED
    BY <2>2 DEF List, Alike
<1>3. Held(rts, s2) = Held(rts, s)
  BY <1>1, <1>2 DEF Held
<1>4. RoutesOf(s2) = RoutesOf(s)
  BY DEF Alike, RoutesOf
<1>5. Slotted(s2)
  BY DEF Sound, Slotted, Alike
<1>6. GoodLists(cust, rts, s2) /\ Apart(rts, s2)
  BY <1>1, <1>2 DEF Sound, GoodLists, Apart
<1>7. Known(cust, s2, Held(rts, s2))
  BY <1>3 DEF Sound, Known, Alike
<1> QED
  BY <1>3, <1>4, <1>5, <1>6, <1>7 DEF Sound

\* The first solution and the last change places (solution_move).
LEMMA HeapSwaps ==
  ASSUME NEW cust, NEW rts, NEW ss, NEW K \in Nat, K >= 2, Heaped(cust, rts, ss, K),
         NEW ss2, Alike(ss[K], ss2[1]), Alike(ss[1], ss2[K]),
         \A k \in 2 .. K - 1 : ss2[k] = ss[k]
  PROVE  Heaped(cust, rts, ss2, K)
<1> DEFINE from(k) == IF k = 1 THEN K ELSE IF k = K THEN 1 ELSE k
<1>1. \A k \in 1 .. K : from(k) \in 1 .. K /\ from(from(k)) = k
  OBVIOUS
<1>2. \A k \in 1 .. K : Sound(cust, rts, ss[k])
  BY DEF Heaped
<1>3. ASSUME NEW k \in 1 .. K
      PROVE  /\ Sound(cust, rts, ss2[k]) /\ Held(rts, ss2[k]) = Held(rts, ss[from(k)])
             /\ RoutesOf(ss2[k]) = RoutesOf(ss[from(k)])
  <2>1. CASE k = 1
    <3>1. Sound(cust, rts, ss[K])
      BY <1>2
    <3> QED
      BY <2>1, <3>1, AlikeSound
  <2>2. CASE k = K
    <3>1. Sound(cust, rts, ss[1]) /\ from(k) = 1
      BY <1>2, <2>2
    <3> QED
      BY <2>2, <3>1, AlikeSound
  <2>3. CASE k # 1 /\ k # K
    <3>1. k \in 2 .. K - 1
      BY <2>3
    <3> QED
      BY <1>2, <2>3, <3>1
  <2> QED
    BY <2>1, <2>2, <2>3
<1> HIDE DEF from
<1>4. ASSUME NEW k \in 1 .. K, NEW l \in 1 .. K, k # l
      PROVE  /\ RoutesOf(ss2[k]) \cap RoutesOf(ss2[l]) = {}
             /\ Held(rts, ss2[k]) \cap Held(rts, ss2[l]) = {}
  <2>1. from(k) \in 1 .. K /\ from(l) \in 1 .. K /\ from(k) # from(l)
    BY <1>1, <1>4
  <2>2. /\ RoutesOf(ss[from(k)]) \cap RoutesOf(ss[from(l)]) = {}
        /\ Held(rts, ss[from(k)]) \cap Held(rts, ss[from(l)]) = {}
    BY <2>1 DEF Heaped
  <2> QED
    BY <1>3, <2>2
<1>5. ASSUME NEW r \in RouteAddresses
      PROVE  rts[r] # <<>> <=> \E k \in 1 .. K : r \in RoutesOf(ss2[k])
  <2>1. rts[r] # <<>> <=> \E k \in 1 .. K : r \in RoutesOf(ss[k])
    BY DEF Heaped
  <2> QED
    BY <1>1, <1>3, <2>1
<1>6. ASSUME NEW a \in Addresses
      PROVE  cust[a] # Free <=> \E k \in 1 .. K : a \in Held(rts, ss2[k])
  <2>1. cust[a] # Free <=> \E k \in 1 .. K : a \in Held(rts, ss[k])
    BY DEF Heaped
  <2> QED
    BY <1>1, <1>3, <2>1
<1> QED
  BY <1>3, <1>4, <1>5, <1>6 DEF Heaped

(***************************************************************************)
(* The room for three solutions: how much each holds, and that as many     *)
(* objects and routes are free as one more needs.                          *)
(***************************************************************************)

\* A function has no more values than arguments.
LEMMA ImageSize ==
  ASSUME NEW S, IsFiniteSet(S), NEW f
  PROVE  IsFiniteSet({f[x] : x \in S}) /\ Cardinality({f[x] : x \in S}) <= Cardinality(S)
<1> DEFINE T == {f[x] : x \in S}
           g == [x \in S |-> f[x]]
<1>1. g \in Surjection(S, T)
  BY DEF Surjection
<1> QED
  BY <1>1, FS_Surjection

\* A union is no larger than its parts.
LEMMA UnionSize ==
  ASSUME NEW S, IsFiniteSet(S), NEW T, IsFiniteSet(T), NEW U \in SUBSET (S \cup T)
  PROVE  /\ IsFiniteSet(U) /\ Cardinality(U) \in Nat
         /\ Cardinality(U) <= Cardinality(S) + Cardinality(T)
<1>1. /\ IsFiniteSet(S \cup T)
      /\ Cardinality(S \cup T) = Cardinality(S) + Cardinality(T) - Cardinality(S \cap T)
  BY FS_Union
<1>2. IsFiniteSet(S \cap T)
  BY FS_Intersection
<1>3. /\ Cardinality(S \cap T) \in Nat /\ Cardinality(S) \in Nat /\ Cardinality(T) \in Nat
  BY <1>2, FS_CardinalityType
<1>4. IsFiniteSet(U) /\ Cardinality(U) <= Cardinality(S \cup T)
  BY <1>1, FS_Subset
<1>5. Cardinality(U) \in Nat
  BY <1>4, FS_CardinalityType
<1> QED
  BY <1>1, <1>3, <1>4, <1>5

\* An interval of n numbers.
LEMMA IntervalSize ==
  ASSUME NEW m \in Nat
  PROVE  IsFiniteSet(1 .. m) /\ Cardinality(1 .. m) = m
<1>1. IsFiniteSet(1 .. m) /\ Cardinality(1 .. m) = IF 1 > m THEN 0 ELSE m - 1 + 1
  BY FS_Interval
<1>2. (IF 1 > m THEN 0 ELSE m - 1 + 1) = m
  OBVIOUS
<1> QED
  BY <1>1, <1>2

\* A solution has an object for each customer and two depots for each of its routes.
LEMMA SoundSize ==
  ASSUME NEW cust, NEW rts, NEW s, Sound(cust, rts, s)
  PROVE  /\ IsFiniteSet(Held(rts, s)) /\ Cardinality(Held(rts, s)) \in Nat
         /\ Cardinality(Held(rts, s)) <= 3 * n_customers
         /\ IsFiniteSet(RoutesOf(s)) /\ Cardinality(RoutesOf(s)) \in Nat
         /\ Cardinality(RoutesOf(s)) <= n_customers
<1>1. s.n_routes \in Nat /\ s.n_routes <= n_customers /\ n_customers \in Nat
  BY SoundTypes
<1> DEFINE N == 1 .. s.n_routes
           heads == [i \in N |-> List(rts, s, i)[1]]
           tails == [i \in N |-> List(rts, s, i)[Len(List(rts, s, i))]]
           H == {heads[i] : i \in N}
           T == {tails[i] : i \in N}
           M == {s.meta[id] : id \in Ids}
<1>2. IsFiniteSet(N) /\ Cardinality(N) = s.n_routes
  BY <1>1, IntervalSize
<1>3. IsFiniteSet(Ids) /\ Cardinality(Ids) = n_customers
  BY <1>1, IntervalSize DEF Ids
<1>4. /\ IsFiniteSet(H) /\ Cardinality(H) <= s.n_routes
      /\ IsFiniteSet(T) /\ Cardinality(T) <= s.n_routes
      /\ IsFiniteSet(M) /\ Cardinality(M) <= n_customers
      /\ IsFiniteSet(RoutesOf(s)) /\ Cardinality(RoutesOf(s)) <= s.n_routes
  <2> HIDE DEF heads, tails, N
  <2>1. IsFiniteSet(H) /\ Cardinality(H) <= Cardinality(N)
    BY <1>2, ImageSize
  <2>2. IsFiniteSet(T) /\ Cardinality(T) <= Cardinality(N)
    BY <1>2, ImageSize
  <2>3. IsFiniteSet(M) /\ Cardinality(M) <= Cardinality(Ids)
    BY <1>3, ImageSize
  <2>4. IsFiniteSet({s.routes[i] : i \in N}) /\ Cardinality({s.routes[i] : i \in N}) <= Cardinality(N)
    BY <1>2, ImageSize
  <2>5. RoutesOf(s) = {s.routes[i] : i \in N}
    BY DEF RoutesOf, N
  <2> QED
    BY <1>2, <1>3, <2>1, <2>2, <2>3, <2>4, <2>5
<1>5. Held(rts, s) \subseteq M \cup (H \cup T)
  <2> SUFFICES ASSUME NEW a \in Held(rts, s) PROVE a \in M \cup (H \cup T)
    OBVIOUS
  <2>1. CASE cust[a] # 0
    <3>1. cust[a] \in Ids /\ s.meta[cust[a]] = a
      BY <2>1 DEF Sound, Known
    <3> QED
      BY <3>1
  <2>2. CASE cust[a] = 0
    <3>1. PICK i \in ListIndexes(s) : a \in Elems(List(rts, s, i))
      BY DEF Held
    <3>2. PICK q : q = List(rts, s, i)
      OBVIOUS
    <3>3. Good(cust, q, i)
      BY <3>2 DEF Sound, GoodLists
    <3>4. PICK x \in 1 .. Len(q) : a = q[x]
      BY <3>1, <3>2 DEF Elems
    <3>5. i > 0 /\ x \in {1, Len(q)}
      BY <2>2, <3>3, <3>4 DEF Good
    <3>6. i \in N
      BY <1>1, <3>5 DEF ListIndexes
    <3>7. heads[i] = q[1] /\ tails[i] = q[Len(q)]
      BY <3>2, <3>6
    <3> HIDE DEF heads, tails, N
    <3>8. a = heads[i] \/ a = tails[i]
      BY <3>4, <3>5, <3>7
    <3> QED
      BY <3>6, <3>8
  <2> QED
    BY <2>1, <2>2
<1> HIDE DEF H, T, M
<1>6. /\ IsFiniteSet(H \cup T) /\ Cardinality(H \cup T) \in Nat
      /\ Cardinality(H \cup T) <= Cardinality(H) + Cardinality(T)
  <2>1. H \cup T \in SUBSET (H \cup T)
    OBVIOUS
  <2> QED
    BY <1>4, <2>1, UnionSize
<1>7. /\ IsFiniteSet(Held(rts, s)) /\ Cardinality(Held(rts, s)) \in Nat
      /\ Cardinality(Held(rts, s)) <= Cardinality(M) + Cardinality(H \cup T)
  BY <1>4, <1>5, <1>6, UnionSize
<1>8. /\ Cardinality(H) \in Nat /\ Cardinality(T) \in Nat /\ Cardinality(M) \in Nat
      /\ Cardinality(RoutesOf(s)) \in Nat
  BY <1>4, FS_CardinalityType
<1> QED
  BY <1>1, <1>4, <1>6, <1>7, <1>8

FreeObjects(cust) == {a \in Addresses : cust[a] = Free}
FreeRoutes(rts) == {r \in RouteAddresses : rts[r] = <<>>}

\* There is memory for one solution more beside two of them.
LEMMA HeapFree ==
  ASSUME NEW cust, NEW rts, NEW ss, NEW K \in 0 .. 2, Heaped(cust, rts, ss, K)
  PROVE  /\ Cardinality(FreeObjects(cust)) >= 3 * n_customers
         /\ Cardinality(FreeRoutes(rts)) >= n_customers
<1>1. n_customers \in Nat /\ MaxSolutions \in Nat /\ MaxSolutions >= 3
  BY ObjectsAssumption
<1> DEFINE used(k) == IF k <= K THEN Held(rts, ss[k]) ELSE {}
           taken(k) == IF k <= K THEN RoutesOf(ss[k]) ELSE {}
<1>2. ASSUME NEW k \in 1 .. 2
      PROVE  /\ IsFiniteSet(used(k)) /\ Cardinality(used(k)) \in Nat
             /\ Cardinality(used(k)) <= 3 * n_customers
             /\ IsFiniteSet(taken(k)) /\ Cardinality(taken(k)) \in Nat
             /\ Cardinality(taken(k)) <= n_customers
  <2>1. CASE k <= K
    <3>1. k \in 1 .. K
      BY <2>1
    <3>2. Sound(cust, rts, ss[k])
      BY <3>1 DEF Heaped
    <3> QED
      BY <2>1, <3>2, SoundSize
  <2>2. CASE ~(k <= K)
    BY <1>1, <2>2, FS_EmptySet
  <2> QED
    BY <2>1, <2>2
<1>3. Addresses \subseteq FreeObjects(cust) \cup (used(1) \cup used(2))
  <2> SUFFICES ASSUME NEW a \in Addresses, cust[a] # Free PROVE a \in used(1) \cup used(2)
    BY DEF FreeObjects
  <2>1. PICK k \in 1 .. K : a \in Held(rts, ss[k])
    BY DEF Heaped
  <2>2. k = 1 \/ k = 2
    OBVIOUS
  <2> QED
    BY <2>1, <2>2
<1>4. RouteAddresses \subseteq FreeRoutes(rts) \cup (taken(1) \cup taken(2))
  <2> SUFFICES ASSUME NEW r \in RouteAddresses, rts[r] # <<>> PROVE r \in taken(1) \cup taken(2)
    BY DEF FreeRoutes
  <2>1. PICK k \in 1 .. K : r \in RoutesOf(ss[k])
    BY DEF Heaped
  <2>2. k = 1 \/ k = 2
    OBVIOUS
  <2> QED
    BY <2>1, <2>2
<1> HIDE DEF used, taken
<1>5. /\ 3 * n_customers * MaxSolutions \in Nat /\ n_customers * MaxSolutions \in Nat
      /\ 3 * n_customers * MaxSolutions >= 9 * n_customers
      /\ n_customers * MaxSolutions >= 3 * n_customers
  BY <1>1, SMT
<1>6. /\ IsFiniteSet(Addresses) /\ Cardinality(Addresses) >= 9 * n_customers
      /\ IsFiniteSet(RouteAddresses) /\ Cardinality(RouteAddresses) >= 3 * n_customers
  BY <1>5, IntervalSize DEF Addresses, RouteAddresses
<1>7. /\ IsFiniteSet(FreeObjects(cust)) /\ IsFiniteSet(FreeRoutes(rts))
  BY <1>6, FS_Subset DEF FreeObjects, FreeRoutes
<1>8. /\ IsFiniteSet(used(1) \cup used(2)) /\ Cardinality(used(1) \cup used(2)) \in Nat
      /\ Cardinality(used(1) \cup used(2)) <= Cardinality(used(1)) + Cardinality(used(2))
  <2>1. used(1) \cup used(2) \in SUBSET (used(1) \cup used(2))
    OBVIOUS
  <2> QED
    BY <1>2, <2>1, UnionSize
<1>9. /\ IsFiniteSet(taken(1) \cup taken(2)) /\ Cardinality(taken(1) \cup taken(2)) \in Nat
      /\ Cardinality(taken(1) \cup taken(2)) <= Cardinality(taken(1)) + Cardinality(taken(2))
  <2>1. taken(1) \cup taken(2) \in SUBSET (taken(1) \cup taken(2))
    OBVIOUS
  <2> QED
    BY <1>2, <2>1, UnionSize
<1>10. /\ Cardinality(Addresses) \in Nat
       /\ Cardinality(Addresses) <= Cardinality(FreeObjects(cust)) + Cardinality(used(1) \cup used(2))
  BY <1>3, <1>7, <1>8, UnionSize
<1>11. /\ Cardinality(RouteAddresses) \in Nat
       /\ Cardinality(RouteAddresses) <= Cardinality(FreeRoutes(rts)) + Cardinality(taken(1) \cup taken(2))
  BY <1>4, <1>7, <1>9, UnionSize
<1>12. Cardinality(FreeObjects(cust)) \in Nat /\ Cardinality(FreeRoutes(rts)) \in Nat
  BY <1>7, FS_CardinalityType
<1>13. /\ Cardinality(used(1)) \in Nat /\ Cardinality(used(1)) <= 3 * n_customers
       /\ Cardinality(used(2)) \in Nat /\ Cardinality(used(2)) <= 3 * n_customers
       /\ Cardinality(taken(1)) \in Nat /\ Cardinality(taken(1)) <= n_customers
       /\ Cardinality(taken(2)) \in Nat /\ Cardinality(taken(2)) <= n_customers
  BY <1>2
<1> QED
  BY <1>1, <1>6, <1>8, <1>9, <1>10, <1>11, <1>12, <1>13

(***************************************************************************)
(* A solution is built from the ids in its lists.                          *)
(***************************************************************************)
IdList(w, pool, ids, i) ==
  IF i = -1 THEN (IF w = NULL THEN <<>> ELSE <<w>>) ELSE IF i = 0 THEN pool ELSE ids[i]

IdIndexes(ids) == -1 .. Len(ids)

\* Each customer is in one place.
Described(w, pool, ids) ==
  /\ w \in Ids \cup {NULL} /\ pool \in Seq(Ids)
  /\ ids \in Seq(Seq(Ids)) /\ Len(ids) <= n_customers
  /\ \A i \in IdIndexes(ids) : Distinct(IdList(w, pool, ids, i))
  /\ \A i, j \in IdIndexes(ids) :
       i # j => Elems(IdList(w, pool, ids, i)) \cap Elems(IdList(w, pool, ids, j)) = {}
  /\ \A id \in Ids : \E i \in IdIndexes(ids) : id \in Elems(IdList(w, pool, ids, i))

OneToOne(f) == \A x, y \in DOMAIN f : f[x] = f[y] => x = y

Mapped(f, q) == [j \in DOMAIN q |-> f[q[j]]]

\* The objects of distinct customers are distinct.
LEMMA MappedElems ==
  ASSUME NEW C, NEW D, NEW f \in [C -> D], OneToOne(f), NEW q \in Seq(C), Distinct(q)
  PROVE  /\ Mapped(f, q) \in Seq(D) /\ Len(Mapped(f, q)) = Len(q)
         /\ \A j \in 1 .. Len(q) : Mapped(f, q)[j] = f[q[j]] /\ q[j] \in C
         /\ Distinct(Mapped(f, q))
         /\ Elems(Mapped(f, q)) = {f[c] : c \in Elems(q)}
<1>1. DOMAIN q = 1 .. Len(q) /\ Len(q) \in Nat /\ \A j \in 1 .. Len(q) : q[j] \in C
  OBVIOUS
<1>2. Mapped(f, q) = [j \in 1 .. Len(q) |-> f[q[j]]]
  BY <1>1 DEF Mapped
<1>3. Mapped(f, q) \in Seq(D) /\ Len(Mapped(f, q)) = Len(q)
  BY <1>1, <1>2
<1>4. \A j \in 1 .. Len(q) : Mapped(f, q)[j] = f[q[j]] /\ q[j] \in C
  BY <1>1, <1>2
<1>5. \A c, d \in C : f[c] = f[d] => c = d
  BY DEF OneToOne
<1>6. Distinct(Mapped(f, q))
  BY <1>3, <1>4, <1>5 DEF Distinct
<1>7. Elems(Mapped(f, q)) = {f[c] : c \in Elems(q)}
  BY <1>3, <1>4 DEF Elems
<1> QED
  BY <1>3, <1>4, <1>6, <1>7

\* A list between two depots.
Between(h, q, t) == <<h>> \o q \o <<t>>

\* Two objects that differ and stand outside a list can enclose it.
LEMMA BetweenElems ==
  ASSUME NEW D, NEW h \in D, NEW t \in D, NEW q \in Seq(D), Distinct(q),
         h # t, h \notin Elems(q), t \notin Elems(q)
  PROVE  /\ Between(h, q, t) \in Seq(D) /\ Len(Between(h, q, t)) = Len(q) + 2
         /\ Between(h, q, t)[1] = h /\ Between(h, q, t)[Len(q) + 2] = t
         /\ \A x \in 2 .. Len(q) + 1 : Between(h, q, t)[x] = q[x - 1]
         /\ Distinct(Between(h, q, t))
         /\ Elems(Between(h, q, t)) = {h, t} \cup Elems(q)
<1>1. PICK n \in Nat : n = Len(q)
  OBVIOUS
<1> DEFINE b == Between(h, q, t)
<1>2. /\ b \in Seq(D) /\ Len(b) = n + 2
      /\ b[1] = h /\ b[n + 2] = t
      /\ \A x \in 2 .. n + 1 : b[x] = q[x - 1]
  BY <1>1 DEF Between
<1> HIDE DEF b
<1>3. \A x \in 1 .. n + 2 : x = 1 \/ x = n + 2 \/ x \in 2 .. n + 1
  OBVIOUS
<1>4. \A x \in 2 .. n + 1 : x - 1 \in 1 .. n
  OBVIOUS
<1>5. \A x \in 1 .. n : x + 1 \in 2 .. n + 1 /\ (x + 1) - 1 = x /\ x + 1 \in 1 .. n + 2
  OBVIOUS
<1>6. Distinct(b)
  <2> SUFFICES ASSUME NEW x \in 1 .. n + 2, NEW y \in 1 .. n + 2, b[x] = b[y] PROVE x = y
    BY <1>2 DEF Distinct
  <2>1. \A z \in 2 .. n + 1 : b[z] # h /\ b[z] # t
    BY <1>1, <1>2, <1>4 DEF Elems
  <2>2. \A u, v \in 2 .. n + 1 : b[u] = b[v] => u = v
    <3> SUFFICES ASSUME NEW u \in 2 .. n + 1, NEW v \in 2 .. n + 1, b[u] = b[v] PROVE u = v
      OBVIOUS
    <3>1. q[u - 1] = q[v - 1]
      BY <1>2
    <3>2. u - 1 = v - 1
      BY <1>1, <1>4, <3>1 DEF Distinct
    <3> QED
      BY <3>2
  <2> QED
    BY <1>2, <1>3, <2>1, <2>2
<1>7. Elems(b) = {h, t} \cup Elems(q)
  <2>1. Elems(b) = {b[x] : x \in 1 .. n + 2} /\ Elems(q) = {q[x] : x \in 1 .. n}
    BY <1>1, <1>2 DEF Elems
  <2>2. \A x \in 1 .. n + 2 : b[x] \in {h, t} \cup Elems(q)
    BY <1>2, <1>3, <1>4, <2>1
  <2>3. \A x \in 1 .. n : q[x] \in Elems(b)
    BY <1>2, <1>5, <2>1
  <2>4. h \in Elems(b) /\ t \in Elems(b)
    <3>1. 1 \in 1 .. n + 2 /\ n + 2 \in 1 .. n + 2
      OBVIOUS
    <3> QED
      BY <1>2, <2>1, <3>1
  <2> QED
    BY <2>1, <2>2, <2>3, <2>4
<1> QED
  BY <1>1, <1>2, <1>6, <1>7 DEF b

(***************************************************************************)
(* A new solution in free memory.                                          *)
(***************************************************************************)

\* Where the objects of a new solution are, and what is there.
Laid(cust, rts, s, w, pool, ids, meta, head, tail, at) ==
  /\ meta \in [Ids -> Addresses] /\ OneToOne(meta)
  /\ head \in [1 .. Len(ids) -> Addresses] /\ OneToOne(head)
  /\ tail \in [1 .. Len(ids) -> Addresses] /\ OneToOne(tail)
  /\ Range(meta) \cap Range(head) = {} /\ Range(meta) \cap Range(tail) = {}
  /\ Range(head) \cap Range(tail) = {}
  /\ at \in [1 .. Len(ids) -> RouteAddresses] /\ OneToOne(at)
  /\ \A id \in Ids : cust[meta[id]] = id
  /\ \A i \in 1 .. Len(ids) : /\ cust[head[i]] = 0 /\ cust[tail[i]] = 0
                              /\ rts[at[i]] = Between(head[i], Mapped(meta, ids[i]), tail[i])
  /\ s = [w |-> IF w = NULL THEN NULL ELSE meta[w], meta |-> meta, pool |-> Mapped(meta, pool),
          n_routes |-> Len(ids), routes |-> [i \in Slots |-> IF i \in 1 .. Len(ids) THEN at[i] ELSE NULL]]

\* Then it is sound.
LEMMA LaidSound ==
  ASSUME NEW w, NEW pool, NEW ids, Described(w, pool, ids),
         NEW cust, NEW rts, NEW s, NEW meta, NEW head, NEW tail, NEW at,
         Laid(cust, rts, s, w, pool, ids, meta, head, tail, at)
  PROVE  /\ Sound(cust, rts, s)
         /\ Held(rts, s) = Range(meta) \cup Range(head) \cup Range(tail)
         /\ RoutesOf(s) = Range(at)
<1>0. n_customers \in Nat \ {0}
  BY ObjectsAssumption
<1>1. PICK M \in Nat : M = Len(ids) /\ M <= n_customers
  BY <1>0 DEF Described
<1>2. /\ w \in Ids \cup {NULL} /\ NULL \notin Ids
      /\ pool \in Seq(Ids) /\ \A i \in 1 .. M : ids[i] \in Seq(Ids)
  BY <1>1 DEF Described, NULL, Ids
<1>3. /\ meta \in [Ids -> Addresses] /\ OneToOne(meta)
      /\ head \in [1 .. M -> Addresses] /\ OneToOne(head)
      /\ tail \in [1 .. M -> Addresses] /\ OneToOne(tail)
      /\ Range(meta) \cap Range(head) = {} /\ Range(meta) \cap Range(tail) = {}
      /\ Range(head) \cap Range(tail) = {}
      /\ at \in [1 .. M -> RouteAddresses] /\ OneToOne(at)
      /\ \A id \in Ids : cust[meta[id]] = id
      /\ \A i \in 1 .. M : /\ cust[head[i]] = 0 /\ cust[tail[i]] = 0
                           /\ rts[at[i]] = Between(head[i], Mapped(meta, ids[i]), tail[i])
  BY <1>1 DEF Laid
<1>4. s = [w |-> IF w = NULL THEN NULL ELSE meta[w], meta |-> meta, pool |-> Mapped(meta, pool),
           n_routes |-> M, routes |-> [i \in Slots |-> IF i \in 1 .. M THEN at[i] ELSE NULL]]
  BY <1>1 DEF Laid
<1>5. /\ s.w = (IF w = NULL THEN NULL ELSE meta[w]) /\ s.meta = meta
      /\ s.pool = Mapped(meta, pool) /\ s.n_routes = M
      /\ \A i \in 1 .. M : s.routes[i] = at[i]
  <2>1. \A i \in 1 .. M : i \in Slots
    BY <1>0, <1>1 DEF Slots
  <2> QED
    BY <1>4, <2>1
<1>6. ListIndexes(s) = -1 .. M /\ IdIndexes(ids) = -1 .. M
  BY <1>1, <1>5 DEF ListIndexes, IdIndexes
<1> DEFINE I == -1 .. M
           id(i) == IdList(w, pool, ids, i)
           list(i) == List(rts, s, i)
           ends(i) == IF i > 0 THEN {head[i], tail[i]} ELSE {}
<1>7. \A i \in I : i = -1 \/ i = 0 \/ i \in 1 .. M
  BY <1>1
<1>8. \A i \in I : id(i) \in Seq(Ids) /\ Distinct(id(i))
  <2> SUFFICES ASSUME NEW i \in I PROVE id(i) \in Seq(Ids) /\ Distinct(id(i))
    OBVIOUS
  <2>1. Distinct(id(i))
    BY <1>6 DEF Described
  <2>2. i = -1 /\ w # NULL => id(i) = <<w>> /\ w \in Ids
    BY <1>2 DEF IdList
  <2>3. i = -1 /\ w = NULL => id(i) = <<>>
    BY DEF IdList
  <2>4. i = 0 => id(i) = pool
    BY DEF IdList
  <2>5. i \in 1 .. M => id(i) = ids[i]
    BY DEF IdList
  <2>6. <<>> \in Seq(Ids) /\ \A c \in Ids : <<c>> \in Seq(Ids)
    OBVIOUS
  <2> QED
    BY <1>2, <1>7, <2>1, <2>2, <2>3, <2>4, <2>5, <2>6
<1>9. ASSUME NEW i \in I
      PROVE  /\ Mapped(meta, id(i)) \in Seq(Addresses) /\ Len(Mapped(meta, id(i))) = Len(id(i))
             /\ \A j \in 1 .. Len(id(i)) : Mapped(meta, id(i))[j] = meta[id(i)[j]] /\ id(i)[j] \in Ids
             /\ Distinct(Mapped(meta, id(i)))
             /\ Elems(Mapped(meta, id(i))) = {meta[c] : c \in Elems(id(i))}
             /\ Elems(Mapped(meta, id(i))) \subseteq Range(meta)
  <2>1. PICK q \in Seq(Ids) : q = id(i) /\ Distinct(q)
    BY <1>8
  <2>2. /\ Mapped(meta, q) \in Seq(Addresses) /\ Len(Mapped(meta, q)) = Len(q)
        /\ \A j \in 1 .. Len(q) : Mapped(meta, q)[j] = meta[q[j]] /\ q[j] \in Ids
        /\ Distinct(Mapped(meta, q))
        /\ Elems(Mapped(meta, q)) = {meta[c] : c \in Elems(q)}
    <3>1. meta \in [Ids -> Addresses] /\ OneToOne(meta)
      BY <1>3
    <3>2. q \in Seq(Ids) /\ Distinct(q)
      BY <2>1
    <3> QED
      BY ONLY <3>1, <3>2, MappedElems
  <2>3. Elems(q) \subseteq Ids
    BY <2>1 DEF Elems
  <2>4. Elems(Mapped(meta, q)) \subseteq Range(meta)
    BY <1>3, <2>2, <2>3 DEF Range
  <2> QED
    BY <2>1, <2>2, <2>4
<1>10. ASSUME NEW i \in I, i <= 0 PROVE list(i) = Mapped(meta, id(i))
  <2>1. CASE i = -1 /\ w = NULL
    <3>1. list(i) = <<>> /\ id(i) = <<>>
      BY <1>5, <2>1 DEF List, IdList
    <3>2. Mapped(meta, <<>>) = <<>>
      BY DEF Mapped
    <3> QED
      BY <3>1, <3>2
  <2>2. CASE i = -1 /\ w # NULL
    <3>1. w \in Ids /\ meta[w] \in Addresses /\ meta[w] # NULL
      BY <1>2, <1>3, <2>2 DEF NULL, Addresses
    <3>2. list(i) = <<meta[w]>> /\ id(i) = <<w>>
      BY <1>5, <2>2, <3>1 DEF List, IdList
    <3>3. Mapped(meta, <<w>>) = <<meta[w]>>
      BY DEF Mapped
    <3> QED
      BY <3>2, <3>3
  <2>3. CASE i = 0
    BY <1>5, <2>3 DEF List, IdList
  <2> QED
    BY <1>7, <1>10, <2>1, <2>2, <2>3
<1>11. ASSUME NEW i \in 1 .. M
       PROVE  /\ list(i) = Between(head[i], Mapped(meta, id(i)), tail[i])
              /\ head[i] \in Addresses /\ tail[i] \in Addresses /\ head[i] # tail[i]
              /\ head[i] \notin Range(meta) /\ tail[i] \notin Range(meta)
              /\ cust[head[i]] = 0 /\ cust[tail[i]] = 0
  <2>1. list(i) = rts[at[i]] /\ id(i) = ids[i]
    BY <1>5 DEF List, IdList
  <2>2. head[i] \in Range(head) /\ tail[i] \in Range(tail)
    BY <1>3 DEF Range
  <2> QED
    BY <1>3, <2>1, <2>2
<1>12. \A c \in Ids : cust[meta[c]] # 0
  BY <1>3 DEF Ids
<1> HIDE DEF id, list
<1>13. ASSUME NEW i \in I
       PROVE  /\ Good(cust, list(i), i)
              /\ Elems(list(i)) = ends(i) \cup {meta[c] : c \in Elems(id(i))}
  <2>1. PICK q : q = Mapped(meta, id(i))
    OBVIOUS
  <2>2. /\ q \in Seq(Addresses) /\ Distinct(q)
        /\ Elems(q) = {meta[c] : c \in Elems(id(i))} /\ Elems(q) \subseteq Range(meta)
        /\ \A j \in 1 .. Len(q) : cust[q[j]] # 0
    BY <1>9, <1>12, <2>1
  <2>3. CASE i <= 0
    <3>1. list(i) = q /\ ~(i > 0)
      BY <1>10, <2>1, <2>3
    <3> QED
      BY <2>2, <3>1 DEF Good
  <2>4. CASE i \in 1 .. M
    <3>1. PICK b : b = Between(head[i], q, tail[i])
      OBVIOUS
    <3>2. head[i] # tail[i] /\ head[i] \notin Elems(q) /\ tail[i] \notin Elems(q)
      BY <1>11, <2>2, <2>4
    <3>3. /\ b \in Seq(Addresses) /\ Len(b) = Len(q) + 2
          /\ b[1] = head[i] /\ b[Len(q) + 2] = tail[i]
          /\ \A x \in 2 .. Len(q) + 1 : b[x] = q[x - 1]
          /\ Distinct(b) /\ Elems(b) = {head[i], tail[i]} \cup Elems(q)
      BY <1>11, <2>2, <2>4, <3>1, <3>2, BetweenElems
    <3>4. PICK n \in Nat : n = Len(q)
      BY <2>2
    <3>5. \A x \in 1 .. n + 2 : cust[b[x]] = 0 <=> x \in {1, n + 2}
      <4> SUFFICES ASSUME NEW x \in 1 .. n + 2 PROVE cust[b[x]] = 0 <=> x \in {1, n + 2}
        OBVIOUS
      <4>1. CASE x \in {1, n + 2}
        BY <1>11, <2>4, <3>3, <3>4, <4>1
      <4>2. CASE x \notin {1, n + 2}
        <5>1. x \in 2 .. n + 1 /\ x - 1 \in 1 .. n
          BY <4>2
        <5> QED
          BY <2>2, <3>3, <3>4, <4>2, <5>1
      <4> QED
        BY <4>1, <4>2
    <3>6. i > 0 /\ Len(b) >= 2
      BY <2>4, <3>3, <3>4
    <3>7. Good(cust, b, i)
      BY <3>3, <3>4, <3>5, <3>6 DEF Good
    <3> QED
      BY <1>11, <2>1, <2>2, <2>4, <3>1, <3>3, <3>6, <3>7
  <2> QED
    BY <1>7, <2>3, <2>4
<1>14. ASSUME NEW i \in I, NEW j \in I, i # j PROVE Elems(list(i)) \cap Elems(list(j)) = {}
  <2> SUFFICES ASSUME NEW a, a \in Elems(list(i)), a \in Elems(list(j)) PROVE FALSE
    OBVIOUS
  <2>1. a \in ends(i) \cup {meta[c] : c \in Elems(id(i))} /\ a \in ends(j) \cup {meta[c] : c \in Elems(id(j))}
    BY <1>13
  <2>2. \A k \in I : {meta[c] : c \in Elems(id(k))} \subseteq Range(meta)
    BY <1>9
  <2>3. \A k \in I : ends(k) \cap Range(meta) = {}
    BY <1>7, <1>11
  <2>4. CASE a \in Range(meta)
    <3>1. PICK c \in Elems(id(i)), d \in Elems(id(j)) : a = meta[c] /\ a = meta[d]
      BY <2>1, <2>3, <2>4
    <3>2. c \in Ids /\ d \in Ids
      BY <1>8 DEF Elems
    <3>3. c = d
      <4>1. meta \in [Ids -> Addresses] /\ OneToOne(meta)
        BY <1>3
      <4>2. meta[c] = meta[d] /\ c \in DOMAIN meta /\ d \in DOMAIN meta
        BY <3>1, <3>2, <4>1
      <4> QED
        BY <4>1, <4>2 DEF OneToOne
    <3>4. Elems(id(i)) \cap Elems(id(j)) = {}
      BY <1>6, <1>14 DEF Described, id
    <3> QED
      BY <3>3, <3>4
  <2>5. CASE a \notin Range(meta)
    <3>1. a \in ends(i) /\ a \in ends(j)
      BY <2>1, <2>2, <2>5
    <3>2. i \in 1 .. M /\ j \in 1 .. M /\ a \in {head[i], tail[i]} /\ a \in {head[j], tail[j]}
      BY <1>7, <3>1
    <3>3. head[i] # head[j] /\ tail[i] # tail[j]
      BY <1>3, <1>14, <3>2 DEF OneToOne
    <3>4. head[i] \in Range(head) /\ head[j] \in Range(head) /\ tail[i] \in Range(tail) /\ tail[j] \in Range(tail)
      BY <1>3, <3>2 DEF Range
    <3> QED
      BY <1>3, <3>2, <3>3, <3>4
  <2> QED
    BY <2>4, <2>5
<1>15. RoutesOf(s) = Range(at)
  BY <1>3, <1>5 DEF RoutesOf, Range
<1>16. Slotted(s)
  <2>1. s.w \in Addresses \cup {NULL}
    BY <1>2, <1>3, <1>5
  <2>2. s.pool \in Seq(Addresses)
    <3>1. 0 \in I /\ id(0) = pool
      BY DEF id, IdList
    <3> QED
      BY <1>5, <1>9, <3>1
  <2>3. M \in 0 .. n_customers
    BY <1>0, <1>1
  <2>4. [i \in Slots |-> IF i \in 1 .. M THEN at[i] ELSE NULL] \in [Slots -> RouteAddresses \cup {NULL}]
    BY <1>3
  <2>5. s \in Solutions
    BY <1>3, <1>4, <1>5, <2>1, <2>2, <2>3, <2>4 DEF Solutions
  <2>6. \A i, j \in 1 .. M : at[i] \in RouteAddresses /\ (at[i] = at[j] => i = j)
    BY <1>3 DEF OneToOne
  <2> QED
    BY <1>5, <2>5, <2>6 DEF Slotted
<1>17. GoodLists(cust, rts, s) /\ Apart(rts, s)
  BY <1>6, <1>13, <1>14 DEF GoodLists, Apart, list
<1>18. Held(rts, s) = UNION {Elems(list(i)) : i \in I}
  BY <1>6 DEF Held, list
<1>19. \A c \in Ids : \E i \in I : meta[c] \in Elems(list(i))
  <2> SUFFICES ASSUME NEW c \in Ids PROVE \E i \in I : meta[c] \in Elems(list(i))
    OBVIOUS
  <2>1. PICK i \in I : c \in Elems(id(i))
    BY <1>6 DEF Described, id
  <2> QED
    BY <1>13, <2>1
<1>20. Held(rts, s) = Range(meta) \cup Range(head) \cup Range(tail)
  <2>1. ASSUME NEW i \in I, NEW a \in Elems(list(i))
        PROVE  a \in Range(meta) \cup Range(head) \cup Range(tail)
    <3>1. a \in ends(i) \cup {meta[c] : c \in Elems(id(i))}
      BY <1>13, <2>1
    <3>2. {meta[c] : c \in Elems(id(i))} \subseteq Range(meta)
      BY <1>9
    <3>3. a \in ends(i) => i \in 1 .. M /\ a \in {head[i], tail[i]}
      BY <1>7
    <3> QED
      BY <1>3, <3>1, <3>2, <3>3 DEF Range
  <2>2. ASSUME NEW a \in Range(meta) PROVE \E i \in I : a \in Elems(list(i))
    BY <1>3, <1>19, <2>2 DEF Range
  <2>3. ASSUME NEW a \in Range(head) \cup Range(tail) PROVE \E i \in I : a \in Elems(list(i))
    <3>1. PICK i \in 1 .. M : a = head[i] \/ a = tail[i]
      BY <1>3 DEF Range
    <3>2. i \in I /\ i > 0
      BY <1>1
    <3>3. a \in Elems(list(i))
      BY <1>13, <3>1, <3>2
    <3> QED
      BY <3>2, <3>3
  <2> QED
    BY <1>18, <2>1, <2>2, <2>3
<1>21. Known(cust, s, Held(rts, s))
  <2>1. \A c \in Ids : s.meta[c] \in Held(rts, s) /\ cust[s.meta[c]] = c
    BY <1>3, <1>5, <1>20 DEF Range
  <2>2. ASSUME NEW a \in Held(rts, s), cust[a] # 0 PROVE cust[a] \in Ids /\ s.meta[cust[a]] = a
    <3>1. a \notin Range(head) /\ a \notin Range(tail)
      BY <1>3, <2>2 DEF Range
    <3>2. PICK c \in Ids : a = meta[c]
      BY <1>3, <1>20, <3>1 DEF Range
    <3> QED
      BY <1>3, <1>5, <3>2
  <2> QED
    BY <2>1, <2>2 DEF Known
<1> QED
  BY <1>15, <1>16, <1>17, <1>20, <1>21 DEF Sound

\* Allocations from here on give free addresses, and none twice.
LEMMA Allocates ==
  ASSUME NEW cust, Cardinality(FreeObjects(cust)) >= 3 * n_customers,
         NEW rts, Cardinality(FreeRoutes(rts)) >= n_customers,
         NEW mem, mem.customers = cust, mem.routes = rts
  PROVE  /\ \A k \in 1 .. 3 * n_customers : malloc(mem, k) \in Addresses /\ cust[malloc(mem, k)] = Free
         /\ \A k, l \in 1 .. 3 * n_customers : malloc(mem, k) = malloc(mem, l) => k = l
         /\ \A k \in 1 .. n_customers :
              route_new(mem, k) \in RouteAddresses /\ rts[route_new(mem, k)] = <<>>
         /\ \A k, l \in 1 .. n_customers : route_new(mem, k) = route_new(mem, l) => k = l
<1>1. n_customers \in Nat /\ MaxSolutions \in Nat
  BY ObjectsAssumption
<1>2. 3 * n_customers * MaxSolutions \in Nat /\ n_customers * MaxSolutions \in Nat
  BY <1>1, SMT
<1> DEFINE F == FreeObjects(cust)
           G == FreeRoutes(rts)
<1>3. F \in SUBSET (1 .. 3 * n_customers * MaxSolutions)
  BY DEF FreeObjects, Addresses
<1>4. G \in SUBSET (1 .. n_customers * MaxSolutions)
  BY DEF FreeRoutes, RouteAddresses
<1>5. \A k : malloc(mem, k) = Nth(F, k) /\ route_new(mem, k) = Nth(G, k)
  BY DEF malloc, route_new, FreeObjects, FreeRoutes
<1>6. \A a \in F : a \in Addresses /\ cust[a] = Free
  BY DEF FreeObjects
<1>7. \A r \in G : r \in RouteAddresses /\ rts[r] = <<>>
  BY DEF FreeRoutes
<1> HIDE DEF F, G
<1>8. /\ Cardinality(F) \in Nat
      /\ \A k \in 1 .. Cardinality(F) : Nth(F, k) \in F
      /\ \A k, l \in 1 .. Cardinality(F) : Nth(F, k) = Nth(F, l) => k = l
  BY <1>2, <1>3, NthFacts
<1>9. /\ Cardinality(G) \in Nat
      /\ \A k \in 1 .. Cardinality(G) : Nth(G, k) \in G
      /\ \A k, l \in 1 .. Cardinality(G) : Nth(G, k) = Nth(G, l) => k = l
  BY <1>2, <1>4, NthFacts
<1>10. Cardinality(F) >= 3 * n_customers /\ Cardinality(G) >= n_customers
  BY DEF F, G
<1>11. \A k \in 1 .. 3 * n_customers : k \in 1 .. Cardinality(F)
  BY <1>1, <1>8, <1>10
<1>12. \A k \in 1 .. n_customers : k \in 1 .. Cardinality(G)
  BY <1>1, <1>9, <1>10
<1>13. \A k \in 1 .. 3 * n_customers : malloc(mem, k) \in Addresses /\ cust[malloc(mem, k)] = Free
  BY <1>5, <1>6, <1>8, <1>11
<1>14. \A k, l \in 1 .. 3 * n_customers : malloc(mem, k) = malloc(mem, l) => k = l
  BY <1>5, <1>8, <1>11
<1>15. \A k \in 1 .. n_customers :
         route_new(mem, k) \in RouteAddresses /\ rts[route_new(mem, k)] = <<>>
  BY <1>5, <1>7, <1>9, <1>12
<1>16. \A k, l \in 1 .. n_customers : route_new(mem, k) = route_new(mem, l) => k = l
  BY <1>5, <1>9, <1>12
<1> QED
  BY <1>13, <1>14, <1>15, <1>16

\* What is built of a description is laid out so, in memory that was free.
LEMMA BuiltJoins ==
  ASSUME NEW cust, NEW rts, HeapTypes(cust, rts),
         Cardinality(FreeObjects(cust)) >= 3 * n_customers,
         Cardinality(FreeRoutes(rts)) >= n_customers,
         NEW mem, mem.customers = cust, mem.routes = rts,
         NEW w, NEW pool, NEW ids, Described(w, pool, ids),
         NEW b, b = Built(mem, w, pool, ids)
  PROVE  /\ Joins(cust, rts, b.mem.customers, b.mem.routes, b.s)
         /\ b.mem = [customers |-> b.mem.customers, routes |-> b.mem.routes]
         /\ w = NULL => b.s.w = NULL
         /\ pool = <<>> => b.s.pool = <<>>
<1>0. n_customers \in Nat \ {0}
  BY ObjectsAssumption
<1>1. PICK M \in Nat : M = Len(ids) /\ M <= n_customers
  BY <1>0 DEF Described
<1>2. ids \in Seq(Seq(Ids)) /\ DOMAIN ids = 1 .. M /\ pool \in Seq(Ids)
  BY <1>1 DEF Described
<1>3. /\ \A k \in 1 .. 3 * n_customers : malloc(mem, k) \in Addresses /\ cust[malloc(mem, k)] = Free
      /\ \A k, l \in 1 .. 3 * n_customers : malloc(mem, k) = malloc(mem, l) => k = l
      /\ \A k \in 1 .. n_customers :
           route_new(mem, k) \in RouteAddresses /\ rts[route_new(mem, k)] = <<>>
      /\ \A k, l \in 1 .. n_customers : route_new(mem, k) = route_new(mem, l) => k = l
  BY Allocates
<1> DEFINE meta == solution_meta_new(mem)
           head == [i \in 1 .. M |-> Depot(mem, i, FALSE)]
           tail == [i \in 1 .. M |-> Depot(mem, i, TRUE)]
           at == [i \in 1 .. M |-> route_new(mem, i)]
           depots == UNION {{Depot(mem, i, FALSE), Depot(mem, i, TRUE)} : i \in 1 .. M}
<1>4. meta = [id \in Ids |-> malloc(mem, id)]
  BY DEF solution_meta_new
<1>5. \A i \in 1 .. M : /\ head[i] = malloc(mem, n_customers + 2 * i - 1)
                        /\ tail[i] = malloc(mem, n_customers + 2 * i)
  <2> SUFFICES ASSUME NEW i \in 1 .. M
               PROVE  /\ head[i] = malloc(mem, n_customers + 2 * i - 1)
                      /\ tail[i] = malloc(mem, n_customers + 2 * i)
    OBVIOUS
  <2>1. n_customers + 2 * i - (IF FALSE THEN 0 ELSE 1) = n_customers + 2 * i - 1
    OBVIOUS
  <2>2. n_customers + 2 * i - (IF TRUE THEN 0 ELSE 1) = n_customers + 2 * i
    BY <1>0, <1>1
  <2> QED
    BY <2>1, <2>2 DEF Depot
<1>6. /\ \A id \in Ids : id \in 1 .. 3 * n_customers
      /\ \A i \in 1 .. M : /\ n_customers + 2 * i - 1 \in 1 .. 3 * n_customers
                           /\ n_customers + 2 * i \in 1 .. 3 * n_customers
      /\ \A i \in 1 .. M : i \in 1 .. n_customers
  BY <1>0, <1>1 DEF Ids
<1>7. depots = Range(head) \cup Range(tail)
  <2>1. Range(head) = {Depot(mem, i, FALSE) : i \in 1 .. M} /\ Range(tail) = {Depot(mem, i, TRUE) : i \in 1 .. M}
    BY DEF Range
  <2>2. \A x : x \in depots <=> \E i \in 1 .. M : x = Depot(mem, i, FALSE) \/ x = Depot(mem, i, TRUE)
    <3>1. \A x : x \in depots <=> \E i \in 1 .. M : x \in {Depot(mem, i, FALSE), Depot(mem, i, TRUE)}
      BY Zenon
    <3> HIDE DEF depots
    <3> QED
      BY <3>1
  <2> HIDE DEF head, tail, depots
  <2> QED
    BY <2>1, <2>2
<1>8. /\ b.mem = [customers |-> b.mem.customers, routes |-> b.mem.routes]
      /\ b.mem.customers = [a \in Addresses |->
             IF a \in depots THEN 0
             ELSE IF a \in Range(meta) THEN CHOOSE id \in Ids : meta[id] = a ELSE cust[a]]
      /\ b.mem.routes = [r \in RouteAddresses |->
             IF r \in Range(at) THEN LET i == CHOOSE i \in 1 .. M : at[i] = r
                                     IN  WithDepots(mem, i, ids[i])
             ELSE rts[r]]
      /\ b.s = [w |-> IF w = NULL THEN NULL ELSE meta[w], meta |-> meta, pool |-> Mapped(meta, pool),
                n_routes |-> M, routes |-> [i \in Slots |-> IF i \in 1 .. M THEN at[i] ELSE NULL]]
  <2> DEFINE idOf(a) == CHOOSE id \in Ids : meta[id] = a
             slot(r) == CHOOSE i \in 1 .. M : at[i] = r
  <2>1. DOMAIN ids = 1 .. M /\ Len(ids) = M
    BY <1>1, <1>2
  <2>2. b.mem = [customers |-> [a \in Addresses |->
             IF a \in UNION {{Depot(mem, i, FALSE), Depot(mem, i, TRUE)} : i \in DOMAIN ids} THEN 0
             ELSE IF a \in Range(meta) THEN idOf(a) ELSE mem.customers[a]],
                 routes |-> [r \in RouteAddresses |->
             IF r \in Range([i \in DOMAIN ids |-> route_new(mem, i)])
             THEN LET i == CHOOSE i \in DOMAIN ids : [j \in DOMAIN ids |-> route_new(mem, j)][i] = r IN WithDepots(mem, i, ids[i])
             ELSE mem.routes[r]]]
    BY DEF Built
  <2>3. /\ b.mem.customers = [a \in Addresses |->
             IF a \in depots THEN 0 ELSE IF a \in Range(meta) THEN idOf(a) ELSE cust[a]]
        /\ b.mem.routes = [r \in RouteAddresses |->
             IF r \in Range(at) THEN WithDepots(mem, slot(r), ids[slot(r)]) ELSE rts[r]]
    BY <2>1, <2>2
  <2>4. b.s = [w |-> IF w = NULL THEN NULL ELSE meta[w], meta |-> meta, pool |-> Mapped(meta, pool),
                n_routes |-> M, routes |-> [i \in Slots |-> IF i \in 1 .. M THEN at[i] ELSE NULL]]
    BY <2>1, Zenon DEF Built, Mapped
  <2>5. PICK c, r : b.mem = [customers |-> c, routes |-> r]
    BY ONLY <2>2
  <2>6. b.mem = [customers |-> b.mem.customers, routes |-> b.mem.routes]
    BY ONLY <2>5
  <2> QED
    BY <2>3, <2>4, <2>6, Zenon
<1>9. \A i \in 1 .. M : WithDepots(mem, i, ids[i]) = Between(head[i], Mapped(meta, ids[i]), tail[i])
  BY DEF WithDepots, Between, Mapped
<1> DEFINE cust2 == b.mem.customers
           rts2 == b.mem.routes
           s == b.s
<1>10. PICK c2, r2, t : c2 = cust2 /\ r2 = rts2 /\ t = s
  OBVIOUS
<1>11. /\ meta \in [Ids -> Addresses]
       /\ \A id \in Ids : meta[id] = malloc(mem, id) /\ cust[meta[id]] = Free
  BY <1>3, <1>4, <1>6
<1>12. /\ head \in [1 .. M -> Addresses] /\ tail \in [1 .. M -> Addresses]
       /\ \A i \in 1 .. M : cust[head[i]] = Free /\ cust[tail[i]] = Free
  <2> HIDE DEF head, tail
  <2>1. \A i \in 1 .. M : head[i] \in Addresses /\ tail[i] \in Addresses /\ cust[head[i]] = Free /\ cust[tail[i]] = Free
    BY <1>3, <1>5, <1>6
  <2>2. head = [i \in 1 .. M |-> head[i]] /\ tail = [i \in 1 .. M |-> tail[i]]
    BY DEF head, tail
  <2> QED
    BY <2>1, <2>2
<1>13. at \in [1 .. M -> RouteAddresses] /\ \A i \in 1 .. M : rts[at[i]] = <<>>
  BY <1>3, <1>6
<1>14. OneToOne(meta) /\ OneToOne(at)
  <2>1. DOMAIN meta = Ids /\ DOMAIN at = 1 .. M
    BY <1>4
  <2>2. \A id, jd \in Ids : meta[id] = meta[jd] => id = jd
    BY <1>3, <1>6, <1>11
  <2>3. \A i, j \in 1 .. M : at[i] = at[j] => i = j
    BY <1>3, <1>6
  <2> QED
    BY <2>1, <2>2, <2>3 DEF OneToOne
<1>15. /\ \A i, j \in 1 .. M : head[i] = head[j] => i = j
       /\ \A i, j \in 1 .. M : tail[i] = tail[j] => i = j
       /\ \A i, j \in 1 .. M : head[i] # tail[j]
       /\ \A i \in 1 .. M, id \in Ids : head[i] # meta[id] /\ tail[i] # meta[id]
  <2> HIDE DEF head, tail, meta, at, depots
  <2>1. ASSUME NEW i \in 1 .. M, NEW j \in 1 .. M, head[i] = head[j] PROVE i = j
    <3>1. n_customers + 2 * i - 1 = n_customers + 2 * j - 1
      BY <1>3, <1>5, <1>6, <2>1
    <3> QED
      BY <1>0, <3>1
  <2>2. ASSUME NEW i \in 1 .. M, NEW j \in 1 .. M, tail[i] = tail[j] PROVE i = j
    <3>1. n_customers + 2 * i = n_customers + 2 * j
      BY <1>3, <1>5, <1>6, <2>2
    <3> QED
      BY <1>0, <3>1
  <2>3. ASSUME NEW i \in 1 .. M, NEW j \in 1 .. M, head[i] = tail[j] PROVE FALSE
    <3>1. n_customers + 2 * i - 1 = n_customers + 2 * j
      BY <1>3, <1>5, <1>6, <2>3
    <3> QED
      BY <1>0, <3>1
  <2>4. ASSUME NEW i \in 1 .. M, NEW id \in Ids, head[i] = meta[id] PROVE FALSE
    <3>1. n_customers + 2 * i - 1 = id
      BY <1>3, <1>5, <1>6, <1>11, <2>4
    <3>2. id \in Int /\ id <= n_customers
      BY <1>0 DEF Ids
    <3> QED
      BY <1>0, <3>1, <3>2
  <2>5. ASSUME NEW i \in 1 .. M, NEW id \in Ids, tail[i] = meta[id] PROVE FALSE
    <3>1. n_customers + 2 * i = id
      BY <1>3, <1>5, <1>6, <1>11, <2>5
    <3>2. id \in Int /\ id <= n_customers
      BY <1>0 DEF Ids
    <3> QED
      BY <1>0, <3>1, <3>2
  <2> QED
    BY <2>1, <2>2, <2>3, <2>4, <2>5
<1>16. OneToOne(head) /\ OneToOne(tail)
  BY <1>12, <1>15 DEF OneToOne
<1>17. /\ Range(meta) = {meta[id] : id \in Ids} /\ Range(at) = {at[i] : i \in 1 .. M}
       /\ Range(head) = {head[i] : i \in 1 .. M} /\ Range(tail) = {tail[i] : i \in 1 .. M}
  BY <1>11, <1>12, <1>13 DEF Range
<1> HIDE DEF head, tail, meta, at, depots
<1>18. /\ Range(meta) \cap Range(head) = {} /\ Range(meta) \cap Range(tail) = {}
       /\ Range(head) \cap Range(tail) = {}
  BY <1>15, <1>17
<1>19. \A id \in Ids : c2[meta[id]] = id
  <2> SUFFICES ASSUME NEW id \in Ids PROVE c2[meta[id]] = id
    OBVIOUS
  <2>1. meta[id] \in Addresses /\ meta[id] \in Range(meta) /\ meta[id] \notin depots
    BY <1>7, <1>11, <1>17, <1>18
  <2>2. c2[meta[id]] = CHOOSE jd \in Ids : meta[jd] = meta[id]
    BY <1>8, <1>10, <2>1
  <2>3. \A jd \in Ids : meta[jd] = meta[id] => jd = id
    BY <1>11, <1>14 DEF OneToOne
  <2> QED
    BY <2>2, <2>3
<1>20. \A i \in 1 .. M : c2[head[i]] = 0 /\ c2[tail[i]] = 0
  BY <1>7, <1>8, <1>10, <1>12, <1>17
<1>21. \A i \in 1 .. M : r2[at[i]] = Between(head[i], Mapped(meta, ids[i]), tail[i])
  <2> SUFFICES ASSUME NEW i \in 1 .. M PROVE r2[at[i]] = Between(head[i], Mapped(meta, ids[i]), tail[i])
    OBVIOUS
  <2>1. at[i] \in RouteAddresses /\ at[i] \in Range(at)
    BY <1>13, <1>17
  <2>2. PICK j : j = CHOOSE k \in 1 .. M : at[k] = at[i]
    OBVIOUS
  <2>3. r2[at[i]] = WithDepots(mem, j, ids[j])
    BY <1>8, <1>10, <2>1, <2>2
  <2>4. \A k \in 1 .. M : at[k] = at[i] => k = i
    BY <1>13, <1>14 DEF OneToOne
  <2>5. j = i
    BY <2>2, <2>4
  <2> QED
    BY <1>9, <2>3, <2>5
<1>22. Laid(c2, r2, t, w, pool, ids, meta, head, tail, at)
  <2>1. t = [w |-> IF w = NULL THEN NULL ELSE meta[w], meta |-> meta, pool |-> Mapped(meta, pool),
             n_routes |-> M, routes |-> [i \in Slots |-> IF i \in 1 .. M THEN at[i] ELSE NULL]]
    BY <1>8, <1>10
  <2> QED
    BY <1>1, <1>11, <1>12, <1>13, <1>14, <1>16, <1>18, <1>19, <1>20, <1>21, <2>1 DEF Laid
<1>23. /\ Sound(c2, r2, t)
       /\ Held(r2, t) = Range(meta) \cup Range(head) \cup Range(tail)
       /\ RoutesOf(t) = Range(at)
  BY <1>22, LaidSound
<1>24. \A a \in Held(r2, t) : cust[a] = Free
  BY <1>11, <1>12, <1>17, <1>23
<1>25. \A a \in Addresses \ Held(r2, t) : c2[a] = cust[a]
  BY <1>7, <1>8, <1>10, <1>23
<1>26. \A r \in RoutesOf(t) : rts[r] = <<>>
  BY <1>13, <1>17, <1>23
<1>27. \A r \in RouteAddresses \ RoutesOf(t) : r2[r] = rts[r]
  BY <1>8, <1>10, <1>23
<1>28. HeapTypes(c2, r2)
  <2>1. c2 \in [Addresses -> 0 .. n_customers \cup {Free}]
    <3>1. \A a \in Addresses : c2[a] \in 0 .. n_customers \cup {Free}
      <4> SUFFICES ASSUME NEW a \in Addresses PROVE c2[a] \in 0 .. n_customers \cup {Free}
        OBVIOUS
      <4>1. cust[a] \in 0 .. n_customers \cup {Free}
        BY DEF HeapTypes
      <4>2. a \in Range(meta) => c2[a] \in Ids
        BY <1>17, <1>19
      <4>3. a \in Range(head) \cup Range(tail) => c2[a] = 0
        BY <1>17, <1>20
      <4>4. 0 \in 0 .. n_customers /\ Ids \subseteq 0 .. n_customers
        BY <1>0 DEF Ids
      <4> QED
        BY <1>23, <1>25, <4>1, <4>2, <4>3, <4>4
    <3>2. c2 = [a \in Addresses |-> c2[a]]
      BY <1>8, <1>10
    <3> QED
      BY <3>1, <3>2
  <2>2. r2 \in [RouteAddresses -> Seq(Addresses)]
    <3>1. \A r \in RouteAddresses : r2[r] \in Seq(Addresses)
      <4> SUFFICES ASSUME NEW r \in RouteAddresses PROVE r2[r] \in Seq(Addresses)
        OBVIOUS
      <4>1. r \notin RoutesOf(t) => r2[r] \in Seq(Addresses)
        BY <1>27 DEF HeapTypes
      <4>2. ASSUME r \in RoutesOf(t) PROVE r2[r] \in Seq(Addresses)
        <5>1. PICK i \in 1 .. t.n_routes : r = t.routes[i]
          BY <4>2 DEF RoutesOf
        <5>2. t.n_routes \in Int /\ i \in ListIndexes(t)
          BY <1>23, SoundTypes DEF ListIndexes
        <5>3. List(r2, t, i) = r2[r]
          BY <5>1 DEF List
        <5> QED
          BY <1>23, <5>2, <5>3, SoundTypes
      <4> QED
        BY <4>1, <4>2
    <3>2. r2 = [r \in RouteAddresses |-> r2[r]]
      BY <1>8, <1>10
    <3> QED
      BY <3>1, <3>2
  <2> QED
    BY <2>1, <2>2 DEF HeapTypes
<1>29. Joins(cust, rts, c2, r2, t)
  BY <1>23, <1>24, <1>25, <1>26, <1>27, <1>28 DEF Joins
<1>30. (w = NULL => s.w = NULL) /\ (pool = <<>> => s.pool = <<>>)
  <2>1. Mapped(meta, <<>>) = <<>>
    BY DEF Mapped
  <2> QED
    BY <1>8, <2>1
<1> QED
  BY <1>8, <1>10, <1>29, <1>30

\* The ids of the objects in a list of a solution, the depots left out.
Undepoted(cust, q, o) == [x \in 1 .. Len(q) - 2 * o |-> cust[q[x + o]]]

\* They are distinct, and lead back to the objects.
LEMMA ListIds ==
  ASSUME NEW cust, NEW rts, NEW s, Sound(cust, rts, s), NEW i \in ListIndexes(s),
         NEW o, o = IF i > 0 THEN 1 ELSE 0,
         NEW q, q = List(rts, s, i), NEW ids, ids = Undepoted(cust, q, o)
  PROVE  /\ ids \in Seq(Ids) /\ Distinct(ids)
         /\ \A id \in Elems(ids) : s.meta[id] \in Elems(q)
         /\ \A a \in Elems(q) : cust[a] # 0 => cust[a] \in Elems(ids)
<1>1. i \in Int
  BY SoundTypes DEF ListIndexes
<1>2. /\ q \in Seq(Addresses) /\ Distinct(q) /\ (i > 0 => Len(q) >= 2)
      /\ \A x \in 1 .. Len(q) : cust[q[x]] = 0 <=> i > 0 /\ x \in {1, Len(q)}
  <2>1. Good(cust, q, i)
    BY DEF Sound, GoodLists
  <2> QED
    BY <2>1 DEF Good
<1>3. PICK L \in Nat : L = Len(q)
  BY <1>2
<1>4. L - 2 * o \in Nat /\ o \in {0, 1}
  BY <1>1, <1>2, <1>3
<1>5. \A x \in 1 .. L - 2 * o : x + o \in 1 .. L /\ (i > 0 => x + o \notin {1, L})
  BY <1>1, <1>3, <1>4
<1>6. \A x \in 1 .. L - 2 * o : cust[q[x + o]] # 0
  BY <1>2, <1>3, <1>5
<1>7. \A x \in 1 .. L : q[x] \in Held(rts, s)
  <2>1. Elems(q) \subseteq Held(rts, s)
    BY SoundTypes
  <2> QED
    BY <1>3, <2>1 DEF Elems
<1>8. \A a \in Held(rts, s) : cust[a] # 0 => cust[a] \in Ids /\ s.meta[cust[a]] = a
  BY DEF Sound, Known
<1>9. ids = [x \in 1 .. L - 2 * o |-> cust[q[x + o]]]
  BY <1>3 DEF Undepoted
<1>10. \A x \in 1 .. L - 2 * o : /\ ids[x] = cust[q[x + o]] /\ ids[x] \in Ids
                                 /\ s.meta[ids[x]] = q[x + o]
  BY <1>5, <1>6, <1>7, <1>8, <1>9
<1>11. ids \in Seq(Ids) /\ Len(ids) = L - 2 * o
  <2>1. PICK K \in Nat : K = L - 2 * o
    BY <1>4
  <2>2. ids = [x \in 1 .. K |-> ids[x]] /\ \A x \in 1 .. K : ids[x] \in Ids
    BY <1>9, <1>10, <2>1
  <2>3. ids \in Seq(Ids) /\ Len(ids) = K
    BY ONLY <2>1, <2>2
  <2> QED
    BY <2>1, <2>3
<1>12. Distinct(ids)
  <2> SUFFICES ASSUME NEW x \in 1 .. L - 2 * o, NEW y \in 1 .. L - 2 * o, ids[x] = ids[y]
               PROVE  x = y
    BY <1>11 DEF Distinct
  <2>1. q[x + o] = q[y + o]
    BY <1>10
  <2>2. x + o = y + o
    BY <1>2, <1>3, <1>5, <2>1 DEF Distinct
  <2> QED
    BY <1>4, <2>2
<1>13. \A id \in Elems(ids) : s.meta[id] \in Elems(q)
  <2> SUFFICES ASSUME NEW x \in 1 .. L - 2 * o PROVE s.meta[ids[x]] \in Elems(q)
    BY <1>11 DEF Elems
  <2> QED
    BY <1>3, <1>5, <1>10 DEF Elems
<1>14. \A a \in Elems(q) : cust[a] # 0 => cust[a] \in Elems(ids)
  <2> SUFFICES ASSUME NEW x \in 1 .. L, cust[q[x]] # 0 PROVE cust[q[x]] \in Elems(ids)
    BY <1>3 DEF Elems
  <2>1. i > 0 => x \notin {1, L}
    BY <1>2, <1>3
  <2>2. x - o \in 1 .. L - 2 * o /\ (x - o) + o = x
    BY <1>1, <1>3, <1>4, <2>1
  <2>3. ids[x - o] = cust[q[x]]
    BY <1>10, <2>2
  <2> QED
    BY <1>11, <2>2, <2>3 DEF Elems
<1> QED
  BY <1>11, <1>12, <1>13, <1>14

\* What solution_dup copies has each customer in one place.
LEMMA DupDescribed ==
  ASSUME NEW cust, NEW rts, NEW s, Sound(cust, rts, s),
         NEW mem, mem.customers = cust, mem.routes = rts
  PROVE  Described(IF s.w = NULL THEN NULL ELSE mem.customers[s.w],
                   [i \in DOMAIN s.pool |-> mem.customers[s.pool[i]]],
                   [i \in 1 .. s.n_routes |-> RouteIds(mem, s.routes[i])])
<1>1. PICK w : w = IF s.w = NULL THEN NULL ELSE mem.customers[s.w]
  OBVIOUS
<1>2. PICK pool : pool = [i \in DOMAIN s.pool |-> mem.customers[s.pool[i]]]
  OBVIOUS
<1>3. PICK ids : ids = [i \in 1 .. s.n_routes |-> RouteIds(mem, s.routes[i])]
  OBVIOUS
<1>4. PICK M \in Nat : M = s.n_routes /\ M <= n_customers
  BY SoundTypes
<1>5. ListIndexes(s) = -1 .. M
  BY <1>4 DEF ListIndexes
<1> DEFINE off(i) == IF i > 0 THEN 1 ELSE 0
           list(i) == List(rts, s, i)
           id(i) == IdList(w, pool, ids, i)
<1>6. \A i \in -1 .. M : id(i) = Undepoted(cust, list(i), off(i))
  <2> SUFFICES ASSUME NEW i \in -1 .. M PROVE id(i) = Undepoted(cust, list(i), off(i))
    OBVIOUS
  <2>1. CASE i = -1
    <3>1. off(i) = 0 /\ list(i) = IF s.w = NULL THEN <<>> ELSE <<s.w>>
      BY <2>1 DEF List
    <3>2. CASE s.w = NULL
      <4>1. id(i) = <<>> /\ list(i) = <<>>
        BY <1>1, <2>1, <3>1, <3>2 DEF IdList
      <4> QED
        BY <3>1, <4>1 DEF Undepoted
    <3>3. CASE s.w # NULL
      <4>1. w = cust[s.w] /\ list(i) = <<s.w>>
        BY <1>1, <3>1, <3>3
      <4>2. s.w \in Held(rts, s)
        <5>1. -1 \in ListIndexes(s) /\ Elems(List(rts, s, -1)) \subseteq Held(rts, s)
          BY <1>5, SoundTypes
        <5> QED
          BY <2>1, <4>1, <5>1 DEF Elems
      <4>3. cust[s.w] # 0
        <5>1. Good(cust, <<s.w>>, i)
          BY <1>5, <4>1 DEF Sound, GoodLists
        <5> QED
          BY <2>1, <5>1 DEF Good
      <4>4. w # NULL
        BY <4>1, <4>3 DEF NULL
      <4>5. id(i) = <<cust[s.w]>>
        BY <2>1, <4>1, <4>4 DEF IdList
      <4>6. Undepoted(cust, <<s.w>>, 0) = <<cust[s.w]>>
        BY DEF Undepoted
      <4> QED
        BY <3>1, <4>1, <4>5, <4>6
    <3> QED
      BY <3>2, <3>3
  <2>2. CASE i = 0
    <3>1. off(i) = 0 /\ list(i) = s.pool /\ id(i) = pool
      BY <2>2 DEF List, IdList
    <3>2. s.pool \in Seq(Addresses)
      BY SoundTypes
    <3>3. DOMAIN s.pool = 1 .. Len(s.pool) /\ Len(s.pool) \in Nat
      BY <3>2
    <3>4. \A x \in 1 .. Len(s.pool) : x + 0 = x
      OBVIOUS
    <3>5. pool = [x \in 1 .. Len(s.pool) |-> cust[s.pool[x]]]
      BY <1>2, <3>3
    <3>6. Len(s.pool) - 2 * 0 = Len(s.pool)
      BY <3>3
    <3>7. Undepoted(cust, s.pool, 0) = [x \in 1 .. Len(s.pool) |-> cust[s.pool[x + 0]]]
      BY <3>6 DEF Undepoted
    <3>8. Undepoted(cust, s.pool, 0) = pool
      BY <3>4, <3>5, <3>7
    <3> QED
      BY <3>1, <3>8
  <2>3. CASE i \in 1 .. M
    <3>1. off(i) = 1 /\ list(i) = rts[s.routes[i]] /\ id(i) = RouteIds(mem, s.routes[i])
      BY <1>3, <1>4, <2>3 DEF List, IdList
    <3>2. PICK q : q = rts[s.routes[i]]
      OBVIOUS
    <3>3. RouteIds(mem, s.routes[i]) = [x \in 1 .. Len(q) - 2 |-> cust[q[x + 1]]]
      BY <3>2 DEF RouteIds
    <3>4. 2 * 1 = 2
      OBVIOUS
    <3>5. Undepoted(cust, q, 1) = [x \in 1 .. Len(q) - 2 |-> cust[q[x + 1]]]
      BY <3>4 DEF Undepoted
    <3>6. id(i) = Undepoted(cust, q, 1)
      BY <3>1, <3>3, <3>5
    <3>7. list(i) = q /\ off(i) = 1
      BY <3>1, <3>2
    <3> HIDE DEF id, list, off
    <3> QED
      BY <3>6, <3>7
  <2> QED
    BY <2>1, <2>2, <2>3
<1>7. \A i \in -1 .. M :
        /\ id(i) \in Seq(Ids) /\ Distinct(id(i))
        /\ \A c \in Elems(id(i)) : s.meta[c] \in Elems(list(i))
        /\ \A a \in Elems(list(i)) : cust[a] # 0 => cust[a] \in Elems(id(i))
  BY <1>5, <1>6, ListIds
<1>8. \A i, j \in -1 .. M : i # j => Elems(list(i)) \cap Elems(list(j)) = {}
  BY <1>5 DEF Sound, Apart
<1>9. \A c \in Ids : s.meta[c] \in Held(rts, s) /\ cust[s.meta[c]] = c
  BY DEF Sound, Known
<1>10. \A a \in Held(rts, s) : \E i \in -1 .. M : a \in Elems(list(i))
  BY <1>5 DEF Held
<1>11. \A c \in Ids : c # 0
  BY DEF Ids
<1>12. id(-1) = (IF w = NULL THEN <<>> ELSE <<w>>) /\ id(0) = pool /\ \A i \in 1 .. M : id(i) = ids[i]
  BY <1>4 DEF IdList
<1> HIDE DEF off, list, id
<1>13. \A c \in Ids : \E i \in -1 .. M : c \in Elems(id(i))
  <2> SUFFICES ASSUME NEW c \in Ids PROVE \E i \in -1 .. M : c \in Elems(id(i))
    OBVIOUS
  <2>1. PICK i \in -1 .. M : s.meta[c] \in Elems(list(i))
    BY <1>9, <1>10
  <2> QED
    BY <1>7, <1>9, <1>11, <2>1
<1>14. \A i, j \in -1 .. M : i # j => Elems(id(i)) \cap Elems(id(j)) = {}
  BY <1>7, <1>8
<1>15. w \in Ids \cup {NULL} /\ pool \in Seq(Ids)
  <2>1. -1 \in -1 .. M /\ 0 \in -1 .. M
    BY <1>4
  <2>2. id(-1) \in Seq(Ids) /\ id(0) \in Seq(Ids)
    BY <1>7, <2>1
  <2>3. ASSUME w # NULL PROVE w \in Ids
    <3>1. <<w>> \in Seq(Ids)
      BY <1>12, <2>2, <2>3
    <3>2. <<w>>[1] \in Ids
      BY <3>1
    <3> QED
      BY <3>2
  <2> QED
    BY <1>12, <2>2, <2>3
<1>16. ids \in Seq(Seq(Ids)) /\ Len(ids) = M
  <2>1. \A i \in 1 .. M : ids[i] \in Seq(Ids)
    BY <1>7, <1>12
  <2>2. ids = [i \in 1 .. M |-> ids[i]]
    BY <1>3, <1>4
  <2> QED
    BY <2>1, <2>2
<1>17. IdIndexes(ids) = -1 .. M
  BY <1>16 DEF IdIndexes
<1>18. Described(w, pool, ids)
  BY <1>4, <1>7, <1>13, <1>14, <1>15, <1>16, <1>17 DEF Described, id
<1> QED
  BY <1>1, <1>2, <1>3, <1>18

\* Numbers up to M have a least and a greatest one.
LEMMA EndsOfSet ==
  ASSUME NEW M \in Nat, NEW P \in SUBSET (1 .. M), NEW x \in P
  PROVE  /\ \E a \in P : \A b \in P : a <= b
         /\ \E a \in P : \A b \in P : b <= a
<1>1. /\ Cardinality(P) \in Nat
      /\ \A k \in 1 .. Cardinality(P) : Nth(P, k) \in P
      /\ \A k, l \in 1 .. Cardinality(P) : k < l => Nth(P, k) < Nth(P, l)
      /\ \A a \in P : \E k \in 1 .. Cardinality(P) : Nth(P, k) = a
  BY NthFacts
<1>2. \A b \in P : b \in Int
  OBVIOUS
<1>3. PICK K \in Nat : K = Cardinality(P)
  BY <1>1
<1>4. PICK y \in 1 .. K : Nth(P, y) = x
  BY <1>1, <1>3
<1>5. 1 \in 1 .. K /\ K \in 1 .. K
  BY <1>4
<1>6. \A b \in P : Nth(P, 1) <= b /\ b <= Nth(P, K)
  <2> SUFFICES ASSUME NEW b \in P PROVE Nth(P, 1) <= b /\ b <= Nth(P, K)
    OBVIOUS
  <2>1. PICK k \in 1 .. K : Nth(P, k) = b
    BY <1>1, <1>3
  <2>2. k = 1 \/ 1 < k
    OBVIOUS
  <2>3. k = K \/ k < K
    OBVIOUS
  <2>4. Nth(P, 1) \in Int /\ Nth(P, K) \in Int /\ Nth(P, k) \in Int
    BY <1>1, <1>2, <1>3, <1>5
  <2>5. 1 < k => Nth(P, 1) < Nth(P, k)
    BY <1>1, <1>3, <1>5
  <2>6. k < K => Nth(P, k) < Nth(P, K)
    BY <1>1, <1>3, <1>5
  <2> QED
    BY <2>1, <2>2, <2>3, <2>4, <2>5, <2>6
<1> QED
  BY <1>1, <1>3, <1>5, <1>6

\* Where the initial routes end: each customer is in one of the cuts.
Cuts(m, ends) ==
  /\ ends \in [0 .. m -> 0 .. n_customers] /\ ends[0] = 0 /\ ends[m] = n_customers
  /\ \A i \in 1 .. m : ends[i - 1] < ends[i]

\* A cut ends before a later one starts.
LEMMA CutsApart ==
  ASSUME NEW m \in 1 .. n_customers, NEW ends, Cuts(m, ends),
         NEW i \in 1 .. m, NEW k \in 1 .. m, i < k
  PROVE  ends[i] <= ends[k - 1]
<1>0. n_customers \in Nat \ {0}
  BY ObjectsAssumption
<1>1. \A j \in 0 .. m : ends[j] \in Int
  BY <1>0 DEF Cuts
<1>2. m \in Nat
  BY <1>0
<1> DEFINE P == {j \in 1 .. m : i < j /\ ends[j - 1] < ends[i]}
<1>3. SUFFICES ASSUME ends[k - 1] < ends[i] PROVE FALSE
  <2>1. k - 1 \in 0 .. m /\ i \in 0 .. m
    OBVIOUS
  <2> QED
    BY <1>1, <1>3, <2>1
<1>4. k \in P
  BY <1>3
<1>5. P \in SUBSET (1 .. m)
  OBVIOUS
<1>6. PICK a \in P : \A b \in P : a <= b
  <2> HIDE DEF P
  <2> QED
    BY <1>2, <1>4, <1>5, EndsOfSet
<1>7. a \in 1 .. m /\ i < a /\ ends[a - 1] < ends[i]
  OBVIOUS
<1>8. i \in 0 .. m /\ a - 1 \in 0 .. m /\ a - 2 \in 0 .. m
  BY <1>7
<1>9. a # i + 1
  <2>1. (i + 1) - 1 = i
    OBVIOUS
  <2> QED
    BY <1>1, <1>7, <1>8, <2>1
<1>10. a - 1 \in 1 .. m /\ i < a - 1 /\ (a - 1) - 1 = a - 2
  BY <1>7, <1>9
<1>11. ends[a - 2] < ends[a - 1]
  BY <1>10 DEF Cuts
<1>12. ends[(a - 1) - 1] < ends[i]
  BY <1>1, <1>7, <1>8, <1>10, <1>11
<1>13. a - 1 \in P
  BY <1>10, <1>12
<1> QED
  BY <1>6, <1>7, <1>13

\* Each customer is in a cut.
LEMMA CutsCover ==
  ASSUME NEW m \in 1 .. n_customers, NEW ends, Cuts(m, ends), NEW id \in Ids
  PROVE  \E i \in 1 .. m : ends[i - 1] < id /\ id <= ends[i]
<1>0. n_customers \in Nat \ {0}
  BY ObjectsAssumption
<1>1. \A j \in 0 .. m : ends[j] \in Int
  BY <1>0 DEF Cuts
<1>2. m \in Nat /\ id \in Int /\ 0 < id /\ id <= n_customers
  BY <1>0 DEF Ids
<1> DEFINE P == {j \in 1 .. m : ends[j - 1] < id}
<1>3. 1 \in P
  <2>1. 1 - 1 = 0
    OBVIOUS
  <2> QED
    BY <1>2, <2>1 DEF Cuts
<1>4. P \in SUBSET (1 .. m)
  OBVIOUS
<1>5. PICK a \in P : \A b \in P : b <= a
  <2> HIDE DEF P
  <2> QED
    BY <1>2, <1>3, <1>4, EndsOfSet
<1>6. a \in 1 .. m /\ ends[a - 1] < id
  OBVIOUS
<1>7. id <= ends[a]
  <2>1. CASE a = m
    BY <1>2, <2>1 DEF Cuts
  <2>2. CASE a # m
    <3>1. a + 1 \in 1 .. m /\ (a + 1) - 1 = a /\ a \in 0 .. m
      BY <1>6, <2>2
    <3>2. a + 1 \notin P
      BY <1>5, <1>6
    <3>3. ~(ends[(a + 1) - 1] < id)
      BY <3>1, <3>2
    <3> QED
      BY <1>1, <1>2, <3>1, <3>3
  <2> QED
    BY <2>1, <2>2
<1> QED
  BY <1>6, <1>7

\* The initial routes have each customer in one place.
LEMMA InitDescribed ==
  ASSUME NEW m \in 1 .. n_customers, NEW ends, Cuts(m, ends),
         NEW ids, ids = [i \in 1 .. m |-> [j \in 1 .. ends[i] - ends[i - 1] |-> ends[i - 1] + j]]
  PROVE  Described(NULL, <<>>, ids)
<1>0. n_customers \in Nat \ {0} /\ m \in Nat
  BY ObjectsAssumption
<1>1. \A j \in 0 .. m : ends[j] \in 0 .. n_customers
  BY <1>0 DEF Cuts
<1>2. \A i \in 1 .. m : /\ i \in 0 .. m /\ i - 1 \in 0 .. m
                        /\ ends[i - 1] < ends[i]
  BY <1>0 DEF Cuts
<1>3. ASSUME NEW i \in 1 .. m
      PROVE  /\ ids[i] \in Seq(Ids) /\ Distinct(ids[i])
             /\ \A c : c \in Elems(ids[i]) <=> c \in Ids /\ ends[i - 1] < c /\ c <= ends[i]
  <2>0. ends[i] \in 0 .. n_customers /\ ends[i - 1] \in 0 .. n_customers /\ ends[i - 1] < ends[i]
    BY ONLY i \in 1 .. m, <1>1, <1>2
  <2>1. PICK lo \in Nat, hi \in Nat : lo = ends[i - 1] /\ hi = ends[i] /\ lo < hi /\ hi <= n_customers
    BY ONLY <1>0, <2>0
  <2>2. ids[i] = [j \in 1 .. hi - lo |-> lo + j]
    BY <2>1
  <2>3. hi - lo \in Nat
    BY <2>1
  <2>4. \A j \in 1 .. hi - lo : lo + j \in Ids
    BY <1>0, <2>1 DEF Ids
  <2>5. ids[i] \in Seq(Ids) /\ Len(ids[i]) = hi - lo /\ \A j \in 1 .. hi - lo : ids[i][j] = lo + j
    <3>1. PICK d \in Nat : d = hi - lo
      BY <2>3
    <3>2. PICK q : q = ids[i]
      OBVIOUS
    <3>3. q = [j \in 1 .. d |-> lo + j] /\ \A j \in 1 .. d : lo + j \in Ids
      BY <2>2, <2>4, <3>1, <3>2
    <3>4. q \in Seq(Ids) /\ Len(q) = d /\ \A j \in 1 .. d : q[j] = lo + j
      BY ONLY <3>3, d \in Nat
    <3> QED
      BY ONLY <3>1, <3>2, <3>4
  <2>6. Distinct(ids[i])
    BY <2>1, <2>5 DEF Distinct
  <2>7. ASSUME NEW c PROVE c \in Elems(ids[i]) <=> c \in Ids /\ lo < c /\ c <= hi
    <3>1. ASSUME c \in Elems(ids[i]) PROVE c \in Ids /\ lo < c /\ c <= hi
      <4>1. PICK j \in 1 .. hi - lo : c = lo + j
        BY <2>5, <3>1 DEF Elems
      <4> QED
        BY <2>1, <2>4, <4>1
    <3>2. ASSUME c \in Ids, lo < c, c <= hi PROVE c \in Elems(ids[i])
      <4>1. c \in Int
        BY <3>2 DEF Ids
      <4>2. c - lo \in 1 .. hi - lo /\ lo + (c - lo) = c
        BY <2>1, <3>2, <4>1
      <4>3. ids[i][c - lo] = c
        BY <2>5, <4>2
      <4> QED
        BY <2>5, <4>2, <4>3 DEF Elems
    <3> QED
      BY <3>1, <3>2
  <2> QED
    BY <2>1, <2>5, <2>6, <2>7
<1>4. ids \in Seq(Seq(Ids)) /\ Len(ids) = m
  <2>1. ids = [i \in 1 .. m |-> ids[i]]
    OBVIOUS
  <2> QED
    BY <1>0, <1>3, <2>1
<1>5. <<>> \in Seq(Ids) /\ Elems(<<>>) = {} /\ Distinct(<<>>)
  BY DEF Elems, Distinct
<1> DEFINE id(i) == IdList(NULL, <<>>, ids, i)
<1>6. id(-1) = <<>> /\ id(0) = <<>> /\ \A i \in 1 .. m : id(i) = ids[i]
  BY DEF IdList
<1>7. \A i \in -1 .. m : i = -1 \/ i = 0 \/ i \in 1 .. m
  BY <1>0
<1> HIDE DEF id
<1>8. \A i \in -1 .. m : Distinct(id(i))
  BY <1>3, <1>5, <1>6, <1>7
<1>9. \A i, k \in 1 .. m : i < k => Elems(ids[i]) \cap Elems(ids[k]) = {}
  <2> SUFFICES ASSUME NEW i \in 1 .. m, NEW k \in 1 .. m, i < k,
                      NEW c \in Elems(ids[i]), c \in Elems(ids[k])
               PROVE  FALSE
    OBVIOUS
  <2>1. c \in Ids /\ c <= ends[i] /\ ends[k - 1] < c
    BY <1>3
  <2>2. ends[i] <= ends[k - 1]
    BY CutsApart
  <2>3. c \in Int
    BY <2>1 DEF Ids
  <2>4. ends[i] \in Int /\ ends[k - 1] \in Int
    BY <1>1, <1>2
  <2> QED
    BY <2>1, <2>2, <2>3, <2>4
<1>10. \A i, k \in 1 .. m : i # k => Elems(ids[i]) \cap Elems(ids[k]) = {}
  <2>1. \A i, k \in 1 .. m : i # k => i < k \/ k < i
    OBVIOUS
  <2> QED
    BY <1>9, <2>1
<1>11. \A i, k \in -1 .. m : i # k => Elems(id(i)) \cap Elems(id(k)) = {}
  <2> SUFFICES ASSUME NEW i \in -1 .. m, NEW k \in -1 .. m, i # k
               PROVE  Elems(id(i)) \cap Elems(id(k)) = {}
    OBVIOUS
  <2>1. i = -1 \/ i = 0 \/ i \in 1 .. m
    BY <1>7
  <2>2. k = -1 \/ k = 0 \/ k \in 1 .. m
    BY <1>7
  <2>3. CASE i \in 1 .. m /\ k \in 1 .. m
    BY <1>6, <1>10, <2>3
  <2>4. CASE i = -1 \/ i = 0
    BY <1>5, <1>6, <2>4
  <2>5. CASE k = -1 \/ k = 0
    BY <1>5, <1>6, <2>5
  <2> QED
    BY <2>1, <2>2, <2>3, <2>4, <2>5
<1>12. \A c \in Ids : \E i \in -1 .. m : c \in Elems(id(i))
  <2> SUFFICES ASSUME NEW c \in Ids PROVE \E i \in -1 .. m : c \in Elems(id(i))
    OBVIOUS
  <2>1. PICK i \in 1 .. m : ends[i - 1] < c /\ c <= ends[i]
    BY CutsCover
  <2>2. c \in Elems(ids[i]) /\ i \in -1 .. m
    BY <1>0, <1>3, <2>1
  <2> QED
    BY <1>6, <2>2
<1>13. IdIndexes(ids) = -1 .. m
  BY <1>4 DEF IdIndexes
<1>14. m <= n_customers /\ NULL \in Ids \cup {NULL}
  OBVIOUS
<1> QED
  BY <1>4, <1>5, <1>8, <1>11, <1>12, <1>13, <1>14 DEF Described, id

(***************************************************************************)
(* The inductive invariant.  Between two eliminations nothing is pooled,   *)
(* which EliminateRoute counts on when it overwrites the pool.             *)
(***************************************************************************)
ObjectsTypes ==
  /\ solutions \in Seq(Solutions) /\ Len(solutions) \in 1 .. 3
  /\ failed \in BOOLEAN

ObjectsHeld == Heaped(customers, routes, solutions, Len(solutions))

Emptied == Depth = 0 /\ ~failed => s0.w = NULL /\ s0.pool = <<>>

ObjectsInv == ObjectsTypes /\ ObjectsHeld /\ Emptied

\* A copy of the first solution of a memory with room joins it (solution_dup).
LEMMA DupJoins ==
  ASSUME NEW cust, NEW rts, NEW ss, NEW K \in 1 .. 2, Heaped(cust, rts, ss, K),
         NEW mem, mem.customers = cust, mem.routes = rts,
         NEW d, d = solution_dup(mem, ss[1])
  PROVE  /\ Joins(cust, rts, d.mem.customers, d.mem.routes, d.s)
         /\ d.mem = [customers |-> d.mem.customers, routes |-> d.mem.routes]
         /\ ss[1].w = NULL => d.s.w = NULL
         /\ ss[1].pool = <<>> => d.s.pool = <<>>
<1>1. Sound(cust, rts, ss[1]) /\ HeapTypes(cust, rts)
  BY DEF Heaped
<1>2. PICK s : s = ss[1]
  OBVIOUS
<1>3. PICK w : w = IF s.w = NULL THEN NULL ELSE mem.customers[s.w]
  OBVIOUS
<1>4. PICK pool : pool = [i \in DOMAIN s.pool |-> mem.customers[s.pool[i]]]
  OBVIOUS
<1>5. PICK ids : ids = [i \in 1 .. s.n_routes |-> RouteIds(mem, s.routes[i])]
  OBVIOUS
<1>6. Described(w, pool, ids)
  BY <1>1, <1>2, <1>3, <1>4, <1>5, DupDescribed
<1>7. d = Built(mem, w, pool, ids)
  BY <1>2, <1>3, <1>4, <1>5 DEF solution_dup
<1>8. Cardinality(FreeObjects(cust)) >= 3 * n_customers /\ Cardinality(FreeRoutes(rts)) >= n_customers
  <2>1. K \in 0 .. 2
    OBVIOUS
  <2> QED
    BY <2>1, HeapFree
<1>9. /\ Joins(cust, rts, d.mem.customers, d.mem.routes, d.s)
      /\ d.mem = [customers |-> d.mem.customers, routes |-> d.mem.routes]
      /\ w = NULL => d.s.w = NULL
      /\ pool = <<>> => d.s.pool = <<>>
  BY <1>1, <1>6, <1>7, <1>8, BuiltJoins
<1>10. d.mem = [customers |-> d.mem.customers, routes |-> d.mem.routes]
  BY <1>9
<1>11. s.w = NULL => w = NULL
  BY <1>3
<1>12. s.pool = <<>> => pool = <<>>
  <2>1. ASSUME s.pool = <<>> PROVE pool = <<>>
    <3>1. DOMAIN s.pool = {}
      BY <2>1
    <3> QED
      BY <1>4, <2>1, <3>1
  <2> QED
    BY <2>1
<1> QED
  BY <1>2, <1>9, <1>10, <1>11, <1>12

\* The initial solution is built in empty memory.
LEMMA InitInv ==
  ASSUME ObjectsInit
  PROVE  ObjectsInv
<1>0. n_customers \in Nat \ {0} /\ MaxSolutions \in Nat
  BY ObjectsAssumption
<1>1. PICK cust, rts : /\ cust = [a \in Addresses |-> Free]
                       /\ rts = [r \in RouteAddresses |-> <<>>]
  OBVIOUS
<1>2. PICK mem : mem = [customers |-> cust, routes |-> rts]
  OBVIOUS
<1>3. PICK m, ends, ids :
         /\ m \in 1 .. n_customers /\ ends \in [0 .. m -> 0 .. n_customers]
         /\ ends[0] = 0 /\ ends[m] = n_customers /\ \A i \in 1 .. m : ends[i - 1] < ends[i]
         /\ ids = [i \in 1 .. m |-> [j \in 1 .. ends[i] - ends[i - 1] |-> ends[i - 1] + j]]
         /\ customers = Built(mem, NULL, <<>>, ids).mem.customers
         /\ routes = Built(mem, NULL, <<>>, ids).mem.routes
         /\ solutions = <<Built(mem, NULL, <<>>, ids).s>>
         /\ failed = FALSE
  BY <1>1, <1>2 DEF ObjectsInit
<1>4. PICK b : b = Built(mem, NULL, <<>>, ids)
  OBVIOUS
<1>5. Described(NULL, <<>>, ids)
  <2>1. Cuts(m, ends)
    BY <1>3 DEF Cuts
  <2> QED
    BY <1>3, <2>1, InitDescribed
<1>6. HeapTypes(cust, rts)
  <2>1. Free \in 0 .. n_customers \cup {Free} /\ <<>> \in Seq(Addresses)
    OBVIOUS
  <2> QED
    BY <1>1, <2>1 DEF HeapTypes
<1>7. PICK none : none = <<>>
  OBVIOUS
<1>8. Heaped(cust, rts, none, 0)
  <2>1. \A k \in 1 .. 0 : FALSE
    OBVIOUS
  <2>2. \A r \in RouteAddresses : rts[r] = <<>>
    BY <1>1
  <2>3. \A a \in Addresses : cust[a] = Free
    BY <1>1
  <2> QED
    BY ONLY <1>6, <2>1, <2>2, <2>3 DEF Heaped
<1>9. Cardinality(FreeObjects(cust)) >= 3 * n_customers /\ Cardinality(FreeRoutes(rts)) >= n_customers
  BY ONLY <1>8, HeapFree, 0 \in 0 .. 2
<1>10. mem.customers = cust /\ mem.routes = rts
  BY <1>2
<1>11. Joins(cust, rts, b.mem.customers, b.mem.routes, b.s) /\ b.s.w = NULL /\ b.s.pool = <<>>
  <2>1. PICK w, pool : w = NULL /\ pool = <<>>
    OBVIOUS
  <2>2. b = Built(mem, w, pool, ids) /\ Described(w, pool, ids)
    BY <1>4, <1>5, <2>1
  <2>3. /\ Joins(cust, rts, b.mem.customers, b.mem.routes, b.s)
        /\ b.mem = [customers |-> b.mem.customers, routes |-> b.mem.routes]
        /\ w = NULL => b.s.w = NULL
        /\ pool = <<>> => b.s.pool = <<>>
    BY ONLY <1>6, <1>9, <1>10, <2>2, BuiltJoins
  <2> QED
    BY <2>1, <2>3
<1>12. customers = b.mem.customers /\ routes = b.mem.routes /\ solutions = <<b.s>> /\ failed = FALSE
  BY <1>3, <1>4
<1>13. solutions[1] = b.s /\ Len(solutions) = 1
  BY <1>12
<1>14. Heaped(customers, routes, solutions, 0 + 1)
  <2>1. Joins(cust, rts, customers, routes, solutions[0 + 1])
    BY <1>11, <1>12, <1>13
  <2>2. \A k \in 1 .. 0 : solutions[k] = none[k]
    OBVIOUS
  <2> QED
    BY ONLY <1>8, <2>1, <2>2, HeapGrows, 0 \in Nat
<1>15. ObjectsHeld
  BY <1>13, <1>14 DEF ObjectsHeld
<1>16. ObjectsTypes
  <2>1. b.s \in Solutions
    BY <1>11 DEF Joins, Sound, Slotted
  <2>2. PICK t \in Solutions : t = b.s
    BY <2>1
  <2>3. solutions = <<t>> /\ failed = FALSE
    BY <1>12, <2>2
  <2>4. solutions \in Seq(Solutions) /\ Len(solutions) = 1
    BY ONLY <2>3, t \in Solutions
  <2>5. failed \in BOOLEAN
    BY <2>3, Zenon
  <2> QED
    BY ONLY <2>4, <2>5 DEF ObjectsTypes
<1>17. Emptied
  BY <1>11, <1>13 DEF Emptied, s0
<1> QED
  BY <1>15, <1>16, <1>17 DEF ObjectsInv

\* squeeze and insert_eject copy the solution.
LEMMA DupForPhaseInv ==
  ASSUME ObjectsInv, DupForPhase
  PROVE  ObjectsInv'
<1>1. PICK K \in 1 .. 3 : K = Len(solutions)
  BY DEF ObjectsInv, ObjectsTypes
<1>2. K = 2
  BY <1>1 DEF DupForPhase, Depth
<1>3. PICK d : d = solution_dup(Heap, s0)
  OBVIOUS
<1>4. /\ customers' = d.mem.customers /\ routes' = d.mem.routes
      /\ solutions' = Append(solutions, d.s) /\ failed' = failed
  <2>1. failed' = (failed \/ FALSE)
    BY <1>3 DEF DupForPhase, Become
  <2>2. failed \in BOOLEAN
    BY DEF ObjectsInv, ObjectsTypes
  <2>3. failed' = failed
    BY <2>1, <2>2
  <2> QED
    BY <1>3, <2>3 DEF DupForPhase, Become
<1>5. Heaped(customers, routes, solutions, 2) /\ solutions \in Seq(Solutions)
  BY <1>1, <1>2 DEF ObjectsInv, ObjectsHeld, ObjectsTypes
<1>6. Joins(customers, routes, d.mem.customers, d.mem.routes, d.s)
  <2>1. Heap.customers = customers /\ Heap.routes = routes
    BY DEF Heap
  <2>2. d = solution_dup(Heap, solutions[1]) /\ 2 \in 1 .. 2
    BY <1>3 DEF s0
  <2> QED
    BY ONLY <1>5, <2>1, <2>2, DupJoins
<1>7. d.s \in Solutions
  BY <1>6 DEF Joins, Sound, Slotted
<1>8. /\ Append(solutions, d.s) \in Seq(Solutions) /\ Len(Append(solutions, d.s)) = 3
      /\ Append(solutions, d.s)[3] = d.s
      /\ \A k \in 1 .. 2 : Append(solutions, d.s)[k] = solutions[k]
  <2>1. PICK t \in Solutions : t = d.s
    BY <1>7
  <2>2. Len(solutions) = 2
    BY <1>1, <1>2
  <2>3. /\ Append(solutions, t) \in Seq(Solutions) /\ Len(Append(solutions, t)) = 3
        /\ Append(solutions, t)[3] = t
        /\ \A k \in 1 .. 2 : Append(solutions, t)[k] = solutions[k]
    BY ONLY <1>5, <2>2, t \in Solutions
  <2> QED
    BY ONLY <2>1, <2>3
<1>9. Heaped(d.mem.customers, d.mem.routes, Append(solutions, d.s), 3)
  <2>1. 2 + 1 = 3 /\ 2 \in Nat
    OBVIOUS
  <2>2. Joins(customers, routes, d.mem.customers, d.mem.routes, Append(solutions, d.s)[2 + 1])
    BY <1>6, <1>8, <2>1
  <2>3. Heaped(d.mem.customers, d.mem.routes, Append(solutions, d.s), 2 + 1)
    BY ONLY <1>5, <1>8, <2>1, <2>2, HeapGrows
  <2> QED
    BY <2>1, <2>3
<1>10. ObjectsTypes'
  BY <1>4, <1>8 DEF ObjectsInv, ObjectsTypes
<1>11. ObjectsHeld'
  BY <1>4, <1>8, <1>9 DEF ObjectsHeld
<1>12. Emptied'
  BY <1>4, <1>8 DEF Emptied, Depth
<1> QED
  BY <1>10, <1>11, <1>12 DEF ObjectsInv

(***************************************************************************)
(* Changes of the lists of the first solution.                             *)
(***************************************************************************)

\* A list of a solution, and a route of it whichever it is.
LEMMA GoodAs ==
  ASSUME NEW cust, NEW q, NEW i \in Int, i > 0
  PROVE  Good(cust, q, i) <=> Good(cust, q, 1)
BY DEF Good

\* A customer more in a route, between its depots.
LEMMA InsertGood ==
  ASSUME NEW cust, NEW q, Good(cust, q, 1), NEW i \in 1 .. Len(q) - 1,
         NEW c \in Addresses, cust[c] # 0, c \notin Elems(q)
  PROVE  /\ Good(cust, InsertBefore(q, i + 1, c), 1)
         /\ Elems(InsertBefore(q, i + 1, c)) = Elems(q) \cup {c}
         /\ Len(InsertBefore(q, i + 1, c)) = Len(q) + 1
<1>1. /\ q \in Seq(Addresses) /\ Distinct(q) /\ Len(q) >= 2
      /\ \A x \in 1 .. Len(q) : cust[q[x]] = 0 <=> x \in {1, Len(q)}
  BY DEF Good
<1>2. PICK L \in Nat : L = Len(q) /\ L >= 2
  BY <1>1
<1>3. i + 1 \in 1 .. Len(q) + 1 /\ i + 1 \in 2 .. L
  BY <1>2
<1>4. PICK p : p = InsertBefore(q, i + 1, c)
  OBVIOUS
<1>5. /\ InsertBefore(q, i + 1, c) \in Seq(Addresses)
      /\ Len(InsertBefore(q, i + 1, c)) = Len(q) + 1
      /\ \A k \in 1 .. Len(q) + 1 :
           InsertBefore(q, i + 1, c)[k] =
             IF k < i + 1 THEN q[k] ELSE IF k = i + 1 THEN c ELSE q[k - 1]
  BY <1>1, <1>3, InsertBeforeElements
<1>6. /\ Distinct(InsertBefore(q, i + 1, c))
      /\ Elems(InsertBefore(q, i + 1, c)) = Elems(q) \cup {c}
  BY <1>1, <1>3, InsertBeforeElems
<1>7. \A k \in 1 .. L + 1 : cust[p[k]] = 0 <=> k \in {1, L + 1}
  <2> SUFFICES ASSUME NEW k \in 1 .. L + 1 PROVE cust[p[k]] = 0 <=> k \in {1, L + 1}
    OBVIOUS
  <2>1. CASE k < i + 1
    <3>1. p[k] = q[k] /\ k \in 1 .. L /\ k # L /\ k # L + 1
      BY <1>2, <1>3, <1>4, <1>5, <2>1
    <3> QED
      BY <1>1, <1>2, <3>1
  <2>2. CASE k = i + 1
    <3>1. p[k] = c /\ k # 1 /\ k # L + 1
      BY <1>2, <1>3, <1>4, <1>5, <2>2
    <3> QED
      BY <3>1
  <2>3. CASE k > i + 1
    <3>1. p[k] = q[k - 1] /\ k - 1 \in 1 .. L /\ k # 1 /\ k - 1 # 1
      BY <1>2, <1>3, <1>4, <1>5, <2>3
    <3>2. k - 1 = L <=> k = L + 1
      BY <1>2
    <3> QED
      BY <1>1, <1>2, <3>1, <3>2
  <2> QED
    BY <1>2, <1>3, <2>1, <2>2, <2>3
<1>8. Good(cust, p, 1)
  <2>1. p \in Seq(Addresses) /\ Distinct(p) /\ Len(p) = L + 1
    BY <1>2, <1>4, <1>5, <1>6
  <2> QED
    BY <1>2, <1>7, <2>1 DEF Good
<1> QED
  BY <1>4, <1>5, <1>6, <1>8

\* A customer less.
LEMMA RemoveGood ==
  ASSUME NEW cust, NEW q, Good(cust, q, 1), NEW i \in 2 .. Len(q) - 1
  PROVE  /\ Good(cust, RemoveIndex(q, i), 1)
         /\ Elems(RemoveIndex(q, i)) = Elems(q) \ {q[i]}
         /\ q[i] \in Elems(q) /\ q[i] \in Addresses /\ cust[q[i]] # 0
<1>1. /\ q \in Seq(Addresses) /\ Distinct(q) /\ Len(q) >= 2
      /\ \A x \in 1 .. Len(q) : cust[q[x]] = 0 <=> x \in {1, Len(q)}
  BY DEF Good
<1>2. PICK L \in Nat : L = Len(q) /\ L >= 3
  BY <1>1
<1>3. i \in 1 .. Len(q) /\ i \in 2 .. L - 1
  BY <1>2
<1>4. PICK p : p = RemoveIndex(q, i)
  OBVIOUS
<1>5. /\ RemoveIndex(q, i) \in Seq(Addresses)
      /\ Len(RemoveIndex(q, i)) = Len(q) - 1
      /\ \A k \in 1 .. Len(q) - 1 : RemoveIndex(q, i)[k] = IF k < i THEN q[k] ELSE q[k + 1]
  BY <1>1, <1>3, RemoveIndexElements
<1>6. Distinct(RemoveIndex(q, i)) /\ Elems(RemoveIndex(q, i)) = Elems(q) \ {q[i]}
  BY <1>1, <1>3, RemoveIndexElems
<1>7. \A k \in 1 .. L - 1 : cust[p[k]] = 0 <=> k \in {1, L - 1}
  <2> SUFFICES ASSUME NEW k \in 1 .. L - 1 PROVE cust[p[k]] = 0 <=> k \in {1, L - 1}
    OBVIOUS
  <2>1. CASE k < i
    <3>1. p[k] = q[k] /\ k \in 1 .. L /\ k # L /\ k # L - 1
      BY <1>2, <1>3, <1>4, <1>5, <2>1
    <3> QED
      BY <1>1, <1>2, <3>1
  <2>2. CASE k >= i
    <3>1. p[k] = q[k + 1] /\ k + 1 \in 1 .. L /\ k # 1 /\ k + 1 # 1
      BY <1>2, <1>3, <1>4, <1>5, <2>2
    <3>2. k + 1 = L <=> k = L - 1
      BY <1>2
    <3> QED
      BY <1>1, <1>2, <3>1, <3>2
  <2> QED
    BY <1>2, <1>3, <2>1, <2>2
<1>8. Good(cust, p, 1)
  <2>1. p \in Seq(Addresses) /\ Distinct(p) /\ Len(p) = L - 1 /\ L - 1 >= 2
    BY <1>2, <1>4, <1>5, <1>6
  <2> QED
    BY <1>2, <1>7, <2>1 DEF Good
<1>9. q[i] \in Elems(q) /\ q[i] \in Addresses /\ cust[q[i]] # 0
  <2>1. i # 1 /\ i # Len(q)
    BY <1>2, <1>3
  <2> QED
    BY <1>1, <1>3, <2>1 DEF Elems
<1> QED
  BY <1>4, <1>6, <1>8, <1>9

\* Another customer in its place.
LEMMA ReplaceGood ==
  ASSUME NEW cust, NEW q, Good(cust, q, 1), NEW i \in 2 .. Len(q) - 1,
         NEW c \in Addresses, cust[c] # 0, c \notin Elems(q)
  PROVE  /\ Good(cust, Replace(q, i, c), 1)
         /\ Elems(Replace(q, i, c)) = (Elems(q) \ {q[i]}) \cup {c}
<1>1. /\ q \in Seq(Addresses) /\ Distinct(q) /\ Len(q) >= 2
      /\ \A x \in 1 .. Len(q) : cust[q[x]] = 0 <=> x \in {1, Len(q)}
  BY DEF Good
<1>2. PICK L \in Nat : L = Len(q) /\ L >= 3
  BY <1>1
<1>3. i \in 1 .. Len(q) /\ i \in 2 .. L - 1
  BY <1>2
<1>4. PICK p : p = Replace(q, i, c)
  OBVIOUS
<1>5. /\ Replace(q, i, c) \in Seq(Addresses) /\ Distinct(Replace(q, i, c))
      /\ Elems(Replace(q, i, c)) = (Elems(q) \ {q[i]}) \cup {c}
  BY <1>1, <1>3, ReplaceElems
<1>6. Len(p) = L /\ \A k \in 1 .. L : p[k] = IF k = i THEN c ELSE q[k]
  BY <1>1, <1>2, <1>3, <1>4 DEF Replace
<1>7. \A k \in 1 .. L : cust[p[k]] = 0 <=> k \in {1, L}
  BY <1>1, <1>2, <1>3, <1>6
<1>8. Good(cust, p, 1)
  BY <1>2, <1>4, <1>5, <1>6, <1>7 DEF Good
<1> QED
  BY <1>4, <1>5, <1>8

\* The head of one route in front of the tail of another.
LEMMA SpliceGood ==
  ASSUME NEW cust, NEW r, Good(cust, r, 1), NEW q, Good(cust, q, 1),
         NEW i \in 1 .. Len(r) - 1, NEW j \in 1 .. Len(q) - 1, Elems(r) \cap Elems(q) = {}
  PROVE  /\ Good(cust, Splice(r, i, q, j), 1)
         /\ Elems(Splice(r, i, q, j)) = Upto(r, i) \cup Behind(q, j)
<1>1. /\ r \in Seq(Addresses) /\ Distinct(r) /\ Len(r) >= 2
      /\ \A x \in 1 .. Len(r) : cust[r[x]] = 0 <=> x \in {1, Len(r)}
  BY DEF Good
<1>2. /\ q \in Seq(Addresses) /\ Distinct(q) /\ Len(q) >= 2
      /\ \A x \in 1 .. Len(q) : cust[q[x]] = 0 <=> x \in {1, Len(q)}
  BY DEF Good
<1>3. PICK L \in Nat, M \in Nat : L = Len(r) /\ M = Len(q)
  BY <1>1, <1>2
<1>4. /\ i \in 0 .. Len(r) /\ j \in 0 .. Len(q)
      /\ i \in 1 .. L - 1 /\ j \in 1 .. M - 1
  BY <1>3
<1>5. PICK p : p = Splice(r, i, q, j)
  OBVIOUS
<1>6. /\ Splice(r, i, q, j) \in Seq(Addresses)
      /\ Len(Splice(r, i, q, j)) = i + Len(q) - j
      /\ \A k \in 1 .. i + Len(q) - j :
           Splice(r, i, q, j)[k] = IF k <= i THEN r[k] ELSE q[k - i + j]
  BY <1>1, <1>2, <1>4, SpliceElements
<1>7. /\ Distinct(Splice(r, i, q, j))
      /\ Elems(Splice(r, i, q, j)) = Upto(r, i) \cup Behind(q, j)
  BY <1>1, <1>2, <1>4, SpliceElems
<1>8. PICK N \in Nat : N = (i + M) - j /\ N >= 2
  <2>1. (i + M) - j \in Nat /\ (i + M) - j >= 2
    BY <1>3, <1>4
  <2> QED
    BY <2>1
<1>9. i + Len(q) - j = N
  BY <1>3, <1>4, <1>8
<1>10. \A k \in 1 .. N : cust[p[k]] = 0 <=> k \in {1, N}
  <2> SUFFICES ASSUME NEW k \in 1 .. N PROVE cust[p[k]] = 0 <=> k \in {1, N}
    OBVIOUS
  <2>1. CASE k <= i
    <3>1. p[k] = r[k]
      BY <1>5, <1>6, <1>9, <2>1
    <3>2. k \in 1 .. L /\ k # L /\ k # N
      BY <1>4, <1>8, <2>1
    <3> QED
      BY <1>1, <1>3, <3>1, <3>2
  <2>2. CASE k > i
    <3>0. k \in 1 .. i + Len(q) - j /\ ~(k <= i)
      BY <1>4, <1>8, <1>9, <2>2
    <3>1. p[k] = q[k - i + j]
      BY <1>5, <1>6, <3>0
    <3>2. PICK x \in Int : x = k - i + j
      BY <1>4
    <3>3. x \in 2 .. M /\ k # 1 /\ (x = M <=> k = N)
      BY <1>4, <1>8, <2>2, <3>2
    <3> QED
      BY <1>2, <1>3, <3>1, <3>2, <3>3
  <2> QED
    BY <1>4, <1>8, <2>1, <2>2
<1>11. Good(cust, p, 1)
  <2>1. p \in Seq(Addresses) /\ Distinct(p) /\ Len(p) = N
    BY <1>5, <1>6, <1>7, <1>9
  <2> QED
    BY <1>8, <1>10, <2>1 DEF Good
<1> QED
  BY <1>5, <1>7, <1>11

\* The ejected customers are none of the depots.
LEMMA ChosenGood ==
  ASSUME NEW cust, NEW q, Good(cust, q, 1), NEW out \in SUBSET (2 .. Len(q) - 1)
  PROVE  /\ Good(cust, Chosen(q, DOMAIN q \ out), 1)
         /\ Chosen(q, out) \in Seq(Addresses) /\ Distinct(Chosen(q, out))
         /\ \A a \in Elems(Chosen(q, out)) : cust[a] # 0
         /\ Elems(Chosen(q, DOMAIN q \ out)) \cap Elems(Chosen(q, out)) = {}
         /\ Elems(Chosen(q, DOMAIN q \ out)) \cup Elems(Chosen(q, out)) = Elems(q)
<1>1. /\ q \in Seq(Addresses) /\ Distinct(q) /\ Len(q) >= 2
      /\ \A x \in 1 .. Len(q) : cust[q[x]] = 0 <=> x \in {1, Len(q)}
  BY DEF Good
<1>2. PICK L \in Nat : L = Len(q) /\ L >= 2
  BY <1>1
<1>3. DOMAIN q = 1 .. L
  BY <1>1, <1>2
<1>4. \A x \in out : x \in Int /\ 2 <= x /\ x <= L - 1
  BY <1>2
<1>5. PICK in : in = DOMAIN q \ out
  OBVIOUS
<1>6. in \in SUBSET (1 .. Len(q)) /\ out \in SUBSET (1 .. Len(q)) /\ in \cup out = 1 .. L /\ in \cap out = {}
  <2>1. \A x \in out : x \in 1 .. L
    BY <1>2, <1>4
  <2>2. in = (1 .. L) \ out
    BY <1>3, <1>5
  <2> QED
    BY <1>2, <2>1, <2>2
<1>7. 1 \in in /\ L \in in
  BY <1>2, <1>3, <1>4, <1>5
<1>8. /\ Chosen(q, out) \in Seq(Addresses)
      /\ Distinct(Chosen(q, out)) /\ Elems(Chosen(q, out)) = {q[x] : x \in out}
  BY <1>1, <1>6, ChosenElems
<1>9. /\ Chosen(q, in) \in Seq(Addresses) /\ Len(Chosen(q, in)) = Cardinality(in)
      /\ \A k \in 1 .. Cardinality(in) : Chosen(q, in)[k] = q[Nth(in, k)]
      /\ Distinct(Chosen(q, in)) /\ Elems(Chosen(q, in)) = {q[x] : x \in in}
  BY <1>1, <1>6, ChosenElems
<1>10. /\ Cardinality(in) \in Nat
       /\ \A k \in 1 .. Cardinality(in) : Nth(in, k) \in in
       /\ \A k, l \in 1 .. Cardinality(in) : k < l => Nth(in, k) < Nth(in, l)
       /\ \A k, l \in 1 .. Cardinality(in) : Nth(in, k) = Nth(in, l) => k = l
       /\ \A a \in in : \E k \in 1 .. Cardinality(in) : Nth(in, k) = a
  BY <1>2, <1>6, NthFacts
<1>11. PICK K \in Nat : K = Cardinality(in)
  BY <1>10
<1>12. PICK lo \in 1 .. K, hi \in 1 .. K : Nth(in, lo) = 1 /\ Nth(in, hi) = L
  BY <1>7, <1>10, <1>11
<1>13. \A k \in 1 .. K : Nth(in, k) \in Int /\ 1 <= Nth(in, k) /\ Nth(in, k) <= L
  BY <1>2, <1>6, <1>10, <1>11
<1>14. lo = 1 /\ hi = K /\ lo # hi
  <2>1. 1 \in 1 .. K /\ K \in 1 .. K
    BY <1>12
  <2>2. ~(1 < lo)
    BY <1>10, <1>11, <1>12, <1>13, <2>1
  <2>3. ~(hi < K)
    BY <1>10, <1>11, <1>12, <1>13, <2>1
  <2> QED
    BY <1>2, <1>12, <2>2, <2>3
<1>15. K >= 2
  BY <1>12, <1>14
<1>16. \A k \in 1 .. K : Nth(in, k) \in {1, L} <=> k \in {1, K}
  BY <1>10, <1>11, <1>12, <1>14
<1>17. \A k \in 1 .. K : cust[Chosen(q, in)[k]] = 0 <=> k \in {1, K}
  <2> SUFFICES ASSUME NEW k \in 1 .. K PROVE cust[Chosen(q, in)[k]] = 0 <=> k \in {1, K}
    OBVIOUS
  <2>1. Chosen(q, in)[k] = q[Nth(in, k)] /\ Nth(in, k) \in 1 .. Len(q)
    BY <1>6, <1>9, <1>10, <1>11
  <2> QED
    BY <1>1, <1>2, <1>16, <2>1
<1>18. Good(cust, Chosen(q, in), 1)
  BY <1>9, <1>11, <1>15, <1>17 DEF Good
<1>19. \A a \in Elems(Chosen(q, out)) : cust[a] # 0
  <2> SUFFICES ASSUME NEW x \in out PROVE cust[q[x]] # 0
    BY <1>8
  <2>1. x \in 1 .. Len(q) /\ x # 1 /\ x # Len(q)
    BY <1>2, <1>4
  <2> QED
    BY <1>1, <2>1
<1>20. {q[x] : x \in in} \cap {q[x] : x \in out} = {}
  <2> SUFFICES ASSUME NEW x \in in, NEW y \in out, q[x] = q[y] PROVE FALSE
    OBVIOUS
  <2>1. x = y
    BY <1>1, <1>6 DEF Distinct
  <2> QED
    BY <1>6, <2>1
<1>21. {q[x] : x \in in} \cup {q[x] : x \in out} = Elems(q)
  BY <1>2, <1>6 DEF Elems
<1> QED
  BY <1>5, <1>8, <1>9, <1>18, <1>19, <1>20, <1>21

\* The lists of the first solution share out its objects anew.
LEMMA ListsExchanged ==
  ASSUME NEW cust, NEW rts, NEW ss, NEW K \in Nat \ {0}, Heaped(cust, rts, ss, K),
         NEW rts2 \in [RouteAddresses -> Seq(Addresses)],
         \A r \in RouteAddresses \ RoutesOf(ss[1]) : rts2[r] = rts[r],
         NEW ss2, \A k \in 2 .. K : ss2[k] = ss[k], ss2[1] \in Solutions,
         ss2[1].n_routes = ss[1].n_routes, ss2[1].meta = ss[1].meta, ss2[1].routes = ss[1].routes,
         NEW D, Exchanges(cust, rts, ss[1], rts2, ss2[1], D)
  PROVE  Heaped(cust, rts2, ss2, K)
<1>1. Sound(cust, rts, ss[1]) /\ HeapTypes(cust, rts)
  <2>1. 1 \in 1 .. K
    OBVIOUS
  <2> QED
    BY <2>1 DEF Heaped
<1>2. Slotted(ss2[1])
  BY <1>1 DEF Sound, Slotted
<1>3. Sound(cust, rts2, ss2[1]) /\ Held(rts2, ss2[1]) = Held(rts, ss[1])
  BY <1>1, <1>2, ExchangesSound
<1>4. RoutesOf(ss2[1]) = RoutesOf(ss[1])
  BY DEF RoutesOf
<1>5. HeapTypes(cust, rts2)
  BY <1>1 DEF HeapTypes
<1>6. /\ Held(rts2, ss2[1]) \subseteq Held(rts, ss[1]) /\ RoutesOf(ss2[1]) \subseteq RoutesOf(ss[1])
      /\ \A a \in Addresses \ Held(rts, ss[1]) : cust[a] = cust[a]
      /\ \A a \in Held(rts, ss[1]) \ Held(rts2, ss2[1]) : cust[a] = Free
      /\ \A r \in RoutesOf(ss[1]) \ RoutesOf(ss2[1]) : rts2[r] = <<>>
  BY <1>3, <1>4
<1> QED
  BY <1>3, <1>5, <1>6, HeapChanges

\* Only the routes of s in slots X have been written.
Written(rts, s, rts2, X) ==
  /\ X \subseteq 1 .. s.n_routes
  /\ \A r \in RouteAddresses : (\A x \in X : r # s.routes[x]) => rts2[r] = rts[r]

\* The lists of s, and of s2 with the same routes, once those in slots X are written.
Rewritten(cust, rts, s, rts2, s2, X) ==
  /\ \A i \in 1 .. s.n_routes : /\ List(rts, s, i) = rts[s.routes[i]]
                                /\ List(rts2, s2, i) = rts2[s.routes[i]]
                                /\ s.routes[i] \in RouteAddresses
                                /\ Good(cust, rts[s.routes[i]], 1)
  /\ \A i \in 1 .. s.n_routes : i \notin X => List(rts2, s2, i) = List(rts, s, i)
  /\ \A r \in RouteAddresses \ RoutesOf(s) : rts2[r] = rts[r]
  /\ ListIndexes(s) = {-1, 0} \cup 1 .. s.n_routes

\* The lists after such a write.
LEMMA RouteLists ==
  ASSUME NEW cust, NEW rts, NEW s, Sound(cust, rts, s), NEW s2, s2.routes = s.routes,
         NEW rts2, NEW X, Written(rts, s, rts2, X)
  PROVE  Rewritten(cust, rts, s, rts2, s2, X)
<1>0. /\ X \subseteq 1 .. s.n_routes
      /\ \A r \in RouteAddresses : (\A x \in X : r # s.routes[x]) => rts2[r] = rts[r]
  BY DEF Written
<1>1. PICK M \in Nat : M = s.n_routes
  BY SoundTypes
<1>2. /\ \A i \in 1 .. M : s.routes[i] \in RouteAddresses
      /\ \A i, j \in 1 .. M : s.routes[i] = s.routes[j] => i = j
  BY <1>1 DEF Sound, Slotted
<1>3. \A i \in 1 .. M : i # -1 /\ i # 0 /\ i > 0 /\ i \in ListIndexes(s) /\ i \in Int
  BY <1>1 DEF ListIndexes
<1>4. \A i \in 1 .. M : List(rts, s, i) = rts[s.routes[i]] /\ List(rts2, s2, i) = rts2[s.routes[i]]
  BY <1>3 DEF List
<1>5. \A i \in 1 .. M : Good(cust, rts[s.routes[i]], 1)
  <2> SUFFICES ASSUME NEW i \in 1 .. M PROVE Good(cust, rts[s.routes[i]], 1)
    OBVIOUS
  <2>1. Good(cust, List(rts, s, i), i)
    BY <1>3 DEF Sound, GoodLists
  <2>2. Good(cust, rts[s.routes[i]], i)
    BY <1>4, <2>1
  <2> QED
    BY <1>3, <2>2, GoodAs
<1>6. \A i \in 1 .. M : i \notin X => List(rts2, s2, i) = List(rts, s, i)
  BY <1>0, <1>1, <1>2, <1>4
<1>7. \A r \in RouteAddresses \ RoutesOf(s) : rts2[r] = rts[r]
  BY <1>0 DEF RoutesOf
<1>8. ListIndexes(s) = {-1, 0} \cup 1 .. M
  BY <1>1 DEF ListIndexes
<1> QED
  BY <1>1, <1>2, <1>4, <1>5, <1>6, <1>7, <1>8 DEF Rewritten

\* Two routes share out their objects anew.
LEMMA RoutesExchanged ==
  ASSUME NEW cust, NEW rts, NEW ss, NEW K \in Nat \ {0}, Heaped(cust, rts, ss, K),
         ss[1] \in Solutions,
         NEW r \in RoutesOf(ss[1]), NEW q \in RoutesOf(ss[1]), r # q, NEW f, NEW g,
         Good(cust, f, 1), Good(cust, g, 1), Elems(f) \cap Elems(g) = {},
         Elems(f) \cup Elems(g) = Elems(rts[r]) \cup Elems(rts[q])
  PROVE  Heaped(cust, [rts EXCEPT ![r] = f, ![q] = g], ss, K)
<1>1. Sound(cust, rts, ss[1]) /\ HeapTypes(cust, rts)
  <2>1. 1 \in 1 .. K
    OBVIOUS
  <2> QED
    BY <2>1 DEF Heaped
<1>2. PICK rts2 : rts2 = [rts EXCEPT ![r] = f, ![q] = g]
  OBVIOUS
<1>3. PICK s : s = ss[1]
  OBVIOUS
<1>4. PICK x \in 1 .. s.n_routes, y \in 1 .. s.n_routes : r = s.routes[x] /\ q = s.routes[y] /\ x # y
  BY <1>3 DEF RoutesOf
<1>5. rts \in [RouteAddresses -> Seq(Addresses)]
  BY <1>1 DEF HeapTypes
<1>6. r \in RouteAddresses /\ q \in RouteAddresses
  BY <1>1, SoundTypes
<1>7. f \in Seq(Addresses) /\ g \in Seq(Addresses)
  BY DEF Good
<1>8. /\ rts2 \in [RouteAddresses -> Seq(Addresses)] /\ rts2[r] = f /\ rts2[q] = g
      /\ \A p \in RouteAddresses : p # r /\ p # q => rts2[p] = rts[p]
  BY <1>2, <1>5, <1>6, <1>7
<1> DEFINE D == {x, y}
<1>9. Written(rts, s, rts2, D)
  BY <1>4, <1>8 DEF Written
<1>10. Sound(cust, rts, s)
  BY <1>1, <1>3
<1>11. /\ \A i \in 1 .. s.n_routes : /\ List(rts, s, i) = rts[s.routes[i]]
                                     /\ List(rts2, s, i) = rts2[s.routes[i]]
                                     /\ s.routes[i] \in RouteAddresses
                                     /\ Good(cust, rts[s.routes[i]], 1)
       /\ \A i \in 1 .. s.n_routes : i \notin D => List(rts2, s, i) = List(rts, s, i)
       /\ \A p \in RouteAddresses \ RoutesOf(s) : rts2[p] = rts[p]
       /\ ListIndexes(s) = {-1, 0} \cup 1 .. s.n_routes
  <2> HIDE DEF D
  <2>1. Rewritten(cust, rts, s, rts2, s, D)
    BY <1>9, <1>10, RouteLists
  <2> QED
    BY <2>1 DEF Rewritten
<1>12. /\ List(rts2, s, x) = f /\ List(rts2, s, y) = g
       /\ List(rts, s, x) = rts[r] /\ List(rts, s, y) = rts[q]
  BY <1>4, <1>8, <1>11
<1>13. Exchanges(cust, rts, s, rts2, s, D)
  <2>1. \A i \in ListIndexes(s) \ D : List(rts2, s, i) = List(rts, s, i)
    <3>1. List(rts2, s, -1) = List(rts, s, -1) /\ List(rts2, s, 0) = List(rts, s, 0)
      BY DEF List
    <3> QED
      BY <1>11, <3>1
  <2>2. D \subseteq ListIndexes(s)
    BY <1>4, <1>11
  <2>3. x \in Int /\ x > 0 /\ y \in Int /\ y > 0
    OBVIOUS
  <2>4. Good(cust, f, x) /\ Good(cust, g, y)
    BY <2>3, GoodAs
  <2>5. \A i \in D : Good(cust, List(rts2, s, i), i)
    BY <1>12, <2>4
  <2>6. \A i, j \in D : i # j => Elems(List(rts2, s, i)) \cap Elems(List(rts2, s, j)) = {}
    BY <1>12
  <2>7. UNION {Elems(List(rts2, s, i)) : i \in D} = Elems(f) \cup Elems(g)
    BY <1>12
  <2>8. UNION {Elems(List(rts, s, i)) : i \in D} = Elems(rts[r]) \cup Elems(rts[q])
    BY <1>12
  <2> HIDE DEF D
  <2> QED
    BY <2>1, <2>2, <2>5, <2>6, <2>7, <2>8 DEF Exchanges
<1> HIDE DEF D
<1>14. Heaped(cust, rts2, ss, K)
  BY <1>3, <1>8, <1>11, <1>13, ListsExchanged
<1> QED
  BY <1>2, <1>14

\* What is in hand is no depot, and in no other list.
LEMMA InHand ==
  ASSUME NEW cust, NEW rts, NEW s, Sound(cust, rts, s), s.w # NULL
  PROVE  /\ s.w \in Addresses /\ cust[s.w] # 0 /\ List(rts, s, -1) = <<s.w>>
         /\ Elems(List(rts, s, -1)) = {s.w}
         /\ \A i \in ListIndexes(s) : i # -1 => s.w \notin Elems(List(rts, s, i))
<1>1. -1 \in ListIndexes(s)
  BY SoundTypes DEF ListIndexes
<1>2. List(rts, s, -1) = <<s.w>>
  BY DEF List
<1>3. Good(cust, <<s.w>>, -1)
  BY <1>1, <1>2 DEF Sound, GoodLists
<1>4. s.w \in Addresses /\ cust[s.w] # 0
  <2>1. s.w \in Addresses
    BY SoundTypes
  <2>2. PICK q : q = <<s.w>>
    OBVIOUS
  <2>3. Len(q) = 1 /\ q[1] = s.w
    BY <2>2
  <2>4. cust[q[1]] # 0
    BY <1>3, <2>2, <2>3 DEF Good
  <2> QED
    BY <2>1, <2>3, <2>4
<1>5. Elems(<<s.w>>) = {s.w}
  BY DEF Elems
<1>6. \A i \in ListIndexes(s) : i # -1 => Elems(List(rts, s, i)) \cap Elems(List(rts, s, -1)) = {}
  BY <1>1 DEF Sound, Apart
<1> QED
  BY <1>2, <1>4, <1>5, <1>6

\* What the steps on the first solution alone have in common.
LEMMA FirstInv ==
  ASSUME ObjectsInv, customers' = customers, failed' = failed,
         Heaped(customers, routes', solutions', Len(solutions)),
         solutions' \in Seq(Solutions), Len(solutions') = Len(solutions),
         Depth # 0 \/ s0.w # NULL
  PROVE  ObjectsInv'
<1>1. ~(Depth = 0 /\ ~failed)
  BY DEF ObjectsInv, Emptied
<1>2. Emptied'
  BY <1>1 DEF Emptied, Depth
<1>3. ObjectsTypes' /\ ObjectsHeld'
  BY DEF ObjectsInv, ObjectsTypes, ObjectsHeld
<1> QED
  BY <1>2, <1>3 DEF ObjectsInv

\* The first solution and the number of them.
LEMMA FirstFacts ==
  ASSUME ObjectsInv
  PROVE  /\ Len(solutions) \in 1 .. 3 /\ Len(solutions) \in Nat \ {0}
         /\ Heaped(customers, routes, solutions, Len(solutions))
         /\ solutions \in Seq(Solutions) /\ s0 \in Solutions
         /\ Sound(customers, routes, s0) /\ HeapTypes(customers, routes)
<1>1. /\ Len(solutions) \in 1 .. 3 /\ solutions \in Seq(Solutions)
      /\ Heaped(customers, routes, solutions, Len(solutions))
  BY DEF ObjectsInv, ObjectsTypes, ObjectsHeld
<1>2. 1 \in 1 .. Len(solutions) /\ Len(solutions) \in Nat \ {0}
  BY <1>1
<1>3. Sound(customers, routes, solutions[1]) /\ HeapTypes(customers, routes)
  BY <1>1, <1>2 DEF Heaped
<1>4. solutions[1] \in Solutions
  BY <1>1, <1>2
<1> QED
  BY <1>1, <1>2, <1>3, <1>4 DEF s0

(***************************************************************************)
(* Each step keeps the invariant.                                          *)
(***************************************************************************)

\* The pooled customer next in line goes into w.
LEMMA PopCustomerInv ==
  ASSUME ObjectsInv, PopCustomer
  PROVE  ObjectsInv'
<1>1. PICK K \in Nat \ {0} : K = Len(solutions)
  BY FirstFacts
<1>2. PICK s : s = s0
  OBVIOUS
<1>3. /\ Heaped(customers, routes, solutions, K) /\ solutions \in Seq(Solutions)
      /\ s \in Solutions /\ s = solutions[1] /\ Sound(customers, routes, s)
      /\ HeapTypes(customers, routes)
  BY <1>1, <1>2, FirstFacts DEF s0
<1>4. s.w = NULL /\ s.pool # <<>> /\ s.pool \in Seq(Addresses)
  BY <1>2, <1>3, SoundTypes DEF PopCustomer
<1>5. PICK N \in Nat : N + 1 = Len(s.pool)
  <2>1. Len(s.pool) \in Nat /\ Len(s.pool) # 0
    BY <1>4
  <2>2. Len(s.pool) - 1 \in Nat /\ (Len(s.pool) - 1) + 1 = Len(s.pool)
    BY <2>1
  <2> QED
    BY <2>2
<1>6. PICK a, p : a = Last(s.pool) /\ p = Front(s.pool)
  OBVIOUS
<1>7. /\ a = s.pool[N + 1] /\ a \in Addresses
      /\ p \in Seq(Addresses) /\ Len(p) = N /\ \A k \in 1 .. N : p[k] = s.pool[k]
  <2>1. PICK q \in Seq(Addresses) : q = s.pool
    BY <1>4
  <2>2. a = q[N + 1] /\ p = SubSeq(q, 1, N) /\ Len(q) = N + 1
    <3>1. Len(q) = N + 1 /\ Len(q) - 1 = N
      BY <1>5, <2>1
    <3> QED
      BY <1>6, <2>1, <3>1 DEF Last, Front
  <2>3. /\ q[N + 1] \in Addresses /\ SubSeq(q, 1, N) \in Seq(Addresses)
        /\ Len(SubSeq(q, 1, N)) = N /\ \A k \in 1 .. N : SubSeq(q, 1, N)[k] = q[k]
    BY <2>2
  <2> QED
    BY <2>1, <2>2, <2>3
<1>8. PICK s2 : s2 = [s EXCEPT !.w = a, !.pool = p]
  OBVIOUS
<1>9. /\ s2 \in Solutions /\ s2.w = a /\ s2.pool = p
      /\ s2.n_routes = s.n_routes /\ s2.meta = s.meta /\ s2.routes = s.routes
  BY <1>3, <1>7, <1>8 DEF Solutions
<1>10. solutions' = [solutions EXCEPT ![1] = s2] /\ UNCHANGED <<customers, routes, failed>>
  <2>1. solutions' = [solutions EXCEPT ![1].w = Last(s0.pool), ![1].pool = Front(s0.pool)]
    BY DEF PopCustomer
  <2> QED
    BY <1>2, <1>3, <1>6, <1>8, <2>1 DEF PopCustomer
<1>11. 1 \in 1 .. Len(solutions)
  BY <1>1
<1>12. /\ solutions' \in Seq(Solutions) /\ Len(solutions') = Len(solutions)
       /\ solutions'[1] = s2 /\ \A k \in 2 .. K : solutions'[k] = solutions[k]
  BY <1>1, <1>3, <1>9, <1>10, <1>11
<1>13. a # NULL
  BY <1>7 DEF NULL, Addresses
<1>14. Exchanges(customers, routes, s, routes, s2, {-1, 0})
  <2>1. PICK M \in Nat : M = s.n_routes
    BY <1>3, SoundTypes
  <2>2. ListIndexes(s) = -1 .. M
    BY <2>1 DEF ListIndexes
  <2>3. {-1, 0} \subseteq ListIndexes(s)
    BY <2>1, <2>2
  <2>4. \A i \in ListIndexes(s) \ {-1, 0} : List(routes, s2, i) = List(routes, s, i)
    BY <1>9 DEF List
  <2>5. /\ List(routes, s, -1) = <<>> /\ List(routes, s, 0) = s.pool
        /\ List(routes, s2, -1) = <<a>> /\ List(routes, s2, 0) = p
    BY <1>4, <1>9, <1>13 DEF List
  <2>6. Good(customers, s.pool, 0)
    BY <1>3, <2>3, <2>5 DEF Sound, GoodLists
  <2>7. Distinct(s.pool) /\ \A x \in 1 .. N + 1 : customers[s.pool[x]] # 0
    BY <1>5, <2>6 DEF Good
  <2>8. Good(customers, p, 0)
    <3>1. Distinct(p)
      BY <1>5, <1>7, <2>7 DEF Distinct
    <3> QED
      BY <1>7, <2>7, <3>1 DEF Good
  <2>9. Good(customers, <<a>>, -1)
    <3>1. PICK q : q = <<a>>
      OBVIOUS
    <3>2. q \in Seq(Addresses) /\ Len(q) = 1 /\ q[1] = a
      BY <1>7, <3>1
    <3>3. customers[a] # 0
      BY <1>7, <2>7
    <3>4. Good(customers, q, -1)
      BY <3>2, <3>3 DEF Good, Distinct
    <3> QED
      BY <3>1, <3>4
  <2>10. Elems(<<a>>) = {a} /\ Elems(<<>>) = {}
    BY DEF Elems
  <2>11. a \notin Elems(p)
    BY <1>5, <1>7, <2>7 DEF Elems, Distinct
  <2>12. Elems(s.pool) = Elems(p) \cup {a}
    <3>1. \A k \in 1 .. N + 1 : k = N + 1 \/ k \in 1 .. N
      OBVIOUS
    <3>2. PICK q : q = s.pool
      OBVIOUS
    <3>3. Elems(q) = {q[k] : k \in 1 .. N + 1} /\ Elems(p) = {p[k] : k \in 1 .. N}
      BY <1>5, <1>7, <3>2 DEF Elems
    <3>4. \A b : b \in Elems(q) <=> b \in Elems(p) \cup {a}
      <4>1. \A k \in 1 .. N : p[k] = q[k] /\ k \in 1 .. N + 1
        BY <1>7, <3>2
      <4>2. a = q[N + 1] /\ N + 1 \in 1 .. N + 1
        BY <1>7, <3>2
      <4> QED
        BY ONLY <3>1, <3>3, <4>1, <4>2
    <3> QED
      BY ONLY <3>2, <3>4
  <2>13. \A i \in {-1, 0} : Good(customers, List(routes, s2, i), i)
    BY <2>5, <2>8, <2>9
  <2>14. \A i, j \in {-1, 0} : i # j => Elems(List(routes, s2, i)) \cap Elems(List(routes, s2, j)) = {}
    BY <2>5, <2>10, <2>11
  <2>15. UNION {Elems(List(routes, s2, i)) : i \in {-1, 0}} = {a} \cup Elems(p)
    BY <2>5, <2>10
  <2>16. UNION {Elems(List(routes, s, i)) : i \in {-1, 0}} = Elems(s.pool)
    BY <2>5, <2>10
  <2>17. UNION {Elems(List(routes, s2, i)) : i \in {-1, 0}} = UNION {Elems(List(routes, s, i)) : i \in {-1, 0}}
    BY <2>12, <2>15, <2>16
  <2> QED
    BY <2>3, <2>4, <2>13, <2>14, <2>17 DEF Exchanges
<1>15. Heaped(customers, routes, solutions', K)
  <2>1. routes \in [RouteAddresses -> Seq(Addresses)]
    BY <1>3 DEF HeapTypes
  <2>2. \A r \in RouteAddresses \ RoutesOf(solutions[1]) : routes[r] = routes[r]
    OBVIOUS
  <2>3. PICK D : D = {-1, 0}
    OBVIOUS
  <2>4. PICK ss2 : ss2 = solutions'
    OBVIOUS
  <2>5. Exchanges(customers, routes, solutions[1], routes, ss2[1], D)
    BY <1>3, <1>12, <1>14, <2>3, <2>4
  <2>6. /\ ss2[1] \in Solutions /\ ss2[1].n_routes = solutions[1].n_routes
        /\ ss2[1].meta = solutions[1].meta /\ ss2[1].routes = solutions[1].routes
        /\ \A k \in 2 .. K : ss2[k] = solutions[k]
    BY <1>3, <1>9, <1>12, <2>4
  <2>7. Heaped(customers, routes, ss2, K)
    BY ONLY <1>3, <2>1, <2>2, <2>5, <2>6, K \in Nat \ {0}, ListsExchanged
  <2> QED
    BY <2>4, <2>7
<1>16. Depth # 0
  BY DEF PopCustomer
<1> QED
  BY <1>1, <1>10, <1>12, <1>15, <1>16, FirstInv

\* A customer is inserted, or relocated, or exchanged, or two tails are.
LEMMA MoveInv ==
  ASSUME ObjectsInv, Move
  PROVE  ObjectsInv'
<1>1. PICK K \in Nat \ {0} : K = Len(solutions)
  BY FirstFacts
<1>2. PICK s : s = s0
  OBVIOUS
<1>3. /\ Heaped(customers, routes, solutions, K) /\ solutions \in Seq(Solutions)
      /\ s \in Solutions /\ s = solutions[1] /\ Sound(customers, routes, s)
      /\ HeapTypes(customers, routes)
  BY <1>1, <1>2, FirstFacts DEF s0
<1>4. PICK r \in RoutesOf(s), q \in RoutesOf(s) :
       \E i \in 1 .. Len(routes[r]) - 1, j \in 1 .. Len(routes[q]) - 1 :
         /\ r # q
         /\ \/ routes' = [routes EXCEPT ![r] = Splice(@, i, routes[q], j),
                                        ![q] = Splice(@, j, routes[r], i)]
            \/ /\ j > 1
               /\ routes' = [routes EXCEPT ![r] = InsertBefore(@, i + 1, routes[q][j]),
                                           ![q] = RemoveIndex(@, j)]
            \/ /\ i > 1 /\ j > 1
               /\ routes' = [routes EXCEPT ![r][i] = routes[q][j], ![q][j] = routes[r][i]]
  BY <1>2 DEF Move
<1>5. PICK i \in 1 .. Len(routes[r]) - 1, j \in 1 .. Len(routes[q]) - 1 :
       /\ r # q
       /\ \/ routes' = [routes EXCEPT ![r] = Splice(@, i, routes[q], j),
                                      ![q] = Splice(@, j, routes[r], i)]
          \/ /\ j > 1
             /\ routes' = [routes EXCEPT ![r] = InsertBefore(@, i + 1, routes[q][j]),
                                         ![q] = RemoveIndex(@, j)]
          \/ /\ i > 1 /\ j > 1
             /\ routes' = [routes EXCEPT ![r][i] = routes[q][j], ![q][j] = routes[r][i]]
  BY <1>4
<1>6. UNCHANGED <<customers, solutions, failed>> /\ Depth # 0
  BY DEF Move
<1>7. PICK f, g : f = routes[r] /\ g = routes[q]
  OBVIOUS
<1>8. routes \in [RouteAddresses -> Seq(Addresses)] /\ r \in RouteAddresses /\ q \in RouteAddresses
  BY <1>3, SoundTypes DEF HeapTypes
<1>9. Good(customers, f, 1) /\ Good(customers, g, 1) /\ Elems(f) \cap Elems(g) = {}
  <2>1. PICK x \in 1 .. s.n_routes, y \in 1 .. s.n_routes : r = s.routes[x] /\ q = s.routes[y]
    BY DEF RoutesOf
  <2>2. x # y
    BY <1>5, <2>1
  <2>3. Written(routes, s, routes, {})
    BY DEF Written
  <2>4. Rewritten(customers, routes, s, routes, s, {})
    BY <1>3, <2>3, RouteLists
  <2>5. /\ List(routes, s, x) = f /\ List(routes, s, y) = g
        /\ x \in ListIndexes(s) /\ y \in ListIndexes(s)
        /\ Good(customers, f, 1) /\ Good(customers, g, 1)
    BY <1>7, <2>1, <2>4 DEF Rewritten
  <2> QED
    BY <1>3, <2>2, <2>5 DEF Sound, Apart
<1>10. /\ f \in Seq(Addresses) /\ g \in Seq(Addresses) /\ Distinct(f) /\ Distinct(g)
      /\ i \in 1 .. Len(f) - 1 /\ j \in 1 .. Len(g) - 1
  BY <1>7, <1>9 DEF Good
<1>11. \E f2, g2 : /\ routes' = [routes EXCEPT ![r] = f2, ![q] = g2]
                   /\ Good(customers, f2, 1) /\ Good(customers, g2, 1)
                   /\ Elems(f2) \cap Elems(g2) = {}
                   /\ Elems(f2) \cup Elems(g2) = Elems(f) \cup Elems(g)
  <2>1. CASE routes' = [routes EXCEPT ![r] = Splice(@, i, routes[q], j),
                                      ![q] = Splice(@, j, routes[r], i)]
    <3>1. PICK f2, g2 : f2 = Splice(f, i, g, j) /\ g2 = Splice(g, j, f, i)
      OBVIOUS
    <3>2. routes' = [routes EXCEPT ![r] = f2, ![q] = g2]
      BY <1>5, <1>7, <1>8, <2>1, <3>1
    <3>3. Good(customers, f2, 1) /\ Elems(f2) = Upto(f, i) \cup Behind(g, j)
      BY <1>9, <1>10, <3>1, SpliceGood
    <3>4. Elems(g) \cap Elems(f) = {}
      BY <1>9
    <3>5. Good(customers, g2, 1) /\ Elems(g2) = Upto(g, j) \cup Behind(f, i)
      BY <1>9, <1>10, <3>1, <3>4, SpliceGood
    <3>6. i \in 0 .. Len(f) /\ j \in 0 .. Len(g)
      BY <1>10
    <3>7. Upto(f, i) \cup Behind(f, i) = Elems(f) /\ Upto(f, i) \cap Behind(f, i) = {}
      BY <1>10, <3>6, SplitElems
    <3>8. Upto(g, j) \cup Behind(g, j) = Elems(g) /\ Upto(g, j) \cap Behind(g, j) = {}
      BY <1>10, <3>6, SplitElems
    <3>9. Elems(f2) \cap Elems(g2) = {} /\ Elems(f2) \cup Elems(g2) = Elems(f) \cup Elems(g)
      BY <1>9, <3>3, <3>5, <3>7, <3>8
    <3> QED
      BY <3>2, <3>3, <3>5, <3>9
  <2>2. CASE /\ j > 1
             /\ routes' = [routes EXCEPT ![r] = InsertBefore(@, i + 1, routes[q][j]),
                                         ![q] = RemoveIndex(@, j)]
    <3>1. PICK f2, g2 : f2 = InsertBefore(f, i + 1, g[j]) /\ g2 = RemoveIndex(g, j)
      OBVIOUS
    <3>2. routes' = [routes EXCEPT ![r] = f2, ![q] = g2]
      BY <1>5, <1>7, <1>8, <2>2, <3>1
    <3>3. j \in 2 .. Len(g) - 1
      BY <1>10, <2>2
    <3>4. /\ Good(customers, g2, 1) /\ Elems(g2) = Elems(g) \ {g[j]}
          /\ g[j] \in Elems(g) /\ g[j] \in Addresses /\ customers[g[j]] # 0
      BY <1>9, <3>1, <3>3, RemoveGood
    <3>5. PICK c : c = g[j]
      OBVIOUS
    <3>6. c \notin Elems(f) /\ c \in Addresses /\ customers[c] # 0
      BY <1>9, <3>4, <3>5
    <3>7. Good(customers, f2, 1) /\ Elems(f2) = Elems(f) \cup {c}
      BY <1>9, <1>10, <3>1, <3>5, <3>6, InsertGood
    <3>8. Elems(f2) \cap Elems(g2) = {} /\ Elems(f2) \cup Elems(g2) = Elems(f) \cup Elems(g)
      BY <1>9, <3>4, <3>5, <3>7
    <3> QED
      BY <3>2, <3>4, <3>7, <3>8
  <2>3. CASE /\ i > 1 /\ j > 1
             /\ routes' = [routes EXCEPT ![r][i] = routes[q][j], ![q][j] = routes[r][i]]
    <3>1. PICK f2, g2 : f2 = Replace(f, i, g[j]) /\ g2 = Replace(g, j, f[i])
      OBVIOUS
    <3>2. routes' = [routes EXCEPT ![r] = f2, ![q] = g2]
      BY <1>5, <1>7, <1>8, <2>3, <3>1 DEF Replace
    <3>3. i \in 2 .. Len(f) - 1 /\ j \in 2 .. Len(g) - 1
      BY <1>10, <2>3
    <3>4. f[i] \in Elems(f) /\ f[i] \in Addresses /\ customers[f[i]] # 0
      BY <1>9, <3>3, RemoveGood
    <3>5. g[j] \in Elems(g) /\ g[j] \in Addresses /\ customers[g[j]] # 0
      BY <1>9, <3>3, RemoveGood
    <3>6. PICK c, d : c = g[j] /\ d = f[i]
      OBVIOUS
    <3>7. c \notin Elems(f) /\ d \notin Elems(g)
      BY <1>9, <3>4, <3>5, <3>6
    <3>8. Good(customers, f2, 1) /\ Elems(f2) = (Elems(f) \ {d}) \cup {c}
      BY <1>9, <3>1, <3>3, <3>5, <3>6, <3>7, ReplaceGood
    <3>9. Good(customers, g2, 1) /\ Elems(g2) = (Elems(g) \ {c}) \cup {d}
      BY <1>9, <3>1, <3>3, <3>4, <3>6, <3>7, ReplaceGood
    <3>10. Elems(f2) \cap Elems(g2) = {} /\ Elems(f2) \cup Elems(g2) = Elems(f) \cup Elems(g)
      BY <1>9, <3>4, <3>5, <3>6, <3>8, <3>9
    <3> QED
      BY <3>2, <3>8, <3>9, <3>10
  <2> QED
    BY <1>5, <2>1, <2>2, <2>3
<1>12. PICK f2, g2 : /\ routes' = [routes EXCEPT ![r] = f2, ![q] = g2]
                     /\ Good(customers, f2, 1) /\ Good(customers, g2, 1)
                     /\ Elems(f2) \cap Elems(g2) = {}
                     /\ Elems(f2) \cup Elems(g2) = Elems(f) \cup Elems(g)
  BY <1>11
<1>13. Heaped(customers, [routes EXCEPT ![r] = f2, ![q] = g2], solutions, K)
  BY <1>3, <1>5, <1>7, <1>12, RoutesExchanged
<1>14. Heaped(customers, routes', solutions', Len(solutions))
  BY <1>1, <1>6, <1>12, <1>13
<1>15. solutions' \in Seq(Solutions) /\ Len(solutions') = Len(solutions)
  BY <1>3, <1>6
<1> QED
  BY <1>6, <1>14, <1>15, FirstInv

\* w goes into a route.
LEMMA InsertWInv ==
  ASSUME ObjectsInv, InsertW
  PROVE  ObjectsInv'
<1>1. PICK K \in Nat \ {0} : K = Len(solutions)
  BY FirstFacts
<1>2. PICK s : s = s0
  OBVIOUS
<1>3. /\ Heaped(customers, routes, solutions, K) /\ solutions \in Seq(Solutions)
      /\ s \in Solutions /\ s = solutions[1] /\ Sound(customers, routes, s)
      /\ HeapTypes(customers, routes)
  BY <1>1, <1>2, FirstFacts DEF s0
<1>4. PICK r \in RoutesOf(s) : \E i \in 1 .. Len(routes[r]) - 1 :
        routes' = [routes EXCEPT ![r] = InsertBefore(@, i + 1, s.w)]
  BY <1>2 DEF InsertW
<1>5. PICK i \in 1 .. Len(routes[r]) - 1 :
        routes' = [routes EXCEPT ![r] = InsertBefore(@, i + 1, s.w)]
  BY <1>4
<1>6. PICK q, f, c : q = routes[r] /\ c = s.w /\ f = InsertBefore(q, i + 1, c)
  OBVIOUS
<1>7. c # NULL
  BY <1>2, <1>6 DEF InsertW
<1>8. PICK x \in 1 .. s.n_routes : r = s.routes[x]
  BY DEF RoutesOf
<1>9. PICK s2 : s2 = [s EXCEPT !.w = NULL]
  OBVIOUS
<1>10. /\ s2 \in Solutions /\ s2.w = NULL /\ s2.pool = s.pool
       /\ s2.n_routes = s.n_routes /\ s2.meta = s.meta /\ s2.routes = s.routes
  BY <1>3, <1>9 DEF Solutions
<1>11. PICK rts2 : rts2 = routes'
  OBVIOUS
<1>12. routes \in [RouteAddresses -> Seq(Addresses)] /\ r \in RouteAddresses
  BY <1>3, SoundTypes DEF HeapTypes
<1>13. rts2 = [routes EXCEPT ![r] = f]
  BY <1>5, <1>6, <1>11, <1>12
<1>14. Written(routes, s, rts2, {x})
  BY <1>8, <1>12, <1>13 DEF Written
<1>15. Rewritten(customers, routes, s, rts2, s2, {x})
  BY <1>3, <1>10, <1>14, RouteLists
<1>16. /\ List(routes, s, x) = q /\ List(rts2, s2, x) = f /\ Good(customers, q, 1)
       /\ ListIndexes(s) = {-1, 0} \cup 1 .. s.n_routes
       /\ \A j \in 1 .. s.n_routes : j # x => List(rts2, s2, j) = List(routes, s, j)
       /\ \A p \in RouteAddresses \ RoutesOf(s) : rts2[p] = routes[p]
  BY <1>6, <1>8, <1>12, <1>13, <1>15 DEF Rewritten
<1>17. x \in ListIndexes(s) /\ x \in Int /\ x > 0
  BY <1>16
<1>18. /\ c \in Addresses /\ customers[c] # 0 /\ List(routes, s, -1) = <<c>>
       /\ Elems(List(routes, s, -1)) = {c} /\ c \notin Elems(q)
  BY <1>3, <1>6, <1>7, <1>16, <1>17, InHand
<1>19. Good(customers, f, 1) /\ Elems(f) = Elems(q) \cup {c}
  BY <1>6, <1>16, <1>18, InsertGood
<1>20. Exchanges(customers, routes, s, rts2, s2, {-1, x})
  <2>1. {-1, x} \subseteq ListIndexes(s)
    BY <1>16, <1>17
  <2>2. List(rts2, s2, -1) = <<>> /\ List(rts2, s2, 0) = List(routes, s, 0)
    BY <1>10 DEF List
  <2>3. \A j \in ListIndexes(s) \ {-1, x} : List(rts2, s2, j) = List(routes, s, j)
    BY <1>16, <2>2
  <2>4. Good(customers, <<>>, -1) /\ Elems(<<>>) = {}
    BY DEF Good, Elems, Distinct
  <2>5. Good(customers, f, x)
    BY <1>17, <1>19, GoodAs
  <2>6. \A j \in {-1, x} : Good(customers, List(rts2, s2, j), j)
    BY <1>16, <2>2, <2>4, <2>5
  <2>7. \A j, k \in {-1, x} : j # k => Elems(List(rts2, s2, j)) \cap Elems(List(rts2, s2, k)) = {}
    BY <2>2, <2>4
  <2>8. UNION {Elems(List(rts2, s2, j)) : j \in {-1, x}} = Elems(f)
    BY <1>16, <2>2, <2>4
  <2>9. UNION {Elems(List(routes, s, j)) : j \in {-1, x}} = {c} \cup Elems(q)
    BY <1>16, <1>18
  <2>10. UNION {Elems(List(rts2, s2, j)) : j \in {-1, x}} = UNION {Elems(List(routes, s, j)) : j \in {-1, x}}
    BY <1>19, <2>8, <2>9
  <2> QED
    BY <2>1, <2>3, <2>6, <2>7, <2>10 DEF Exchanges
<1>21. rts2 \in [RouteAddresses -> Seq(Addresses)]
  <2>1. f \in Seq(Addresses)
    BY <1>19 DEF Good
  <2> QED
    BY <1>12, <1>13, <2>1
<1>22. solutions' = [solutions EXCEPT ![1] = s2] /\ UNCHANGED <<customers, failed>>
  <2>1. solutions' = [solutions EXCEPT ![1].w = NULL]
    BY DEF InsertW
  <2> QED
    BY <1>3, <1>9, <2>1 DEF InsertW
<1>23. 1 \in 1 .. Len(solutions)
  BY <1>1
<1>24. PICK ss2 : ss2 = solutions'
  OBVIOUS
<1>25. /\ ss2 \in Seq(Solutions) /\ Len(ss2) = Len(solutions)
       /\ ss2[1] = s2 /\ \A k \in 2 .. K : ss2[k] = solutions[k]
  BY <1>1, <1>3, <1>10, <1>22, <1>23, <1>24
<1>26. Heaped(customers, rts2, ss2, K)
  <2>1. PICK D : D = {-1, x}
    OBVIOUS
  <2>2. Exchanges(customers, routes, solutions[1], rts2, ss2[1], D)
    BY <1>3, <1>20, <1>25, <2>1
  <2>3. /\ ss2[1] \in Solutions /\ ss2[1].n_routes = solutions[1].n_routes
        /\ ss2[1].meta = solutions[1].meta /\ ss2[1].routes = solutions[1].routes
        /\ \A p \in RouteAddresses \ RoutesOf(solutions[1]) : rts2[p] = routes[p]
    BY <1>3, <1>10, <1>16, <1>25
  <2> QED
    BY ONLY <1>3, <1>21, <1>25, <2>2, <2>3, K \in Nat \ {0}, ListsExchanged
<1>27. Heaped(customers, routes', solutions', Len(solutions))
  BY <1>1, <1>11, <1>24, <1>26
<1>28. s0.w # NULL
  BY DEF InsertW
<1> QED
  BY <1>22, <1>24, <1>25, <1>27, <1>28, FirstInv

\* w goes into a route that others leave for the pool.
LEMMA InsertAndEjectInv ==
  ASSUME ObjectsInv, InsertAndEject
  PROVE  ObjectsInv'
<1>1. PICK K \in Nat \ {0} : K = Len(solutions)
  BY FirstFacts
<1>2. PICK s : s = s0
  OBVIOUS
<1>3. /\ Heaped(customers, routes, solutions, K) /\ solutions \in Seq(Solutions)
      /\ s \in Solutions /\ s = solutions[1] /\ Sound(customers, routes, s)
      /\ HeapTypes(customers, routes)
  BY <1>1, <1>2, FirstFacts DEF s0
<1>4. PICK r \in RoutesOf(s0) : \E i \in 1 .. Len(routes[r]) - 1 :
        \E out \in SUBSET (2 .. Len(InsertBefore(routes[r], i + 1, s0.w)) - 1) \ {{}} :
          /\ routes' = [routes EXCEPT ![r] =
                          Chosen(InsertBefore(routes[r], i + 1, s0.w),
                                 DOMAIN InsertBefore(routes[r], i + 1, s0.w) \ out)]
          /\ solutions' = [solutions EXCEPT ![1].w = NULL,
                             ![1].pool = @ \o Chosen(InsertBefore(routes[r], i + 1, s0.w), out)]
  BY Zenon DEF InsertAndEject
<1>5. r \in RoutesOf(s)
  BY <1>2
<1>6. PICK i \in 1 .. Len(routes[r]) - 1 :
        \E out \in SUBSET (2 .. Len(InsertBefore(routes[r], i + 1, s0.w)) - 1) \ {{}} :
          /\ routes' = [routes EXCEPT ![r] =
                          Chosen(InsertBefore(routes[r], i + 1, s0.w),
                                 DOMAIN InsertBefore(routes[r], i + 1, s0.w) \ out)]
          /\ solutions' = [solutions EXCEPT ![1].w = NULL,
                             ![1].pool = @ \o Chosen(InsertBefore(routes[r], i + 1, s0.w), out)]
  BY <1>4
<1>7. PICK q, f, c : q = routes[r] /\ c = s0.w /\ f = InsertBefore(q, i + 1, c)
  OBVIOUS
<1>8. PICK out \in SUBSET (2 .. Len(f) - 1) :
        /\ routes' = [routes EXCEPT ![r] = Chosen(f, DOMAIN f \ out)]
        /\ solutions' = [solutions EXCEPT ![1].w = NULL, ![1].pool = @ \o Chosen(f, out)]
  BY <1>6, <1>7
<1>9. PICK g, e, p : g = Chosen(f, DOMAIN f \ out) /\ e = Chosen(f, out) /\ p = s.pool \o e
  OBVIOUS
<1>10. c # NULL
  BY <1>2, <1>7 DEF InsertAndEject
<1>11. PICK x \in 1 .. s.n_routes : r = s.routes[x]
  BY <1>5 DEF RoutesOf
<1>12. PICK rts2 : rts2 = routes'
  OBVIOUS
<1>13. routes \in [RouteAddresses -> Seq(Addresses)] /\ r \in RouteAddresses
  BY <1>3, <1>5, SoundTypes DEF HeapTypes
<1>14. rts2 = [routes EXCEPT ![r] = g]
  BY <1>8, <1>9, <1>12
<1>15. Written(routes, s, rts2, {x})
  BY <1>11, <1>13, <1>14 DEF Written
<1>16. PICK s2 : s2 = [s EXCEPT !.w = NULL, !.pool = p]
  OBVIOUS
<1>17. s2.routes = s.routes
  BY <1>3, <1>16 DEF Solutions
<1>18. Rewritten(customers, routes, s, rts2, s2, {x})
  BY <1>3, <1>15, <1>17, RouteLists
<1>19. /\ List(routes, s, x) = q /\ List(rts2, s2, x) = g /\ Good(customers, q, 1)
       /\ ListIndexes(s) = {-1, 0} \cup 1 .. s.n_routes
       /\ \A j \in 1 .. s.n_routes : j # x => List(rts2, s2, j) = List(routes, s, j)
       /\ \A t \in RouteAddresses \ RoutesOf(s) : rts2[t] = routes[t]
  BY <1>7, <1>11, <1>13, <1>14, <1>18 DEF Rewritten
<1>20. x \in ListIndexes(s) /\ x \in Int /\ x > 0 /\ 0 \in ListIndexes(s)
  BY <1>19
<1>21. /\ c \in Addresses /\ customers[c] # 0 /\ List(routes, s, -1) = <<c>>
       /\ Elems(List(routes, s, -1)) = {c}
       /\ \A j \in ListIndexes(s) : j # -1 => c \notin Elems(List(routes, s, j))
  BY <1>2, <1>3, <1>7, <1>10, InHand
<1>22. Good(customers, f, 1) /\ Elems(f) = Elems(q) \cup {c}
  <2>1. c \notin Elems(q) /\ i \in 1 .. Len(q) - 1
    BY <1>7, <1>19, <1>20, <1>21
  <2> QED
    BY <1>7, <1>19, <1>21, <2>1, InsertGood
<1>23. /\ Good(customers, g, 1)
       /\ e \in Seq(Addresses) /\ Distinct(e) /\ \A a \in Elems(e) : customers[a] # 0
       /\ Elems(g) \cap Elems(e) = {} /\ Elems(g) \cup Elems(e) = Elems(f)
  BY <1>9, <1>22, ChosenGood
<1>24. List(routes, s, 0) = s.pool /\ s.pool \in Seq(Addresses)
  <2>1. List(routes, s, 0) = s.pool
    BY DEF List
  <2>2. s.pool \in Seq(Addresses)
    BY <1>3, SoundTypes
  <2> QED
    BY <2>1, <2>2
<1>25. /\ Distinct(s.pool) /\ \A y \in 1 .. Len(s.pool) : customers[s.pool[y]] # 0
       /\ Elems(s.pool) \cap Elems(f) = {}
  <2>1. Good(customers, s.pool, 0)
    BY <1>3, <1>20, <1>24 DEF Sound, GoodLists
  <2>2. Elems(s.pool) \cap Elems(q) = {}
    BY <1>3, <1>19, <1>20, <1>24 DEF Sound, Apart
  <2>3. c \notin Elems(s.pool)
    BY <1>20, <1>21, <1>24
  <2>4. Distinct(s.pool) /\ \A y \in 1 .. Len(s.pool) : customers[s.pool[y]] # 0
    BY <2>1 DEF Good
  <2> QED
    BY <1>22, <2>2, <2>3, <2>4
<1>26. /\ p \in Seq(Addresses) /\ Distinct(p) /\ Elems(p) = Elems(s.pool) \cup Elems(e)
       /\ Good(customers, p, 0)
  <2>1. PICK t \in Seq(Addresses) : t = s.pool
    BY <1>24
  <2>2. PICK M \in Nat, N \in Nat : M = Len(t) /\ N = Len(e)
    BY <1>23
  <2>3. /\ p \in Seq(Addresses) /\ Len(p) = M + N
        /\ \A k \in 1 .. M + N : p[k] = IF k <= M THEN t[k] ELSE e[k - M]
    BY <1>9, <1>23, <2>1, <2>2
  <2>4. \A k \in 1 .. M + N : k \in 1 .. M \/ (k > M /\ k - M \in 1 .. N)
    BY <2>2
  <2>5. Elems(t) \cap Elems(e) = {} /\ Distinct(t) /\ Distinct(e)
    BY <1>23, <1>25, <2>1
  <2>6. /\ \A k \in 1 .. M : p[k] = t[k] /\ k \in 1 .. M + N
        /\ \A k \in 1 .. N : p[M + k] = e[k] /\ M + k \in 1 .. M + N
    <3>1. \A k \in 1 .. M : k \in 1 .. M + N /\ k <= M
      BY <2>2
    <3>2. \A k \in 1 .. N : M + k \in 1 .. M + N /\ ~(M + k <= M) /\ (M + k) - M = k
      BY <2>2
    <3> QED
      BY <2>3, <3>1, <3>2
  <2>7. Elems(t) = {t[k] : k \in 1 .. M} /\ Elems(e) = {e[k] : k \in 1 .. N} /\ Elems(p) = {p[k] : k \in 1 .. M + N}
    BY <2>2, <2>3 DEF Elems
  <2>8. \A k \in 1 .. M + N : \/ k \in 1 .. M /\ p[k] = t[k] /\ p[k] \in Elems(t)
                              \/ k - M \in 1 .. N /\ p[k] = e[k - M] /\ p[k] \in Elems(e)
    BY <2>2, <2>3, <2>4, <2>7
  <2>9. Elems(p) = Elems(t) \cup Elems(e)
    BY <2>6, <2>7, <2>8
  <2>10. Distinct(p)
    <3> SUFFICES ASSUME NEW k \in 1 .. M + N, NEW l \in 1 .. M + N, p[k] = p[l] PROVE k = l
      BY <2>3 DEF Distinct
    <3>1. CASE k \in 1 .. M /\ l \in 1 .. M
      BY <2>2, <2>5, <2>6, <3>1 DEF Distinct
    <3>2. CASE k \notin 1 .. M /\ l \notin 1 .. M
      <4>1. k - M \in 1 .. N /\ l - M \in 1 .. N /\ e[k - M] = e[l - M]
        BY <2>8, <3>2
      <4>2. k - M = l - M
        BY <2>2, <2>5, <4>1 DEF Distinct
      <4> QED
        BY <2>2, <4>2
    <3>3. CASE k \in 1 .. M /\ l \notin 1 .. M
      BY <2>5, <2>6, <2>7, <2>8, <3>3
    <3>4. CASE k \notin 1 .. M /\ l \in 1 .. M
      BY <2>5, <2>6, <2>7, <2>8, <3>4
    <3> QED
      BY <3>1, <3>2, <3>3, <3>4
  <2>11. \A k \in 1 .. M + N : customers[p[k]] # 0
    BY <1>23, <1>25, <2>1, <2>2, <2>8
  <2>12. Good(customers, p, 0)
    BY <2>3, <2>10, <2>11 DEF Good
  <2> QED
    BY <2>1, <2>3, <2>9, <2>10, <2>12
<1>27. /\ s2 \in Solutions /\ s2.w = NULL /\ s2.pool = p
       /\ s2.n_routes = s.n_routes /\ s2.meta = s.meta
  BY <1>3, <1>16, <1>26 DEF Solutions
<1>28. Exchanges(customers, routes, s, rts2, s2, {-1, 0, x})
  <2> DEFINE D == {-1, 0, x}
  <2>1. D \subseteq ListIndexes(s)
    BY <1>19, <1>20
  <2>2. List(rts2, s2, -1) = <<>> /\ List(rts2, s2, 0) = p
    BY <1>27 DEF List
  <2>3. \A j \in ListIndexes(s) \ D : List(rts2, s2, j) = List(routes, s, j)
    BY <1>19
  <2>4. Good(customers, <<>>, -1) /\ Elems(<<>>) = {}
    BY DEF Good, Elems, Distinct
  <2>5. Good(customers, g, x)
    BY <1>20, <1>23, GoodAs
  <2>6. \A j \in D : Good(customers, List(rts2, s2, j), j)
    BY <1>19, <1>26, <2>2, <2>4, <2>5
  <2>7. Elems(p) \cap Elems(g) = {}
    BY <1>23, <1>25, <1>26
  <2>8. \A j, k \in D : j # k => Elems(List(rts2, s2, j)) \cap Elems(List(rts2, s2, k)) = {}
    BY <1>19, <2>2, <2>4, <2>7
  <2>9. UNION {Elems(List(rts2, s2, j)) : j \in D} = Elems(p) \cup Elems(g)
    BY <1>19, <2>2, <2>4
  <2>10. UNION {Elems(List(routes, s, j)) : j \in D} = {c} \cup Elems(s.pool) \cup Elems(q)
    BY <1>19, <1>21, <1>24
  <2>11. UNION {Elems(List(rts2, s2, j)) : j \in D} = UNION {Elems(List(routes, s, j)) : j \in D}
    BY <1>22, <1>23, <1>26, <2>9, <2>10
  <2> HIDE DEF D
  <2>12. Exchanges(customers, routes, s, rts2, s2, D)
    BY <2>1, <2>3, <2>6, <2>8, <2>11 DEF Exchanges
  <2> QED
    BY <2>12 DEF D
<1>29. rts2 \in [RouteAddresses -> Seq(Addresses)]
  <2>1. g \in Seq(Addresses)
    BY <1>23 DEF Good
  <2> QED
    BY <1>13, <1>14, <2>1
<1>30. solutions' = [solutions EXCEPT ![1] = s2] /\ UNCHANGED <<customers, failed>>
  BY <1>3, <1>8, <1>9, <1>16 DEF InsertAndEject
<1>31. 1 \in 1 .. Len(solutions)
  BY <1>1
<1>32. PICK ss2 : ss2 = solutions'
  OBVIOUS
<1>33. /\ ss2 \in Seq(Solutions) /\ Len(ss2) = Len(solutions)
       /\ ss2[1] = s2 /\ \A k \in 2 .. K : ss2[k] = solutions[k]
  BY <1>1, <1>3, <1>27, <1>30, <1>31, <1>32
<1>34. Heaped(customers, rts2, ss2, K)
  <2>1. PICK D : D = {-1, 0, x}
    OBVIOUS
  <2>2. Exchanges(customers, routes, solutions[1], rts2, ss2[1], D)
    BY <1>3, <1>28, <1>33, <2>1
  <2>3. /\ ss2[1] \in Solutions /\ ss2[1].n_routes = solutions[1].n_routes
        /\ ss2[1].meta = solutions[1].meta /\ ss2[1].routes = solutions[1].routes
        /\ \A t \in RouteAddresses \ RoutesOf(solutions[1]) : rts2[t] = routes[t]
    BY <1>3, <1>17, <1>19, <1>27, <1>33
  <2> QED
    BY ONLY <1>3, <1>29, <1>33, <2>2, <2>3, K \in Nat \ {0}, ListsExchanged
<1>35. Heaped(customers, routes', solutions', Len(solutions))
  BY <1>1, <1>12, <1>32, <1>34
<1>36. s0.w # NULL
  BY DEF InsertAndEject
<1> QED
  BY <1>30, <1>32, <1>33, <1>35, <1>36, FirstInv

\* What solution_delete frees is what the solution holds.
LEMMA DeleteFrees ==
  ASSUME NEW cust, NEW rts, HeapTypes(cust, rts), NEW s, Sound(cust, rts, s),
         NEW mem, mem = [customers |-> cust, routes |-> rts],
         NEW d, d = solution_delete(mem, s)
  PROVE  /\ d.customers = [a \in Addresses |-> IF a \in Held(rts, s) THEN Free ELSE cust[a]]
         /\ d.routes = [r \in RouteAddresses |-> IF r \in RoutesOf(s) THEN <<>> ELSE rts[r]]
<1>1. PICK M \in Nat : M = s.n_routes
  BY SoundTypes
<1> DEFINE A == ({s.w} \ {NULL}) \cup ToSet(s.pool)
           B == UNION {ToSet(rts[r]) : r \in RoutesOf(s)}
<1>2. \A q \in Seq(Addresses) : ToSet(q) = Elems(q)
  BY DEF ToSet, Elems
<1>3. /\ \A i \in ListIndexes(s) : List(rts, s, i) \in Seq(Addresses)
      /\ ListIndexes(s) = {-1, 0} \cup 1 .. M
  BY <1>1, SoundTypes DEF ListIndexes
<1>4. Elems(List(rts, s, -1)) = {s.w} \ {NULL}
  <2>1. List(rts, s, -1) = IF s.w = NULL THEN <<>> ELSE <<s.w>>
    BY DEF List
  <2>2. Elems(<<>>) = {} /\ Elems(<<s.w>>) = {s.w}
    BY DEF Elems
  <2> QED
    BY <2>1, <2>2
<1>5. Elems(List(rts, s, 0)) = ToSet(s.pool)
  <2>1. List(rts, s, 0) = s.pool
    BY DEF List
  <2> QED
    BY <1>2, <1>3, <2>1
<1>6. \A i \in 1 .. M : List(rts, s, i) = rts[s.routes[i]] /\ Elems(List(rts, s, i)) = ToSet(rts[s.routes[i]])
  <2>1. \A i \in 1 .. M : List(rts, s, i) = rts[s.routes[i]]
    BY DEF List
  <2> QED
    BY <1>2, <1>3, <2>1
<1>7. B = UNION {Elems(List(rts, s, i)) : i \in 1 .. M}
  <2>1. \A a : a \in B <=> \E i \in 1 .. M : a \in ToSet(rts[s.routes[i]])
    BY <1>1 DEF RoutesOf
  <2>2. \A a : a \in UNION {Elems(List(rts, s, i)) : i \in 1 .. M} <=> \E i \in 1 .. M : a \in Elems(List(rts, s, i))
    OBVIOUS
  <2> HIDE DEF B
  <2> QED
    BY <1>6, <2>1, <2>2
<1>8. Held(rts, s) = A \cup B
  <2>1. \A a : a \in Held(rts, s) <=> \E i \in ListIndexes(s) : a \in Elems(List(rts, s, i))
    BY DEF Held
  <2>2. \A a : a \in B <=> \E i \in 1 .. M : a \in Elems(List(rts, s, i))
    BY <1>7
  <2>3. A = Elems(List(rts, s, -1)) \cup Elems(List(rts, s, 0))
    BY <1>4, <1>5
  <2> HIDE DEF A, B
  <2> QED
    BY <1>3, <2>1, <2>2, <2>3
<1>9. PICK m : m = freed(mem, A)
  OBVIOUS
<1>10. m = [customers |-> [a \in Addresses |-> IF a \in A THEN Free ELSE cust[a]], routes |-> rts]
  <2> HIDE DEF A
  <2> QED
    BY <1>9 DEF freed
<1>11. PICK n : n = freed(m, B)
  OBVIOUS
<1>12. n = [customers |-> [a \in Addresses |-> IF a \in B THEN Free ELSE m.customers[a]], routes |-> rts]
  <2> HIDE DEF A, B
  <2> QED
    BY <1>10, <1>11 DEF freed
<1>13. d = route_delete(m, RoutesOf(s))
  BY <1>9 DEF solution_delete
<1>14. d = [freed(m, UNION {ToSet(m.routes[r]) : r \in RoutesOf(s)}) EXCEPT
              !.routes = [r \in RouteAddresses |-> IF r \in RoutesOf(s) THEN <<>> ELSE @[r]]]
  BY <1>13 DEF route_delete
<1>15. UNION {ToSet(m.routes[r]) : r \in RoutesOf(s)} = B
  <2>1. m.routes = rts
    BY ONLY <1>10
  <2> QED
    BY <2>1
<1>16. d = [n EXCEPT !.routes = [r \in RouteAddresses |-> IF r \in RoutesOf(s) THEN <<>> ELSE @[r]]]
  BY ONLY <1>11, <1>14, <1>15
<1>17. d = [customers |-> n.customers, routes |-> [r \in RouteAddresses |-> IF r \in RoutesOf(s) THEN <<>> ELSE rts[r]]]
  BY ONLY <1>12, <1>16
<1>18. n.customers = [a \in Addresses |-> IF a \in Held(rts, s) THEN Free ELSE cust[a]]
  <2> HIDE DEF A, B
  <2>1. m.customers = [a \in Addresses |-> IF a \in A THEN Free ELSE cust[a]]
    BY ONLY <1>10
  <2>2. n.customers = [a \in Addresses |-> IF a \in B THEN Free ELSE m.customers[a]]
    BY ONLY <1>12
  <2> QED
    BY ONLY <1>8, <2>1, <2>2
<1> QED
  BY ONLY <1>17, <1>18

\* A phase succeeds, and its copy is deleted.
LEMMA PhaseDoneInv ==
  ASSUME ObjectsInv, PhaseDone
  PROVE  ObjectsInv'
<1>1. PICK N \in 1 .. 2 : Len(solutions) = N + 1
  <2>1. Len(solutions) \in 1 .. 3 /\ Len(solutions) # 1
    BY FirstFacts DEF PhaseDone, Depth
  <2>2. Len(solutions) - 1 \in 1 .. 2 /\ Len(solutions) = (Len(solutions) - 1) + 1
    BY <2>1
  <2> QED
    BY <2>2
<1>2. /\ Heaped(customers, routes, solutions, N + 1) /\ solutions \in Seq(Solutions)
      /\ HeapTypes(customers, routes)
  BY <1>1, FirstFacts
<1>3. PICK last, front : last = Last(solutions) /\ front = Front(solutions)
  OBVIOUS
<1>4. /\ last = solutions[N + 1]
      /\ front \in Seq(Solutions) /\ Len(front) = N /\ \A k \in 1 .. N : front[k] = solutions[k]
  <2>1. last = solutions[N + 1] /\ front = SubSeq(solutions, 1, N)
    <3>1. (N + 1) - 1 = N
      OBVIOUS
    <3> QED
      BY <1>1, <1>3, <3>1 DEF Last, Front
  <2>2. /\ SubSeq(solutions, 1, N) \in Seq(Solutions) /\ Len(SubSeq(solutions, 1, N)) = N
        /\ \A k \in 1 .. N : SubSeq(solutions, 1, N)[k] = solutions[k]
    BY <1>1, <1>2
  <2> QED
    BY <2>1, <2>2
<1>5. Sound(customers, routes, last)
  BY <1>2, <1>4 DEF Heaped
<1>6. PICK d : d = solution_delete(Heap, last)
  OBVIOUS
<1>7. /\ customers' = d.customers /\ routes' = d.routes
      /\ solutions' = front /\ failed' = failed
  <2>1. failed' = (failed \/ FALSE) /\ failed \in BOOLEAN
    BY DEF PhaseDone, Become, ObjectsInv, ObjectsTypes
  <2>2. failed' = failed
    BY ONLY <2>1
  <2> QED
    BY <1>3, <1>6, <2>2 DEF PhaseDone, Become
<1>8. /\ d.customers = [a \in Addresses |-> IF a \in Held(routes, last) THEN Free ELSE customers[a]]
      /\ d.routes = [r \in RouteAddresses |-> IF r \in RoutesOf(last) THEN <<>> ELSE routes[r]]
  <2>1. Heap = [customers |-> customers, routes |-> routes]
    BY DEF Heap
  <2> QED
    BY ONLY <1>2, <1>5, <1>6, <2>1, DeleteFrees
<1>9. Heaped(d.customers, d.routes, front, N)
  <2>1. N \in Nat
    OBVIOUS
  <2>2. PICK c, r : c = d.customers /\ r = d.routes
    OBVIOUS
  <2>3. /\ c = [a \in Addresses |-> IF a \in Held(routes, solutions[N + 1]) THEN Free ELSE customers[a]]
        /\ r = [p \in RouteAddresses |-> IF p \in RoutesOf(solutions[N + 1]) THEN <<>> ELSE routes[p]]
        /\ \A k \in 1 .. N : front[k] = solutions[k]
    BY <1>4, <1>8, <2>2
  <2>4. Heaped(c, r, front, N)
    BY ONLY <1>2, <2>1, <2>3, HeapShrinks
  <2> QED
    BY <2>2, <2>4
<1>10. ObjectsTypes'
  BY <1>4, <1>7 DEF ObjectsInv, ObjectsTypes
<1>11. ObjectsHeld'
  BY <1>4, <1>7, <1>9 DEF ObjectsHeld
<1>12. Emptied'
  <2>1. Depth = N
    BY <1>1 DEF Depth
  <2>2. s0.w = NULL /\ (N = 1 => s0.pool = <<>>)
    BY <2>1 DEF PhaseDone
  <2>3. front[1] = solutions[1]
    BY <1>4
  <2>4. Depth' = N - 1
    BY <1>4, <1>7 DEF Depth
  <2>5. s0' = s0
    BY <1>7, <2>3 DEF s0
  <2> QED
    BY <2>2, <2>4, <2>5 DEF Emptied
<1> QED
  BY <1>10, <1>11, <1>12 DEF ObjectsInv

\* solution_move leaves each of the two what the other was.
LEMMA ExchangedAlike ==
  ASSUME NEW dst \in Solutions, NEW src \in Solutions, NEW swap, swap = Exchanged(dst, src)
  PROVE  Alike(src, swap.dst) /\ Alike(dst, swap.src)
<1>1. PICK high : high = IF dst.n_routes < src.n_routes THEN src.n_routes ELSE dst.n_routes
  OBVIOUS
<1> DEFINE rts(x, y) == [i \in Slots |-> IF i <= high THEN y.routes[i] ELSE x.routes[i]]
<1>2. n_customers \in Nat \ {0}
  BY ObjectsAssumption
<1>3. /\ dst.n_routes \in 0 .. n_customers /\ src.n_routes \in 0 .. n_customers
      /\ dst.routes \in [Slots -> RouteAddresses \cup {NULL}]
      /\ src.routes \in [Slots -> RouteAddresses \cup {NULL}]
  BY DEF Solutions
<1>4. high \in 0 .. n_customers /\ dst.n_routes <= high /\ src.n_routes <= high
  BY <1>1, <1>2, <1>3
<1>5. swap.dst = [src EXCEPT !.routes = rts(dst, src)] /\ swap.src = [dst EXCEPT !.routes = rts(src, dst)]
  BY <1>1 DEF Exchanged
<1>6. /\ rts(dst, src) \in [Slots -> RouteAddresses \cup {NULL}]
      /\ rts(src, dst) \in [Slots -> RouteAddresses \cup {NULL}]
  BY <1>3
<1>7. \A i \in 1 .. n_customers : i \in Slots
  BY DEF Slots
<1>8. \A i \in 1 .. src.n_routes : rts(dst, src)[i] = src.routes[i]
  BY <1>2, <1>3, <1>4, <1>7
<1>9. \A i \in 1 .. dst.n_routes : rts(src, dst)[i] = dst.routes[i]
  BY <1>2, <1>3, <1>4, <1>7
<1> HIDE DEF rts
<1>10. Alike(src, swap.dst)
  <2>1. PICK f, t : f = rts(dst, src) /\ t = swap.dst
    OBVIOUS
  <2>2. t = [src EXCEPT !.routes = f] /\ f \in [Slots -> RouteAddresses \cup {NULL}]
    BY <1>5, <1>6, <2>1
  <2>3. /\ t \in Solutions /\ t.w = src.w /\ t.meta = src.meta /\ t.pool = src.pool
        /\ t.n_routes = src.n_routes /\ t.routes = f
    BY ONLY <2>2, src \in Solutions DEF Solutions
  <2>4. \A i \in 1 .. src.n_routes : t.routes[i] = src.routes[i]
    BY <1>8, <2>1, <2>3
  <2>5. Alike(src, t)
    BY ONLY <2>3, <2>4 DEF Alike
  <2> QED
    BY <2>1, <2>5
<1>11. Alike(dst, swap.src)
  <2>1. PICK f, t : f = rts(src, dst) /\ t = swap.src
    OBVIOUS
  <2>2. t = [dst EXCEPT !.routes = f] /\ f \in [Slots -> RouteAddresses \cup {NULL}]
    BY <1>5, <1>6, <2>1
  <2>3. /\ t \in Solutions /\ t.w = dst.w /\ t.meta = dst.meta /\ t.pool = dst.pool
        /\ t.n_routes = dst.n_routes /\ t.routes = f
    BY ONLY <2>2, dst \in Solutions DEF Solutions
  <2>4. \A i \in 1 .. dst.n_routes : t.routes[i] = dst.routes[i]
    BY <1>9, <2>1, <2>3
  <2>5. Alike(dst, t)
    BY ONLY <2>3, <2>4 DEF Alike
  <2> QED
    BY <2>1, <2>5
<1> QED
  BY <1>10, <1>11

\* A phase fails: its copy takes the place of the solution, which is deleted.
LEMMA PhaseFailedInv ==
  ASSUME ObjectsInv, PhaseFailed
  PROVE  ObjectsInv'
<1>1. PICK N \in 1 .. 2 : Len(solutions) = N + 1
  <2>1. Len(solutions) \in 1 .. 3 /\ Len(solutions) # 1
    <3>1. Depth > 0
      BY DEF PhaseFailed
    <3>2. PICK K \in 1 .. 3 : K = Len(solutions)
      BY FirstFacts
    <3>3. Depth = K - 1
      BY <3>2 DEF Depth
    <3>4. K # 1
      BY ONLY <3>1, <3>3, K \in 1 .. 3
    <3> QED
      BY ONLY <3>2, <3>4, K \in 1 .. 3
  <2>2. Len(solutions) - 1 \in 1 .. 2 /\ Len(solutions) = (Len(solutions) - 1) + 1
    BY <2>1
  <2> QED
    BY <2>2
<1>2. /\ Heaped(customers, routes, solutions, N + 1) /\ solutions \in Seq(Solutions)
      /\ HeapTypes(customers, routes)
  BY <1>1, FirstFacts
<1>3. PICK last, front, swap : /\ last = Last(solutions) /\ front = Front(solutions)
                               /\ swap = Exchanged(s0, last)
  OBVIOUS
<1>4. /\ last = solutions[N + 1]
      /\ front \in Seq(Solutions) /\ Len(front) = N /\ \A k \in 1 .. N : front[k] = solutions[k]
  <2>1. last = solutions[N + 1] /\ front = SubSeq(solutions, 1, N)
    <3>1. (N + 1) - 1 = N
      OBVIOUS
    <3> QED
      BY <1>1, <1>3, <3>1 DEF Last, Front
  <2>2. /\ SubSeq(solutions, 1, N) \in Seq(Solutions) /\ Len(SubSeq(solutions, 1, N)) = N
        /\ \A k \in 1 .. N : SubSeq(solutions, 1, N)[k] = solutions[k]
    BY <1>1, <1>2
  <2> QED
    BY <2>1, <2>2
<1>5. s0 = solutions[1] /\ s0 \in Solutions /\ last \in Solutions
  <2>1. 1 \in 1 .. N + 1 /\ N + 1 \in 1 .. N + 1
    OBVIOUS
  <2> QED
    BY <1>1, <1>2, <1>4, <2>1 DEF s0
<1>6. Alike(last, swap.dst) /\ Alike(s0, swap.src)
  BY <1>3, <1>5, ExchangedAlike
<1>7. PICK dst, src : dst = swap.dst /\ src = swap.src
  OBVIOUS
<1>8. dst \in Solutions
  BY <1>6, <1>7 DEF Alike
<1>9. PICK ss2 : ss2 = [solutions EXCEPT ![1] = dst, ![N + 1] = src]
  OBVIOUS
<1>10. ss2[1] = dst /\ ss2[N + 1] = src /\ \A k \in 2 .. N : ss2[k] = solutions[k]
  BY <1>1, <1>2, <1>9
<1>11. Heaped(customers, routes, ss2, N + 1)
  <2>1. Alike(solutions[N + 1], ss2[1]) /\ Alike(solutions[1], ss2[N + 1])
    BY <1>4, <1>5, <1>6, <1>7, <1>10
  <2>2. PICK K \in Nat : K = N + 1 /\ K >= 2 /\ K - 1 = N
    OBVIOUS
  <2>3. /\ Heaped(customers, routes, solutions, K)
        /\ Alike(solutions[K], ss2[1]) /\ Alike(solutions[1], ss2[K])
        /\ \A k \in 2 .. K - 1 : ss2[k] = solutions[k]
    BY <1>2, <1>10, <2>1, <2>2
  <2>4. Heaped(customers, routes, ss2, K)
    BY ONLY <2>2, <2>3, K \in Nat, HeapSwaps
  <2> QED
    BY <2>2, <2>4
<1>12. Sound(customers, routes, src)
  <2>1. N + 1 \in 1 .. N + 1
    OBVIOUS
  <2> QED
    BY <1>10, <1>11, <2>1 DEF Heaped
<1>13. PICK d : d = solution_delete(Heap, src)
  OBVIOUS
<1>14. PICK ss : ss = [front EXCEPT ![1] = dst]
  OBVIOUS
<1>15. /\ customers' = d.customers /\ routes' = d.routes
       /\ solutions' = ss /\ failed' = (failed \/ Depth = 1)
  BY <1>3, <1>7, <1>13, <1>14 DEF PhaseFailed, Become
<1>16. /\ ss \in Seq(Solutions) /\ Len(ss) = N /\ ss[1] = dst
       /\ \A k \in 1 .. N : ss[k] = ss2[k]
  <2>1. 1 \in 1 .. N /\ \A k \in 1 .. N : k = 1 \/ k \in 2 .. N
    OBVIOUS
  <2>2. /\ ss \in Seq(Solutions) /\ Len(ss) = N /\ ss[1] = dst
        /\ \A k \in 2 .. N : ss[k] = front[k]
    BY <1>4, <1>8, <1>14, <2>1
  <2> QED
    BY <1>4, <1>10, <2>1, <2>2
<1>17. /\ d.customers = [a \in Addresses |-> IF a \in Held(routes, src) THEN Free ELSE customers[a]]
       /\ d.routes = [r \in RouteAddresses |-> IF r \in RoutesOf(src) THEN <<>> ELSE routes[r]]
  <2>1. Heap = [customers |-> customers, routes |-> routes]
    BY DEF Heap
  <2> QED
    BY ONLY <1>2, <1>12, <1>13, <2>1, DeleteFrees
<1>18. Heaped(d.customers, d.routes, ss, N)
  <2>1. N \in Nat
    OBVIOUS
  <2>2. PICK c, r : c = d.customers /\ r = d.routes
    OBVIOUS
  <2>3. /\ c = [a \in Addresses |-> IF a \in Held(routes, ss2[N + 1]) THEN Free ELSE customers[a]]
        /\ r = [p \in RouteAddresses |-> IF p \in RoutesOf(ss2[N + 1]) THEN <<>> ELSE routes[p]]
        /\ \A k \in 1 .. N : ss[k] = ss2[k]
    BY <1>10, <1>16, <1>17, <2>2
  <2>4. Heaped(c, r, ss, N)
    BY ONLY <1>11, <2>1, <2>3, HeapShrinks
  <2> QED
    BY <2>2, <2>4
<1>19. ObjectsTypes'
  <2>1. failed' \in BOOLEAN
    BY <1>15, Zenon
  <2> QED
    BY <1>15, <1>16, <2>1 DEF ObjectsTypes
<1>20. ObjectsHeld'
  BY <1>15, <1>16, <1>18 DEF ObjectsHeld
<1>21. Emptied'
  <2>1. Depth = N /\ Depth' = N - 1
    BY <1>1, <1>15, <1>16 DEF Depth
  <2>2. N = 1 => failed'
    BY <1>15, <2>1
  <2> QED
    BY <2>1, <2>2 DEF Emptied
<1> QED
  BY <1>19, <1>20, <1>21 DEF ObjectsInv

\* What is left of a solution when delete_route has taken out its route i.
Eliminated(cust, rts, s, i, cust2, rts2, s2) ==
  LET r == s.routes[i]
      placed == rts[r]
  IN  /\ s2 = [s EXCEPT !.routes[i] = s.routes[s.n_routes], !.routes[s.n_routes] = r,
                        !.n_routes = @ - 1, !.pool = SubSeq(placed, 2, Len(placed) - 1)]
      /\ cust2 = [a \in Addresses |->
                    IF a \in {placed[1], placed[Len(placed)]} THEN Free ELSE cust[a]]
      /\ rts2 = [rts EXCEPT ![r] = <<>>]

\* It is sound, and has given back the route and its depots.
LEMMA EliminatedSound ==
  ASSUME NEW cust, NEW rts, HeapTypes(cust, rts), NEW s, Sound(cust, rts, s),
         s.w = NULL, s.pool = <<>>, NEW i \in 1 .. s.n_routes,
         NEW cust2, NEW rts2, NEW s2, Eliminated(cust, rts, s, i, cust2, rts2, s2)
  PROVE  /\ HeapTypes(cust2, rts2) /\ Sound(cust2, rts2, s2) /\ s2.w = NULL
         /\ Held(rts2, s2) \subseteq Held(rts, s)
         /\ RoutesOf(s2) \subseteq RoutesOf(s)
         /\ \A a \in Addresses \ Held(rts, s) : cust2[a] = cust[a]
         /\ \A a \in Held(rts, s) \ Held(rts2, s2) : cust2[a] = Free
         /\ \A p \in RouteAddresses \ RoutesOf(s) : rts2[p] = rts[p]
         /\ \A p \in RoutesOf(s) \ RoutesOf(s2) : rts2[p] = <<>>
<1>0. n_customers \in Nat \ {0}
  BY ObjectsAssumption
<1>1. PICK n \in Nat \ {0} : n = s.n_routes /\ n <= n_customers /\ i \in 1 .. n
  <2>1. s.n_routes \in 0 .. n_customers
    BY SoundTypes
  <2>2. s.n_routes \in Nat \ {0}
    BY <1>0, <2>1
  <2> QED
    BY <1>0, <2>1, <2>2
<1>2. /\ s \in Solutions /\ \A k \in 1 .. n : s.routes[k] \in RouteAddresses
      /\ \A k, l \in 1 .. n : s.routes[k] = s.routes[l] => k = l
  BY <1>1 DEF Sound, Slotted
<1>3. PICK r, f : r = s.routes[i] /\ f = rts[r]
  OBVIOUS
<1>4. PICK p : p = SubSeq(f, 2, Len(f) - 1)
  OBVIOUS
<1>5. Rewritten(cust, rts, s, rts, s, {})
  <2>1. Written(rts, s, rts, {})
    BY DEF Written
  <2> QED
    BY <2>1, RouteLists
<1>6. /\ \A k \in 1 .. n : List(rts, s, k) = rts[s.routes[k]] /\ Good(cust, List(rts, s, k), 1)
      /\ ListIndexes(s) = {-1, 0} \cup 1 .. n
  BY <1>1, <1>5 DEF Rewritten
<1>7. Good(cust, f, 1) /\ List(rts, s, i) = f /\ r \in RouteAddresses
  BY <1>1, <1>2, <1>3, <1>6
<1>8. /\ f \in Seq(Addresses) /\ Distinct(f) /\ Len(f) >= 2
      /\ \A x \in 1 .. Len(f) : cust[f[x]] = 0 <=> x \in {1, Len(f)}
  BY <1>7 DEF Good
<1>9. PICK L \in Nat : L = Len(f) /\ L >= 2
  BY <1>8
<1> DEFINE E == {f[1], f[L]}
           to(k) == IF k = i THEN n ELSE k
<1>10. /\ \A x \in 1 .. L : f[x] \in Addresses
       /\ \A x, y \in 1 .. L : f[x] = f[y] => x = y
       /\ \A x \in 1 .. L : cust[f[x]] = 0 <=> x \in {1, L}
       /\ 1 \in 1 .. L /\ L \in 1 .. L /\ Elems(f) = {f[x] : x \in 1 .. L}
  BY <1>8, <1>9 DEF Distinct, Elems
<1>11. /\ p \in Seq(Addresses) /\ Len(p) = L - 2 /\ \A x \in 1 .. L - 2 : p[x] = f[x + 1] /\ x + 1 \in 1 .. L
  <2>1. /\ SubSeq(f, 2, L - 1) \in Seq(Addresses) /\ Len(SubSeq(f, 2, L - 1)) = L - 2
        /\ \A x \in 1 .. L - 2 : SubSeq(f, 2, L - 1)[x] = f[x + 1]
    BY <1>8, <1>9
  <2>2. \A x \in 1 .. L - 2 : x + 1 \in 1 .. L
    BY <1>9
  <2> QED
    BY <1>4, <1>9, <2>1, <2>2
<1>12. \A a : a \in Elems(p) <=> a \in Elems(f) /\ a \notin E
  <2>1. ASSUME NEW a \in Elems(p) PROVE a \in Elems(f) /\ a \notin E
    <3>1. PICK x \in 1 .. L - 2 : a = f[x + 1] /\ x + 1 \in 1 .. L
      BY <1>11 DEF Elems
    <3>2. x + 1 # 1 /\ x + 1 # L
      BY <1>9
    <3> QED
      BY <1>10, <3>1, <3>2
  <2>2. ASSUME NEW a \in Elems(f), a \notin E PROVE a \in Elems(p)
    <3>1. PICK y \in 1 .. L : a = f[y]
      BY <1>10
    <3>2. y # 1 /\ y # L
      BY <2>2, <3>1
    <3>3. y - 1 \in 1 .. L - 2 /\ (y - 1) + 1 = y
      BY <1>9, <3>2
    <3>4. p[y - 1] = a
      BY <1>11, <3>1, <3>3
    <3> QED
      BY <1>11, <3>3, <3>4 DEF Elems
  <2> QED
    BY <2>1, <2>2
<1>13. /\ \A a \in Elems(p) : cust[a] # 0
       /\ \A a \in Elems(f) : a \in E <=> cust[a] = 0
       /\ E \subseteq Elems(f)
  BY <1>10, <1>12
<1>14. Distinct(p)
  <2> SUFFICES ASSUME NEW x \in 1 .. L - 2, NEW y \in 1 .. L - 2, p[x] = p[y] PROVE x = y
    BY <1>11 DEF Distinct
  <2>1. x + 1 = y + 1
    BY <1>10, <1>11
  <2> QED
    BY <1>9, <2>1
<1>15. /\ \A k \in 1 .. n - 1 : to(k) \in 1 .. n /\ to(k) # i
       /\ \A k, l \in 1 .. n - 1 : to(k) = to(l) => k = l
       /\ \A j \in 1 .. n : j # i => \E k \in 1 .. n - 1 : to(k) = j
  <2>1. \A k \in 1 .. n - 1 : to(k) \in 1 .. n /\ to(k) # i
    BY <1>1
  <2>2. \A k, l \in 1 .. n - 1 : to(k) = to(l) => k = l
    BY <1>1
  <2>3. ASSUME NEW j \in 1 .. n, j # i PROVE \E k \in 1 .. n - 1 : to(k) = j
    <3>1. CASE j = n
      <4>1. i \in 1 .. n - 1 /\ to(i) = j
        BY <1>1, <2>3, <3>1
      <4> QED
        BY <4>1
    <3>2. CASE j # n
      <4>1. j \in 1 .. n - 1 /\ to(j) = j
        BY <2>3, <3>2
      <4> QED
        BY <4>1
    <3> QED
      BY <3>1, <3>2
  <2> QED
    BY <2>1, <2>2, <2>3
<1>16. /\ s2 = [s EXCEPT !.routes[i] = s.routes[n], !.routes[n] = r, !.n_routes = @ - 1, !.pool = p]
       /\ cust2 = [a \in Addresses |-> IF a \in E THEN Free ELSE cust[a]]
       /\ rts2 = [rts EXCEPT ![r] = <<>>]
  BY <1>1, <1>3, <1>4, <1>9 DEF Eliminated
<1>17. /\ s2.w = NULL /\ s2.pool = p /\ s2.meta = s.meta /\ s2.n_routes = n - 1
       /\ \A k \in 1 .. n - 1 : s2.routes[k] = s.routes[to(k)]
       /\ s2 \in Solutions
  <2>1. s.routes \in [Slots -> RouteAddresses \cup {NULL}] /\ Slots = 1 .. n_customers
    BY <1>2 DEF Solutions, Slots
  <2>2. \A k \in 1 .. n : k \in Slots
    BY <1>0, <1>1, <2>1
  <2>3. i \in Slots /\ n \in Slots
    BY <1>1, <2>2
  <2>4. PICK g : g = [s.routes EXCEPT ![i] = s.routes[n], ![n] = r]
    OBVIOUS
  <2>5. s2 = [s EXCEPT !.routes = g, !.n_routes = n - 1, !.pool = p]
    BY <1>1, <1>2, <1>16, <2>4 DEF Solutions
  <2>6. g \in [Slots -> RouteAddresses \cup {NULL}] /\ \A k \in 1 .. n - 1 : g[k] = s.routes[to(k)]
    <3>1. g \in [Slots -> RouteAddresses \cup {NULL}]
      BY <1>7, <2>1, <2>3, <2>4
    <3>2. \A k \in 1 .. n - 1 : k \in Slots /\ k # n
      BY <1>1, <2>2
    <3> QED
      BY <2>1, <2>3, <2>4, <3>1, <3>2
  <2>7. n - 1 \in 0 .. n_customers
    BY <1>0, <1>1
  <2>8. /\ s2 \in Solutions /\ s2.w = s.w /\ s2.pool = p /\ s2.meta = s.meta
        /\ s2.n_routes = n - 1 /\ s2.routes = g
    BY <1>2, <1>11, <2>5, <2>6, <2>7 DEF Solutions
  <2> QED
    BY <2>6, <2>8
<1>18. ListIndexes(s2) = {-1, 0} \cup 1 .. n - 1
  BY <1>1, <1>17 DEF ListIndexes
<1>19. Slotted(s2)
  <2> HIDE DEF to
  <2>1. \A k \in 1 .. n - 1 : s2.routes[k] \in RouteAddresses
    BY <1>2, <1>15, <1>17
  <2>2. \A k, l \in 1 .. n - 1 : s2.routes[k] = s2.routes[l] => k = l
    BY <1>2, <1>15, <1>17
  <2> QED
    BY <1>17, <2>1, <2>2 DEF Slotted
<1>20. rts \in [RouteAddresses -> Seq(Addresses)] /\ cust \in [Addresses -> 0 .. n_customers \cup {Free}]
  BY DEF HeapTypes
<1>21. /\ List(rts, s, -1) = <<>> /\ List(rts, s, 0) = <<>> /\ Elems(<<>>) = {}
       /\ List(rts2, s2, -1) = <<>> /\ List(rts2, s2, 0) = p
  BY <1>17 DEF List, Elems
<1>22. \A k \in 1 .. n - 1 : List(rts2, s2, k) = List(rts, s, to(k))
  <2> SUFFICES ASSUME NEW k \in 1 .. n - 1 PROVE List(rts2, s2, k) = List(rts, s, to(k))
    OBVIOUS
  <2>1. List(rts2, s2, k) = rts2[s2.routes[k]]
    BY DEF List
  <2>2. to(k) \in 1 .. n /\ to(k) # i /\ s2.routes[k] = s.routes[to(k)]
    BY <1>15, <1>17
  <2> HIDE DEF to
  <2>3. s.routes[to(k)] # r /\ s.routes[to(k)] \in RouteAddresses
    BY <1>1, <1>2, <1>3, <2>2
  <2>4. rts2[s.routes[to(k)]] = rts[s.routes[to(k)]]
    BY <1>16, <1>20, <2>3
  <2>5. List(rts, s, to(k)) = rts[s.routes[to(k)]]
    BY <1>6, <2>2
  <2> QED
    BY <2>1, <2>2, <2>4, <2>5
<1>23. \A j, k \in 1 .. n : j # k => Elems(List(rts, s, j)) \cap Elems(List(rts, s, k)) = {}
  BY <1>6 DEF Sound, Apart
<1> HIDE DEF E, to
<1>24. \A k \in 1 .. n - 1 : Elems(List(rts2, s2, k)) \cap Elems(f) = {}
  BY <1>1, <1>7, <1>15, <1>22, <1>23
<1>25. /\ \A a : a \in Held(rts2, s2) <=> a \in Elems(p) \/ \E k \in 1 .. n - 1 : a \in Elems(List(rts2, s2, k))
       /\ \A a : a \in Held(rts, s) <=> \E k \in 1 .. n : a \in Elems(List(rts, s, k))
  <2>1. \A a : a \in Held(rts2, s2) <=> \E k \in ListIndexes(s2) : a \in Elems(List(rts2, s2, k))
    BY DEF Held
  <2>2. \A a : a \in Held(rts, s) <=> \E k \in ListIndexes(s) : a \in Elems(List(rts, s, k))
    BY DEF Held
  <2> QED
    BY <1>6, <1>18, <1>21, <2>1, <2>2
<1>26. \A a : a \in Held(rts2, s2) <=> a \in Held(rts, s) /\ a \notin E
  <2>1. ASSUME NEW a \in Held(rts2, s2) PROVE a \in Held(rts, s) /\ a \notin E
    <3>1. CASE a \in Elems(p)
      BY <1>1, <1>7, <1>12, <1>25, <3>1
    <3>2. CASE \E k \in 1 .. n - 1 : a \in Elems(List(rts2, s2, k))
      <4>1. PICK k \in 1 .. n - 1 : a \in Elems(List(rts2, s2, k))
        BY <3>2
      <4>2. a \notin E
        BY <1>13, <1>24, <4>1
      <4> QED
        BY <1>15, <1>22, <1>25, <4>1, <4>2
    <3> QED
      BY <1>25, <2>1, <3>1, <3>2
  <2>2. ASSUME NEW a \in Held(rts, s), a \notin E PROVE a \in Held(rts2, s2)
    <3>1. PICK j \in 1 .. n : a \in Elems(List(rts, s, j))
      BY <1>25
    <3>2. CASE j = i
      BY <1>7, <1>12, <1>25, <2>2, <3>1, <3>2
    <3>3. CASE j # i
      BY <1>15, <1>22, <1>25, <3>1, <3>3
    <3> QED
      BY <3>2, <3>3
  <2> QED
    BY <2>1, <2>2
<1>27. Held(rts, s) \subseteq Addresses
  BY SoundTypes
<1>28. \A a \in Held(rts2, s2) : cust2[a] = cust[a] /\ a \in Held(rts, s)
  BY <1>16, <1>26, <1>27
<1>29. GoodLists(cust2, rts2, s2)
  <2> SUFFICES ASSUME NEW k \in ListIndexes(s2) PROVE Good(cust2, List(rts2, s2, k), k)
    BY DEF GoodLists
  <2>1. \A a \in Elems(List(rts2, s2, k)) : cust2[a] = cust[a]
    <3>1. Elems(List(rts2, s2, k)) \subseteq Held(rts2, s2)
      BY DEF Held
    <3> QED
      BY <1>28, <3>1
  <2>2. PICK q : q = List(rts2, s2, k)
    OBVIOUS
  <2>3. \A x \in 1 .. Len(q) : cust2[q[x]] = cust[q[x]]
    BY <2>1, <2>2 DEF Elems
  <2>4. Good(cust, q, k)
    <3>1. CASE k = -1
      <4>1. Good(cust, <<>>, -1)
        BY DEF Good, Distinct
      <4> QED
        BY <1>21, <2>2, <3>1, <4>1
    <3>2. CASE k = 0
      <4>1. \A x \in 1 .. Len(p) : cust[p[x]] # 0
        BY <1>13 DEF Elems
      <4> QED
        BY <1>11, <1>14, <1>21, <2>2, <3>2, <4>1 DEF Good
    <3>3. CASE k \in 1 .. n - 1
      <4>1. Good(cust, q, 1)
        BY <1>6, <1>15, <1>22, <2>2, <3>3
      <4>2. k \in Int /\ k > 0
        BY <3>3
      <4> QED
        BY <4>1, <4>2, GoodAs
    <3> QED
      BY <1>18, <3>1, <3>2, <3>3
  <2>5. Good(cust2, q, k)
    BY <2>3, <2>4 DEF Good
  <2> QED
    BY <2>2, <2>5
<1>30. Apart(rts2, s2)
  <2> SUFFICES ASSUME NEW j \in ListIndexes(s2), NEW k \in ListIndexes(s2), j # k
               PROVE  Elems(List(rts2, s2, j)) \cap Elems(List(rts2, s2, k)) = {}
    BY DEF Apart
  <2>1. CASE j = -1 \/ k = -1
    BY <1>21, <2>1
  <2>2. Elems(p) \subseteq Elems(f)
    BY <1>12
  <2>3. CASE j = 0 /\ k \in 1 .. n - 1
    BY <1>21, <1>24, <2>2, <2>3
  <2>4. CASE k = 0 /\ j \in 1 .. n - 1
    BY <1>21, <1>24, <2>2, <2>4
  <2>5. CASE j \in 1 .. n - 1 /\ k \in 1 .. n - 1
    BY <1>15, <1>22, <1>23, <2>5
  <2> QED
    BY <1>18, <2>1, <2>3, <2>4, <2>5
<1>31. Known(cust2, s2, Held(rts2, s2))
  <2>1. /\ \A id \in Ids : s.meta[id] \in Held(rts, s) /\ cust[s.meta[id]] = id
        /\ \A a \in Held(rts, s) : cust[a] # 0 => cust[a] \in Ids /\ s.meta[cust[a]] = a
    BY DEF Sound, Known
  <2>2. \A a \in E : cust[a] = 0
    BY <1>13
  <2>3. \A id \in Ids : id # 0
    BY DEF Ids
  <2>4. \A id \in Ids : s2.meta[id] \in Held(rts2, s2) /\ cust2[s2.meta[id]] = id
    BY <1>17, <1>26, <1>28, <2>1, <2>2, <2>3
  <2>5. \A a \in Held(rts2, s2) : cust2[a] # 0 => cust2[a] \in Ids /\ s2.meta[cust2[a]] = a
    BY <1>17, <1>28, <2>1
  <2> QED
    BY <2>4, <2>5 DEF Known
<1>32. Sound(cust2, rts2, s2)
  BY <1>19, <1>29, <1>30, <1>31 DEF Sound
<1>33. HeapTypes(cust2, rts2)
  <2>1. cust2 \in [Addresses -> 0 .. n_customers \cup {Free}]
    BY <1>16, <1>20
  <2>2. rts2 \in [RouteAddresses -> Seq(Addresses)]
    <3>1. <<>> \in Seq(Addresses)
      OBVIOUS
    <3> QED
      BY <1>7, <1>16, <1>20, <3>1
  <2> QED
    BY <2>1, <2>2 DEF HeapTypes
<1>34. \A a \in Addresses \ Held(rts, s) : cust2[a] = cust[a]
  <2>1. E \subseteq Held(rts, s)
    BY <1>1, <1>7, <1>13, <1>25
  <2> QED
    BY <1>16, <2>1
<1>35. \A a \in Held(rts, s) \ Held(rts2, s2) : cust2[a] = Free
  BY <1>16, <1>26, <1>27
<1>36. RoutesOf(s2) \subseteq RoutesOf(s) /\ \A q \in RoutesOf(s) \ RoutesOf(s2) : q = r
  <2>1. RoutesOf(s2) \subseteq RoutesOf(s)
    BY <1>1, <1>15, <1>17 DEF RoutesOf
  <2>2. ASSUME NEW q \in RoutesOf(s), q # r PROVE q \in RoutesOf(s2)
    <3>1. PICK j \in 1 .. n : q = s.routes[j]
      BY <1>1 DEF RoutesOf
    <3>2. PICK k \in 1 .. n - 1 : to(k) = j
      BY <1>3, <1>15, <2>2, <3>1
    <3> QED
      BY <1>17, <3>1, <3>2 DEF RoutesOf
  <2> QED
    BY <2>1, <2>2
<1>37. rts2[r] = <<>> /\ \A q \in RouteAddresses \ RoutesOf(s) : rts2[q] = rts[q]
  <2>1. r \in RoutesOf(s)
    BY <1>3 DEF RoutesOf
  <2> QED
    BY <1>7, <1>16, <1>20, <2>1
<1> QED
  BY <1>17, <1>28, <1>32, <1>33, <1>34, <1>35, <1>36, <1>37

\* delete_route takes a route out of the solution it has copied.
LEMMA EliminateRouteInv ==
  ASSUME ObjectsInv, EliminateRoute
  PROVE  ObjectsInv'
<1>1. Depth = 0 /\ ~failed
  BY DEF EliminateRoute
<1>2. Len(solutions) = 1
  <2>1. Len(solutions) \in 1 .. 3
    BY FirstFacts
  <2> QED
    BY <1>1, <2>1 DEF Depth
<1>3. /\ Heaped(customers, routes, solutions, 1) /\ solutions \in Seq(Solutions)
      /\ s0 \in Solutions /\ Sound(customers, routes, s0)
  BY <1>2, FirstFacts
<1>4. PICK z : z = s0
  OBVIOUS
<1>5. PICK d : d = solution_dup(Heap, z)
  OBVIOUS
<1>6. PICK i \in 1 .. z.n_routes :
        LET r == z.routes[i]
            placed == routes[r]
            s == [z EXCEPT !.routes[i] = z.routes[z.n_routes], !.routes[z.n_routes] = r,
                           !.n_routes = @ - 1, !.pool = SubSeq(placed, 2, Len(placed) - 1)]
            mem == freed(d.mem, {placed[1], placed[Len(placed)]})
        IN  Become([mem EXCEPT !.routes[r] = <<>>], <<s, d.s>>, FALSE)
  BY <1>4, <1>5 DEF EliminateRoute
<1>7. PICK r, f : r = z.routes[i] /\ f = routes[r]
  OBVIOUS
<1>8. PICK s : s = [z EXCEPT !.routes[i] = z.routes[z.n_routes], !.routes[z.n_routes] = r,
                             !.n_routes = @ - 1, !.pool = SubSeq(f, 2, Len(f) - 1)]
  OBVIOUS
<1>9. PICK mem : mem = freed(d.mem, {f[1], f[Len(f)]})
  OBVIOUS
<1>10. Become([mem EXCEPT !.routes[r] = <<>>], <<s, d.s>>, FALSE)
  BY <1>6, <1>7, <1>8, <1>9
<1>11. /\ customers' = [mem EXCEPT !.routes[r] = <<>>].customers
       /\ routes' = [mem EXCEPT !.routes[r] = <<>>].routes
       /\ solutions' = <<s, d.s>> /\ failed' = FALSE
  BY <1>1, <1>10 DEF Become
<1>12. PICK c2, r2 : c2 = d.mem.customers /\ r2 = d.mem.routes
  OBVIOUS
<1>13. /\ Joins(customers, routes, c2, r2, d.s) /\ d.mem = [customers |-> c2, routes |-> r2]
       /\ d.s \in Solutions
  <2>1. Heap.customers = customers /\ Heap.routes = routes
    BY DEF Heap
  <2>2. d = solution_dup(Heap, solutions[1]) /\ 1 \in 1 .. 2
    BY <1>4, <1>5 DEF s0
  <2>3. /\ Joins(customers, routes, d.mem.customers, d.mem.routes, d.s)
        /\ d.mem = [customers |-> d.mem.customers, routes |-> d.mem.routes]
        /\ solutions[1].w = NULL => d.s.w = NULL
        /\ solutions[1].pool = <<>> => d.s.pool = <<>>
    BY ONLY <1>3, <2>1, <2>2, DupJoins
  <2>4. d.s \in Solutions
    BY <2>3 DEF Joins, Sound, Slotted
  <2> QED
    BY <1>12, <2>3, <2>4
<1>14. /\ customers' = [a \in Addresses |-> IF a \in {f[1], f[Len(f)]} THEN Free ELSE c2[a]]
       /\ routes' = [r2 EXCEPT ![r] = <<>>]
  <2>1. mem = [customers |-> [a \in Addresses |-> IF a \in {f[1], f[Len(f)]} THEN Free ELSE c2[a]],
               routes |-> r2]
    BY ONLY <1>9, <1>13 DEF freed
  <2>2. PICK c3 : c3 = [a \in Addresses |-> IF a \in {f[1], f[Len(f)]} THEN Free ELSE c2[a]]
    OBVIOUS
  <2>3. mem = [customers |-> c3, routes |-> r2]
    BY <2>1, <2>2
  <2>4. [mem EXCEPT !.routes[r] = <<>>] = [customers |-> c3, routes |-> [r2 EXCEPT ![r] = <<>>]]
    BY ONLY <2>3
  <2>5. customers' = c3 /\ routes' = [r2 EXCEPT ![r] = <<>>]
    BY ONLY <1>11, <2>4
  <2> QED
    BY <2>2, <2>5
<1>15. PICK ss1 : ss1 = <<z, d.s>>
  OBVIOUS
<1>16. ss1[1] = z /\ ss1[2] = d.s /\ z = solutions[1]
  BY <1>4, <1>15 DEF s0
<1>17. Heaped(c2, r2, ss1, 2)
  <2>1. 1 + 1 = 2 /\ 1 \in Nat
    OBVIOUS
  <2>2. Joins(customers, routes, c2, r2, ss1[1 + 1])
    BY <1>13, <1>16, <2>1
  <2>3. \A k \in 1 .. 1 : ss1[k] = solutions[k]
    BY <1>16
  <2>4. Heaped(c2, r2, ss1, 1 + 1)
    BY ONLY <1>3, <2>1, <2>2, <2>3, HeapGrows
  <2> QED
    BY <2>1, <2>4
<1>18. HeapTypes(c2, r2) /\ Sound(c2, r2, z)
  <2>1. 1 \in 1 .. 2
    OBVIOUS
  <2> QED
    BY <1>16, <1>17, <2>1 DEF Heaped
<1>19. z.w = NULL /\ z.pool = <<>>
  BY <1>1, <1>4 DEF ObjectsInv, Emptied
<1>20. r2[r] = f
  <2>1. r \in RoutesOf(z)
    BY <1>7 DEF RoutesOf
  <2>2. r \in RouteAddresses /\ f # <<>>
    BY <1>3, <1>4, <1>7, <2>1, SoundAllocated
  <2> QED
    BY <1>7, <1>13, <2>2 DEF Joins
<1>21. Eliminated(c2, r2, z, i, customers', routes', s)
  BY <1>7, <1>8, <1>14, <1>20 DEF Eliminated
<1>22. PICK c3, r3, ss2 : c3 = customers' /\ r3 = routes' /\ ss2 = solutions'
  OBVIOUS
<1>23. /\ HeapTypes(c3, r3) /\ Sound(c3, r3, s) /\ s.w = NULL
       /\ Held(r3, s) \subseteq Held(r2, z)
       /\ RoutesOf(s) \subseteq RoutesOf(z)
       /\ \A a \in Addresses \ Held(r2, z) : c3[a] = c2[a]
       /\ \A a \in Held(r2, z) \ Held(r3, s) : c3[a] = Free
       /\ \A p \in RouteAddresses \ RoutesOf(z) : r3[p] = r2[p]
       /\ \A p \in RoutesOf(z) \ RoutesOf(s) : r3[p] = <<>>
  <2>1. Eliminated(c2, r2, z, i, c3, r3, s)
    BY <1>21, <1>22
  <2> QED
    BY ONLY <1>18, <1>19, <2>1, i \in 1 .. z.n_routes, EliminatedSound
<1>24. s \in Solutions
  BY <1>23 DEF Sound, Slotted
<1>25. ss2 = <<s, d.s>> /\ ss2[1] = s /\ ss2[2] = d.s
  BY <1>11, <1>22
<1>26. Heaped(c3, r3, ss2, 2)
  <2>1. \A k \in 2 .. 2 : ss2[k] = ss1[k]
    BY <1>16, <1>25
  <2>2. /\ HeapTypes(c3, r3) /\ Sound(c3, r3, ss2[1])
        /\ Held(r3, ss2[1]) \subseteq Held(r2, ss1[1]) /\ RoutesOf(ss2[1]) \subseteq RoutesOf(ss1[1])
        /\ \A a \in Addresses \ Held(r2, ss1[1]) : c3[a] = c2[a]
        /\ \A a \in Held(r2, ss1[1]) \ Held(r3, ss2[1]) : c3[a] = Free
        /\ \A p \in RouteAddresses \ RoutesOf(ss1[1]) : r3[p] = r2[p]
        /\ \A p \in RoutesOf(ss1[1]) \ RoutesOf(ss2[1]) : r3[p] = <<>>
    BY <1>16, <1>23, <1>25
  <2> QED
    BY ONLY <1>17, <2>1, <2>2, 2 \in Nat \ {0}, HeapChanges
<1>27. ss2 \in Seq(Solutions) /\ Len(ss2) = 2
  <2>1. PICK t \in Solutions : t = d.s
    BY <1>13
  <2>2. ss2 = <<s, t>>
    BY <1>25, <2>1
  <2> QED
    BY ONLY <1>24, <2>2, t \in Solutions
<1>28. ObjectsTypes'
  <2>1. failed' \in BOOLEAN
    BY <1>11, Zenon
  <2> QED
    BY <1>22, <1>27, <2>1 DEF ObjectsTypes
<1>29. ObjectsHeld'
  BY <1>22, <1>26, <1>27 DEF ObjectsHeld
<1>30. Emptied'
  BY <1>22, <1>27 DEF Emptied, Depth
<1> QED
  BY <1>28, <1>29, <1>30 DEF ObjectsInv

\* The invariant is kept by each step.
LEMMA ObjectsStep ==
  ASSUME ObjectsInv, [ObjectsNext]_objectVars
  PROVE  ObjectsInv'
<1>1. CASE EliminateRoute
  BY <1>1, EliminateRouteInv
<1>2. CASE PopCustomer
  BY <1>2, PopCustomerInv
<1>3. CASE DupForPhase
  BY <1>3, DupForPhaseInv
<1>4. CASE InsertW
  BY <1>4, InsertWInv
<1>5. CASE InsertAndEject
  BY <1>5, InsertAndEjectInv
<1>6. CASE Move
  BY <1>6, MoveInv
<1>7. CASE PhaseDone
  BY <1>7, PhaseDoneInv
<1>8. CASE PhaseFailed
  BY <1>8, PhaseFailedInv
<1>9. CASE UNCHANGED objectVars
  BY <1>9 DEF objectVars, ObjectsInv, ObjectsTypes, ObjectsHeld, Emptied, Depth, s0
<1> QED
  BY <1>1, <1>2, <1>3, <1>4, <1>5, <1>6, <1>7, <1>8, <1>9 DEF ObjectsNext

\* The places that ObjectsExact speaks of, in terms of the lists of a solution.
LEMMA PlaceFacts ==
  ASSUME ObjectsInv
  PROVE  /\ DOMAIN solutions = 1 .. Len(solutions)
         /\ \A p : p \in RoutePlaces <=>
              \E k \in 1 .. Len(solutions) : \E i \in 1 .. solutions[k].n_routes : p = <<k, i>>
         /\ \A k \in 1 .. Len(solutions) : \A p : p \in Places(k) <=>
              \E i \in ListIndexes(solutions[k]) :
                \E x \in 1 .. Len(List(routes, solutions[k], i)) : p = <<k, i, x>>
         /\ \A k \in 1 .. Len(solutions) : \A i \in ListIndexes(solutions[k]) :
              /\ Lists(solutions[k])[i] = List(routes, solutions[k], i)
              /\ List(routes, solutions[k], i) \in Seq(Addresses)
         /\ \A k \in 1 .. Len(solutions) : \A i \in ListIndexes(solutions[k]) :
              \A x : At(<<k, i, x>>) = List(routes, solutions[k], i)[x]
<1>1. /\ DOMAIN solutions = 1 .. Len(solutions)
      /\ \A k \in 1 .. Len(solutions) : Sound(customers, routes, solutions[k])
  BY FirstFacts DEF Heaped
<1>2. \A p : p \in RoutePlaces <=>
        \E k \in 1 .. Len(solutions) : \E i \in 1 .. solutions[k].n_routes : p = <<k, i>>
  <2>1. \A p : p \in RoutePlaces <=> \E k \in 1 .. Len(solutions) : p \in {<<k, i>> : i \in 1 .. solutions[k].n_routes}
    BY <1>1, Zenon DEF RoutePlaces
  <2>2. \A k, p : p \in {<<k, i>> : i \in 1 .. solutions[k].n_routes} <=> \E i \in 1 .. solutions[k].n_routes : p = <<k, i>>
    BY Zenon
  <2> QED
    BY <2>1, <2>2, Zenon
<1>3. ASSUME NEW k \in 1 .. Len(solutions), NEW i \in ListIndexes(solutions[k])
      PROVE  /\ Lists(solutions[k])[i] = List(routes, solutions[k], i)
             /\ List(routes, solutions[k], i) \in Seq(Addresses)
             /\ \A x : At(<<k, i, x>>) = List(routes, solutions[k], i)[x]
  <2>1. i \in -1 .. solutions[k].n_routes
    BY DEF ListIndexes
  <2>2. Lists(solutions[k])[i] = List(routes, solutions[k], i)
    BY <2>1 DEF Lists, List
  <2>3. List(routes, solutions[k], i) \in Seq(Addresses)
    BY <1>1, SoundTypes
  <2>4. \A x : At(<<k, i, x>>) = Lists(solutions[k])[i][x]
    BY DEF At
  <2> QED
    BY <2>2, <2>3, <2>4
<1>4. ASSUME NEW k \in 1 .. Len(solutions), NEW p
      PROVE  p \in Places(k) <=>
               \E i \in ListIndexes(solutions[k]) :
                 \E x \in 1 .. Len(List(routes, solutions[k], i)) : p = <<k, i, x>>
  <2>1. p \in Places(k) <=>
          \E i \in -1 .. solutions[k].n_routes : \E x \in DOMAIN Lists(solutions[k])[i] : p = <<k, i, x>>
    <3>1. p \in Places(k) <=> \E i \in -1 .. solutions[k].n_routes : p \in {<<k, i, x>> : x \in DOMAIN Lists(solutions[k])[i]}
      BY Zenon DEF Places
    <3>2. \A i : p \in {<<k, i, x>> : x \in DOMAIN Lists(solutions[k])[i]} <=> \E x \in DOMAIN Lists(solutions[k])[i] : p = <<k, i, x>>
      BY Zenon
    <3> QED
      BY <3>1, <3>2, Zenon
  <2>2. -1 .. solutions[k].n_routes = ListIndexes(solutions[k])
    BY DEF ListIndexes
  <2>3. \A i \in ListIndexes(solutions[k]) :
          DOMAIN Lists(solutions[k])[i] = 1 .. Len(List(routes, solutions[k], i))
    <3> SUFFICES ASSUME NEW i \in ListIndexes(solutions[k])
                 PROVE  DOMAIN Lists(solutions[k])[i] = 1 .. Len(List(routes, solutions[k], i))
      OBVIOUS
    <3>1. PICK q \in Seq(Addresses) : q = List(routes, solutions[k], i)
      BY <1>3
    <3>2. Lists(solutions[k])[i] = q
      BY <1>3, <3>1
    <3>3. DOMAIN q = 1 .. Len(q)
      BY ONLY q \in Seq(Addresses)
    <3> QED
      BY <3>1, <3>2, <3>3
  <2> QED
    BY <2>1, <2>2, <2>3
<1> QED
  BY <1>1, <1>2, <1>3, <1>4

\* The invariant says of the places what ObjectsExact says.
LEMMA InvExact ==
  ASSUME ObjectsInv
  PROVE  ObjectsExact
<1>1. PICK K \in Nat : K = Len(solutions)
  BY FirstFacts
<1>2. PICK ss : ss = solutions
  OBVIOUS
<1>3. /\ \A k \in 1 .. K : Sound(customers, routes, ss[k])
      /\ \A k, l \in 1 .. K : k # l => /\ RoutesOf(ss[k]) \cap RoutesOf(ss[l]) = {}
                                       /\ Held(routes, ss[k]) \cap Held(routes, ss[l]) = {}
      /\ \A r \in RouteAddresses : routes[r] # <<>> <=> \E k \in 1 .. K : r \in RoutesOf(ss[k])
      /\ \A a \in Addresses : customers[a] # Free <=> \E k \in 1 .. K : a \in Held(routes, ss[k])
  BY <1>1, <1>2, FirstFacts DEF Heaped
<1>4. /\ DOMAIN solutions = 1 .. K
      /\ \A p : p \in RoutePlaces <=>
           \E k \in 1 .. K : \E i \in 1 .. ss[k].n_routes : p = <<k, i>>
      /\ \A k \in 1 .. K : \A p : p \in Places(k) <=>
           \E i \in ListIndexes(ss[k]) : \E x \in 1 .. Len(List(routes, ss[k], i)) : p = <<k, i, x>>
      /\ \A k \in 1 .. K : \A i \in ListIndexes(ss[k]) :
           /\ Lists(ss[k])[i] = List(routes, ss[k], i)
           /\ List(routes, ss[k], i) \in Seq(Addresses)
      /\ \A k \in 1 .. K : \A i \in ListIndexes(ss[k]) : \A x : At(<<k, i, x>>) = List(routes, ss[k], i)[x]
  BY <1>1, <1>2, PlaceFacts
<1>5. \A k \in 1 .. K : /\ \A i \in 1 .. ss[k].n_routes : ss[k].routes[i] \in RouteAddresses
                        /\ \A i, j \in 1 .. ss[k].n_routes : ss[k].routes[i] = ss[k].routes[j] => i = j
  BY <1>3 DEF Sound, Slotted
<1>6. \A k \in 1 .. K : \A i \in ListIndexes(ss[k]) :
        /\ Distinct(List(routes, ss[k], i))
        /\ \A x \in 1 .. Len(List(routes, ss[k], i)) :
             customers[List(routes, ss[k], i)[x]] = 0 <=> i > 0 /\ x \in {1, Len(List(routes, ss[k], i))}
  BY <1>3 DEF Sound, GoodLists, Good
<1>7. \A k \in 1 .. K : \A i, j \in ListIndexes(ss[k]) :
        i # j => Elems(List(routes, ss[k], i)) \cap Elems(List(routes, ss[k], j)) = {}
  BY <1>3 DEF Sound, Apart
<1>8. \A k \in 1 .. K : /\ Held(routes, ss[k]) \subseteq Addresses
                        /\ RoutesOf(ss[k]) \subseteq RouteAddresses
  BY <1>3, SoundTypes
<1>9. \A k \in 1 .. K : \A a : a \in Held(routes, ss[k]) <=>
        \E i \in ListIndexes(ss[k]) : \E x \in 1 .. Len(List(routes, ss[k], i)) : a = List(routes, ss[k], i)[x]
  BY DEF Held, Elems
<1> DEFINE used == [p \in RoutePlaces |-> solutions[p[1]].routes[p[2]]]
           all == UNION {Places(k) : k \in DOMAIN solutions}
           pointers == [p \in all |-> At(p)]
<1>10. IsInjective(used)
  <2>1. SUFFICES ASSUME NEW p \in RoutePlaces, NEW q \in RoutePlaces, used[p] = used[q] PROVE p = q
    BY DEF IsInjective
  <2>2. PICK k \in 1 .. K : \E i \in 1 .. ss[k].n_routes : p = <<k, i>>
    BY <1>4
  <2>3. PICK i \in 1 .. ss[k].n_routes : p = <<k, i>>
    BY <2>2
  <2>4. PICK l \in 1 .. K : \E j \in 1 .. ss[l].n_routes : q = <<l, j>>
    BY <1>4
  <2>5. PICK j \in 1 .. ss[l].n_routes : q = <<l, j>>
    BY <2>4
  <2>6. used[p] = ss[k].routes[i] /\ used[q] = ss[l].routes[j]
    BY <1>2, <2>3, <2>5
  <2>7. used[p] \in RoutesOf(ss[k]) /\ used[q] \in RoutesOf(ss[l])
    BY <2>6 DEF RoutesOf
  <2> HIDE DEF used
  <2>8. k = l
    BY <1>3, <2>1, <2>7
  <2> QED
    BY <1>5, <2>1, <2>3, <2>5, <2>6, <2>8
<1>11. Range(used) = {r \in RouteAddresses : routes[r] # <<>>}
  <2>1. \A r : r \in Range(used) <=> \E k \in 1 .. K : r \in RoutesOf(ss[k])
    <3>1. \A r : r \in Range(used) <=> \E p \in RoutePlaces : r = ss[p[1]].routes[p[2]]
      BY <1>2 DEF Range
    <3> HIDE DEF used
    <3>2. ASSUME NEW r \in Range(used) PROVE \E k \in 1 .. K : r \in RoutesOf(ss[k])
      <4>1. PICK p \in RoutePlaces : r = ss[p[1]].routes[p[2]]
        BY <3>1
      <4>2. PICK k \in 1 .. K : \E i \in 1 .. ss[k].n_routes : p = <<k, i>>
        BY <1>4
      <4>3. PICK i \in 1 .. ss[k].n_routes : p = <<k, i>>
        BY <4>2
      <4>4. r = ss[k].routes[i]
        BY <4>1, <4>3
      <4> QED
        BY <4>4 DEF RoutesOf
    <3>3. ASSUME NEW k \in 1 .. K, NEW r \in RoutesOf(ss[k]) PROVE r \in Range(used)
      <4>1. PICK i \in 1 .. ss[k].n_routes : r = ss[k].routes[i]
        BY DEF RoutesOf
      <4>2. PICK p : p = <<k, i>>
        OBVIOUS
      <4>3. p \in RoutePlaces
        BY <1>4, <4>2
      <4>4. r = ss[p[1]].routes[p[2]]
        BY <4>1, <4>2
      <4> QED
        BY <3>1, <4>3, <4>4
    <3> QED
      BY <3>2, <3>3
  <2> HIDE DEF used
  <2> QED
    BY <1>3, <1>8, <2>1
<1>12. \A p : p \in all <=> \E k \in 1 .. K : p \in Places(k)
  BY <1>4
<1>13. \A k \in 1 .. K : \A p \in Places(k) :
         \E i \in ListIndexes(ss[k]) : \E x \in 1 .. Len(List(routes, ss[k], i)) :
           p = <<k, i, x>> /\ At(p) = List(routes, ss[k], i)[x] /\ At(p) \in Elems(List(routes, ss[k], i))
  <2> SUFFICES ASSUME NEW k \in 1 .. K, NEW p \in Places(k)
               PROVE  \E i \in ListIndexes(ss[k]) : \E x \in 1 .. Len(List(routes, ss[k], i)) :
                        p = <<k, i, x>> /\ At(p) = List(routes, ss[k], i)[x]
                          /\ At(p) \in Elems(List(routes, ss[k], i))
    OBVIOUS
  <2>1. PICK i \in ListIndexes(ss[k]) : \E x \in 1 .. Len(List(routes, ss[k], i)) : p = <<k, i, x>>
    BY <1>4
  <2>2. PICK x \in 1 .. Len(List(routes, ss[k], i)) : p = <<k, i, x>>
    BY <2>1
  <2>3. At(p) = List(routes, ss[k], i)[x]
    BY <1>4, <2>2
  <2>4. At(p) \in Elems(List(routes, ss[k], i))
    BY <2>3 DEF Elems
  <2> QED
    BY <2>2, <2>3, <2>4
<1>14. IsInjective(pointers)
  <2>1. SUFFICES ASSUME NEW p \in all, NEW q \in all, At(p) = At(q) PROVE p = q
    BY DEF IsInjective
  <2>2. PICK k \in 1 .. K, l \in 1 .. K : p \in Places(k) /\ q \in Places(l)
    BY <1>12
  <2> HIDE DEF all, pointers, used
  <2>3. PICK i \in ListIndexes(ss[k]) : \E x \in 1 .. Len(List(routes, ss[k], i)) :
          p = <<k, i, x>> /\ At(p) = List(routes, ss[k], i)[x] /\ At(p) \in Elems(List(routes, ss[k], i))
    BY <1>13, <2>2
  <2>4. PICK x \in 1 .. Len(List(routes, ss[k], i)) :
          p = <<k, i, x>> /\ At(p) = List(routes, ss[k], i)[x] /\ At(p) \in Elems(List(routes, ss[k], i))
    BY <2>3
  <2>5. PICK j \in ListIndexes(ss[l]) : \E y \in 1 .. Len(List(routes, ss[l], j)) :
          q = <<l, j, y>> /\ At(q) = List(routes, ss[l], j)[y] /\ At(q) \in Elems(List(routes, ss[l], j))
    BY <1>13, <2>2
  <2>6. PICK y \in 1 .. Len(List(routes, ss[l], j)) :
          q = <<l, j, y>> /\ At(q) = List(routes, ss[l], j)[y] /\ At(q) \in Elems(List(routes, ss[l], j))
    BY <2>5
  <2>7. At(p) \in Held(routes, ss[k]) /\ At(q) \in Held(routes, ss[l])
    BY <2>4, <2>6 DEF Held
  <2>8. k = l
    BY <1>3, <2>1, <2>7
  <2>9. i = j
    BY <1>7, <2>1, <2>4, <2>6, <2>8
  <2>10. x = y
    BY <1>6, <2>1, <2>4, <2>6, <2>8, <2>9 DEF Distinct
  <2> QED
    BY <2>4, <2>6, <2>8, <2>9, <2>10
<1>15. \A a : (\E p \in all : a = At(p)) <=> \E k \in 1 .. K : a \in Held(routes, ss[k])
  <2>1. ASSUME NEW p \in all PROVE \E k \in 1 .. K : At(p) \in Held(routes, ss[k])
    <3>1. PICK k \in 1 .. K : p \in Places(k)
      BY <1>12
    <3>2. PICK i \in ListIndexes(ss[k]) : At(p) \in Elems(List(routes, ss[k], i))
      BY <1>13, <3>1
    <3> QED
      BY <3>2 DEF Held
  <2>2. ASSUME NEW k \in 1 .. K, NEW a \in Held(routes, ss[k]) PROVE \E p \in all : a = At(p) /\ p \in Places(k)
    <3>1. PICK i \in ListIndexes(ss[k]) : \E x \in 1 .. Len(List(routes, ss[k], i)) : a = List(routes, ss[k], i)[x]
      BY ONLY <1>9, k \in 1 .. K, a \in Held(routes, ss[k])
    <3>2. PICK x \in 1 .. Len(List(routes, ss[k], i)) : a = List(routes, ss[k], i)[x]
      BY <3>1
    <3>3. PICK p : p = <<k, i, x>>
      OBVIOUS
    <3>4. p \in Places(k) /\ At(p) = a
      BY <1>4, <3>2, <3>3
    <3> QED
      BY <1>12, <3>4
  <2> HIDE DEF all
  <2> QED
    BY <2>1, <2>2
<1>16. Range(pointers) = {a \in Addresses : customers[a] # Free}
  <2>1. \A a : a \in Range(pointers) <=> \E p \in all : a = At(p)
    BY DEF Range
  <2> HIDE DEF all, pointers, used
  <2> QED
    BY <1>3, <1>8, <1>15, <2>1
<1>17. ASSUME NEW k \in 1 .. K, NEW id \in Ids
       PROVE  /\ customers[ss[k].meta[id]] = id
              /\ \E p \in Places(k) : At(p) = ss[k].meta[id]
  <2>1. ss[k].meta[id] \in Held(routes, ss[k]) /\ customers[ss[k].meta[id]] = id
    BY <1>3 DEF Sound, Known
  <2>2. PICK a : a = ss[k].meta[id]
    OBVIOUS
  <2>3. PICK i \in ListIndexes(ss[k]) : \E x \in 1 .. Len(List(routes, ss[k], i)) : a = List(routes, ss[k], i)[x]
    BY <1>9, <2>1, <2>2
  <2>4. PICK x \in 1 .. Len(List(routes, ss[k], i)) : a = List(routes, ss[k], i)[x]
    BY <2>3
  <2>5. PICK p : p = <<k, i, x>>
    OBVIOUS
  <2>6. p \in Places(k) /\ At(p) = a
    BY <1>4, <2>4, <2>5
  <2> QED
    BY <2>1, <2>2, <2>6
<1>18. ASSUME NEW k \in 1 .. K, NEW p \in Places(k)
       PROVE  customers[At(p)] = 0 <=> p[2] > 0 /\ p[3] \in {1, Len(Lists(ss[k])[p[2]])}
  <2>1. PICK i \in ListIndexes(ss[k]) : \E x \in 1 .. Len(List(routes, ss[k], i)) :
          p = <<k, i, x>> /\ At(p) = List(routes, ss[k], i)[x]
    BY <1>13
  <2>2. PICK x \in 1 .. Len(List(routes, ss[k], i)) : p = <<k, i, x>> /\ At(p) = List(routes, ss[k], i)[x]
    BY <2>1
  <2>3. p[2] = i /\ p[3] = x
    BY <2>2
  <2>4. Lists(ss[k])[i] = List(routes, ss[k], i)
    BY <1>4
  <2> QED
    BY <1>6, <2>2, <2>3, <2>4
<1> HIDE DEF all, pointers, used
<1> QED
  BY <1>2, <1>4, <1>10, <1>11, <1>14, <1>16, <1>17, <1>18 DEF ObjectsExact, all, pointers, used

(***************************************************************************)
(* Every allocated object is pointed to from one place of one solution and *)
(* nothing else is pointed to, whatever the phases of the solver do: the   *)
(* number of customers and of routes does not matter.                      *)
(***************************************************************************)
THEOREM ObjectsStayExact == ObjectsSpec => []ObjectsExact
<1>1. ObjectsInit => ObjectsInv
  BY InitInv
<1>2. ObjectsInv /\ [ObjectsNext]_objectVars => ObjectsInv'
  BY ObjectsStep
<1>3. ObjectsInv => ObjectsExact
  BY InvExact
<1> QED
  BY <1>1, <1>2, <1>3, PTL DEF ObjectsSpec

-----------------------------------------------------------------------------
\* Multiples keep the order.
LEMMA Multiples ==
  ASSUME NEW C \in Nat \ {0}, NEW x \in Int, NEW y \in Int
  PROVE  /\ C * x \in Int /\ C * x = x * C
         /\ x < y <=> C * x < C * y
         /\ x <= y <=> C * x <= C * y
         /\ C * (x + y) = C * x + C * y /\ C * (x - y) = C * x - C * y
         /\ x >= 0 => C * x >= 0
         /\ x < y => C * x + C <= C * y
<1>1. C * x \in Int /\ C * x = x * C /\ C * y \in Int
  OBVIOUS
<1>2. C * (x + y) = C * x + C * y /\ C * (x - y) = C * x - C * y
  OBVIOUS
<1>3. ASSUME NEW d \in Nat PROVE C * d >= 0 /\ (d > 0 => C * d >= C)
  OBVIOUS
<1>4. x >= 0 => C * x >= 0
  BY <1>3
<1>5. x <= y => C * y - C * x >= 0
  <2>1. x <= y => y - x \in Nat
    OBVIOUS
  <2>2. C * (y - x) = C * y - C * x
    OBVIOUS
  <2> QED
    BY <1>3, <2>1, <2>2
<1>6. x < y => C * y - C * x >= C
  <2>1. x < y => y - x \in Nat /\ y - x > 0
    OBVIOUS
  <2>2. C * (y - x) = C * y - C * x
    OBVIOUS
  <2> QED
    BY <1>3, <2>1, <2>2
<1>7. y < x => C * x - C * y >= C
  <2>1. y < x => x - y \in Nat /\ x - y > 0
    OBVIOUS
  <2>2. C * (x - y) = C * x - C * y
    OBVIOUS
  <2> QED
    BY <1>3, <2>1, <2>2
<1> QED
  BY <1>1, <1>2, <1>4, <1>5, <1>6, <1>7

\* A position is one of the bits of a byte.
LEMMA DivMod ==
  ASSUME NEW C \in Nat \ {0}, NEW a \in Nat
  PROVE  a = C * (a \div C) + (a % C) /\ a % C \in 0 .. C - 1 /\ a \div C \in Nat
<1>1. a \div C \in Int /\ a % C \in 0 .. C - 1 /\ a = C * (a \div C) + (a % C)
  BY Division
<1>2. PICK q \in Int : q = a \div C
  BY <1>1
<1>3. q < 0 => C * q + C <= 0
  BY Multiples
<1> QED
  BY <1>1, <1>2, <1>3

\* And of no other.
LEMMA DivModOf ==
  ASSUME NEW C \in Nat \ {0}, NEW q \in Nat, NEW r \in 0 .. C - 1
  PROVE  C * q + r \in Nat /\ (C * q + r) \div C = q /\ (C * q + r) % C = r
<1>1. PICK a : a = C * q + r
  OBVIOUS
<1>2. a \in Nat
  BY <1>1, Multiples
<1>3. /\ a = C * (a \div C) + (a % C) /\ a % C \in 0 .. C - 1 /\ a \div C \in Nat
  BY <1>2, DivMod
<1>4. PICK p \in Nat, s \in 0 .. C - 1 : p = a \div C /\ s = a % C
  BY <1>3
<1>5. C * q + r = C * p + s
  BY <1>1, <1>3, <1>4
<1>6. ~(q < p)
  <2>1. q < p => C * q + C <= C * p
    BY Multiples
  <2>2. C * q \in Int /\ C * p \in Int
    OBVIOUS
  <2> QED
    BY <1>5, <2>1, <2>2
<1>7. ~(p < q)
  <2>1. p < q => C * p + C <= C * q
    BY Multiples
  <2>2. C * q \in Int /\ C * p \in Int
    OBVIOUS
  <2> QED
    BY <1>5, <2>1, <2>2
<1>8. p = q
  BY <1>6, <1>7
<1>9. s = r
  <2>1. C * q \in Int
    OBVIOUS
  <2> QED
    BY <1>5, <1>8, <2>1
<1> QED
  BY <1>1, <1>2, <1>4, <1>8, <1>9

\* The bytes below M have the positions below C * M.
LEMMA BytesBelow ==
  ASSUME NEW C \in Nat \ {0}, NEW a \in Nat, NEW M \in Nat
  PROVE  a < C * M <=> a \div C < M
<1>1. PICK q \in Nat, r \in 0 .. C - 1 : q = a \div C /\ a = C * q + r
  BY DivMod
<1>2. C * q \in Int /\ C * M \in Int
  OBVIOUS
<1>3. q < M => C * q + C <= C * M
  BY Multiples
<1>4. M <= q => C * M <= C * q
  BY Multiples
<1> QED
  BY <1>1, <1>2, <1>3, <1>4

(***************************************************************************)
(* The memory d has its ones at the positions P.                           *)
(***************************************************************************)
Positions == 0 .. CHAR_BIT * MaxBytes - 1
Memories == [1 .. MaxBytes -> SUBSET (0 .. CHAR_BIT - 1)]

Ones(d, P) ==
  /\ d \in Memories /\ P \subseteq Positions
  /\ \A pos \in Positions : bit_test(d, pos) <=> pos \in P

\* The sizes are positive.
LEMMA Sizes ==
  /\ CHAR_BIT \in Nat \ {0} /\ WordBytes \in Nat \ {0} /\ MaxBytes \in Nat \ {0}
  /\ CHAR_BIT * MaxBytes \in Nat /\ CHAR_BIT * WordBytes \in Nat
  /\ CHAR_BIT * WordBytes > 0
<1>1. CHAR_BIT \in Nat \ {0} /\ WordBytes \in Nat \ {0} /\ MaxBytes \in Nat \ {0}
  BY BitsAssumption
<1>2. CHAR_BIT * 0 = 0
  BY <1>1
<1>3. 0 < MaxBytes /\ 0 < WordBytes
  BY <1>1
<1>4. CHAR_BIT * 0 < CHAR_BIT * MaxBytes /\ CHAR_BIT * 0 < CHAR_BIT * WordBytes
  BY <1>1, <1>3, Multiples
<1> QED
  BY <1>1, <1>2, <1>4, Multiples

\* The byte and the bit of a position.
LEMMA Place ==
  ASSUME NEW pos \in Positions
  PROVE  /\ pos \div CHAR_BIT + 1 \in 1 .. MaxBytes /\ pos % CHAR_BIT \in 0 .. CHAR_BIT - 1
         /\ pos \in Nat /\ pos \div CHAR_BIT \in Nat
         /\ pos = CHAR_BIT * (pos \div CHAR_BIT) + (pos % CHAR_BIT)
<1>1. pos \in Nat /\ pos < CHAR_BIT * MaxBytes /\ CHAR_BIT \in Nat \ {0} /\ MaxBytes \in Nat
  BY Sizes DEF Positions
<1>2. pos \div CHAR_BIT < MaxBytes
  BY <1>1, BytesBelow
<1>3. /\ pos = CHAR_BIT * (pos \div CHAR_BIT) + (pos % CHAR_BIT)
      /\ pos % CHAR_BIT \in 0 .. CHAR_BIT - 1 /\ pos \div CHAR_BIT \in Nat
  BY <1>1, DivMod
<1>4. PICK q \in Nat : q = pos \div CHAR_BIT
  BY <1>3
<1>5. q < MaxBytes => q + 1 \in 1 .. MaxBytes
  BY <1>1
<1> QED
  BY <1>1, <1>2, <1>3, <1>4, <1>5

\* Two positions are the same when their bytes and bits are.
LEMMA SamePlace ==
  ASSUME NEW pos \in Positions, NEW o \in Positions,
         pos \div CHAR_BIT = o \div CHAR_BIT, pos % CHAR_BIT = o % CHAR_BIT
  PROVE  pos = o
<1>1. pos = CHAR_BIT * (pos \div CHAR_BIT) + (pos % CHAR_BIT)
  BY Place
<1>2. o = CHAR_BIT * (o \div CHAR_BIT) + (o % CHAR_BIT)
  BY Place
<1> QED
  BY <1>1, <1>2

\* Setting and clearing one bit.
LEMMA SetHolds ==
  ASSUME NEW d, NEW P, Ones(d, P), NEW pos \in Positions
  PROVE  /\ Ones(bit_set(d, pos), P \cup {pos})
         /\ Ones(bit_clear(d, pos), P \ {pos})
<1>1. PICK i \in 1 .. MaxBytes, b \in 0 .. CHAR_BIT - 1 : i = pos \div CHAR_BIT + 1 /\ b = pos % CHAR_BIT
  BY Place
<1>2. d \in Memories /\ P \subseteq Positions /\ \A o \in Positions : bit_test(d, o) <=> o \in P
  BY DEF Ones
<1>3. bit_set(d, pos) = [d EXCEPT ![i] = d[i] \cup {b}]
  BY <1>1 DEF bit_set
<1>4. bit_clear(d, pos) = [d EXCEPT ![i] = d[i] \ {b}]
  BY <1>1 DEF bit_clear
<1>5. bit_set(d, pos) \in Memories /\ bit_clear(d, pos) \in Memories
  BY <1>2, <1>3, <1>4 DEF Memories
<1>6. ASSUME NEW o \in Positions
      PROVE  /\ bit_test(bit_set(d, pos), o) <=> o \in P \/ o = pos
             /\ bit_test(bit_clear(d, pos), o) <=> o \in P /\ o # pos
  <2>1. PICK j \in 1 .. MaxBytes, c \in 0 .. CHAR_BIT - 1 : j = o \div CHAR_BIT + 1 /\ c = o % CHAR_BIT
    BY Place
  <2>2. c \in d[j] <=> o \in P
    BY <1>2, <2>1 DEF bit_test
  <2>3. o = pos <=> i = j /\ b = c
    <3>1. o \div CHAR_BIT \in Nat /\ pos \div CHAR_BIT \in Nat
      BY Place
    <3>2. i = j /\ b = c => pos \div CHAR_BIT = o \div CHAR_BIT /\ pos % CHAR_BIT = o % CHAR_BIT
      BY <1>1, <2>1, <3>1
    <3> QED
      BY <1>1, <2>1, <3>2, SamePlace
  <2>4. bit_test(bit_set(d, pos), o) <=> c \in bit_set(d, pos)[j]
    BY <2>1 DEF bit_test
  <2>5. bit_test(bit_clear(d, pos), o) <=> c \in bit_clear(d, pos)[j]
    BY <2>1 DEF bit_test
  <2>6. c \in bit_set(d, pos)[j] <=> c \in d[j] \/ (i = j /\ b = c)
    BY <1>2, <1>3 DEF Memories
  <2>7. c \in bit_clear(d, pos)[j] <=> c \in d[j] /\ ~(i = j /\ b = c)
    BY <1>2, <1>4 DEF Memories
  <2> QED
    BY <2>2, <2>3, <2>4, <2>5, <2>6, <2>7
<1> QED
  BY <1>2, <1>5, <1>6 DEF Ones

\* What a word has, loaded from byte `from` on.
LEMMA LoadHolds ==
  ASSUME Ones(data, ones), NEW from \in Nat, NEW n \in Nat, from + n <= MaxBytes
  PROVE  /\ Loaded(from, n) = {b \in 0 .. n * CHAR_BIT - 1 : from * CHAR_BIT + b \in ones}
         /\ n * CHAR_BIT \in Nat /\ from * CHAR_BIT \in Nat
         /\ from * CHAR_BIT + n * CHAR_BIT <= MaxBytes * CHAR_BIT
<1>1. CHAR_BIT \in Nat \ {0} /\ MaxBytes \in Nat
  BY Sizes
<1>2. /\ CHAR_BIT * from \in Nat /\ CHAR_BIT * n \in Nat
      /\ CHAR_BIT * from = from * CHAR_BIT /\ CHAR_BIT * n = n * CHAR_BIT
  BY <1>1, Multiples
<1>3. CHAR_BIT * (from + n) = CHAR_BIT * from + CHAR_BIT * n /\ CHAR_BIT * (from + n) <= CHAR_BIT * MaxBytes
  <2>1. from + n \in Int /\ MaxBytes \in Int
    BY <1>1
  <2> QED
    BY <1>1, <2>1, Multiples
<1>4. MaxBytes * CHAR_BIT = CHAR_BIT * MaxBytes /\ CHAR_BIT * MaxBytes \in Nat
  BY Sizes
<1>5. \A b \in 0 .. n * CHAR_BIT - 1 : from * CHAR_BIT + b \in Positions
  BY <1>2, <1>3, <1>4 DEF Positions
<1>6. \A b \in 0 .. n * CHAR_BIT - 1 : bit_test(data, from * CHAR_BIT + b) <=> from * CHAR_BIT + b \in ones
  BY <1>5 DEF Ones
<1> QED
  BY <1>2, <1>3, <1>4, <1>6 DEF Loaded

\* Writing a word changes what is in its place, and nothing else.
LEMMA StoreHolds ==
  ASSUME NEW d, NEW P, Ones(d, P), NEW from \in Nat, from + WordBytes <= MaxBytes,
         NEW word, word \subseteq AllOnes
  PROVE  Ones(Store(d, from, word),
              {pos \in P : pos - from * CHAR_BIT \notin AllOnes} \cup {from * CHAR_BIT + b : b \in word})
<1>0. /\ CHAR_BIT \in Nat \ {0} /\ WordBytes \in Nat \ {0} /\ MaxBytes \in Nat
      /\ CHAR_BIT * WordBytes \in Nat /\ CHAR_BIT * MaxBytes \in Nat
  BY Sizes
<1>1. PICK base \in Nat : base = from * CHAR_BIT /\ base = CHAR_BIT * from
  BY <1>0, Multiples
<1>2. base + CHAR_BIT * WordBytes <= CHAR_BIT * MaxBytes
  <2>1. from + WordBytes \in Int /\ WordBytes \in Int /\ MaxBytes \in Int
    BY <1>0
  <2>2. CHAR_BIT * (from + WordBytes) = CHAR_BIT * from + CHAR_BIT * WordBytes
    BY <1>0, <2>1, Multiples
  <2>3. CHAR_BIT * (from + WordBytes) <= CHAR_BIT * MaxBytes
    BY <1>0, <2>1, Multiples
  <2> QED
    BY <1>1, <2>2, <2>3
<1>3. PICK Q : Q = {pos \in P : pos - base \notin AllOnes} \cup {base + b : b \in word}
  OBVIOUS
<1>4. d \in Memories /\ P \subseteq Positions /\ \A pos \in Positions : bit_test(d, pos) <=> pos \in P
  BY DEF Ones
<1>5. \A b \in word : b \in Nat /\ b < CHAR_BIT * WordBytes
  BY <1>0 DEF AllOnes
<1>6. Q \subseteq Positions
  <2>1. PICK top \in Nat : top = CHAR_BIT * MaxBytes
    BY <1>0
  <2>2. PICK size \in Nat : size = CHAR_BIT * WordBytes
    BY <1>0
  <2>3. \A b \in word : base + b \in 0 .. top - 1
    BY <1>2, <1>5, <2>1, <2>2
  <2>4. Positions = 0 .. top - 1
    BY <2>1 DEF Positions
  <2> QED
    BY <1>3, <1>4, <2>3, <2>4
<1>7. \A pos \in Positions : pos \in Q <=> IF pos - base \in AllOnes THEN pos - base \in word ELSE pos \in P
  <2> SUFFICES ASSUME NEW pos \in Positions
               PROVE  pos \in Q <=> IF pos - base \in AllOnes THEN pos - base \in word ELSE pos \in P
    OBVIOUS
  <2>1. pos \in Nat
    BY <1>0 DEF Positions
  <2>2. pos \in {base + b : b \in word} <=> pos - base \in word
    BY <1>1, <1>5, <2>1
  <2> QED
    BY <1>3, <2>2
<1>8. Store(d, from, word) \in Memories
  BY <1>0, <1>4 DEF Memories, Store
<1>9. ASSUME NEW pos \in Positions
      PROVE  bit_test(Store(d, from, word), pos) <=>
               IF pos - base \in AllOnes THEN pos - base \in word ELSE pos \in P
  <2>1. PICK q \in Nat, b \in 0 .. CHAR_BIT - 1 :
           /\ q = pos \div CHAR_BIT /\ b = pos % CHAR_BIT /\ q + 1 \in 1 .. MaxBytes
           /\ pos = CHAR_BIT * q + b /\ pos \in Nat
    BY Place
  <2>2. bit_test(Store(d, from, word), pos) <=>
          b \in IF q \in from .. from + WordBytes - 1
                THEN {c \in 0 .. CHAR_BIT - 1 : (q - from) * CHAR_BIT + c \in word} ELSE d[q + 1]
    <3>1. DOMAIN d = 1 .. MaxBytes /\ q + 1 - 1 = q
      BY <1>4, <2>1 DEF Memories
    <3> QED
      BY <2>1, <3>1 DEF bit_test, Store
  <2>3. b \in d[q + 1] <=> pos \in P
    BY <1>4, <2>1 DEF bit_test
  <2>4. (q - from) * CHAR_BIT + b = pos - base
    <3>1. CHAR_BIT * (q - from) = CHAR_BIT * q - CHAR_BIT * from /\ CHAR_BIT * (q - from) = (q - from) * CHAR_BIT
      BY <1>0, <2>1, Multiples
    <3>2. CHAR_BIT * q \in Int
      BY <1>0, <2>1
    <3> QED
      BY <1>1, <2>1, <3>1, <3>2
  <2>5. q \in from .. from + WordBytes - 1 <=> pos - base \in AllOnes
    <3>1. AllOnes = 0 .. CHAR_BIT * WordBytes - 1
      BY DEF AllOnes
    <3>2. q - from < 0 => CHAR_BIT * (q - from) + CHAR_BIT <= CHAR_BIT * 0
      BY <1>0, <2>1, Multiples
    <3>3. q - from >= 0 => CHAR_BIT * (q - from) >= 0
      BY <1>0, <2>1, Multiples
    <3>4. q - from < WordBytes => CHAR_BIT * (q - from) + CHAR_BIT <= CHAR_BIT * WordBytes
      BY <1>0, <2>1, Multiples
    <3>5. WordBytes <= q - from => CHAR_BIT * WordBytes <= CHAR_BIT * (q - from)
      BY <1>0, <2>1, Multiples
    <3>6. PICK g \in Int : g = CHAR_BIT * (q - from) /\ pos - base = g + b
      <4>1. CHAR_BIT * (q - from) = (q - from) * CHAR_BIT /\ CHAR_BIT * (q - from) \in Int
        BY <1>0, <2>1, Multiples
      <4> QED
        BY <2>4, <4>1
    <3>7. CHAR_BIT * 0 = 0
      BY <1>0
    <3> QED
      BY <1>0, <2>1, <3>1, <3>2, <3>3, <3>4, <3>5, <3>6, <3>7
  <2> QED
    BY <2>1, <2>2, <2>3, <2>4, <2>5
<1>10. Ones(Store(d, from, word), Q)
  BY <1>6, <1>7, <1>8, <1>9 DEF Ones
<1> QED
  BY <1>1, <1>3, <1>10

\* The positions rewritten follow the bits of the word.
LEMMA RewriteHolds ==
  ASSUME Ones(data, ones), NEW from \in 0 .. MaxBytes - WordBytes, NEW word, NEW place,
         place \in [AllOnes -> AllOnes], word = {place[b] : b \in Loaded(from, WordBytes)},
         Rewrite(from, word, place)
  PROVE  Ones(data', ones') /\ it = NoIterator /\ UNCHANGED <<it, wanted, found>>
<1>0. /\ CHAR_BIT \in Nat \ {0} /\ WordBytes \in Nat \ {0} /\ MaxBytes \in Nat
  BY Sizes
<1>1. from \in Nat /\ from + WordBytes <= MaxBytes
  BY <1>0
<1>2. PICK base \in Nat : base = from * CHAR_BIT
  BY <1>0, <1>1, LoadHolds
<1>3. Loaded(from, WordBytes) = {b \in AllOnes : base + b \in ones}
  <2>1. WordBytes * CHAR_BIT = CHAR_BIT * WordBytes
    BY <1>0
  <2>2. Loaded(from, WordBytes) = {b \in 0 .. WordBytes * CHAR_BIT - 1 : from * CHAR_BIT + b \in ones}
    BY <1>0, <1>1, LoadHolds
  <2> QED
    BY <1>2, <2>1, <2>2 DEF AllOnes
<1>4. ones \subseteq Nat /\ AllOnes \subseteq Nat
  BY DEF Ones, Positions, AllOnes
<1>5. word \subseteq AllOnes
  BY <1>3
<1>6. /\ it = NoIterator /\ data' = Store(data, from, word) /\ UNCHANGED <<it, wanted, found>>
      /\ ones' = {pos \in ones : pos - base \notin AllOnes} \cup
                 {base + place[pos - base] : pos \in {o \in ones : o - base \in AllOnes}}
  BY <1>2 DEF Rewrite
<1>7. {base + place[pos - base] : pos \in {o \in ones : o - base \in AllOnes}} = {base + b : b \in word}
  <2>1. ASSUME NEW o \in ones, o - base \in AllOnes
        PROVE  place[o - base] \in word
    <3>1. base + (o - base) = o
      BY <1>4
    <3> QED
      BY <1>3, <2>1, <3>1
  <2>2. ASSUME NEW b \in word
        PROVE  \E o \in ones : o - base \in AllOnes /\ b = place[o - base]
    <3>1. PICK c \in AllOnes : base + c \in ones /\ b = place[c]
      BY <1>3
    <3>2. (base + c) - base = c
      BY <1>4
    <3> QED
      BY <3>1, <3>2
  <2> QED
    BY <2>1, <2>2
<1>8. Ones(Store(data, from, word), {pos \in ones : pos - from * CHAR_BIT \notin AllOnes}
                                    \cup {from * CHAR_BIT + b : b \in word})
  BY <1>1, <1>5, StoreHolds
<1>9. ones' = {pos \in ones : pos - from * CHAR_BIT \notin AllOnes} \cup {from * CHAR_BIT + b : b \in word}
  BY <1>2, <1>6, <1>7
<1> QED
  BY <1>6, <1>8, <1>9

\* What a rotation adds comes round once.
LEMMA Turned ==
  ASSUME NEW w \in Nat \ {0}, NEW b \in 0 .. w - 1, NEW k \in 0 .. w
  PROVE  (b + k) % w = IF b + k < w THEN b + k ELSE b + k - w
<1>1. CASE b + k < w
  <2>1. w * 0 + (b + k) = b + k /\ 0 \in Nat /\ b + k \in 0 .. w - 1
    BY <1>1
  <2>2. (w * 0 + (b + k)) % w = b + k
    BY <2>1, DivModOf
  <2> QED
    BY <1>1, <2>1, <2>2
<1>2. CASE ~(b + k < w)
  <2>1. w * 1 + (b + k - w) = b + k /\ 1 \in Nat /\ b + k - w \in 0 .. w - 1
    BY <1>2
  <2>2. (w * 1 + (b + k - w)) % w = b + k - w
    BY <2>1, DivModOf
  <2> QED
    BY <1>2, <2>1, <2>2
<1> QED
  BY <1>1, <1>2

\* Both rotations.
LEMMA Rotated ==
  ASSUME NEW word, word \subseteq AllOnes, NEW r \in 1 .. WordBits - 1
  PROVE  /\ bit_rotl(word, r) = {(b + r) % WordBits : b \in word}
         /\ bit_rotr(word, r) = {(b + WordBits - r) % WordBits : b \in word}
         /\ \A b \in AllOnes : (b + r) % WordBits \in AllOnes /\ (b + WordBits - r) % WordBits \in AllOnes
<1>1. PICK w \in Nat \ {0} : w = WordBits /\ AllOnes = 0 .. w - 1
  BY Sizes DEF WordBits, AllOnes
<1>2. \A b \in AllOnes : /\ (b + r) % w = IF b + r < w THEN b + r ELSE b - (w - r)
                         /\ (b + w - r) % w = IF b >= r THEN b - r ELSE b + (w - r)
  <2> SUFFICES ASSUME NEW b \in AllOnes
               PROVE  /\ (b + r) % w = IF b + r < w THEN b + r ELSE b - (w - r)
                      /\ (b + w - r) % w = IF b >= r THEN b - r ELSE b + (w - r)
    OBVIOUS
  <2>1. b \in 0 .. w - 1 /\ r \in 0 .. w /\ w - r \in 0 .. w
    BY <1>1
  <2>2. (b + r) % w = IF b + r < w THEN b + r ELSE b + r - w
    BY <2>1, Turned
  <2>3. (b + (w - r)) % w = IF b + (w - r) < w THEN b + (w - r) ELSE b + (w - r) - w
    BY <2>1, Turned
  <2>4. b + w - r = b + (w - r)
    BY <2>1
  <2> QED
    BY <1>1, <2>1, <2>2, <2>3, <2>4
<1>3. ASSUME NEW word2, word2 \subseteq AllOnes, NEW k \in 1 .. w - 1
      PROVE  /\ ShiftLeft(word2, k) = {b + k : b \in {c \in word2 : c + k < w}}
             /\ ShiftRight(word2, k) = {b - k : b \in {c \in word2 : c >= k}}
  BY <1>1 DEF ShiftLeft, ShiftRight
<1>4. w - r \in 1 .. w - 1 /\ r \in 1 .. w - 1
  BY <1>1
<1>5. bit_rotl(word, r) = {(b + r) % w : b \in word}
  <2>1. bit_rotl(word, r) = {b + r : b \in {c \in word : c + r < w}} \cup {b - (w - r) : b \in {c \in word : c >= w - r}}
    BY <1>1, <1>3, <1>4 DEF bit_rotl
  <2>2. \A b \in word : b \in AllOnes /\ b \in Int /\ (~(b + r < w) <=> b >= w - r)
    BY <1>1
  <2> QED
    BY <1>2, <2>1, <2>2
<1>6. bit_rotr(word, r) = {(b + w - r) % w : b \in word}
  <2>1. bit_rotr(word, r) = {b - r : b \in {c \in word : c >= r}} \cup {b + (w - r) : b \in {c \in word : c + (w - r) < w}}
    BY <1>1, <1>3, <1>4 DEF bit_rotr
  <2>2. \A b \in word : b \in AllOnes /\ b \in Int /\ (~(b >= r) <=> b + (w - r) < w)
    BY <1>1
  <2> QED
    BY <1>2, <2>1, <2>2
<1>7. \A b \in AllOnes : (b + r) % w \in AllOnes /\ (b + w - r) % w \in AllOnes
  <2> SUFFICES ASSUME NEW b \in AllOnes PROVE (b + r) % w \in AllOnes /\ (b + w - r) % w \in AllOnes
    OBVIOUS
  <2>1. b \in 0 .. w - 1
    BY <1>1
  <2> QED
    BY <1>1, <1>2, <2>1
<1> QED
  BY <1>1, <1>5, <1>6, <1>7

\* Each bit keeps its place in its byte, whose place is counted from the other end.
LEMMA Swapped ==
  ASSUME NEW b \in AllOnes
  PROVE  /\ b \div CHAR_BIT \in 0 .. WordBytes - 1 /\ b \in Nat
         /\ b + CHAR_BIT * (WordBytes - 1 - 2 * (b \div CHAR_BIT))
              = (WordBytes - 1 - b \div CHAR_BIT) * CHAR_BIT + (b % CHAR_BIT)
         /\ (WordBytes - 1 - b \div CHAR_BIT) * CHAR_BIT + (b % CHAR_BIT) \in AllOnes
<1>0. CHAR_BIT \in Nat \ {0} /\ WordBytes \in Nat \ {0} /\ CHAR_BIT * WordBytes \in Nat
  BY Sizes
<1>1. b \in Nat /\ b < CHAR_BIT * WordBytes
  BY <1>0 DEF AllOnes
<1>2. b \div CHAR_BIT < WordBytes
  BY <1>0, <1>1, BytesBelow
<1>3. /\ b = CHAR_BIT * (b \div CHAR_BIT) + (b % CHAR_BIT)
      /\ b % CHAR_BIT \in 0 .. CHAR_BIT - 1 /\ b \div CHAR_BIT \in Nat
  BY <1>0, <1>1, DivMod
<1>4. PICK q \in Nat, r \in 0 .. CHAR_BIT - 1 :
        q = b \div CHAR_BIT /\ r = b % CHAR_BIT /\ b = CHAR_BIT * q + r /\ q < WordBytes
  BY <1>2, <1>3
<1>5. PICK p \in Nat : p = WordBytes - 1 - q /\ p < WordBytes /\ WordBytes - 1 - 2 * q = p - q
  BY <1>0, <1>4
<1>6. CHAR_BIT * (p - q) = CHAR_BIT * p - CHAR_BIT * q /\ CHAR_BIT * p \in Int /\ CHAR_BIT * p = p * CHAR_BIT
  BY <1>0, Multiples
<1>7. CHAR_BIT * q \in Int
  BY <1>0
<1>8. b + CHAR_BIT * (p - q) = p * CHAR_BIT + r
  BY <1>4, <1>6, <1>7
<1>9. CHAR_BIT * p >= 0 /\ CHAR_BIT * p + CHAR_BIT <= CHAR_BIT * WordBytes
  BY <1>0, <1>5, Multiples
<1>10. p * CHAR_BIT + r \in 0 .. CHAR_BIT * WordBytes - 1
  BY <1>0, <1>6, <1>9
<1> QED
  BY <1>0, <1>1, <1>4, <1>5, <1>8, <1>10 DEF AllOnes

\* The bytes of a word swapped.
LEMMA BytesSwapped ==
  ASSUME NEW word, word \subseteq AllOnes, NEW place,
         place = [b \in AllOnes |-> (WordBytes - 1 - b \div CHAR_BIT) * CHAR_BIT + (b % CHAR_BIT)]
  PROVE  place \in [AllOnes -> AllOnes] /\ bswap(word) = {place[b] : b \in word}
<1>0. CHAR_BIT \in Nat \ {0} /\ WordBytes \in Nat \ {0}
  BY Sizes
<1>1. \A b \in AllOnes : /\ b \in Nat /\ b \div CHAR_BIT \in 0 .. WordBytes - 1
                         /\ place[b] = b + CHAR_BIT * (WordBytes - 1 - 2 * (b \div CHAR_BIT))
                         /\ place[b] \in AllOnes
  BY Swapped
<1>2. AllOnes = 0 .. WordBits - 1 /\ WordBits \in Nat
  BY Sizes DEF AllOnes, WordBits
<1> DEFINE byte(i) == {b \in word : b \div CHAR_BIT = i}
           by(i) == CHAR_BIT * (WordBytes - 1 - 2 * i)
           part(i) == IF by(i) >= 0 THEN ShiftLeft(byte(i), by(i)) ELSE ShiftRight(byte(i), -by(i))
<1>3. bswap(word) = UNION {part(i) : i \in 0 .. WordBytes - 1}
  BY DEF bswap
<1>4. ASSUME NEW i \in 0 .. WordBytes - 1 PROVE part(i) = {place[b] : b \in byte(i)}
  <2>1. PICK k \in Int : k = by(i)
    BY <1>0
  <2>2. PICK w \in Nat : w = WordBits /\ AllOnes = 0 .. w - 1
    BY <1>2
  <2>5. PICK B : B = byte(i)
    OBVIOUS
  <2>6. \A b \in B : place[b] = b + k /\ b \in Int /\ b >= 0 /\ b < w /\ b + k >= 0 /\ b + k < w
    BY <1>1, <2>1, <2>2, <2>5
  <2> HIDE DEF byte, by
  <2>3. CASE k >= 0
    <3>1. {c \in B : c + k < w} = B
      BY <2>6
    <3>2. ShiftLeft(B, k) = {b + k : b \in B}
      BY <2>2, <3>1 DEF ShiftLeft
    <3>3. part(i) = ShiftLeft(B, k)
      BY <2>1, <2>3, <2>5
    <3> HIDE DEF part
    <3>4. \A b \in B : b + k = place[b]
      BY ONLY <2>6
    <3> QED
      BY ONLY <2>5, <3>2, <3>3, <3>4
  <2>4. CASE k < 0
    <3>1. {c \in B : c >= -k} = B
      BY <2>6
    <3>2. ShiftRight(B, -k) = {b - (-k) : b \in B}
      BY <3>1 DEF ShiftRight
    <3>3. part(i) = ShiftRight(B, -k)
      BY <2>1, <2>4, <2>5
    <3> HIDE DEF part
    <3>4. \A b \in B : b - (-k) = place[b]
      BY ONLY <2>6, k \in Int
    <3> QED
      BY ONLY <2>5, <3>2, <3>3, <3>4
  <2> QED
    BY <2>1, <2>3, <2>4
<1>5. word = UNION {byte(i) : i \in 0 .. WordBytes - 1}
  BY <1>1
<1> HIDE DEF part
<1>6. \A i \in 0 .. WordBytes - 1 : byte(i) \subseteq word
  OBVIOUS
<1> HIDE DEF byte
<1>7. bswap(word) = {place[b] : b \in word}
  BY <1>3, <1>4, <1>5, <1>6
<1> QED
  BY <1>1, <1>7

\* What is done to the memory keeps it as it should be; no iterator runs then.
LEMMA MemorySteps ==
  ASSUME Ones(data, ones), NEW from \in 0 .. MaxBytes - WordBytes,
         \/ SwapBytes(from)
         \/ \E r \in 1 .. WordBits - 1 : RotateLeft(from, r) \/ RotateRight(from, r)
  PROVE  Ones(data', ones') /\ it = NoIterator /\ UNCHANGED <<it, wanted, found>>
<1>1. PICK word : word = Loaded(from, WordBytes)
  OBVIOUS
<1>2. word \subseteq AllOnes
  <2>1. WordBytes * CHAR_BIT = CHAR_BIT * WordBytes
    BY Sizes
  <2> QED
    BY <1>1, <2>1 DEF Loaded, AllOnes
<1>3. CASE SwapBytes(from)
  <2>1. PICK place : place = [b \in AllOnes |-> (WordBytes - 1 - b \div CHAR_BIT) * CHAR_BIT + (b % CHAR_BIT)]
    OBVIOUS
  <2>2. Rewrite(from, bswap(word), place)
    BY <1>1, <1>3, <2>1 DEF SwapBytes
  <2>3. place \in [AllOnes -> AllOnes] /\ bswap(word) = {place[b] : b \in word}
    BY <1>2, <2>1, BytesSwapped
  <2> QED
    BY <1>1, <2>2, <2>3, RewriteHolds
<1>4. ASSUME NEW r \in 1 .. WordBits - 1, RotateLeft(from, r)
      PROVE  Ones(data', ones') /\ it = NoIterator /\ UNCHANGED <<it, wanted, found>>
  <2>1. PICK place : place = [b \in AllOnes |-> (b + r) % WordBits]
    OBVIOUS
  <2>2. Rewrite(from, bit_rotl(word, r), place)
    BY <1>1, <1>4, <2>1 DEF RotateLeft
  <2>3. bit_rotl(word, r) = {(b + r) % WordBits : b \in word} /\ \A b \in AllOnes : (b + r) % WordBits \in AllOnes
    BY <1>2, Rotated
  <2>4. place \in [AllOnes -> AllOnes] /\ bit_rotl(word, r) = {place[b] : b \in word}
    BY <1>2, <2>1, <2>3
  <2> QED
    BY <1>1, <2>2, <2>4, RewriteHolds
<1>5. ASSUME NEW r \in 1 .. WordBits - 1, RotateRight(from, r)
      PROVE  Ones(data', ones') /\ it = NoIterator /\ UNCHANGED <<it, wanted, found>>
  <2>1. PICK place : place = [b \in AllOnes |-> (b + WordBits - r) % WordBits]
    OBVIOUS
  <2>2. Rewrite(from, bit_rotr(word, r), place)
    BY <1>1, <1>5, <2>1 DEF RotateRight
  <2>3. bit_rotr(word, r) = {(b + WordBits - r) % WordBits : b \in word} /\ \A b \in AllOnes : (b + WordBits - r) % WordBits \in AllOnes
    BY <1>2, Rotated
  <2>4. place \in [AllOnes -> AllOnes] /\ bit_rotr(word, r) = {place[b] : b \in word}
    BY <1>2, <2>1, <2>3
  <2> QED
    BY <1>1, <2>2, <2>4, RewriteHolds
<1> QED
  BY <1>3, <1>4, <1>5

(***************************************************************************)
(* The inductive invariant.  Behind the bytes that were read, every        *)
(* position with the wanted value is found or in the word.                 *)
(***************************************************************************)
Wanted(P, v, pos) == (pos \in P) = v

\* The word w at position base, from bytes before byte n.
WordExact(P, v, w, base, n) ==
  /\ w \subseteq AllOnes /\ base \in Nat /\ n \in Nat
  /\ \A b \in w : base + b < n * CHAR_BIT /\ Wanted(P, v, base + b)

\* What f and the word w at base hold of the positions in the first n bytes.
FoundExact(P, v, f, w, base, n) ==
  /\ f \in Seq(Int)
  /\ \A pos \in Nat : pos < n * CHAR_BIT /\ Wanted(P, v, pos) => pos \in ToSet(f) \/ pos - base \in w
  /\ \A i \in 1 .. Len(f) : f[i] # SIZE_MAX =>
       /\ f[i] \in Nat /\ f[i] < n * CHAR_BIT /\ Wanted(P, v, f[i])
       /\ \A b \in w : f[i] < base + b
  /\ \A i, j \in 1 .. Len(f) : i < j /\ f[j] # SIZE_MAX => f[i] < f[j]

\* SIZE_MAX comes last, when nothing is left.
EndExact(f, k) ==
  \A i \in 1 .. Len(f) : f[i] = SIZE_MAX => i = Len(f) /\ k.word = {} /\ k.next >= k.end

\* The bytes that were not read yet are whole words.
BytesExact(v, k) ==
  /\ k = [word |-> k.word, xor |-> k.xor, base |-> k.base, next |-> k.next, end |-> k.end]
  /\ k.next \in Nat /\ k.end \in 0 .. MaxBytes
  /\ \E n \in Nat : k.end = k.next + n * WordBytes
  /\ k.next < k.end => k.xor = IF v THEN {} ELSE AllOnes

Iterating(P, v, k, f) ==
  /\ BytesExact(v, k)
  /\ WordExact(P, v, k.word, k.base, k.next)
  /\ FoundExact(P, v, f, k.word, k.base, k.next)
  /\ EndExact(f, k)

BitsInv ==
  /\ Ones(data, ones) /\ wanted \in BOOLEAN
  /\ it = NoIterator => found = <<>>
  /\ it # NoIterator => Iterating(ones, wanted, it, found)

\* The least bit of a word.
LEMMA FirstBit ==
  ASSUME NEW word, word \subseteq AllOnes, word # {}
  PROVE  bit_ctz(word) \in word /\ bit_ctz(word) \in Nat /\ \A b \in word : bit_ctz(word) <= b
<1>1. word \subseteq Nat
  BY DEF AllOnes
<1>2. \E x \in word : \A y \in word : x <= y
  BY <1>1, LeastElement
<1>3. bit_ctz(word) = CHOOSE x \in word : \A y \in word : x <= y
  BY DEF bit_ctz, Min
<1> QED
  BY <1>1, <1>2, <1>3

\* An empty memory without an iterator.
LEMMA BitsInitInv ==
  ASSUME BitsInit
  PROVE  BitsInv
<1>1. data \in Memories
  <2>1. data = [i \in 1 .. MaxBytes |-> {}]
    BY DEF BitsInit
  <2> QED
    BY <2>1 DEF Memories
<1>2. \A pos \in Positions : ~bit_test(data, pos)
  <2> SUFFICES ASSUME NEW pos \in Positions PROVE ~bit_test(data, pos)
    OBVIOUS
  <2>1. data[pos \div CHAR_BIT + 1] = {}
    BY Place DEF BitsInit
  <2> QED
    BY <2>1 DEF bit_test
<1>3. Ones(data, ones)
  BY <1>1, <1>2 DEF Ones, BitsInit
<1> QED
  BY <1>3 DEF BitsInv, BitsInit

\* The bits of the bytes that were read, n before from and m more, in the word that shows
\* the wanted ones.
LEMMA WordRead ==
  ASSUME Ones(data, ones), NEW v \in BOOLEAN, NEW from \in Nat, NEW n \in 1 .. WordBytes,
         from + n <= MaxBytes,
         NEW xor, xor = IF v THEN {} ELSE AllOnes,
         NEW word, word = Toggled(Loaded(from, n) \cup {b \in xor : b >= n * CHAR_BIT}, xor)
  PROVE  /\ WordExact(ones, v, word, from * CHAR_BIT, from + n)
         /\ from * CHAR_BIT \in Nat /\ (from + n) * CHAR_BIT = from * CHAR_BIT + n * CHAR_BIT
         /\ n * CHAR_BIT \in Nat
         /\ \A pos \in Nat : from * CHAR_BIT <= pos /\ pos < (from + n) * CHAR_BIT /\ Wanted(ones, v, pos)
              => pos - from * CHAR_BIT \in word
<1>0. CHAR_BIT \in Nat \ {0} /\ WordBytes \in Nat \ {0} /\ MaxBytes \in Nat /\ n \in Nat
  BY Sizes
<1>1. /\ Loaded(from, n) = {b \in 0 .. n * CHAR_BIT - 1 : from * CHAR_BIT + b \in ones}
      /\ n * CHAR_BIT \in Nat /\ from * CHAR_BIT \in Nat
  BY <1>0, LoadHolds
<1>2. PICK base \in Nat, size \in Nat : base = from * CHAR_BIT /\ size = n * CHAR_BIT
  BY <1>1
<1>3. PICK all \in Nat : all = CHAR_BIT * WordBytes /\ AllOnes = 0 .. all - 1 /\ size <= all
  <2>1. CHAR_BIT * n <= CHAR_BIT * WordBytes /\ CHAR_BIT * n = n * CHAR_BIT
    BY <1>0, Multiples
  <2>2. CHAR_BIT * WordBytes \in Nat
    BY Sizes
  <2> QED
    BY <1>2, <2>1, <2>2 DEF AllOnes
<1>4. (from + n) * CHAR_BIT = base + size
  <2>1. CHAR_BIT * (from + n) = CHAR_BIT * from + CHAR_BIT * n /\ CHAR_BIT * from = from * CHAR_BIT
    BY <1>0, Multiples
  <2>2. CHAR_BIT * n = n * CHAR_BIT /\ CHAR_BIT * (from + n) = (from + n) * CHAR_BIT
    BY <1>0, Multiples
  <2> QED
    BY <1>2, <2>1, <2>2
<1>5. \A b \in Int : b \in word <=> b \in 0 .. size - 1 /\ (base + b \in ones) = v
  <2>1. Loaded(from, n) = {b \in 0 .. size - 1 : base + b \in ones}
    BY <1>1, <1>2
  <2>2. CASE v
    <3>1. word = Loaded(from, n)
      BY <2>2 DEF Toggled
    <3> QED
      BY <2>1, <2>2, <3>1
  <2>3. CASE ~v
    <3>1. word = Toggled(Loaded(from, n) \cup {b \in AllOnes : b >= size}, AllOnes)
      BY <1>2, <2>3
    <3>2. \A b \in Int : b \in Loaded(from, n) => b \in AllOnes
      BY <1>3, <2>1
    <3>3. \A b \in Int : b \in word <=> b \in AllOnes /\ b \notin Loaded(from, n) /\ ~(b >= size)
      BY <2>1, <1>3, <3>1, <3>2 DEF Toggled
    <3>4. \A b \in Int : b \in word <=> b \in 0 .. size - 1 /\ b \notin Loaded(from, n)
      BY <1>3, <3>3
    <3> QED
      BY <2>1, <2>3, <3>4
  <2> QED
    BY <2>2, <2>3
<1>6. word \subseteq AllOnes
  BY <1>1, <1>2, <1>3 DEF Toggled
<1>7. WordExact(ones, v, word, base, from + n)
  <2>1. \A b \in word : b \in Int
    BY <1>6 DEF AllOnes
  <2>2. \A b \in word : base + b < base + size /\ Wanted(ones, v, base + b)
    BY <1>5, <2>1 DEF Wanted
  <2> QED
    BY <1>4, <1>6, <2>2 DEF WordExact
<1>8. ASSUME NEW pos \in Nat, base <= pos, pos < base + size, Wanted(ones, v, pos)
      PROVE  pos - base \in word
  <2>1. pos - base \in 0 .. size - 1 /\ base + (pos - base) = pos
    BY <1>8
  <2> QED
    BY <1>5, <1>8, <2>1 DEF Wanted
<1> QED
  BY <1>1, <1>2, <1>4, <1>7, <1>8

\* A new iterator reads the left over bytes, or a whole word.
LEMMA InitStep ==
  ASSUME BitsInv, NEW size \in 0 .. MaxBytes, NEW set \in BOOLEAN, BitIteratorInit(size, set)
  PROVE  BitsInv'
<1>0. CHAR_BIT \in Nat \ {0} /\ WordBytes \in Nat \ {0} /\ MaxBytes \in Nat
  BY Sizes
<1>1. /\ it = NoIterator /\ it' = bit_iterator_init(size, set) /\ wanted' = set
      /\ data' = data /\ ones' = ones /\ found' = found /\ found = <<>>
      /\ Ones(data, ones) /\ Ones(data, ones)'
  BY DEF BitIteratorInit, BitsInv
<1>2. CASE size = 0
  <2>1. it' = [word |-> {}, xor |-> {}, base |-> 0, next |-> 0, end |-> 0]
    BY <1>1, <1>2 DEF bit_iterator_init, NoIterator
  <2>2. BytesExact(set, it')
    <3>1. 0 = 0 + 0 * WordBytes /\ 0 \in 0 .. MaxBytes /\ 0 \in Nat
      BY <1>0
    <3>2. PICK k : k = it'
      OBVIOUS
    <3>3. /\ k = [word |-> k.word, xor |-> k.xor, base |-> k.base, next |-> k.next, end |-> k.end]
          /\ k.next = 0 /\ k.end = 0
      BY <2>1, <3>2
    <3>4. BytesExact(set, k)
      BY <3>1, <3>3 DEF BytesExact
    <3> QED
      BY <3>2, <3>4
  <2>3. WordExact(ones, set, {}, 0, 0)
    BY DEF WordExact
  <2>4. 0 * CHAR_BIT = 0
    BY <1>0
  <2>5. FoundExact(ones, set, <<>>, {}, 0, 0)
    BY <2>4 DEF FoundExact
  <2>6. EndExact(<<>>, it')
    BY DEF EndExact
  <2> QED
    <3>1. Iterating(ones, set, it', <<>>)
      BY <2>1, <2>2, <2>3, <2>5, <2>6 DEF Iterating
    <3> QED
      BY <1>1, <2>1, <3>1 DEF BitsInv
<1>3. CASE size # 0
  <2>1. PICK n \in 1 .. WordBytes : /\ n = IF size % WordBytes = 0 THEN WordBytes ELSE size % WordBytes
                                    /\ n <= size /\ \E k \in Nat : size = n + k * WordBytes
    <3>1. /\ size = WordBytes * (size \div WordBytes) + (size % WordBytes)
          /\ size % WordBytes \in 0 .. WordBytes - 1 /\ size \div WordBytes \in Nat
      <4>1. size \in Nat
        BY <1>0
      <4> QED
        BY <1>0, <4>1, DivMod
    <3>2. PICK q \in Nat, r \in 0 .. WordBytes - 1 : /\ q = size \div WordBytes /\ r = size % WordBytes
                                                     /\ size = WordBytes * q + r
      BY <3>1
    <3>3. WordBytes * q \in Nat /\ WordBytes * q = q * WordBytes
      BY <1>0, <3>2
    <3>4. CASE r = 0
      <4>1. q # 0
        <5>1. WordBytes * 0 = 0
          BY <1>0
        <5> QED
          BY <1>3, <3>2, <3>4, <5>1
      <4>2. q - 1 \in Nat
        BY <4>1
      <4>3. (q - 1) * WordBytes = q * WordBytes - WordBytes /\ (q - 1) * WordBytes >= 0
        <5>1. WordBytes * (q - 1) = WordBytes * q - WordBytes * 1 /\ WordBytes * (q - 1) = (q - 1) * WordBytes
          BY <1>0, Multiples
        <5>2. WordBytes * 1 = WordBytes
          BY <1>0
        <5>3. WordBytes * (q - 1) >= 0
          BY <1>0, <4>2, Multiples
        <5> QED
          BY <3>3, <5>1, <5>2, <5>3
      <4>4. size = WordBytes + (q - 1) * WordBytes
        BY <1>0, <3>2, <3>3, <3>4, <4>3
      <4>5. WordBytes \in 1 .. WordBytes /\ WordBytes <= size
        BY <1>0, <3>2, <3>3, <3>4, <4>3
      <4> QED
        BY <3>2, <3>4, <4>2, <4>4, <4>5
    <3>5. CASE r # 0
      <4>1. size = r + q * WordBytes /\ r <= size /\ r \in 1 .. WordBytes
        BY <1>0, <3>2, <3>3, <3>5
      <4> QED
        BY <3>2, <3>5, <4>1
    <3> QED
      BY <3>4, <3>5
  <2>2. PICK xor : xor = IF set THEN {} ELSE AllOnes
    OBVIOUS
  <2>3. PICK word : word = Toggled(Loaded(0, n) \cup {b \in xor : b >= n * CHAR_BIT}, xor)
    OBVIOUS
  <2>4. it' = [word |-> word, xor |-> xor, base |-> 0, next |-> n, end |-> size]
    BY <1>1, <1>3, <2>1, <2>2, <2>3 DEF bit_iterator_init
  <2>5. 0 * CHAR_BIT = 0 /\ 0 + n = n /\ n <= MaxBytes
    BY <1>0, <2>1
  <2>6. BytesExact(set, it')
    <3>1. PICK k : k = it'
      OBVIOUS
    <3>2. /\ k = [word |-> k.word, xor |-> k.xor, base |-> k.base, next |-> k.next, end |-> k.end]
          /\ k.next = n /\ k.end = size /\ k.xor = xor
      BY <2>4, <3>1
    <3>3. BytesExact(set, k)
      BY <2>1, <2>2, <3>2 DEF BytesExact
    <3> QED
      BY <3>1, <3>3
  <2>8. /\ WordExact(ones, set, word, 0, n)
        /\ \A pos \in Nat : pos < n * CHAR_BIT /\ Wanted(ones, set, pos) => pos - 0 \in word
        /\ n * CHAR_BIT \in Nat
    <3>1. Ones(data, ones) /\ 0 \in Nat /\ 0 + n <= MaxBytes
      BY <1>1, <2>5
    <3>4. /\ WordExact(ones, set, word, 0 * CHAR_BIT, 0 + n)
          /\ n * CHAR_BIT \in Nat
          /\ \A pos \in Nat : 0 * CHAR_BIT <= pos /\ pos < (0 + n) * CHAR_BIT /\ Wanted(ones, set, pos)
               => pos - 0 * CHAR_BIT \in word
      BY <2>2, <2>3, <3>1, WordRead
    <3> QED
      BY <2>5, <3>4
  <2>9. FoundExact(ones, set, <<>>, word, 0, n)
    BY <2>8 DEF FoundExact
  <2>10. EndExact(<<>>, it')
    BY DEF EndExact
  <2> QED
    <3>1. Iterating(ones, set, it', <<>>)
      BY <2>4, <2>6, <2>8, <2>9, <2>10 DEF Iterating
    <3>2. it'.end = size /\ NoIterator.end = -1
      BY <2>4 DEF NoIterator
    <3> QED
      BY <1>1, <1>0, <3>1, <3>2 DEF BitsInv
<1> QED
  BY <1>2, <1>3

\* The next word is read when the last one is used up.
LEMMA NextWordStep ==
  ASSUME BitsInv, NextWord
  PROVE  BitsInv'
<1>0. CHAR_BIT \in Nat \ {0} /\ WordBytes \in Nat \ {0} /\ MaxBytes \in Nat
  BY Sizes
<1>1. /\ it # NoIterator /\ it.word = {} /\ it.next < it.end
      /\ it' = [it EXCEPT !.word = Toggled(Loaded(it.next, WordBytes), it.xor),
                          !.base = it.next * CHAR_BIT, !.next = @ + WordBytes]
      /\ data' = data /\ ones' = ones /\ wanted' = wanted /\ found' = found
      /\ Ones(data, ones) /\ wanted \in BOOLEAN /\ Iterating(ones, wanted, it, found)
  BY DEF NextWord, BitsInv
<1>2. PICK k, k2 : k = it /\ k2 = it'
  OBVIOUS
<1>3. /\ BytesExact(wanted, k) /\ FoundExact(ones, wanted, found, {}, k.base, k.next)
      /\ EndExact(found, k)
  BY <1>1, <1>2 DEF Iterating
<1>4. /\ k = [word |-> k.word, xor |-> k.xor, base |-> k.base, next |-> k.next, end |-> k.end]
      /\ k.next \in Nat /\ k.end \in 0 .. MaxBytes /\ k.next < k.end
      /\ k.xor = IF wanted THEN {} ELSE AllOnes
  BY <1>1, <1>2, <1>3 DEF BytesExact
<1>5. PICK n \in Nat : k.end = k.next + n * WordBytes
  BY <1>3 DEF BytesExact
<1>6. n - 1 \in Nat /\ k.end = (k.next + WordBytes) + (n - 1) * WordBytes
  <2>1. n # 0
    <3>1. 0 * WordBytes = 0
      BY <1>0
    <3> QED
      BY <1>4, <1>5, <3>1
  <2>2. (n - 1) * WordBytes = n * WordBytes - WordBytes
    <3>1. WordBytes * (n - 1) = WordBytes * n - WordBytes * 1 /\ WordBytes * (n - 1) = (n - 1) * WordBytes
      BY <1>0, Multiples
    <3>2. WordBytes * 1 = WordBytes /\ WordBytes * n = n * WordBytes
      BY <1>0
    <3> QED
      BY <3>1, <3>2
  <2>3. n * WordBytes \in Int
    BY <1>0
  <2> QED
    BY <1>0, <1>4, <1>5, <2>1, <2>2, <2>3
<1>7. k.next + WordBytes <= MaxBytes
  <2>1. (n - 1) * WordBytes \in Int /\ (n - 1) * WordBytes >= 0
    <3>1. WordBytes * (n - 1) >= 0 /\ WordBytes * (n - 1) \in Int /\ WordBytes * (n - 1) = (n - 1) * WordBytes
      BY <1>0, <1>6, Multiples
    <3> QED
      BY <3>1
  <2> QED
    BY <1>0, <1>4, <1>6, <2>1
<1>8. PICK word : word = Toggled(Loaded(k.next, WordBytes), k.xor)
  OBVIOUS
<1>9. k2 = [word |-> word, xor |-> k.xor, base |-> k.next * CHAR_BIT, next |-> k.next + WordBytes, end |-> k.end]
  BY <1>1, <1>2, <1>4, <1>8
<1>10. word = Toggled(Loaded(k.next, WordBytes) \cup {b \in k.xor : b >= WordBytes * CHAR_BIT}, k.xor)
  <2>1. {b \in k.xor : b >= WordBytes * CHAR_BIT} = {}
    <3>1. WordBytes * CHAR_BIT = CHAR_BIT * WordBytes /\ CHAR_BIT * WordBytes \in Nat
      BY Sizes
    <3> QED
      BY <1>4, <3>1 DEF AllOnes
  <2> QED
    BY <1>8, <2>1
<1>11. /\ WordExact(ones, wanted, word, k.next * CHAR_BIT, k.next + WordBytes)
       /\ k.next * CHAR_BIT \in Nat
       /\ (k.next + WordBytes) * CHAR_BIT = k.next * CHAR_BIT + WordBytes * CHAR_BIT
       /\ WordBytes * CHAR_BIT \in Nat
       /\ \A pos \in Nat : /\ k.next * CHAR_BIT <= pos /\ pos < (k.next + WordBytes) * CHAR_BIT
                           /\ Wanted(ones, wanted, pos)
            => pos - k.next * CHAR_BIT \in word
  <2>1. WordBytes \in 1 .. WordBytes
    BY <1>0
  <2> QED
    BY <1>1, <1>4, <1>7, <1>10, <2>1, WordRead
<1>12. PICK base \in Nat, top \in Nat : /\ base = k.next * CHAR_BIT /\ top = (k.next + WordBytes) * CHAR_BIT
                                        /\ base <= top
  BY <1>11
<1>13. /\ found \in Seq(Int)
       /\ \A pos \in Nat : pos < base /\ Wanted(ones, wanted, pos) => pos \in ToSet(found)
       /\ \A i \in 1 .. Len(found) : found[i] # SIZE_MAX =>
            found[i] \in Nat /\ found[i] < base /\ Wanted(ones, wanted, found[i])
       /\ \A i, j \in 1 .. Len(found) : i < j /\ found[j] # SIZE_MAX => found[i] < found[j]
  BY <1>3, <1>12 DEF FoundExact
<1>14. \A b \in word : b \in Nat
  BY <1>11 DEF WordExact, AllOnes
<1>15. FoundExact(ones, wanted, found, word, base, k.next + WordBytes)
  <2>1. ASSUME NEW pos \in Nat, pos < top, Wanted(ones, wanted, pos)
        PROVE  pos \in ToSet(found) \/ pos - base \in word
    <3>1. CASE pos < base
      BY <1>13, <2>1, <3>1
    <3>2. CASE base <= pos
      BY <1>11, <1>12, <2>1, <3>2
    <3> QED
      BY <3>1, <3>2
  <2>2. ASSUME NEW i \in 1 .. Len(found), found[i] # SIZE_MAX
        PROVE  /\ found[i] \in Nat /\ found[i] < top /\ Wanted(ones, wanted, found[i])
               /\ \A b \in word : found[i] < base + b
    <3>1. found[i] \in Nat /\ found[i] < base /\ Wanted(ones, wanted, found[i])
      BY <1>13, <2>2
    <3> QED
      BY <1>12, <1>14, <3>1
  <2> QED
    BY <1>12, <1>13, <2>1, <2>2 DEF FoundExact
<1>16. BytesExact(wanted, k2)
  <2>1. /\ k2 = [word |-> k2.word, xor |-> k2.xor, base |-> k2.base, next |-> k2.next, end |-> k2.end]
        /\ k2.next = k.next + WordBytes /\ k2.end = k.end /\ k2.xor = k.xor
    BY <1>9
  <2>2. k2.next \in Nat
    BY <1>0, <1>4, <2>1
  <2> QED
    BY <1>4, <1>6, <2>1, <2>2 DEF BytesExact
<1>17. EndExact(found, k2)
  BY <1>3, <1>4 DEF EndExact
<1>18. Iterating(ones, wanted, k2, found)
  BY <1>9, <1>11, <1>12, <1>15, <1>16, <1>17 DEF Iterating
<1>19. k2 # NoIterator
  BY <1>0, <1>4, <1>9 DEF NoIterator
<1> QED
  BY <1>1, <1>2, <1>18, <1>19 DEF BitsInv

\* The least bit of the word is found.
LEMMA NextBitStep ==
  ASSUME BitsInv, NextBit
  PROVE  BitsInv'
<1>1. /\ it.word # {} /\ found' = Append(found, it.base + bit_ctz(it.word))
      /\ it' = [it EXCEPT !.word = it.word \ {bit_ctz(it.word)}]
      /\ data' = data /\ ones' = ones /\ wanted' = wanted
      /\ Ones(data, ones) /\ wanted \in BOOLEAN
  BY DEF NextBit, BitsInv
<1>2. it # NoIterator
  BY <1>1 DEF NoIterator
<1>3. Iterating(ones, wanted, it, found)
  BY <1>2 DEF BitsInv
<1>4. PICK k, k2, f2 : k = it /\ k2 = it' /\ f2 = found'
  OBVIOUS
<1>5. PICK a : a = bit_ctz(k.word)
  OBVIOUS
<1>6. /\ BytesExact(wanted, k) /\ WordExact(ones, wanted, k.word, k.base, k.next)
      /\ FoundExact(ones, wanted, found, k.word, k.base, k.next) /\ EndExact(found, k)
  BY <1>3, <1>4 DEF Iterating
<1>7. /\ k = [word |-> k.word, xor |-> k.xor, base |-> k.base, next |-> k.next, end |-> k.end]
      /\ k.next \in Nat /\ k.end \in 0 .. MaxBytes
  BY <1>6 DEF BytesExact
<1>8. PICK w : w = k.word \ {a}
  OBVIOUS
<1>9. k2 = [word |-> w, xor |-> k.xor, base |-> k.base, next |-> k.next, end |-> k.end]
  BY <1>1, <1>4, <1>5, <1>7, <1>8
<1>10. /\ k.word \subseteq AllOnes /\ k.base \in Nat
       /\ \A b \in k.word : k.base + b < k.next * CHAR_BIT /\ Wanted(ones, wanted, k.base + b)
  BY <1>6 DEF WordExact
<1>11. a \in k.word /\ a \in Nat /\ \A b \in k.word : a <= b
  BY <1>1, <1>4, <1>5, <1>10, FirstBit
<1>12. PICK pos1 \in Nat : pos1 = k.base + a
  BY <1>10, <1>11
<1>13. /\ found \in Seq(Int) /\ f2 = Append(found, pos1)
       /\ Len(f2) = Len(found) + 1 /\ Len(found) \in Nat
       /\ f2[Len(found) + 1] = pos1 /\ \A i \in 1 .. Len(found) : f2[i] = found[i]
  BY <1>1, <1>4, <1>5, <1>6, <1>12 DEF FoundExact
<1>14. \A i \in 1 .. Len(found) : found[i] # SIZE_MAX
  <2>1. k.word # {}
    BY <1>11
  <2> QED
    BY <1>6, <2>1 DEF EndExact
<1>15. ToSet(f2) = ToSet(found) \cup {pos1}
  <2>1. DOMAIN f2 = 1 .. Len(found) + 1 /\ DOMAIN found = 1 .. Len(found)
    BY <1>13
  <2>2. \A i \in 1 .. Len(found) + 1 : i \in 1 .. Len(found) \/ i = Len(found) + 1
    BY <1>13
  <2>3. Len(found) + 1 \in 1 .. Len(found) + 1 /\ \A i \in 1 .. Len(found) : i \in 1 .. Len(found) + 1
    BY <1>13
  <2> QED
    BY <1>13, <2>1, <2>2, <2>3 DEF ToSet
<1>16. /\ \A pos \in Nat : pos < k.next * CHAR_BIT /\ Wanted(ones, wanted, pos)
            => pos \in ToSet(found) \/ pos - k.base \in k.word
       /\ \A i \in 1 .. Len(found) :
            /\ found[i] \in Nat /\ found[i] < k.next * CHAR_BIT /\ Wanted(ones, wanted, found[i])
            /\ \A b \in k.word : found[i] < k.base + b
       /\ \A i, j \in 1 .. Len(found) : i < j => found[i] < found[j]
  BY <1>6, <1>14 DEF FoundExact
<1>17. ASSUME NEW pos \in Nat, pos < k.next * CHAR_BIT, Wanted(ones, wanted, pos)
       PROVE  pos \in ToSet(f2) \/ pos - k.base \in w
  <2>1. pos - k.base = a => pos = pos1
    BY <1>10, <1>11, <1>12
  <2> QED
    BY <1>8, <1>15, <1>16, <1>17, <2>1
<1>18. \A b \in w : b \in Nat /\ b \in k.word /\ a < b
  BY <1>8, <1>10, <1>11 DEF AllOnes
<1>19. ASSUME NEW i \in 1 .. Len(f2)
       PROVE  /\ f2[i] \in Nat /\ f2[i] < k.next * CHAR_BIT /\ Wanted(ones, wanted, f2[i])
              /\ \A b \in w : f2[i] < k.base + b
  <2>1. CASE i \in 1 .. Len(found)
    BY <1>13, <1>16, <1>18, <2>1
  <2>2. CASE i = Len(found) + 1
    <3>1. f2[i] = pos1 /\ pos1 < k.next * CHAR_BIT /\ Wanted(ones, wanted, pos1)
      BY <1>10, <1>11, <1>12, <1>13, <2>2
    <3>2. \A b \in w : pos1 < k.base + b
      BY <1>10, <1>11, <1>12, <1>18
    <3> QED
      BY <3>1, <3>2
  <2> QED
    BY <1>13, <2>1, <2>2
<1>20. ASSUME NEW i \in 1 .. Len(f2), NEW j \in 1 .. Len(f2), i < j
       PROVE  f2[i] < f2[j]
  <2>1. i \in 1 .. Len(found)
    BY <1>13, <1>20
  <2>2. CASE j \in 1 .. Len(found)
    BY <1>13, <1>16, <1>20, <2>1, <2>2
  <2>3. CASE j = Len(found) + 1
    BY <1>11, <1>12, <1>13, <1>16, <2>1, <2>3
  <2> QED
    BY <1>13, <2>2, <2>3
<1>21. f2 \in Seq(Int)
  BY <1>13
<1>22. FoundExact(ones, wanted, f2, w, k.base, k.next)
  BY <1>17, <1>19, <1>20, <1>21 DEF FoundExact
<1>23. WordExact(ones, wanted, w, k.base, k.next)
  BY <1>7, <1>8, <1>10 DEF WordExact
<1>24. BytesExact(wanted, k2)
  <2>1. /\ k2 = [word |-> k2.word, xor |-> k2.xor, base |-> k2.base, next |-> k2.next, end |-> k2.end]
        /\ k2.next = k.next /\ k2.end = k.end /\ k2.xor = k.xor
    BY <1>9
  <2> QED
    BY <1>6, <2>1 DEF BytesExact
<1>25. EndExact(f2, k2)
  <2>1. \A i \in 1 .. Len(f2) : f2[i] # SIZE_MAX
    BY <1>19 DEF SIZE_MAX
  <2> QED
    BY <2>1 DEF EndExact
<1>26. Iterating(ones, wanted, k2, f2)
  BY <1>9, <1>22, <1>23, <1>24, <1>25 DEF Iterating
<1>27. k2 # NoIterator
  BY <1>7, <1>9, Sizes DEF NoIterator
<1> QED
  BY <1>1, <1>4, <1>26, <1>27 DEF BitsInv

\* When nothing is left, the iterator says so once.
LEMMA NoMoreBitsStep ==
  ASSUME BitsInv, NoMoreBits
  PROVE  BitsInv'
<1>1. /\ it # NoIterator /\ it.word = {} /\ it.next >= it.end /\ SIZE_MAX \notin ToSet(found)
      /\ found' = Append(found, SIZE_MAX)
      /\ it' = it /\ data' = data /\ ones' = ones /\ wanted' = wanted
      /\ Ones(data, ones) /\ wanted \in BOOLEAN /\ Iterating(ones, wanted, it, found)
  BY DEF NoMoreBits, BitsInv
<1>2. PICK f2 : f2 = found'
  OBVIOUS
<1>3. /\ BytesExact(wanted, it) /\ WordExact(ones, wanted, it.word, it.base, it.next)
      /\ FoundExact(ones, wanted, found, it.word, it.base, it.next)
  BY <1>1 DEF Iterating
<1>4. found \in Seq(Int) /\ SIZE_MAX \in Int
  BY <1>3 DEF FoundExact, SIZE_MAX
<1>5. /\ f2 \in Seq(Int) /\ Len(f2) = Len(found) + 1 /\ Len(found) \in Nat
      /\ f2[Len(found) + 1] = SIZE_MAX /\ \A i \in 1 .. Len(found) : f2[i] = found[i]
  BY <1>1, <1>2, <1>4
<1>6. \A i \in 1 .. Len(f2) : i \in 1 .. Len(found) \/ i = Len(f2)
  BY <1>5
<1>7. \A i \in 1 .. Len(found) : found[i] # SIZE_MAX
  BY <1>1, <1>4 DEF ToSet
<1>8. ToSet(found) \subseteq ToSet(f2)
  <2>1. DOMAIN f2 = 1 .. Len(found) + 1 /\ DOMAIN found = 1 .. Len(found)
    BY <1>4, <1>5
  <2>2. \A i \in 1 .. Len(found) : i \in 1 .. Len(found) + 1 /\ f2[i] = found[i]
    BY <1>5
  <2> QED
    BY <2>1, <2>2 DEF ToSet
<1>9. FoundExact(ones, wanted, f2, it.word, it.base, it.next)
  <2>1. \A i \in 1 .. Len(f2) : f2[i] # SIZE_MAX => i \in 1 .. Len(found) /\ f2[i] = found[i]
    BY <1>5, <1>6
  <2>2. \A i \in 1 .. Len(f2), j \in 1 .. Len(f2) : i < j /\ f2[j] # SIZE_MAX =>
          /\ i \in 1 .. Len(found) /\ j \in 1 .. Len(found) /\ f2[i] = found[i] /\ f2[j] = found[j]
    BY <1>5, <1>6
  <2>3. /\ \A pos \in Nat : pos < it.next * CHAR_BIT /\ Wanted(ones, wanted, pos)
             => pos \in ToSet(found) \/ pos - it.base \in it.word
        /\ \A i \in 1 .. Len(found) : found[i] # SIZE_MAX =>
             /\ found[i] \in Nat /\ found[i] < it.next * CHAR_BIT /\ Wanted(ones, wanted, found[i])
             /\ \A b \in it.word : found[i] < it.base + b
        /\ \A i, j \in 1 .. Len(found) : i < j /\ found[j] # SIZE_MAX => found[i] < found[j]
    BY <1>3 DEF FoundExact
  <2>4. \A i, j \in 1 .. Len(f2) : i < j /\ f2[j] # SIZE_MAX => f2[i] < f2[j]
    BY <2>2, <2>3
  <2>5. \A pos \in Nat : pos < it.next * CHAR_BIT /\ Wanted(ones, wanted, pos)
          => pos \in ToSet(f2) \/ pos - it.base \in it.word
    BY <1>8, <2>3
  <2>6. \A i \in 1 .. Len(f2) : f2[i] # SIZE_MAX =>
          /\ f2[i] \in Nat /\ f2[i] < it.next * CHAR_BIT /\ Wanted(ones, wanted, f2[i])
          /\ \A b \in it.word : f2[i] < it.base + b
    BY <2>1, <2>3
  <2> QED
    BY <1>5, <2>4, <2>5, <2>6 DEF FoundExact
<1>10. EndExact(f2, it)
  BY <1>1, <1>5, <1>6, <1>7 DEF EndExact
<1>11. Iterating(ones, wanted, it, f2)
  BY <1>3, <1>9, <1>10 DEF Iterating
<1> QED
  BY <1>1, <1>2, <1>11 DEF BitsInv

\* Every step keeps the invariant.
LEMMA BitsStepInv == BitsInv /\ [BitsNext]_bitVars => BitsInv'
<1> SUFFICES ASSUME BitsInv, [BitsNext]_bitVars PROVE BitsInv'
  OBVIOUS
<1>1. ASSUME NEW pos \in 0 .. CHAR_BIT * MaxBytes - 1, BitSet(pos) \/ BitClear(pos)
      PROVE  BitsInv'
  <2>1. /\ it = NoIterator /\ UNCHANGED <<it, wanted, found>>
        /\ \/ data' = bit_set(data, pos) /\ ones' = ones \cup {pos}
           \/ data' = bit_clear(data, pos) /\ ones' = ones \ {pos}
    BY <1>1 DEF BitSet, BitClear
  <2>2. pos \in Positions /\ Ones(data, ones)
    BY DEF Positions, BitsInv
  <2>3. Ones(data', ones')
    <3>1. Ones(bit_set(data, pos), ones \cup {pos}) /\ Ones(bit_clear(data, pos), ones \ {pos})
      BY <2>2, SetHolds
    <3> QED
      BY <2>1, <3>1
  <2> QED
    BY <2>1, <2>3 DEF BitsInv
<1>2. ASSUME NEW from \in 0 .. MaxBytes - WordBytes,
             \/ SwapBytes(from)
             \/ \E r \in 1 .. WordBits - 1 : RotateLeft(from, r) \/ RotateRight(from, r)
      PROVE  BitsInv'
  <2>1. Ones(data, ones)
    BY DEF BitsInv
  <2>2. Ones(data', ones') /\ it = NoIterator /\ UNCHANGED <<it, wanted, found>>
    BY <1>2, <2>1, MemorySteps
  <2> QED
    BY <2>2 DEF BitsInv
<1>3. ASSUME NEW size \in 0 .. MaxBytes, NEW set \in BOOLEAN, BitIteratorInit(size, set)
      PROVE  BitsInv'
  BY <1>3, InitStep
<1>4. CASE NextWord
  BY <1>4, NextWordStep
<1>5. CASE NextBit
  BY <1>5, NextBitStep
<1>6. CASE NoMoreBits
  BY <1>6, NoMoreBitsStep
<1>7. CASE UNCHANGED bitVars
  BY <1>7 DEF bitVars, BitsInv
<1> QED
  BY <1>1, <1>2, <1>3, <1>4, <1>5, <1>6, <1>7 DEF BitsNext

(***************************************************************************)
(* bit_index.  After k rounds x is what the word has from pos on, shifted. *)
(***************************************************************************)
From(word, pos) == {b \in word : b >= pos}

Indexed(word, offset, t, k) ==
  /\ t.prev \in Nat /\ t.x = {b - t.prev : b \in From(word, t.prev)}
  /\ Cardinality(From(word, t.prev)) = Cardinality(word) - k
  /\ t.indexes \in Seq(Int) /\ Len(t.indexes) = k
  /\ \A i \in 1 .. k : /\ t.indexes[i] - offset - 1 \in word
                       /\ t.indexes[i] - offset - 1 < t.prev
  /\ \A i, j \in 1 .. k : i < j => t.indexes[i] < t.indexes[j]
  /\ \A b \in word : b < t.prev => \E i \in 1 .. k : t.indexes[i] = offset + b + 1

\* One round.
Round(offset, t) ==
  LET a == bit_ctz(t.x)
      pos == t.prev + a + 1
  IN  [x |-> {b - a - 1 : b \in t.x \ {a}}, prev |-> pos, indexes |-> Append(t.indexes, offset + pos)]

\* A word has finitely many bits.
LEMMA WordFinite ==
  ASSUME NEW word, word \subseteq AllOnes
  PROVE  IsFiniteSet(word) /\ Cardinality(word) \in Nat /\ word \subseteq Nat
<1>1. CHAR_BIT * WordBytes \in Nat
  BY Sizes
<1>2. IsFiniteSet(AllOnes)
  BY <1>1, FS_Interval DEF AllOnes
<1>3. IsFiniteSet(word)
  BY <1>2, FS_Subset
<1> QED
  BY <1>3, FS_CardinalityType DEF AllOnes

\* A round takes the next bit.
LEMMA RoundIndexes ==
  ASSUME NEW word, word \subseteq AllOnes, NEW offset \in Nat, NEW t, NEW k \in Nat,
         k < Cardinality(word), Indexed(word, offset, t, k)
  PROVE  Indexed(word, offset, Round(offset, t), k + 1)
<1>1. word \subseteq Nat /\ IsFiniteSet(word) /\ Cardinality(word) \in Nat
  BY WordFinite
<1>2. /\ t.prev \in Nat /\ t.x = {b - t.prev : b \in From(word, t.prev)}
      /\ Cardinality(From(word, t.prev)) = Cardinality(word) - k
      /\ t.indexes \in Seq(Int) /\ Len(t.indexes) = k
      /\ \A i \in 1 .. k : /\ t.indexes[i] - offset - 1 \in word
                           /\ t.indexes[i] - offset - 1 < t.prev
      /\ \A i, j \in 1 .. k : i < j => t.indexes[i] < t.indexes[j]
      /\ \A b \in word : b < t.prev => \E i \in 1 .. k : t.indexes[i] = offset + b + 1
  BY DEF Indexed
<1>3. \E p \in Nat, q \in Seq(Int) : p = t.prev /\ q = t.indexes
  BY <1>2
<1>4. PICK p \in Nat, q \in Seq(Int) : p = t.prev /\ q = t.indexes
  BY <1>3
<1>5. PICK x : x = t.x
  OBVIOUS
<1>6. PICK rest : rest = From(word, p)
  OBVIOUS
<1>7. rest \subseteq word /\ IsFiniteSet(rest) /\ \A b \in rest : b \in Nat /\ b >= p
  <2>1. rest \subseteq word /\ \A b \in rest : b >= p
    BY <1>6 DEF From
  <2> QED
    BY <1>1, <2>1, FS_Subset
<1>8. rest # {}
  <2>1. Cardinality(rest) = Cardinality(word) - k
    BY <1>2, <1>4, <1>5, <1>6
  <2>2. Cardinality({}) = 0
    BY FS_EmptySet
  <2>3. Cardinality(rest) # 0
    BY <1>1, <2>1
  <2> QED
    BY <2>2, <2>3
<1>9. x = {b - p : b \in rest}
  BY <1>2, <1>4, <1>5, <1>6
<1>10. PICK a : a = bit_ctz(x)
  OBVIOUS
<1>11. a \in x /\ a \in Nat /\ \A b \in x : a <= b
  <2>1. x # {} /\ x \subseteq Nat
    BY <1>7, <1>8, <1>9
  <2>2. \E y \in x : \A z \in x : y <= z
    BY <2>1, LeastElement
  <2>3. a = CHOOSE y \in x : \A z \in x : y <= z
    BY <1>10 DEF bit_ctz, Min
  <2> QED
    BY <2>1, <2>2, <2>3
<1>12. PICK c \in rest : a = c - p /\ c = p + a /\ \A b \in rest : c <= b
  <2>1. PICK c \in rest : a = c - p
    BY <1>9, <1>11
  <2>2. \A b \in rest : a <= b - p
    BY <1>9, <1>11
  <2> QED
    BY <1>7, <2>1, <2>2
<1>13. PICK pos \in Nat : pos = p + a + 1 /\ pos = c + 1
  BY <1>11, <1>12
<1>14. PICK t2 : t2 = Round(offset, t)
  OBVIOUS
<1>15. t2.x = {b - a - 1 : b \in x \ {a}} /\ t2.prev = pos /\ t2.indexes = Append(q, offset + pos)
  BY <1>4, <1>5, <1>10, <1>13, <1>14 DEF Round
<1>16. From(word, pos) = rest \ {c}
  <2>1. \A b \in word : b >= pos <=> b >= p /\ b # c
    <3> SUFFICES ASSUME NEW b \in word PROVE b >= pos <=> b >= p /\ b # c
      OBVIOUS
    <3>1. b \in Nat /\ c \in Nat /\ c >= p
      BY <1>1, <1>7
    <3>2. b >= p => b \in rest
      BY <1>6 DEF From
    <3> QED
      BY <1>12, <1>13, <3>1, <3>2
  <2> QED
    BY <1>6, <2>1 DEF From
<1>17. t2.x = {b - pos : b \in From(word, pos)}
  <2>1. ASSUME NEW y \in x \ {a} PROVE \E b \in rest \ {c} : y - a - 1 = b - pos
    <3>1. PICK b \in rest : y = b - p
      BY <1>9
    <3>2. b # c /\ y - a - 1 = b - pos
      BY <1>7, <1>11, <1>12, <1>13, <3>1, <2>1
    <3> QED
      BY <3>2
  <2>2. ASSUME NEW b \in rest \ {c} PROVE \E y \in x \ {a} : b - pos = y - a - 1
    <3>1. b - p \in x /\ b - p # a /\ b - pos = (b - p) - a - 1
      BY <1>7, <1>9, <1>11, <1>12, <1>13
    <3> QED
      BY <3>1
  <2> QED
    BY <1>15, <1>16, <2>1, <2>2
<1>18. Cardinality(From(word, pos)) = Cardinality(word) - (k + 1)
  <2>1. Cardinality(rest \ {c}) = Cardinality(rest) - 1
    BY <1>7, FS_RemoveElement
  <2> QED
    BY <1>1, <1>2, <1>4, <1>5, <1>6, <1>16, <2>1
<1>19. PICK q2 : q2 = t2.indexes
  OBVIOUS
<1>20. /\ q2 \in Seq(Int) /\ Len(q2) = k + 1 /\ q2[k + 1] = offset + pos
       /\ \A i \in 1 .. k : q2[i] = q[i] /\ q[i] \in Int
  <2>1. q2 = Append(q, offset + pos) /\ Len(q) = k /\ q \in Seq(Int)
    BY <1>2, <1>15, <1>19, <1>4
  <2>2. PICK o \in Int : o = offset + pos
    BY <1>13
  <2> QED
    BY <2>1, <2>2
<1>21. \A i \in 1 .. k + 1 : i \in 1 .. k \/ i = k + 1
  OBVIOUS
<1>22. ASSUME NEW i \in 1 .. k + 1
       PROVE  q2[i] - offset - 1 \in word /\ q2[i] - offset - 1 < pos
  <2>1. CASE i \in 1 .. k
    <3>1. q2[i] - offset - 1 \in word /\ q2[i] - offset - 1 < p
      BY <1>2, <1>4, <1>5, <1>20, <2>1
    <3>2. p < pos
      BY <1>11, <1>13
    <3>3. q2[i] - offset - 1 \in Int /\ p \in Int
      BY <1>1, <1>20, <1>4, <2>1
    <3> QED
      BY <3>1, <3>2, <3>3
  <2>2. CASE i = k + 1
    <3>1. q2[i] - offset - 1 = c
      BY <1>7, <1>13, <1>20, <2>2
    <3> QED
      BY <1>7, <1>13, <3>1
  <2> QED
    BY <1>21, <2>1, <2>2
<1>23. ASSUME NEW i \in 1 .. k + 1, NEW j \in 1 .. k + 1, i < j
       PROVE  q2[i] < q2[j]
  <2>1. i \in 1 .. k
    BY <1>23
  <2>2. CASE j \in 1 .. k
    BY <1>2, <1>4, <1>5, <1>20, <1>23, <2>1, <2>2
  <2>3. CASE j = k + 1
    <3>1. q[i] \in Int /\ q[i] - offset - 1 < p /\ q2[i] = q[i]
      BY <1>2, <1>4, <1>5, <1>20, <2>1
    <3>2. q2[j] = offset + pos /\ p < pos
      BY <1>11, <1>13, <1>20, <2>3
    <3> QED
      BY <3>1, <3>2
  <2> QED
    BY <1>21, <2>2, <2>3
<1>24. ASSUME NEW b \in word, b < pos
       PROVE  \E i \in 1 .. k + 1 : q2[i] = offset + b + 1
  <2>1. CASE b < p
    <3>1. PICK i \in 1 .. k : q[i] = offset + b + 1
      BY <1>2, <1>4, <1>5, <2>1
    <3>2. i \in 1 .. k + 1 /\ q2[i] = offset + b + 1
      BY <1>20, <3>1
    <3> QED
      BY <3>2
  <2>2. CASE ~(b < p)
    <3>1. b \in rest /\ b \in Nat
      BY <1>1, <1>6, <2>2 DEF From
    <3>2. b = c
      BY <1>7, <1>12, <1>13, <1>24, <3>1
    <3>3. k + 1 \in 1 .. k + 1 /\ q2[k + 1] = offset + b + 1
      BY <1>13, <1>20, <3>1, <3>2
    <3> QED
      BY <3>3
  <2> QED
    BY <2>1, <2>2
<1>25. Indexed(word, offset, t2, k + 1)
  BY <1>15, <1>17, <1>18, <1>19, <1>20, <1>22, <1>23, <1>24 DEF Indexed
<1> QED
  BY <1>14, <1>25

\* What bit_index returns is what the rounds leave, one round for each bit of the word.
Rounds(word, offset, s) ==
  s = [k \in 0 .. Cardinality(word) |->
         IF k = 0 THEN [x |-> word, prev |-> 0, indexes |-> <<>>] ELSE Round(offset, s[k - 1])]

\* The values the rounds go through.
Scans == [x : SUBSET Int, prev : Nat, indexes : Seq(Int)]

\* Before the first round nothing is listed.
LEMMA NoneIndexed ==
  ASSUME NEW word, word \subseteq AllOnes, NEW offset \in Nat,
         NEW t, t = [x |-> word, prev |-> 0, indexes |-> <<>>]
  PROVE  Indexed(word, offset, t, 0) /\ t \in Scans
<1>1. word \subseteq Nat /\ Cardinality(word) \in Nat
  BY WordFinite
<1>2. From(word, 0) = word
  <2>1. \A b \in word : b >= 0
    BY <1>1
  <2> QED
    BY <2>1, Zenon DEF From
<1>3. word = {b - 0 : b \in word}
  <2>1. \A b \in word : b - 0 = b
    BY <1>1
  <2> QED
    BY <2>1
<1>4. t.x = word /\ t.prev = 0 /\ t.indexes = <<>> /\ t.indexes \in Seq(Int) /\ Len(t.indexes) = 0
  OBVIOUS
<1>5. \A b \in word : ~(b < 0)
  BY <1>1
<1>6. \A i \in 1 .. 0 : FALSE
  OBVIOUS
<1>7. Cardinality(From(word, 0)) = Cardinality(word) - 0
  BY <1>1, <1>2
<1>8. Indexed(word, offset, t, 0)
  BY <1>2, <1>3, <1>4, <1>5, <1>6, <1>7 DEF Indexed
<1>9. t \in Scans
  BY <1>1 DEF Scans
<1> QED
  BY <1>8, <1>9

\* A round leaves another of the values.
LEMMA RoundScans ==
  ASSUME NEW word, word \subseteq AllOnes, NEW offset \in Nat, NEW t, NEW k \in Nat,
         k < Cardinality(word), Indexed(word, offset, t, k)
  PROVE  Indexed(word, offset, Round(offset, t), k + 1) /\ Round(offset, t) \in Scans
<1>1. Indexed(word, offset, Round(offset, t), k + 1)
  BY RoundIndexes
<1>2. PICK u : u = Round(offset, t)
  OBVIOUS
<1>3. u = [x |-> u.x, prev |-> u.prev, indexes |-> u.indexes]
  BY <1>2 DEF Round
<1>4. u.prev \in Nat /\ u.indexes \in Seq(Int) /\ u.x = {b - u.prev : b \in From(word, u.prev)}
  BY <1>1, <1>2 DEF Indexed
<1>5. From(word, u.prev) \subseteq Nat
  BY WordFinite DEF From
<1>6. u.x \subseteq Int
  BY <1>4, <1>5
<1>7. u \in Scans
  BY <1>3, <1>4, <1>6 DEF Scans
<1> QED
  BY <1>1, <1>2, <1>7

\* The rounds can be made.
LEMMA RoundsExist ==
  ASSUME NEW word, word \subseteq AllOnes, NEW offset \in Nat
  PROVE  \E s : Rounds(word, offset, s)
<1>1. PICK n \in Nat : n = Cardinality(word)
  BY WordFinite
<1>2. PICK c : c = [x |-> word, prev |-> 0, indexes |-> <<>>]
  OBVIOUS
<1>3. Indexed(word, offset, c, 0) /\ c \in Scans
  BY <1>2, NoneIndexed
<1>4. PICK D : D = [u \in Scans \X (1 .. n) |->
                     IF Round(offset, u[1]) \in Scans THEN Round(offset, u[1]) ELSE u[1]]
  OBVIOUS
<1>5. ASSUME NEW t \in Scans, NEW i \in 1 .. n
      PROVE  /\ D[<<t, i>>] \in Scans
             /\ Round(offset, t) \in Scans => D[<<t, i>>] = Round(offset, t)
  <2>1. <<t, i>> \in Scans \X (1 .. n) /\ <<t, i>>[1] = t
    OBVIOUS
  <2>2. D[<<t, i>>] = IF Round(offset, t) \in Scans THEN Round(offset, t) ELSE t
    BY <1>4, <2>1
  <2> QED
    BY <2>2
<1>6. Stepper(D, n, Scans)
  <2>1. D = [u \in Scans \X (1 .. n) |-> D[u]]
    BY <1>4
  <2>2. \A u \in Scans \X (1 .. n) : D[u] \in Scans
    <3>1. \A u \in Scans \X (1 .. n) : u = <<u[1], u[2]>> /\ u[1] \in Scans /\ u[2] \in 1 .. n
      OBVIOUS
    <3> QED
      BY <1>5, <3>1
  <2> QED
    BY <2>1, <2>2 DEF Stepper
<1>7. PICK f : Iterates(f, n, Scans, c, D)
  BY <1>3, <1>6, Recursion
<1>8. /\ f = [i \in 0 .. n |-> f[i]] /\ f[0] = c
      /\ \A i \in 1 .. n : f[i - 1] \in Scans /\ f[i] = D[<<f[i - 1], i>>]
      /\ \A i \in 0 .. n : i = 0 \/ i \in 1 .. n
  BY <1>7, IteratesSteps
<1>9. ASSUME NEW i \in 1 .. n, Indexed(word, offset, f[i - 1], i - 1)
      PROVE  Indexed(word, offset, f[i], i) /\ f[i] = Round(offset, f[i - 1])
  <2>1. i - 1 \in Nat /\ i - 1 < Cardinality(word) /\ (i - 1) + 1 = i
    BY <1>1
  <2>2. Indexed(word, offset, Round(offset, f[i - 1]), (i - 1) + 1) /\ Round(offset, f[i - 1]) \in Scans
    BY <1>9, <2>1, RoundScans
  <2>3. f[i] = Round(offset, f[i - 1])
    BY <1>5, <1>8, <2>2
  <2> QED
    BY <2>1, <2>2, <2>3
<1>10. PICK T : T = {i \in 0 .. n : Indexed(word, offset, f[i], i)}
  OBVIOUS
<1>11. 0 \in T /\ \A i \in 1 .. n : i - 1 \in T => i \in T
  <2>1. 0 \in T
    BY <1>3, <1>8, <1>10
  <2>2. \A i \in 1 .. n : i \in 0 .. n
    OBVIOUS
  <2> QED
    BY <1>9, <1>10, <2>1, <2>2
<1>12. 0 .. n \subseteq T
  BY <1>11, UpTo
<1>13. \A i \in 0 .. n : f[i] = IF i = 0 THEN c ELSE Round(offset, f[i - 1])
  <2>1. \A i \in 1 .. n : i - 1 \in 0 .. n /\ i # 0
    OBVIOUS
  <2>2. \A i \in 1 .. n : Indexed(word, offset, f[i - 1], i - 1)
    BY <1>10, <1>12, <2>1
  <2> QED
    BY <1>8, <1>9, <2>1, <2>2
<1>14. f = [i \in 0 .. n |-> IF i = 0 THEN c ELSE Round(offset, f[i - 1])]
  BY <1>8, <1>13
<1> QED
  BY <1>1, <1>2, <1>14 DEF Rounds

\* And bit_index makes them.
LEMMA BitIndexRounds ==
  ASSUME NEW word, word \subseteq AllOnes, NEW offset \in Nat
  PROVE  \E s : Rounds(word, offset, s) /\ bit_index(word, offset) = s[Cardinality(word)].indexes
<1> DEFINE s == CHOOSE g : Rounds(word, offset, g)
<1>1. Rounds(word, offset, s)
  BY RoundsExist
<1>2. bit_index(word, offset) = s[Cardinality(word)].indexes
  BY DEF bit_index, bit_count, Rounds, Round
<1> QED
  BY <1>1, <1>2

\* The positions of the bits of a word, in order.
Listing(word, offset, q) ==
  /\ q \in Seq(Int) /\ Len(q) = Cardinality(word)
  /\ \A i \in 1 .. Len(q) : q[i] - offset - 1 \in word
  /\ \A i, j \in 1 .. Len(q) : i < j => q[i] < q[j]
  /\ \A b \in word : \E i \in 1 .. Len(q) : q[i] = offset + b + 1

\* bit_index lists them.
LEMMA BitIndexExact ==
  ASSUME NEW word, word \subseteq AllOnes, NEW offset \in Nat,
         NEW q, q = bit_index(word, offset)
  PROVE  Listing(word, offset, q)
<1>1. PICK n \in Nat : n = Cardinality(word)
  BY WordFinite
<1>2. PICK s : Rounds(word, offset, s) /\ q = s[n].indexes
  BY <1>1, BitIndexRounds
<1>3. PICK c : c = [x |-> word, prev |-> 0, indexes |-> <<>>]
  OBVIOUS
<1>4. s = [i \in 0 .. n |-> IF i = 0 THEN c ELSE Round(offset, s[i - 1])]
  BY <1>1, <1>2, <1>3 DEF Rounds
<1>5. s[0] = c /\ \A i \in 1 .. n : s[i] = Round(offset, s[i - 1]) /\ i \in 0 .. n
  BY <1>4
<1>6. PICK T : T = {i \in 0 .. n : Indexed(word, offset, s[i], i)}
  OBVIOUS
<1>7. 0 \in T
  BY <1>3, <1>5, <1>6, NoneIndexed
<1>8. ASSUME NEW i \in 1 .. n, i - 1 \in T PROVE i \in T
  <2>1. i - 1 \in Nat /\ i - 1 < Cardinality(word) /\ (i - 1) + 1 = i
    BY <1>1
  <2>2. Indexed(word, offset, s[i - 1], i - 1)
    BY <1>6, <1>8
  <2>3. Indexed(word, offset, Round(offset, s[i - 1]), (i - 1) + 1)
    BY <2>1, <2>2, RoundScans
  <2> QED
    BY <1>5, <1>6, <2>1, <2>3
<1>9. n \in T
  <2>1. 0 .. n \subseteq T
    BY <1>7, <1>8, UpTo
  <2> QED
    BY <2>1
<1>10. PICK t : t = s[n]
  OBVIOUS
<1>11. Indexed(word, offset, t, n)
  BY <1>6, <1>9, <1>10
<1>12. /\ t.prev \in Nat /\ Cardinality(From(word, t.prev)) = Cardinality(word) - n
       /\ q \in Seq(Int) /\ Len(q) = n
       /\ \A i \in 1 .. n : q[i] - offset - 1 \in word
       /\ \A i, j \in 1 .. n : i < j => q[i] < q[j]
       /\ \A b \in word : b < t.prev => \E i \in 1 .. n : q[i] = offset + b + 1
  BY <1>2, <1>10, <1>11 DEF Indexed
<1>13. \A b \in word : b < t.prev
  <2>1. Cardinality(From(word, t.prev)) = 0
    BY <1>1, <1>12
  <2>2. From(word, t.prev) \subseteq word
    BY DEF From
  <2>3. IsFiniteSet(From(word, t.prev))
    BY <2>2, WordFinite, FS_Subset
  <2>4. From(word, t.prev) = {}
    BY <2>1, <2>3, FS_EmptySet
  <2>5. \A b \in word : b \in Nat
    BY WordFinite
  <2>6. \A b \in word : ~(b >= t.prev)
    BY <2>4 DEF From
  <2> QED
    BY <1>12, <2>5, <2>6
<1> QED
  BY <1>1, <1>12, <1>13 DEF Listing

\* The words that were not read are whole, so that the last ends where the memory does.
LEMMA EndReached ==
  ASSUME NEW v, NEW k, BytesExact(v, k)
  PROVE  /\ k.next \in Nat /\ k.end \in Nat /\ k.next <= k.end
         /\ k.next >= k.end => k.next = k.end
<1>1. PICK n \in Nat : k.end = k.next + n * WordBytes
  BY DEF BytesExact
<1>2. k.next \in Nat /\ k.end \in 0 .. MaxBytes
  BY DEF BytesExact
<1>3. PICK m \in Nat : m = n * WordBytes
  BY <1>1, Sizes
<1>4. MaxBytes \in Nat
  BY Sizes
<1> QED
  BY <1>1, <1>2, <1>3, <1>4

\* The positions the iterator visits, what it has returned of them, and a list of bit_index
\* counted from 0.
Sought(P, v, k) == {pos \in 0 .. k.end * CHAR_BIT - 1 : Wanted(P, v, pos)}
Returned(f) == IF SIZE_MAX \in ToSet(f) THEN Front(f) ELSE f
Listed(index) == [i \in DOMAIN index |-> index[i] - 1]

\* What was returned is what has the wanted value, as far as the bytes were read.
LEMMA FoundLeads ==
  ASSUME NEW P, NEW v \in BOOLEAN, NEW k, NEW f, Iterating(P, v, k, f),
         NEW all, all = Sought(P, v, k), NEW bits, bits = Returned(f)
  PROVE  /\ Leads(bits, all) /\ (SIZE_MAX \in ToSet(f) => ToSet(bits) = all)
         /\ bits \in Seq(Int) /\ ToSet(bits) = ToSet(f) \ {SIZE_MAX}
<1>1. k.next \in Nat /\ k.end \in Nat /\ k.next <= k.end /\ (k.next >= k.end => k.next = k.end)
  BY EndReached DEF Iterating
<1>2. PICK w, base : w = k.word /\ base = k.base
  OBVIOUS
<1>3. PICK N, E : N = k.next * CHAR_BIT /\ E = k.end * CHAR_BIT
  OBVIOUS
<1>4. N \in Nat /\ E \in Nat /\ N <= E /\ (k.next >= k.end => N = E)
  <2>1. CHAR_BIT \in Nat \ {0}
    BY Sizes
  <2>2. PICK a, b : a = k.next /\ b = k.end
    OBVIOUS
  <2>3. /\ CHAR_BIT * a \in Int /\ CHAR_BIT * a = a * CHAR_BIT /\ (a >= 0 => CHAR_BIT * a >= 0)
        /\ a <= b <=> CHAR_BIT * a <= CHAR_BIT * b
    BY <1>1, <2>1, <2>2, Multiples
  <2>4. CHAR_BIT * b \in Int /\ CHAR_BIT * b = b * CHAR_BIT /\ (b >= 0 => CHAR_BIT * b >= 0)
    BY <1>1, <2>1, <2>2, Multiples
  <2>5. a \in Nat /\ b \in Nat /\ a <= b /\ (a >= b => a = b)
    BY <1>1, <2>2
  <2>6. N = CHAR_BIT * a /\ E = CHAR_BIT * b
    BY <1>3, <2>2, <2>3, <2>4
  <2>7. N \in Nat /\ E \in Nat /\ N <= E
    BY <2>3, <2>4, <2>5, <2>6
  <2>8. a >= b => N = E
    BY <2>5, <2>6
  <2> QED
    BY <2>2, <2>7, <2>8
<1>5. w \subseteq AllOnes /\ base \in Nat /\ \A b \in w : b \in Nat /\ base + b < N
  BY <1>2, <1>3 DEF Iterating, WordExact, AllOnes
<1>6. /\ f \in Seq(Int)
      /\ \A pos \in Nat : pos < N /\ Wanted(P, v, pos) => pos \in ToSet(f) \/ pos - base \in w
      /\ \A i \in 1 .. Len(f) : f[i] # SIZE_MAX =>
           /\ f[i] \in Nat /\ f[i] < N /\ Wanted(P, v, f[i])
           /\ \A b \in w : f[i] < base + b
      /\ \A i, j \in 1 .. Len(f) : i < j /\ f[j] # SIZE_MAX => f[i] < f[j]
  BY <1>2, <1>3 DEF Iterating, FoundExact
<1>7. \A i \in 1 .. Len(f) : f[i] = SIZE_MAX => i = Len(f) /\ w = {} /\ N = E
  BY <1>2, <1>4 DEF Iterating, EndExact
<1>8. ToSet(f) = {f[i] : i \in 1 .. Len(f)}
  BY <1>6 DEF ToSet
<1>9. all = {pos \in 0 .. E - 1 : Wanted(P, v, pos)}
  BY <1>3 DEF Sought
<1>10. PICK m \in Nat : m = Len(bits) /\ bits \in Seq(Int) /\ \A i \in 1 .. m : i \in 1 .. Len(f) /\ bits[i] = f[i] /\ f[i] # SIZE_MAX
  <2>1. CASE SIZE_MAX \notin ToSet(f)
    <3>1. bits = f
      BY <2>1 DEF Returned
    <3>2. \A i \in 1 .. Len(f) : f[i] # SIZE_MAX
      BY <1>8, <2>1
    <3> QED
      BY <1>6, <3>1, <3>2
  <2>2. CASE SIZE_MAX \in ToSet(f)
    <3>1. PICK i \in 1 .. Len(f) : f[i] = SIZE_MAX
      BY <1>8, <2>2
    <3>2. Len(f) \in Nat /\ Len(f) >= 1
      BY <1>6, <3>1
    <3>3. bits = SubSeq(f, 1, Len(f) - 1)
      BY <2>2 DEF Returned, Front
    <3>4. bits \in Seq(Int) /\ Len(bits) = Len(f) - 1 /\ \A j \in 1 .. Len(f) - 1 : bits[j] = f[j]
      <4>1. PICK L \in Nat : L = Len(f) - 1 /\ Len(f) = L + 1
        BY <3>2
      <4>2. PICK g \in Seq(Int) : g = f
        BY <1>6
      <4>3. /\ SubSeq(g, 1, L) \in Seq(Int) /\ Len(SubSeq(g, 1, L)) = L
            /\ \A j \in 1 .. L : SubSeq(g, 1, L)[j] = g[j]
        BY <4>1, <4>2
      <4> QED
        BY <3>3, <4>1, <4>2, <4>3
    <3>5. \A j \in 1 .. Len(f) - 1 : j \in 1 .. Len(f) /\ f[j] # SIZE_MAX
      BY <1>7, <3>2
    <3> QED
      BY <3>2, <3>4, <3>5
  <2> QED
    BY <2>1, <2>2
<1>11. ToSet(bits) = {bits[i] : i \in 1 .. m} /\ DOMAIN bits = 1 .. m
  BY <1>10 DEF ToSet
<1>12. ToSet(bits) = ToSet(f) \ {SIZE_MAX}
  <2>1. \A x \in ToSet(bits) : x \in ToSet(f) \ {SIZE_MAX}
    BY <1>8, <1>10, <1>11
  <2>2. ASSUME NEW x \in ToSet(f) \ {SIZE_MAX} PROVE x \in ToSet(bits)
    <3>1. PICK i \in 1 .. Len(f) : f[i] = x /\ f[i] # SIZE_MAX
      BY <1>8
    <3>2. i \in 1 .. m
      <4>1. CASE SIZE_MAX \notin ToSet(f)
        BY <1>10, <4>1 DEF Returned
      <4>2. CASE SIZE_MAX \in ToSet(f)
        <5>1. PICK j \in 1 .. Len(f) : f[j] = SIZE_MAX
          BY <1>8, <4>2
        <5>2. j = Len(f) /\ i # j
          BY <1>7, <3>1, <5>1
        <5>3. bits = SubSeq(f, 1, Len(f) - 1)
          BY <4>2 DEF Returned, Front
        <5>4. m = Len(f) - 1
          BY <1>6, <1>10, <5>1, <5>3
        <5> QED
          BY <1>6, <5>2, <5>4
      <4> QED
        BY <4>1, <4>2
    <3> QED
      BY <1>10, <1>11, <3>1, <3>2
  <2> QED
    BY <2>1, <2>2
<1>13. ToSet(bits) \subseteq all
  <2> SUFFICES ASSUME NEW i \in 1 .. m PROVE bits[i] \in all
    BY <1>11
  <2>1. f[i] \in Nat /\ f[i] < N /\ Wanted(P, v, f[i]) /\ bits[i] = f[i]
    BY <1>6, <1>10
  <2>2. f[i] \in 0 .. E - 1
    BY <1>4, <2>1
  <2> QED
    BY <1>9, <2>1, <2>2
<1>14. \A i, j \in DOMAIN bits : i < j => bits[i] < bits[j]
  BY <1>6, <1>10, <1>11
<1>15. ASSUME NEW pos \in all \ ToSet(bits), NEW i \in DOMAIN bits PROVE bits[i] < pos
  <2>1. i \in 1 .. m /\ bits[i] = f[i] /\ f[i] # SIZE_MAX /\ i \in 1 .. Len(f)
    BY <1>10, <1>11
  <2>2. f[i] \in Nat /\ f[i] < N /\ \A b \in w : f[i] < base + b
    BY <1>6, <2>1
  <2>3. pos \in Nat /\ pos < E /\ Wanted(P, v, pos) /\ pos \notin ToSet(f)
    <3>1. pos \in Nat /\ pos < E /\ Wanted(P, v, pos)
      BY <1>4, <1>9
    <3> QED
      BY <1>12, <3>1 DEF SIZE_MAX
  <2>4. CASE pos < N
    <3>1. pos - base \in w
      BY <1>6, <2>3, <2>4
    <3>2. f[i] < base + (pos - base)
      BY <2>2, <3>1
    <3> QED
      BY <1>5, <2>1, <2>2, <2>3, <3>2
  <2> QED
    BY <1>4, <2>1, <2>2, <2>3, <2>4
<1>16. Leads(bits, all)
  BY <1>13, <1>14, <1>15 DEF Leads
<1>17. ASSUME SIZE_MAX \in ToSet(f) PROVE all \subseteq ToSet(bits)
  <2>1. PICK i \in 1 .. Len(f) : f[i] = SIZE_MAX
    BY <1>8, <1>17
  <2>2. w = {} /\ N = E
    BY <1>7, <2>1
  <2> SUFFICES ASSUME NEW pos \in all PROVE pos \in ToSet(bits)
    OBVIOUS
  <2>3. pos \in Nat /\ pos < E /\ Wanted(P, v, pos) /\ pos # SIZE_MAX
    BY <1>4, <1>9 DEF SIZE_MAX
  <2>4. pos \in ToSet(f)
    BY <1>6, <2>2, <2>3
  <2> QED
    BY <1>12, <2>3, <2>4
<1> QED
  BY <1>10, <1>12, <1>13, <1>16, <1>17

\* And bit_index lists what is next.
LEMMA IndexLeads ==
  ASSUME NEW P, NEW v \in BOOLEAN, NEW k, NEW f, Iterating(P, v, k, f),
         NEW all, all = Sought(P, v, k), NEW bits, ToSet(bits) = ToSet(f) \ {SIZE_MAX},
         NEW index, index = bit_index(k.word, k.base),
         NEW q, q = Listed(index)
  PROVE  Leads(q, all \ ToSet(bits)) /\ Len(index) = bit_count(k.word)
<1>1. k.next \in Nat /\ k.end \in Nat /\ k.next <= k.end
  BY EndReached DEF Iterating
<1>2. PICK w, base : w = k.word /\ base = k.base
  OBVIOUS
<1>3. PICK N, E : N = k.next * CHAR_BIT /\ E = k.end * CHAR_BIT
  OBVIOUS
<1>4. N \in Nat /\ E \in Nat /\ N <= E
  <2>1. CHAR_BIT \in Nat \ {0}
    BY Sizes
  <2>2. PICK a \in Nat, b \in Nat : a = k.next /\ b = k.end /\ a <= b
    BY <1>1
  <2>3. /\ CHAR_BIT * a \in Int /\ CHAR_BIT * a = a * CHAR_BIT /\ (a >= 0 => CHAR_BIT * a >= 0)
        /\ a <= b <=> CHAR_BIT * a <= CHAR_BIT * b
    BY <2>1, <2>2, Multiples
  <2>4. CHAR_BIT * b \in Int /\ CHAR_BIT * b = b * CHAR_BIT /\ (b >= 0 => CHAR_BIT * b >= 0)
    BY <2>1, <2>2, Multiples
  <2>5. N = CHAR_BIT * a /\ E = CHAR_BIT * b
    BY <1>3, <2>2, <2>3, <2>4
  <2> QED
    BY <2>2, <2>3, <2>4, <2>5
<1>5. w \subseteq AllOnes /\ base \in Nat /\ \A b \in w : b \in Nat /\ base + b < N /\ Wanted(P, v, base + b)
  BY <1>2, <1>3 DEF Iterating, WordExact, AllOnes
<1>6. /\ f \in Seq(Int)
      /\ \A pos \in Nat : pos < N /\ Wanted(P, v, pos) => pos \in ToSet(f) \/ pos - base \in w
      /\ \A i \in 1 .. Len(f) : f[i] # SIZE_MAX => \A b \in w : f[i] < base + b
  BY <1>2, <1>3 DEF Iterating, FoundExact
<1>7. /\ index \in Seq(Int) /\ Len(index) = Cardinality(w)
      /\ \A i \in 1 .. Len(index) : index[i] - base - 1 \in w
      /\ \A i, j \in 1 .. Len(index) : i < j => index[i] < index[j]
      /\ \A b \in w : \E i \in 1 .. Len(index) : index[i] = base + b + 1
  <2>1. index = bit_index(w, base)
    BY <1>2
  <2>2. w \subseteq AllOnes /\ base \in Nat
    BY <1>5
  <2>3. Listing(w, base, index)
    BY <2>1, <2>2, BitIndexExact
  <2> QED
    BY <2>3 DEF Listing
<1>8. PICK n \in Nat : n = Len(index) /\ DOMAIN index = 1 .. n
  BY <1>7
<1>9. DOMAIN q = 1 .. n /\ \A i \in 1 .. n : q[i] = index[i] - 1 /\ index[i] \in Int
  BY <1>7, <1>8 DEF Listed
<1>10. ToSet(q) = {q[i] : i \in 1 .. n}
  BY <1>9 DEF ToSet
<1>11. ToSet(f) = {f[i] : i \in 1 .. Len(f)}
  BY <1>6 DEF ToSet
<1>12. all = {pos \in 0 .. E - 1 : Wanted(P, v, pos)}
  BY <1>3 DEF Sought
<1>13. ASSUME NEW i \in 1 .. n PROVE q[i] \in all \ ToSet(bits) /\ q[i] < N /\ q[i] \in Nat
  <2>1. PICK b \in w : b = index[i] - base - 1
    BY <1>7, <1>8
  <2>2. q[i] = base + b
    <3>1. index[i] \in Int /\ q[i] = index[i] - 1 /\ b \in Nat
      BY <1>5, <1>9
    <3> QED
      BY <1>5, <2>1, <3>1
  <2>3. q[i] \in Nat /\ q[i] < N /\ Wanted(P, v, q[i])
    BY <1>5, <2>2
  <2>4. q[i] \in all
    BY <1>4, <1>12, <2>3
  <2>5. q[i] \notin ToSet(bits)
    <3>1. \A j \in 1 .. Len(f) : f[j] # SIZE_MAX => f[j] < q[i]
      BY <1>6, <2>2
    <3>2. \A j \in 1 .. Len(f) : f[j] # SIZE_MAX => f[j] # q[i]
      <4>1. ~(q[i] < q[i])
        BY <2>3
      <4> QED
        BY <3>1, <4>1
    <3> QED
      BY <1>11, <3>2
  <2> QED
    BY <2>3, <2>4, <2>5
<1>14. \A i, j \in DOMAIN q : i < j => q[i] < q[j]
  <2> SUFFICES ASSUME NEW i \in 1 .. n, NEW j \in 1 .. n, i < j PROVE q[i] < q[j]
    BY <1>9
  <2>1. index[i] < index[j]
    BY <1>7, <1>8
  <2>2. q[i] = index[i] - 1 /\ q[j] = index[j] - 1 /\ index[i] \in Int /\ index[j] \in Int
    BY <1>9
  <2> QED
    BY <2>1, <2>2
<1>15. ASSUME NEW pos \in (all \ ToSet(bits)) \ ToSet(q), NEW i \in DOMAIN q PROVE q[i] < pos
  <2>1. q[i] < N /\ q[i] \in Nat
    BY <1>9, <1>13
  <2>2. pos \in Nat /\ Wanted(P, v, pos) /\ pos \notin ToSet(bits)
    BY <1>4, <1>12
  <2>3. pos \notin ToSet(f)
    BY <2>2 DEF SIZE_MAX
  <2>4. ~(pos < N)
    <3> SUFFICES ASSUME pos < N PROVE FALSE
      OBVIOUS
    <3>1. pos - base \in w
      BY <1>6, <2>2, <2>3
    <3>2. PICK j \in 1 .. n : index[j] = base + (pos - base) + 1
      BY <1>7, <1>8, <3>1
    <3>3. q[j] = pos
      BY <1>5, <1>9, <2>2, <3>2
    <3> QED
      BY <1>10, <3>3
  <2> QED
    BY <1>4, <2>1, <2>2, <2>4
<1>16. Leads(q, all \ ToSet(bits))
  BY <1>9, <1>10, <1>13, <1>14, <1>15 DEF Leads
<1> QED
  BY <1>2, <1>7, <1>16 DEF bit_count

\* The invariant says that the iterator is exact.
LEMMA InvariantIterates ==
  ASSUME BitsInv
  PROVE  IteratorExact
<1> SUFFICES ASSUME it # NoIterator PROVE IteratorExact
  BY DEF IteratorExact
<1>1. wanted \in BOOLEAN /\ Iterating(ones, wanted, it, found)
  BY DEF BitsInv
<1>2. PICK all : all = Sought(ones, wanted, it)
  OBVIOUS
<1>3. PICK bits : bits = Returned(found)
  OBVIOUS
<1>4. /\ Leads(bits, all) /\ (SIZE_MAX \in ToSet(found) => ToSet(bits) = all)
      /\ bits \in Seq(Int) /\ ToSet(bits) = ToSet(found) \ {SIZE_MAX}
  BY <1>1, <1>2, <1>3, FoundLeads
<1>5. PICK index : index = bit_index(it.word, it.base)
  OBVIOUS
<1>6. Leads(Listed(index), all \ ToSet(bits)) /\ Len(index) = bit_count(it.word)
  <2>1. PICK q : q = Listed(index)
    OBVIOUS
  <2>2. ToSet(bits) = ToSet(found) \ {SIZE_MAX}
    BY <1>4
  <2>3. Leads(q, all \ ToSet(bits)) /\ Len(index) = bit_count(it.word)
    BY <1>1, <1>2, <1>5, <2>1, <2>2, IndexLeads
  <2> QED
    BY <2>1, <2>3
<1>7. all = {pos \in 0 .. it.end * CHAR_BIT - 1 : (pos \in ones) = wanted}
  BY <1>2 DEF Sought, Wanted
<1> QED
  BY <1>3, <1>4, <1>5, <1>6, <1>7, Zenon DEF IteratorExact, Returned, Listed

(***************************************************************************)
(* Whatever was set, cleared, rotated and swapped before, the bit iterator *)
(* returns the positions with the wanted value in order, each once, and    *)
(* SIZE_MAX only after all of them; and bit_index agrees with it, for      *)
(* bytes, words and memories of every size.                                *)
(***************************************************************************)
THEOREM IteratorStaysExact == BitsSpec => []IteratorExact
<1>1. BitsInit => BitsInv
  BY BitsInitInv
<1>2. BitsInv /\ [BitsNext]_bitVars => BitsInv'
  BY BitsStepInv
<1>3. BitsInv => IteratorExact
  BY InvariantIterates
<1> QED
  BY <1>1, <1>2, <1>3, PTL DEF BitsSpec

=============================================================================
