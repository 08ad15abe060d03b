-------------------------- MODULE DurationsProofs ---------------------------
(***************************************************************************)
(* string_to_duration is exact: the precision that the code computes from  *)
(* the length of the text never rounds a digit away, although the factors  *)
(* of an hour and of a day add up to fourteen digits and it allows for     *)
(* twelve.  What does not fit are the zeros those units end with.          *)
(***************************************************************************)
EXTENDS Durations, TLAPS

LEMMA ExponentFacts ==
    /\ MaxExponent \in Nat
    /\ MaxDigits + ExtraDigits + 2 <= MaxExponent
    /\ MinPrecision <= MaxExponent
    BY DurationAssumption DEF MaxExponent

(* The first powers of ten, and their order.                               *)
LEMMA SmallPowers == PowerOfTen[0] = 1 /\ PowerOfTen[1] = 10 /\ PowerOfTen[2] = 100
<1>1. 2 <= MaxExponent
      BY ExponentFacts, DurationAssumption
<1>2. PowerOfTen[1 + 1] = PowerOfTen[1] * PowerOfTen[1]
      BY <1>1, ExponentFacts, PowerAssumption
<1>. QED BY <1>2, PowerAssumption

LEMMA PowersAreNumbers == \A i \in 0..MaxExponent : PowerOfTen[i] \in Nat \ {0}
    BY PowerAssumption

LEMMA Product1 == ASSUME NEW a \in Nat, NEW b \in Nat \ {0} PROVE a <= a * b
<1>1. PICK c \in Nat : b = c + 1
      BY b - 1 \in Nat
<1>2. a * b = a * c + a /\ a * c \in Nat
      BY <1>1
<1>. QED BY <1>2

LEMMA PowersGrow ==
    ASSUME NEW i \in 0..MaxExponent, NEW j \in 0..MaxExponent, i <= j
    PROVE  PowerOfTen[i] <= PowerOfTen[j]
<1>1. j - i \in 0..MaxExponent /\ i + (j - i) = j
      BY ExponentFacts
<1>2. PowerOfTen[j] = PowerOfTen[i] * PowerOfTen[j - i]
      BY <1>1, ExponentFacts, PowerAssumption
<1>3. PowerOfTen[i] \in Nat /\ PowerOfTen[j - i] \in Nat \ {0}
      BY <1>1, PowerAssumption
<1>. QED BY <1>2, <1>3, Product1

(* A number that ends with as many zeros as its digits exceed the          *)
(* precision is not rounded.                                               *)
LEMMA RoundedExact ==
    ASSUME NEW n \in Nat, NEW prec \in 0..MaxExponent, NEW z \in 0..2, NEW e \in 0..MaxExponent,
           e <= prec + z, n < PowerOfTen[e], n % PowerOfTen[z] = 0
    PROVE  Rounded(n, prec) = n
<1>. DEFINE Excess(k) == n < PowerOfTen[prec + k] /\ (k > 0 => n >= PowerOfTen[prec + k - 1])
<1>1. \E k \in 0..(MaxExponent - prec) : Excess(k)
  <2>2. CASE n < PowerOfTen[prec]
    <3>1. prec + 0 = prec /\ 0 \in 0..(MaxExponent - prec)
          BY ExponentFacts
    <3>2. Excess(0)
          BY <2>2, <3>1
    <3>. QED BY <3>1, <3>2
  <2>3. CASE ~(n < PowerOfTen[prec])
    <3>1. PowerOfTen[prec] \in Nat /\ PowerOfTen[e] \in Nat /\ prec \in Nat /\ e \in Nat
          BY PowersAreNumbers, ExponentFacts
    <3>2. ~(e <= prec)
          BY <2>3, <3>1, PowersGrow
    <3>3. prec + 1 \in 0..MaxExponent /\ 1 \in 0..(MaxExponent - prec) /\ prec + 1 - 1 = prec
          BY <3>1, <3>2, ExponentFacts
    <3>4. PowerOfTen[prec + 1] \in Nat
          BY <3>3, PowersAreNumbers
    <3>5. CASE n < PowerOfTen[prec + 1]
      <4>1. Excess(1)
            BY <2>3, <3>1, <3>3, <3>5
      <4>. QED BY <3>3, <4>1
    <3>6. CASE ~(n < PowerOfTen[prec + 1])
      <4>1. ~(e <= prec + 1)
            BY <3>1, <3>3, <3>4, <3>6, PowersGrow
      <4>2. e = prec + 2 /\ 2 \in 0..(MaxExponent - prec) /\ prec + 2 - 1 = prec + 1
            BY <3>1, <4>1, ExponentFacts
      <4>3. Excess(2)
            BY <3>4, <3>6, <4>2
      <4>. QED BY <4>2, <4>3
    <3>. QED BY <3>5, <3>6
  <2>. QED BY <2>2, <2>3
<1>. DEFINE k == ExcessDigits(n, prec)
<1>2. k \in 0..(MaxExponent - prec) /\ Excess(k)
      BY <1>1 DEF ExcessDigits
<1>. HIDE DEF k
<1>3. k <= z
  <2>1. SUFFICES ASSUME k > z PROVE FALSE
        BY <1>2, ExponentFacts
  <2>2. prec + k - 1 \in 0..MaxExponent /\ e <= prec + k - 1
        BY <2>1, <1>2, ExponentFacts
  <2>3. PowerOfTen[e] <= PowerOfTen[prec + k - 1]
        BY <2>2, PowersGrow
  <2>4. n >= PowerOfTen[prec + k - 1]
        BY <2>1, <1>2, ExponentFacts
  <2>. QED BY <2>2, <2>3, <2>4, PowerAssumption
<1>4. PowerOfTen[k] \in {1, 10, 100} /\ n % PowerOfTen[k] = 0
      BY <1>2, <1>3, SmallPowers, ExponentFacts
<1>5. (n \div PowerOfTen[k]) * PowerOfTen[k] = n
      BY <1>4
<1>6. Rounded(n, prec) = (n \div PowerOfTen[k]) * PowerOfTen[k]
      BY <1>4 DEF Rounded, k
<1>. QED BY <1>5, <1>6

-----------------------------------------------------------------------------
Zeros == [s |-> 0, m |-> 1, h |-> 2, d |-> 2]

LEMMA UnitFacts ==
    ASSUME NEW u \in DOMAIN UnitSeconds
    PROVE  /\ UnitSeconds[u] \in Nat \ {0}
           /\ Zeros[u] \in 0..2
           /\ UnitSeconds[u] % PowerOfTen[Zeros[u]] = 0
           /\ PowerOfTen[Zeros[u]] \in {1, 10, 100}
           /\ UnitSeconds[u] * NanosPerSecond < PowerOfTen[ExtraDigits + Zeros[u]]
    BY SmallPowers, ScaleAssumption, DurationAssumption DEF UnitSeconds, Zeros

LEMMA NumeralFacts ==
    ASSUME NEW t \in Numerals
    PROVE  /\ t.coefficient \in Nat
           /\ t.digits \in 1..MaxDigits
           /\ t.places \in 0..MaxDigits
           /\ t.unit \in DOMAIN UnitSeconds
           /\ t.coefficient < PowerOfTen[t.digits]
    BY DEF Numerals

LEMMA PrecisionFacts ==
    ASSUME NEW t \in Numerals
    PROVE  /\ Precision(t) \in 0..MaxExponent
           /\ t.digits + ExtraDigits <= Precision(t)
    BY NumeralFacts, ExponentFacts, DurationAssumption DEF Precision

LEMMA Monotone ==
    ASSUME NEW a \in Nat, NEW b \in Nat, NEW c \in Nat, NEW d \in Nat, a < c, b < d
    PROVE  a * b < c * d
<1>1. PICK x \in Nat : c = a + 1 + x
      BY c - a - 1 \in Nat
<1>2. PICK y \in Nat : d = b + 1 + y
      BY d - b - 1 \in Nat
<1>3. c * d = a * b + (a + a * y + b + 1 + y + x * b + x + x * y)
      BY <1>1, <1>2
<1>4. a * y \in Nat /\ x * b \in Nat /\ x * y \in Nat /\ a * b \in Nat
      BY <1>1, <1>2
<1>. QED BY <1>3, <1>4

(* Both products of the code are exact.                                    *)
THEOREM ProductExact ==
    ASSUME NEW t \in Numerals
    PROVE  Product(t) = t.coefficient * UnitSeconds[t.unit] * NanosPerSecond
<1>. DEFINE c == t.coefficient  u == UnitSeconds[t.unit]  z == Zeros[t.unit]  e == t.digits + (ExtraDigits + z)
<1>1. c \in Nat /\ u \in Nat /\ z \in 0..2 /\ t.digits \in 1..MaxDigits
      BY NumeralFacts, UnitFacts
<1>2. e \in 0..MaxExponent /\ ExtraDigits + z \in 0..MaxExponent /\ t.digits \in 0..MaxExponent
      BY <1>1, ExponentFacts, DurationAssumption
<1>3. e <= Precision(t) + z /\ Precision(t) \in 0..MaxExponent
      BY <1>1, PrecisionFacts, DurationAssumption
<1>4. c * (u * NanosPerSecond) < PowerOfTen[e]
  <2>1. PowerOfTen[e] = PowerOfTen[t.digits] * PowerOfTen[ExtraDigits + z]
        BY <1>2, PowerAssumption
  <2>2. c < PowerOfTen[t.digits] /\ u * NanosPerSecond < PowerOfTen[ExtraDigits + z]
        BY NumeralFacts, UnitFacts
  <2>3. PowerOfTen[t.digits] \in Nat /\ PowerOfTen[ExtraDigits + z] \in Nat /\ u * NanosPerSecond \in Nat
    <3>1. \A i \in 0..MaxExponent : PowerOfTen[i] \in Nat
          BY PowersAreNumbers
    <3>. QED BY <1>1, <1>2, <3>1, DurationAssumption
  <2>. HIDE DEF c, u, z, e
  <2>. QED BY <1>1, <2>1, <2>2, <2>3, Monotone
<1>5. PICK q \in Nat : u = q * PowerOfTen[z]
  <2>1. UnitSeconds[t.unit] % PowerOfTen[Zeros[t.unit]] = 0 /\ PowerOfTen[Zeros[t.unit]] \in {1, 10, 100}
        BY NumeralFacts, UnitFacts
  <2>2. u = (u \div PowerOfTen[z]) * PowerOfTen[z] /\ u \div PowerOfTen[z] \in Nat
        BY <1>1, <2>1
  <2>. QED BY <2>2
<1>6. PowerOfTen[z] \in {1, 10, 100}
      BY UnitFacts, NumeralFacts
<1>. DEFINE w == c * u
<1>. HIDE DEF c, u, z, e
<1>7. w \in Nat /\ w * NanosPerSecond \in Nat /\ w * NanosPerSecond = c * (u * NanosPerSecond)
      BY <1>1, DurationAssumption
<1>8. w <= w * NanosPerSecond
      BY <1>7, Product1, DurationAssumption
<1>9. w % PowerOfTen[z] = 0 /\ (w * NanosPerSecond) % PowerOfTen[z] = 0
  <2>1. w = (c * q) * PowerOfTen[z] /\ c * q \in Nat
        BY <1>1, <1>5, <1>6
  <2>2. w * NanosPerSecond = (c * q * NanosPerSecond) * PowerOfTen[z] /\ c * q * NanosPerSecond \in Nat
        BY <2>1, <1>1, <1>5, <1>6, DurationAssumption
  <2>3. \A x \in Nat : (x * PowerOfTen[z]) % PowerOfTen[z] = 0
        BY <1>6
  <2>. HIDE DEF w
  <2>. QED BY <2>1, <2>2, <2>3
<1>10. w < PowerOfTen[e] /\ PowerOfTen[e] \in Nat
      BY <1>2, <1>4, <1>7, <1>8, PowerAssumption
<1>. HIDE DEF w
<1>11. Rounded(w, Precision(t)) = w
      BY <1>1, <1>2, <1>3, <1>7, <1>9, <1>10, RoundedExact
<1>12. Rounded(w * NanosPerSecond, Precision(t)) = w * NanosPerSecond
      BY <1>1, <1>2, <1>3, <1>4, <1>7, <1>9, RoundedExact
<1>. QED BY <1>11, <1>12 DEF Product, w, c, u

-----------------------------------------------------------------------------
LEMMA DivisionFacts ==
    ASSUME NEW x \in Nat, NEW b \in Nat \ {0}
    PROVE  /\ x \div b \in Nat
           /\ x % b \in 0..(b - 1)
           /\ x = b * (x \div b) + (x % b)
    OBVIOUS

(* What string_to_duration returns for a numeral denotes it, and it refuses*)
(* only numerals that no Duration denotes.                                 *)
THEOREM FromNumeralExact ==
    ASSUME NEW t \in Numerals
    PROVE  IF Representable(t)
           THEN FromNumeral(t) \in ProtoDurations /\ Denotes(t, FromNumeral(t))
           ELSE FromNumeral(t) \in {TooFine, TooLong}
<1>. DEFINE w == t.coefficient * UnitSeconds[t.unit] * NanosPerSecond
            p == PowerOfTen[t.places]
            nanoseconds == w \div p
            seconds == nanoseconds \div NanosPerSecond
            nanos == nanoseconds % NanosPerSecond
<1>1. Product(t) = w
      BY ProductExact
<1>2. w \in Nat /\ p \in Nat \ {0}
  <2>1. t.coefficient \in Nat /\ UnitSeconds[t.unit] \in Nat
        BY NumeralFacts, UnitFacts
  <2>2. t.places \in 0..MaxExponent
        BY NumeralFacts, ExponentFacts, DurationAssumption
  <2>. QED BY <2>1, <2>2, PowersAreNumbers, DurationAssumption
<1>3. CASE ~Representable(t)
  <2>1. w % p # 0 \/ ~(seconds <= MaxSeconds)
        BY <1>3 DEF Representable
  <2>2. seconds \in Nat
        BY <1>2, DivisionFacts, DurationAssumption
  <2>3. w % p # 0 \/ seconds > MaxSeconds
        BY <2>1, <2>2, DurationAssumption
  <2>4. FromNumeral(t) \in {TooFine, TooLong}
    <3>1. Product(t) % PowerOfTen[t.places] # 0 \/ (Product(t) \div PowerOfTen[t.places]) \div NanosPerSecond > MaxSeconds
          BY <1>1, <2>3
    <3>. QED BY <3>1 DEF FromNumeral
  <2>. QED BY <1>3, <2>4
<1>4. CASE Representable(t)
  <2>1. w % p = 0 /\ seconds <= MaxSeconds
        BY <1>4 DEF Representable
  <2>2. nanoseconds \in Nat /\ seconds \in Nat /\ nanos \in 0..(NanosPerSecond - 1)
        BY <1>2, DivisionFacts, DurationAssumption
  <2>3. nanoseconds * p = w
    <3>1. w = p * nanoseconds + 0
          BY <1>2, <2>1, DivisionFacts
    <3>2. nanoseconds \in Nat /\ p \in Nat
          BY <1>2, <2>2
    <3>. HIDE DEF w, p, nanoseconds
    <3>. QED BY <1>2, <3>1, <3>2
  <2>4. seconds * NanosPerSecond + nanos = nanoseconds
    <3>1. nanoseconds = NanosPerSecond * seconds + nanos
          BY <2>2, DivisionFacts, DurationAssumption
    <3>. HIDE DEF seconds, nanos, nanoseconds
    <3>. QED BY <3>1, <2>2, DurationAssumption
  <2>5. FromNumeral(t) = [seconds |-> seconds, nanos |-> nanos]
    <3>1. ~(seconds > MaxSeconds)
          BY <2>1, <2>2, DurationAssumption
    <3>2. /\ Product(t) % PowerOfTen[t.places] = 0
          /\ ~((Product(t) \div PowerOfTen[t.places]) \div NanosPerSecond > MaxSeconds)
          BY <1>1, <2>1, <3>1
    <3>. QED BY <1>1, <3>2 DEF FromNumeral
  <2>6. FromNumeral(t) \in ProtoDurations
        BY <2>1, <2>2, <2>5, DurationAssumption DEF ProtoDurations
  <2>7. Denotes(t, FromNumeral(t))
    <3>1. (seconds * NanosPerSecond + nanos) * p = w
          BY <2>3, <2>4
    <3>2. FromNumeral(t).seconds = seconds /\ FromNumeral(t).nanos = nanos
          BY <2>5
    <3>. QED BY <3>1, <3>2 DEF Denotes
  <2>. QED BY <1>4, <2>6, <2>7
<1>. QED BY <1>3, <1>4

(* The same of string_to_duration and of the refusals of its callers.      *)
THEOREM StringToDurationExact ==
    ASSUME NEW text \in Numerals
    PROVE  /\ DurationRefused(text) <=> ~Representable(text)
           /\ ~DurationRefused(text) => /\ StringToDuration(text) \in ProtoDurations
                                        /\ Denotes(text, StringToDuration(text))
<1>1. text # Empty /\ text # Malformed
      BY RefusalAssumption
<1>2. StringToDuration(text) = FromNumeral(text)
      BY <1>1 DEF StringToDuration
<1>3. \A d \in ProtoDurations : d \notin {Malformed, TooFine, TooLong}
      BY RefusalAssumption
<1>. QED BY <1>2, <1>3, FromNumeralExact DEF DurationRefused

LEMMA EmptyIsZero == StringToDuration(Empty) = [seconds |-> 0, nanos |-> 0] /\ StringToDuration(Empty) \in ProtoDurations
    BY DurationAssumption DEF StringToDuration, ProtoDurations
=============================================================================
