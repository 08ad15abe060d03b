----------------------------- MODULE Durations ------------------------------
(***************************************************************************)
(* string_to_duration of utils.py: a text like "1.5m" becomes a protobuf   *)
(* Duration of whole seconds and nanoseconds.  A text that matches the     *)
(* pattern is a coefficient (its digits), the number of its digits, how    *)
(* many of them follow the point, and a unit.  The multiplications are     *)
(* those of a decimal context: each product is rounded to `prec`           *)
(* significant digits, so that a precision too small would silently change *)
(* the duration.                                                           *)
(***************************************************************************)
EXTENDS Integers

CONSTANTS
    NanosPerSecond,   \* 10^9 in the code; a smaller power of ten for TLC
    MaxSeconds,       \* 315_576_000_000, the range of a protobuf Duration
    MinPrecision,     \* 28, the default precision of a decimal context
    ExtraDigits,      \* 12, the digits the code adds for the multiplications
    MaxDigits,        \* bound of the model: the digits of a text
    PowerOfTen,       \* the powers of ten, as far as the texts need them
    Empty,            \* the empty text
    Malformed,        \* a text that does not match the pattern
    TooFine,          \* refused: "Duration precision cannot exceed nanoseconds"
    TooLong           \* refused: "Duration exceeds protobuf range"

MaxExponent ==
    IF MaxDigits + ExtraDigits + 2 > MinPrecision THEN MaxDigits + ExtraDigits + 2 ELSE MinPrecision

ASSUME DurationAssumption ==
    /\ NanosPerSecond \in Nat \ {0}
    /\ MaxSeconds \in Nat
    /\ MinPrecision \in Nat
    /\ ExtraDigits \in Nat
    /\ MaxDigits \in Nat

ASSUME PowerAssumption ==
    /\ PowerOfTen \in [0..MaxExponent -> Nat \ {0}]
    /\ PowerOfTen[0] = 1
    /\ PowerOfTen[1] = 10
    /\ \A i, j \in 0..MaxExponent : i + j <= MaxExponent => PowerOfTen[i + j] = PowerOfTen[i] * PowerOfTen[j]

UnitSeconds == [s |-> 1, m |-> 60, h |-> 3600, d |-> 86400]

(* The units and NanosPerSecond add at most ExtraDigits digits and the      *)
(* zeros that a unit ends with.                                            *)
ASSUME ScaleAssumption ==
    /\ UnitSeconds.s * NanosPerSecond < PowerOfTen[ExtraDigits]
    /\ UnitSeconds.m * NanosPerSecond < PowerOfTen[ExtraDigits + 1]
    /\ UnitSeconds.h * NanosPerSecond < PowerOfTen[ExtraDigits + 2]
    /\ UnitSeconds.d * NanosPerSecond < PowerOfTen[ExtraDigits + 2]

(* The texts of the pattern \d+(\.\d+)?[smhd].                            *)
Numerals ==
    {t \in [coefficient : Nat, digits : 1..MaxDigits, places : 0..MaxDigits, unit : DOMAIN UnitSeconds] :
        t.coefficient < PowerOfTen[t.digits] /\ t.places < t.digits}

ProtoDurations == [seconds : 0..MaxSeconds, nanos : 0..(NanosPerSecond - 1)]

ASSUME RefusalAssumption ==
    {Empty, Malformed, TooFine, TooLong} \cap (Numerals \cup ProtoDurations) = {}

(* How many of the last digits of n do not fit into `prec` digits.         *)
ExcessDigits(n, prec) ==
    CHOOSE k \in 0..(MaxExponent - prec) :
        n < PowerOfTen[prec + k] /\ (k > 0 => n >= PowerOfTen[prec + k - 1])

(* ROUND_HALF_EVEN, the rounding of a decimal context.                     *)
Rounded(n, prec) ==
    LET step == PowerOfTen[ExcessDigits(n, prec)]
        low == n \div step
        up == \/ 2 * (n % step) > step
              \/ 2 * (n % step) = step /\ low % 2 = 1
    IN  (IF up THEN low + 1 ELSE low) * step

-----------------------------------------------------------------------------
(* A faulty variant, used by no specification.                             *)
DefaultPrecision(t) == MinPrecision

-----------------------------------------------------------------------------
(* len(value) counts the point.                                            *)
Precision(t) ==
    LET length == IF t.places > 0 THEN t.digits + 1 ELSE t.digits
    IN  IF length + ExtraDigits > MinPrecision THEN length + ExtraDigits ELSE MinPrecision

(* The coefficient of the product; its exponent is -t.places.              *)
Product(t) ==
    Rounded(Rounded(t.coefficient * UnitSeconds[t.unit], Precision(t)) * NanosPerSecond, Precision(t))

FromNumeral(t) ==
    LET nanoseconds == Product(t) \div PowerOfTen[t.places]
        seconds == nanoseconds \div NanosPerSecond
    IN  IF Product(t) % PowerOfTen[t.places] # 0 THEN TooFine
        ELSE IF seconds > MaxSeconds THEN TooLong
        ELSE [seconds |-> seconds, nanos |-> nanoseconds % NanosPerSecond]

StringToDuration(text) ==
    IF text = Empty THEN [seconds |-> 0, nanos |-> 0]
    ELSE IF text = Malformed THEN Malformed
    ELSE FromNumeral(text)

DurationRefused(text) == StringToDuration(text) \in {Malformed, TooFine, TooLong}

-----------------------------------------------------------------------------
(* The reference: a numeral denotes coefficient * unit / 10^places seconds.*)
Denotes(t, duration) ==
    (duration.seconds * NanosPerSecond + duration.nanos) * PowerOfTen[t.places] =
        t.coefficient * UnitSeconds[t.unit] * NanosPerSecond

(* A duration of whole nanoseconds within range denotes the numeral.       *)
Representable(t) ==
    LET whole == t.coefficient * UnitSeconds[t.unit] * NanosPerSecond
    IN  /\ whole % PowerOfTen[t.places] = 0
        /\ (whole \div PowerOfTen[t.places]) \div NanosPerSecond <= MaxSeconds

=============================================================================
