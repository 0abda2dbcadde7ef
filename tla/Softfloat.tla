----------------------------- MODULE Softfloat -----------------------------
(***************************************************************************)
(* The floating point of the firmware, which the processor does not have:  *)
(* libbase/softfloat.c with its macros and its target-specific part, and   *)
(* the functions of softfloat-glue.c that the compiler calls.              *)
(*                                                                         *)
(* The width of the exponent and of the fraction are parameters.  In the   *)
(* code they are 8 and 23; with W the width of a word and G that of the    *)
(* part below the fraction that is rounded off, its constants are          *)
(* 0xFF = ExpMax, 0x7F = Bias or 2^G-1, 0x40 = 2^(G-1), 23 = FracBits,     *)
(* 32 = W, 7 = G.  A word is a number below 2^W.  A function returns its   *)
(* result z and the exceptions it raised; float_raise() adds these to      *)
(* float_exception_flags, which nothing ever takes away.                   *)
(***************************************************************************)
EXTENDS Integers, FiniteSets

CONSTANTS ExpBits, FracBits

VARIABLE float_rounding_mode

W == 1 + ExpBits + FracBits
G == W - 2 - FracBits

ASSUME FormatAssumption ==
  /\ ExpBits \in Nat /\ FracBits \in Nat \ {0}
  /\ G >= 3                       \* a bit, a half and what was shifted out
  /\ W \in {8, 16, 32}

Modes == {"nearest_even", "to_zero", "up", "down"}
Words == 0..(2^W - 1)
Word(x) == x % 2^W
Top == 2^(W - 1)                  \* a word is negative from here on
Flag(b) == IF b THEN 1 ELSE 0
Float(x, raised) == [z |-> x, raised |-> raised]
Exactly(x) == Float(x, {})

ExpMax == 2^ExpBits - 1
Bias == 2^(ExpBits - 1) - 1
Hidden == 2^FracBits

Frac(a) == a % Hidden
Exp(a) == (a \div Hidden) % 2^ExpBits
Sign(a) == a >= Top
packFloat32(sign, exp, sig) == Word(Flag(sign) * Top + exp * Hidden + sig)

-----------------------------------------------------------------------------
(* softfloat-macros.h *)

\* Mutant: the bits that are shifted out are lost.
ShiftRight(a, count) == IF count >= W THEN 0 ELSE a \div 2^count

\* The bits that are shifted out are or-ed into the last one that stays.
shift32RightJamming(a, count) ==
  IF count >= W THEN Flag(a # 0)
  ELSE LET q == a \div 2^count
       IN  IF a % 2^count # 0 /\ q % 2 = 0 THEN q + 1 ELSE q

countLeadingZeros32(a) ==
  IF a = 0 THEN W ELSE W - 1 - CHOOSE n \in 0..(W - 1) : 2^n <= a /\ a < 2^(n + 1)

\* From the products of the halves; the result is two words.
mul32To64(a, b) ==
  LET half == 2^(W \div 2)
      middleB == (a \div half) * (b % half)
      middle == Word((a % half) * (b \div half) + middleB)
      low == Word(middle * half)
      z1 == Word((a % half) * (b % half) + low)
  IN  (((a \div half) * (b \div half) + Flag(middle < middleB) * half + middle \div half
        + Flag(z1 < low)) * 2^W) + z1

\* From the quotient's upper half: a remainder below zero is made up for in that half.
BothHalves(b, half, high, rem) ==
  LET back == IF rem >= 0 THEN 0
              ELSE CHOOSE n \in 1..half : rem + n * half * b >= 0
                                          /\ rem + (n - 1) * half * b < 0
      rem0 == (rem + back * half * b) \div half
      b0 == b \div half
  IN  (high - back * half) + (IF b0 * half <= rem0 THEN half - 1 ELSE rem0 \div b0)

\* The quotient of a word and a zero word, or one or two more.
estimateDiv64To32(a, b) ==
  LET half == 2^(W \div 2)
      b0 == b \div half
      high == IF b0 * half <= a THEN (half - 1) * half ELSE (a \div b0) * half
  IN  IF b <= a THEN 2^W - 1 ELSE BothHalves(b, half, high, a * 2^W - mul32To64(b, high))

-----------------------------------------------------------------------------
(* Not a number *)

float32_is_nan(a) == Exp(a) = ExpMax /\ Frac(a) # 0
float32_is_signaling_nan(a) == float32_is_nan(a) /\ Frac(a) < Hidden \div 2
float32_default_nan == 2^W - 1
Invalid == Float(float32_default_nan, {"invalid"})

Quiet(a) == IF (a \div (Hidden \div 2)) % 2 = 0 THEN a + Hidden \div 2 ELSE a

propagateFloat32NaN(a, b) ==
  Float(IF float32_is_nan(a) /\ ~(float32_is_signaling_nan(a) /\ float32_is_nan(b))
        THEN Quiet(a) ELSE Quiet(b),
        IF float32_is_signaling_nan(a) \/ float32_is_signaling_nan(b)
        THEN {"invalid"} ELSE {})

-----------------------------------------------------------------------------
(* Rounding *)

\* A subnormal operand: its exponent and significand when it is made normal.
Normalized(a) ==
  IF Exp(a) # 0 THEN [exp |-> Exp(a), sig |-> Frac(a)]
  ELSE LET shift == countLeadingZeros32(Frac(a)) - ExpBits
       IN  [exp |-> 1 - shift, sig |-> Frac(a) * 2^shift - Hidden]

RoundIncrement(sign) ==
  CASE float_rounding_mode = "nearest_even" -> 2^(G - 1)
    [] float_rounding_mode = "to_zero"      -> 0
    [] float_rounding_mode = "up"           -> IF sign THEN 0 ELSE 2^G - 1
    [] float_rounding_mode = "down"         -> IF sign THEN 2^G - 1 ELSE 0

\* The number is +-sig * 2^(exp-...) with G bits to round off and its top bit, in the end,
\* added to the exponent.
roundAndPackFloat32(sign, exp, sig) ==
  LET increment == RoundIncrement(sign)
      overflow == exp > ExpMax - 2 \/ (exp = ExpMax - 2 /\ Word(sig + increment) >= Top)
      isTiny == exp < -1 \/ (exp = -1 /\ Word(sig + increment) < Top)
      shifted == IF exp < 0 THEN shift32RightJamming(sig, -exp) ELSE sig
      roundBits == shifted % 2^G
      up == Word(shifted + increment) \div 2^G
      even == IF /\ roundBits = 2^(G - 1) /\ float_rounding_mode = "nearest_even"
                 /\ up % 2 = 1
              THEN up - 1 ELSE up
  IN
  IF overflow
  THEN Float(Word(packFloat32(sign, ExpMax, 0) - Flag(increment = 0)), {"overflow", "inexact"})
  ELSE Float(packFloat32(sign, IF exp < 0 \/ even = 0 THEN 0 ELSE exp, even),
             (IF roundBits # 0 THEN {"inexact"} ELSE {}) \cup
             (IF exp < 0 /\ isTiny /\ roundBits # 0 THEN {"underflow"} ELSE {}))

normalizeRoundAndPackFloat32(sign, exp, sig) ==
  LET shift == countLeadingZeros32(sig) - 1
  IN  roundAndPackFloat32(sign, exp - shift, Word(sig * 2^shift))

-----------------------------------------------------------------------------
(* Conversions; an integer is a word *)

int32_to_float32(a) ==
  IF a = 0 THEN Exactly(0)
  ELSE IF a = Top THEN Exactly(packFloat32(TRUE, Bias + W - 1, 0))
  ELSE normalizeRoundAndPackFloat32(a >= Top, Bias + W - 3, IF a >= Top THEN 2^W - a ELSE a)

\* What does not fit: the least integer does.
TooLarge(a) ==
  IF a = packFloat32(TRUE, Bias + W - 1, 0) THEN Exactly(Top)
  ELSE Float(IF ~Sign(a) \/ float32_is_nan(a) THEN Top - 1 ELSE Top, {"invalid"})

SignedWord(sign, z) == Word(IF sign THEN -z ELSE z)
Inexact(b) == IF b THEN {"inexact"} ELSE {}

float32_to_int32(a) ==
  LET shift == Exp(a) - (Bias + FracBits)
      sig == Frac(a) + Hidden
      small == Exp(a) < Bias - 1
      extra == IF small THEN Exp(a) + Frac(a) ELSE Word(sig * 2^(shift % W))
      z == IF small THEN 0 ELSE sig \div 2^(-shift)
      nearest == IF extra < Top THEN z
                 ELSE IF Word(extra * 2) = 0 THEN ((z + 1) \div 2) * 2 ELSE z + 1
      away == \/ float_rounding_mode = "down" /\ Sign(a)
              \/ float_rounding_mode = "up" /\ ~Sign(a)
  IN
  IF Exp(a) >= Bias + W - 1 THEN TooLarge(a)
  ELSE IF shift >= 0 THEN Exactly(SignedWord(Sign(a), sig * 2^shift))
  ELSE Float(SignedWord(Sign(a), IF float_rounding_mode = "nearest_even" THEN nearest
                                 ELSE z + Flag(away /\ extra # 0)),
             Inexact(extra # 0))

float32_to_int32_round_to_zero(a) ==
  LET shift == Exp(a) - (Bias + W - 1)
      sig == (Frac(a) + Hidden) * 2^ExpBits
  IN
  IF shift >= 0 THEN TooLarge(a)
  ELSE IF Exp(a) < Bias THEN Float(0, Inexact(Exp(a) + Frac(a) # 0))
  ELSE Float(SignedWord(Sign(a), sig \div 2^(-shift)), Inexact(sig % 2^(-shift) # 0))

float32_round_to_int(a) ==
  LET one == packFloat32(Sign(a), Bias, 0)
      zero == packFloat32(Sign(a), 0, 0)
      last == 2^(Bias + FracBits - Exp(a))
      half == a + last \div 2
      toEven == IF half % last = 0 /\ (half \div last) % 2 = 1 THEN half - last ELSE half
      z == CASE float_rounding_mode = "nearest_even" -> toEven
             [] float_rounding_mode = "to_zero"      -> a
             [] OTHER -> IF Sign(a) # (float_rounding_mode = "up") THEN a + last - 1 ELSE a
      down == (z \div last) * last
  IN
  IF Exp(a) >= Bias + FracBits
  THEN IF float32_is_nan(a) THEN propagateFloat32NaN(a, a) ELSE Exactly(a)
  ELSE IF a % Top = 0 THEN Exactly(a)
  ELSE IF Exp(a) < Bias
  THEN Float(CASE float_rounding_mode = "nearest_even" ->
                    IF Exp(a) = Bias - 1 /\ Frac(a) # 0 THEN one ELSE zero
               [] float_rounding_mode = "to_zero" -> zero
               [] float_rounding_mode = "up"      -> IF Sign(a) THEN zero ELSE one
               [] float_rounding_mode = "down"    -> IF Sign(a) THEN one ELSE zero,
             {"inexact"})
  ELSE Float(down, Inexact(down # a))

-----------------------------------------------------------------------------
(* Arithmetic *)

\* The significand, in front of a zero part of n bits.  A subnormal number has the exponent
\* 1 and lacks the hidden bit.
Shifted(a, n) == (Frac(a) + Flag(Exp(a) # 0) * Hidden) * 2^n
Scale(a) == IF Exp(a) = 0 THEN 1 ELSE Exp(a)

\* The operand with the greater exponent, the first if they are equal.
Bigger(a, b) == IF Exp(a) >= Exp(b) THEN a ELSE b
Smaller(a, b) == IF Exp(a) >= Exp(b) THEN b ELSE a
Aligned(big, little, n) == shift32RightJamming(Shifted(little, n), Scale(big) - Scale(little))
AnyNaN(a, b) == float32_is_nan(a) \/ float32_is_nan(b)
Infinity(sign) == packFloat32(sign, ExpMax, 0)
Zero(sign) == packFloat32(sign, 0, 0)

\* |a| + |b|
addFloat32Sigs(a, b, sign) ==
  LET big == Bigger(a, b)
      sum == Shifted(big, G - 1) + Aligned(big, Smaller(a, b), G - 1)
  IN
  IF AnyNaN(a, b) THEN propagateFloat32NaN(a, b)
  ELSE IF Exp(big) = ExpMax THEN Exactly(Infinity(sign))
  ELSE IF Exp(big) = 0 THEN Exactly(packFloat32(sign, 0, Frac(a) + Frac(b)))
  ELSE IF 2 * sum >= Top THEN roundAndPackFloat32(sign, Exp(big), sum)
  ELSE roundAndPackFloat32(sign, Exp(big) - 1, 2 * sum)

\* |a| - |b|
subFloat32Sigs(a, b, sign) ==
  LET big == Bigger(a, b)
      diff == Shifted(big, G) - Aligned(big, Smaller(a, b), G)
      negative == IF big = a THEN diff < 0 ELSE diff > 0
      abs == IF diff < 0 THEN -diff ELSE diff
  IN
  IF AnyNaN(a, b) THEN propagateFloat32NaN(a, b)
  ELSE IF Exp(a) = ExpMax /\ Exp(b) = ExpMax THEN Invalid
  ELSE IF Exp(big) = ExpMax THEN Exactly(Infinity(IF big = a THEN sign ELSE ~sign))
  ELSE IF diff = 0 THEN Exactly(Zero(float_rounding_mode = "down"))
  ELSE normalizeRoundAndPackFloat32(sign # negative, Scale(big) - 1, abs)

float32_add(a, b) ==
  IF Sign(a) = Sign(b) THEN addFloat32Sigs(a, b, Sign(a)) ELSE subFloat32Sigs(a, b, Sign(a))
float32_sub(a, b) ==
  IF Sign(a) = Sign(b) THEN subFloat32Sigs(a, b, Sign(a)) ELSE addFloat32Sigs(a, b, Sign(a))

float32_mul(a, b) ==
  LET sign == Sign(a) # Sign(b)
      na == Normalized(a)
      nb == Normalized(b)
      exp == na.exp + nb.exp - Bias
      product == mul32To64((na.sig + Hidden) * 2^G, (nb.sig + Hidden) * 2^(G + 1))
      high == product \div 2^W
      sig == IF product % 2^W # 0 /\ high % 2 = 0 THEN high + 1 ELSE high
  IN
  IF AnyNaN(a, b) THEN propagateFloat32NaN(a, b)
  ELSE IF Exp(a) = ExpMax \/ Exp(b) = ExpMax
  THEN IF a % Top = 0 \/ b % Top = 0 THEN Invalid ELSE Exactly(Infinity(sign))
  ELSE IF a % Top = 0 \/ b % Top = 0 THEN Exactly(Zero(sign))
  ELSE IF 2 * sig < Top
  THEN roundAndPackFloat32(sign, exp - 1, 2 * sig)
  ELSE roundAndPackFloat32(sign, exp, sig)

\* The estimate is made exact where the rounding might depend on it.
MadeExact(divisor, estimate, rem) ==
  LET back == IF rem >= 0 THEN 0
              ELSE CHOOSE n \in 1..2 : rem + n * divisor >= 0 /\ rem + (n - 1) * divisor < 0
      exact == estimate - back
  IN  IF estimate % 2^(G - 1) > 2 THEN estimate
      ELSE IF rem + back * divisor # 0 /\ exact % 2 = 0 THEN exact + 1 ELSE exact

RatioSig(num, divisor, estimate) ==
  MadeExact(divisor, estimate, num * 2^W - mul32To64(divisor, estimate))

float32_div(a, b) ==
  LET sign == Sign(a) # Sign(b)
      na == Normalized(a)
      nb == Normalized(b)
      dividend == (na.sig + Hidden) * 2^G
      divisor == (nb.sig + Hidden) * 2^(G + 1)
      less == divisor > 2 * dividend
      num == IF less THEN dividend ELSE dividend \div 2
      exp == na.exp - nb.exp + Bias - 2 + Flag(~less)
  IN
  IF AnyNaN(a, b) THEN propagateFloat32NaN(a, b)
  ELSE IF Exp(a) = ExpMax THEN IF Exp(b) = ExpMax THEN Invalid ELSE Exactly(Infinity(sign))
  ELSE IF Exp(b) = ExpMax THEN Exactly(Zero(sign))
  ELSE IF b % Top = 0
  THEN IF a % Top = 0 THEN Invalid ELSE Float(Infinity(sign), {"divbyzero"})
  ELSE IF a % Top = 0 THEN Exactly(Zero(sign))
  ELSE roundAndPackFloat32(sign, exp, RatioSig(num, divisor, estimateDiv64To32(num, divisor)))

\* Of the two remainders around zero the one nearer to it, that of the even quotient if there
\* are two.
NearerRemainder(sign, exp, step, left, q) ==
  LET above == left % step
      mean == 2 * above - step
      z == IF mean < 0 \/ (mean = 0 /\ (q + left \div step) % 2 = 0) THEN above
           ELSE above - step
  IN  normalizeRoundAndPackFloat32(sign # (z < 0), exp, IF z < 0 THEN -z ELSE z)

\* The exponent's difference is taken down W-2 at a time, then what is left of it.
QuotientDigits(sig, divisor) ==
  LET q == estimateDiv64To32(sig, divisor) IN IF q > 2 THEN q - 2 ELSE 0

Reduce(sign, exp, diff, sig, divisor) ==
  LET step == divisor \div 4
      q0 == Flag(divisor <= sig)
      turns == IF diff <= W THEN 0 ELSE (diff - 3) \div (W - 2)
      reduced[n \in 0..turns] ==
        IF n = 0 THEN sig - q0 * divisor
        ELSE Word(-(step * QuotientDigits(reduced[n - 1], divisor)))
      rest == diff - turns * (W - 2)
      q == QuotientDigits(reduced[turns], divisor) \div 2^(W - rest)
  IN
  IF rest > 0
  THEN NearerRemainder(sign, exp, step,
                       Word((reduced[turns] \div 2) * 2^(rest - 1) - step * q), q)
  ELSE NearerRemainder(sign, exp, step, reduced[0] \div 4, q0)

float32_rem(a, b) ==
  LET na == Normalized(a)
      nb == Normalized(b)
      diff == na.exp - nb.exp
      sig == ((na.sig + Hidden) * 2^(G + 1)) \div (IF diff = -1 THEN 2 ELSE 1)
  IN
  IF AnyNaN(a, b) THEN propagateFloat32NaN(a, b)
  ELSE IF Exp(a) = ExpMax \/ b % Top = 0 THEN Invalid
  ELSE IF Exp(b) = ExpMax \/ a % Top = 0 \/ diff < -1 THEN Exactly(a)
  ELSE Reduce(Sign(a), nb.exp, diff, sig, (nb.sig + Hidden) * 2^(G + 1))

-----------------------------------------------------------------------------
(* Comparisons *)

BothZero(a, b) == a % Top = 0 /\ b % Top = 0

\* Nothing is less than, equal to or greater than what is not a number.
Ordered(a, b, quiet, result) ==
  IF ~AnyNaN(a, b) THEN Exactly(result)
  ELSE Float(FALSE, IF \/ ~quiet
                       \/ float32_is_signaling_nan(a) \/ float32_is_signaling_nan(b)
                    THEN {"invalid"} ELSE {})

eq(a, b, quiet) == Ordered(a, b, quiet, a = b \/ BothZero(a, b))
le(a, b, quiet) ==
  Ordered(a, b, quiet, IF Sign(a) # Sign(b) THEN Sign(a) \/ BothZero(a, b)
                       ELSE a = b \/ Sign(a) # (a < b))
lt(a, b, quiet) ==
  Ordered(a, b, quiet, IF Sign(a) # Sign(b) THEN Sign(a) /\ ~BothZero(a, b)
                       ELSE a # b /\ Sign(a) # (a < b))

float32_eq(a, b) == eq(a, b, TRUE)
float32_le(a, b) == le(a, b, FALSE)
float32_lt(a, b) == lt(a, b, FALSE)
float32_eq_signaling(a, b) == eq(a, b, FALSE)
float32_le_quiet(a, b) == le(a, b, TRUE)
float32_lt_quiet(a, b) == lt(a, b, TRUE)

-----------------------------------------------------------------------------
(* softfloat-glue.c: what the compiler calls for an operator.  A comparison returns an int *)

AsInt(condition) == IF condition THEN 1 ELSE 0

eqsf2(a, b) == AsInt(~float32_eq(a, b).z)
nesf2(a, b) == AsInt(~float32_eq(a, b).z)
gtsf2(a, b) == AsInt(~float32_le(a, b).z)
gesf2(a, b) == AsInt(~float32_lt(a, b).z)
ltsf2(a, b) == AsInt(float32_lt(a, b).z)
lesf2(a, b) == AsInt(~float32_le(a, b).z)
negsf2(a) == Word(a + Top)
floatsisf(a) == int32_to_float32(a)
fixsfsi(a) == float32_to_int32_round_to_zero(a)
fixunssfsi(a) == fixsfsi(a)
=============================================================================
