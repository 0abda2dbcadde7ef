----------------------------- MODULE FloatSpec -----------------------------
(***************************************************************************)
(* What the floating point of Softfloat promises: every operation returns  *)
(* the number that the rounding mode chooses among the two that the exact  *)
(* result lies between, and raises the exceptions that belong to it.  The  *)
(* exact result is a fraction n / d times a power of two.                  *)
(***************************************************************************)
EXTENDS Softfloat

VARIABLE operand            \* the first one; the properties try every second one

floatVars == <<float_rounding_mode, operand>>

FloatInit == float_rounding_mode = "nearest_even" /\ operand = 0
SetMode == \E m \in Modes : float_rounding_mode' = m /\ UNCHANGED operand
SetOperand == \E a \in Words : operand' = a /\ UNCHANGED float_rounding_mode

-----------------------------------------------------------------------------
(* A number is Mantissa(a) * 2^Power(a) *)

Mantissa(a) == Frac(a) + (IF Exp(a) = 0 THEN 0 ELSE Hidden)
Power(a) == (IF Exp(a) = 0 THEN 1 ELSE Exp(a)) - Bias - FracBits
Signed(a) == IF Sign(a) THEN -Mantissa(a) ELSE Mantissa(a)
LeastPower == 1 - Bias - FracBits
Abs(x) == IF x < 0 THEN -x ELSE x
Length(n) == CHOOSE l \in 0..30 : n < 2^l /\ (l = 0 \/ 2^(l - 1) <= n)

\* n / d, n > 0, as a natural number: what is left is compared with a half.
RoundAt(mode, negative, n, d) ==
  LET low == n \div d
      twice == 2 * (n % d)
      away == CASE mode = "nearest_even" -> twice > d \/ (twice = d /\ low % 2 = 1)
                [] mode = "to_zero"      -> FALSE
                [] mode = "up"           -> ~negative /\ n % d # 0
                [] mode = "down"         -> negative /\ n % d # 0
  IN  low + Flag(away)

\* n/d * 2^k in units of 2^q.
RoundTo(negative, n, d, k, q) ==
  IF q >= k THEN RoundAt(float_rounding_mode, negative, n, d * 2^(q - k))
            ELSE RoundAt(float_rounding_mode, negative, n * 2^(k - q), d)
IsMultiple(n, d, k, q) ==
  IF q >= k THEN n % (d * 2^(q - k)) = 0 ELSE (n * 2^(k - q)) % d = 0

\* The power of two at or below n / d.
Log(n, d) ==
  CHOOSE p \in (Length(n) - Length(d) - 1)..(Length(n) - Length(d)) :
    IF p >= 0 THEN d * 2^p <= n /\ n < d * 2^(p + 1)
              ELSE d <= n * 2^(-p) /\ n * 2^(-p) < 2 * d

GreatestPower == ExpMax - 1 - Bias - FracBits

Rounded(negative, n, d, k) ==
  LET free == Log(n, d) + k - FracBits            \* were there no least exponent
      q == IF free > LeastPower THEN free ELSE LeastPower
      m == RoundTo(negative, n, d, k, q)
      tiny == /\ free < LeastPower
              /\ ~(free = LeastPower - 1 /\ RoundTo(negative, n, d, k, free) = 2 * Hidden)
      inexact == ~IsMultiple(n, d, k, q)
      toInfinity == \/ float_rounding_mode = "nearest_even"
                    \/ float_rounding_mode = "up" /\ ~negative
                    \/ float_rounding_mode = "down" /\ negative
  IN
  IF q > GreatestPower \/ (q = GreatestPower /\ m = 2 * Hidden)
  THEN Float(Infinity(negative) - Flag(~toInfinity), {"overflow", "inexact"})
  ELSE Float(Flag(negative) * Top + (q - LeastPower) * Hidden + m,
             (IF inexact THEN {"inexact"} ELSE {}) \cup
             (IF inexact /\ tiny THEN {"underflow"} ELSE {}))

-----------------------------------------------------------------------------
(* The operations on finite numbers *)

Common(a, b) == IF Power(a) < Power(b) THEN Power(a) ELSE Power(b)
InUnits(a, k) == Mantissa(a) * 2^(Power(a) - k)
SignedIn(a, k) == (IF Sign(a) THEN -1 ELSE 1) * InUnits(a, k)

\* An exact zero is negative if both terms are, or if one is and it is rounded down.
Sum(a, b) ==
  LET s == SignedIn(a, Common(a, b)) + SignedIn(b, Common(a, b))
  IN  IF s # 0 THEN Rounded(s < 0, Abs(s), 1, Common(a, b))
      ELSE Exactly(Zero(IF Sign(a) = Sign(b) THEN Sign(a) ELSE float_rounding_mode = "down"))

Product(a, b) ==
  LET negative == Sign(a) # Sign(b)
      n == Mantissa(a) * Mantissa(b)
  IN  IF n = 0 THEN Exactly(Zero(negative)) ELSE Rounded(negative, n, 1, Power(a) + Power(b))

Ratio(a, b) ==
  LET negative == Sign(a) # Sign(b)
  IN  IF Mantissa(a) = 0 THEN Exactly(Zero(negative))
      ELSE Rounded(negative, Mantissa(a), Mantissa(b), Power(a) - Power(b))

\* a - b * n, n being the whole number next to a / b, the even one if there are two.
Remainder(a, b) ==
  LET k == Common(a, b)
      x == InUnits(a, k)
      y == InUnits(b, k)
      up == 2 * (x % y) > y \/ (2 * (x % y) = y /\ (x \div y) % 2 = 1)
      r == IF up THEN (x % y) - y ELSE x % y
  IN  IF r = 0 THEN Exactly(Zero(Sign(a))) ELSE Rounded(Sign(a) # (r < 0), Abs(r), 1, k)

IsInf(a) == a % Top = Infinity(FALSE)
IsZero(a) == a % Top = 0

\* One that is not a number, quiet.
NaNResult(a, b) ==
  [z |-> {Quiet(x) : x \in {y \in {a, b} : float32_is_nan(y)}},
   raised |-> IF \E x \in {a, b} : float32_is_signaling_nan(x) THEN {"invalid"} ELSE {}]

ExpectedSum(a, b) ==
  IF IsInf(a) /\ IsInf(b) /\ Sign(a) # Sign(b) THEN Invalid
  ELSE IF IsInf(a) THEN Exactly(a) ELSE IF IsInf(b) THEN Exactly(b) ELSE Sum(a, b)

ExpectedProduct(a, b) ==
  IF (IsInf(a) /\ IsZero(b)) \/ (IsZero(a) /\ IsInf(b)) THEN Invalid
  ELSE IF IsInf(a) \/ IsInf(b) THEN Exactly(Infinity(Sign(a) # Sign(b))) ELSE Product(a, b)

ExpectedRatio(a, b) ==
  IF (IsInf(a) /\ IsInf(b)) \/ (IsZero(a) /\ IsZero(b)) THEN Invalid
  ELSE IF IsInf(a) THEN Exactly(Infinity(Sign(a) # Sign(b)))
  ELSE IF IsInf(b) THEN Exactly(Zero(Sign(a) # Sign(b)))
  ELSE IF IsZero(b) THEN Float(Infinity(Sign(a) # Sign(b)), {"divbyzero"}) ELSE Ratio(a, b)

ExpectedRemainder(a, b) ==
  IF IsInf(a) \/ IsZero(b) THEN Invalid
  ELSE IF IsInf(b) THEN Exactly(a) ELSE Remainder(a, b)

Right(result, a, b, expected) ==
  IF AnyNaN(a, b)
  THEN result.z \in NaNResult(a, b).z /\ result.raised = NaNResult(a, b).raised
  ELSE result = expected

-----------------------------------------------------------------------------
(* Integers *)

IntOf(w) == IF w >= Top THEN w - 2^W ELSE w

FromInt(w) ==
  IF w = 0 THEN Exactly(0) ELSE Rounded(w >= Top, Abs(IntOf(w)), 1, 0)

Whole(a) == Power(a) >= 0 \/ Mantissa(a) % 2^(-Power(a)) = 0
Nearby(mode, a) ==
  IF Power(a) >= 0 THEN Mantissa(a) * 2^Power(a)
  ELSE RoundAt(mode, Sign(a), Mantissa(a), 2^(-Power(a)))

ToInt(mode, a) ==
  LET n == Nearby(mode, a) IN
  IF float32_is_nan(a) THEN Float(Top - 1, {"invalid"})
  ELSE IF IsInf(a) \/ n > Top \/ (n = Top /\ ~Sign(a))
  THEN Float(IF Sign(a) THEN Top ELSE Top - 1, {"invalid"})
  ELSE Float(Word(IF Sign(a) THEN -n ELSE n), Inexact(~Whole(a)))

ToWhole(a) ==
  LET n == Nearby(float_rounding_mode, a) IN
  IF IsInf(a) THEN Exactly(a)
  ELSE Float(IF n = 0 THEN Zero(Sign(a)) ELSE Rounded(Sign(a), n, 1, 0).z, Inexact(~Whole(a)))

-----------------------------------------------------------------------------
(* Order *)

Less(a, b) ==
  LET Order(x) == (IF Sign(x) THEN -1 ELSE 1) *
                  (IF IsInf(x) THEN 2^30 ELSE InUnits(x, LeastPower))
  IN  Order(a) < Order(b)
Same(a, b) == ~Less(a, b) /\ ~Less(b, a)

Compared(result, a, b, quiet, expected) ==
  IF AnyNaN(a, b)
  THEN /\ ~result.z
       /\ result.raised = IF quiet THEN NaNResult(a, b).raised ELSE {"invalid"}
  ELSE result = Exactly(expected)

-----------------------------------------------------------------------------
(* Properties *)

\* Sums, differences, products, ratios and remainders are those of exact arithmetic, rounded
\* once in the direction in force, with the exceptions that tell what was lost: whatever the
\* operands, subnormal, infinite and not a number included.
ArithmeticRight ==
  LET a == operand IN
  \A b \in Words :
    /\ Right(float32_add(a, b), a, b, ExpectedSum(a, b))
    /\ Right(float32_sub(a, b), a, b, ExpectedSum(a, negsf2(b)))
    /\ Right(float32_mul(a, b), a, b, ExpectedProduct(a, b))
    /\ Right(float32_div(a, b), a, b, ExpectedRatio(a, b))
    /\ Right(float32_rem(a, b), a, b, ExpectedRemainder(a, b))

\* An integer becomes the number next to it, and a number the integer next to it, or the
\* last one on its side; rounding to a whole number keeps the sign of zero.
ConversionsRight ==
  LET a == operand IN
  /\ int32_to_float32(a) = FromInt(a)
  /\ float32_to_int32(a) = ToInt(float_rounding_mode, a)
  /\ float32_to_int32_round_to_zero(a) = ToInt("to_zero", a)
  /\ Right(float32_round_to_int(a), a, a, ToWhole(a))

\* What a comparison in a C program says: the compiler tests the int that it gets back.
Compiled(operator, a, b) ==
  CASE operator = "==" -> eqsf2(a, b) = 0
    [] operator = "!=" -> nesf2(a, b) # 0
    [] operator = ">"  -> gtsf2(a, b) > 0
    [] operator = ">=" -> gesf2(a, b) >= 0
    [] operator = "<"  -> ltsf2(a, b) < 0
    [] operator = "<=" -> lesf2(a, b) <= 0

\* The comparisons are those of the numbers' values, false for what is not a number.  So are
\* the operators of a C program, of numbers, but for two: < never holds ("fix that ... '<'
\* operator", vsnprintf.c:205) and >= always does, because what is returned for them is 1 or 0
\* where the sign is tested.  The rounding mode has no part in this: one mode is enough.
ComparisonsRight ==
  LET a == operand IN
  float_rounding_mode = "nearest_even" => \A b \in Words :
    /\ \A quiet \in BOOLEAN :
         /\ Compared(eq(a, b, quiet), a, b, quiet, Same(a, b))
         /\ Compared(le(a, b, quiet), a, b, quiet, ~Less(b, a))
         /\ Compared(lt(a, b, quiet), a, b, quiet, Less(a, b))
    /\ ~AnyNaN(a, b) =>
         /\ Compiled("==", a, b) = Same(a, b) /\ Compiled("!=", a, b) = ~Same(a, b)
         /\ Compiled(">", a, b) = Less(b, a) /\ Compiled("<=", a, b) = ~Less(b, a)
         /\ ~Compiled("<", a, b) /\ Compiled(">=", a, b)

\* The processor has no floating point; the firmware computes as if it had.
FloatsRight == ArithmeticRight /\ ConversionsRight /\ ComparisonsRight
=============================================================================
