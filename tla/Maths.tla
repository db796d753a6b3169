------------------------------- MODULE Maths -------------------------------
(***************************************************************************)
(* math.c of libc: the rounding functions, pow and the range reduction of  *)
(* sin, over a floating-point format of Precision bits (a double has 53).  *)
(* A number is a count of the format's smallest quantum and 1.0 is Unit of *)
(* them; every operation rounds to the nearest representable number, ties  *)
(* to even. Infinities, NaNs and the accuracy of the series are left out.  *)
(***************************************************************************)
EXTENDS Integers

CONSTANTS
    Precision,    \* bits of the mantissa
    Scales,       \* how often the distance between numbers doubles
    Unit,         \* the number 1.0, a power of two
    MaxReal,      \* largest magnitude given to the rounding functions
    Exponents,    \* magnitudes of the exponents given to pow
    Pi,           \* M_PI in the format
    MaxAngle      \* largest magnitude given to sin

\* The powers of two that the format reaches.
TwoTo[n \in 0..(Precision + Scales)] == IF n = 0 THEN 1 ELSE 2 * TwoTo[n - 1]

ASSUME MathsAssumption ==
    /\ Precision \in Nat /\ Precision >= 2 /\ Scales \in Nat \ {0}
    /\ \E u \in Precision..(Precision + Scales - 1) : Unit = TwoTo[u]
    /\ {MaxReal, MaxAngle} \subseteq 0..TwoTo[Precision + Scales - 1]
    /\ Exponents \subseteq Nat

VARIABLES
    m_given,      \* the argument of the call (the exponent of pow)
    m_base,       \* pow's base: "zero", "two" or "other"; "angle" in sin, else "none"
    m_x,          \* the argument as the call has changed it
    m_power,      \* pow's result is base to this power
    m_b,          \* pow's b is base to this power
    m_n,          \* pow's n
    math_pc       \* "pow", "loop", "sin", "back", "done"

mathVars == <<m_given, m_base, m_x, m_power, m_b, m_n, math_pc>>

Magnitude(k) == IF k < 0 THEN -k ELSE k

\* The distance between the representable numbers around k.
Spacing(k) ==
    LET s == CHOOSE j \in 0..Scales : /\ k < TwoTo[Precision + j]
                                      /\ j = 0 \/ k >= TwoTo[Precision + j - 1]
    IN  TwoTo[s]

\* k / d for d > 0, rounded to the format.
Rounded(k, d) ==
    LET m == Magnitude(k)
        s == Spacing(m \div d)
        q == m \div (d * s)
        r == m % (d * s)
        up == 2 * r > d * s \/ (2 * r = d * s /\ q % 2 = 1)
        v == (IF up THEN q + 1 ELSE q) * s
    IN  IF k < 0 THEN -v ELSE v

Floats(limit) == {k \in -limit..limit : Rounded(k, 1) = k}

ASSUME PiAssumption == Pi \in 1..TwoTo[Precision + Scales - 1] /\ Rounded(Pi, 1) = Pi

-----------------------------------------------------------------------------
\* (double)(long)k, the cast that rounds towards zero.
Cast(k) == IF k < 0 THEN -(Unit * ((-k) \div Unit)) ELSE Unit * (k \div Unit)

\* 0.9999999999999999, the largest number below 1.0.
AlmostOne == Unit - Unit \div TwoTo[Precision]

Floor(k) == IF k >= 0 THEN Cast(k) ELSE Cast(Rounded(k - AlmostOne, 1))

Ceil(k) == IF k >= 0 THEN Cast(Rounded(k + AlmostOne, 1)) ELSE Cast(k)

Trunc(k) == IF k >= 0 THEN Floor(k) ELSE Ceil(k)

Round(k) ==
    IF k >= 0 THEN Floor(Rounded(k + Unit \div 2, 1))
              ELSE Ceil(Rounded(k - Unit \div 2, 1))

-----------------------------------------------------------------------------
MathReturn(p) ==
    m_power' = p /\ math_pc' = "done" /\ UNCHANGED <<m_given, m_base, m_x, m_b, m_n>>

\* pow's early returns: base^0 is 1, 0 to any other power is 0, base^1 is base.
PowAtOnce ==
    /\ math_pc = "pow"
    /\ \/ m_x = 0 /\ MathReturn(0)
       \/ (m_x = Unit \/ (m_x # 0 /\ m_base = "zero")) /\ MathReturn(1)

Whole(k) == k = Cast(k)

\* An integer exponent: a negative one is made positive and b is inverted.
PowWhole ==
    /\ math_pc = "pow" /\ m_x \notin {0, Unit} /\ m_base # "zero" /\ Whole(m_x)
    /\ m_n' = Magnitude(m_x) \div Unit
    /\ m_b' = IF m_x < 0 THEN -1 ELSE 1
    /\ m_power' = 0
    /\ math_pc' = "loop"
    /\ UNCHANGED <<m_given, m_base, m_x>>

\* log2(2), as its series computes it.
Log2OfTwo == AlmostOne

Exp2(e) == m_base' = "two" /\ m_x' = e      \* pow(2, e)

\* Any other exponent: exp2(exp * log2(base)); the log2 of another base is
\* some number.
PowFraction ==
    /\ math_pc = "pow" /\ m_base # "zero" /\ ~Whole(m_x)
    /\ \/ m_base = "two" /\ Exp2(Rounded(m_x * Log2OfTwo, Unit))
       \/ m_base = "other" /\ \E e \in Exponents : Exp2(e) \/ Exp2(-e)
    /\ UNCHANGED <<m_given, m_power, m_b, m_n, math_pc>>

\* Mutant of PowLoop: b is squared before it is used.
PowLoopLate ==
    /\ math_pc = "loop"
    /\ m_b' = 2 * m_b
    /\ m_power' = IF m_n % 2 = 1 THEN m_power + m_b' ELSE m_power
    /\ m_n' = m_n \div 2
    /\ math_pc' = IF m_n' > 0 THEN "loop" ELSE "done"
    /\ UNCHANGED <<m_given, m_base, m_x>>

\* The loop on the bits of n.
PowLoop ==
    /\ math_pc = "loop"
    /\ m_power' = IF m_n % 2 = 1 THEN m_power + m_b ELSE m_power
    /\ m_b' = 2 * m_b
    /\ m_n' = m_n \div 2
    /\ math_pc' = IF m_n' > 0 THEN "loop" ELSE "done"
    /\ UNCHANGED <<m_given, m_base, m_x>>

\* The two loops that bring the angle of sin into [-pi, pi].
SinReduce ==
    /\ math_pc = "sin"
    /\ IF m_x > Pi THEN m_x' = Rounded(m_x - 2 * Pi, 1) /\ math_pc' = "sin"
                 ELSE m_x' = m_x /\ math_pc' = "back"
    /\ UNCHANGED <<m_given, m_base, m_power, m_b, m_n>>

SinRaise ==
    /\ math_pc = "back"
    /\ IF m_x < -Pi THEN m_x' = Rounded(m_x + 2 * Pi, 1) /\ math_pc' = "back"
                  ELSE m_x' = m_x /\ math_pc' = "done"
    /\ UNCHANGED <<m_given, m_base, m_power, m_b, m_n>>

-----------------------------------------------------------------------------
MathRest ==
    /\ m_given = 0 /\ m_base = "none" /\ m_x = 0 /\ math_pc = "done"
    /\ m_power = 0 /\ m_b = 0 /\ m_n = 0

MathInit ==
    /\ \/ math_pc = "done" /\ m_base = "none" /\ m_given \in Floats(MaxReal)
       \/ /\ math_pc = "pow" /\ m_base \in {"zero", "two", "other"}
          /\ \E e \in Exponents : m_given \in {e, -e}
       \/ math_pc = "sin" /\ m_base = "angle" /\ m_given \in Floats(MaxAngle)
    /\ m_x = m_given /\ m_power = 0 /\ m_b = 0 /\ m_n = 0

MathNext ==
    \/ PowAtOnce \/ PowWhole \/ PowFraction \/ PowLoop
    \/ SinReduce \/ SinRaise

MathSpec == MathInit /\ [][MathNext]_mathVars /\ WF_mathVars(MathNext)

-----------------------------------------------------------------------------
\* How much too far from zero the sum of k and 0.9999999999999999 ends: one, when
\* k is an integer and the next one is a number of the format too; one too few,
\* when k vanishes in the sum.
Slip(k) ==
    CASE k # 0 /\ Whole(k) /\ Spacing(Magnitude(k)) =< Unit -> Unit
      [] k # 0 /\ 2 * Magnitude(k) < Unit - AlmostOne        -> -Unit
      [] OTHER                                               -> 0

RoundsAt(x) ==
    LET below(k) == Unit * (k \div Unit)
        half == Unit \div 2
        near == IF x < 0 THEN -below(half - x) ELSE below(x + half)
    IN  /\ Floor(x) = below(x) - (IF x < 0 THEN Slip(x) ELSE 0)
        /\ Ceil(x) = -below(-x) + (IF x > 0 THEN Slip(x) ELSE 0)
        /\ Trunc(x) = IF x < 0 THEN -below(-x) ELSE below(x)
        /\ \/ Round(x) = near
           \/ /\ Magnitude(Round(x)) = Magnitude(near) + Unit
              /\ \/ Magnitude(x) + Spacing(Magnitude(x)) = half
                 \/ Spacing(Magnitude(x)) = Unit /\ (x \div Unit) % 2 = 1

RoundsRight == math_pc = "done" /\ m_base = "none" => RoundsAt(m_given)

PowersRight ==
    math_pc = "done" /\ m_base \in {"two", "other"} /\ Whole(m_given) =>
        m_power = IF m_given < 0 THEN -((-m_given) \div Unit) ELSE m_given \div Unit

\* The angle k, brought into [-pi, pi] by at most one turn.
OneTurn(k) == IF k > Pi THEN k - 2 * Pi ELSE IF k < -Pi THEN k + 2 * Pi ELSE k

ReducesRight ==
    math_pc = "done" /\ m_base = "angle" =>
        /\ m_x \in -Pi..Pi
        /\ Magnitude(m_given) =< 3 * Pi => m_x = OneTurn(m_given)

\* floor and ceil give the integer next to their argument, below or above, but
\* for the Slip of floor on negative numbers and of ceil on positive ones; trunc,
\* built from them, never meets those cases and is right everywhere; round is
\* right but for the number just below one half, whose sum with 0.5 rounds to
\* 1.0, and for the odd integers so large that the sum lies halfway between two
\* numbers. pow multiplies the base exactly as often as an integer exponent says.
\* sin's two loops leave an angle in [-pi, pi] although each step rounds, and up to
\* 3 pi it is the angle given, less one turn if it needs one, to the last bit;
\* further out the rounding of the steps adds up and nothing is said of its size.
MathsRight == RoundsRight /\ PowersRight /\ ReducesRight

\* What the comment "For non-integer exponents, use approximation" promises:
\* every call of pow comes back with a result.
PowReturns == math_pc = "pow" ~> math_pc = "done"
=============================================================================
