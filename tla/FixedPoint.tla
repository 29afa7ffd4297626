----------------------------- MODULE FixedPoint -----------------------------
(***************************************************************************)
(* The fixed-point arithmetic of glow_program_common: an integer counts    *)
(* units of 1/One, with products and quotients truncated.  One is 10^15 in *)
(* Number (unsigned) and 10^10 in Number128 (signed); it is a parameter    *)
(* here so that TLC reaches the truncations with small numbers.            *)
(* U192 subtraction panics below zero: the users of this module guard it.  *)
(***************************************************************************)
EXTENDS Integers

CONSTANT One

ASSUME OneAssumption == One \in Nat \ {0}

BpsUnit == 10000

FromInt(n) == n * One                     \* Number::from(n)
FromBps(b) == (b * One) \div BpsUnit      \* Number::from_bps(b)

Mul(a, b) == (a * b) \div One
Div(a, b) == (a * One) \div b

AsInt(a) == a \div One                    \* as_u64(0)

AsIntCeil(a) == (a + One - 1) \div One    \* as_u64_ceil(0)

AsBps(a) == (a * BpsUnit) \div One        \* as_u64(BPS_EXPONENT)

SaturatingSub(a, b) == IF a < b THEN 0 ELSE a - b

AtLeast(a, b) == IF a < b THEN b ELSE a   \* std::cmp::max

\* expm1_approx: the first `terms' terms of the series of e^x - 1, with the
\* power of x and the factorial carried along.
Expm1Approx(x, terms) ==
    LET sum[k \in 1 .. terms] ==
            IF k = 1
            THEN [power |-> x, factorial |-> 1, total |-> x]
            ELSE LET prev == sum[k - 1]
                     power == Mul(prev.power, x)
                     factorial == prev.factorial * k
                 IN  [power |-> power, factorial |-> factorial,
                      total |-> prev.total + power \div factorial]
    IN  IF terms = 0 THEN 0 ELSE sum[terms].total

\* Linear interpolation between (x0, y0) and (x1, y1), for x0 <= x <= x1.
Interpolate(x, x0, x1, y0, y1) == y0 + Div(Mul(x - x0, y1 - y0), x1 - x0)
=============================================================================
