---------------------------- MODULE FastDecimal ----------------------------
(***************************************************************************)
(* FastDecimal of interface/fastdecimal.h: a number with a count of        *)
(* decimals, kept unrounded and rounded when it is read.  A double is here *)
(* a fraction of units of 10^-Decimals, so nothing is lost but by that     *)
(* rounding, which also takes off the errors of products; those of the     *)
(* quotients that InstrumentInfo rounds are there.  In the code the last   *)
(* four bits of the mantissa are the count.                                *)
(***************************************************************************)
EXTENDS Integers

CONSTANTS Decimals    \* the most decimals a number has; a count of 15 is not rounded to

ASSUME DecimalsAssumption == Decimals \in 0 .. 14

\* Arithmetic: the powers of ten are what ^ is taken to mean.
ASSUME PowersOfTen == \A n \in 0 .. Decimals : 10 ^ n \in Nat \ {0}

\* The number 1.0.
One == 10 ^ Decimals

\* A FastDecimal from a whole count of units.
Dec(units, decimals) == [value |-> units, over |-> 1, decimals |-> decimals]

\* std::round of v / grain: halves away from zero.
Round(v, grain) ==
    IF v >= 0 THEN (2 * v + grain) \div (2 * grain) ELSE -((grain - 2 * v) \div (2 * grain))

\* Also the conversion to double: whole units.
get_rounded(d) ==
    LET grain == 10 ^ (Decimals - d.decimals) IN Round(d.value, d.over * grain) * grain

\* The result of an operation on two numbers has the greater count of decimals.
Minus(a, b) ==
    [value    |-> a.value * b.over - b.value * a.over,
     over     |-> a.over * b.over,
     decimals |-> IF a.decimals > b.decimals THEN a.decimals ELSE b.decimals]

Negative(a) == [a EXCEPT !.value = -@]

\* Operations with a double keep the count; the double is n / d, with d positive.
Times(a, n, d) == [a EXCEPT !.value = @ * n, !.over = @ * d]

\* 1.0 / a, for a positive a.
Reciprocal(a) == [a EXCEPT !.value = One * One * a.over, !.over = a.value]
=============================================================================
