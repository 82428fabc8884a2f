------------------------------ MODULE Rational ------------------------------
(***************************************************************************)
(* Exact rational arithmetic standing in for the C++ doubles of the OGL    *)
(* shape code.  A finite value is <<n, d>> with d > 0 and gcd(n, d) = 1.   *)
(* Every non-finite double (+inf, -inf, NaN) is abstracted into the one    *)
(* value NonFinite = <<0, 0>>: it is what a division by zero yields, it    *)
(* absorbs every operation it takes part in, and every comparison with it  *)
(* is false (as every comparison with NaN is in IEEE 754).  Rounding is    *)
(* not modelled: the model computes the exact value the double            *)
(* approximates.                                                           *)
(***************************************************************************)
EXTENDS Integers

NonFinite == <<0, 0>>

IsFinite(a) == a[2] # 0

IntAbs(i) == IF i < 0 THEN -i ELSE i

RECURSIVE GCD(_, _)
GCD(a, b) == IF b = 0 THEN a ELSE GCD(b, a % b)

\* The normalised fraction n / d; a zero denominator is a division by zero.
Frac(n, d) ==
    IF d = 0 THEN NonFinite
    ELSE LET g == GCD(IntAbs(n), IntAbs(d))
             s == IF d < 0 THEN -1 ELSE 1
         IN  <<(s * n) \div g, (s * d) \div g>>

\* The double holding the integer i.
R(i) == <<i, 1>>

RAdd(a, b) ==
    IF IsFinite(a) /\ IsFinite(b)
    THEN Frac(a[1] * b[2] + b[1] * a[2], a[2] * b[2])
    ELSE NonFinite

RNeg(a) == <<-a[1], a[2]>>

RSub(a, b) == RAdd(a, RNeg(b))

RMul(a, b) ==
    IF IsFinite(a) /\ IsFinite(b) THEN Frac(a[1] * b[1], a[2] * b[2])
    ELSE NonFinite

RDiv(a, b) ==
    IF IsFinite(a) /\ IsFinite(b) THEN Frac(a[1] * b[2], a[2] * b[1])
    ELSE NonFinite

\* fabs
RAbs(a) == <<IntAbs(a[1]), a[2]>>

\* a < b, false whenever either side is non-finite
RLt(a, b) == IsFinite(a) /\ IsFinite(b) /\ a[1] * b[2] < b[1] * a[2]

\* wxMin / wxMax are (a < b) ? a : b and (a > b) ? a : b
RMin(a, b) == IF RLt(a, b) THEN a ELSE b
RMax(a, b) == IF RLt(b, a) THEN a ELSE b

=============================================================================
