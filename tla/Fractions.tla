----------------------------- MODULE Fractions -----------------------------
(***************************************************************************)
(* Exact rational numbers <<numerator, denominator>> in lowest terms with  *)
(* a positive denominator.  The joules and weights the Rust code holds in  *)
(* f64 are modelled by them, so "equal up to floating point" is equality.  *)
(***************************************************************************)
EXTENDS Integers, Functions

(* n / d, for d > 0: the least denominator it can be written with. *)
Denominates(k, n, d) == (n * k) % d = 0
LeastDenominator(n, d) ==
    CHOOSE k \in 1..d : Denominates(k, n, d) /\ \A j \in 1..(k - 1) : ~Denominates(j, n, d)
Frac(n, d) == LET k == LeastDenominator(n, d) IN <<(n * k) \div d, k>>

Zero   == <<0, 1>>
One    == <<1, 1>>
Whole(n) == <<n, 1>>

Plus(a, b)  == Frac(a[1] * b[2] + b[1] * a[2], a[2] * b[2])
Minus(a, b) == Frac(a[1] * b[2] - b[1] * a[2], a[2] * b[2])
Times(a, b) == Frac(a[1] * b[1], a[2] * b[2])
Over(a, b)  == Frac(a[1] * b[2], a[2] * b[1])
AtMost(a, b) == a[1] * b[2] <= b[1] * a[2]

(* The sum of f[x] for x in the finite set S, and in the whole domain of f. *)
TotalOn(f, S) == FoldFunctionOnSet(Plus, Zero, f, S)
Total(f) == TotalOn(f, DOMAIN f)
=============================================================================
