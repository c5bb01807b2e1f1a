---------------------------- MODULE WeightedSums ----------------------------
(***************************************************************************)
(* Sums over an interval of indices, plain and geometrically weighted: what*)
(* the definitions of the indicators are made of.  Power takes the place of*)
(* the operator ^, which says nothing of 0^0.                              *)
(***************************************************************************)
EXTENDS Integers, Functions

SumOver(f, from, to) == SumFunctionOnSet(f, from..to)

Power(b, n) == LET power[k \in Nat] == IF k = 0 THEN 1 ELSE b * power[k - 1]
               IN power[n]

\* Sum of f[from], ..., f[to] with weights that go from p^(to - from) to
\* q^(to - from).
Weighted(f, from, to, p, q) ==
    SumFunction([j \in from..to |-> f[j] * (Power(p, to - j) * Power(q, j - from))])
=============================================================================
