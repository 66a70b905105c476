----------------------------- MODULE MCProjection -----------------------------
(* Instances of Projection for TLC. *)
EXTENDS Projection

CONSTANTS r1, r2, a1, a2, k1, c1, c2, u1, v1, v2

McOwner == [k \in Keys |-> u1]
NoPolicy == [p \in Policies |-> 0]
McRate == [v \in Prices |-> IF v = v1 THEN 1 ELSE 2]
McDeltas == {-1}
\* The order in which Recover and ApplyReprice take attempts is a CHOOSE, so
\* only connections are interchangeable.
Sym == Permutations(Connections)
AllGranted == {Keys \X Connections}
=============================================================================
