----------------------------- MODULE MCResources -----------------------------
(* Instances of Resources for TLC: a key of one owner. *)
EXTENDS Resources, TLC

CONSTANTS k1, u1, f1, m1, s1, x1, g1, n1

OneOwner == [k \in Keys |-> u1]
TwoBytes == [g \in GeminiUploads |-> <<1, 2>>]
==============================================================================
