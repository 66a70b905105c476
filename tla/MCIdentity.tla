----------------------------- MODULE MCIdentity -----------------------------
(* Users and handlers are interchangeable. *)
EXTENDS Identity, TLC

Symmetric == Permutations(Users) \cup Permutations(Handlers)
=============================================================================
