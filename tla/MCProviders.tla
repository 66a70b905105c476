---------------------------- MODULE MCProviders ----------------------------
(* Two connections with a model each; the dearer model is verified free.  One
   bundle moves the first connection, the other keeps it and retires its model. *)
EXTENDS Providers, TLC

CONSTANTS c1, c2, m1, m2, e1, e2

OneEach == m1 :> c1 @@ m2 :> c2
Moving ==
  [connection |-> c1, endpoint |-> e2, enabled |-> TRUE, script |-> None, active |-> {m1}, strategy |-> "lowest_cost",
   free |-> FALSE, targets |-> <<[model |-> m1, enabled |-> TRUE]>>]
Retiring ==
  [Moving EXCEPT !.endpoint = e1, !.script = 0, !.active = {}, !.strategy = "ordered_fallback", !.free = TRUE]
TwoBundles == {Moving, Retiring}
DearerFirst == m1 :> 2 @@ m2 :> 1
=============================================================================
