----------------------------- MODULE MCAccounting -----------------------------
(* Instances of Accounting for TLC. *)
EXTENDS Accounting, TLC

CONSTANTS
  r1, r2, a1, a2, k1, c1, c2, u1, v1, v2,
  tokenWindow, spendQuota, tokenBucket, requestWindow, userSlots, targetSlots

SymAttempts == Permutations(Attempts)
Sym == Permutations(Requests) \cup SymAttempts

\* Who and what a policy of each name governs.
McOwner == [k \in Keys |-> u1]
McMetric == [p \in Policies |->
  CASE p \in {tokenWindow, tokenBucket} -> "tokens"
    [] p = spendQuota -> "spend"
    [] p = requestWindow -> "requests"
    [] OTHER -> "concurrency"]
McAlgorithm == [p \in Policies |->
  CASE p \in {tokenWindow, requestWindow} -> "fixed_window"
    [] p = spendQuota -> "quota"
    [] p = tokenBucket -> "token_bucket"
    [] OTHER -> "concurrency"]
McScopeKind == [p \in Policies |->
  CASE p \in {tokenWindow, userSlots} -> "user"
    [] p = targetSlots -> "connection"
    [] p = requestWindow -> "key"
    [] OTHER -> "instance"]
McScopeId == [p \in Policies |->
  CASE McScopeKind[p] = "connection" -> c1
    [] McScopeKind[p] = "key" -> k1
    [] OTHER -> u1]
McPeriodLen == [p \in Policies |-> IF McAlgorithm[p] = "fixed_window" THEN 1 ELSE 0]
McRefill == [p \in Policies |-> IF p = tokenBucket THEN 3 ELSE 1]
McInterval == [p \in Policies |-> 2]
McRate == [v \in Prices |-> IF v = v1 THEN 1 ELSE 2]
\* The limit of every policy that nobody changes, and a bucket of three units
\* that an owner switches off and on again.
At(n) == [p \in Policies |-> {[limit |-> n, enabled |-> TRUE]}]
SwitchedBucket == [At(1) EXCEPT ![tokenBucket] = {[limit |-> 3, enabled |-> e] : e \in BOOLEAN}]
LimitThree == At(3)
McDeltas == {-1, 1}
AllGranted == {Keys \X Connections}
AnyGranted == {{}, Keys \X Connections}
=============================================================================
