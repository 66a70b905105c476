----------------------------- MODULE MCMediaJobs -----------------------------
(* Instances of MediaJobs for TLC: no limit policies and no prices, so that   *)
(* only the lifecycle half of Accounting is at work.                         *)
EXTENDS MediaJobs

CONSTANTS r1, r2, a1, a2, k1, c1, u1

McRequestOf == [j \in Jobs |-> IF j = 1 THEN r1 ELSE r2]
McAttemptOf == [j \in Jobs |-> IF j = 1 THEN a1 ELSE a2]
McDrivers == <<Replicate, Together>>
McGemini == <<Gemini>>
McOwner == [k \in Keys |-> u1]
McGrants == {Keys \X Connections}
None == [p \in {} |-> 0]
=============================================================================
