--------------------------- MODULE AccountingProofs ---------------------------
(***************************************************************************)
(* Proofs about Accounting for every number of requests, attempts, keys,   *)
(* connections and policies and every outbox limit.                        *)
(*                                                                         *)
(* LifeInv is inductive: OneOpenAttempt is what lets Settle, Cancel and    *)
(* Recover, which look at one of the two state columns, keep the other     *)
(* consistent, and LeasesAreLive needs it where a lease of a request is    *)
(* freed with its attempt.                                                 *)
(*                                                                         *)
(* The others build on it. FactInv: the ledger explains the rows, and an   *)
(* open attempt has no settlement. SlotInv: work in flight holds its slot, *)
(* and the slots of a policy fit its limit. QuotaInv: the reserved units   *)
(* of a period are the sum over the open reservations. CountInv: a period  *)
(* has consumed one unit per request that began in it, and no attempt      *)
(* began after the clock.                                                  *)
(***************************************************************************)
EXTENDS Accounting, SumProofs

-----------------------------------------------------------------------------
(* The records of one request, the attempts and the leases. *)

LifeInv == LifeTypeOK /\ OneOpenAttempt /\ LeasesAreLive

\* The initial database satisfies the invariant.
LEMMA InitLife == Init => LifeInv
  BY TimeAssumption DEF Init, LifeInv, LifeTypeOK, OneOpenAttempt, LeasesAreLive, Active, ActiveOf,
         RequestStates, AttemptStates, ActiveStates, SettledStates, Times

\* The effective time of an operation is an instant at or after the clock.
LEMMA EffectiveTimeFact ==
  ASSUME NEW wall \in Times, clock \in Times
  PROVE  EffectiveTime(wall) \in Times /\ EffectiveTime(wall) >= clock
  BY DEF EffectiveTime, Larger, Times

\* An admission opens one attempt of a request that had none open.
LEMMA AdmitLife ==
  ASSUME LifeInv, NEW r \in Requests, NEW a \in Attempts, NEW k \in Keys, NEW c \in Connections,
         NEW est \in Units, NEW wall \in Times, NEW priced \in BOOLEAN,
         Admit(r, a, k, c, est, wall, priced)
  PROVE  LifeInv'
<1>1. rState[r] \in {"absent", "in_progress"} /\ aState[a] = "absent"
  BY DEF Admit, Continues
<1>2. /\ rState' = [rState EXCEPT ![r] = "reserved"]
      /\ rKey' = [rKey EXCEPT ![r] = k]
      /\ aState' = [aState EXCEPT ![a] = "reserved"]
      /\ aReq' = [aReq EXCEPT ![a] = r]
      /\ aConn' = [aConn EXCEPT ![a] = c]
      /\ aStart' = [aStart EXCEPT ![a] = EffectiveTime(wall)]
      /\ clock' = EffectiveTime(wall)
      /\ outbox' = outbox + 1
      /\ leases' = leases \cup PlannedLeases(MatchingPolicies(k, c), r, a)
  BY DEF Admit
<1>3. PlannedLeases(MatchingPolicies(k, c), r, a) \subseteq Policies \X {r, a}
  BY DEF PlannedLeases, MatchingPolicies, LeaseId
<1>4. LifeTypeOK'
  BY <1>2, <1>3, EffectiveTimeFact DEF LifeInv, LifeTypeOK, RequestStates, AttemptStates, ActiveStates
<1>5. Active' = Active \cup {a} /\ a \notin Active
  BY <1>1, <1>2 DEF LifeInv, LifeTypeOK, Active, ActiveStates
<1>6. ActiveOf(r) = {}
  BY <1>1 DEF LifeInv, LifeTypeOK, OneOpenAttempt, ActiveOf
<1>7. OneOpenAttempt'
  <2>1. \A b \in Active' : aReq'[b] \in Requests /\ rState'[aReq'[b]] = "reserved"
    BY <1>2, <1>5 DEF LifeInv, LifeTypeOK, OneOpenAttempt, Active
  <2>2. \A q \in Requests : rState'[q] = "reserved" => ActiveOf(q)' # {}
    <3>1. ASSUME NEW q \in Requests, rState'[q] = "reserved" PROVE ActiveOf(q)' # {}
      <4>1. CASE q = r
        BY <4>1, <1>2, <1>5 DEF ActiveOf, LifeInv, LifeTypeOK
      <4>2. CASE q # r
        <5>1. PICK b \in Active : aReq[b] = q
          BY <3>1, <4>2, <1>2 DEF LifeInv, LifeTypeOK, OneOpenAttempt, ActiveOf
        <5>2. b # a /\ b \in Active' /\ aReq'[b] = q
          BY <5>1, <1>2, <1>5 DEF LifeInv, LifeTypeOK, Active
        <5> QED BY <5>2 DEF ActiveOf
      <4> QED BY <4>1, <4>2
    <3> QED BY <3>1
  <2>3. \A b, d \in Active' : aReq'[b] = aReq'[d] => b = d
    BY <1>2, <1>5, <1>6 DEF LifeInv, LifeTypeOK, OneOpenAttempt, Active, ActiveOf
  <2> QED BY <2>1, <2>2, <2>3 DEF OneOpenAttempt
<1>8. LeasesAreLive'
  <2>1. r \in OpenRequests' /\ OpenRequests \subseteq OpenRequests'
    BY <1>2 DEF LifeInv, LifeTypeOK, OpenRequests
  <2> QED BY <2>1, <1>2, <1>3, <1>5 DEF LifeInv, LeasesAreLive
<1> QED BY <1>4, <1>7, <1>8 DEF LifeInv

\* Closing attempt a with its request moving to a state that is not reserved,
\* and freeing what the attempt held.
LEMMA CloseLife ==
  ASSUME LifeInv, NEW a \in Attempts, NEW state \in AttemptStates \ ActiveStates,
         NEW next \in RequestStates \ {"absent", "reserved"},
         aState[a] \in ActiveStates,
         aState' = [aState EXCEPT ![a] = state],
         rState' = [rState EXCEPT ![aReq[a]] = next],
         leases' \subseteq leases \ LeasesOf(a),
         next # "in_progress" => leases' \subseteq leases \ LeasesOf(aReq[a]),
         outbox' = outbox + 1,
         UNCHANGED <<clock, rKey, aReq, aConn, aStart>>
  PROVE  LifeInv'
<1>1. a \in Active /\ aReq[a] \in Requests /\ rState[aReq[a]] = "reserved"
  BY DEF LifeInv, OneOpenAttempt, Active
<1>2. Active' = Active \ {a}
  BY DEF LifeInv, LifeTypeOK, Active
<1>3. LifeTypeOK'
  BY <1>1 DEF LifeInv, LifeTypeOK
<1>4. OneOpenAttempt'
  <2>1. \A b \in Active' : aReq'[b] \in Requests /\ rState'[aReq'[b]] = "reserved"
    BY <1>1, <1>2 DEF LifeInv, LifeTypeOK, OneOpenAttempt
  <2>2. \A q \in Requests : rState'[q] = "reserved" => ActiveOf(q)' # {}
    <3>1. ASSUME NEW q \in Requests, rState'[q] = "reserved" PROVE ActiveOf(q)' # {}
      <4>1. q # aReq[a] /\ rState[q] = "reserved"
        BY <3>1, <1>1 DEF LifeInv, LifeTypeOK
      <4>2. PICK b \in Active : aReq[b] = q
        BY <4>1 DEF LifeInv, OneOpenAttempt, ActiveOf
      <4> QED BY <4>1, <4>2, <1>2 DEF ActiveOf
    <3> QED BY <3>1
  <2>3. \A b, d \in Active' : aReq'[b] = aReq'[d] => b = d
    BY <1>2 DEF LifeInv, OneOpenAttempt
  <2> QED BY <2>1, <2>2, <2>3 DEF OneOpenAttempt
<1>5. LeasesAreLive'
  <2>1. \A l \in leases' : l \in leases /\ l[2] # a
    BY DEF LeasesOf
  <2>2. CASE next = "in_progress"
    <3>1. OpenRequests \subseteq OpenRequests'
      BY <1>1, <2>2 DEF LifeInv, LifeTypeOK, OpenRequests
    <3> QED BY <2>1, <3>1, <1>2 DEF LifeInv, LeasesAreLive
  <2>3. CASE next # "in_progress"
    <3>1. OpenRequests \ {aReq[a]} \subseteq OpenRequests'
      BY <1>1 DEF LifeInv, LifeTypeOK, OpenRequests
    <3>2. \A l \in leases' : l[2] # aReq[a]
      BY <2>3 DEF LeasesOf
    <3> QED BY <2>1, <3>1, <3>2, <1>2 DEF LifeInv, LeasesAreLive
  <2> QED BY <2>2, <2>3
<1> QED BY <1>3, <1>4, <1>5 DEF LifeInv

\* Closing the in_progress requests S, none of which has an open attempt.
LEMMA FinishLife ==
  ASSUME LifeInv, NEW S \in SUBSET Requests, NEW state \in SettledStates,
         \A r \in S : rState[r] = "in_progress",
         rState' = [r \in Requests |-> IF r \in S THEN state ELSE rState[r]],
         leases' = {l \in leases : l[2] \notin S},
         UNCHANGED <<clock, rKey, aState, aReq, aConn, aStart, outbox>>
  PROVE  LifeInv'
<1>1. Active' = Active
  BY DEF Active
<1>2. LifeTypeOK'
  BY DEF LifeInv, LifeTypeOK, RequestStates
<1>3. \A r \in Requests : (rState'[r] = "reserved") <=> (rState[r] = "reserved")
  BY DEF LifeInv, LifeTypeOK, SettledStates
<1>4. OneOpenAttempt'
  <2>1. \A r \in Requests : ActiveOf(r)' = ActiveOf(r)
    BY <1>1 DEF ActiveOf
  <2> QED BY <1>1, <1>3, <2>1 DEF LifeInv, OneOpenAttempt
<1>5. LeasesAreLive'
  <2>1. \A l \in leases' : l \in leases /\ l[2] \notin S
    OBVIOUS
  <2>2. OpenRequests \ S \subseteq OpenRequests'
    BY DEF OpenRequests
  <2> QED BY <1>1, <2>1, <2>2 DEF LifeInv, LeasesAreLive
<1> QED BY <1>2, <1>4, <1>5 DEF LifeInv

\* A restart leaves no attempt open and no request reserved.
LEMMA RecoverLife ==
  ASSUME LifeInv, NEW wall \in Times, Recover(wall)
  PROVE  LifeInv'
<1> DEFINE undispatched == {a \in Attempts : aState[a] = "reserved"}
           interrupted == Active \ undispatched
<1>1. /\ aState' = [a \in Attempts |->
                      IF a \in undispatched THEN "cancelled_before_dispatch"
                      ELSE IF a \in interrupted THEN "interrupted_unknown" ELSE aState[a]]
      /\ rState' = [r \in Requests |->
                      IF \E a \in interrupted : aReq[a] = r THEN "interrupted_unknown"
                      ELSE IF \E a \in undispatched : aReq[a] = r THEN "cancelled"
                      ELSE IF rState[r] = "in_progress" THEN "failed" ELSE rState[r]]
      /\ leases' = {} /\ clock' = EffectiveTime(wall) /\ outbox' = outbox + Cardinality(Active)
      /\ UNCHANGED <<rKey, aReq, aConn, aStart>>
  BY DEF Recover
<1>2. Active' = {}
  BY <1>1 DEF Active, ActiveStates
<1>3. outbox + Cardinality(Active) \in Nat
  <2>1. Cardinality(Active) \in Nat
    BY AttemptsAssumption, FS_Subset, FS_CardinalityType DEF Active
  <2> QED BY <2>1 DEF LifeInv, LifeTypeOK
<1>4. LifeTypeOK'
  BY <1>1, <1>3, EffectiveTimeFact
  DEF LifeInv, LifeTypeOK, RequestStates, AttemptStates, SettledStates
<1>5. \A r \in Requests : rState'[r] # "reserved"
  <2>1. ASSUME NEW r \in Requests, rState[r] = "reserved"
        PROVE  \E a \in interrupted \cup undispatched : aReq[a] = r
    BY <2>1 DEF LifeInv, OneOpenAttempt, ActiveOf
  <2> QED BY <1>1, <2>1
<1>6. OneOpenAttempt'
  BY <1>2, <1>5 DEF OneOpenAttempt
<1>7. LeasesAreLive'
  BY <1>1 DEF LeasesAreLive
<1> QED BY <1>4, <1>6, <1>7 DEF LifeInv

\* Steps that leave the lifecycle columns and leases alone.
LEMMA StillLife ==
  ASSUME LifeInv, outbox' \in Nat, UNCHANGED <<clock, rState, rKey, aState, aReq, aConn, aStart, leases>>
  PROVE  LifeInv'
<1>1. Active' = Active /\ OpenRequests' = OpenRequests
  BY DEF Active, OpenRequests
<1>2. \A r \in Requests : ActiveOf(r)' = ActiveOf(r)
  BY <1>1 DEF ActiveOf
<1> QED BY <1>1, <1>2 DEF LifeInv, LifeTypeOK, OneOpenAttempt, LeasesAreLive

\* A dispatch mark moves an attempt between two open states.
LEMMA MarkLife ==
  ASSUME LifeInv, NEW a \in Attempts, MarkDispatching(a) \/ MarkStreaming(a)
  PROVE  LifeInv'
<1>1. PICK state \in {"dispatching", "streaming"} : aState' = [aState EXCEPT ![a] = state]
  BY DEF MarkDispatching, MarkStreaming
<1>2. aState[a] \in ActiveStates /\ UNCHANGED <<clock, rState, rKey, aReq, aConn, aStart, leases, outbox>>
  BY DEF MarkDispatching, MarkStreaming, ActiveStates
<1>3. Active' = Active
  BY <1>1, <1>2 DEF LifeInv, LifeTypeOK, Active, ActiveStates
<1>4. \A r \in Requests : ActiveOf(r)' = ActiveOf(r)
  BY <1>2, <1>3 DEF ActiveOf
<1>5. OpenRequests' = OpenRequests
  BY <1>2 DEF OpenRequests
<1>6. LifeTypeOK'
  BY <1>1, <1>2 DEF LifeInv, LifeTypeOK, AttemptStates, ActiveStates
<1> QED BY <1>2, <1>3, <1>4, <1>5, <1>6 DEF LifeInv, OneOpenAttempt, LeasesAreLive

\* A repricing has room for the events of the attempts it restates.
LEMMA RepriceRoom ==
  ASSUME NEW c \in Connections, NEW from \in Int, NEW to \in Int, outbox \in Nat,
         ApplyReprice(c, from, to)
  PROVE  outbox' \in Nat /\ outbox' + Cardinality(Active) <= MaxOutbox
<1> DEFINE items == {a \in Attempts : /\ aConn[a] = c /\ aStart[a] >= from /\ aStart[a] < to
                                      /\ usage[a].tokens # Unknown /\ usage[a].status # "unknown"
                                      /\ catalog[aStart[a]] # Unknown}
           applied == {a \in items : <<a, catalog[aStart[a]], "restated">> \notin assessed}
<1>1. OutboxCapacity(Cardinality(items)) /\ outbox' = outbox + Cardinality(applied)
  BY DEF ApplyReprice
<1>2. IsFiniteSet(items) /\ IsFiniteSet(Active)
  BY AttemptsAssumption, FS_Subset DEF Active
<1>3. /\ Cardinality(applied) \in Nat /\ Cardinality(items) \in Nat /\ Cardinality(Active) \in Nat
      /\ Cardinality(applied) <= Cardinality(items)
  BY <1>2, FS_Subset, FS_CardinalityType
<1> QED BY <1>1, <1>3, OutboxAssumption DEF OutboxCapacity

\* Every step keeps the lifecycle invariant and the outbox room.
LEMMA Step ==
  ASSUME LifeInv, OutboxRoom, [Next]_vars
  PROVE  LifeInv' /\ OutboxRoom'
<1> USE DEF LifeInv
<1>1. IsFiniteSet(Active) /\ Cardinality(Active) \in Nat /\ outbox \in Nat
  BY AttemptsAssumption, FS_Subset, FS_CardinalityType DEF Active, LifeTypeOK
<1>2. ASSUME outbox' \in Nat, outbox' + Cardinality(Active) <= MaxOutbox,
             UNCHANGED <<clock, rState, rKey, aState, aReq, aConn, aStart, leases>>
      PROVE  LifeInv' /\ OutboxRoom'
  <2>1. Active' = Active
    BY <1>2 DEF Active
  <2> QED BY <1>2, <2>1, StillLife DEF OutboxRoom
<1>3. ASSUME NEW a \in Attempts, aState[a] \in ActiveStates,
             NEW state \in AttemptStates \ ActiveStates,
             aState' = [aState EXCEPT ![a] = state], outbox' = outbox + 1
      PROVE  OutboxRoom'
  <2>1. a \in Active /\ Active' = Active \ {a}
    BY <1>3 DEF LifeTypeOK, Active
  <2>2. Cardinality(Active \ {a}) = Cardinality(Active) - 1
    BY <1>1, <2>1, FS_RemoveElement
  <2> QED BY <1>1, <1>3, <2>1, <2>2, OutboxAssumption DEF OutboxRoom
<1>4. ASSUME UNCHANGED <<aState, outbox>> PROVE OutboxRoom'
  BY <1>4 DEF OutboxRoom, Active
<1>5. ASSUME NEW r \in Requests, NEW a \in Attempts, NEW k \in Keys, NEW c \in Connections,
             NEW est \in Units, NEW wall \in Times, NEW priced \in BOOLEAN,
             Admit(r, a, k, c, est, wall, priced)
      PROVE  LifeInv' /\ OutboxRoom'
  <2>1. LifeInv'
    BY <1>5, AdmitLife
  <2>2. Active' = Active \cup {a} /\ a \notin Active
    BY <1>5 DEF Admit, LifeTypeOK, Active, ActiveStates
  <2>3. Cardinality(Active \cup {a}) = Cardinality(Active) + 1
    BY <1>1, <2>2, FS_AddElement
  <2>4. OutboxCapacity(2) /\ outbox' = outbox + 1
    BY <1>5 DEF Admit
  <2> QED BY <1>1, <2>1, <2>2, <2>3, <2>4, OutboxAssumption DEF OutboxCapacity, OutboxRoom
<1>6. ASSUME NEW a \in Attempts, MarkDispatching(a) \/ MarkStreaming(a)
      PROVE  LifeInv' /\ OutboxRoom'
  <2>1. Active' = Active /\ outbox' = outbox
    BY <1>6 DEF MarkDispatching, MarkStreaming, LifeTypeOK, Active, ActiveStates
  <2> QED BY <1>6, <2>1, MarkLife DEF OutboxRoom
<1>7. ASSUME NEW a \in Attempts, CancelBeforeDispatch(a) PROVE LifeInv' /\ OutboxRoom'
  <2>1. LifeInv'
    BY <1>7, CloseLife DEF CancelBeforeDispatch, AttemptStates, RequestStates, ActiveStates, SettledStates
  <2>2. OutboxRoom'
    BY <1>7, <1>3 DEF CancelBeforeDispatch, AttemptStates, ActiveStates, SettledStates
  <2> QED BY <2>1, <2>2
<1>8. ASSUME NEW a \in Attempts, NEW state \in Outcomes, NEW status, NEW tokens, NEW cost, NEW final \in BOOLEAN,
             Settle(a, state, status, tokens, cost, final)
      PROVE  LifeInv' /\ OutboxRoom'
  <2>1. /\ aState[a] \in ActiveStates
        /\ aState' = [aState EXCEPT ![a] = state]
        /\ rState' = [rState EXCEPT ![aReq[a]] = IF final THEN state ELSE "in_progress"]
        /\ leases' = leases \ Freed(a, final)
        /\ outbox' = outbox + 1
        /\ UNCHANGED <<clock, rKey, aReq, aConn, aStart>>
    BY <1>8 DEF Settle, Settleable
  <2>2. state \in AttemptStates \ ActiveStates /\ state \in RequestStates \ {"absent", "reserved", "in_progress"}
    BY OutcomesAssumption DEF AttemptStates, RequestStates, ActiveStates, SettledStates
  <2>3. LifeInv'
    BY <2>1, <2>2, CloseLife DEF Freed, RequestStates
  <2>4. OutboxRoom'
    BY <2>1, <2>2, <1>3
  <2> QED BY <2>3, <2>4
<1>9. ASSUME NEW r \in Requests, CloseFailedRequest(r) PROVE LifeInv' /\ OutboxRoom'
  <2>1. rState' = [q \in Requests |-> IF q \in {r} THEN "failed" ELSE rState[q]]
    BY <1>9 DEF CloseFailedRequest, LifeTypeOK
  <2>2. leases' = {l \in leases : l[2] \notin {r}}
    BY <1>9 DEF CloseFailedRequest, LeasesOf
  <2> QED BY <1>9, <2>1, <2>2, <1>4, FinishLife DEF CloseFailedRequest, SettledStates
<1>10. ASSUME NEW r \in Requests, NEW state \in Outcomes, FinalizeRequest(r, state)
       PROVE  LifeInv' /\ OutboxRoom'
  <2>1. rState' = [q \in Requests |-> IF q \in {r} THEN state ELSE rState[q]]
    BY <1>10 DEF FinalizeRequest, LifeTypeOK
  <2>2. leases' = {l \in leases : l[2] \notin {r}}
    BY <1>10 DEF FinalizeRequest, LeasesOf
  <2>3. rState[r] = "in_progress" /\ UNCHANGED <<clock, rKey, aState, aReq, aConn, aStart, outbox>>
    BY <1>10 DEF FinalizeRequest
  <2>4. state \in SettledStates /\ {r} \in SUBSET Requests /\ \A q \in {r} : rState[q] = "in_progress"
    BY <2>3, OutcomesAssumption
  <2>5. LifeInv'
    BY <2>1, <2>2, <2>3, <2>4, FinishLife
  <2> QED BY <2>3, <2>5, <1>4
<1>11. ASSUME NEW S \in SUBSET Requests, RepairStaleRequests(S) PROVE LifeInv' /\ OutboxRoom'
  <2>1. LifeInv'
    BY <1>11, FinishLife DEF RepairStaleRequests, SettledStates
  <2>2. OutboxRoom'
    BY <1>11, <1>4 DEF RepairStaleRequests
  <2> QED BY <2>1, <2>2
<1>12. ASSUME NEW wall \in Times, Recover(wall) PROVE LifeInv' /\ OutboxRoom'
  <2>1. Active' = {} /\ outbox' = outbox + Cardinality(Active)
    BY <1>12 DEF Recover, Active, ActiveStates
  <2>2. Cardinality({}) = 0
    BY FS_EmptySet
  <2> QED BY <1>1, <1>12, <2>1, <2>2, RecoverLife DEF OutboxRoom
<1>13. ASSUME NEW a \in Attempts, NEW status, NEW tokens, NEW cost, ReconcileUnknown(a, status, tokens, cost)
       PROVE  LifeInv' /\ OutboxRoom'
  BY <1>1, <1>2, <1>13, OutboxAssumption DEF ReconcileUnknown, OutboxCapacity, lifeVars
<1>14. ASSUME NEW c \in Connections, NEW from \in Times, NEW to \in 1..MaxTime + 1, ApplyReprice(c, from, to)
       PROVE  LifeInv' /\ OutboxRoom'
  <2>1. from \in Int /\ to \in Int
    BY TimeAssumption DEF Times
  <2>2. outbox' \in Nat /\ outbox' + Cardinality(Active) <= MaxOutbox
    BY <1>1, <1>14, <2>1, RepriceRoom
  <2> QED BY <1>2, <1>14, <2>2 DEF ApplyReprice, lifeVars
<1>15. ASSUME NEW a \in Attempts, NEW delta \in Deltas, AdjustCost(a, delta) PROVE LifeInv' /\ OutboxRoom'
  <2>1. /\ OutboxCapacity(1) /\ outbox' = outbox + 1
        /\ UNCHANGED <<clock, rState, rKey, aState, aReq, aConn, aStart, leases>>
    BY <1>15 DEF AdjustCost, lifeVars
  <2> QED BY <1>1, <1>2, <2>1, OutboxAssumption DEF OutboxCapacity
<1>16. ASSUME UNCHANGED <<clock, lifeVars, leases, outbox>> PROVE LifeInv' /\ OutboxRoom'
  BY <1>1, <1>2, <1>16 DEF OutboxRoom, lifeVars
<1>17. CASE Deliver
  BY <1>1, <1>2, <1>17, OutboxAssumption DEF Deliver, OutboxRoom, lifeVars
<1>18. CASE \/ \E p \in Policies : \E setting \in Settings[p] : UpdatePolicy(p, setting)
            \/ \E v \in Prices, from \in Times : CreatePrice(v, from)
            \/ \E g \in Grants : ChangeGrants(g)
            \/ UNCHANGED vars
  BY <1>16, <1>18 DEF UpdatePolicy, CreatePrice, ChangeGrants, vars
<1> QED
  BY <1>5, <1>6, <1>7, <1>8, <1>9, <1>10, <1>11, <1>12, <1>13, <1>14, <1>15, <1>17, <1>18 DEF Next

\* The initial database has room in the outbox.
LEMMA InitRoom == Init => OutboxRoom
<1>1. ASSUME Init PROVE Active = {}
  BY <1>1 DEF Init, Active, ActiveStates
<1>2. Cardinality({}) = 0
  BY FS_EmptySet
<1>3. Init => outbox = 0
  BY DEF Init
<1> QED BY <1>1, <1>2, <1>3, OutboxAssumption DEF OutboxRoom

\* Under every interleaving of the operations of usage.Service a request is
\* reserved exactly while one attempt of it is open, every lease belongs to
\* open work, and the closing events of the open attempts fit in the outbox.
THEOREM LifecycleSafe == Spec => [](LifeTypeOK /\ OneOpenAttempt /\ LeasesAreLive /\ OutboxRoom)
<1>1. Init => LifeInv /\ OutboxRoom
  BY InitLife, InitRoom
<1>2. LifeInv /\ OutboxRoom /\ [Next]_vars => LifeInv' /\ OutboxRoom'
  BY Step
<1>3. LifeInv /\ OutboxRoom => LifeTypeOK /\ OneOpenAttempt /\ LeasesAreLive /\ OutboxRoom
  BY DEF LifeInv
<1> QED BY <1>1, <1>2, <1>3, PTL DEF Spec

-----------------------------------------------------------------------------
(* Action properties. *)

\* What a step can do to the two state columns: open an attempt, mark it,
\* close it together with its request, or close requests left in progress.
LEMMA StateSteps ==
  ASSUME LifeInv, [Next]_vars
  PROVE  \/ UNCHANGED <<rState, aState>>
         \/ \E r \in Requests, a \in Attempts :
              /\ rState[r] \in {"absent", "in_progress"} /\ aState[a] = "absent"
              /\ rState' = [rState EXCEPT ![r] = "reserved"]
              /\ aState' = [aState EXCEPT ![a] = "reserved"]
         \/ \E a \in Attempts, s \in AttemptStates :
              /\ aState[a] \in ActiveStates
              /\ aState' = [aState EXCEPT ![a] = s] /\ rState' = rState
         \/ \E a \in Attempts, s \in AttemptStates, q \in RequestStates :
              /\ aState[a] \in ActiveStates
              /\ aState' = [aState EXCEPT ![a] = s]
              /\ rState' = [rState EXCEPT ![aReq[a]] = q]
         \/ /\ aState' = aState
            /\ \A r \in Requests : rState'[r] # rState[r] => rState[r] = "in_progress"
         \/ \E wall \in Times : Recover(wall)
<1> USE DEF LifeInv
<1>1. ASSUME NEW r \in Requests, NEW a \in Attempts, NEW k \in Keys, NEW c \in Connections,
             NEW est \in Units, NEW wall \in Times, NEW priced \in BOOLEAN,
             Admit(r, a, k, c, est, wall, priced)
      PROVE  /\ rState[r] \in {"absent", "in_progress"} /\ aState[a] = "absent"
             /\ rState' = [rState EXCEPT ![r] = "reserved"]
             /\ aState' = [aState EXCEPT ![a] = "reserved"]
  BY <1>1 DEF Admit, Continues
<1>2. ASSUME NEW a \in Attempts, MarkDispatching(a) \/ MarkStreaming(a)
      PROVE  \E s \in AttemptStates : /\ aState[a] \in ActiveStates
                                       /\ aState' = [aState EXCEPT ![a] = s] /\ rState' = rState
  BY <1>2 DEF MarkDispatching, MarkStreaming, AttemptStates, ActiveStates
<1>3. ASSUME NEW a \in Attempts, CancelBeforeDispatch(a)
      PROVE  \E s \in AttemptStates, q \in RequestStates :
                 /\ aState[a] \in ActiveStates /\ aState' = [aState EXCEPT ![a] = s]
                 /\ rState' = [rState EXCEPT ![aReq[a]] = q]
  BY <1>3 DEF CancelBeforeDispatch, AttemptStates, RequestStates, ActiveStates, SettledStates
<1>4. ASSUME NEW a \in Attempts, NEW state \in Outcomes, NEW status, NEW tokens, NEW cost, NEW final \in BOOLEAN,
             Settle(a, state, status, tokens, cost, final)
      PROVE  \E s \in AttemptStates, q \in RequestStates :
                 /\ aState[a] \in ActiveStates /\ aState' = [aState EXCEPT ![a] = s]
                 /\ rState' = [rState EXCEPT ![aReq[a]] = q]
  <2>1. /\ aState[a] \in ActiveStates /\ aState' = [aState EXCEPT ![a] = state]
        /\ rState' = [rState EXCEPT ![aReq[a]] = IF final THEN state ELSE "in_progress"]
    BY <1>4 DEF Settle, Settleable
  <2>2. state \in AttemptStates /\ (IF final THEN state ELSE "in_progress") \in RequestStates
    BY OutcomesAssumption DEF AttemptStates, RequestStates
  <2> QED BY <2>1, <2>2
<1>5. ASSUME \/ \E r \in Requests : CloseFailedRequest(r) \/ \E state \in Outcomes : FinalizeRequest(r, state)
             \/ \E S \in SUBSET Requests : RepairStaleRequests(S)
      PROVE  /\ aState' = aState
             /\ \A r \in Requests : rState'[r] # rState[r] => rState[r] = "in_progress"
  <2>1. ASSUME NEW r \in Requests, CloseFailedRequest(r) \/ \E state \in Outcomes : FinalizeRequest(r, state)
        PROVE  /\ aState' = aState
               /\ \A q \in Requests : rState'[q] # rState[q] => rState[q] = "in_progress"
    BY <2>1 DEF CloseFailedRequest, FinalizeRequest, LifeTypeOK
  <2>2. ASSUME NEW S \in SUBSET Requests, RepairStaleRequests(S)
        PROVE  /\ aState' = aState
               /\ \A q \in Requests : rState'[q] # rState[q] => rState[q] = "in_progress"
    BY <2>2 DEF RepairStaleRequests
  <2> QED BY <1>5, <2>1, <2>2
<1>6. ASSUME \/ \E a \in Attempts, tokens \in Reported, cost \in ReconciledCosts \cup {Unknown} :
                  ReconcileUnknown(a, "provider_reported", tokens, cost)
             \/ \E c \in Connections, from \in Times, to \in 1..MaxTime + 1 : ApplyReprice(c, from, to)
             \/ \E a \in Attempts, delta \in Deltas : AdjustCost(a, delta)
             \/ \E p \in Policies : \E setting \in Settings[p] : UpdatePolicy(p, setting)
             \/ \E v \in Prices, from \in Times : CreatePrice(v, from)
             \/ \E g \in Grants : ChangeGrants(g)
             \/ Deliver
             \/ UNCHANGED vars
      PROVE  UNCHANGED <<rState, aState>>
  <2>1. ASSUME NEW a \in Attempts, NEW delta \in Deltas, AdjustCost(a, delta) PROVE UNCHANGED lifeVars
    BY <2>1 DEF AdjustCost
  <2>2. ASSUME NEW c \in Connections, NEW from, NEW to, ApplyReprice(c, from, to) PROVE UNCHANGED lifeVars
    BY <2>2 DEF ApplyReprice
  <2>3. ASSUME NEW a \in Attempts, NEW tokens, NEW cost, ReconcileUnknown(a, "provider_reported", tokens, cost)
        PROVE  UNCHANGED lifeVars
    BY <2>3 DEF ReconcileUnknown
  <2> QED BY <1>6, <2>1, <2>2, <2>3 DEF UpdatePolicy, CreatePrice, ChangeGrants, Deliver, vars, lifeVars
<1> QED BY <1>1, <1>2, <1>3, <1>4, <1>5, <1>6 DEF Next

\* A closed request or attempt keeps the state it was closed in.
LEMMA ClosedStep == ASSUME LifeInv, [Next]_vars PROVE KeepsClosed
<1> USE DEF LifeInv, LifeTypeOK, Terminal, SettledStates, ActiveStates
<1>1. CASE UNCHANGED <<rState, aState>>
  BY <1>1 DEF KeepsClosed
<1>2. ASSUME NEW r \in Requests, NEW a \in Attempts,
             rState[r] \in {"absent", "in_progress"}, aState[a] = "absent",
             rState' = [rState EXCEPT ![r] = "reserved"], aState' = [aState EXCEPT ![a] = "reserved"]
      PROVE  KeepsClosed
  BY <1>2 DEF KeepsClosed
<1>3. ASSUME NEW a \in Attempts, NEW s \in AttemptStates, aState[a] \in ActiveStates,
             aState' = [aState EXCEPT ![a] = s], rState' = rState
      PROVE  KeepsClosed
  BY <1>3 DEF KeepsClosed
<1>4. ASSUME NEW a \in Attempts, NEW s \in AttemptStates, NEW q \in RequestStates,
             aState[a] \in ActiveStates,
             aState' = [aState EXCEPT ![a] = s], rState' = [rState EXCEPT ![aReq[a]] = q]
      PROVE  KeepsClosed
  <2>1. aReq[a] \in Requests /\ rState[aReq[a]] = "reserved"
    BY <1>4 DEF OneOpenAttempt, Active
  <2> QED BY <1>4, <2>1 DEF KeepsClosed
<1>5. CASE aState' = aState /\ \A r \in Requests : rState'[r] # rState[r] => rState[r] = "in_progress"
  BY <1>5 DEF KeepsClosed
<1>6. ASSUME NEW wall \in Times, Recover(wall) PROVE KeepsClosed
  <2>1. \A a \in Attempts : aState[a] \notin ActiveStates => aState'[a] = aState[a]
    BY <1>6 DEF Recover, Active
  <2>2. ASSUME NEW r \in Requests, Terminal(r) PROVE rState'[r] = rState[r]
    <3>1. \A a \in Active : aReq[a] # r
      BY <2>2 DEF OneOpenAttempt
    <3> QED BY <1>6, <2>2, <3>1 DEF Recover, Active
  <2> QED BY <2>1, <2>2 DEF KeepsClosed
<1> QED BY <1>1, <1>2, <1>3, <1>4, <1>5, <1>6, StateSteps

\* No operation reopens or relabels closed work, for any number of requests.
THEOREM ClosedIsFinal == Spec => ClosedStaysClosed
<1>1. LifeInv /\ [Next]_vars => KeepsClosed
  BY ClosedStep
<1>2. Init => LifeInv /\ OutboxRoom
  BY InitLife, InitRoom
<1>3. LifeInv /\ OutboxRoom /\ [Next]_vars => LifeInv' /\ OutboxRoom'
  BY Step
<1> QED BY <1>1, <1>2, <1>3, PTL DEF Spec, ClosedStaysClosed

\* Every admission is at or before the clock.
StartsPassed == \A a \in Attempts : aStart[a] <= clock

\* Only an admission sets a start time, to the new clock, and the clock never
\* steps back.
LEMMA TimeSteps ==
  ASSUME LifeInv, [Next]_vars
  PROVE  \/ \E a \in Attempts : /\ aStart' = [aStart EXCEPT ![a] = clock'] /\ clock' >= clock
                                 /\ aState' = [aState EXCEPT ![a] = "reserved"]
         \/ /\ aStart' = aStart /\ clock' >= clock
            /\ \A b \in Attempts : aState[b] = "absent" => aState'[b] = "absent"
<1> USE DEF LifeInv
<1>0. clock >= clock
  BY DEF LifeTypeOK, Times
<1>1. ASSUME NEW r \in Requests, NEW a \in Attempts, NEW k \in Keys, NEW c \in Connections,
             NEW est \in Units, NEW wall \in Times, NEW priced \in BOOLEAN,
             Admit(r, a, k, c, est, wall, priced)
      PROVE  /\ aStart' = [aStart EXCEPT ![a] = clock'] /\ clock' >= clock
             /\ aState' = [aState EXCEPT ![a] = "reserved"]
  BY <1>1, EffectiveTimeFact DEF Admit, LifeTypeOK
<1>2. ASSUME NEW wall \in Times, Recover(wall)
      PROVE  /\ aStart' = aStart /\ clock' >= clock
             /\ \A b \in Attempts : aState[b] = "absent" => aState'[b] = "absent"
  BY <1>2, EffectiveTimeFact DEF Recover, LifeTypeOK, Active, ActiveStates
<1>3. ASSUME NEW a \in Attempts, MarkDispatching(a) \/ MarkStreaming(a) \/ CancelBeforeDispatch(a)
      PROVE  /\ aStart' = aStart /\ clock' = clock
             /\ \A b \in Attempts : aState[b] = "absent" => aState'[b] = "absent"
  BY <1>3 DEF MarkDispatching, MarkStreaming, CancelBeforeDispatch, LifeTypeOK
<1>4. ASSUME NEW a \in Attempts, NEW state \in Outcomes, NEW status, NEW tokens, NEW cost, NEW final \in BOOLEAN,
             Settle(a, state, status, tokens, cost, final)
      PROVE  /\ aStart' = aStart /\ clock' = clock
             /\ \A b \in Attempts : aState[b] = "absent" => aState'[b] = "absent"
  BY <1>4 DEF Settle, Settleable, ActiveStates, LifeTypeOK
<1>5. ASSUME NEW r \in Requests, CloseFailedRequest(r) \/ \E state \in Outcomes : FinalizeRequest(r, state)
      PROVE  UNCHANGED <<aStart, clock, aState>>
  BY <1>5 DEF CloseFailedRequest, FinalizeRequest
<1>6. ASSUME NEW S \in SUBSET Requests, RepairStaleRequests(S) PROVE UNCHANGED <<aStart, clock, aState>>
  BY <1>6 DEF RepairStaleRequests
<1>7. ASSUME NEW a \in Attempts, NEW tokens, NEW cost, ReconcileUnknown(a, "provider_reported", tokens, cost)
      PROVE  UNCHANGED <<aStart, clock, aState>>
  BY <1>7 DEF ReconcileUnknown, lifeVars
<1>8. ASSUME NEW c \in Connections, NEW from, NEW to, ApplyReprice(c, from, to)
      PROVE  UNCHANGED <<aStart, clock, aState>>
  BY <1>8 DEF ApplyReprice, lifeVars
<1>9. ASSUME NEW a \in Attempts, NEW delta \in Deltas, AdjustCost(a, delta)
      PROVE  UNCHANGED <<aStart, clock, aState>>
  BY <1>9 DEF AdjustCost, lifeVars
<1>10. ASSUME \/ \E p \in Policies : \E setting \in Settings[p] : UpdatePolicy(p, setting)
              \/ \E v \in Prices, from \in Times : CreatePrice(v, from)
              \/ \E g \in Grants : ChangeGrants(g)
              \/ Deliver
              \/ UNCHANGED vars
       PROVE  UNCHANGED <<aStart, clock, aState>>
  BY <1>10 DEF UpdatePolicy, CreatePrice, ChangeGrants, Deliver, vars, lifeVars
<1>11. CASE \E r \in Requests, a \in Attempts, k \in Keys, c \in Connections, est \in Units,
              wall \in Times, priced \in BOOLEAN : Admit(r, a, k, c, est, wall, priced)
  BY <1>11, <1>1
<1>12. CASE \/ \E wall \in Times : Recover(wall)
            \/ \E a \in Attempts : MarkDispatching(a) \/ MarkStreaming(a) \/ CancelBeforeDispatch(a)
            \/ \E a \in Attempts, state \in Outcomes, status \in {"provider_reported", "unknown"},
                  tokens \in Units \cup {Unknown}, cost \in Costs \cup {Unknown}, final \in BOOLEAN :
                  Settle(a, state, status, tokens, cost, final)
  BY <1>0, <1>12, <1>2, <1>3, <1>4
<1> QED BY <1>0, <1>5, <1>6, <1>7, <1>8, <1>9, <1>10, <1>11, <1>12 DEF Next

\* A later admission is never dated before an earlier one, whatever the wall
\* clock does and across restarts.
THEOREM AdmissionsAreOrdered == Spec => AdmissionTimeIsMonotone
<1>1. Init => LifeInv /\ OutboxRoom
  BY InitLife, InitRoom
<1>2. LifeInv /\ OutboxRoom /\ [Next]_vars => LifeInv' /\ OutboxRoom'
  BY Step
<1>3. Init => StartsPassed
  BY DEF Init, StartsPassed
<1>4. LifeInv /\ OutboxRoom /\ StartsPassed /\ [Next]_vars => StartsPassed' /\ AdmitsInOrder
  <2> SUFFICES ASSUME LifeInv, OutboxRoom, StartsPassed, [Next]_vars PROVE StartsPassed' /\ AdmitsInOrder
    OBVIOUS
  <2>1. clock \in Int /\ clock' \in Int /\ \A a \in Attempts : aStart[a] \in Int
    <3>1. clock \in Int /\ \A a \in Attempts : aStart[a] \in Int
      BY DEF LifeInv, LifeTypeOK, Times
    <3>2. clock' \in Int
      BY Step DEF LifeInv, LifeTypeOK, Times
    <3> QED BY <3>1, <3>2
  <2>2. ASSUME NEW a \in Attempts, aStart' = [aStart EXCEPT ![a] = clock'], clock' >= clock,
               aState' = [aState EXCEPT ![a] = "reserved"]
        PROVE  StartsPassed' /\ AdmitsInOrder
    BY <2>1, <2>2 DEF StartsPassed, AdmitsInOrder, LifeInv, LifeTypeOK
  <2>3. ASSUME aStart' = aStart, clock' >= clock,
               \A b \in Attempts : aState[b] = "absent" => aState'[b] = "absent"
        PROVE  StartsPassed' /\ AdmitsInOrder
    BY <2>1, <2>3 DEF StartsPassed, AdmitsInOrder
  <2> QED BY <2>2, <2>3, TimeSteps
<1> QED BY <1>1, <1>2, <1>3, <1>4, PTL DEF Spec, AdmissionTimeIsMonotone

-----------------------------------------------------------------------------
(* The ledger. *)

Amount == Int \cup {Unknown}
UsageRow == [status : {"pending", "estimated", "provider_reported", "unknown"}, tokens : Amount, cost : Amount]
LedgerRow == [settlements : Nat, reconciled : BOOLEAN, tokens : Int, cost : Int, adjusted : Int]

FactTypeOK ==
  /\ catalog \in [Times -> Prices \cup {Unknown}]
  /\ aPrice \in [Attempts -> Prices \cup {Unknown}]
  /\ usage \in [Attempts -> UsageRow]
  /\ ledger \in [Attempts -> LedgerRow]

\* An attempt that can still be settled has no settlement in the ledger.
Unsettled == ActiveStates \cup {"absent"}
OpenIsUnsettled == \A a \in Attempts : aState[a] \in Unsettled => ledger[a].settlements = 0

FactInv == FactTypeOK /\ LedgerExplainsUsage /\ OpenIsUnsettled

\* The initial ledger explains the initial rows.
LEMMA InitFacts == Init => FactInv
  BY UnknownAssumption DEF Init, FactInv, FactTypeOK, UsageRow, LedgerRow, Amount, LedgerExplainsUsage, OpenIsUnsettled, OrZero

\* Costs are amounts, and unknown without a price or without tokens.
LEMMA CostFacts ==
  ASSUME NEW price \in Prices \cup {Unknown}, NEW tokens \in Amount
  PROVE  CostOf(price, tokens) \in Amount /\ (price # Unknown /\ tokens # Unknown => CostOf(price, tokens) \in Int)
<1>1. CASE price = Unknown \/ tokens = Unknown
  BY <1>1 DEF CostOf, Amount
<1>2. CASE price # Unknown /\ tokens # Unknown
  <2>1. Rate[price] \in Int /\ tokens \in Int
    BY <1>2, AmountsAssumption DEF Amount
  <2> QED BY <1>2, <2>1 DEF CostOf, Amount
<1> QED BY <1>1, <1>2

\* An unknown amount counts as zero.
LEMMA OrZeroFacts ==
  ASSUME NEW v \in Amount
  PROVE  OrZero(v) \in Int /\ (v \in Int => OrZero(v) = v) /\ (v = Unknown => OrZero(v) = 0)
  BY UnknownAssumption DEF Amount, OrZero

\* Steps that leave the ledger and the amounts of the rows alone.
LEMMA FactsKept ==
  ASSUME FactInv, FactTypeOK', ledger' = ledger,
         \A a \in Attempts : usage'[a].tokens = usage[a].tokens /\ usage'[a].cost = usage[a].cost,
         \A a \in Attempts : aState'[a] \in Unsettled => aState[a] \in Unsettled
  PROVE  FactInv'
  BY DEF FactInv, LedgerExplainsUsage, OpenIsUnsettled

\* A step that writes the row and the ledger of one attempt, and keeps or
\* closes its state.
LEMMA OneFact ==
  ASSUME FactInv, FactTypeOK', NEW a \in Attempts,
         \A b \in Attempts \ {a} : usage'[b] = usage[b] /\ ledger'[b] = ledger[b],
         \A b \in Attempts : aState'[b] \in Unsettled => aState[b] \in Unsettled,
         ledger'[a].settlements <= 1, aState'[a] \in Unsettled => ledger'[a].settlements = 0,
         ledger'[a].tokens = OrZero(usage'[a].tokens), ledger'[a].cost = OrZero(usage'[a].cost)
  PROVE  FactInv'
<1>1. LedgerExplainsUsage'
  BY DEF FactInv, LedgerExplainsUsage
<1>2. OpenIsUnsettled'
  BY DEF FactInv, OpenIsUnsettled
<1> QED BY <1>1, <1>2 DEF FactInv

\* A settlement is the first of its attempt and writes what it records.
LEMMA SettleFacts ==
  ASSUME LifeInv, FactInv, NEW a \in Attempts, NEW state \in SettledStates,
         NEW status \in {"provider_reported", "unknown"}, NEW tokens \in Amount, NEW reported \in Amount,
         NEW final \in BOOLEAN, Settle(a, state, status, tokens, reported, final)
  PROVE  FactInv'
<1> DEFINE cost == IF reported # Unknown THEN reported ELSE CostOf(aPrice[a], tokens)
           one == [ledger EXCEPT ![a].settlements = @ + 1]
           two == [one EXCEPT ![a].tokens = OrZero(tokens)]
           row == [status |-> status, tokens |-> tokens, cost |-> cost]
<1>1. /\ aState[a] \in ActiveStates /\ aState' = [aState EXCEPT ![a] = state]
      /\ usage' = [usage EXCEPT ![a] = row]
      /\ ledger' = [two EXCEPT ![a].cost = OrZero(cost)]
      /\ UNCHANGED <<catalog, aPrice>>
  BY DEF Settle, Settleable, confVars
<1>2. cost \in Amount
  BY CostFacts DEF FactInv, FactTypeOK
<1> HIDE DEF cost
<1>3. row \in UsageRow /\ row.tokens = tokens /\ row.cost = cost
  BY <1>2 DEF UsageRow
<1> HIDE DEF row
<1>4. ledger[a].settlements = 0 /\ OrZero(tokens) \in Int /\ OrZero(cost) \in Int
  BY <1>1, <1>2, OrZeroFacts DEF FactInv, OpenIsUnsettled, Unsettled
<1>5. one \in [Attempts -> LedgerRow] /\ one[a].settlements = 1 /\ \A b \in Attempts \ {a} : one[b] = ledger[b]
  BY <1>4 DEF FactInv, FactTypeOK, LedgerRow
<1> HIDE DEF one
<1>6. /\ two \in [Attempts -> LedgerRow] /\ two[a].settlements = 1 /\ two[a].tokens = OrZero(tokens)
      /\ \A b \in Attempts \ {a} : two[b] = ledger[b]
  BY <1>4, <1>5 DEF LedgerRow
<1> HIDE DEF two
<1>7. /\ ledger' \in [Attempts -> LedgerRow] /\ ledger'[a].settlements = 1
      /\ ledger'[a].tokens = OrZero(tokens) /\ ledger'[a].cost = OrZero(cost)
      /\ \A b \in Attempts \ {a} : ledger'[b] = ledger[b]
  BY <1>1, <1>4, <1>6 DEF LedgerRow
<1>8. FactTypeOK' /\ usage'[a] = row /\ \A b \in Attempts \ {a} : usage'[b] = usage[b]
  BY <1>1, <1>3, <1>7 DEF FactInv, FactTypeOK
<1>9. aState'[a] = state /\ state \notin Unsettled /\ \A b \in Attempts \ {a} : aState'[b] = aState[b]
  BY <1>1 DEF LifeInv, LifeTypeOK, Unsettled, SettledStates, ActiveStates
<1>10. \A b \in Attempts : aState'[b] \in Unsettled => aState[b] \in Unsettled
  BY <1>9
<1>11. ledger'[a].settlements <= 1 /\ (aState'[a] \in Unsettled => ledger'[a].settlements = 0)
  BY <1>7, <1>9
<1>12. ledger'[a].tokens = OrZero(usage'[a].tokens) /\ ledger'[a].cost = OrZero(usage'[a].cost)
  BY <1>3, <1>7, <1>8
<1> QED BY <1>7, <1>8, <1>10, <1>11, <1>12, OneFact

\* A correction of the cost appends the difference to what the ledger says.
LEMMA CorrectionFacts ==
  ASSUME NEW old \in Amount, NEW given \in Amount
  PROVE  /\ Correction(old, given) \in Int
         /\ given \in Int => OrZero(old) + Correction(old, given) = given
         /\ given = Unknown => OrZero(old) + Correction(old, given) = OrZero(old)
<1>1. OrZero(old) \in Int
  BY OrZeroFacts
<1>2. CASE given = Unknown
  BY <1>1, <1>2, UnknownAssumption DEF Correction
<1>3. CASE given # Unknown
  <2>1. given \in Int
    BY <1>3 DEF Amount
  <2> QED BY <1>1, <1>3, <2>1 DEF Correction
<1> QED BY <1>2, <1>3

\* A reconciliation appends the differences to the row it writes.
LEMMA ReconcileFacts ==
  ASSUME LifeInv, FactInv, NEW a \in Attempts, NEW tokens \in Int, NEW reported \in Amount,
         ReconcileUnknown(a, "provider_reported", tokens, reported)
  PROVE  FactInv'
<1> DEFINE old == usage[a]
           given == IF reported # Unknown THEN reported
                    ELSE IF old.cost = Unknown THEN CostOf(aPrice[a], tokens) ELSE Unknown
           cost == IF given # Unknown THEN given ELSE old.cost
           row == [status |-> IF cost # Unknown THEN "provider_reported" ELSE "unknown",
                   tokens |-> tokens, cost |-> cost]
           one == [ledger EXCEPT ![a].reconciled = TRUE]
           two == [one EXCEPT ![a].tokens = @ + tokens - OrZero(old.tokens)]
<1>1. /\ UNCHANGED <<aState, catalog, aPrice>>
      /\ aState[a] \in SettledStates
      /\ usage' = [usage EXCEPT ![a] = row]
      /\ ledger' = [two EXCEPT ![a].cost = @ + Correction(old.cost, given)]
  BY DEF ReconcileUnknown, lifeVars, confVars
<1>2. tokens \in Amount /\ old.tokens \in Amount /\ old.cost \in Amount /\ aPrice[a] \in Prices \cup {Unknown}
  BY DEF Amount, FactInv, FactTypeOK, UsageRow
<1>3. given \in Amount
  BY <1>2, CostFacts DEF Amount
<1> HIDE DEF given
<1>4. cost \in Amount /\ OrZero(old.cost) + Correction(old.cost, given) = OrZero(cost)
  <2>1. CASE given = Unknown
    BY <2>1, <1>2, <1>3, CorrectionFacts
  <2>2. CASE given # Unknown
    <3>1. given \in Int /\ cost = given
      BY <2>2, <1>3 DEF Amount
    <3> QED BY <3>1, <1>2, <1>3, CorrectionFacts, OrZeroFacts
  <2> QED BY <2>1, <2>2
<1> HIDE DEF cost
<1>5. row \in UsageRow /\ row.tokens = tokens /\ row.cost = cost
  BY <1>2, <1>4 DEF UsageRow
<1> HIDE DEF row
<1>6. /\ Correction(old.cost, given) \in Int /\ OrZero(old.tokens) \in Int /\ OrZero(tokens) = tokens
      /\ ledger[a].tokens = OrZero(old.tokens) /\ ledger[a].cost = OrZero(old.cost)
      /\ ledger[a].settlements <= 1
  BY <1>2, <1>3, CorrectionFacts, OrZeroFacts DEF FactInv, LedgerExplainsUsage
<1>7. /\ one \in [Attempts -> LedgerRow] /\ \A b \in Attempts \ {a} : one[b] = ledger[b]
      /\ one[a].tokens = ledger[a].tokens /\ one[a].cost = ledger[a].cost
      /\ one[a].settlements = ledger[a].settlements
  BY DEF FactInv, FactTypeOK, LedgerRow
<1> HIDE DEF one
<1>8. /\ two \in [Attempts -> LedgerRow] /\ \A b \in Attempts \ {a} : two[b] = ledger[b]
      /\ two[a].tokens = tokens /\ two[a].cost = ledger[a].cost
      /\ two[a].settlements = ledger[a].settlements
  BY <1>6, <1>7 DEF LedgerRow
<1> HIDE DEF two
<1>9. /\ ledger' \in [Attempts -> LedgerRow] /\ \A b \in Attempts \ {a} : ledger'[b] = ledger[b]
      /\ ledger'[a].tokens = tokens /\ ledger'[a].cost = ledger[a].cost + Correction(old.cost, given)
      /\ ledger'[a].settlements = ledger[a].settlements
  BY <1>1, <1>6, <1>8 DEF LedgerRow
<1>10. FactTypeOK' /\ usage'[a] = row /\ \A b \in Attempts \ {a} : usage'[b] = usage[b]
  BY <1>1, <1>5, <1>9 DEF FactInv, FactTypeOK
<1>11. ledger'[a].tokens = OrZero(usage'[a].tokens) /\ ledger'[a].cost = OrZero(usage'[a].cost)
  BY <1>4, <1>5, <1>6, <1>9, <1>10
<1>12. aState'[a] \in Unsettled => ledger'[a].settlements = 0
  BY <1>1, <1>9 DEF FactInv, OpenIsUnsettled
<1> QED BY <1>1, <1>6, <1>9, <1>10, <1>11, <1>12, OneFact

\* A repricing restates every attempt it applies to by the difference.
LEMMA RepriceFacts ==
  ASSUME LifeInv, FactInv, NEW c, NEW from, NEW to, ApplyReprice(c, from, to)
  PROVE  FactInv'
<1>1. PICK applied, amount :
        /\ applied \in SUBSET Attempts
        /\ \A a \in applied : /\ usage[a].tokens # Unknown /\ catalog[aStart[a]] # Unknown
                              /\ amount[a] = CostOf(catalog[aStart[a]], usage[a].tokens) + ledger[a].adjusted
        /\ usage' = [a \in Attempts |-> IF a \in applied THEN [usage[a] EXCEPT !.cost = amount[a]] ELSE usage[a]]
        /\ ledger' = [a \in Attempts |->
                      IF a \in applied THEN [ledger[a] EXCEPT !.cost = @ + Correction(usage[a].cost, amount[a])]
                      ELSE ledger[a]]
        /\ UNCHANGED <<aState, catalog, aPrice>>
  <2> DEFINE items == {a \in Attempts : /\ aConn[a] = c /\ aStart[a] >= from /\ aStart[a] < to
                                        /\ usage[a].tokens # Unknown /\ usage[a].status # "unknown"
                                        /\ catalog[aStart[a]] # Unknown}
             amount == [a \in items |-> CostOf(catalog[aStart[a]], usage[a].tokens) + ledger[a].adjusted]
             applied == {a \in items : <<a, catalog[aStart[a]], "restated">> \notin assessed}
  <2>1. /\ usage' = [a \in Attempts |-> IF a \in applied THEN [usage[a] EXCEPT !.cost = amount[a]] ELSE usage[a]]
        /\ ledger' = [a \in Attempts |->
                      IF a \in applied THEN [ledger[a] EXCEPT !.cost = @ + Correction(usage[a].cost, amount[a])]
                      ELSE ledger[a]]
        /\ UNCHANGED <<aState, catalog, aPrice>>
    BY DEF ApplyReprice, lifeVars, confVars
  <2>2. \A a \in applied : /\ usage[a].tokens # Unknown /\ catalog[aStart[a]] # Unknown
                           /\ amount[a] = CostOf(catalog[aStart[a]], usage[a].tokens) + ledger[a].adjusted
    OBVIOUS
  <2>3. applied \in SUBSET Attempts
    OBVIOUS
  <2> HIDE DEF applied, amount
  <2> QED BY <2>1, <2>2, <2>3
<1>2. ASSUME NEW a \in Attempts
      PROVE  /\ usage'[a] \in UsageRow /\ ledger'[a] \in LedgerRow
             /\ usage'[a].tokens = usage[a].tokens /\ ledger'[a].tokens = ledger[a].tokens
             /\ ledger'[a].settlements = ledger[a].settlements
             /\ ledger'[a].cost = OrZero(usage'[a].cost)
  <2>1. /\ usage[a] \in UsageRow /\ ledger[a] \in LedgerRow /\ ledger[a].cost = OrZero(usage[a].cost)
        /\ usage[a].cost \in Amount /\ usage[a].tokens \in Amount /\ ledger[a].adjusted \in Int
    BY DEF FactInv, FactTypeOK, LedgerExplainsUsage, UsageRow, LedgerRow
  <2>2. CASE a \in applied
    <3>1. catalog[aStart[a]] \in Prices \cup {Unknown}
      BY DEF FactInv, FactTypeOK, LifeInv, LifeTypeOK
    <3>2. amount[a] \in Int /\ amount[a] \in Amount
      BY <1>1, <2>1, <2>2, <3>1, CostFacts DEF Amount
    <3>3. Correction(usage[a].cost, amount[a]) \in Int
          /\ ledger[a].cost + Correction(usage[a].cost, amount[a]) = amount[a]
      BY <2>1, <3>2, CorrectionFacts
    <3>4. usage'[a] = [usage[a] EXCEPT !.cost = amount[a]]
          /\ ledger'[a] = [ledger[a] EXCEPT !.cost = @ + Correction(usage[a].cost, amount[a])]
      BY <1>1, <2>2
    <3>5. usage'[a] \in UsageRow /\ usage'[a].tokens = usage[a].tokens /\ usage'[a].cost = amount[a]
      BY <2>1, <3>2, <3>4 DEF UsageRow
    <3>6. /\ ledger'[a] \in LedgerRow /\ ledger'[a].tokens = ledger[a].tokens
          /\ ledger'[a].settlements = ledger[a].settlements /\ ledger'[a].cost = amount[a]
      BY <2>1, <3>3, <3>4 DEF LedgerRow
    <3>7. OrZero(amount[a]) = amount[a]
      BY <3>2, OrZeroFacts
    <3> QED BY <3>5, <3>6, <3>7
  <2>3. CASE a \notin applied
    BY <1>1, <2>1, <2>3
  <2> QED BY <2>2, <2>3
<1>3. FactTypeOK'
  <2>1. DOMAIN usage' = Attempts /\ DOMAIN ledger' = Attempts
        /\ usage' = [a \in Attempts |-> usage'[a]] /\ ledger' = [a \in Attempts |-> ledger'[a]]
    BY <1>1
  <2>2. usage' \in [Attempts -> UsageRow] /\ ledger' \in [Attempts -> LedgerRow]
    BY <1>2, <2>1
  <2> QED BY <1>1, <2>2 DEF FactInv, FactTypeOK
<1>4. LedgerExplainsUsage'
  BY <1>2 DEF FactInv, LedgerExplainsUsage
<1>5. OpenIsUnsettled'
  BY <1>1, <1>2 DEF FactInv, OpenIsUnsettled
<1> QED BY <1>3, <1>4, <1>5 DEF FactInv

\* A manual adjustment adds the same amount to the row and to the ledger.
LEMMA AdjustFacts ==
  ASSUME LifeInv, FactInv, NEW a \in Attempts, NEW delta \in Int, AdjustCost(a, delta)
  PROVE  FactInv'
<1> DEFINE one == [ledger EXCEPT ![a].cost = @ + delta]
           next == OrZero(usage[a].cost) + delta
<1>1. /\ UNCHANGED <<aState, catalog, aPrice>>
      /\ usage' = [usage EXCEPT ![a].cost = next]
      /\ ledger' = [one EXCEPT ![a].adjusted = @ + delta]
  BY DEF AdjustCost, lifeVars, confVars
<1>2. /\ next \in Int /\ OrZero(next) = next /\ ledger[a].cost + delta = next /\ next \in Amount
      /\ ledger[a].settlements <= 1 /\ ledger[a].tokens = OrZero(usage[a].tokens)
  <2>1. usage[a].cost \in Amount /\ ledger[a].cost = OrZero(usage[a].cost)
        /\ ledger[a].settlements <= 1 /\ ledger[a].tokens = OrZero(usage[a].tokens)
    BY DEF FactInv, FactTypeOK, LedgerExplainsUsage, UsageRow
  <2>2. OrZero(usage[a].cost) \in Int
    BY <2>1, OrZeroFacts
  <2>3. next \in Int /\ next \in Amount
    BY <2>2 DEF Amount
  <2>4. OrZero(next) = next
    BY <2>3, OrZeroFacts
  <2> QED BY <2>1, <2>3, <2>4
<1> HIDE DEF next
<1>3. /\ one \in [Attempts -> LedgerRow] /\ \A b \in Attempts \ {a} : one[b] = ledger[b]
      /\ one[a].tokens = ledger[a].tokens /\ one[a].cost = next
      /\ one[a].settlements = ledger[a].settlements
  BY <1>2 DEF FactInv, FactTypeOK, LedgerRow
<1> HIDE DEF one
<1>4. /\ ledger' \in [Attempts -> LedgerRow] /\ \A b \in Attempts \ {a} : ledger'[b] = ledger[b]
      /\ ledger'[a].tokens = ledger[a].tokens /\ ledger'[a].cost = next
      /\ ledger'[a].settlements = ledger[a].settlements
  BY <1>1, <1>3 DEF LedgerRow
<1>5. /\ usage' \in [Attempts -> UsageRow] /\ \A b \in Attempts \ {a} : usage'[b] = usage[b]
      /\ usage'[a].tokens = usage[a].tokens /\ usage'[a].cost = next
  BY <1>1, <1>2 DEF FactInv, FactTypeOK, UsageRow
<1>6. FactTypeOK'
  BY <1>1, <1>4, <1>5 DEF FactInv, FactTypeOK
<1>7. aState'[a] \in Unsettled => ledger'[a].settlements = 0
  BY <1>1, <1>4 DEF FactInv, OpenIsUnsettled
<1>8. /\ ledger'[a].settlements <= 1 /\ ledger'[a].tokens = OrZero(usage'[a].tokens)
      /\ ledger'[a].cost = OrZero(usage'[a].cost)
  BY <1>2, <1>4, <1>5
<1> QED BY <1>1, <1>4, <1>5, <1>6, <1>7, <1>8, OneFact

\* An admission dates and prices a new attempt; its row is still empty.
LEMMA AdmitFacts ==
  ASSUME LifeInv, FactInv, NEW r, NEW a \in Attempts, NEW k, NEW c, NEW est, NEW wall \in Times,
         NEW priced \in BOOLEAN, Admit(r, a, k, c, est, wall, priced)
  PROVE  FactInv'
<1>1. /\ aState[a] = "absent" /\ aState' = [aState EXCEPT ![a] = "reserved"]
      /\ aPrice' = [aPrice EXCEPT ![a] = IF priced THEN catalog[EffectiveTime(wall)] ELSE Unknown]
      /\ UNCHANGED <<catalog, usage, ledger>>
  BY DEF Admit, factVars, confVars
<1>2. catalog[EffectiveTime(wall)] \in Prices \cup {Unknown}
  BY EffectiveTimeFact DEF LifeInv, LifeTypeOK, FactInv, FactTypeOK
<1>3. FactTypeOK'
  BY <1>1, <1>2 DEF FactInv, FactTypeOK
<1>4. \A b \in Attempts : aState'[b] \in Unsettled => aState[b] \in Unsettled
  BY <1>1 DEF LifeInv, LifeTypeOK, Unsettled
<1> QED BY <1>1, <1>3, <1>4, FactsKept

\* Cancel and Recover give the rows of the attempts they close another status.
LEMMA StatusFacts ==
  ASSUME LifeInv, FactInv, UNCHANGED <<catalog, aPrice, ledger>>,
         \A a \in Attempts : aState'[a] \in Unsettled => aState[a] \in Unsettled,
         usage' = [a \in Attempts |-> usage'[a]],
         \A a \in Attempts : \/ usage'[a] = usage[a]
                             \/ usage'[a] = [usage[a] EXCEPT !.status = "estimated"]
                             \/ usage'[a] = [usage[a] EXCEPT !.status = "unknown"]
  PROVE  FactInv'
<1>1. ASSUME NEW a \in Attempts
      PROVE  usage'[a] \in UsageRow /\ usage'[a].tokens = usage[a].tokens /\ usage'[a].cost = usage[a].cost
  <2>1. usage[a] \in UsageRow
    BY DEF FactInv, FactTypeOK
  <2> QED BY <2>1 DEF UsageRow
<1>2. FactTypeOK'
  BY <1>1 DEF FactInv, FactTypeOK
<1> QED BY <1>1, <1>2, FactsKept

\* Every operation of usage.Service keeps the ledger true to the rows.
LEMMA FactStep == ASSUME LifeInv, FactInv, [Next]_vars PROVE FactInv'
<1>1. ASSUME NEW r \in Requests, NEW a \in Attempts, NEW k \in Keys, NEW c \in Connections,
             NEW est \in Units, NEW wall \in Times, NEW priced \in BOOLEAN,
             Admit(r, a, k, c, est, wall, priced)
      PROVE  FactInv'
  BY <1>1, AdmitFacts
<1>2. ASSUME UNCHANGED <<aPrice, factVars>>, catalog' \in [Times -> Prices \cup {Unknown}],
             \A a \in Attempts : aState'[a] \in Unsettled => aState[a] \in Unsettled
      PROVE  FactInv'
  <2>1. FactTypeOK' /\ UNCHANGED <<usage, ledger>>
    BY <1>2 DEF FactInv, FactTypeOK, factVars
  <2> QED BY <2>1, <1>2, FactsKept
<1>3. catalog \in [Times -> Prices \cup {Unknown}]
  BY DEF FactInv, FactTypeOK
<1>4. ASSUME NEW a \in Attempts, MarkDispatching(a) \/ MarkStreaming(a) PROVE FactInv'
  <2>1. UNCHANGED <<aPrice, factVars, catalog>>
    BY <1>4 DEF MarkDispatching, MarkStreaming, confVars
  <2>2. \A b \in Attempts : aState'[b] \in Unsettled => aState[b] \in Unsettled
    BY <1>4 DEF MarkDispatching, MarkStreaming, LifeInv, LifeTypeOK, Unsettled, ActiveStates
  <2> QED BY <2>1, <2>2, <1>2, <1>3
<1>5. ASSUME NEW a \in Attempts, CancelBeforeDispatch(a) PROVE FactInv'
  <2>1. /\ UNCHANGED <<catalog, aPrice, ledger>>
        /\ aState' = [aState EXCEPT ![a] = "cancelled_before_dispatch"]
        /\ usage' = [usage EXCEPT ![a].status = "estimated"]
    BY <1>5 DEF CancelBeforeDispatch, confVars
  <2>2. \A b \in Attempts : aState'[b] \in Unsettled => aState[b] \in Unsettled
    BY <2>1 DEF LifeInv, LifeTypeOK, Unsettled, ActiveStates
  <2>3. usage' = [b \in Attempts |-> usage'[b]]
        /\ \A b \in Attempts : usage'[b] = usage[b] \/ usage'[b] = [usage[b] EXCEPT !.status = "estimated"]
    BY <2>1 DEF FactInv, FactTypeOK
  <2> QED BY <2>1, <2>2, <2>3, StatusFacts
<1>6. ASSUME NEW a \in Attempts, NEW state \in Outcomes, NEW status \in {"provider_reported", "unknown"},
             NEW tokens \in Units \cup {Unknown}, NEW cost \in Costs \cup {Unknown}, NEW final \in BOOLEAN,
             Settle(a, state, status, tokens, cost, final)
      PROVE  FactInv'
  <2>1. state \in SettledStates /\ tokens \in Amount /\ cost \in Amount
    BY OutcomesAssumption, AmountsAssumption DEF Amount
  <2> QED BY <1>6, <2>1, SettleFacts
<1>7. ASSUME NEW r \in Requests, CloseFailedRequest(r) \/ \E state \in Outcomes : FinalizeRequest(r, state)
      PROVE  FactInv'
  BY <1>7, <1>2, <1>3 DEF CloseFailedRequest, FinalizeRequest, confVars
<1>8. ASSUME NEW S \in SUBSET Requests, RepairStaleRequests(S) PROVE FactInv'
  BY <1>8, <1>2, <1>3 DEF RepairStaleRequests, confVars
<1>9. ASSUME NEW wall \in Times, Recover(wall) PROVE FactInv'
  <2>1. UNCHANGED <<catalog, aPrice, ledger>>
    BY <1>9 DEF Recover, confVars
  <2>2. usage' = [a \in Attempts |->
                     IF a \in {b \in Attempts : aState[b] = "reserved"} THEN [usage[a] EXCEPT !.status = "estimated"]
                     ELSE IF a \in Active \ {b \in Attempts : aState[b] = "reserved"}
                          THEN [usage[a] EXCEPT !.status = "unknown"] ELSE usage[a]]
    BY <1>9 DEF Recover
  <2>3. \A b \in Attempts : aState'[b] \in Unsettled => aState[b] \in Unsettled
    BY <1>9 DEF Recover, Active, Unsettled, ActiveStates
  <2>4. usage' = [a \in Attempts |-> usage'[a]]
        /\ \A a \in Attempts : \/ usage'[a] = usage[a]
                               \/ usage'[a] = [usage[a] EXCEPT !.status = "estimated"]
                               \/ usage'[a] = [usage[a] EXCEPT !.status = "unknown"]
    BY <2>2
  <2> QED BY <2>1, <2>3, <2>4, StatusFacts
<1>10. ASSUME NEW a \in Attempts, NEW tokens \in Reported, NEW cost \in ReconciledCosts \cup {Unknown},
              ReconcileUnknown(a, "provider_reported", tokens, cost)
       PROVE  FactInv'
  <2>1. tokens \in Int /\ cost \in Amount
    BY AmountsAssumption DEF Amount
  <2> QED BY <1>10, <2>1, ReconcileFacts
<1>11. ASSUME NEW c \in Connections, NEW from \in Times, NEW to \in 1..MaxTime + 1, ApplyReprice(c, from, to)
       PROVE  FactInv'
  BY <1>11, RepriceFacts
<1>12. ASSUME NEW a \in Attempts, NEW delta \in Deltas, AdjustCost(a, delta) PROVE FactInv'
  <2>1. delta \in Int
    BY AmountsAssumption
  <2> QED BY <1>12, <2>1, AdjustFacts
<1>13. ASSUME NEW v \in Prices, NEW from \in Times, CreatePrice(v, from) PROVE FactInv'
  <2>1. UNCHANGED <<aPrice, factVars, aState>> /\ catalog' = [t \in Times |-> IF t >= from THEN v ELSE catalog[t]]
    BY <1>13 DEF CreatePrice, lifeVars
  <2>2. catalog' \in [Times -> Prices \cup {Unknown}]
    BY <2>1, <1>3
  <2> QED BY <2>1, <2>2, <1>2
<1>14. CASE \/ \E p \in Policies : \E setting \in Settings[p] : UpdatePolicy(p, setting)
            \/ \E g \in Grants : ChangeGrants(g)
            \/ Deliver
            \/ UNCHANGED vars
  <2>1. UNCHANGED <<aPrice, factVars, aState, catalog>>
    BY <1>14 DEF UpdatePolicy, ChangeGrants, Deliver, vars, lifeVars, confVars
  <2> QED BY <2>1, <1>2, <1>3
<1> QED
  BY <1>1, <1>4, <1>5, <1>6, <1>7, <1>8, <1>9, <1>10, <1>11, <1>12, <1>13, <1>14 DEF Next

\* The invariants of the lifecycle and of the ledger in every reachable state.
LEMMA AccountingInvariant == Spec => [](LifeInv /\ FactInv)
<1>1. Init => LifeInv /\ OutboxRoom /\ FactInv
  BY InitLife, InitRoom, InitFacts
<1>2. LifeInv /\ OutboxRoom /\ FactInv /\ [Next]_vars => LifeInv' /\ OutboxRoom' /\ FactInv'
  BY Step, FactStep
<1> QED BY <1>1, <1>2, PTL DEF Spec

\* For every number of attempts and any order of settlements, reconciliations,
\* repricings, adjustments and restarts: an attempt has one settlement at most,
\* and the deltas appended to usage_ledger add up to the tokens and the cost its
\* row shows.
THEOREM LedgerExplainsAlways == Spec => []LedgerExplainsUsage
<1>1. LifeInv /\ FactInv => LedgerExplainsUsage
  BY DEF FactInv
<1> QED BY <1>1, AccountingInvariant, PTL

-----------------------------------------------------------------------------
(* Concurrency limits. *)

\* The owner leaves the concurrency policies switched on and at their limits.
SlotPoliciesAreFixed ==
  \A p \in Policies : Algorithm[p] = "concurrency" =>
    \E n \in Nat : Settings[p] = {[limit |-> n, enabled |-> TRUE]}

Slots(p) == {l \in leases : l[1] = p}
InFlight(x) == x \in Active \/ x \in OpenRequests

PolicyOK == policy \in [Policies -> UNION {Settings[p] : p \in Policies}] /\ \A p \in Policies : policy[p] \in Settings[p]

\* The work a policy counts holds a lease of it as long as it is in flight, and
\* the leases are within the limit.
SlotsOK(p) ==
  /\ \A x \in Counted(p) : InFlight(x) => <<p, x>> \in leases
  /\ IsFiniteSet(Slots(p))
  /\ Cardinality(Slots(p)) <= policy[p].limit
SlotInv == PolicyOK /\ \A p \in Policies : Algorithm[p] = "concurrency" => SlotsOK(p)

\* What a fixed policy looks like.
LEMMA FixedFacts ==
  ASSUME SlotPoliciesAreFixed, PolicyOK, NEW p \in Policies, Algorithm[p] = "concurrency"
  PROVE  policy[p].limit \in Nat /\ policy[p].enabled = TRUE
<1>1. PICK n \in Nat : Settings[p] = {[limit |-> n, enabled |-> TRUE]}
  BY DEF SlotPoliciesAreFixed
<1>2. policy[p] = [limit |-> n, enabled |-> TRUE]
  BY <1>1 DEF PolicyOK
<1> QED BY <1>2

\* At first nothing is in flight.
LEMMA InitSlots == SlotPoliciesAreFixed /\ Init => SlotInv
<1> SUFFICES ASSUME SlotPoliciesAreFixed, Init PROVE SlotInv
  OBVIOUS
<1>1. PolicyOK
  BY DEF Init, PolicyOK
<1>2. ASSUME NEW p \in Policies, Algorithm[p] = "concurrency" PROVE SlotsOK(p)
  <2>1. Slots(p) = {} /\ \A x : ~InFlight(x)
    BY DEF Init, Slots, InFlight, Active, OpenRequests, ActiveStates
  <2>2. IsFiniteSet({}) /\ Cardinality({}) = 0 /\ policy[p].limit \in Nat
    BY <1>1, <1>2, FS_EmptySet, FixedFacts
  <2> QED BY <2>1, <2>2 DEF SlotsOK
<1> QED BY <1>1, <1>2 DEF SlotInv

\* Steps that free leases only of work that is not in flight any more.
LEMMA SlotsKept ==
  ASSUME SlotPoliciesAreFixed, SlotInv, leases' \subseteq leases, policy' = policy,
         \A p \in Policies : \A x \in Counted(p)' : InFlight(x)' =>
           /\ x \in Counted(p) /\ InFlight(x)
           /\ <<p, x>> \in leases => <<p, x>> \in leases'
  PROVE  SlotInv'
<1>1. PolicyOK'
  BY DEF SlotInv, PolicyOK
<1>2. ASSUME NEW p \in Policies, Algorithm[p] = "concurrency" PROVE SlotsOK(p)'
  <2>1. SlotsOK(p)
    BY <1>2 DEF SlotInv
  <2>2. Slots(p)' \in SUBSET Slots(p)
    BY DEF Slots
  <2>3. /\ IsFiniteSet(Slots(p)') /\ Cardinality(Slots(p)') <= Cardinality(Slots(p))
        /\ Cardinality(Slots(p)) \in Nat /\ Cardinality(Slots(p)') \in Nat
    BY <2>1, <2>2, FS_Subset, FS_CardinalityType DEF SlotsOK
  <2>4. policy[p].limit \in Nat
    BY <1>2, FixedFacts DEF SlotInv
  <2>5. Cardinality(Slots(p)') <= policy'[p].limit
    BY <2>1, <2>3, <2>4 DEF SlotsOK
  <2>6. \A x \in Counted(p)' : InFlight(x)' => <<p, x>> \in leases'
    BY <2>1 DEF SlotsOK
  <2> QED BY <2>3, <2>5, <2>6 DEF SlotsOK
<1> QED BY <1>1, <1>2 DEF SlotInv

\* An admission takes a slot of every matching policy that still has one, or
\* uses the slot its request already holds.
LEMMA AdmitSlots ==
  ASSUME SlotPoliciesAreFixed, LifeInv, SlotInv, NEW r \in Requests, NEW a \in Attempts, NEW k \in Keys,
         NEW c \in Connections, NEW est, NEW wall, NEW priced, Admit(r, a, k, c, est, wall, priced)
  PROVE  SlotInv'
<1> DEFINE ps == MatchingPolicies(k, c)
<1>1. /\ aState[a] = "absent" /\ aState' = [aState EXCEPT ![a] = "reserved"]
      /\ rState' = [rState EXCEPT ![r] = "reserved"] /\ rKey' = [rKey EXCEPT ![r] = k]
      /\ aConn' = [aConn EXCEPT ![a] = c]
      /\ leases' = leases \cup PlannedLeases(ps, r, a) /\ policy' = policy
  BY DEF Admit, confVars
<1>2. ASSUME NEW p \in ps, Algorithm[p] = "concurrency"
      PROVE  <<p, LeaseId(p, r, a)>> \in leases \/ Cardinality(Slots(p)) < policy[p].limit
  <2>1. \E now, first, cost : Permits(p, r, a, now, first, est, cost)
    BY DEF Admit
  <2> QED BY <1>2, <2>1 DEF Permits, Slots
<1> HIDE DEF ps
<1>3. PolicyOK'
  BY <1>1 DEF SlotInv, PolicyOK
<1>4. ASSUME NEW p \in Policies, Algorithm[p] = "concurrency" PROVE SlotsOK(p)'
  <2>1. SlotsOK(p) /\ policy[p].limit \in Nat /\ policy[p].enabled
    BY <1>4, FixedFacts DEF SlotInv
  <2>2. /\ IsFiniteSet(Slots(p)') /\ Cardinality(Slots(p)') <= policy[p].limit
        /\ p \in ps => <<p, LeaseId(p, r, a)>> \in leases'
    <3>1. CASE p \in ps
      <4> DEFINE new == <<p, LeaseId(p, r, a)>>
      <4>1. Slots(p)' = Slots(p) \cup {new} /\ new \in leases'
        BY <1>1, <1>4, <3>1 DEF Slots, PlannedLeases
      <4>2. new \in leases => new \in Slots(p)
        BY DEF Slots
      <4> HIDE DEF new
      <4>3. /\ IsFiniteSet(Slots(p) \cup {new}) /\ Cardinality(Slots(p)) \in Nat
            /\ Cardinality(Slots(p) \cup {new}) =
                 IF new \in Slots(p) THEN Cardinality(Slots(p)) ELSE Cardinality(Slots(p)) + 1
        BY <2>1, FS_AddElement, FS_CardinalityType DEF SlotsOK
      <4>4. new \in Slots(p) \/ Cardinality(Slots(p)) < policy[p].limit
        BY <1>2, <1>4, <3>1, <4>2 DEF new
      <4>5. Cardinality(Slots(p) \cup {new}) <= policy[p].limit
        BY <2>1, <4>3, <4>4 DEF SlotsOK
      <4> QED BY <4>1, <4>3, <4>5 DEF new
    <3>2. CASE p \notin ps
      <4>1. Slots(p)' = Slots(p)
        BY <1>1, <3>2 DEF Slots, PlannedLeases
      <4> QED BY <2>1, <3>2, <4>1 DEF SlotsOK
    <3> QED BY <3>1, <3>2
  <2>3. ASSUME NEW x \in Counted(p)', InFlight(x)' PROVE <<p, x>> \in leases'
    <3>1. CASE ScopeKind[p] = "connection"
      <4>1. x \in Attempts /\ aState'[x] # "absent" /\ aConn'[x] = ScopeId[p]
        BY <3>1, <2>3 DEF Counted
      <4>2. CASE x = a
        <5>1. ScopeId[p] = c
          BY <4>1, <4>2, <1>1 DEF LifeInv, LifeTypeOK
        <5>2. p \in ps /\ LeaseId(p, r, a) = a
          BY <5>1, <3>1, <2>1 DEF ps, MatchingPolicies, LeaseId
        <5> QED BY <5>2, <4>2, <2>2
      <4>3. CASE x # a
        <5>1. x \in Counted(p) /\ x \notin Requests
          BY <4>1, <4>3, <3>1, <1>1, DisjointAssumption DEF Counted, LifeInv, LifeTypeOK
        <5>2. InFlight(x)
          BY <5>1, <4>1, <4>3, <2>3, <1>1 DEF InFlight, Active, OpenRequests, LifeInv, LifeTypeOK
        <5>3. <<p, x>> \in leases
          BY <5>1, <5>2, <2>1 DEF SlotsOK
        <5> QED BY <5>3, <1>1
      <4> QED BY <4>2, <4>3
    <3>2. CASE ScopeKind[p] # "connection"
      <4>1. /\ x \in Requests /\ x \notin Attempts /\ rState'[x] # "absent"
            /\ \/ ScopeKind[p] = "instance"
               \/ ScopeKind[p] = "user" /\ ScopeId[p] = Owner[rKey'[x]]
               \/ ScopeKind[p] = "key" /\ ScopeId[p] = rKey'[x]
        BY <3>2, <2>3, DisjointAssumption DEF Counted
      <4>2. CASE x = r
        <5>1. rKey'[x] = k
          BY <4>2, <1>1 DEF LifeInv, LifeTypeOK
        <5>2. p \in ps /\ LeaseId(p, r, a) = r
          BY <5>1, <4>1, <3>2, <2>1 DEF ps, MatchingPolicies, LeaseId
        <5> QED BY <5>2, <4>2, <2>2
      <4>3. CASE x # r
        <5>1. rState'[x] = rState[x] /\ rKey'[x] = rKey[x]
          BY <4>1, <4>3, <1>1 DEF LifeInv, LifeTypeOK
        <5>2. x \in Counted(p) /\ InFlight(x)
          BY <5>1, <4>1, <3>2, <2>3 DEF Counted, InFlight, Active, OpenRequests
        <5>3. <<p, x>> \in leases
          BY <5>2, <2>1 DEF SlotsOK
        <5> QED BY <5>3, <1>1
      <4> QED BY <4>2, <4>3
    <3> QED BY <3>1, <3>2
  <2> QED BY <2>2, <2>3, <1>1 DEF SlotsOK
<1> QED BY <1>3, <1>4 DEF SlotInv

\* Closing an attempt frees its own slot, and that of its request only when the
\* request is closed too.
LEMMA CloseSlots ==
  ASSUME SlotPoliciesAreFixed, LifeInv, SlotInv, NEW a \in Attempts, NEW state \in AttemptStates \ ActiveStates,
         NEW next \in RequestStates \ {"absent", "reserved"}, NEW final \in BOOLEAN,
         aState[a] \in ActiveStates, state # "absent",
         aState' = [aState EXCEPT ![a] = state],
         rState' = [rState EXCEPT ![aReq[a]] = next],
         leases' = leases \ (LeasesOf(a) \cup (IF final THEN LeasesOf(aReq[a]) ELSE {})),
         final => next # "in_progress",
         UNCHANGED <<rKey, aConn, policy>>
  PROVE  SlotInv'
<1>1. aReq[a] \in Requests /\ rState[aReq[a]] = "reserved" /\ aReq[a] \notin Attempts /\ a \notin Requests
  BY DisjointAssumption DEF LifeInv, OneOpenAttempt, Active
<1>2. ASSUME NEW p \in Policies, NEW x \in Counted(p)', InFlight(x)'
      PROVE  /\ x \in Counted(p) /\ InFlight(x)
             /\ <<p, x>> \in leases => <<p, x>> \in leases'
  <2>1. \/ /\ x \in Active' /\ x \in Attempts /\ x \notin Requests
        \/ /\ x \in OpenRequests' /\ x \in Requests /\ x \notin Attempts
    BY <1>2, DisjointAssumption DEF InFlight, Active, OpenRequests
  <2>2. CASE x \in Active' /\ x \in Attempts /\ x \notin Requests
    <3>1. x # a /\ x # aReq[a] /\ aState'[x] = aState[x] /\ x \in Active
      BY <2>2, <1>1 DEF Active, LifeInv, LifeTypeOK
    <3>2. x \in Counted(p)
      BY <1>2, <2>2, <3>1 DEF Counted
    <3> QED BY <3>1, <3>2 DEF InFlight, LeasesOf
  <2>3. CASE x \in OpenRequests' /\ x \in Requests /\ x \notin Attempts
    <3>1. x # a /\ x \in OpenRequests
      BY <2>3, <1>1 DEF OpenRequests, LifeInv, LifeTypeOK
    <3>2. final => x # aReq[a]
      BY <2>3, <1>1 DEF OpenRequests, LifeInv, LifeTypeOK
    <3>3. x \in Counted(p)
      BY <1>2, <2>3, <3>1 DEF Counted, OpenRequests
    <3> QED BY <3>1, <3>2, <3>3 DEF InFlight, LeasesOf
  <2> QED BY <2>1, <2>2, <2>3
<1>3. leases' \subseteq leases
  OBVIOUS
<1> QED BY <1>2, <1>3, SlotsKept

\* Closing requests left in progress frees their slots.
LEMMA FinishSlots ==
  ASSUME SlotPoliciesAreFixed, LifeInv, SlotInv, NEW S \in SUBSET Requests, NEW state \in SettledStates,
         rState' = [r \in Requests |-> IF r \in S THEN state ELSE rState[r]],
         leases' = {l \in leases : l[2] \notin S},
         UNCHANGED <<rKey, aState, aConn, policy>>
  PROVE  SlotInv'
<1>1. ASSUME NEW p \in Policies, NEW x \in Counted(p)', InFlight(x)'
      PROVE  /\ x \in Counted(p) /\ InFlight(x)
             /\ <<p, x>> \in leases => <<p, x>> \in leases'
  <2>1. CASE x \in Active'
    <3>1. x \in Attempts /\ x \notin Requests /\ x \in Active
      BY <2>1, DisjointAssumption DEF Active
    <3>2. x \in Counted(p)
      BY <1>1, <3>1 DEF Counted
    <3> QED BY <3>1, <3>2 DEF InFlight
  <2>2. CASE x \in OpenRequests'
    <3>1. x \in Requests /\ x \notin Attempts /\ x \notin S /\ x \in OpenRequests
      BY <2>2, DisjointAssumption DEF OpenRequests, SettledStates
    <3>2. x \in Counted(p)
      BY <1>1, <3>1 DEF Counted, OpenRequests
    <3> QED BY <3>1, <3>2 DEF InFlight
  <2> QED BY <1>1, <2>1, <2>2 DEF InFlight
<1> QED BY <1>1, SlotsKept

\* Steps that leave the lifecycle columns, the leases and the policies alone.
LEMMA StillSlots ==
  ASSUME SlotPoliciesAreFixed, SlotInv, UNCHANGED <<rState, rKey, aConn, leases, policy>>,
         Active' = Active, \A a \in Attempts : aState'[a] = "absent" <=> aState[a] = "absent"
  PROVE  SlotInv'
<1>1. ASSUME NEW p \in Policies PROVE Counted(p)' = Counted(p)
  <2>1. CASE ScopeKind[p] = "connection"
    BY <2>1 DEF Counted
  <2>2. CASE ScopeKind[p] # "connection"
    BY <2>2 DEF Counted
  <2> QED BY <2>1, <2>2
<1>2. OpenRequests' = OpenRequests
  BY DEF OpenRequests
<1>3. \A x : InFlight(x)' <=> InFlight(x)
  BY <1>2 DEF InFlight
<1> QED BY <1>1, <1>3, SlotsKept

\* Every operation keeps the work in flight within its slots.
LEMMA SlotStep == ASSUME SlotPoliciesAreFixed, LifeInv, SlotInv, [Next]_vars PROVE SlotInv'
<1>1. ASSUME NEW r \in Requests, NEW a \in Attempts, NEW k \in Keys, NEW c \in Connections,
             NEW est \in Units, NEW wall \in Times, NEW priced \in BOOLEAN,
             Admit(r, a, k, c, est, wall, priced)
      PROVE  SlotInv'
  BY <1>1, AdmitSlots
<1>2. ASSUME UNCHANGED <<lifeVars, leases, policy>> PROVE SlotInv'
  <2>1. UNCHANGED <<rState, rKey, aState, aConn, leases, policy>>
    BY <1>2 DEF lifeVars
  <2>2. Active' = Active
    BY <2>1 DEF Active
  <2> QED BY <2>1, <2>2, StillSlots
<1>3. ASSUME NEW a \in Attempts, MarkDispatching(a) \/ MarkStreaming(a) PROVE SlotInv'
  <2>1. /\ aState[a] \in {"reserved", "dispatching"}
        /\ \E s \in {"dispatching", "streaming"} : aState' = [aState EXCEPT ![a] = s]
        /\ UNCHANGED <<rState, rKey, aConn, leases, policy>>
    BY <1>3 DEF MarkDispatching, MarkStreaming, confVars
  <2>2. Active' = Active /\ \A b \in Attempts : aState'[b] = "absent" <=> aState[b] = "absent"
    BY <2>1 DEF LifeInv, LifeTypeOK, Active, ActiveStates
  <2> QED BY <2>1, <2>2, StillSlots
<1>4. ASSUME NEW a \in Attempts, CancelBeforeDispatch(a) PROVE SlotInv'
  <2> DEFINE final == TRUE
  <2>1. /\ aState[a] \in ActiveStates
        /\ aState' = [aState EXCEPT ![a] = "cancelled_before_dispatch"]
        /\ rState' = [rState EXCEPT ![aReq[a]] = "cancelled"]
        /\ leases' = leases \ (LeasesOf(a) \cup (IF final THEN LeasesOf(aReq[a]) ELSE {}))
        /\ UNCHANGED <<rKey, aConn, policy>>
    BY <1>4 DEF CancelBeforeDispatch, ActiveStates, confVars
  <2>2. /\ "cancelled_before_dispatch" \in AttemptStates \ ActiveStates
        /\ "cancelled" \in RequestStates \ {"absent", "reserved"} /\ final \in BOOLEAN
    BY DEF AttemptStates, RequestStates, ActiveStates, SettledStates
  <2> HIDE DEF final
  <2> QED BY <2>1, <2>2, CloseSlots
<1>5. ASSUME NEW a \in Attempts, NEW state \in Outcomes, NEW status, NEW tokens, NEW cost, NEW final \in BOOLEAN,
             Settle(a, state, status, tokens, cost, final)
      PROVE  SlotInv'
  <2> DEFINE next == IF final THEN state ELSE "in_progress"
  <2>1. /\ aState[a] \in ActiveStates
        /\ aState' = [aState EXCEPT ![a] = state]
        /\ rState' = [rState EXCEPT ![aReq[a]] = next]
        /\ leases' = leases \ (LeasesOf(a) \cup (IF final THEN LeasesOf(aReq[a]) ELSE {}))
        /\ UNCHANGED <<rKey, aConn, policy>>
    BY <1>5 DEF Settle, Settleable, Freed, confVars
  <2>2. /\ state \in AttemptStates \ ActiveStates /\ state # "absent"
        /\ next \in RequestStates \ {"absent", "reserved"} /\ (final => next # "in_progress")
    BY OutcomesAssumption DEF AttemptStates, RequestStates, ActiveStates, SettledStates
  <2> HIDE DEF next
  <2> QED BY <2>1, <2>2, CloseSlots
<1>6. ASSUME NEW r \in Requests, NEW state \in SettledStates,
             rState' = [rState EXCEPT ![r] = state], leases' = leases \ LeasesOf(r),
             UNCHANGED <<rKey, aState, aConn, policy>>
      PROVE  SlotInv'
  <2>1. rState' = [q \in Requests |-> IF q \in {r} THEN state ELSE rState[q]]
        /\ leases' = {l \in leases : l[2] \notin {r}} /\ {r} \in SUBSET Requests
    BY <1>6 DEF LeasesOf, LifeInv, LifeTypeOK
  <2> QED BY <1>6, <2>1, FinishSlots
<1>7. ASSUME NEW r \in Requests, CloseFailedRequest(r) \/ \E state \in Outcomes : FinalizeRequest(r, state)
      PROVE  SlotInv'
  <2>1. \E state \in SettledStates :
          /\ rState' = [rState EXCEPT ![r] = state] /\ leases' = leases \ LeasesOf(r)
          /\ UNCHANGED <<rKey, aState, aConn, policy>>
    BY <1>7, OutcomesAssumption DEF CloseFailedRequest, FinalizeRequest, confVars, SettledStates
  <2> QED BY <2>1, <1>6
<1>8. ASSUME NEW S \in SUBSET Requests, RepairStaleRequests(S) PROVE SlotInv'
  BY <1>8, FinishSlots DEF RepairStaleRequests, confVars, SettledStates
<1>9. ASSUME NEW wall \in Times, Recover(wall) PROVE SlotInv'
  <2>1. leases' = {} /\ policy' = policy
    BY <1>9 DEF Recover, confVars
  <2>2. Active' = {}
    BY <1>9 DEF Recover, Active, ActiveStates
  <2>3. OpenRequests' = {}
    <3>1. \A r \in Requests : rState'[r] # "reserved"
      <4>1. LifeInv'
        BY <1>9, RecoverLife
      <4> QED BY <4>1, <2>2 DEF LifeInv, OneOpenAttempt, ActiveOf
    <3>2. \A r \in Requests : rState'[r] # "in_progress"
      BY <1>9 DEF Recover
    <3> QED BY <3>1, <3>2 DEF OpenRequests
  <2> QED BY <2>1, <2>2, <2>3, SlotsKept DEF InFlight
<1>10. ASSUME NEW p \in Policies, NEW setting \in Settings[p], UpdatePolicy(p, setting) PROVE SlotInv'
  <2>1. policy' = [policy EXCEPT ![p] = setting] /\ UNCHANGED <<lifeVars, leases>>
    BY <1>10 DEF UpdatePolicy
  <2>2. PolicyOK'
    BY <2>1 DEF SlotInv, PolicyOK
  <2>3. ASSUME NEW q \in Policies, Algorithm[q] = "concurrency" PROVE SlotsOK(q)'
    <3>1. policy'[q] = policy[q]
      <4>1. PICK n \in Nat : Settings[q] = {[limit |-> n, enabled |-> TRUE]}
        BY <2>3 DEF SlotPoliciesAreFixed
      <4> QED BY <4>1, <2>1, <2>2 DEF SlotInv, PolicyOK
    <3>2. Counted(q)' = Counted(q) /\ Slots(q)' = Slots(q) /\ \A x : InFlight(x)' <=> InFlight(x)
      BY <2>1 DEF Counted, Slots, InFlight, Active, OpenRequests, lifeVars
    <3> QED BY <2>1, <2>3, <3>1, <3>2 DEF SlotInv, SlotsOK
  <2> QED BY <2>2, <2>3 DEF SlotInv
<1>11. ASSUME NEW a \in Attempts, NEW tokens, NEW cost, ReconcileUnknown(a, "provider_reported", tokens, cost)
       PROVE  SlotInv'
  BY <1>11, <1>2 DEF ReconcileUnknown, confVars
<1>12. ASSUME NEW c \in Connections, NEW from, NEW to, ApplyReprice(c, from, to) PROVE SlotInv'
  BY <1>12, <1>2 DEF ApplyReprice, confVars
<1>13. ASSUME NEW a \in Attempts, NEW delta \in Deltas, AdjustCost(a, delta) PROVE SlotInv'
  BY <1>13, <1>2 DEF AdjustCost, confVars
<1>14. CASE \/ \E v \in Prices, from \in Times : CreatePrice(v, from)
            \/ \E g \in Grants : ChangeGrants(g)
            \/ Deliver
            \/ UNCHANGED vars
  BY <1>14, <1>2 DEF CreatePrice, ChangeGrants, Deliver, vars, confVars
<1> QED
  BY <1>1, <1>3, <1>4, <1>5, <1>7, <1>8, <1>9, <1>10, <1>11, <1>12, <1>13, <1>14 DEF Next

\* The slots bound the work in flight.
LEMMA SlotsBound == SlotPoliciesAreFixed /\ SlotInv => ConcurrencyIsBounded
<1> SUFFICES ASSUME SlotPoliciesAreFixed, SlotInv, NEW p \in Policies, Algorithm[p] = "concurrency"
             PROVE  Cardinality({x \in Counted(p) : x \in Active \/ x \in OpenRequests}) <= policy[p].limit
  BY DEF ConcurrencyIsBounded
<1> DEFINE T == {x \in Counted(p) : x \in Active \/ x \in OpenRequests}
           f == [x \in T |-> <<p, x>>]
<1>1. SlotsOK(p) /\ policy[p].limit \in Nat
  BY FixedFacts DEF SlotInv
<1>2. f \in Injection(T, Slots(p))
  <2>1. \A x \in T : <<p, x>> \in Slots(p)
    BY <1>1 DEF SlotsOK, InFlight, Slots
  <2>2. f \in [T -> Slots(p)] /\ \A x, y \in T : f[x] = f[y] => x = y
    BY <2>1
  <2> QED BY <2>2 DEF Injection, IsInjective
<1> HIDE DEF T, f
<1>3. IsFiniteSet(T) /\ Cardinality(T) <= Cardinality(Slots(p)) /\ Cardinality(T) \in Nat /\ Cardinality(Slots(p)) \in Nat
  BY <1>1, <1>2, FS_Injection, FS_CardinalityType DEF SlotsOK
<1>4. Cardinality(T) <= policy[p].limit
  BY <1>1, <1>3 DEF SlotsOK
<1> QED BY <1>4 DEF T

\* For every number of requests, attempts and policies: as long as the
\* concurrency policies are left alone, the requests (or, for a connection, the
\* attempts) in flight under one never exceed its limit, through fallbacks,
\* repairs, late settlements and restarts.
THEOREM SlotsAreBounded == ASSUME SlotPoliciesAreFixed PROVE Spec => []ConcurrencyIsBounded
<1>1. Init => LifeInv /\ OutboxRoom /\ SlotInv
  BY InitLife, InitRoom, InitSlots
<1>2. LifeInv /\ OutboxRoom /\ SlotInv /\ [Next]_vars => LifeInv' /\ OutboxRoom' /\ SlotInv'
  BY Step, SlotStep
<1>3. SlotInv => ConcurrencyIsBounded
  BY SlotsBound
<1> QED BY <1>1, <1>2, <1>3, PTL DEF Spec

-----------------------------------------------------------------------------
(* The reserved units of a period. *)

\* The counters are rows of integers; an attempt that was never admitted has no
\* reservation, and only policies on tokens and spend have any.
ResvStates == {"none", "active", "uncertain", "settled", "released"}
ResvRow == [state : ResvStates, units : Nat, period : Times]
QuotaRow == [consumed : Int, reserved : Int]
ResvOK ==
  /\ resv \in [Attempts -> [Policies -> ResvRow]]
  /\ \A a \in Attempts, p \in Policies :
       aState[a] = "absent" \/ ~Reserves(p) => resv[a][p].state = "none"

\* What a reservation row holds of the period t.
OpenOf(row, t) == IF row.state \in {"active", "uncertain"} /\ row.period = t THEN row.units ELSE 0
OpenUnits(p, t) == [a \in Attempts |-> OpenOf(resv[a][p], t)]
ReservedOK ==
  \A p \in Policies, t \in Times :
    Algorithm[p] # "token_bucket" => quota[p][t].reserved = Sum(OpenUnits(p, t), Attempts)

QuotaInv == quota \in [Policies -> [Times -> QuotaRow]] /\ ResvOK /\ ReservedOK

LEMMA OpenFacts ==
  ASSUME NEW row \in ResvRow, NEW t \in Times PROVE OpenOf(row, t) \in Nat
  BY DEF OpenOf, ResvRow

\* The initial counters are empty.
LEMMA InitQuota == Init => QuotaInv
<1> SUFFICES ASSUME Init PROVE QuotaInv
  OBVIOUS
<1>1. 0 \in Times
  BY TimeAssumption DEF Times
<1>2. /\ quota = [p \in Policies |-> [t \in Times |-> [consumed |-> 0, reserved |-> 0]]]
      /\ resv = [a \in Attempts |-> [p \in Policies |-> NoReservation]]
  BY DEF Init
<1>3. NoReservation \in ResvRow /\ NoReservation.state = "none"
  BY <1>1 DEF NoReservation, ResvRow, ResvStates
<1>4. ResvOK
  BY <1>2, <1>3 DEF ResvOK
<1>5. quota \in [Policies -> [Times -> QuotaRow]]
  BY <1>2 DEF QuotaRow
<1>6. ASSUME NEW p \in Policies, NEW t \in Times PROVE quota[p][t].reserved = Sum(OpenUnits(p, t), Attempts)
  <2>1. \A a \in Attempts : OpenUnits(p, t)[a] = 0
    BY <1>2, <1>3 DEF OpenUnits, OpenOf
  <2>2. Sum(OpenUnits(p, t), Attempts) = 0
    BY <2>1, AttemptsAssumption, SumZero
  <2> QED BY <1>2, <2>2
<1> QED BY <1>4, <1>5, <1>6 DEF QuotaInv, ReservedOK

\* A reservation row that at most changes its state.
Relabelled(old, new) ==
  \E st \in ResvStates : new = [old EXCEPT !.state = st] /\ (st = "none" <=> old.state = "none")

LEMMA RelabelledFacts ==
  ASSUME NEW old \in ResvRow, NEW new, Relabelled(old, new)
  PROVE  new \in ResvRow /\ new.units = old.units /\ new.period = old.period /\ (new.state = "none" <=> old.state = "none")
  BY DEF Relabelled, ResvRow

LEMMA SameRelabelled == ASSUME NEW row \in ResvRow PROVE Relabelled(row, row)
<1>1. row = [row EXCEPT !.state = row.state] /\ row.state \in ResvStates
  BY DEF ResvRow
<1> QED BY <1>1 DEF Relabelled

\* Every operation but an admission only relabels reservations.
LEMMA ResvKept ==
  ASSUME ResvOK, resv' = [a \in Attempts |-> [p \in Policies |-> resv'[a][p]]],
         \A a \in Attempts, p \in Policies : Relabelled(resv[a][p], resv'[a][p]),
         \A a \in Attempts : aState'[a] = "absent" => aState[a] = "absent"
  PROVE  ResvOK'
<1>1. \A a \in Attempts, p \in Policies : resv'[a][p] \in ResvRow /\ (resv'[a][p].state = "none" <=> resv[a][p].state = "none")
  BY RelabelledFacts DEF ResvOK
<1>2. resv' \in [Attempts -> [Policies -> ResvRow]]
  <2>1. \A a \in Attempts : [p \in Policies |-> resv'[a][p]] \in [Policies -> ResvRow]
    BY <1>1
  <2> HIDE DEF ResvRow
  <2>2. [a \in Attempts |-> [p \in Policies |-> resv'[a][p]]] \in [Attempts -> [Policies -> ResvRow]]
    BY <2>1
  <2> QED BY <2>2
<1>3. \A a \in Attempts, p \in Policies : aState'[a] = "absent" \/ ~Reserves(p) => resv'[a][p].state = "none"
  BY <1>1 DEF ResvOK, Reserves
<1> QED BY <1>2, <1>3 DEF ResvOK, Reserves

\* One attempt changes what it holds of a period, and the counter follows.
LEMMA OneReserved ==
  ASSUME ResvOK, ResvOK', NEW p \in Policies, NEW t \in Times, NEW a \in Attempts,
         quota[p][t].reserved = Sum(OpenUnits(p, t), Attempts),
         \A b \in Attempts \ {a} : OpenOf(resv'[b][p], t) = OpenOf(resv[b][p], t),
         quota'[p][t].reserved = quota[p][t].reserved + (OpenOf(resv'[a][p], t) - OpenOf(resv[a][p], t))
  PROVE  quota'[p][t].reserved = Sum(OpenUnits(p, t)', Attempts)
<1> DEFINE f == [b \in Attempts |-> OpenOf(resv[b][p], t)]
           g == [b \in Attempts |-> OpenOf(resv'[b][p], t)]
<1>1. \A b \in Attempts : resv[b][p] \in ResvRow /\ resv'[b][p] \in ResvRow
  BY DEF ResvOK
<1>2. \A b \in Attempts : f[b] \in Int /\ g[b] \in Int
  BY <1>1, OpenFacts
<1>3. \A b \in Attempts \ {a} : g[b] = f[b]
  OBVIOUS
<1>4. f[a] = OpenOf(resv[a][p], t) /\ g[a] = OpenOf(resv'[a][p], t)
  OBVIOUS
<1>5. f = OpenUnits(p, t) /\ g = OpenUnits(p, t)'
  BY DEF OpenUnits, OpenOf
<1> HIDE DEF f, g
<1>6. Sum(g, Attempts) = Sum(f, Attempts) + (g[a] - f[a])
  BY <1>2, <1>3, AttemptsAssumption, SumChange
<1> QED BY <1>4, <1>5, <1>6

\* The attempts T give up what they hold of a period.
LEMMA ManyReserved ==
  ASSUME ResvOK, ResvOK', NEW p \in Policies, NEW t \in Times, NEW T \in SUBSET Attempts,
         \A a \in T : OpenOf(resv[a][p], t) = resv[a][p].units /\ OpenOf(resv'[a][p], t) = 0,
         \A a \in Attempts \ T : OpenOf(resv'[a][p], t) = OpenOf(resv[a][p], t)
  PROVE  /\ Sum(OpenUnits(p, t)', Attempts) = Sum(OpenUnits(p, t), Attempts)
              - SumFunctionOnSet([a \in Attempts |-> resv[a][p].units], T)
         /\ SumFunctionOnSet([a \in Attempts |-> resv[a][p].units], T) \in Nat
         /\ Sum(OpenUnits(p, t)', Attempts) \in Nat
         /\ Sum(OpenUnits(p, t), Attempts) \in Nat
<1> DEFINE f == [a \in Attempts |-> OpenOf(resv[a][p], t)]
           g == [a \in Attempts |-> OpenOf(resv'[a][p], t)]
           u == [a \in Attempts |-> resv[a][p].units]
           d == [a \in Attempts |-> IF a \in T THEN resv[a][p].units ELSE 0]
<1>1. \A a \in Attempts : resv[a][p] \in ResvRow /\ resv'[a][p] \in ResvRow
  BY DEF ResvOK
<1>2. \A a \in Attempts : f[a] \in Nat /\ g[a] \in Nat
  BY <1>1, OpenFacts
<1>3. \A a \in Attempts : u[a] \in Nat
  BY <1>1 DEF ResvRow
<1>4. \A a \in T : u[a] \in Int /\ d[a] = u[a]
  BY <1>3
<1>5. \A a \in Attempts \ T : d[a] = 0
  OBVIOUS
<1>6. \A a \in Attempts : g[a] \in Int /\ d[a] \in Int /\ f[a] = g[a] + d[a]
  <2> SUFFICES ASSUME NEW a \in Attempts PROVE g[a] \in Int /\ d[a] \in Int /\ f[a] = g[a] + d[a]
    OBVIOUS
  <2>1. CASE a \in T
    <3>1. f[a] = u[a] /\ g[a] = 0 /\ d[a] = u[a] /\ u[a] \in Nat
      BY <2>1, <1>3
    <3> HIDE DEF f, g, d, u
    <3> QED BY <3>1
  <2>2. CASE a \notin T
    <3>1. f[a] = g[a] /\ d[a] = 0 /\ g[a] \in Nat
      BY <2>2, <1>2
    <3> HIDE DEF f, g, d, u
    <3> QED BY <3>1
  <2> QED BY <2>1, <2>2
<1>7. f = OpenUnits(p, t) /\ g = OpenUnits(p, t)'
  BY DEF OpenUnits, OpenOf
<1>8. u = [a \in Attempts |-> resv[a][p].units]
  OBVIOUS
<1> HIDE DEF f, g, u, d
<1>9. Sum(f, Attempts) = Sum(g, Attempts) + Sum(d, Attempts)
  BY <1>6, AttemptsAssumption, SumPlus
<1>10. Sum(d, Attempts) = Sum(u, T)
  BY <1>4, <1>5, AttemptsAssumption, SumPart
<1>11. IsFiniteSet(T)
  BY AttemptsAssumption, FS_Subset
<1>12. Sum(u, T) \in Nat /\ Sum(f, Attempts) \in Nat /\ Sum(g, Attempts) \in Nat
  BY <1>2, <1>3, <1>11, AttemptsAssumption, SumNat
<1>13. Sum(g, Attempts) = Sum(f, Attempts) - Sum(u, T)
  BY <1>9, <1>10, <1>12
<1> QED BY <1>7, <1>8, <1>12, <1>13 DEF Sum

\* Nothing a reservation or a counter shows has changed.
LEMMA StillQuota ==
  ASSUME QuotaInv, UNCHANGED <<quota, resv>>, \A a \in Attempts : aState'[a] = "absent" => aState[a] = "absent"
  PROVE  QuotaInv'
<1>1. ResvOK'
  BY DEF QuotaInv, ResvOK, Reserves
<1>2. \A p \in Policies, t \in Times : OpenUnits(p, t)' = OpenUnits(p, t)
  BY DEF OpenUnits, OpenOf
<1> QED BY <1>1, <1>2 DEF QuotaInv, ReservedOK

\* An admission starts with no reservation and adds its own.
LEMMA PeriodFacts ==
  ASSUME NEW p \in Policies, NEW now \in Times PROVE PeriodStart(p, now) \in Times /\ PeriodStart(p, now) <= now
<1>1. PeriodLen[p] \in Nat /\ now \in Nat /\ now <= MaxTime /\ MaxTime \in Nat
  BY PoliciesAssumption, TimeAssumption DEF Times
<1>2. CASE PeriodLen[p] = 0
  BY <1>1, <1>2 DEF PeriodStart, Times
<1>3. CASE PeriodLen[p] # 0
  <2> DEFINE n == PeriodLen[p]
  <2>1. \A m \in Nat, k \in Nat \ {0} : m % k \in Nat /\ m % k <= m
    <3> SUFFICES ASSUME NEW m \in Nat, NEW k \in Nat \ {0} PROVE m % k \in Nat /\ m % k <= m
      OBVIOUS
    <3>1. m % k \in 0..(k - 1)
      OBVIOUS
    <3>2. CASE m >= k
      BY <3>1, <3>2
    <3>3. CASE m < k
      <4>1. m % k = m
        BY <3>3
      <4> QED BY <4>1
    <3> QED BY <3>2, <3>3
  <2>2. now % n \in Nat /\ now % n <= now
    BY <1>1, <1>3, <2>1
  <2> QED BY <1>1, <1>3, <2>2 DEF PeriodStart, Times
<1> QED BY <1>2, <1>3

\* What an admission may plan: an amount is known wherever it is reserved.
LEMMA ChargeFacts ==
  ASSUME FactInv, LifeInv, NEW r, NEW a, NEW k, NEW c, NEW est \in Units, NEW now \in Times, NEW first \in BOOLEAN,
         NEW price \in Prices \cup {Unknown}, NEW p \in Policies,
         Permits(p, r, a, now, first, est, CostOf(price, est))
  PROVE  /\ Reserves(p) => /\ Charge(p, first, est, CostOf(price, est)) \in Nat
                           /\ Charge(p, first, est, CostOf(price, est)) =
                                IF Metric[p] = "spend" THEN CostOf(price, est) ELSE est
         /\ Metric[p] = "requests" => Charge(p, first, est, CostOf(price, est)) =
                                        IF first \/ ScopeKind[p] = "connection" THEN 1 ELSE 0
<1>1. est \in Nat
  BY AmountsAssumption
<1>2. CASE Metric[p] = "spend"
  <2>1. Algorithm[p] = "quota"
    BY <1>2, PoliciesAssumption
  <2>2. CostOf(price, est) # Unknown
    BY <1>2, <2>1 DEF Permits
  <2>3. price \in Prices /\ CostOf(price, est) = est * Rate[price]
    BY <2>2 DEF CostOf
  <2>4. Rate[price] \in Nat
    BY <2>3, AmountsAssumption
  <2>5. CostOf(price, est) \in Nat
    BY <1>1, <2>3, <2>4
  <2> QED BY <1>2, <2>5 DEF Charge, Reserves
<1>3. CASE Metric[p] # "spend"
  BY <1>1, <1>3 DEF Charge, Reserves
<1> QED BY <1>2, <1>3

LEMMA AdmitQuota ==
  ASSUME LifeInv, FactInv, QuotaInv, NEW r \in Requests, NEW a \in Attempts, NEW k \in Keys, NEW c \in Connections,
         NEW est \in Units, NEW wall \in Times, NEW priced \in BOOLEAN,
         Admit(r, a, k, c, est, wall, priced)
  PROVE  QuotaInv'
<1> DEFINE first == rState[r] = "absent"
           now == EffectiveTime(wall)
           price == IF priced THEN catalog[now] ELSE Unknown
           cost == CostOf(price, est)
           ps == MatchingPolicies(k, c)
<1>1. /\ aState[a] = "absent" /\ aState' = [aState EXCEPT ![a] = "reserved"]
      /\ \A p \in ps : Permits(p, r, a, now, first, est, cost)
      /\ quota' = PlannedQuota(ps, now, first, est, cost)
      /\ resv' = [resv EXCEPT ![a] = PlannedReservations(ps, now, est, cost)]
  BY DEF Admit
<1>2. now \in Times /\ price \in Prices \cup {Unknown} /\ first \in BOOLEAN /\ ps \subseteq Policies
  BY EffectiveTimeFact DEF LifeInv, LifeTypeOK, FactInv, FactTypeOK, MatchingPolicies
<1> HIDE DEF first, now, price, ps
<1>3. ASSUME NEW p \in ps
      PROVE  /\ Reserves(p) => /\ Charge(p, first, est, cost) \in Nat
                               /\ Charge(p, first, est, cost) = IF Metric[p] = "spend" THEN cost ELSE est
             /\ Metric[p] = "requests" => Charge(p, first, est, cost) =
                                            IF first \/ ScopeKind[p] = "connection" THEN 1 ELSE 0
  <2>1. p \in Policies /\ Permits(p, r, a, now, first, est, CostOf(price, est))
    BY <1>1, <1>2
  <2> QED BY <1>2, <2>1, ChargeFacts
<1> HIDE DEF cost
<1> DEFINE new == PlannedReservations(ps, now, est, cost)
<1>4. ASSUME NEW p \in Policies
      PROVE  /\ new[p] \in ResvRow /\ (~Reserves(p) => new[p].state = "none")
             /\ p \in ps /\ Reserves(p) => /\ new[p].state = "active" /\ new[p].units = Charge(p, first, est, cost)
                                           /\ Algorithm[p] # "token_bucket" => new[p].period = PeriodStart(p, now)
             /\ ~(p \in ps /\ Reserves(p)) => new[p].state = "none"
  <2>1. 0 \in Times /\ PeriodStart(p, now) \in Times
    BY <1>2, PeriodFacts, TimeAssumption DEF Times
  <2>2. CASE p \in ps /\ Reserves(p)
    <3>1. new[p] = [state |-> "active", units |-> IF Metric[p] = "spend" THEN cost ELSE est,
                    period |-> IF Algorithm[p] = "token_bucket" THEN 0 ELSE PeriodStart(p, now)]
      BY <2>2 DEF PlannedReservations
    <3> QED BY <2>1, <2>2, <3>1, <1>3 DEF ResvRow, ResvStates
  <2>3. CASE ~(p \in ps /\ Reserves(p))
    <3>1. new[p] = NoReservation
      BY <2>3 DEF PlannedReservations
    <3> QED BY <2>1, <2>3, <3>1 DEF NoReservation, ResvRow, ResvStates
  <2> QED BY <2>2, <2>3
<1>5. new = [p \in Policies |-> new[p]]
  BY DEF PlannedReservations
<1> HIDE DEF new
<1>6. resv'[a] = new /\ \A b \in Attempts \ {a} : resv'[b] = resv[b]
  BY <1>1 DEF QuotaInv, ResvOK, new
<1>7. ResvOK'
  <2>1. new \in [Policies -> ResvRow]
    BY <1>4, <1>5
  <2>2. resv' \in [Attempts -> [Policies -> ResvRow]]
    BY <1>1, <2>1 DEF QuotaInv, ResvOK, new
  <2>3. ASSUME NEW b \in Attempts, NEW p \in Policies, aState'[b] = "absent" \/ ~Reserves(p)
        PROVE  resv'[b][p].state = "none"
    <3>1. CASE b = a
      BY <1>1, <1>4, <1>6, <2>3, <3>1 DEF LifeInv, LifeTypeOK
    <3>2. CASE b # a
      BY <1>1, <1>6, <2>3, <3>2 DEF QuotaInv, ResvOK, LifeInv, LifeTypeOK
    <3> QED BY <3>1, <3>2
  <2> QED BY <2>2, <2>3 DEF ResvOK, Reserves
<1>8. ASSUME NEW p \in Policies
      PROVE  /\ quota'[p] \in [Times -> QuotaRow]
             /\ \A t \in Times : Algorithm[p] # "token_bucket" =>
                  quota'[p][t].reserved = quota[p][t].reserved + OpenOf(new[p], t)
  <2>1. quota[p] \in [Times -> QuotaRow] /\ PeriodStart(p, now) \in Times
    BY <1>2, PeriodFacts DEF QuotaInv
  <2>2. CASE p \in Hit(ps, {"quota", "fixed_window"}, first, est, cost)
    <3> DEFINE units == Charge(p, first, est, cost)
               row == quota[p][PeriodStart(p, now)]
               next == IF Reserves(p) THEN [consumed |-> row.consumed, reserved |-> row.reserved + units]
                       ELSE [consumed |-> row.consumed + units, reserved |-> row.reserved]
    <3>1. quota'[p] = [quota[p] EXCEPT ![PeriodStart(p, now)] = next]
      BY <1>1, <2>2 DEF PlannedQuota
    <3>2. p \in ps /\ Algorithm[p] \in {"quota", "fixed_window"} /\ (Reserves(p) \/ Metric[p] = "requests")
      BY <2>2, PoliciesAssumption DEF Hit, Reserves
    <3>3. units \in Int /\ row \in QuotaRow /\ row.consumed \in Int /\ row.reserved \in Int
      BY <1>3, <2>1, <3>2 DEF QuotaRow
    <3> HIDE DEF units, row
    <3>4. next \in QuotaRow
      BY <3>3 DEF QuotaRow
    <3>5. next.reserved = IF Reserves(p) THEN row.reserved + units ELSE row.reserved
      OBVIOUS
    <3> HIDE DEF next
    <3>6. quota'[p] \in [Times -> QuotaRow]
      BY <2>1, <3>1, <3>4
    <3>7. ASSUME NEW t \in Times PROVE quota'[p][t].reserved = quota[p][t].reserved + OpenOf(new[p], t)
      <4>1. quota[p][t].reserved \in Int
        BY <2>1 DEF QuotaRow
      <4>2. CASE Reserves(p)
        <5>1. new[p].state = "active" /\ new[p].units = units /\ new[p].period = PeriodStart(p, now)
          BY <1>4, <3>2, <4>2 DEF units
        <5>2. CASE t = PeriodStart(p, now)
          BY <2>1, <3>1, <3>3, <3>5, <4>1, <4>2, <5>1, <5>2 DEF OpenOf, row
        <5>3. CASE t # PeriodStart(p, now)
          BY <2>1, <3>1, <4>1, <4>2, <5>1, <5>3 DEF OpenOf
        <5> QED BY <5>2, <5>3
      <4>3. CASE ~Reserves(p)
        <5>1. OpenOf(new[p], t) = 0
          BY <1>4, <4>3 DEF OpenOf
        <5> QED BY <2>1, <3>1, <3>5, <4>1, <4>3, <5>1 DEF row
      <4> QED BY <4>2, <4>3
    <3> QED BY <3>6, <3>7
  <2>3. CASE p \notin Hit(ps, {"quota", "fixed_window"}, first, est, cost)
    <3>1. quota'[p] = quota[p]
      BY <1>1, <2>3 DEF PlannedQuota
    <3>2. ASSUME Algorithm[p] # "token_bucket" PROVE new[p].state = "none"
      <4>1. Reserves(p) => Algorithm[p] \in {"quota", "fixed_window"}
        BY <3>2, PoliciesAssumption DEF Reserves
      <4>2. ~(p \in ps /\ Reserves(p))
        BY <4>1, <2>3 DEF Hit
      <4> QED BY <4>2, <1>4
    <3>3. ASSUME NEW t \in Times, Algorithm[p] # "token_bucket"
          PROVE  quota'[p][t].reserved = quota[p][t].reserved + OpenOf(new[p], t)
      <4>1. OpenOf(new[p], t) = 0 /\ quota[p][t].reserved \in Int
        BY <2>1, <3>2, <3>3 DEF OpenOf, QuotaRow
      <4> QED BY <3>1, <4>1
    <3> QED BY <2>1, <3>1, <3>3
  <2> QED BY <2>2, <2>3
<1>9. quota' \in [Policies -> [Times -> QuotaRow]]
  <2>1. quota' = [p \in Policies |-> quota'[p]]
    BY <1>1 DEF PlannedQuota
  <2> QED BY <1>8, <2>1
<1>10. ASSUME NEW p \in Policies, NEW t \in Times, Algorithm[p] # "token_bucket"
       PROVE  quota'[p][t].reserved = Sum(OpenUnits(p, t)', Attempts)
  <2>1. quota[p][t].reserved = Sum(OpenUnits(p, t), Attempts)
    BY <1>10 DEF QuotaInv, ReservedOK
  <2>2. \A b \in Attempts \ {a} : OpenOf(resv'[b][p], t) = OpenOf(resv[b][p], t)
    BY <1>6
  <2>3. OpenOf(resv[a][p], t) = 0
    BY <1>1 DEF QuotaInv, ResvOK, OpenOf
  <2>4. OpenOf(resv'[a][p], t) = OpenOf(new[p], t) /\ OpenOf(new[p], t) \in Int
    BY <1>6, <1>4, OpenFacts
  <2>5. quota'[p][t].reserved = quota[p][t].reserved + (OpenOf(resv'[a][p], t) - OpenOf(resv[a][p], t))
    BY <1>8, <1>10, <2>3, <2>4
  <2> QED BY <1>7, <2>1, <2>2, <2>5, OneReserved DEF QuotaInv
<1> QED BY <1>7, <1>9, <1>10 DEF QuotaInv, ReservedOK

\* Released reservations leave their periods; the others of an open attempt
\* stay outstanding.
LEMMA ReleaseQuota ==
  ASSUME QuotaInv, NEW S \in SUBSET Attempts, NEW U \in SUBSET Attempts, S \cap U = {},
         quota' = ReleasedQuota(S),
         resv' = [a \in Attempts |-> IF a \in U THEN Moved(U, "active", "uncertain")[a]
                                     ELSE Moved(S, "active", "released")[a]],
         \A a \in Attempts : aState'[a] = "absent" => aState[a] = "absent"
  PROVE  QuotaInv'
<1>1. ASSUME NEW a \in Attempts, NEW p \in Policies
      PROVE  /\ resv'[a] = [q \in Policies |-> resv'[a][q]] /\ resv[a][p] \in ResvRow
             /\ resv'[a][p] =
                  IF resv[a][p].state = "active" /\ a \in U THEN [resv[a][p] EXCEPT !.state = "uncertain"]
                  ELSE IF resv[a][p].state = "active" /\ a \in S THEN [resv[a][p] EXCEPT !.state = "released"]
                  ELSE resv[a][p]
  <2>1. resv[a] = [q \in Policies |-> resv[a][q]] /\ resv[a][p] \in ResvRow
    BY DEF QuotaInv, ResvOK
  <2>2. CASE a \in U
    <3>1. resv'[a] = [q \in Policies |-> IF resv[a][q].state = "active"
                                         THEN [resv[a][q] EXCEPT !.state = "uncertain"] ELSE resv[a][q]]
      BY <2>2 DEF Moved
    <3> QED BY <2>1, <2>2, <3>1
  <2>3. CASE a \notin U /\ a \in S
    <3>1. resv'[a] = [q \in Policies |-> IF resv[a][q].state = "active"
                                         THEN [resv[a][q] EXCEPT !.state = "released"] ELSE resv[a][q]]
      BY <2>3 DEF Moved
    <3> QED BY <2>1, <2>3, <3>1
  <2>4. CASE a \notin U /\ a \notin S
    <3>1. resv'[a] = resv[a]
      BY <2>4 DEF Moved
    <3> QED BY <2>1, <2>4, <3>1
  <2> QED BY <2>2, <2>3, <2>4
<1>2. ResvOK'
  <2>1. \A a \in Attempts, p \in Policies : Relabelled(resv[a][p], resv'[a][p])
    <3> SUFFICES ASSUME NEW a \in Attempts, NEW p \in Policies PROVE Relabelled(resv[a][p], resv'[a][p])
      OBVIOUS
    <3>1. \/ resv'[a][p] = resv[a][p]
          \/ /\ resv[a][p].state = "active"
             /\ \E st \in {"uncertain", "released"} : resv'[a][p] = [resv[a][p] EXCEPT !.state = st]
      BY <1>1
    <3> QED BY <1>1, <3>1, SameRelabelled DEF Relabelled, ResvStates
  <2>2. resv' = [a \in Attempts |-> [p \in Policies |-> resv'[a][p]]]
    <3>1. \A a \in Attempts : resv'[a] = [p \in Policies |-> resv'[a][p]]
      <4> SUFFICES ASSUME NEW a \in Attempts PROVE resv'[a] = [p \in Policies |-> resv'[a][p]]
        OBVIOUS
      <4>1. resv[a] = [q \in Policies |-> resv[a][q]]
        BY DEF QuotaInv, ResvOK
      <4>2. CASE a \in U
        BY <4>2 DEF Moved
      <4>3. CASE a \notin U /\ a \in S
        BY <4>3 DEF Moved
      <4>4. CASE a \notin U /\ a \notin S
        BY <4>1, <4>4 DEF Moved
      <4> QED BY <4>2, <4>3, <4>4
    <3>2. resv' = [a \in Attempts |-> resv'[a]]
      OBVIOUS
    <3> QED BY <3>1, <3>2
  <2> QED BY <2>1, <2>2, ResvKept DEF QuotaInv
<1>3. ASSUME NEW p \in Policies, NEW t \in Times, Algorithm[p] # "token_bucket"
      PROVE  quota'[p][t] \in QuotaRow /\ quota'[p][t].reserved = Sum(OpenUnits(p, t)', Attempts)
  <2> DEFINE T == {a \in S : resv[a][p].state = "active" /\ resv[a][p].period = t}
             held == Held(S, p, t, "active")
  <2>1. held = SumFunctionOnSet([a \in Attempts |-> resv[a][p].units], T)
    BY DEF Held
  <2>2. \A a \in T : OpenOf(resv[a][p], t) = resv[a][p].units /\ OpenOf(resv'[a][p], t) = 0
    <3> SUFFICES ASSUME NEW a \in T
                 PROVE  OpenOf(resv[a][p], t) = resv[a][p].units /\ OpenOf(resv'[a][p], t) = 0
      OBVIOUS
    <3>1. a \notin U /\ a \in S /\ a \in Attempts /\ resv[a][p].state = "active" /\ resv[a][p].period = t
      OBVIOUS
    <3>2. resv'[a][p] = [resv[a][p] EXCEPT !.state = "released"] /\ resv[a][p] \in ResvRow
      BY <1>1, <3>1
    <3>3. resv'[a][p].state = "released"
      BY <3>2 DEF ResvRow
    <3> QED BY <3>1, <3>3 DEF OpenOf
  <2>3. \A a \in Attempts \ T : OpenOf(resv'[a][p], t) = OpenOf(resv[a][p], t)
    <3> SUFFICES ASSUME NEW a \in Attempts \ T PROVE OpenOf(resv'[a][p], t) = OpenOf(resv[a][p], t)
      OBVIOUS
    <3>1. resv[a][p] \in ResvRow
      BY <1>1
    <3>2. CASE resv[a][p].state = "active" /\ a \in U
      <4> DEFINE next == resv'[a][p]
      <4>2. next = [resv[a][p] EXCEPT !.state = "uncertain"]
        BY <1>1, <3>2
      <4> HIDE DEF next
      <4>3. next.state = "uncertain" /\ next.units = resv[a][p].units /\ next.period = resv[a][p].period
        BY <3>1, <4>2 DEF ResvRow
      <4>1. resv'[a][p].state = "uncertain" /\ resv'[a][p].units = resv[a][p].units /\ resv'[a][p].period = resv[a][p].period
        BY <4>3 DEF next
      <4> QED BY <3>2, <4>1 DEF OpenOf
    <3>3. CASE resv[a][p].state = "active" /\ a \notin U /\ a \in S
      <4>1. resv'[a][p].state = "released" /\ resv[a][p].period # t
        BY <1>1, <3>1, <3>3 DEF ResvRow
      <4> QED BY <3>3, <4>1 DEF OpenOf
    <3>4. CASE ~(resv[a][p].state = "active" /\ (a \in U \/ a \in S))
      <4>1. resv'[a][p] = resv[a][p]
        BY <1>1, <3>4
      <4> QED BY <4>1
    <3> QED BY <3>2, <3>3, <3>4
  <2>4. T \in SUBSET Attempts
    OBVIOUS
  <2> HIDE DEF T, held
  <2>5. /\ Sum(OpenUnits(p, t)', Attempts) = Sum(OpenUnits(p, t), Attempts) - held
        /\ held \in Nat /\ Sum(OpenUnits(p, t)', Attempts) \in Nat /\ Sum(OpenUnits(p, t), Attempts) \in Nat
    BY <1>2, <2>1, <2>2, <2>3, <2>4, ManyReserved DEF QuotaInv
  <2>6. quota[p][t].reserved = Sum(OpenUnits(p, t), Attempts) /\ quota[p][t] \in QuotaRow /\ quota[p][t].consumed \in Int
    BY <1>3 DEF QuotaInv, ReservedOK, QuotaRow
  <2>7. quota[p][t].reserved >= held
    BY <2>5, <2>6
  <2>8. quota'[p][t] = [consumed |-> quota[p][t].consumed, reserved |-> quota[p][t].reserved - held]
    BY <1>3, <2>7 DEF ReleasedQuota, held
  <2> QED BY <2>5, <2>6, <2>8 DEF QuotaRow
<1>4. quota' \in [Policies -> [Times -> QuotaRow]]
  <2>1. quota' = [p \in Policies |-> quota'[p]]
    BY DEF ReleasedQuota
  <2>2. ASSUME NEW p \in Policies PROVE quota'[p] \in [Times -> QuotaRow]
    <3>1. CASE Algorithm[p] = "token_bucket"
      BY <3>1 DEF ReleasedQuota, QuotaInv
    <3>2. CASE Algorithm[p] # "token_bucket"
      <4>1. quota'[p] = [t \in Times |-> quota'[p][t]]
        BY <3>2 DEF ReleasedQuota
      <4>2. \A t \in Times : quota'[p][t] \in QuotaRow
        BY <1>3, <3>2
      <4> QED BY <4>1, <4>2
    <3> QED BY <3>1, <3>2
  <2> QED BY <2>1, <2>2
<1> QED BY <1>2, <1>3, <1>4 DEF QuotaInv, ReservedOK

\* What a settlement or a reconciliation does to the reservations of a: those
\* of the policies ps are resolved, the other active ones may become uncertain.
Resolution(a, ps, tokens, cost) ==
  /\ ps \in SUBSET Policies
  /\ \A p \in ps : resv[a][p].state \in {"active", "uncertain"} /\ SettlementUnits(p, tokens, cost) \in Int
  /\ quota' = ResolvedQuota(a, ps, tokens, cost)
  /\ resv' = [b \in Attempts |-> [p \in Policies |-> resv'[b][p]]]
  /\ \A b \in Attempts \ {a} : resv'[b] = resv[b]
  /\ \A p \in ps : resv'[a][p] = [resv[a][p] EXCEPT !.state = "settled"]
  /\ \A p \in Policies \ ps :
       \/ resv'[a][p] = resv[a][p]
       \/ resv[a][p].state = "active" /\ resv'[a][p] = [resv[a][p] EXCEPT !.state = "uncertain"]

\* Resolved reservations of one attempt leave the period they were made in.
LEMMA ResolveQuota ==
  ASSUME QuotaInv, NEW a \in Attempts, NEW ps, NEW tokens, NEW cost, Resolution(a, ps, tokens, cost),
         \A b \in Attempts : aState'[b] = "absent" => aState[b] = "absent"
  PROVE  QuotaInv'
<1> USE DEF Resolution
<1> DEFINE row == resv'[a]
<1>1. \A b \in Attempts, p \in Policies : resv[b][p] \in ResvRow
  BY DEF QuotaInv, ResvOK
<1>3. ResvOK'
  <2>1. ASSUME NEW b \in Attempts, NEW p \in Policies PROVE Relabelled(resv[b][p], resv'[b][p])
    <3>1. CASE b # a \/ row[p] = resv[a][p]
      BY <1>1, <3>1, SameRelabelled
    <3>2. CASE b = a /\ row[p] # resv[a][p]
      <4>1. /\ resv[a][p].state \in {"active", "uncertain"}
            /\ \E st \in {"settled", "uncertain"} : row[p] = [resv[a][p] EXCEPT !.state = st]
        BY <3>2
      <4> QED BY <1>1, <3>2, <4>1 DEF Relabelled, ResvStates
    <3> QED BY <3>1, <3>2
  <2> QED BY <2>1, ResvKept DEF QuotaInv
<1>4. ASSUME NEW p \in Policies
      PROVE  /\ quota'[p] \in [Times -> QuotaRow]
             /\ \A t \in Times : Algorithm[p] # "token_bucket" =>
                  quota'[p][t].reserved = quota[p][t].reserved + (OpenOf(row[p], t) - OpenOf(resv[a][p], t))
  <2> DEFINE u == resv[a][p].units
             s == resv[a][p].period
  <2>1. quota[p] \in [Times -> QuotaRow] /\ resv[a][p] \in ResvRow /\ u \in Nat /\ s \in Times
    BY <1>1 DEF QuotaInv, ResvRow
  <2>2. CASE p \in ps /\ Algorithm[p] # "token_bucket"
    <3> DEFINE old == quota[p][s]
               next == [consumed |-> old.consumed + SettlementUnits(p, tokens, cost), reserved |-> old.reserved - u]
    <3>1. quota'[p] = [quota[p] EXCEPT ![s] = next]
      BY <2>2 DEF ResolvedQuota, ReservationPeriod
    <3>2. old.consumed \in Int /\ old.reserved \in Int
      BY <2>1 DEF QuotaRow
    <3>3. next \in QuotaRow /\ next.reserved = old.reserved - u
      BY <2>1, <2>2, <3>2 DEF QuotaRow
    <3> HIDE DEF next
    <3>4. quota'[p] \in [Times -> QuotaRow]
      BY <2>1, <3>1, <3>3
    <3>5. ASSUME NEW t \in Times
          PROVE  quota'[p][t].reserved = quota[p][t].reserved + (OpenOf(row[p], t) - OpenOf(resv[a][p], t))
      <4>1. OpenOf(row[p], t) = 0
        <5>1. row[p].state = "settled"
          BY <2>1, <2>2 DEF ResvRow
        <5> QED BY <5>1 DEF OpenOf
      <4>2. OpenOf(resv[a][p], t) = IF t = s THEN u ELSE 0
        BY <2>2 DEF OpenOf
      <4>3. quota[p][t].reserved \in Int
        BY <2>1 DEF QuotaRow
      <4>4. CASE t = s
        <5>1. quota'[p][t].reserved = quota[p][t].reserved - u
          BY <2>1, <3>1, <3>3, <4>4
        <5> QED BY <2>1, <4>1, <4>2, <4>3, <4>4, <5>1
      <4>5. CASE t # s
        <5>1. quota'[p][t] = quota[p][t]
          BY <2>1, <3>1, <4>5
        <5> QED BY <4>1, <4>2, <4>3, <4>5, <5>1
      <4> QED BY <4>4, <4>5
    <3> QED BY <3>4, <3>5
  <2>3. CASE ~(p \in ps /\ Algorithm[p] # "token_bucket")
    <3>1. quota'[p] = quota[p]
      BY <2>3 DEF ResolvedQuota
    <3>2. ASSUME NEW t \in Times, Algorithm[p] # "token_bucket"
          PROVE  quota'[p][t].reserved = quota[p][t].reserved + (OpenOf(row[p], t) - OpenOf(resv[a][p], t))
      <4>1. \/ row[p] = resv[a][p]
            \/ resv[a][p].state = "active" /\ row[p] = [resv[a][p] EXCEPT !.state = "uncertain"]
        BY <2>3, <3>2
      <4>2. OpenOf(row[p], t) = OpenOf(resv[a][p], t)
        BY <2>1, <4>1 DEF OpenOf, ResvRow
      <4>3. OpenOf(resv[a][p], t) \in Int /\ quota[p][t].reserved \in Int
        BY <2>1, OpenFacts DEF QuotaRow
      <4> QED BY <3>1, <4>2, <4>3
    <3> QED BY <2>1, <3>1, <3>2
  <2> QED BY <2>2, <2>3
<1>5. quota' \in [Policies -> [Times -> QuotaRow]]
  <2>1. quota' = [p \in Policies |-> quota'[p]]
    BY DEF ResolvedQuota
  <2> QED BY <1>4, <2>1
<1>6. ASSUME NEW p \in Policies, NEW t \in Times, Algorithm[p] # "token_bucket"
      PROVE  quota'[p][t].reserved = Sum(OpenUnits(p, t)', Attempts)
  <2>1. quota[p][t].reserved = Sum(OpenUnits(p, t), Attempts)
    BY <1>6 DEF QuotaInv, ReservedOK
  <2>2. \A b \in Attempts \ {a} : OpenOf(resv'[b][p], t) = OpenOf(resv[b][p], t)
    BY <1>1
  <2>3. quota'[p][t].reserved = quota[p][t].reserved + (OpenOf(resv'[a][p], t) - OpenOf(resv[a][p], t))
    BY <1>1, <1>4, <1>6
  <2> QED BY <1>3, <2>1, <2>2, <2>3, OneReserved DEF QuotaInv
<1> QED BY <1>3, <1>5, <1>6 DEF QuotaInv, ReservedOK

\* A resolution together with the bucket, and the amounts it resolves with
\* written to the row of the attempt.
Resolves(a, ps, tokens, cost) ==
  /\ Resolution(a, ps, tokens, cost)
  /\ bucket' = ResolvedBucket(a, ps, tokens, cost)
  /\ tokens \in Amount /\ cost \in Amount
  /\ usage'[a].tokens = tokens /\ usage'[a].cost = cost
  /\ \A b \in Attempts \ {a} : usage'[b] = usage[b]

\* A settlement resolves what its facts determine and leaves the rest uncertain.
LEMMA SettleResolves ==
  ASSUME LifeInv, FactInv, QuotaInv, NEW a \in Attempts, NEW state \in Outcomes,
         NEW status \in {"provider_reported", "unknown"}, NEW tokens \in Units \cup {Unknown},
         NEW reported \in Costs \cup {Unknown}, NEW final \in BOOLEAN,
         Settle(a, state, status, tokens, reported, final)
  PROVE  /\ \A b \in Attempts : aState'[b] = "absent" => aState[b] = "absent"
         /\ \E ps, cost : /\ Resolves(a, ps, tokens, cost)
                          /\ \A p \in ps : resv[a][p].state = "active"
<1> DEFINE cost == IF reported # Unknown THEN reported ELSE CostOf(aPrice[a], tokens)
           known == IF status = "unknown" THEN {} ELSE Resolvable(a, "active", tokens, cost)
           row == [p \in Policies |->
                     IF p \in known THEN [resv[a][p] EXCEPT !.state = "settled"]
                     ELSE IF resv[a][p].state = "active" THEN [resv[a][p] EXCEPT !.state = "uncertain"]
                     ELSE resv[a][p]]
<1>1. state \in SettledStates /\ tokens \in Amount /\ reported \in Amount
  BY OutcomesAssumption, AmountsAssumption DEF Amount
<1>2. aPrice[a] \in Prices \cup {Unknown} /\ usage \in [Attempts -> UsageRow]
  BY DEF FactInv, FactTypeOK
<1>3. cost \in Amount
  BY <1>1, <1>2, CostFacts
<1>4. /\ quota' = ResolvedQuota(a, known, tokens, cost)
      /\ resv' = [resv EXCEPT ![a] = row]
      /\ aState' = [aState EXCEPT ![a] = state]
      /\ bucket' = ResolvedBucket(a, known, tokens, cost)
      /\ usage' = [usage EXCEPT ![a] = [status |-> status, tokens |-> tokens, cost |-> cost]]
  BY DEF Settle
<1>5. \A b \in Attempts : aState'[b] = "absent" => aState[b] = "absent"
  BY <1>1, <1>4 DEF LifeInv, LifeTypeOK, SettledStates
<1>6. known \in SUBSET Policies /\ known \subseteq Resolvable(a, "active", tokens, cost)
  BY DEF Resolvable
<1> HIDE DEF cost, known
<1>7. /\ row = [p \in Policies |-> row[p]]
      /\ \A p \in known : row[p] = [resv[a][p] EXCEPT !.state = "settled"]
      /\ \A p \in Policies \ known : \/ row[p] = resv[a][p]
                                     \/ resv[a][p].state = "active" /\ row[p] = [resv[a][p] EXCEPT !.state = "uncertain"]
  BY <1>6
<1> HIDE DEF row
<1>8. \A p \in known : resv[a][p].state \in {"active", "uncertain"} /\ SettlementUnits(p, tokens, cost) \in Int
  BY <1>1, <1>3, <1>6 DEF Resolvable, SettlementUnits, Amount
<1>9. /\ resv' = [b \in Attempts |-> [p \in Policies |-> resv'[b][p]]]
      /\ \A b \in Attempts \ {a} : resv'[b] = resv[b]
      /\ resv'[a] = row
  <2>1. resv'[a] = row /\ row = [p \in Policies |-> row[p]] /\ \A b \in Attempts \ {a} : resv'[b] = resv[b]
    BY <1>4, <1>7 DEF QuotaInv, ResvOK
  <2>2. \A b \in Attempts : resv[b] = [p \in Policies |-> resv[b][p]]
    BY DEF QuotaInv, ResvOK
  <2>3. \A b \in Attempts : resv'[b] = [p \in Policies |-> resv'[b][p]]
    BY <2>1, <2>2
  <2>4. resv' = [b \in Attempts |-> resv'[b]]
    BY <1>4 DEF QuotaInv, ResvOK
  <2> QED BY <2>1, <2>3, <2>4
<1>10. /\ \A p \in known : resv'[a][p] = [resv[a][p] EXCEPT !.state = "settled"]
       /\ \A p \in Policies \ known :
            \/ resv'[a][p] = resv[a][p]
            \/ resv[a][p].state = "active" /\ resv'[a][p] = [resv[a][p] EXCEPT !.state = "uncertain"]
  BY <1>7, <1>9
<1>11. quota' = ResolvedQuota(a, known, tokens, cost)
  BY <1>4
<1>12. Resolution(a, known, tokens, cost)
  BY <1>6, <1>8, <1>9, <1>10, <1>11 DEF Resolution
<1>13. \A p \in known : resv[a][p].state = "active"
  BY <1>6 DEF Resolvable
<1>14. usage'[a].tokens = tokens /\ usage'[a].cost = cost /\ \A b \in Attempts \ {a} : usage'[b] = usage[b]
  BY <1>2, <1>4
<1>15. Resolves(a, known, tokens, cost)
  BY <1>1, <1>3, <1>4, <1>12, <1>14 DEF Resolves
<1> QED BY <1>5, <1>13, <1>15

\* A reconciliation resolves the uncertain reservations its facts determine.
LEMMA ReconcileResolves ==
  ASSUME LifeInv, FactInv, QuotaInv, NEW a \in Attempts, NEW tokens \in Reported, NEW reported \in ReconciledCosts \cup {Unknown},
         ReconcileUnknown(a, "provider_reported", tokens, reported)
  PROVE  /\ \A b \in Attempts : aState'[b] = "absent" => aState[b] = "absent"
         /\ \E ps, cost : /\ Resolves(a, ps, tokens, cost)
                          /\ \A p \in ps : resv[a][p].state = "uncertain"
                          /\ \A p \in Policies \ ps : resv'[a][p] = resv[a][p]
<1> DEFINE old == usage[a]
           given == IF reported # Unknown THEN reported
                    ELSE IF old.cost = Unknown THEN CostOf(aPrice[a], tokens) ELSE Unknown
           cost == IF given # Unknown THEN given ELSE old.cost
           known == Resolvable(a, "uncertain", tokens, cost)
           row == [p \in Policies |->
                     IF p \in known THEN [resv[a][p] EXCEPT !.state = "settled"] ELSE resv[a][p]]
<1>1. tokens \in Amount /\ reported \in Amount
  BY AmountsAssumption DEF Amount
<1>2. aPrice[a] \in Prices \cup {Unknown} /\ old.cost \in Amount /\ usage \in [Attempts -> UsageRow]
  BY DEF FactInv, FactTypeOK, UsageRow
<1>3. given \in Amount
  BY <1>1, <1>2, CostFacts DEF Amount
<1>4. /\ quota' = ResolvedQuota(a, known, tokens, cost)
      /\ resv' = [resv EXCEPT ![a] = row] /\ aState' = aState
      /\ bucket' = ResolvedBucket(a, known, tokens, cost)
      /\ usage' = [usage EXCEPT ![a] = [status |-> IF cost # Unknown THEN "provider_reported" ELSE "unknown",
                                        tokens |-> tokens, cost |-> cost]]
  BY DEF ReconcileUnknown, lifeVars
<1> HIDE DEF given
<1>5. cost \in Amount
  BY <1>2, <1>3
<1>6. known \in SUBSET Policies /\ known \subseteq Resolvable(a, "uncertain", tokens, cost)
  BY DEF Resolvable
<1> HIDE DEF cost, known
<1>7. /\ row = [p \in Policies |-> row[p]]
      /\ \A p \in known : row[p] = [resv[a][p] EXCEPT !.state = "settled"]
      /\ \A p \in Policies \ known : row[p] = resv[a][p]
  BY <1>6
<1> HIDE DEF row
<1>8. \A p \in known : resv[a][p].state \in {"active", "uncertain"} /\ SettlementUnits(p, tokens, cost) \in Int
  BY <1>1, <1>5, <1>6 DEF Resolvable, SettlementUnits, Amount
<1>9. /\ resv' = [b \in Attempts |-> [p \in Policies |-> resv'[b][p]]]
      /\ \A b \in Attempts \ {a} : resv'[b] = resv[b]
      /\ resv'[a] = row
  <2>1. resv'[a] = row /\ row = [p \in Policies |-> row[p]] /\ \A b \in Attempts \ {a} : resv'[b] = resv[b]
    BY <1>4, <1>7 DEF QuotaInv, ResvOK
  <2>2. \A b \in Attempts : resv[b] = [p \in Policies |-> resv[b][p]]
    BY DEF QuotaInv, ResvOK
  <2>3. \A b \in Attempts : resv'[b] = [p \in Policies |-> resv'[b][p]]
    BY <2>1, <2>2
  <2>4. resv' = [b \in Attempts |-> resv'[b]]
    BY <1>4 DEF QuotaInv, ResvOK
  <2> QED BY <2>1, <2>3, <2>4
<1>10. /\ \A p \in known : resv'[a][p] = [resv[a][p] EXCEPT !.state = "settled"]
       /\ \A p \in Policies \ known :
            \/ resv'[a][p] = resv[a][p]
            \/ resv[a][p].state = "active" /\ resv'[a][p] = [resv[a][p] EXCEPT !.state = "uncertain"]
  BY <1>7, <1>9
<1>11. \A b \in Attempts : aState'[b] = "absent" => aState[b] = "absent"
  BY <1>4
<1>12. quota' = ResolvedQuota(a, known, tokens, cost)
  BY <1>4
<1>13. Resolution(a, known, tokens, cost)
  BY <1>6, <1>8, <1>9, <1>10, <1>12 DEF Resolution
<1>14. \A p \in known : resv[a][p].state = "uncertain"
  BY <1>6 DEF Resolvable
<1>15. usage'[a].tokens = tokens /\ usage'[a].cost = cost /\ \A b \in Attempts \ {a} : usage'[b] = usage[b]
  BY <1>2, <1>4
<1>16. Resolves(a, known, tokens, cost)
  BY <1>1, <1>4, <1>5, <1>13, <1>15 DEF Resolves
<1>17. \A p \in Policies \ known : resv'[a][p] = resv[a][p]
  BY <1>7, <1>9
<1> QED BY <1>11, <1>14, <1>16, <1>17

\* Spend follows a restated cost: an uncertain reservation is resolved in its
\* own period, and one that is passed over holds nothing.
LEMMA RespendQuota ==
  ASSUME FactInv, QuotaInv, NEW S \in SUBSET Attempts, NEW amount, \A a \in S : amount[a] \in Int,
         quota' = RespentQuota(S, amount), resv' = RespentReservations(S, amount), aState' = aState
  PROVE  QuotaInv'
<1>1. ASSUME NEW a \in Attempts, NEW p \in Policies
      PROVE  /\ resv[a][p] \in ResvRow
             /\ resv'[a][p] = IF a \in S /\ Metric[p] = "spend" /\ SpendResolved(a, p, amount[a])
                              THEN [resv[a][p] EXCEPT !.state = "settled"] ELSE resv[a][p]
  BY DEF QuotaInv, ResvOK, RespentReservations
<1>2. ResvOK'
  <2>1. ASSUME NEW a \in Attempts, NEW p \in Policies PROVE Relabelled(resv[a][p], resv'[a][p])
    <3>1. \/ resv'[a][p] = resv[a][p]
          \/ resv[a][p].state = "uncertain" /\ resv'[a][p] = [resv[a][p] EXCEPT !.state = "settled"]
      BY <1>1 DEF SpendResolved
    <3> QED BY <1>1, <3>1, SameRelabelled DEF Relabelled, ResvStates
  <2>2. resv' = [a \in Attempts |-> [p \in Policies |-> resv'[a][p]]]
    BY DEF RespentReservations
  <2> QED BY <2>1, <2>2, ResvKept DEF QuotaInv
<1>3. ASSUME NEW p \in Policies, NEW t \in Times, Metric[p] = "spend"
      PROVE  /\ quota'[p][t] \in QuotaRow
             /\ quota[p][t].reserved = Sum(OpenUnits(p, t), Attempts)
                  => quota'[p][t].reserved = Sum(OpenUnits(p, t)', Attempts)
  <2> DEFINE here == {a \in S : resv[a][p].period = t /\ resv[a][p].state \in {"settled", "uncertain"}}
             change == [a \in here |-> SpendChange(a, p, amount[a])]
             T == {a \in here : resv[a][p].state = "uncertain" /\ resv[a][p].period = t}
             held == SumFunctionOnSet([a \in Attempts |-> resv[a][p].units], T)
             spent == SumFunctionOnSet(change, here)
  <2>1. quota'[p][t] = [consumed |-> quota[p][t].consumed + spent, reserved |-> quota[p][t].reserved - held]
    BY <1>3 DEF RespentQuota, Held
  <2>2. spent \in Int
    <3>1. \A a \in here : change[a] \in Int
      <4> SUFFICES ASSUME NEW a \in here PROVE change[a] \in Int
        OBVIOUS
      <4>1. amount[a] \in Int /\ OrZero(usage[a].cost) \in Int
        BY OrZeroFacts DEF FactInv, FactTypeOK, UsageRow
      <4> QED BY <4>1 DEF SpendChange
    <3>2. IsFiniteSet(here)
      BY AttemptsAssumption, FS_Subset
    <3> HIDE DEF change, here
    <3> QED BY <3>1, <3>2, SumType DEF Sum
  <2>3. \A a \in T : OpenOf(resv[a][p], t) = resv[a][p].units /\ OpenOf(resv'[a][p], t) = 0
    <3> SUFFICES ASSUME NEW a \in T
                 PROVE  OpenOf(resv[a][p], t) = resv[a][p].units /\ OpenOf(resv'[a][p], t) = 0
      OBVIOUS
    <3>1. /\ a \in S /\ a \in Attempts /\ resv[a][p].state = "uncertain" /\ resv[a][p].period = t
          /\ resv[a][p] \in ResvRow
      BY <1>1
    <3>2. CASE SpendResolved(a, p, amount[a])
      <4>1. resv'[a][p] = [resv[a][p] EXCEPT !.state = "settled"]
        BY <1>1, <1>3, <3>1, <3>2
      <4>2. resv'[a][p].state = "settled"
        BY <3>1, <4>1 DEF ResvRow
      <4> QED BY <3>1, <4>2 DEF OpenOf
    <3>3. CASE ~SpendResolved(a, p, amount[a])
      <4>1. resv'[a][p] = resv[a][p] /\ resv[a][p].units = 0
        BY <1>1, <3>1, <3>3 DEF SpendResolved
      <4> QED BY <3>1, <4>1 DEF OpenOf
    <3> QED BY <3>2, <3>3
  <2>4. \A a \in Attempts \ T : OpenOf(resv'[a][p], t) = OpenOf(resv[a][p], t)
    <3> SUFFICES ASSUME NEW a \in Attempts \ T PROVE OpenOf(resv'[a][p], t) = OpenOf(resv[a][p], t)
      OBVIOUS
    <3>1. CASE a \in S /\ SpendResolved(a, p, amount[a])
      <4>1. resv[a][p].state = "uncertain" /\ resv[a][p].period # t
        BY <3>1 DEF SpendResolved
      <4> DEFINE next == resv'[a][p]
      <4>2. next = [resv[a][p] EXCEPT !.state = "settled"] /\ resv[a][p] \in ResvRow
        BY <1>1, <1>3, <3>1
      <4> HIDE DEF next
      <4>3. next.period # t
        BY <4>1, <4>2 DEF ResvRow
      <4> QED BY <4>1, <4>3 DEF OpenOf, next
    <3>2. CASE ~(a \in S /\ SpendResolved(a, p, amount[a]))
      <4>1. resv'[a][p] = resv[a][p]
        BY <1>1, <3>2
      <4> QED BY <4>1
    <3> QED BY <3>1, <3>2
  <2>5. T \in SUBSET Attempts
    OBVIOUS
  <2> HIDE DEF spent, T
  <2>6. /\ Sum(OpenUnits(p, t)', Attempts) = Sum(OpenUnits(p, t), Attempts) - held
        /\ held \in Nat /\ Sum(OpenUnits(p, t)', Attempts) \in Nat /\ Sum(OpenUnits(p, t), Attempts) \in Nat
    BY <1>2, <2>3, <2>4, <2>5, ManyReserved DEF QuotaInv
  <2> HIDE DEF held
  <2>7. quota[p][t].consumed \in Int /\ quota[p][t].reserved \in Int
    BY DEF QuotaInv, QuotaRow
  <2>8. quota'[p][t] \in QuotaRow /\ quota'[p][t].reserved = quota[p][t].reserved - held
    BY <2>1, <2>2, <2>6, <2>7 DEF QuotaRow
  <2> QED BY <2>6, <2>8
<1>4. ASSUME NEW p \in Policies, NEW t \in Times, Metric[p] # "spend"
      PROVE  quota'[p] = quota[p] /\ OpenUnits(p, t)' = OpenUnits(p, t)
  <2>1. quota'[p] = quota[p]
    BY <1>4 DEF RespentQuota
  <2>2. \A a \in Attempts : OpenOf(resv'[a][p], t) = OpenOf(resv[a][p], t)
    BY <1>1, <1>4
  <2>3. [a \in Attempts |-> OpenOf(resv'[a][p], t)] = [a \in Attempts |-> OpenOf(resv[a][p], t)]
    BY <2>2
  <2> QED BY <2>1, <2>3 DEF OpenUnits, OpenOf
<1>5. quota' \in [Policies -> [Times -> QuotaRow]]
  <2>1. quota' = [p \in Policies |-> quota'[p]]
    BY DEF RespentQuota
  <2>2. ASSUME NEW p \in Policies PROVE quota'[p] \in [Times -> QuotaRow]
    <3>1. CASE Metric[p] = "spend"
      <4>1. quota'[p] = [t \in Times |-> quota'[p][t]]
        BY <3>1 DEF RespentQuota
      <4>2. \A t \in Times : quota'[p][t] \in QuotaRow
        BY <1>3, <3>1
      <4> QED BY <4>1, <4>2
    <3>2. CASE Metric[p] # "spend"
      BY <3>2 DEF RespentQuota, QuotaInv
    <3> QED BY <3>1, <3>2
  <2> QED BY <2>1, <2>2
<1>6. ASSUME NEW p \in Policies, NEW t \in Times, Algorithm[p] # "token_bucket"
      PROVE  quota'[p][t].reserved = Sum(OpenUnits(p, t)', Attempts)
  <2>1. quota[p][t].reserved = Sum(OpenUnits(p, t), Attempts)
    BY <1>6 DEF QuotaInv, ReservedOK
  <2>2. CASE Metric[p] = "spend"
    BY <1>3, <2>1, <2>2
  <2>3. CASE Metric[p] # "spend"
    BY <1>4, <2>1, <2>3
  <2> QED BY <2>2, <2>3
<1> QED BY <1>2, <1>5, <1>6 DEF QuotaInv, ReservedOK

\* Every operation keeps the counters of the periods.
LEMMA QuotaStep == ASSUME LifeInv, FactInv, QuotaInv, [Next]_vars PROVE QuotaInv'
<1>1. ASSUME NEW r \in Requests, NEW a \in Attempts, NEW k \in Keys, NEW c \in Connections,
             NEW est \in Units, NEW wall \in Times, NEW priced \in BOOLEAN,
             Admit(r, a, k, c, est, wall, priced)
      PROVE  QuotaInv'
  BY <1>1, AdmitQuota
<1>2. ASSUME UNCHANGED counterVars, aState' = aState PROVE QuotaInv'
  <2>1. UNCHANGED <<quota, resv>>
    BY <1>2 DEF counterVars
  <2> QED BY <1>2, <2>1, StillQuota
<1>3. ASSUME NEW a \in Attempts, MarkDispatching(a) \/ MarkStreaming(a) PROVE QuotaInv'
  <2>1. UNCHANGED <<quota, resv>> /\ \E s \in {"dispatching", "streaming"} : aState' = [aState EXCEPT ![a] = s]
    BY <1>3 DEF MarkDispatching, MarkStreaming, counterVars
  <2>2. \A b \in Attempts : aState'[b] = "absent" => aState[b] = "absent"
    BY <2>1 DEF LifeInv, LifeTypeOK
  <2> QED BY <2>1, <2>2, StillQuota
<1>4. ASSUME NEW a \in Attempts, CancelBeforeDispatch(a) PROVE QuotaInv'
  <2> DEFINE U == {}
             S == {a}
  <2>1. /\ quota' = ReleasedQuota(S) /\ resv' = Moved(S, "active", "released")
        /\ aState' = [aState EXCEPT ![a] = "cancelled_before_dispatch"]
    BY <1>4 DEF CancelBeforeDispatch
  <2>2. \A b \in Attempts : aState'[b] = "absent" => aState[b] = "absent"
    BY <2>1 DEF LifeInv, LifeTypeOK
  <2>3. Moved(S, "active", "released") = [b \in Attempts |-> Moved(S, "active", "released")[b]]
    BY DEF Moved
  <2>4. resv' = [b \in Attempts |-> IF b \in U THEN Moved(U, "active", "uncertain")[b]
                                    ELSE Moved(S, "active", "released")[b]]
    BY <2>1, <2>3
  <2>5. S \in SUBSET Attempts /\ U \in SUBSET Attempts /\ S \cap U = {}
    OBVIOUS
  <2> HIDE DEF S, U
  <2> QED BY <2>1, <2>2, <2>4, <2>5, ReleaseQuota
<1>5. ASSUME NEW a \in Attempts, NEW state \in Outcomes, NEW status \in {"provider_reported", "unknown"},
             NEW tokens \in Units \cup {Unknown}, NEW reported \in Costs \cup {Unknown}, NEW final \in BOOLEAN,
             Settle(a, state, status, tokens, reported, final)
      PROVE  QuotaInv'
  BY <1>5, SettleResolves, ResolveQuota DEF Resolves
<1>6. ASSUME NEW wall \in Times, Recover(wall) PROVE QuotaInv'
  <2> DEFINE S == {a \in Attempts : aState[a] = "reserved"}
             U == Active \ S
  <2>1. /\ quota' = ReleasedQuota(S)
        /\ resv' = [a \in Attempts |-> IF a \in U THEN Moved(U, "active", "uncertain")[a]
                                       ELSE Moved(S, "active", "released")[a]]
    BY <1>6 DEF Recover
  <2>2. \A b \in Attempts : aState'[b] = "absent" => aState[b] = "absent"
    BY <1>6 DEF Recover
  <2>3. S \in SUBSET Attempts /\ U \in SUBSET Attempts /\ S \cap U = {}
    BY DEF Active
  <2> HIDE DEF S, U
  <2> QED BY <2>1, <2>2, <2>3, ReleaseQuota
<1>7. ASSUME NEW a \in Attempts, NEW tokens \in Reported, NEW reported \in ReconciledCosts \cup {Unknown},
             ReconcileUnknown(a, "provider_reported", tokens, reported)
      PROVE  QuotaInv'
  BY <1>7, ReconcileResolves, ResolveQuota DEF Resolves
<1>8. ASSUME NEW c \in Connections, NEW from \in Times, NEW to \in 1..MaxTime + 1, ApplyReprice(c, from, to)
      PROVE  QuotaInv'
  <2> DEFINE items == {a \in Attempts : /\ aConn[a] = c /\ aStart[a] >= from /\ aStart[a] < to
                                        /\ usage[a].tokens # Unknown /\ usage[a].status # "unknown"
                                        /\ catalog[aStart[a]] # Unknown}
             amount == [a \in items |-> CostOf(catalog[aStart[a]], usage[a].tokens) + ledger[a].adjusted]
             applied == {a \in items : <<a, catalog[aStart[a]], "restated">> \notin assessed}
  <2>1. quota' = RespentQuota(applied, amount) /\ resv' = RespentReservations(applied, amount) /\ aState' = aState
    BY <1>8 DEF ApplyReprice, lifeVars
  <2>2. ASSUME NEW a \in applied PROVE amount[a] \in Int
    <3>1. /\ a \in Attempts /\ catalog[aStart[a]] # Unknown /\ usage[a].tokens # Unknown
          /\ amount[a] = CostOf(catalog[aStart[a]], usage[a].tokens) + ledger[a].adjusted
      OBVIOUS
    <3>2. catalog[aStart[a]] \in Prices \cup {Unknown} /\ usage[a].tokens \in Amount /\ ledger[a].adjusted \in Int
      BY <3>1 DEF FactInv, FactTypeOK, LifeInv, LifeTypeOK, UsageRow, LedgerRow
    <3>3. CostOf(catalog[aStart[a]], usage[a].tokens) \in Int
      BY <3>1, <3>2, CostFacts
    <3> HIDE DEF applied, amount
    <3> QED BY <3>1, <3>2, <3>3
  <2>3. applied \in SUBSET Attempts
    OBVIOUS
  <2> HIDE DEF applied, amount
  <2> QED BY <2>1, <2>2, <2>3, RespendQuota
<1>9. ASSUME NEW a \in Attempts, NEW delta \in Deltas, AdjustCost(a, delta) PROVE QuotaInv'
  <2> DEFINE next == [b \in {a} |-> OrZero(usage[b].cost) + delta]
             S == {a}
  <2>1. quota' = RespentQuota(S, next) /\ resv' = RespentReservations(S, next) /\ aState' = aState
    BY <1>9 DEF AdjustCost, lifeVars
  <2>2. delta \in Int /\ OrZero(usage[a].cost) \in Int
    BY AmountsAssumption, OrZeroFacts DEF FactInv, FactTypeOK, UsageRow
  <2>3. \A b \in S : next[b] \in Int
    BY <2>2
  <2>4. S \in SUBSET Attempts
    OBVIOUS
  <2> HIDE DEF S, next
  <2> QED BY <2>1, <2>3, <2>4, RespendQuota
<1>10. ASSUME NEW r \in Requests, CloseFailedRequest(r) \/ \E state \in Outcomes : FinalizeRequest(r, state)
       PROVE  QuotaInv'
  BY <1>10, <1>2 DEF CloseFailedRequest, FinalizeRequest
<1>11. ASSUME NEW S \in SUBSET Requests, RepairStaleRequests(S) PROVE QuotaInv'
  BY <1>11, <1>2 DEF RepairStaleRequests
<1>12. CASE \/ \E p \in Policies : \E setting \in Settings[p] : UpdatePolicy(p, setting)
            \/ \E v \in Prices, from \in Times : CreatePrice(v, from)
            \/ \E g \in Grants : ChangeGrants(g)
            \/ Deliver
            \/ UNCHANGED vars
  <2>1. UNCHANGED counterVars /\ aState' = aState
    BY <1>12 DEF UpdatePolicy, CreatePrice, ChangeGrants, Deliver, vars, lifeVars
  <2> QED BY <2>1, <1>2
<1> QED
  BY <1>1, <1>3, <1>4, <1>5, <1>6, <1>7, <1>8, <1>9, <1>10, <1>11, <1>12 DEF Next

\* What a period holds, split by the state of its reservations.
LEMMA HeldFacts == QuotaInv => ReservedIsOutstanding
<1> SUFFICES ASSUME QuotaInv, NEW p \in Policies, NEW t \in Times, Algorithm[p] # "token_bucket"
             PROVE  quota[p][t].reserved = Held(Attempts, p, t, "active") + Held(Attempts, p, t, "uncertain")
  BY DEF ReservedIsOutstanding
<1> DEFINE u == [a \in Attempts |-> resv[a][p].units]
           A == {a \in Attempts : resv[a][p].state = "active" /\ resv[a][p].period = t}
           B == {a \in Attempts : resv[a][p].state = "uncertain" /\ resv[a][p].period = t}
           f == OpenUnits(p, t)
<1>1. quota[p][t].reserved = Sum(f, Attempts)
  BY DEF QuotaInv, ReservedOK
<1>2. Held(Attempts, p, t, "active") = Sum(u, A) /\ Held(Attempts, p, t, "uncertain") = Sum(u, B)
  BY DEF Held, Sum
<1>3. \A a \in Attempts : u[a] \in Nat
  BY DEF QuotaInv, ResvOK, ResvRow
<1>4. A \cap B = {} /\ A \in SUBSET Attempts /\ B \in SUBSET Attempts /\ A \cup B \in SUBSET Attempts
  OBVIOUS
<1>5. \A a \in A \cup B : f[a] = u[a]
  BY DEF OpenUnits, OpenOf
<1>6. \A a \in Attempts \ (A \cup B) : f[a] = 0
  BY DEF OpenUnits, OpenOf
<1> HIDE DEF A, B, u, f
<1>7. IsFiniteSet(A) /\ IsFiniteSet(B)
  BY <1>4, AttemptsAssumption, FS_Subset
<1>8. \A a \in A \cup B : u[a] \in Int /\ f[a] = u[a]
  BY <1>3, <1>4, <1>5
<1>9. Sum(f, Attempts) = Sum(u, A \cup B)
  BY <1>4, <1>6, <1>8, AttemptsAssumption, SumPart
<1>10. Sum(u, A \cup B) = Sum(u, A) + Sum(u, B)
  BY <1>4, <1>7, <1>8, SumDisjoint
<1> QED BY <1>1, <1>2, <1>9, <1>10

\* For every set of policies, attempts and prices: the reserved units of a
\* period are exactly the reservations made in it that are not resolved, through
\* cancellations, restarts, settlements after the period has ended,
\* reconciliations and repricings.
THEOREM ReservationsAddUp == Spec => []ReservedIsOutstanding
<1>1. Init => LifeInv /\ OutboxRoom /\ FactInv /\ QuotaInv
  BY InitLife, InitRoom, InitFacts, InitQuota
<1>2. LifeInv /\ OutboxRoom /\ FactInv /\ QuotaInv /\ [Next]_vars => LifeInv' /\ OutboxRoom' /\ FactInv' /\ QuotaInv'
  BY Step, FactStep, QuotaStep
<1> QED BY <1>1, <1>2, HeldFacts, PTL DEF Spec

-----------------------------------------------------------------------------
(* Request limits. *)

Requesting(p) == Metric[p] = "requests" /\ Algorithm[p] # "token_bucket"

\* The owner leaves the request policies switched on and at their limits.
RequestPoliciesAreFixed ==
  \A p \in Policies : Requesting(p) => \E n \in Nat : Settings[p] = {[limit |-> n, enabled |-> TRUE]}

\* What policy p counted in the period t.
CountedIn(p, t) == {x \in Counted(p) : PeriodStart(p, CountedAt(p, x)) = t}
CountOK(p) ==
  \A t \in Times : /\ IsFiniteSet(CountedIn(p, t))
                   /\ quota[p][t].consumed = Cardinality(CountedIn(p, t))
                   /\ quota[p][t].consumed <= policy[p].limit

\* Every request that was admitted has an attempt, and only those have.
LinkOK ==
  /\ \A a \in Attempts : aState[a] = "absent" => aReq[a] = Unknown
  /\ \A a \in Attempts : aReq[a] \in Requests => rState[aReq[a]] # "absent"
  /\ \A r \in Requests : rState[r] # "absent" => \E a \in Attempts : aReq[a] = r

CountInv == PolicyOK /\ LinkOK /\ StartsPassed /\ \A p \in Policies : Requesting(p) => CountOK(p)

LEMMA FixedRequestFacts ==
  ASSUME RequestPoliciesAreFixed, PolicyOK, NEW p \in Policies, Requesting(p)
  PROVE  policy[p].limit \in Nat /\ policy[p].enabled = TRUE /\ \A setting \in Settings[p] : setting = policy[p]
<1>1. PICK n \in Nat : Settings[p] = {[limit |-> n, enabled |-> TRUE]}
  BY DEF RequestPoliciesAreFixed
<1>2. policy[p] = [limit |-> n, enabled |-> TRUE]
  BY <1>1 DEF PolicyOK
<1> QED BY <1>1, <1>2

\* The least element of a set of integers.
LEMMA MinIs ==
  ASSUME NEW S \in SUBSET Int, NEW x \in S, \A y \in S : x <= y
  PROVE  Min(S) = x
<1> DEFINE least(z) == \A y \in S : z <= y
<1>1. least(x)
  OBVIOUS
<1> HIDE DEF least
<1>2. (CHOOSE z \in S : least(z)) \in S /\ least(CHOOSE z \in S : least(z))
  BY <1>1, Zenon
<1>3. Min(S) = CHOOSE z \in S : least(z)
  BY Zenon DEF Min, least
<1>4. Min(S) \in S /\ least(Min(S))
  BY <1>2, <1>3, Zenon
<1>5. Min(S) <= x /\ x <= Min(S) /\ Min(S) \in Int
  BY <1>4 DEF least
<1> QED BY <1>5

\* Before the first admission nothing is counted.
LEMMA InitCount == RequestPoliciesAreFixed /\ Init => CountInv
<1> SUFFICES ASSUME RequestPoliciesAreFixed, Init PROVE CountInv
  OBVIOUS
<1>1. PolicyOK
  BY DEF Init, PolicyOK
<1>2. LinkOK /\ StartsPassed
  BY UnknownAssumption DEF Init, LinkOK, StartsPassed
<1>3. ASSUME NEW p \in Policies, Requesting(p) PROVE CountOK(p)
  <2>1. Counted(p) = {}
    BY DEF Init, Counted
  <2>2. \A t \in Times : CountedIn(p, t) = {} /\ quota[p][t].consumed = 0
    BY <2>1 DEF Init, CountedIn
  <2>3. IsFiniteSet({}) /\ Cardinality({}) = 0 /\ policy[p].limit \in Nat
    BY <1>1, <1>3, FS_EmptySet, FixedRequestFacts
  <2> QED BY <2>2, <2>3 DEF CountOK
<1> QED BY <1>1, <1>2, <1>3 DEF CountInv

\* What a policy counts depends on the rows that exist and on their links.
LEMMA CountedSame ==
  ASSUME NEW p \in Policies, UNCHANGED <<rKey, aConn>>,
         \A a \in Attempts : aState'[a] = "absent" <=> aState[a] = "absent",
         \A r \in Requests : rState'[r] = "absent" <=> rState[r] = "absent"
  PROVE  Counted(p)' = Counted(p)
<1>1. CASE ScopeKind[p] = "connection"
  BY <1>1 DEF Counted
<1>2. CASE ScopeKind[p] # "connection"
  BY <1>2 DEF Counted
<1> QED BY <1>1, <1>2

\* The policy is switched on.
On(p) == policy[p].enabled = TRUE

\* An admission under an enabled policy adds its attempt or its new request.
Counting(p, r, a, k, c) ==
  IF p \notin MatchingPolicies(k, c) THEN {}
  ELSE IF ScopeKind[p] = "connection" THEN {a} ELSE IF rState[r] = "absent" THEN {r} ELSE {}

LEMMA CountedGrows ==
  ASSUME LifeInv, NEW p \in Policies, On(p),
         NEW r \in Requests, NEW a \in Attempts, NEW k \in Keys, NEW c \in Connections,
         NEW est \in Units, NEW wall \in Times, NEW priced \in BOOLEAN,
         Admit(r, a, k, c, est, wall, priced)
  PROVE  Counted(p)' = Counted(p) \cup Counting(p, r, a, k, c) /\ Counting(p, r, a, k, c) \cap Counted(p) = {}
<1> DEFINE first == rState[r] = "absent"
           ps == MatchingPolicies(k, c)
<1>1. /\ aState[a] = "absent" /\ aState' = [aState EXCEPT ![a] = "reserved"]
      /\ first \/ (rState[r] = "in_progress" /\ rKey[r] = k)
      /\ rState' = [rState EXCEPT ![r] = "reserved"]
      /\ rKey' = [rKey EXCEPT ![r] = k] /\ aConn' = [aConn EXCEPT ![a] = c]
  BY DEF Admit, Continues
<1>2. /\ \A b \in Attempts \ {a} : aState'[b] = aState[b] /\ aConn'[b] = aConn[b]
      /\ aState'[a] = "reserved" /\ aConn'[a] = c
      /\ \A q \in Requests \ {r} : rState'[q] = rState[q] /\ rKey'[q] = rKey[q]
      /\ rState'[r] = "reserved" /\ rKey'[r] = k
  BY <1>1 DEF LifeInv, LifeTypeOK
<1>3. CASE ScopeKind[p] = "connection"
  <2>1. p \in ps <=> ScopeId[p] = c
    BY <1>3 DEF MatchingPolicies, On
  <2>2. /\ Counted(p) = {b \in Attempts : aState[b] # "absent" /\ aConn[b] = ScopeId[p]}
        /\ Counted(p)' = {b \in Attempts : aState'[b] # "absent" /\ aConn'[b] = ScopeId[p]}
    BY <1>3 DEF Counted
  <2>3. Counting(p, r, a, k, c) = IF ScopeId[p] = c THEN {a} ELSE {}
    BY <1>3, <2>1 DEF Counting
  <2> QED BY <1>1, <1>2, <2>2, <2>3
<1>4. CASE ScopeKind[p] # "connection"
  <2> DEFINE scope(key) == \/ ScopeKind[p] = "instance"
                           \/ ScopeKind[p] = "user" /\ ScopeId[p] = Owner[key]
                           \/ ScopeKind[p] = "key" /\ ScopeId[p] = key
  <2>1. p \in ps <=> scope(k)
    BY <1>4 DEF MatchingPolicies, On
  <2>2. /\ Counted(p) = {q \in Requests : rState[q] # "absent" /\ scope(rKey[q])}
        /\ Counted(p)' = {q \in Requests : rState'[q] # "absent" /\ scope(rKey'[q])}
    BY <1>4 DEF Counted
  <2>3. Counting(p, r, a, k, c) = IF scope(k) /\ first THEN {r} ELSE {}
    BY <1>4, <2>1 DEF Counting
  <2> HIDE DEF scope
  <2> QED BY <1>1, <1>2, <2>2, <2>3
<1> QED BY <1>3, <1>4

\* Steps that admit nothing and leave the consumed units of request policies alone.
LEMMA CountKept ==
  ASSUME RequestPoliciesAreFixed, CountInv, PolicyOK', UNCHANGED <<rKey, aReq, aConn, aStart>>, StartsPassed',
         \A a \in Attempts : aState'[a] = "absent" <=> aState[a] = "absent",
         \A r \in Requests : rState'[r] = "absent" <=> rState[r] = "absent",
         \A p \in Policies, t \in Times : Requesting(p) => quota'[p][t].consumed = quota[p][t].consumed
  PROVE  CountInv'
<1>1. LinkOK'
  BY DEF CountInv, LinkOK
<1>2. ASSUME NEW p \in Policies, Requesting(p) PROVE CountOK(p)'
  <2>1. policy'[p] = policy[p]
    BY <1>2, FixedRequestFacts DEF CountInv, PolicyOK
  <2>2. Counted(p)' = Counted(p)
    BY CountedSame
  <2>3. \A x : CountedAt(p, x)' = CountedAt(p, x)
    BY DEF CountedAt
  <2>4. \A t \in Times : CountedIn(p, t)' = CountedIn(p, t)
    BY <2>2, <2>3 DEF CountedIn, PeriodStart
  <2>5. \A t \in Times : quota'[p][t].consumed = quota[p][t].consumed
    BY <1>2
  <2> QED BY <1>2, <2>1, <2>4, <2>5 DEF CountInv, CountOK
<1> QED BY <1>1, <1>2 DEF CountInv, Requesting

\* An admission counts once: an attempt under a connection policy, else a
\* request with its first attempt.
LEMMA AdmitCount ==
  ASSUME RequestPoliciesAreFixed, LifeInv, FactInv, QuotaInv, CountInv,
         NEW r \in Requests, NEW a \in Attempts, NEW k \in Keys, NEW c \in Connections,
         NEW est \in Units, NEW wall \in Times, NEW priced \in BOOLEAN,
         Admit(r, a, k, c, est, wall, priced)
  PROVE  CountInv'
<1> DEFINE first == rState[r] = "absent"
           now == EffectiveTime(wall)
           price == IF priced THEN catalog[now] ELSE Unknown
           cost == CostOf(price, est)
           ps == MatchingPolicies(k, c)
<1>1. /\ aState[a] = "absent" /\ aState' = [aState EXCEPT ![a] = "reserved"]
      /\ first \/ (rState[r] = "in_progress" /\ rKey[r] = k)
      /\ rState' = [rState EXCEPT ![r] = "reserved"]
      /\ rKey' = [rKey EXCEPT ![r] = k]
      /\ aReq' = [aReq EXCEPT ![a] = r]
      /\ aConn' = [aConn EXCEPT ![a] = c]
      /\ aStart' = [aStart EXCEPT ![a] = now]
      /\ clock' = now /\ policy' = policy
      /\ \A p \in ps : Permits(p, r, a, now, first, est, cost)
      /\ quota' = PlannedQuota(ps, now, first, est, cost)
  BY DEF Admit, Continues, confVars
<1>2. /\ now \in Times /\ now >= clock /\ first \in BOOLEAN /\ ps \subseteq Policies /\ price \in Prices \cup {Unknown}
      /\ now \in Nat /\ clock \in Nat /\ \A b \in Attempts : aStart[b] \in Nat
  BY EffectiveTimeFact DEF LifeInv, LifeTypeOK, MatchingPolicies, FactInv, FactTypeOK, Times
<1>3. /\ \A b \in Attempts \ {a} : /\ aState'[b] = aState[b] /\ aReq'[b] = aReq[b] /\ aConn'[b] = aConn[b]
                                   /\ aStart'[b] = aStart[b]
      /\ aState'[a] = "reserved" /\ aReq'[a] = r /\ aConn'[a] = c /\ aStart'[a] = now
      /\ \A q \in Requests \ {r} : rState'[q] = rState[q] /\ rKey'[q] = rKey[q]
      /\ rState'[r] = "reserved" /\ rKey'[r] = k
  BY <1>1 DEF LifeInv, LifeTypeOK
<1>4. aReq[a] = Unknown /\ a \notin Requests /\ r \notin Attempts /\ \A q \in Requests : q # Unknown
  BY <1>1, DisjointAssumption, UnknownAssumption DEF CountInv, LinkOK
<1>5. StartsPassed' /\ LinkOK' /\ PolicyOK'
  <2>1. StartsPassed'
    BY <1>1, <1>2, <1>3 DEF CountInv, StartsPassed
  <2>2. LinkOK'
    BY <1>3, <1>4 DEF CountInv, LinkOK
  <2> QED BY <1>1, <2>1, <2>2 DEF CountInv, PolicyOK
<1> HIDE DEF now, ps, cost
<1>6. ASSUME NEW p \in Policies, Requesting(p) PROVE CountOK(p)'
  <2> DEFINE new == IF ScopeKind[p] = "connection" THEN a ELSE r
             counts == p \in ps /\ (first \/ ScopeKind[p] = "connection")
             here == PeriodStart(p, now)
  <2>1. policy[p].limit \in Nat /\ policy[p].enabled = TRUE
    BY <1>6, FixedRequestFacts DEF CountInv
  <2>2. ps = MatchingPolicies(k, c)
    BY DEF ps
  <2>3. /\ Counted(p)' = IF counts THEN Counted(p) \cup {new} ELSE Counted(p)
        /\ counts => new \notin Counted(p)
    <3>1. Counted(p)' = Counted(p) \cup Counting(p, r, a, k, c) /\ Counting(p, r, a, k, c) \cap Counted(p) = {}
      <4>1. On(p)
        BY <2>1 DEF On
      <4> QED BY <4>1, CountedGrows
    <3>2. Counting(p, r, a, k, c) = IF counts THEN {new} ELSE {}
      BY <2>2 DEF Counting
    <3> QED BY <3>1, <3>2
  <2>4. ASSUME NEW x \in Counted(p) PROVE CountedAt(p, x)' = CountedAt(p, x)
    <3>1. CASE ScopeKind[p] = "connection"
      <4>1. x \in Attempts /\ x # a
        BY <1>1, <3>1 DEF Counted
      <4> QED BY <1>3, <4>1 DEF CountedAt
    <3>2. CASE ScopeKind[p] # "connection"
      <4> DEFINE S == {aStart[b] : b \in {d \in Attempts : aReq[d] = x}}
                 N == {aStart'[b] : b \in {d \in Attempts : aReq'[d] = x}}
      <4>1. x \in Requests /\ x \notin Attempts /\ rState[x] # "absent"
        BY <3>2, DisjointAssumption DEF Counted
      <4>2. CountedAt(p, x) = Min(S) /\ CountedAt(p, x)' = Min(N)
        <5>1. CountedAt(p, x) = Min(S)
          BY <4>1, Zenon DEF CountedAt
        <5>2. CountedAt(p, x)' = Min(N)
          BY <4>1, Zenon DEF CountedAt
        <5> QED BY <5>1, <5>2
      <4>3. S \in SUBSET Nat /\ S # {}
        BY <1>2, <4>1 DEF CountInv, LinkOK
      <4>4. N = IF x = r THEN S \cup {now} ELSE S
        BY <1>3, <1>4, <4>1
      <4>5. \A y \in S : y <= now
        BY <1>2 DEF CountInv, StartsPassed
      <4> HIDE DEF S, N
      <4>6. PICK m \in S : \A y \in S : m <= y
        BY <4>3, LeastNumber
      <4>7. Min(S) = m
        BY <4>3, <4>6, MinIs
      <4>8. m \in N /\ N \in SUBSET Int /\ \A y \in N : m <= y
        BY <1>2, <4>3, <4>4, <4>5, <4>6
      <4>9. Min(N) = m
        BY <4>8, MinIs
      <4> QED BY <4>2, <4>7, <4>9
    <3> QED BY <3>1, <3>2
  <2>5. ASSUME counts PROVE CountedAt(p, new)' = now
    <3>1. CASE ScopeKind[p] = "connection"
      BY <1>3, <3>1 DEF CountedAt
    <3>2. CASE ScopeKind[p] # "connection"
      <4> DEFINE N == {aStart'[b] : b \in {d \in Attempts : aReq'[d] = r}}
      <4>1. CountedAt(p, new)' = Min(N)
        BY <1>4, <3>2, Zenon DEF CountedAt
      <4>2. \A b \in Attempts \ {a} : aReq[b] # r
        BY <2>5, <3>2 DEF CountInv, LinkOK
      <4>3. N = {now}
        BY <1>3, <4>2
      <4> HIDE DEF N
      <4>4. now \in N /\ N \in SUBSET Int /\ \A y \in N : now <= y
        BY <1>2, <4>3
      <4>5. Min(N) = now
        BY <4>4, MinIs
      <4> QED BY <4>1, <4>5
    <3> QED BY <3>1, <3>2
  <2>6. ASSUME NEW t \in Times
        PROVE  CountedIn(p, t)' = IF counts /\ t = here THEN CountedIn(p, t) \cup {new} ELSE CountedIn(p, t)
    <3>1. CountedIn(p, t)' = {x \in Counted(p)' : PeriodStart(p, CountedAt(p, x)') = t}
      BY DEF CountedIn, PeriodStart
    <3>2. CountedIn(p, t) = {x \in Counted(p) : PeriodStart(p, CountedAt(p, x)) = t}
      BY DEF CountedIn
    <3>3. CASE counts
      <4>1. Counted(p)' = Counted(p) \cup {new} /\ PeriodStart(p, CountedAt(p, new)') = here
        BY <2>3, <2>5, <3>3
      <4> HIDE DEF counts, new, here
      <4> QED BY <2>4, <3>1, <3>2, <3>3, <4>1
    <3>4. CASE ~counts
      <4>1. Counted(p)' = Counted(p)
        BY <2>3, <3>4
      <4> HIDE DEF counts, new, here
      <4> QED BY <2>4, <3>1, <3>2, <3>4, <4>1
    <3> QED BY <3>3, <3>4
  <2>7. /\ here \in Times /\ quota[p] \in [Times -> QuotaRow]
        /\ \A t \in Times : quota[p][t].consumed \in Int /\ quota[p][t].reserved \in Int
    BY <1>2, PeriodFacts DEF QuotaInv, QuotaRow
  <2>8. /\ Algorithm[p] \in {"quota", "fixed_window"} /\ ~Reserves(p)
        /\ Charge(p, first, est, cost) = IF first \/ ScopeKind[p] = "connection" THEN 1 ELSE 0
    BY <1>6, PoliciesAssumption DEF Requesting, Reserves, Charge
  <2>9. p \in Hit(ps, {"quota", "fixed_window"}, first, est, cost) <=> counts
    BY <2>8 DEF Hit
  <2>10. ASSUME NEW t \in Times
         PROVE  quota'[p][t].consumed = IF counts /\ t = here THEN quota[p][t].consumed + 1 ELSE quota[p][t].consumed
    <3>1. CASE counts
      <4> DEFINE next == [consumed |-> quota[p][here].consumed + 1, reserved |-> quota[p][here].reserved]
      <4>1. quota'[p] = [quota[p] EXCEPT ![here] = next]
        BY <1>1, <2>8, <2>9, <3>1 DEF PlannedQuota
      <4>2. next.consumed = quota[p][here].consumed + 1
        OBVIOUS
      <4> HIDE DEF next, here, counts
      <4> QED BY <2>7, <3>1, <4>1, <4>2
    <3>2. CASE ~counts
      <4>1. quota'[p] = quota[p]
        BY <1>1, <2>9, <3>2 DEF PlannedQuota
      <4> QED BY <3>2, <4>1
    <3> QED BY <3>1, <3>2
  <2>11. ASSUME counts PROVE quota[p][here].consumed + 1 <= policy[p].limit
    <3>1. Permits(p, r, a, now, first, est, cost)
      BY <1>1, <2>11
    <3>2. Charge(p, first, est, cost) = 1 /\ Metric[p] # "spend" /\ Algorithm[p] \notin {"concurrency", "ceiling", "token_bucket"}
      BY <1>6, <2>8, <2>11 DEF Requesting
    <3>3. quota[p][here].consumed + quota[p][here].reserved + 1 <= policy[p].limit
      BY <3>1, <3>2 DEF Permits, NoCharge
    <3>4. quota[p][here].reserved \in Nat
      <4>1. quota[p][here].reserved = Sum(OpenUnits(p, here), Attempts)
        BY <1>6, <2>7 DEF QuotaInv, ReservedOK, Requesting
      <4>2. \A b \in Attempts : OpenUnits(p, here)[b] \in Nat
        BY <2>7, OpenFacts DEF QuotaInv, ResvOK, OpenUnits
      <4> QED BY <4>1, <4>2, AttemptsAssumption, SumNat
    <3> QED BY <2>1, <2>7, <3>3, <3>4
  <2>12. CountOK(p)
    BY <1>6 DEF CountInv
  <2>13. counts => new \notin Counted(p)
    BY <2>3
  <2> HIDE DEF counts, new, here
  <2>14. ASSUME NEW t \in Times
         PROVE  /\ IsFiniteSet(CountedIn(p, t)')
                /\ quota'[p][t].consumed = Cardinality(CountedIn(p, t)')
                /\ quota'[p][t].consumed <= policy'[p].limit
    <3>1. /\ IsFiniteSet(CountedIn(p, t)) /\ quota[p][t].consumed = Cardinality(CountedIn(p, t))
          /\ quota[p][t].consumed <= policy[p].limit
      BY <2>12 DEF CountOK
    <3>2. CASE counts /\ t = here
      <4>1. new \notin CountedIn(p, t)
        BY <2>13, <3>2 DEF CountedIn
      <4>2. IsFiniteSet(CountedIn(p, t) \cup {new}) /\ Cardinality(CountedIn(p, t) \cup {new}) = Cardinality(CountedIn(p, t)) + 1
        BY <3>1, <4>1, FS_AddElement
      <4>3. CountedIn(p, t)' = CountedIn(p, t) \cup {new}
        BY <2>6, <3>2
      <4> QED BY <1>1, <2>10, <2>11, <3>1, <3>2, <4>2, <4>3
    <3>3. CASE ~(counts /\ t = here)
      <4>1. CountedIn(p, t)' = CountedIn(p, t)
        BY <2>6, <3>3
      <4> QED BY <1>1, <2>10, <3>1, <3>3, <4>1
    <3> QED BY <3>2, <3>3
  <2> QED BY <2>14 DEF CountOK
<1> QED BY <1>5, <1>6 DEF CountInv, Requesting

\* Some request is admitted.
AdmitsNow ==
  \E r \in Requests, a \in Attempts, k \in Keys, c \in Connections, est \in Units, wall \in Times, priced \in BOOLEAN :
    Admit(r, a, k, c, est, wall, priced)

\* Only an admission inserts rows, or dates and links them.
RowsStay ==
  /\ UNCHANGED <<rKey, aReq, aConn, aStart>> /\ clock' >= clock
  /\ \A a \in Attempts : aState'[a] = "absent" <=> aState[a] = "absent"
  /\ \A r \in Requests : rState'[r] = "absent" <=> rState[r] = "absent"

LEMMA RowSteps == ASSUME LifeInv, [Next]_vars PROVE AdmitsNow \/ RowsStay
<1>1. /\ clock >= clock
      /\ \A wall \in Times : EffectiveTime(wall) >= clock
  <2>1. clock \in Times /\ clock \in Int
    BY DEF LifeInv, LifeTypeOK, Times
  <2> QED BY <2>1, EffectiveTimeFact
<1>2. ASSUME NEW a \in Attempts, MarkDispatching(a) \/ MarkStreaming(a) PROVE RowsStay
  <2>1. /\ UNCHANGED <<clock, rState, rKey, aReq, aConn, aStart>> /\ aState[a] \in {"reserved", "dispatching"}
        /\ \E s \in {"dispatching", "streaming"} : aState' = [aState EXCEPT ![a] = s]
    BY <1>2 DEF MarkDispatching, MarkStreaming
  <2> QED BY <1>1, <2>1 DEF LifeInv, LifeTypeOK, RowsStay
<1>3. ASSUME NEW a \in Attempts, aState[a] \in ActiveStates,
             NEW s \in AttemptStates \ {"absent"}, NEW q \in RequestStates \ {"absent"},
             aState' = [aState EXCEPT ![a] = s], rState' = [rState EXCEPT ![aReq[a]] = q],
             UNCHANGED <<clock, rKey, aReq, aConn, aStart>>
      PROVE  RowsStay
  <2>1. aReq[a] \in Requests /\ rState[aReq[a]] = "reserved"
    BY <1>3 DEF LifeInv, OneOpenAttempt, Active
  <2> QED BY <1>1, <1>3, <2>1 DEF LifeInv, LifeTypeOK, ActiveStates, RowsStay
<1>4. ASSUME NEW a \in Attempts, CancelBeforeDispatch(a) PROVE RowsStay
  <2>1. /\ UNCHANGED <<clock, rKey, aReq, aConn, aStart>> /\ aState[a] \in ActiveStates
        /\ aState' = [aState EXCEPT ![a] = "cancelled_before_dispatch"]
        /\ rState' = [rState EXCEPT ![aReq[a]] = "cancelled"]
    BY <1>4 DEF CancelBeforeDispatch, ActiveStates
  <2>2. "cancelled_before_dispatch" \in AttemptStates \ {"absent"} /\ "cancelled" \in RequestStates \ {"absent"}
    BY DEF AttemptStates, RequestStates, SettledStates
  <2> QED BY <1>3, <2>1, <2>2
<1>5. ASSUME NEW a \in Attempts, NEW state \in Outcomes, NEW status, NEW tokens, NEW reported, NEW final \in BOOLEAN,
             Settle(a, state, status, tokens, reported, final)
      PROVE  RowsStay
  <2> DEFINE next == IF final THEN state ELSE "in_progress"
  <2>1. /\ UNCHANGED <<clock, rKey, aReq, aConn, aStart>> /\ aState[a] \in ActiveStates
        /\ aState' = [aState EXCEPT ![a] = state] /\ rState' = [rState EXCEPT ![aReq[a]] = next]
    BY <1>5 DEF Settle, Settleable
  <2>2. state \in AttemptStates \ {"absent"} /\ next \in RequestStates \ {"absent"}
    BY OutcomesAssumption DEF AttemptStates, RequestStates, SettledStates
  <2> HIDE DEF next
  <2> QED BY <1>3, <2>1, <2>2
<1>6. ASSUME NEW r \in Requests, CloseFailedRequest(r) \/ \E state \in Outcomes : FinalizeRequest(r, state)
      PROVE  RowsStay
  <2>1. /\ UNCHANGED <<clock, rKey, aReq, aConn, aStart, aState>>
        /\ rState[r] = "in_progress" /\ \E s \in SettledStates : rState' = [rState EXCEPT ![r] = s]
    BY <1>6, OutcomesAssumption DEF CloseFailedRequest, FinalizeRequest, SettledStates
  <2> QED BY <1>1, <2>1 DEF LifeInv, LifeTypeOK, SettledStates, RowsStay
<1>7. ASSUME NEW S \in SUBSET Requests, RepairStaleRequests(S) PROVE RowsStay
  BY <1>1, <1>7 DEF RepairStaleRequests, RowsStay
<1>8. ASSUME NEW wall \in Times, Recover(wall) PROVE RowsStay
  <2> DEFINE S == {a \in Attempts : aState[a] = "reserved"}
  <2>1. UNCHANGED <<rKey, aReq, aConn, aStart>> /\ clock' = EffectiveTime(wall)
    BY <1>8 DEF Recover
  <2>2. \A a \in Attempts : aState'[a] = "absent" <=> aState[a] = "absent"
    BY <1>8 DEF Recover, Active, ActiveStates
  <2>3. \A r \in Requests : rState'[r] = "absent" <=> rState[r] = "absent"
    <3>1. \A r \in Requests : rState[r] = "absent" => \A a \in Active : aReq[a] # r
      BY DEF LifeInv, OneOpenAttempt
    <3>2. S \subseteq Active
      BY DEF Active, ActiveStates
    <3>3. rState' = [r \in Requests |->
                      IF \E a \in Active \ S : aReq[a] = r THEN "interrupted_unknown"
                      ELSE IF \E a \in S : aReq[a] = r THEN "cancelled"
                      ELSE IF rState[r] = "in_progress" THEN "failed" ELSE rState[r]]
      BY <1>8 DEF Recover
    <3> HIDE DEF S
    <3> QED BY <3>1, <3>2, <3>3
  <2> QED BY <1>1, <2>1, <2>2, <2>3 DEF RowsStay
<1>9. ASSUME UNCHANGED <<clock, lifeVars>> PROVE RowsStay
  BY <1>1, <1>9 DEF lifeVars, RowsStay
<1>10. ASSUME NEW a \in Attempts, NEW tokens, NEW reported, ReconcileUnknown(a, "provider_reported", tokens, reported)
       PROVE  RowsStay
  BY <1>9, <1>10 DEF ReconcileUnknown
<1>11. ASSUME NEW c \in Connections, NEW from, NEW to, ApplyReprice(c, from, to) PROVE RowsStay
  BY <1>9, <1>11 DEF ApplyReprice
<1>12. ASSUME NEW a \in Attempts, NEW delta \in Deltas, AdjustCost(a, delta) PROVE RowsStay
  BY <1>9, <1>12 DEF AdjustCost
<1>13. CASE \/ \E p \in Policies : \E setting \in Settings[p] : UpdatePolicy(p, setting)
            \/ \E v \in Prices, from \in Times : CreatePrice(v, from)
            \/ \E g \in Grants : ChangeGrants(g)
            \/ Deliver
            \/ UNCHANGED vars
  <2>1. UNCHANGED <<clock, lifeVars>>
    BY <1>13 DEF UpdatePolicy, CreatePrice, ChangeGrants, Deliver, vars
  <2> QED BY <1>9, <2>1
<1> QED
  BY <1>2, <1>4, <1>5, <1>6, <1>7, <1>8, <1>10, <1>11, <1>12, <1>13 DEF Next, AdmitsNow

\* A policy only ever takes a setting of its own.
LEMMA PolicySteps == ASSUME PolicyOK, [Next]_vars PROVE PolicyOK'
<1>1. ASSUME policy' = policy PROVE PolicyOK'
  BY <1>1 DEF PolicyOK
<1>2. ASSUME NEW p \in Policies, NEW setting \in Settings[p], UpdatePolicy(p, setting) PROVE PolicyOK'
  BY <1>2 DEF UpdatePolicy, PolicyOK
<1>3. ASSUME UNCHANGED confVars PROVE PolicyOK'
  BY <1>1, <1>3 DEF confVars
<1>4. CASE AdmitsNow
  BY <1>3, <1>4 DEF AdmitsNow, Admit
<1>5. ASSUME NEW a \in Attempts, MarkDispatching(a) \/ MarkStreaming(a) \/ CancelBeforeDispatch(a) PROVE PolicyOK'
  BY <1>3, <1>5 DEF MarkDispatching, MarkStreaming, CancelBeforeDispatch
<1>6. ASSUME NEW a \in Attempts, NEW state, NEW status, NEW tokens, NEW reported, NEW final,
             Settle(a, state, status, tokens, reported, final)
      PROVE  PolicyOK'
  BY <1>3, <1>6 DEF Settle
<1>7. ASSUME NEW r \in Requests, CloseFailedRequest(r) \/ \E state \in Outcomes : FinalizeRequest(r, state) PROVE PolicyOK'
  BY <1>3, <1>7 DEF CloseFailedRequest, FinalizeRequest
<1>8. ASSUME NEW S \in SUBSET Requests, RepairStaleRequests(S) PROVE PolicyOK'
  BY <1>3, <1>8 DEF RepairStaleRequests
<1>9. ASSUME NEW wall \in Times, Recover(wall) PROVE PolicyOK'
  BY <1>3, <1>9 DEF Recover
<1>10. ASSUME NEW a \in Attempts, NEW tokens, NEW reported, ReconcileUnknown(a, "provider_reported", tokens, reported)
       PROVE  PolicyOK'
  BY <1>3, <1>10 DEF ReconcileUnknown
<1>11. ASSUME NEW c \in Connections, NEW from, NEW to, ApplyReprice(c, from, to) PROVE PolicyOK'
  BY <1>3, <1>11 DEF ApplyReprice
<1>12. ASSUME NEW a \in Attempts, NEW delta \in Deltas, AdjustCost(a, delta) PROVE PolicyOK'
  BY <1>3, <1>12 DEF AdjustCost
<1>13. CASE \/ \E v \in Prices, from \in Times : CreatePrice(v, from)
            \/ \E g \in Grants : ChangeGrants(g)
            \/ Deliver
            \/ UNCHANGED vars
  <2>1. policy' = policy
    BY <1>13 DEF CreatePrice, ChangeGrants, Deliver, vars, confVars
  <2> QED BY <1>1, <2>1
<1> QED
  BY <1>2, <1>4, <1>5, <1>6, <1>7, <1>8, <1>9, <1>10, <1>11, <1>12, <1>13 DEF Next, AdmitsNow

\* Nothing but an admission touches what a request policy has consumed.
LEMMA ConsumedSteps ==
  ASSUME LifeInv, FactInv, QuotaInv, [Next]_vars, NEW p \in Policies, NEW t \in Times, Requesting(p)
  PROVE  AdmitsNow \/ quota'[p][t].consumed = quota[p][t].consumed
<1>1. /\ Metric[p] = "requests" /\ ~Reserves(p) /\ quota[p] \in [Times -> QuotaRow]
      /\ \A a \in Attempts : resv[a][p].state = "none"
  BY DEF Requesting, Reserves, QuotaInv, ResvOK
<1>2. ASSUME NEW S, quota' = ReleasedQuota(S) PROVE quota'[p][t].consumed = quota[p][t].consumed
  <2> DEFINE held == Held(S, p, t, "active")
  <2>1. quota'[p][t] = IF Algorithm[p] = "token_bucket" THEN quota[p][t]
                       ELSE IF quota[p][t].reserved >= held
                       THEN [consumed |-> quota[p][t].consumed, reserved |-> quota[p][t].reserved - held]
                       ELSE quota[p][t]
    BY <1>2 DEF ReleasedQuota
  <2> HIDE DEF held
  <2> QED BY <2>1
<1>3. ASSUME NEW S, NEW amount, quota' = RespentQuota(S, amount) PROVE quota'[p][t].consumed = quota[p][t].consumed
  BY <1>1, <1>3 DEF RespentQuota
<1>4. ASSUME NEW a \in Attempts, NEW ps, NEW tokens, NEW cost, Resolves(a, ps, tokens, cost)
      PROVE  quota'[p][t].consumed = quota[p][t].consumed
  <2>1. p \notin ps /\ quota' = ResolvedQuota(a, ps, tokens, cost)
    BY <1>1, <1>4 DEF Resolves, Resolution
  <2> QED BY <2>1 DEF ResolvedQuota
<1>5. ASSUME NEW a \in Attempts, NEW state \in Outcomes, NEW status \in {"provider_reported", "unknown"},
             NEW tokens \in Units \cup {Unknown}, NEW reported \in Costs \cup {Unknown}, NEW final \in BOOLEAN,
             Settle(a, state, status, tokens, reported, final)
      PROVE  quota'[p][t].consumed = quota[p][t].consumed
  BY <1>4, <1>5, SettleResolves
<1>6. ASSUME NEW a \in Attempts, NEW tokens \in Reported, NEW reported \in ReconciledCosts \cup {Unknown},
             ReconcileUnknown(a, "provider_reported", tokens, reported)
      PROVE  quota'[p][t].consumed = quota[p][t].consumed
  BY <1>4, <1>6, ReconcileResolves
<1>7. ASSUME NEW a \in Attempts, CancelBeforeDispatch(a) PROVE quota'[p][t].consumed = quota[p][t].consumed
  <2>1. quota' = ReleasedQuota({a})
    BY <1>7 DEF CancelBeforeDispatch
  <2> QED BY <1>2, <2>1
<1>8. ASSUME NEW wall \in Times, Recover(wall) PROVE quota'[p][t].consumed = quota[p][t].consumed
  <2>1. \E S : quota' = ReleasedQuota(S)
    BY <1>8 DEF Recover
  <2> QED BY <1>2, <2>1
<1>9. ASSUME NEW c \in Connections, NEW from, NEW to, ApplyReprice(c, from, to)
      PROVE  quota'[p][t].consumed = quota[p][t].consumed
  <2>1. \E S, amount : quota' = RespentQuota(S, amount)
    BY <1>9 DEF ApplyReprice
  <2> QED BY <1>3, <2>1
<1>10. ASSUME NEW a \in Attempts, NEW delta \in Deltas, AdjustCost(a, delta)
       PROVE  quota'[p][t].consumed = quota[p][t].consumed
  <2>1. \E S, amount : quota' = RespentQuota(S, amount)
    BY <1>10 DEF AdjustCost
  <2> QED BY <1>3, <2>1
<1>11. ASSUME quota' = quota PROVE quota'[p][t].consumed = quota[p][t].consumed
  BY <1>11
<1>12. ASSUME NEW a \in Attempts, MarkDispatching(a) \/ MarkStreaming(a) PROVE quota' = quota
  BY <1>12 DEF MarkDispatching, MarkStreaming, counterVars
<1>13. ASSUME NEW r \in Requests, CloseFailedRequest(r) \/ \E state \in Outcomes : FinalizeRequest(r, state) PROVE quota' = quota
  BY <1>13 DEF CloseFailedRequest, FinalizeRequest, counterVars
<1>14. ASSUME NEW S \in SUBSET Requests, RepairStaleRequests(S) PROVE quota' = quota
  BY <1>14 DEF RepairStaleRequests, counterVars
<1>15. CASE \/ \E q \in Policies : \E setting \in Settings[q] : UpdatePolicy(q, setting)
            \/ \E v \in Prices, from \in Times : CreatePrice(v, from)
            \/ \E g \in Grants : ChangeGrants(g)
            \/ Deliver
            \/ UNCHANGED vars
  <2>1. quota' = quota
    BY <1>15 DEF UpdatePolicy, CreatePrice, ChangeGrants, Deliver, counterVars, vars
  <2> QED BY <1>11, <2>1
<1> QED
  BY <1>5, <1>6, <1>7, <1>8, <1>9, <1>10, <1>11, <1>12, <1>13, <1>14, <1>15 DEF Next, AdmitsNow

\* Every operation keeps the counts of the request policies.
LEMMA CountStep ==
  ASSUME RequestPoliciesAreFixed, LifeInv, FactInv, QuotaInv, CountInv, [Next]_vars, LifeInv'
  PROVE  CountInv'
<1>1. CASE AdmitsNow
  BY <1>1, AdmitCount DEF AdmitsNow
<1>2. CASE ~AdmitsNow
  <2>1. RowsStay
    BY <1>2, RowSteps
  <2>2. clock \in Int /\ clock' \in Int /\ \A a \in Attempts : aStart[a] \in Int /\ aStart[a] <= clock
    BY DEF CountInv, StartsPassed, LifeInv, LifeTypeOK, Times
  <2>3. StartsPassed'
    BY <2>1, <2>2 DEF RowsStay, StartsPassed
  <2>4. PolicyOK'
    BY PolicySteps DEF CountInv
  <2>5. \A p \in Policies, t \in Times : Requesting(p) => quota'[p][t].consumed = quota[p][t].consumed
    BY <1>2, ConsumedSteps
  <2> QED BY <2>1, <2>3, <2>4, <2>5, CountKept DEF RowsStay
<1> QED BY <1>1, <1>2

\* For every number of requests, attempts and policies: as long as the request
\* policies are left alone, a period has consumed exactly the requests (or, for
\* a connection, the attempts) that began in it, and never more than the limit.
THEOREM RequestsAreCountedOnce == ASSUME RequestPoliciesAreFixed PROVE Spec => []RequestsCountOnce
<1>1. Init => LifeInv /\ OutboxRoom /\ FactInv /\ QuotaInv /\ CountInv
  BY InitLife, InitRoom, InitFacts, InitQuota, InitCount
<1>2. LifeInv /\ OutboxRoom /\ FactInv /\ QuotaInv /\ CountInv /\ [Next]_vars
        => LifeInv' /\ OutboxRoom' /\ FactInv' /\ QuotaInv' /\ CountInv'
  BY Step, FactStep, QuotaStep, CountStep
<1>3. CountInv => RequestsCountOnce
  BY DEF CountInv, CountOK, CountedIn, Requesting, RequestsCountOnce
<1> QED BY <1>1, <1>2, <1>3, PTL DEF Spec
-----------------------------------------------------------------------------
(* What a period has consumed of tokens and spend. *)

\* The reservations of an open attempt are not resolved.
OpenUnresolved == \A a \in Active, p \in Policies : resv[a][p].state \in {"none", "active"}

\* What policy p was charged in the period t for an attempt with these facts.
ChargeOf(p, row, facts, t) == IF row.state = "settled" /\ row.period = t THEN Charged(p, facts) ELSE 0
Charges(p, t) == [a \in Attempts |-> ChargeOf(p, resv[a][p], usage[a], t)]
Metered(p) == Metric[p] \in {"spend", "tokens"} /\ Algorithm[p] # "token_bucket"
ConsumedOK == \A p \in Policies, t \in Times : Metered(p) => quota[p][t].consumed = Sum(Charges(p, t), Attempts)

ChargeInv == OpenUnresolved /\ ConsumedOK

LEMMA ChargedFacts == ASSUME NEW p \in Policies, NEW facts \in UsageRow PROVE Charged(p, facts) \in Int
<1>1. facts.cost \in Amount /\ facts.tokens \in Amount
  BY DEF UsageRow
<1> QED BY <1>1, OrZeroFacts DEF Charged

LEMMA ChargeOfFacts ==
  ASSUME NEW p \in Policies, NEW row, NEW facts \in UsageRow, NEW t
  PROVE  /\ ChargeOf(p, row, facts, t) \in Int
         /\ row.state # "settled" \/ row.period # t => ChargeOf(p, row, facts, t) = 0
         /\ row.state = "settled" /\ row.period = t => ChargeOf(p, row, facts, t) = Charged(p, facts)
<1>1. Charged(p, facts) \in Int
  BY ChargedFacts
<1> HIDE DEF UsageRow
<1> QED BY <1>1 DEF ChargeOf

\* No reservation is settled at first.
LEMMA InitCharges == Init => ChargeInv
<1> SUFFICES ASSUME Init PROVE ChargeInv
  OBVIOUS
<1>1. /\ quota = [p \in Policies |-> [t \in Times |-> [consumed |-> 0, reserved |-> 0]]]
      /\ resv = [a \in Attempts |-> [p \in Policies |-> NoReservation]]
      /\ aState = [a \in Attempts |-> "absent"]
  BY DEF Init
<1>2. NoReservation.state = "none"
  BY DEF NoReservation
<1>3. ASSUME NEW p \in Policies, NEW t \in Times PROVE quota[p][t].consumed = Sum(Charges(p, t), Attempts)
  <2>1. \A a \in Attempts : Charges(p, t)[a] = 0
    BY <1>1, <1>2 DEF Charges, ChargeOf
  <2>2. Sum(Charges(p, t), Attempts) = 0
    BY <2>1, AttemptsAssumption, SumZero
  <2> QED BY <1>1, <2>2
<1>4. OpenUnresolved
  BY <1>1 DEF OpenUnresolved, Active, ActiveStates
<1> QED BY <1>3, <1>4 DEF ChargeInv, ConsumedOK

\* Each attempt's charge changes by d, and the period consumes the sum of that.
LEMMA ConsumedFollows ==
  ASSUME FactTypeOK, FactTypeOK', NEW p \in Policies, NEW t \in Times,
         quota[p][t].consumed = Sum(Charges(p, t), Attempts), NEW d,
         \A a \in Attempts : /\ d[a] \in Int
                             /\ ChargeOf(p, resv'[a][p], usage'[a], t) = ChargeOf(p, resv[a][p], usage[a], t) + d[a],
         quota'[p][t].consumed = quota[p][t].consumed + Sum(d, Attempts)
  PROVE  quota'[p][t].consumed = Sum(Charges(p, t)', Attempts)
<1> DEFINE f == [a \in Attempts |-> ChargeOf(p, resv[a][p], usage[a], t)]
           g == [a \in Attempts |-> ChargeOf(p, resv'[a][p], usage'[a], t)]
<1>1. \A a \in Attempts : f[a] \in Int /\ d[a] \in Int /\ g[a] = f[a] + d[a]
  <2> SUFFICES ASSUME NEW a \in Attempts PROVE f[a] \in Int /\ d[a] \in Int /\ g[a] = f[a] + d[a]
    OBVIOUS
  <2>1. usage[a] \in UsageRow
    BY DEF FactTypeOK
  <2>2. ChargeOf(p, resv[a][p], usage[a], t) \in Int
    BY <2>1, ChargeOfFacts
  <2> QED BY <2>2
<1>2. f = Charges(p, t) /\ g = Charges(p, t)'
  BY DEF Charges, ChargeOf, Charged
<1> HIDE DEF f, g
<1>3. Sum(g, Attempts) = Sum(f, Attempts) + Sum(d, Attempts)
  BY <1>1, AttemptsAssumption, SumPlus
<1> QED BY <1>2, <1>3

\* No charge of the period changes.
LEMMA ConsumedSame ==
  ASSUME FactTypeOK, FactTypeOK', NEW p \in Policies, NEW t \in Times,
         quota[p][t].consumed = Sum(Charges(p, t), Attempts),
         \A a \in Attempts : ChargeOf(p, resv'[a][p], usage'[a], t) = ChargeOf(p, resv[a][p], usage[a], t),
         quota'[p][t].consumed = quota[p][t].consumed
  PROVE  quota'[p][t].consumed = Sum(Charges(p, t)', Attempts)
<1> DEFINE f == [a \in Attempts |-> ChargeOf(p, resv[a][p], usage[a], t)]
           g == [a \in Attempts |-> ChargeOf(p, resv'[a][p], usage'[a], t)]
<1>1. \A a \in Attempts : g[a] = f[a]
  OBVIOUS
<1>2. f = Charges(p, t) /\ g = Charges(p, t)'
  BY DEF Charges, ChargeOf, Charged
<1> HIDE DEF f, g
<1>3. Sum(g, Attempts) = Sum(f, Attempts)
  BY <1>1, AttemptsAssumption, SumSame
<1> QED BY <1>2, <1>3

\* The charge of one attempt changes, and the counter follows.
LEMMA OneConsumed ==
  ASSUME FactTypeOK, FactTypeOK', NEW p \in Policies, NEW t \in Times, NEW a \in Attempts,
         quota[p][t].consumed = Sum(Charges(p, t), Attempts),
         \A b \in Attempts \ {a} : ChargeOf(p, resv'[b][p], usage'[b], t) = ChargeOf(p, resv[b][p], usage[b], t),
         quota'[p][t].consumed = quota[p][t].consumed
           + (ChargeOf(p, resv'[a][p], usage'[a], t) - ChargeOf(p, resv[a][p], usage[a], t))
  PROVE  quota'[p][t].consumed = Sum(Charges(p, t)', Attempts)
<1> DEFINE f == [b \in Attempts |-> ChargeOf(p, resv[b][p], usage[b], t)]
           g == [b \in Attempts |-> ChargeOf(p, resv'[b][p], usage'[b], t)]
<1>1. \A b \in Attempts : f[b] \in Int /\ g[b] \in Int
  <2> SUFFICES ASSUME NEW b \in Attempts PROVE f[b] \in Int /\ g[b] \in Int
    OBVIOUS
  <2>1. usage[b] \in UsageRow /\ usage'[b] \in UsageRow
    BY DEF FactTypeOK
  <2>2. ChargeOf(p, resv[b][p], usage[b], t) \in Int /\ ChargeOf(p, resv'[b][p], usage'[b], t) \in Int
    BY <2>1, ChargeOfFacts
  <2> QED BY <2>2
<1>2. \A b \in Attempts \ {a} : g[b] = f[b]
  OBVIOUS
<1>3. f[a] = ChargeOf(p, resv[a][p], usage[a], t) /\ g[a] = ChargeOf(p, resv'[a][p], usage'[a], t)
  OBVIOUS
<1>4. f = Charges(p, t) /\ g = Charges(p, t)'
  BY DEF Charges, ChargeOf, Charged
<1> HIDE DEF f, g
<1>5. Sum(g, Attempts) = Sum(f, Attempts) + (g[a] - f[a])
  BY <1>1, <1>2, AttemptsAssumption, SumChange
<1> QED BY <1>3, <1>4, <1>5

\* What every operation but the four that restate or resolve does: each charge
\* and each counter of tokens and spend stays.
LEMMA ChargesKept ==
  ASSUME FactTypeOK, FactTypeOK', ConsumedOK,
         \A p \in Policies, t \in Times : Metered(p) => quota'[p][t].consumed = quota[p][t].consumed,
         \A a \in Attempts, p \in Policies, t \in Times :
           Metered(p) => ChargeOf(p, resv'[a][p], usage'[a], t) = ChargeOf(p, resv[a][p], usage[a], t)
  PROVE  ConsumedOK'
<1>1. ASSUME NEW p \in Policies, NEW t \in Times, Metered(p)
      PROVE  quota'[p][t].consumed = Sum(Charges(p, t)', Attempts)
  <2>1. quota[p][t].consumed = Sum(Charges(p, t), Attempts)
    BY <1>1 DEF ConsumedOK
  <2> QED BY <1>1, <2>1, ConsumedSame
<1>2. \A p \in Policies : Metered(p)' = Metered(p)
  BY DEF Metered
<1> QED BY <1>1, <1>2 DEF ConsumedOK, Metered

\* A row's charge depends on its facts' amounts, and on a settled row only.
LEMMA SameCharge ==
  ASSUME NEW p, NEW t, NEW old, NEW new, NEW before, NEW after,
         before.tokens = after.tokens, before.cost = after.cost,
         old = new \/ (old.state # "settled" /\ new.state # "settled")
  PROVE  ChargeOf(p, new, after, t) = ChargeOf(p, old, before, t)
<1>1. Charged(p, after) = Charged(p, before)
  BY DEF Charged
<1> QED BY <1>1 DEF ChargeOf

\* An admission reserves and consumes nothing of tokens and spend.
LEMMA AdmitCharges ==
  ASSUME LifeInv, FactInv, QuotaInv, ChargeInv, FactTypeOK', NEW r \in Requests, NEW a \in Attempts, NEW k \in Keys,
         NEW c \in Connections, NEW est \in Units, NEW wall \in Times, NEW priced \in BOOLEAN,
         Admit(r, a, k, c, est, wall, priced)
  PROVE  ChargeInv'
<1> DEFINE first == rState[r] = "absent"
           now == EffectiveTime(wall)
           price == IF priced THEN catalog[now] ELSE Unknown
           cost == CostOf(price, est)
           ps == MatchingPolicies(k, c)
           new == PlannedReservations(ps, now, est, cost)
<1>1. /\ aState[a] = "absent" /\ aState' = [aState EXCEPT ![a] = "reserved"]
      /\ quota' = PlannedQuota(ps, now, first, est, cost)
      /\ resv' = [resv EXCEPT ![a] = new] /\ usage' = usage
  BY DEF Admit, factVars
<1> HIDE DEF first, now, price, ps, cost
<1>2. \A p \in Policies : new[p].state \in {"none", "active"}
  BY DEF PlannedReservations, NoReservation
<1> HIDE DEF new
<1>3. resv'[a] = new /\ \A b \in Attempts \ {a} : resv'[b] = resv[b]
  BY <1>1 DEF QuotaInv, ResvOK
<1>4. \A p \in Policies : resv[a][p].state = "none"
  BY <1>1 DEF QuotaInv, ResvOK
<1>5. OpenUnresolved'
  BY <1>1, <1>2, <1>3 DEF ChargeInv, OpenUnresolved, Active, LifeInv, LifeTypeOK
<1>6. ASSUME NEW p \in Policies, NEW t \in Times, Metered(p) PROVE quota'[p][t].consumed = quota[p][t].consumed
  <2>1. Reserves(p) /\ quota[p] \in [Times -> QuotaRow]
    BY <1>6 DEF Metered, Reserves, QuotaInv
  <2> DEFINE units == Charge(p, first, est, cost)
             s == PeriodStart(p, now)
  <2>2. \/ quota'[p] = quota[p]
        \/ quota'[p] = [quota[p] EXCEPT ![s] = [consumed |-> @.consumed, reserved |-> @.reserved + units]]
    BY <1>1, <2>1 DEF PlannedQuota
  <2> HIDE DEF units, s
  <2> QED BY <2>1, <2>2
<1>7. ASSUME NEW b \in Attempts, NEW p \in Policies, NEW t \in Times
      PROVE  ChargeOf(p, resv'[b][p], usage'[b], t) = ChargeOf(p, resv[b][p], usage[b], t)
  <2>1. resv[b][p] = resv'[b][p] \/ (resv[b][p].state # "settled" /\ resv'[b][p].state # "settled")
    BY <1>2, <1>3, <1>4
  <2> QED BY <1>1, <2>1, SameCharge
<1> QED BY <1>5, <1>6, <1>7, ChargesKept DEF ChargeInv, FactInv

\* A release gives back what was reserved and consumes nothing.
LEMMA ReleaseCharges ==
  ASSUME LifeInv, FactInv, QuotaInv, ChargeInv, FactTypeOK', NEW S \in SUBSET Attempts, NEW U \in SUBSET Attempts,
         quota' = ReleasedQuota(S),
         resv' = [a \in Attempts |-> IF a \in U THEN Moved(U, "active", "uncertain")[a]
                                     ELSE Moved(S, "active", "released")[a]],
         \A a \in Attempts : usage'[a].tokens = usage[a].tokens /\ usage'[a].cost = usage[a].cost
  PROVE  ConsumedOK'
<1>1. ASSUME NEW a \in Attempts, NEW p \in Policies
      PROVE  resv[a][p] = resv'[a][p] \/ (resv[a][p].state # "settled" /\ resv'[a][p].state # "settled")
  <2>1. resv[a] = [q \in Policies |-> resv[a][q]] /\ resv[a][p] \in ResvRow
    BY DEF QuotaInv, ResvOK
  <2>2. \/ resv'[a][p] = resv[a][p]
        \/ /\ resv[a][p].state = "active"
           /\ \E st \in {"uncertain", "released"} : resv'[a][p] = [resv[a][p] EXCEPT !.state = st]
    <3>1. CASE a \in U
      BY <3>1 DEF Moved
    <3>2. CASE a \notin U
      BY <3>2 DEF Moved
    <3> QED BY <3>1, <3>2
  <2> QED BY <2>1, <2>2 DEF ResvRow
<1>2. ASSUME NEW p \in Policies, NEW t \in Times PROVE quota'[p][t].consumed = quota[p][t].consumed
  <2> DEFINE held == Held(S, p, t, "active")
  <2>1. quota'[p][t] = IF Algorithm[p] = "token_bucket" THEN quota[p][t]
                       ELSE IF quota[p][t].reserved >= held
                       THEN [consumed |-> quota[p][t].consumed, reserved |-> quota[p][t].reserved - held]
                       ELSE quota[p][t]
    BY DEF ReleasedQuota
  <2> HIDE DEF held
  <2> QED BY <2>1
<1>3. ASSUME NEW a \in Attempts, NEW p \in Policies, NEW t \in Times
      PROVE  ChargeOf(p, resv'[a][p], usage'[a], t) = ChargeOf(p, resv[a][p], usage[a], t)
  BY <1>1, SameCharge
<1> QED BY <1>2, <1>3, ChargesKept DEF ChargeInv, FactInv

\* A resolved reservation is charged what the row now shows; one that stays
\* settled must be charged what it was.
LEMMA ResolveCharges ==
  ASSUME FactInv, FactTypeOK', QuotaInv, ConsumedOK, NEW a \in Attempts, NEW ps, NEW tokens, NEW cost,
         Resolves(a, ps, tokens, cost),
         \A p \in Policies \ ps : resv[a][p].state # "settled" \/ Charged(p, usage'[a]) = Charged(p, usage[a])
  PROVE  ConsumedOK'
<1> USE DEF Resolves, Resolution
<1>1. \A p \in Policies : resv[a][p] \in ResvRow
  BY DEF QuotaInv, ResvOK
<1>2. ASSUME NEW p \in Policies, NEW t \in Times, Metered(p)
      PROVE  quota'[p][t].consumed = Sum(Charges(p, t)', Attempts)
  <2> DEFINE now == ChargeOf(p, resv'[a][p], usage'[a], t)
             was == ChargeOf(p, resv[a][p], usage[a], t)
             spent == SettlementUnits(p, tokens, cost)
             s == resv[a][p].period
  <2>1. quota[p][t].consumed = Sum(Charges(p, t), Attempts)
    BY <1>2 DEF ConsumedOK
  <2>2. \A b \in Attempts \ {a} : ChargeOf(p, resv'[b][p], usage'[b], t) = ChargeOf(p, resv[b][p], usage[b], t)
    OBVIOUS
  <2>3. quota[p] \in [Times -> QuotaRow] /\ quota[p][t].consumed \in Int
    BY DEF QuotaInv, QuotaRow
  <2>4. CASE p \in ps
    <3>1. resv'[a][p].state = "settled" /\ resv'[a][p].period = s /\ resv[a][p].state # "settled" /\ spent \in Int
      <4> DEFINE row == resv'[a][p]
      <4>1. row = [resv[a][p] EXCEPT !.state = "settled"] /\ resv[a][p].state \in {"active", "uncertain"} /\ spent \in Int
        BY <2>4
      <4> HIDE DEF row, spent
      <4>2. row.state = "settled" /\ row.period = s
        BY <1>1, <4>1 DEF ResvRow
      <4> QED BY <4>1, <4>2 DEF row
    <3>2. Charged(p, usage'[a]) = spent
      <4>1. spent = IF Metric[p] = "spend" THEN usage'[a].cost ELSE usage'[a].tokens
        BY <1>2 DEF Metered, SettlementUnits
      <4>2. spent \in Amount
        BY <3>1 DEF Amount
      <4> QED BY <3>1, <4>1, <4>2, OrZeroFacts DEF Charged
    <3>3. now = (IF t = s THEN spent ELSE 0) /\ was = 0
      BY <3>1, <3>2 DEF ChargeOf
    <3>4. quota'[p][t].consumed = quota[p][t].consumed + (IF t = s THEN spent ELSE 0)
      <4> DEFINE next == [consumed |-> quota[p][s].consumed + spent, reserved |-> quota[p][s].reserved - resv[a][p].units]
      <4>1. quota'[p] = [quota[p] EXCEPT ![s] = next]
        BY <1>2, <2>4 DEF ResolvedQuota, ReservationPeriod, Metered
      <4>2. next.consumed = quota[p][s].consumed + spent
        OBVIOUS
      <4> HIDE DEF next
      <4>3. CASE t = s
        BY <2>3, <4>1, <4>2, <4>3
      <4>4. CASE t # s
        BY <2>3, <4>1, <4>4
      <4> QED BY <4>3, <4>4
    <3> HIDE DEF now, was, spent
    <3>5. quota'[p][t].consumed = quota[p][t].consumed + (now - was)
      BY <2>3, <3>1, <3>3, <3>4
    <3> QED BY <1>2, <2>1, <2>2, <3>5, OneConsumed DEF now, was, FactInv
  <2>5. CASE p \notin ps
    <3>1. now = was
      <4>1. CASE resv'[a][p] = resv[a][p]
        <5>1. CASE resv[a][p].state = "settled"
          BY <2>5, <4>1, <5>1 DEF ChargeOf
        <5>2. CASE resv[a][p].state # "settled"
          BY <4>1, <5>2 DEF ChargeOf
        <5> QED BY <5>1, <5>2
      <4>2. CASE resv[a][p].state = "active" /\ resv'[a][p] = [resv[a][p] EXCEPT !.state = "uncertain"]
        <5>1. resv'[a][p].state = "uncertain"
          BY <1>1, <4>2 DEF ResvRow
        <5> QED BY <4>2, <5>1 DEF ChargeOf
      <4> QED BY <2>5, <4>1, <4>2
    <3>2. quota'[p] = quota[p]
      BY <2>5 DEF ResolvedQuota
    <3>3. \A b \in Attempts : ChargeOf(p, resv'[b][p], usage'[b], t) = ChargeOf(p, resv[b][p], usage[b], t)
      BY <2>2, <3>1
    <3> QED BY <1>2, <2>1, <3>2, <3>3, ConsumedSame DEF FactInv
  <2> QED BY <2>4, <2>5
<1>3. \A p \in Policies : Metered(p)' = Metered(p)
  BY DEF Metered
<1> QED BY <1>2, <1>3 DEF ConsumedOK, Metered

\* A restated cost moves the settled charges, and charges what it resolves.
LEMMA RespendCharges ==
  ASSUME FactInv, FactTypeOK', QuotaInv, ConsumedOK, NEW S \in SUBSET Attempts, NEW amount,
         \A a \in S : amount[a] \in Int,
         quota' = RespentQuota(S, amount), resv' = RespentReservations(S, amount),
         \A a \in Attempts : usage'[a].tokens = usage[a].tokens,
         \A a \in S : usage'[a].cost = amount[a],
         \A a \in Attempts \ S : usage'[a].cost = usage[a].cost
  PROVE  ConsumedOK'
<1>1. ASSUME NEW a \in Attempts, NEW p \in Policies
      PROVE  /\ resv[a][p] \in ResvRow
             /\ resv'[a][p] = IF a \in S /\ Metric[p] = "spend" /\ SpendResolved(a, p, amount[a])
                              THEN [resv[a][p] EXCEPT !.state = "settled"] ELSE resv[a][p]
  BY DEF QuotaInv, ResvOK, RespentReservations
<1>2. ASSUME NEW p \in Policies, NEW t \in Times, Metered(p), Metric[p] # "spend"
      PROVE  quota'[p][t].consumed = Sum(Charges(p, t)', Attempts)
  <2>1. quota'[p] = quota[p]
    BY <1>2 DEF RespentQuota
  <2>2. ASSUME NEW a \in Attempts PROVE ChargeOf(p, resv'[a][p], usage'[a], t) = ChargeOf(p, resv[a][p], usage[a], t)
    <3>1. resv'[a][p] = resv[a][p]
      BY <1>1, <1>2
    <3>2. Charged(p, usage'[a]) = Charged(p, usage[a])
      BY <1>2 DEF Charged
    <3> QED BY <3>1, <3>2 DEF ChargeOf
  <2>3. quota[p][t].consumed = Sum(Charges(p, t), Attempts)
    BY <1>2 DEF ConsumedOK
  <2> QED BY <2>1, <2>2, <2>3, ConsumedSame DEF FactInv
<1>3. ASSUME NEW p \in Policies, NEW t \in Times, Metered(p), Metric[p] = "spend"
      PROVE  quota'[p][t].consumed = Sum(Charges(p, t)', Attempts)
  <2> DEFINE here == {a \in S : resv[a][p].period = t /\ resv[a][p].state \in {"settled", "uncertain"}}
             change == [a \in here |-> SpendChange(a, p, amount[a])]
             spent == SumFunctionOnSet(change, here)
             d == [a \in Attempts |-> IF a \in here THEN change[a] ELSE 0]
  <2>1. quota'[p][t].consumed = quota[p][t].consumed + spent
    BY <1>3 DEF RespentQuota
  <2>2. \A a \in here : change[a] \in Int /\ change[a] = SpendChange(a, p, amount[a])
    <3> SUFFICES ASSUME NEW a \in here PROVE change[a] \in Int /\ change[a] = SpendChange(a, p, amount[a])
      OBVIOUS
    <3>1. amount[a] \in Int /\ OrZero(usage[a].cost) \in Int
      BY OrZeroFacts DEF FactInv, FactTypeOK, UsageRow
    <3> QED BY <3>1 DEF SpendChange
  <2>3. here \in SUBSET Attempts /\ \A a \in here : change[a] \in Int /\ d[a] = change[a]
    BY <2>2
  <2>4. \A a \in Attempts \ here : d[a] = 0
    OBVIOUS
  <2>5. ASSUME NEW a \in Attempts
        PROVE  d[a] \in Int /\ ChargeOf(p, resv'[a][p], usage'[a], t) = ChargeOf(p, resv[a][p], usage[a], t) + d[a]
    <3> DEFINE next == resv'[a][p]
               old == resv[a][p]
    <3>1. old \in ResvRow /\ usage[a] \in UsageRow /\ usage'[a] \in UsageRow
      BY <1>1 DEF FactInv, FactTypeOK
    <3>2. Charged(p, usage'[a]) = OrZero(usage'[a].cost) /\ Charged(p, usage[a]) = OrZero(usage[a].cost)
      BY <1>3 DEF Charged
    <3>3. ChargeOf(p, next, usage'[a], t) \in Int /\ ChargeOf(p, old, usage[a], t) \in Int
      BY <3>1, ChargeOfFacts
    <3>4. next = old \/ (a \in S /\ SpendResolved(a, p, amount[a]) /\ next = [old EXCEPT !.state = "settled"])
      BY <1>1
    <3>5. OrZero(usage[a].cost) \in Int /\ (a \in S => OrZero(usage'[a].cost) = amount[a] /\ amount[a] \in Int)
      BY <3>1, OrZeroFacts DEF UsageRow
    <3> HIDE DEF next
    <3>6. next.period = old.period /\ (next = old \/ (next.state = "settled" /\ old.state = "uncertain"))
      BY <3>1, <3>4 DEF ResvRow, SpendResolved
    <3>7. CASE a \notin here
      <4>1. d[a] = 0
        BY <3>7
      <4>2. ChargeOf(p, next, usage'[a], t) = ChargeOf(p, old, usage[a], t)
        <5>1. CASE a \notin S
          <6>1. next = old /\ usage'[a].cost = usage[a].cost
            BY <3>4, <5>1
          <6> QED BY <3>2, <6>1 DEF ChargeOf
        <5>2. CASE a \in S /\ old.period # t
          BY <3>6, <5>2 DEF ChargeOf
        <5>3. CASE a \in S /\ old.state \notin {"settled", "uncertain"}
          BY <3>6, <5>3 DEF ChargeOf
        <5> QED BY <3>7, <5>1, <5>2, <5>3
      <4> HIDE DEF d
      <4> QED BY <3>3, <4>1, <4>2 DEF next
    <3>8. CASE a \in here /\ old.state = "settled"
      <4>1. d[a] = amount[a] - OrZero(usage[a].cost) /\ a \in S /\ old.period = t
        BY <2>2, <3>8 DEF SpendChange
      <4>2. ChargeOf(p, next, usage'[a], t) = amount[a] /\ ChargeOf(p, old, usage[a], t) = OrZero(usage[a].cost)
        BY <3>2, <3>5, <3>6, <3>8, <4>1 DEF ChargeOf
      <4> HIDE DEF d
      <4> QED BY <3>5, <4>1, <4>2 DEF next
    <3>9. CASE a \in here /\ old.state = "uncertain"
      <4>1. d[a] = amount[a] /\ a \in S /\ old.period = t
        BY <2>2, <3>9 DEF SpendChange
      <4>2. ChargeOf(p, old, usage[a], t) = 0
        BY <3>9 DEF ChargeOf
      <4>3. ChargeOf(p, next, usage'[a], t) = amount[a]
        <5>1. CASE next.state = "settled"
          BY <3>2, <3>5, <3>6, <4>1, <5>1 DEF ChargeOf
        <5>2. CASE next.state # "settled"
          <6>1. next = old /\ ~SpendResolved(a, p, amount[a])
            <7>1. next = old
              BY <3>6, <5>2
            <7>2. SpendResolved(a, p, amount[a]) => next = [old EXCEPT !.state = "settled"]
              BY <1>1, <1>3, <4>1 DEF next
            <7>3. next = [old EXCEPT !.state = "settled"] => next.state = "settled"
              BY <3>1 DEF ResvRow
            <7> QED BY <5>2, <7>1, <7>2, <7>3
          <6>2. amount[a] = 0
            BY <3>9, <6>1 DEF SpendResolved
          <6> QED BY <5>2, <6>2 DEF ChargeOf
        <5> QED BY <5>1, <5>2
      <4> HIDE DEF d
      <4> QED BY <3>5, <4>1, <4>2, <4>3 DEF next
    <3> QED BY <3>7, <3>8, <3>9
  <2> HIDE DEF here, change, d
  <2>6. Sum(d, Attempts) = Sum(change, here)
    BY <2>3, <2>4, AttemptsAssumption, SumPart
  <2>7. quota'[p][t].consumed = quota[p][t].consumed + Sum(d, Attempts)
    BY <2>1, <2>6 DEF Sum
  <2>8. quota[p][t].consumed = Sum(Charges(p, t), Attempts)
    BY <1>3 DEF ConsumedOK
  <2> QED BY <2>5, <2>7, <2>8, ConsumedFollows DEF FactInv
<1>4. \A p \in Policies : Metered(p)' = Metered(p)
  BY DEF Metered
<1> QED BY <1>2, <1>3, <1>4 DEF ConsumedOK, Metered

\* Every operation keeps what the periods have consumed, unless it restates an
\* attempt whose reservation is settled.
LEMMA ChargeStep ==
  ASSUME LifeInv, FactInv, QuotaInv, ChargeInv, LifeInv', FactInv', QuotaInv', [Next]_vars,
         UNCHANGED vars \/ ~RestatesSettled
  PROVE  ChargeInv'
<1> FactTypeOK'
  BY DEF FactInv
<1>1. ASSUME NEW r \in Requests, NEW a \in Attempts, NEW k \in Keys, NEW c \in Connections,
             NEW est \in Units, NEW wall \in Times, NEW priced \in BOOLEAN,
             Admit(r, a, k, c, est, wall, priced)
      PROVE  ChargeInv'
  BY <1>1, AdmitCharges
<1>2. ASSUME UNCHANGED <<quota, resv, usage>>, Active' \subseteq Active PROVE ChargeInv'
  <2>1. OpenUnresolved'
    BY <1>2 DEF ChargeInv, OpenUnresolved
  <2>2. ConsumedOK'
    BY <1>2, ChargesKept DEF ChargeInv, FactInv
  <2> QED BY <2>1, <2>2 DEF ChargeInv
<1>3. ASSUME UNCHANGED <<aState, quota, resv, usage>> PROVE ChargeInv'
  BY <1>2, <1>3 DEF Active
<1>4. ASSUME NEW a \in Attempts, MarkDispatching(a) \/ MarkStreaming(a) PROVE ChargeInv'
  <2>1. /\ UNCHANGED <<quota, resv, usage>> /\ aState[a] \in {"reserved", "dispatching"}
        /\ \E s \in {"dispatching", "streaming"} : aState' = [aState EXCEPT ![a] = s]
    BY <1>4 DEF MarkDispatching, MarkStreaming, counterVars, factVars
  <2>2. Active' \subseteq Active
    BY <2>1 DEF Active, ActiveStates, LifeInv, LifeTypeOK
  <2> QED BY <1>2, <2>1, <2>2
<1>5. ASSUME NEW a \in Attempts, CancelBeforeDispatch(a) PROVE ChargeInv'
  <2> DEFINE U == {}
             S == {a}
  <2>1. /\ quota' = ReleasedQuota(S) /\ resv' = Moved(S, "active", "released")
        /\ aState' = [aState EXCEPT ![a] = "cancelled_before_dispatch"]
        /\ usage' = [usage EXCEPT ![a].status = "estimated"]
    BY <1>5 DEF CancelBeforeDispatch
  <2>2. Moved(S, "active", "released") = [b \in Attempts |-> Moved(S, "active", "released")[b]]
    BY DEF Moved
  <2>3. resv' = [b \in Attempts |-> IF b \in U THEN Moved(U, "active", "uncertain")[b]
                                    ELSE Moved(S, "active", "released")[b]]
    BY <2>1, <2>2
  <2>4. \A b \in Attempts : usage'[b].tokens = usage[b].tokens /\ usage'[b].cost = usage[b].cost
    BY <2>1 DEF FactInv, FactTypeOK, UsageRow
  <2>5. OpenUnresolved'
    <3>1. Active' \subseteq Active \ {a}
      BY <2>1 DEF Active, ActiveStates, LifeInv, LifeTypeOK
    <3>2. \A b \in Attempts \ {a} : resv'[b] = resv[b]
      BY <2>1 DEF Moved
    <3>3. Active' \subseteq Attempts
      BY DEF Active
    <3> QED BY <3>1, <3>2, <3>3 DEF ChargeInv, OpenUnresolved
  <2>6. S \in SUBSET Attempts /\ U \in SUBSET Attempts
    OBVIOUS
  <2> HIDE DEF S, U
  <2> QED BY <2>1, <2>3, <2>4, <2>5, <2>6, ReleaseCharges DEF ChargeInv
<1>6. ASSUME NEW a \in Attempts, NEW state \in Outcomes, NEW status \in {"provider_reported", "unknown"},
             NEW tokens \in Units \cup {Unknown}, NEW reported \in Costs \cup {Unknown}, NEW final \in BOOLEAN,
             Settle(a, state, status, tokens, reported, final)
      PROVE  ChargeInv'
  <2>1. PICK ps, cost : Resolves(a, ps, tokens, cost)
    BY <1>6, SettleResolves
  <2>2. a \in Active /\ aState' = [aState EXCEPT ![a] = state] /\ state \in SettledStates
    BY <1>6, OutcomesAssumption DEF Settle, Settleable, Active
  <2>3. \A p \in Policies : resv[a][p].state # "settled"
    BY <2>2 DEF ChargeInv, OpenUnresolved
  <2>4. ConsumedOK'
    BY <2>1, <2>3, ResolveCharges DEF ChargeInv
  <2>5. OpenUnresolved'
    <3>1. Active' \subseteq Active \ {a} /\ Active' \subseteq Attempts
      BY <2>2 DEF Active, ActiveStates, SettledStates, LifeInv, LifeTypeOK
    <3>2. \A b \in Attempts \ {a} : resv'[b] = resv[b]
      BY <2>1 DEF Resolves, Resolution
    <3> QED BY <3>1, <3>2 DEF ChargeInv, OpenUnresolved
  <2> QED BY <2>4, <2>5 DEF ChargeInv
<1>7. ASSUME NEW wall \in Times, Recover(wall) PROVE ChargeInv'
  <2> DEFINE S == {a \in Attempts : aState[a] = "reserved"}
             U == Active \ S
  <2>1. /\ quota' = ReleasedQuota(S)
        /\ resv' = [a \in Attempts |-> IF a \in U THEN Moved(U, "active", "uncertain")[a]
                                       ELSE Moved(S, "active", "released")[a]]
        /\ aState' = [a \in Attempts |-> IF a \in S THEN "cancelled_before_dispatch"
                                         ELSE IF a \in U THEN "interrupted_unknown" ELSE aState[a]]
        /\ usage' = [a \in Attempts |-> IF a \in S THEN [usage[a] EXCEPT !.status = "estimated"]
                                        ELSE IF a \in U THEN [usage[a] EXCEPT !.status = "unknown"] ELSE usage[a]]
    BY <1>7 DEF Recover
  <2>2. S \in SUBSET Attempts /\ U \in SUBSET Attempts
    BY DEF Active
  <2>3. Active' = {}
    BY <2>1 DEF Active, ActiveStates
  <2> HIDE DEF S, U
  <2>4. \A b \in Attempts : usage'[b].tokens = usage[b].tokens /\ usage'[b].cost = usage[b].cost
    BY <2>1 DEF FactInv, FactTypeOK, UsageRow
  <2>5. OpenUnresolved'
    BY <2>3 DEF OpenUnresolved
  <2> QED BY <2>1, <2>2, <2>4, <2>5, ReleaseCharges DEF ChargeInv
<1>8. ASSUME NEW a \in Attempts, NEW tokens \in Reported, NEW reported \in ReconciledCosts \cup {Unknown},
             ReconcileUnknown(a, "provider_reported", tokens, reported)
      PROVE  ChargeInv'
  <2>1. CASE UNCHANGED vars
    <3>1. UNCHANGED <<aState, quota, resv, usage>>
      BY <2>1 DEF vars, lifeVars, factVars, counterVars
    <3> QED BY <3>1, <1>3
  <2>2. CASE ~RestatesSettled
    <3>1. PICK ps, cost : Resolves(a, ps, tokens, cost) /\ \A p \in ps : resv[a][p].state = "uncertain"
      BY <1>8, ReconcileResolves
    <3>2. \A p \in Policies : resv[a][p].state # "settled" \/ Charged(p, usage'[a]) = Charged(p, usage[a])
      BY <1>8, <2>2 DEF RestatesSettled
    <3>3. ConsumedOK'
      BY <3>1, <3>2, ResolveCharges DEF ChargeInv
    <3>4. aState' = aState /\ aState[a] \in SettledStates
      BY <1>8 DEF ReconcileUnknown, lifeVars
    <3>5. OpenUnresolved'
      <4>1. Active' = Active /\ a \notin Active /\ Active \subseteq Attempts
        BY <3>4 DEF Active, ActiveStates, SettledStates
      <4>2. \A b \in Attempts \ {a} : resv'[b] = resv[b]
        BY <3>1 DEF Resolves, Resolution
      <4> QED BY <4>1, <4>2 DEF ChargeInv, OpenUnresolved
    <3> QED BY <3>3, <3>5 DEF ChargeInv
  <2> QED BY <2>1, <2>2
<1>9. ASSUME NEW S \in SUBSET Attempts, NEW amount, resv' = RespentReservations(S, amount), aState' = aState
      PROVE  OpenUnresolved'
  <2>1. ASSUME NEW a \in Active, NEW p \in Policies PROVE resv'[a][p] = resv[a][p]
    <3>1. a \in Attempts /\ resv[a][p].state # "uncertain"
      BY DEF ChargeInv, OpenUnresolved, Active
    <3> QED BY <1>9, <3>1 DEF RespentReservations, SpendResolved
  <2>2. Active' = Active
    BY <1>9 DEF Active
  <2> QED BY <2>1, <2>2 DEF ChargeInv, OpenUnresolved
<1>10. ASSUME NEW c \in Connections, NEW from \in Times, NEW to \in 1..MaxTime + 1, ApplyReprice(c, from, to)
       PROVE  ChargeInv'
  <2> DEFINE items == {a \in Attempts : /\ aConn[a] = c /\ aStart[a] >= from /\ aStart[a] < to
                                        /\ usage[a].tokens # Unknown /\ usage[a].status # "unknown"
                                        /\ catalog[aStart[a]] # Unknown}
             amount == [a \in items |-> CostOf(catalog[aStart[a]], usage[a].tokens) + ledger[a].adjusted]
             applied == {a \in items : <<a, catalog[aStart[a]], "restated">> \notin assessed}
  <2>1. /\ quota' = RespentQuota(applied, amount) /\ resv' = RespentReservations(applied, amount) /\ aState' = aState
        /\ usage' = [a \in Attempts |-> IF a \in applied THEN [usage[a] EXCEPT !.cost = amount[a]] ELSE usage[a]]
    BY <1>10 DEF ApplyReprice, lifeVars
  <2>2. ASSUME NEW a \in applied PROVE amount[a] \in Int
    <3>1. /\ a \in Attempts /\ catalog[aStart[a]] # Unknown /\ usage[a].tokens # Unknown
          /\ amount[a] = CostOf(catalog[aStart[a]], usage[a].tokens) + ledger[a].adjusted
      OBVIOUS
    <3>2. catalog[aStart[a]] \in Prices \cup {Unknown} /\ usage[a].tokens \in Amount /\ ledger[a].adjusted \in Int
      BY <3>1 DEF FactInv, FactTypeOK, LifeInv, LifeTypeOK, UsageRow, LedgerRow
    <3>3. CostOf(catalog[aStart[a]], usage[a].tokens) \in Int
      BY <3>1, <3>2, CostFacts
    <3> HIDE DEF applied, amount
    <3> QED BY <3>1, <3>2, <3>3
  <2>3. applied \in SUBSET Attempts
    OBVIOUS
  <2> HIDE DEF applied, amount
  <2>4. \A a \in Attempts : usage[a] \in UsageRow
    BY DEF FactInv, FactTypeOK
  <2>5. /\ \A a \in Attempts : usage'[a].tokens = usage[a].tokens
        /\ \A a \in applied : usage'[a].cost = amount[a]
        /\ \A a \in Attempts \ applied : usage'[a].cost = usage[a].cost
    BY <2>1, <2>3, <2>4 DEF UsageRow
  <2>6. ConsumedOK'
    BY <2>1, <2>2, <2>3, <2>5, RespendCharges DEF ChargeInv
  <2> QED BY <1>9, <2>1, <2>3, <2>6 DEF ChargeInv
<1>11. ASSUME NEW a \in Attempts, NEW delta \in Deltas, AdjustCost(a, delta) PROVE ChargeInv'
  <2> DEFINE next == [b \in {a} |-> OrZero(usage[b].cost) + delta]
             S == {a}
  <2>1. /\ quota' = RespentQuota(S, next) /\ resv' = RespentReservations(S, next) /\ aState' = aState
        /\ usage' = [usage EXCEPT ![a].cost = next[a]]
    BY <1>11 DEF AdjustCost, lifeVars
  <2>2. delta \in Int /\ OrZero(usage[a].cost) \in Int
    BY AmountsAssumption, OrZeroFacts DEF FactInv, FactTypeOK, UsageRow
  <2>3. \A b \in S : next[b] \in Int
    BY <2>2
  <2>4. S \in SUBSET Attempts /\ S = {a}
    OBVIOUS
  <2> HIDE DEF S, next
  <2>5. /\ \A b \in Attempts : usage'[b].tokens = usage[b].tokens
        /\ \A b \in S : usage'[b].cost = next[b]
        /\ \A b \in Attempts \ S : usage'[b].cost = usage[b].cost
    BY <2>1, <2>4 DEF FactInv, FactTypeOK, UsageRow
  <2>6. ConsumedOK'
    BY <2>1, <2>3, <2>4, <2>5, RespendCharges DEF ChargeInv
  <2> QED BY <1>9, <2>1, <2>4, <2>6 DEF ChargeInv
<1>12. ASSUME NEW r \in Requests, CloseFailedRequest(r) \/ \E state \in Outcomes : FinalizeRequest(r, state)
       PROVE  ChargeInv'
  BY <1>12, <1>3 DEF CloseFailedRequest, FinalizeRequest, counterVars, factVars
<1>13. ASSUME NEW S \in SUBSET Requests, RepairStaleRequests(S) PROVE ChargeInv'
  BY <1>13, <1>3 DEF RepairStaleRequests, counterVars, factVars
<1>14. CASE \/ \E p \in Policies : \E setting \in Settings[p] : UpdatePolicy(p, setting)
            \/ \E v \in Prices, from \in Times : CreatePrice(v, from)
            \/ \E g \in Grants : ChangeGrants(g)
            \/ Deliver
            \/ UNCHANGED vars
  <2>1. UNCHANGED <<aState, quota, resv, usage>>
    BY <1>14 DEF UpdatePolicy, CreatePrice, ChangeGrants, Deliver, vars, lifeVars, counterVars, factVars
  <2> QED BY <2>1, <1>3
<1> QED
  BY <1>1, <1>4, <1>5, <1>6, <1>7, <1>8, <1>10, <1>11, <1>12, <1>13, <1>14 DEF Next

\* The settled attempts of a period are the ones with a charge in it.
LEMMA ChargedPeriods == FactInv /\ ConsumedOK => PeriodsRestateUsage
<1> SUFFICES ASSUME FactInv, ConsumedOK, NEW p \in Policies, NEW t \in Times,
                    Metric[p] \in {"spend", "tokens"}, Algorithm[p] # "token_bucket"
             PROVE  quota[p][t].consumed =
                      SumFunctionOnSet([a \in Attempts |-> Charged(p, usage[a])],
                                       {a \in Attempts : resv[a][p].state = "settled" /\ resv[a][p].period = t})
  BY DEF PeriodsRestateUsage
<1> DEFINE g == [a \in Attempts |-> Charged(p, usage[a])]
           T == {a \in Attempts : resv[a][p].state = "settled" /\ resv[a][p].period = t}
           f == Charges(p, t)
<1>1. quota[p][t].consumed = Sum(f, Attempts)
  BY DEF ConsumedOK, Metered
<1>2. \A a \in Attempts : g[a] \in Int
  BY ChargedFacts DEF FactInv, FactTypeOK
<1>3. T \in SUBSET Attempts /\ \A a \in T : g[a] \in Int /\ f[a] = g[a]
  BY <1>2 DEF Charges, ChargeOf
<1>4. \A a \in Attempts \ T : f[a] = 0
  BY DEF Charges, ChargeOf
<1> HIDE DEF f, g, T
<1>5. Sum(f, Attempts) = Sum(g, T)
  BY <1>3, <1>4, AttemptsAssumption, SumPart
<1> QED BY <1>1, <1>5 DEF Sum, g, T

\* For every set of policies, attempts and prices: whatever is admitted,
\* settled, repriced, adjusted or interrupted, and in whatever order, a period
\* shows the tokens and the spend of the settled attempts admitted in it, as
\* long as no reconciliation restates an attempt whose reservation is settled.
THEOREM PeriodsFollowUsage == Spec /\ [][~RestatesSettled]_vars => []PeriodsRestateUsage
<1> DEFINE Inv == LifeInv /\ OutboxRoom /\ FactInv /\ QuotaInv /\ ChargeInv
<1>1. Init => Inv
  BY InitLife, InitRoom, InitFacts, InitQuota, InitCharges
<1>2. Inv /\ [Next]_vars /\ [~RestatesSettled]_vars => Inv'
  <2> SUFFICES ASSUME LifeInv, OutboxRoom, FactInv, QuotaInv, ChargeInv, [Next]_vars, [~RestatesSettled]_vars
               PROVE  Inv'
    OBVIOUS
  <2>1. LifeInv' /\ OutboxRoom'
    BY Step
  <2>2. FactInv' /\ QuotaInv'
    BY FactStep, QuotaStep
  <2>3. UNCHANGED vars \/ ~RestatesSettled
    OBVIOUS
  <2>4. ChargeInv'
    BY <2>1, <2>2, <2>3, ChargeStep
  <2> QED BY <2>1, <2>2, <2>4
<1>3. Inv => PeriodsRestateUsage
  BY ChargedPeriods DEF ChargeInv
<1> QED BY <1>1, <1>2, <1>3, PTL DEF Spec

-----------------------------------------------------------------------------
(* Token buckets. *)

\* The owner keeps the capacity of each bucket, and does not switch a bucket
\* that counts requests off; the one of tokens may be switched at will.
BucketsAreFixed ==
  \A p \in Policies : Algorithm[p] = "token_bucket" =>
    \E n \in Nat : \A setting \in Settings[p] : /\ setting.limit = n
                                                /\ Metric[p] = "requests" => setting.enabled = TRUE

BucketRow == [exists : BOOLEAN, remaining : Int, remainder : Nat, at : Nat]
Bucketed(p) == Algorithm[p] = "token_bucket"

\* What an attempt has taken out of bucket p and not given back.
UseOf(p, row, facts) ==
  IF row.state \in {"active", "uncertain"} THEN row.units
  ELSE IF row.state = "settled" THEN Charged(p, facts) ELSE 0
Uses(p) == [a \in Attempts |-> UseOf(p, resv[a][p], usage[a])]
Used(p) == IF Metric[p] = "requests" THEN Cardinality(Counted(p)) ELSE Sum(Uses(p), Attempts)

\* A bucket row and what was taken out of it stay within the capacity and the
\* refill since the epoch, in parts of a unit.
Bounded(p, row, used, limit) ==
  (row.remaining + used) * Interval[p] + row.remainder <= limit * Interval[p] + row.at * Refill[p]

\* Reservations of a bucket have no period; nothing was taken out of a bucket
\* that does not exist yet.
BucketOK(p) ==
  /\ \A a \in Attempts : resv[a][p].period = 0
  /\ Metric[p] = "requests" => IsFiniteSet(Counted(p))
  /\ ~bucket[p].exists => IF Metric[p] = "requests" THEN Counted(p) = {}
                          ELSE \A a \in Attempts : resv[a][p].state = "none"
  /\ bucket[p].exists => Bounded(p, bucket[p], Used(p), policy[p].limit)
BucketInv == PolicyOK /\ bucket \in [Policies -> BucketRow] /\ \A p \in Policies : Bucketed(p) => BucketOK(p)

LEMMA FixedBucketFacts ==
  ASSUME BucketsAreFixed, PolicyOK, PolicyOK', NEW p \in Policies, Bucketed(p)
  PROVE  /\ policy[p].limit \in Nat /\ policy'[p].limit = policy[p].limit
         /\ Metric[p] = "requests" => On(p)
<1>1. PICK n \in Nat : \A setting \in Settings[p] : /\ setting.limit = n
                                                    /\ Metric[p] = "requests" => setting.enabled = TRUE
  BY DEF BucketsAreFixed, Bucketed
<1>2. policy[p] \in Settings[p] /\ policy'[p] \in Settings[p]
  BY DEF PolicyOK
<1> QED BY <1>1, <1>2 DEF On

LEMMA RateFacts ==
  ASSUME NEW p \in Policies, Bucketed(p)
  PROVE  /\ Interval[p] \in Nat \ {0} /\ Refill[p] \in Nat \ {0}
         /\ Metric[p] \in {"requests", "tokens"}
  BY PoliciesAssumption DEF Bucketed

\* Division with remainder, and products of sums.
LEMMA DivFacts ==
  ASSUME NEW n \in Nat, NEW k \in Nat \ {0}
  PROVE  n \div k \in Nat /\ n % k \in Nat /\ n = (n \div k) * k + (n % k)
<1>1. n % k \in 0..(k - 1)
  OBVIOUS
<1>2. n = k * (n \div k) + (n % k)
  OBVIOUS
<1>3. n \div k \in Nat
  OBVIOUS
<1> QED BY <1>1, <1>2, <1>3

LEMMA ProductFacts ==
  ASSUME NEW x \in Int, NEW y \in Int, NEW k \in Nat
  PROVE  (x + y) * k = x * k + y * k /\ (x <= y => x * k <= y * k) /\ x * k \in Int
  OBVIOUS

\* Giving units back, up to the capacity, keeps the bound.
LEMMA GivenBack ==
  ASSUME NEW p \in Policies, Bucketed(p), NEW row \in BucketRow, NEW used \in Int, NEW x \in Int, NEW limit \in Nat,
         NEW next, next = [row EXCEPT !.remaining = Smaller(limit, @ + x)]
  PROVE  /\ next \in BucketRow /\ next.exists = row.exists
         /\ Bounded(p, row, used, limit) => Bounded(p, next, used - x, limit)
<1>1. /\ row.remaining \in Int /\ row.remainder \in Nat /\ row.at \in Nat
      /\ Interval[p] \in Nat /\ Refill[p] \in Nat
  BY RateFacts DEF BucketRow
<1>2. Smaller(limit, row.remaining + x) \in Int /\ Smaller(limit, row.remaining + x) <= row.remaining + x
  BY <1>1 DEF Smaller
<1>3. /\ next \in BucketRow /\ next.exists = row.exists /\ next.remainder = row.remainder /\ next.at = row.at
      /\ next.remaining = Smaller(limit, row.remaining + x)
  BY <1>2 DEF BucketRow
<1> DEFINE before == row.remaining + used
           after == next.remaining + (used - x)
<1>4. after <= before /\ after \in Int /\ before \in Int
  BY <1>1, <1>2, <1>3
<1> HIDE DEF before, after
<1>5. after * Interval[p] <= before * Interval[p] /\ after * Interval[p] \in Int /\ before * Interval[p] \in Int
  BY <1>1, <1>4, ProductFacts
<1>6. limit * Interval[p] \in Int /\ row.at * Refill[p] \in Int
  BY <1>1
<1>7. Bounded(p, row, used, limit) => Bounded(p, next, used - x, limit)
  <2>1. /\ Bounded(p, row, used, limit) <=> before * Interval[p] + row.remainder <= limit * Interval[p] + row.at * Refill[p]
        /\ Bounded(p, next, used - x, limit) <=> after * Interval[p] + row.remainder <= limit * Interval[p] + row.at * Refill[p]
    BY <1>3 DEF Bounded, before, after
  <2> QED BY <1>1, <1>5, <1>6, <2>1
<1> QED BY <1>3, <1>7

\* A refill credits what the elapsed time is worth, no more.
LEMMA Refilled ==
  ASSUME NEW p \in Policies, Bucketed(p), bucket[p] \in BucketRow, policy[p].limit \in Nat,
         NEW now \in Nat, NEW used \in Int,
         bucket[p].exists => Bounded(p, bucket[p], used, policy[p].limit), ~bucket[p].exists => used = 0
  PROVE  /\ BucketAt(p, now) \in BucketRow /\ BucketAt(p, now).exists
         /\ Bounded(p, BucketAt(p, now), used, policy[p].limit)
<1> DEFINE limit == policy[p].limit
           row == IF bucket[p].exists THEN bucket[p]
                  ELSE [exists |-> TRUE, remaining |-> limit, remainder |-> 0, at |-> now]
           at == Larger(now, row.at)
           credit == (at - row.at) * Refill[p] + row.remainder
           units == credit \div Interval[p]
           left == credit % Interval[p]
           next == IF row.remaining + units >= limit
                   THEN [exists |-> TRUE, remaining |-> limit, remainder |-> 0, at |-> at]
                   ELSE [exists |-> TRUE, remaining |-> row.remaining + units, remainder |-> left, at |-> at]
<1>1. next = BucketAt(p, now)
  BY DEF BucketAt, RefillAmount
<1>2. limit \in Nat /\ Interval[p] \in Nat \ {0} /\ Refill[p] \in Nat
  BY RateFacts
<1>3. row \in BucketRow /\ row.remaining \in Int /\ row.remainder \in Nat /\ row.at \in Nat
  BY <1>2 DEF BucketRow
<1>4. Bounded(p, row, used, limit)
  <2>1. CASE bucket[p].exists
    BY <2>1
  <2>2. CASE ~bucket[p].exists
    <3>1. row.remaining = limit /\ row.remainder = 0 /\ row.at = now /\ used = 0
      BY <2>2
    <3> HIDE DEF row, limit
    <3>2. limit * Interval[p] \in Int /\ now * Refill[p] \in Nat
      BY <1>2, <3>1
    <3> QED BY <1>2, <3>1, <3>2 DEF Bounded
  <2> QED BY <2>1, <2>2
<1> HIDE DEF row, limit
<1>5. at \in Nat /\ at >= row.at
  BY <1>3 DEF Larger
<1> HIDE DEF at
<1>6. /\ credit \in Nat /\ (at - row.at) * Refill[p] \in Nat
      /\ at * Refill[p] = row.at * Refill[p] + (at - row.at) * Refill[p]
      /\ row.at * Refill[p] \in Nat /\ at * Refill[p] \in Nat
  <2>1. at - row.at \in Nat
    BY <1>3, <1>5
  <2>2. (at - row.at) * Refill[p] \in Nat /\ row.at * Refill[p] \in Nat /\ at * Refill[p] \in Nat
    BY <1>2, <1>3, <1>5, <2>1
  <2>3. (row.at + (at - row.at)) * Refill[p] = row.at * Refill[p] + (at - row.at) * Refill[p]
    BY <1>2, <1>3, <2>1, ProductFacts
  <2>4. row.at + (at - row.at) = at
    BY <1>3, <1>5
  <2> QED BY <1>3, <2>2, <2>3, <2>4
<1>7. units \in Nat /\ left \in Nat /\ credit = units * Interval[p] + left
  <2> HIDE DEF credit
  <2> QED BY <1>2, <1>6, DivFacts
<1>8. credit = (at - row.at) * Refill[p] + row.remainder
  OBVIOUS
<1> HIDE DEF credit, units, left
<1>9. next \in BucketRow /\ next.exists
  BY <1>2, <1>3, <1>5, <1>7 DEF BucketRow
<1>10. /\ next.at = at /\ next.remaining \in Int /\ next.remainder \in Nat
       /\ \/ next.remaining <= row.remaining + units /\ next.remainder = 0
          \/ next.remaining = row.remaining + units /\ next.remainder = left
  BY <1>2, <1>3, <1>7
<1> HIDE DEF next
<1>11. (next.remaining + used) * Interval[p] + next.remainder <= (row.remaining + units + used) * Interval[p] + left
  <2>1. next.remaining + used <= row.remaining + units + used
    BY <1>3, <1>7, <1>10
  <2>2. /\ (next.remaining + used) * Interval[p] <= (row.remaining + units + used) * Interval[p]
        /\ (next.remaining + used) * Interval[p] \in Int /\ (row.remaining + units + used) * Interval[p] \in Int
    BY <1>2, <1>3, <1>7, <1>10, <2>1, ProductFacts
  <2> QED BY <1>7, <1>10, <2>2
<1>12. /\ (row.remaining + units + used) * Interval[p] = (row.remaining + used) * Interval[p] + units * Interval[p]
       /\ (row.remaining + used) * Interval[p] \in Int /\ units * Interval[p] \in Int /\ limit * Interval[p] \in Int
  <2>1. row.remaining + units + used = (row.remaining + used) + units /\ row.remaining + used \in Int
    BY <1>3, <1>7
  <2> QED BY <1>2, <1>7, <2>1, ProductFacts
<1>13. (row.remaining + used) * Interval[p] + row.remainder <= limit * Interval[p] + row.at * Refill[p]
  BY <1>4 DEF Bounded
<1>14. (next.remaining + used) * Interval[p] + next.remainder <= limit * Interval[p] + at * Refill[p]
  <2>1. (next.remaining + used) * Interval[p] + next.remainder \in Int
    BY <1>2, <1>10, ProductFacts
  <2> QED BY <1>3, <1>6, <1>7, <1>8, <1>11, <1>12, <1>13, <2>1
<1>15. Bounded(p, next, used, limit)
  BY <1>10, <1>14 DEF Bounded
<1> QED BY <1>1, <1>9, <1>15 DEF limit

\* Taking units out moves them from what is left to what is used.
LEMMA TakenOut ==
  ASSUME NEW p, NEW row \in BucketRow, NEW used \in Int, NEW x \in Int, NEW limit,
         NEW next, next = [row EXCEPT !.remaining = @ - x]
  PROVE  /\ next \in BucketRow /\ next.exists = row.exists
         /\ Bounded(p, row, used, limit) => Bounded(p, next, used + x, limit)
<1>1. /\ next.exists = row.exists /\ next.remainder = row.remainder /\ next.at = row.at
      /\ next.remaining = row.remaining - x /\ row.remaining \in Int /\ next \in BucketRow
  BY DEF BucketRow
<1>2. next.remaining + (used + x) = row.remaining + used
  BY <1>1
<1> QED BY <1>1, <1>2 DEF Bounded

\* Taking the terms of T out of a sum.
LEMMA SumLess ==
  ASSUME NEW f, NEW g, NEW u, NEW S, IsFiniteSet(S), NEW T \in SUBSET S,
         \A x \in T : f[x] \in Int /\ u[x] = f[x] /\ g[x] = 0,
         \A x \in S \ T : f[x] \in Int /\ g[x] = f[x]
  PROVE  Sum(u, T) \in Int /\ Sum(f, S) \in Int /\ Sum(g, S) = Sum(f, S) - Sum(u, T)
<1>1. IsFiniteSet(T) /\ IsFiniteSet(S \ T) /\ T \cap (S \ T) = {} /\ T \cup (S \ T) = S
  BY FS_Subset
<1>2. \A x \in S : f[x] \in Int
  OBVIOUS
<1>3. Sum(f, S) = Sum(f, T) + Sum(f, S \ T)
  <2>1. Sum(f, T \cup (S \ T)) = Sum(f, T) + Sum(f, S \ T)
    BY <1>1, <1>2, SumDisjoint
  <2> QED BY <1>1, <2>1
<1>4. Sum(g, S) = Sum(f, S \ T)
  <2>1. S \ T \in SUBSET S /\ \A x \in S \ (S \ T) : g[x] = 0
    OBVIOUS
  <2> QED BY <1>2, <2>1, SumPart
<1>5. Sum(u, T) = Sum(f, T)
  BY <1>1, SumSame
<1>6. Sum(f, T) \in Int /\ Sum(f, S \ T) \in Int
  BY <1>1, <1>2, SumType
<1> QED BY <1>3, <1>4, <1>5, <1>6

TokenBucket(p) == Bucketed(p) /\ Metric[p] = "tokens"

LEMMA UseOfFacts ==
  ASSUME NEW p \in Policies, NEW row \in ResvRow, NEW facts \in UsageRow
  PROVE  /\ UseOf(p, row, facts) \in Int
         /\ row.state \in {"active", "uncertain"} => UseOf(p, row, facts) = row.units
         /\ row.state = "settled" => UseOf(p, row, facts) = Charged(p, facts)
         /\ row.state \in {"none", "released"} => UseOf(p, row, facts) = 0
<1>1. row.units \in Int /\ row.state \in ResvStates
  BY DEF ResvRow
<1>2. Charged(p, facts) \in Int
  BY ChargedFacts
<1> HIDE DEF ResvRow, UsageRow
<1> QED BY <1>1, <1>2 DEF UseOf

\* The use of every attempt of a bucket, and their sum, are integers.
LEMMA UsedFacts ==
  ASSUME FactTypeOK, ResvOK, NEW p \in Policies
  PROVE  (\A a \in Attempts : Uses(p)[a] \in Int) /\ Sum(Uses(p), Attempts) \in Int
<1>1. \A a \in Attempts : Uses(p)[a] \in Int
  <2> SUFFICES ASSUME NEW a \in Attempts PROVE UseOf(p, resv[a][p], usage[a]) \in Int
    BY DEF Uses
  <2>1. resv[a][p] \in ResvRow /\ usage[a] \in UsageRow
    BY DEF ResvOK, FactTypeOK
  <2> QED BY <2>1, UseOfFacts
<1> QED BY <1>1, AttemptsAssumption, SumType

\* Before the first admission no bucket exists.
LEMMA InitBuckets == Init => BucketInv
<1> SUFFICES ASSUME Init PROVE BucketInv
  OBVIOUS
<1>1. PolicyOK
  BY DEF Init, PolicyOK
<1>2. bucket \in [Policies -> BucketRow] /\ \A p \in Policies : ~bucket[p].exists
  <2>1. bucket = [p \in Policies |-> [exists |-> FALSE, remaining |-> 0, remainder |-> 0, at |-> 0]]
    BY DEF Init
  <2> QED BY <2>1 DEF BucketRow
<1>3. \A a \in Attempts, p \in Policies : resv[a][p].state = "none" /\ resv[a][p].period = 0
  BY DEF Init, NoReservation
<1>4. \A p \in Policies : Counted(p) = {}
  BY DEF Init, Counted
<1>5. IsFiniteSet({})
  BY FS_EmptySet
<1> QED BY <1>1, <1>2, <1>3, <1>4, <1>5 DEF BucketInv, BucketOK

\* A reservation row that stays or at most changes its state once it was made.
SameRow(old, new) == new = old \/ (old.state # "none" /\ \E st \in ResvStates : new = [old EXCEPT !.state = st])

\* What any operation but an admission does to a bucket: nothing, or it gives
\* back as much (or as little) as the attempts give up.
BucketMoves(p) ==
  \/ /\ bucket'[p] = bucket[p]
     /\ TokenBucket(p) => \A a \in Attempts : UseOf(p, resv'[a][p], usage'[a]) = UseOf(p, resv[a][p], usage[a])
  \/ /\ TokenBucket(p)
     /\ \E x \in Int : /\ bucket'[p] = [bucket[p] EXCEPT !.remaining = Smaller(policy[p].limit, @ + x)]
                       /\ Sum(Uses(p)', Attempts) = Sum(Uses(p), Attempts) - x

LEMMA BucketKept ==
  ASSUME BucketsAreFixed, BucketInv, PolicyOK', FactTypeOK, QuotaInv, RowsStay,
         bucket' = [p \in Policies |-> bucket'[p]],
         \A p \in Policies : BucketMoves(p),
         \A a \in Attempts, p \in Policies : SameRow(resv[a][p], resv'[a][p])
  PROVE  BucketInv'
<1>1. ASSUME NEW p \in Policies PROVE bucket'[p] \in BucketRow /\ bucket'[p].exists = bucket[p].exists
  <2>1. bucket[p] \in BucketRow
    BY DEF BucketInv
  <2>2. CASE bucket'[p] = bucket[p]
    BY <2>1, <2>2
  <2>3. CASE TokenBucket(p) /\ \E x \in Int : bucket'[p] = [bucket[p] EXCEPT !.remaining = Smaller(policy[p].limit, @ + x)]
    <3>1. policy[p].limit \in Int
      BY <2>3, FixedBucketFacts DEF TokenBucket, BucketInv
    <3> QED BY <2>1, <2>3, <3>1 DEF BucketRow, Smaller
  <2> QED BY <2>2, <2>3 DEF BucketMoves
<1>2. bucket' \in [Policies -> BucketRow]
  <2> HIDE DEF BucketRow
  <2>1. \A p \in Policies : bucket'[p] \in BucketRow
    BY <1>1
  <2> QED BY <2>1
<1>3. ASSUME NEW p \in Policies, Bucketed(p) PROVE BucketOK(p)'
  <2>1. BucketOK(p) /\ bucket[p] \in BucketRow
    BY <1>3 DEF BucketInv
  <2>2. policy[p].limit \in Nat /\ policy'[p].limit = policy[p].limit
    BY <1>3, FixedBucketFacts DEF BucketInv
  <2>3. Counted(p)' = Counted(p)
    BY CountedSame DEF RowsStay
  <2>4. ASSUME NEW a \in Attempts
        PROVE resv'[a][p].period = 0 /\ (resv[a][p].state = "none" => resv'[a][p].state = "none")
    <3>1. resv[a][p] \in ResvRow /\ SameRow(resv[a][p], resv'[a][p]) /\ resv[a][p].period = 0
      BY <2>1 DEF QuotaInv, ResvOK, BucketOK
    <3> DEFINE old == resv[a][p]
               new == resv'[a][p]
    <3> HIDE DEF old, new
    <3>2. old \in ResvRow /\ SameRow(old, new) /\ old.period = 0 => new.period = 0 /\ (old.state = "none" => new.state = "none")
      BY DEF SameRow, ResvRow
    <3> QED BY <3>1, <3>2 DEF old, new
  <2>5. bucket'[p].exists = bucket[p].exists
    BY <1>1
  <2>6. ASSUME bucket'[p].exists PROVE Bounded(p, bucket'[p], Used(p)', policy'[p].limit)
    <3>1. Bounded(p, bucket[p], Used(p), policy[p].limit)
      BY <2>1, <2>5, <2>6 DEF BucketOK
    <3>2. CASE Metric[p] = "requests"
      <4>1. bucket'[p] = bucket[p]
        BY <3>2 DEF BucketMoves, TokenBucket
      <4>2. Used(p)' = Used(p)
        BY <2>3, <3>2 DEF Used
      <4> QED BY <2>2, <3>1, <4>1, <4>2
    <3>3. CASE Metric[p] # "requests"
      <4>1. TokenBucket(p)
        BY <1>3, <3>3, RateFacts DEF TokenBucket
      <4>2. Used(p) = Sum(Uses(p), Attempts) /\ Used(p)' = Sum(Uses(p)', Attempts)
        BY <3>3 DEF Used
      <4>3. Sum(Uses(p), Attempts) \in Int
        BY UsedFacts DEF QuotaInv
      <4>4. CASE /\ bucket'[p] = bucket[p]
                 /\ \A a \in Attempts : UseOf(p, resv'[a][p], usage'[a]) = UseOf(p, resv[a][p], usage[a])
        <5>1. Uses(p)' = Uses(p)
          BY <4>4 DEF Uses, UseOf, Charged
        <5> QED BY <2>2, <3>1, <4>2, <4>4, <5>1
      <4>5. CASE \E x \in Int : /\ bucket'[p] = [bucket[p] EXCEPT !.remaining = Smaller(policy[p].limit, @ + x)]
                                /\ Sum(Uses(p)', Attempts) = Sum(Uses(p), Attempts) - x
        <5>1. PICK x \in Int : /\ bucket'[p] = [bucket[p] EXCEPT !.remaining = Smaller(policy[p].limit, @ + x)]
                               /\ Sum(Uses(p)', Attempts) = Sum(Uses(p), Attempts) - x
          BY <4>5
        <5> DEFINE used == Sum(Uses(p), Attempts)
                   limit == policy[p].limit
        <5>2. used \in Int /\ limit \in Nat /\ bucket'[p] = [bucket[p] EXCEPT !.remaining = Smaller(limit, @ + x)]
          BY <2>2, <4>3, <5>1
        <5> HIDE DEF used, limit
        <5>3. Bounded(p, bucket[p], used, limit) => Bounded(p, bucket'[p], used - x, limit)
          BY <1>3, <2>1, <5>2, GivenBack
        <5> QED BY <2>2, <3>1, <4>2, <5>1, <5>3 DEF used, limit
      <4> QED BY <4>1, <4>4, <4>5 DEF BucketMoves
    <3> QED BY <3>2, <3>3
  <2>7. ASSUME ~bucket'[p].exists
        PROVE  IF Metric[p] = "requests" THEN Counted(p)' = {} ELSE \A a \in Attempts : resv'[a][p].state = "none"
    BY <2>1, <2>3, <2>4, <2>5, <2>7 DEF BucketOK
  <2>8. Metric[p] = "requests" => IsFiniteSet(Counted(p)')
    BY <2>1, <2>3 DEF BucketOK
  <2> QED BY <2>4, <2>6, <2>7, <2>8 DEF BucketOK
<1>4. \A p \in Policies : Bucketed(p)' = Bucketed(p)
  BY DEF Bucketed
<1> QED BY <1>2, <1>3, <1>4 DEF BucketInv, Bucketed

\* A release gives a bucket back exactly the active reservations it closes; an
\* interrupted attempt keeps its own.
LEMMA BucketReleased ==
  ASSUME BucketInv, FactTypeOK, QuotaInv, NEW S \in SUBSET Attempts, NEW U \in SUBSET Attempts, S \cap U = {},
         bucket' = ReleasedBucket(S),
         resv' = [a \in Attempts |-> IF a \in U THEN Moved(U, "active", "uncertain")[a]
                                     ELSE Moved(S, "active", "released")[a]],
         \A a \in Attempts : usage'[a].tokens = usage[a].tokens /\ usage'[a].cost = usage[a].cost
  PROVE  /\ \A p \in Policies : BucketMoves(p)
         /\ \A a \in Attempts, p \in Policies : SameRow(resv[a][p], resv'[a][p])
<1>1. ASSUME NEW a \in Attempts, NEW p \in Policies
      PROVE  /\ resv[a][p] \in ResvRow
             /\ \/ resv'[a][p] = resv[a][p] /\ ~(a \in S /\ resv[a][p].state = "active")
                \/ /\ resv[a][p].state = "active" /\ a \notin S
                   /\ resv'[a][p] = [resv[a][p] EXCEPT !.state = "uncertain"]
                \/ /\ resv[a][p].state = "active" /\ a \in S
                   /\ resv'[a][p] = [resv[a][p] EXCEPT !.state = "released"]
  <2>1. resv[a] = [q \in Policies |-> resv[a][q]] /\ resv[a][p] \in ResvRow
    BY DEF QuotaInv, ResvOK
  <2>2. CASE a \in U
    <3>1. a \notin S
      BY <2>2
    <3> QED BY <2>1, <2>2, <3>1 DEF Moved
  <2>3. CASE a \notin U
    BY <2>1, <2>3 DEF Moved
  <2> QED BY <2>2, <2>3
<1>2. ASSUME NEW a \in Attempts, NEW p \in Policies PROVE SameRow(resv[a][p], resv'[a][p])
  <2>1. \/ resv'[a][p] = resv[a][p]
        \/ /\ resv[a][p].state = "active"
           /\ \E st \in {"uncertain", "released"} : resv'[a][p] = [resv[a][p] EXCEPT !.state = st]
    BY <1>1
  <2> QED BY <2>1 DEF SameRow, ResvStates
<1>3. ASSUME NEW a \in Attempts, NEW p \in Policies
      PROVE  IF a \in S /\ resv[a][p].state = "active"
             THEN UseOf(p, resv[a][p], usage[a]) = resv[a][p].units /\ UseOf(p, resv'[a][p], usage'[a]) = 0
             ELSE UseOf(p, resv'[a][p], usage'[a]) = UseOf(p, resv[a][p], usage[a])
  <2> DEFINE old == resv[a][p]
             new == resv'[a][p]
  <2>1. /\ old \in ResvRow
        /\ \/ new = old /\ ~(a \in S /\ old.state = "active")
           \/ old.state = "active" /\ a \notin S /\ new = [old EXCEPT !.state = "uncertain"]
           \/ old.state = "active" /\ a \in S /\ new = [old EXCEPT !.state = "released"]
    BY <1>1
  <2>2. Charged(p, usage'[a]) = Charged(p, usage[a])
    BY DEF Charged
  <2> HIDE DEF old, new
  <2>3. CASE new = old /\ ~(a \in S /\ old.state = "active")
    <3>1. UseOf(p, new, usage'[a]) = UseOf(p, old, usage[a])
      BY <2>2, <2>3 DEF UseOf
    <3> QED BY <2>3, <3>1 DEF old, new
  <2>4. CASE old.state = "active" /\ a \notin S /\ new = [old EXCEPT !.state = "uncertain"]
    <3>1. new.state = "uncertain" /\ new.units = old.units
      BY <2>1, <2>4 DEF ResvRow
    <3>2. UseOf(p, new, usage'[a]) = UseOf(p, old, usage[a])
      BY <2>4, <3>1 DEF UseOf
    <3> QED BY <2>4, <3>2 DEF old, new
  <2>5. CASE old.state = "active" /\ a \in S /\ new = [old EXCEPT !.state = "released"]
    <3>1. new.state = "released"
      BY <2>1, <2>5 DEF ResvRow
    <3>2. UseOf(p, new, usage'[a]) = 0 /\ UseOf(p, old, usage[a]) = old.units
      BY <2>5, <3>1 DEF UseOf
    <3> QED BY <2>5, <3>2 DEF old, new
  <2> QED BY <2>1, <2>3, <2>4, <2>5
<1>4. ASSUME NEW p \in Policies PROVE BucketMoves(p)
  <2> DEFINE T == {a \in S : resv[a][p].state = "active"}
             x == Held(S, p, 0, "active")
  <2>1. CASE T = {} \/ ~Bucketed(p)
    <3>1. bucket'[p] = bucket[p]
      BY <2>1 DEF ReleasedBucket, Bucketed
    <3>2. TokenBucket(p) => \A a \in Attempts : UseOf(p, resv'[a][p], usage'[a]) = UseOf(p, resv[a][p], usage[a])
      BY <1>3, <2>1 DEF TokenBucket
    <3> QED BY <3>1, <3>2 DEF BucketMoves
  <2>2. CASE T # {} /\ Bucketed(p)
    <3>1. PICK b \in S : resv[b][p].state = "active"
      BY <2>2
    <3>2. Reserves(p)
      BY <3>1 DEF QuotaInv, ResvOK
    <3>3. TokenBucket(p)
      BY <2>2, <3>2, RateFacts DEF TokenBucket, Reserves
    <3>4. bucket'[p] = [bucket[p] EXCEPT !.remaining = Smaller(policy[p].limit, @ + x)]
      BY <2>2, <3>1 DEF ReleasedBucket, Bucketed
    <3> DEFINE f == Uses(p)
               g == [a \in Attempts |-> UseOf(p, resv'[a][p], usage'[a])]
               u == [a \in Attempts |-> resv[a][p].units]
    <3>5. x = Sum(u, T)
      <4>1. {a \in S : resv[a][p].state = "active" /\ resv[a][p].period = 0} = T
        BY <2>2 DEF BucketInv, BucketOK
      <4> QED BY <4>1 DEF Held, Sum
    <3>6. \A a \in Attempts : f[a] \in Int
      BY UsedFacts DEF QuotaInv
    <3>7. /\ \A a \in T : u[a] = f[a] /\ g[a] = 0
          /\ \A a \in Attempts \ T : g[a] = f[a]
      BY <1>3 DEF Uses
    <3>8. T \in SUBSET Attempts
      OBVIOUS
    <3>9. g = Uses(p)'
      BY DEF Uses, UseOf, Charged
    <3> HIDE DEF T, x, f, g, u
    <3>10. Sum(u, T) \in Int /\ Sum(g, Attempts) = Sum(f, Attempts) - Sum(u, T)
      <4>1. /\ \A a \in T : f[a] \in Int /\ u[a] = f[a] /\ g[a] = 0
            /\ \A a \in Attempts \ T : f[a] \in Int /\ g[a] = f[a]
        BY <3>6, <3>7, <3>8
      <4> QED BY <3>8, <4>1, AttemptsAssumption, SumLess
    <3> QED BY <3>3, <3>4, <3>5, <3>9, <3>10 DEF BucketMoves, f
  <2> QED BY <2>1, <2>2
<1> QED BY <1>2, <1>4

\* A resolution replaces what was reserved by what the row now shows; a settled
\* reservation that stays must be charged what it was.
LEMMA BucketResolved ==
  ASSUME BucketInv, BucketsAreFixed, FactTypeOK, FactTypeOK', QuotaInv, QuotaInv', NEW a \in Attempts, NEW ps, NEW tokens, NEW cost,
         Resolves(a, ps, tokens, cost),
         \A p \in Policies \ ps : resv[a][p].state # "settled" \/ Charged(p, usage'[a]) = Charged(p, usage[a])
  PROVE  /\ \A p \in Policies : BucketMoves(p)
         /\ \A b \in Attempts, p \in Policies : SameRow(resv[b][p], resv'[b][p])
<1> USE DEF Resolves, Resolution
<1>1. \A b \in Attempts, p \in Policies : resv[b][p] \in ResvRow
  BY DEF QuotaInv, ResvOK
<1>2. ASSUME NEW b \in Attempts, NEW p \in Policies PROVE SameRow(resv[b][p], resv'[b][p])
  <2>1. \/ resv'[b][p] = resv[b][p]
        \/ /\ resv[b][p].state \in {"active", "uncertain"}
           /\ \E st \in {"settled", "uncertain"} : resv'[b][p] = [resv[b][p] EXCEPT !.state = st]
    BY <1>1
  <2> QED BY <2>1 DEF SameRow, ResvStates
<1>3. ASSUME NEW p \in Policies PROVE BucketMoves(p)
  <2> DEFINE old == resv[a][p]
             new == resv'[a][p]
             spent == SettlementUnits(p, tokens, cost)
  <2>1. \A b \in Attempts \ {a} : UseOf(p, resv'[b][p], usage'[b]) = UseOf(p, resv[b][p], usage[b])
    OBVIOUS
  <2>2. CASE p \notin ps
    <3>1. bucket'[p] = bucket[p]
      BY <2>2 DEF ResolvedBucket
    <3>2. old \in ResvRow /\ (new = old \/ (old.state = "active" /\ new = [old EXCEPT !.state = "uncertain"]))
      BY <1>1, <2>2
    <3>3. old.state # "settled" \/ Charged(p, usage'[a]) = Charged(p, usage[a])
      BY <2>2
    <3> HIDE DEF old, new
    <3>4. UseOf(p, new, usage'[a]) = UseOf(p, old, usage[a])
      <4>1. CASE new = old
        BY <3>3, <4>1 DEF UseOf
      <4>2. CASE old.state = "active" /\ new = [old EXCEPT !.state = "uncertain"]
        <5>1. new.state = "uncertain" /\ new.units = old.units
          BY <3>2, <4>2 DEF ResvRow
        <5> QED BY <4>2, <5>1 DEF UseOf
      <4> QED BY <3>2, <4>1, <4>2
    <3> QED BY <2>1, <3>1, <3>4 DEF BucketMoves, old, new
  <2>3. CASE p \in ps /\ ~Bucketed(p)
    BY <2>3 DEF ResolvedBucket, Bucketed, BucketMoves, TokenBucket
  <2>4. CASE p \in ps /\ Bucketed(p)
    <3>1. old \in ResvRow /\ old.state \in {"active", "uncertain"} /\ spent \in Int /\ new = [old EXCEPT !.state = "settled"]
      BY <1>1, <2>4
    <3>2. TokenBucket(p)
      <4>1. Reserves(p)
        BY <3>1 DEF QuotaInv, ResvOK
      <4> QED BY <2>4, <4>1, RateFacts DEF TokenBucket, Reserves
    <3>3. bucket'[p] = [bucket[p] EXCEPT !.remaining = Smaller(policy[p].limit, @ + old.units - spent)]
      BY <2>4 DEF ResolvedBucket, Bucketed
    <3>4. Charged(p, usage'[a]) = spent
      <4>1. spent = usage'[a].tokens /\ Metric[p] # "spend"
        BY <3>2 DEF TokenBucket, SettlementUnits
      <4>2. spent \in Amount
        BY <3>1 DEF Amount
      <4> QED BY <3>1, <4>1, <4>2, OrZeroFacts DEF Charged
    <3> HIDE DEF old, new, spent
    <3>5. old.units \in Int /\ new.state = "settled"
      BY <3>1 DEF ResvRow
    <3>6. UseOf(p, old, usage[a]) = old.units /\ UseOf(p, new, usage'[a]) = spent
      BY <3>1, <3>4, <3>5 DEF UseOf
    <3> DEFINE f == Uses(p)
               g == [b \in Attempts |-> UseOf(p, resv'[b][p], usage'[b])]
               x == old.units - spent
    <3>7. \A b \in Attempts : f[b] \in Int
      BY UsedFacts DEF QuotaInv
    <3>8. f[a] = old.units /\ g[a] = spent /\ \A b \in Attempts \ {a} : g[b] = f[b]
      BY <2>1, <3>6 DEF Uses, old, new
    <3>9. g = Uses(p)'
      BY DEF Uses, UseOf, Charged
    <3>10. \A b \in Attempts : g[b] \in Int
      <4> HIDE DEF f, g
      <4> QED BY <3>1, <3>7, <3>8
    <3> HIDE DEF f, g
    <3>11. Sum(g, Attempts) = Sum(f, Attempts) + (g[a] - f[a])
      BY <3>7, <3>8, <3>10, AttemptsAssumption, SumChange
    <3>12. Sum(f, Attempts) \in Int
      BY <3>7, AttemptsAssumption, SumType
    <3>13. x \in Int /\ Sum(g, Attempts) = Sum(f, Attempts) - x
      BY <3>1, <3>5, <3>8, <3>11, <3>12
    <3>14. bucket'[p] = [bucket[p] EXCEPT !.remaining = Smaller(policy[p].limit, @ + x)]
      <4> DEFINE r == bucket[p].remaining
      <4>1. r \in Int
        BY DEF BucketInv, BucketRow
      <4>2. (r + old.units) - spent = r + x
        <5> HIDE DEF r
        <5> QED BY <3>1, <3>5, <4>1
      <4> QED BY <3>3, <4>2
    <3> HIDE DEF x
    <3>15. Sum(Uses(p)', Attempts) = Sum(Uses(p), Attempts) - x
      BY <3>9, <3>13 DEF f
    <3> QED BY <3>2, <3>13, <3>14, <3>15 DEF BucketMoves
  <2> QED BY <2>2, <2>3, <2>4
<1> QED BY <1>2, <1>3

\* An admission takes its charge out of the refilled bucket, and nothing else
\* does: the new reservation or the new count says how much.
LEMMA AdmitBuckets ==
  ASSUME BucketsAreFixed, LifeInv, FactInv, QuotaInv, BucketInv, QuotaInv', FactTypeOK', PolicyOK',
         NEW r \in Requests, NEW a \in Attempts, NEW k \in Keys, NEW c \in Connections,
         NEW est \in Units, NEW wall \in Times, NEW priced \in BOOLEAN,
         Admit(r, a, k, c, est, wall, priced)
  PROVE  BucketInv'
<1> DEFINE first == rState[r] = "absent"
           now == EffectiveTime(wall)
           price == IF priced THEN catalog[now] ELSE Unknown
           cost == CostOf(price, est)
           ps == MatchingPolicies(k, c)
           hit == Hit(ps, {"token_bucket"}, first, est, cost)
           new == PlannedReservations(ps, now, est, cost)
           charge(p) == Charge(p, first, est, cost)
<1>1. /\ aState[a] = "absent" /\ usage' = usage
      /\ \A p \in ps : Permits(p, r, a, now, first, est, cost)
      /\ bucket' = PlannedBucket(ps, now, first, est, cost)
      /\ resv' = [resv EXCEPT ![a] = new]
  BY DEF Admit, factVars
<1>2. /\ now \in Times /\ now \in Nat /\ first \in BOOLEAN /\ ps \subseteq Policies /\ price \in Prices \cup {Unknown}
  BY EffectiveTimeFact DEF LifeInv, LifeTypeOK, MatchingPolicies, FactInv, FactTypeOK, Times
<1>3. resv'[a] = new /\ \A b \in Attempts \ {a} : resv'[b] = resv[b]
  BY <1>1 DEF QuotaInv, ResvOK
<1>4. \A p \in Policies : resv[a][p].state = "none"
  BY <1>1 DEF QuotaInv, ResvOK
<1>5. /\ bucket' = [p \in Policies |-> bucket'[p]]
      /\ \A p \in hit : bucket'[p] = [BucketAt(p, now) EXCEPT !.remaining = @ - charge(p)]
      /\ \A p \in Policies \ hit : bucket'[p] = bucket[p]
      /\ hit \subseteq ps /\ \A p \in hit : Bucketed(p)
  BY <1>1, <1>2 DEF PlannedBucket, Hit, Bucketed
<1>6. \A p \in ps : Bucketed(p) => (p \in hit <=> (Metric[p] = "tokens" \/ charge(p) > 0))
  <2> SUFFICES ASSUME NEW p \in ps, Bucketed(p) PROVE p \in hit <=> (Metric[p] = "tokens" \/ charge(p) > 0)
    OBVIOUS
  <2>1. Metric[p] \in {"requests", "tokens"}
    BY <1>2, RateFacts
  <2>2. Reserves(p) <=> Metric[p] = "tokens"
    BY <2>1 DEF Reserves
  <2> HIDE DEF first, now, cost, ps
  <2> QED BY <2>2 DEF Hit, Bucketed
<1>7. ASSUME NEW p \in ps
      PROVE  /\ Metric[p] = "tokens" => charge(p) = est
             /\ Metric[p] = "requests" => charge(p) = IF first \/ ScopeKind[p] = "connection" THEN 1 ELSE 0
  BY DEF Charge
<1>8. est \in Nat
  BY AmountsAssumption
<1>9. ASSUME NEW p \in Policies
      PROVE  /\ p \in ps /\ Metric[p] = "tokens" => /\ new[p].state = "active" /\ new[p].units = est
                                                    /\ Bucketed(p) => new[p].period = 0
             /\ p \notin ps \/ Metric[p] = "requests" => new[p].state = "none" /\ new[p].period = 0
  <2> HIDE DEF ps, now, cost
  <2> QED BY DEF PlannedReservations, NoReservation, Reserves, Bucketed
<1> HIDE DEF first, now, price, ps, cost, hit, new, charge
<1>10. ASSUME NEW p \in Policies, Bucketed(p)
       PROVE  /\ BucketOK(p) /\ bucket[p] \in BucketRow /\ Metric[p] \in {"requests", "tokens"}
              /\ policy[p].limit \in Nat /\ policy'[p].limit = policy[p].limit
              /\ Metric[p] = "requests" => On(p)
  BY <1>10, RateFacts, FixedBucketFacts DEF BucketInv
\* How much more is used after the admission.
<1>11. ASSUME NEW p \in Policies, Bucketed(p)
       PROVE  /\ Used(p) \in Int
              /\ Metric[p] = "requests" => IsFiniteSet(Counted(p)')
              /\ IF p \in hit THEN charge(p) \in Nat /\ Used(p)' = Used(p) + charge(p) ELSE Used(p)' = Used(p)
              /\ p \notin hit /\ Metric[p] = "requests" => Counted(p)' = Counted(p)
              /\ p \notin hit /\ Metric[p] = "tokens" => p \notin ps
  <2>1. CASE Metric[p] = "requests"
    <3> DEFINE more == Counting(p, r, a, k, c)
    <3>1. Counted(p)' = Counted(p) \cup more /\ more \cap Counted(p) = {}
      BY <1>10, <1>11, <2>1, CountedGrows
    <3>2. IsFiniteSet(Counted(p)) /\ Cardinality(Counted(p)) \in Nat
      BY <1>10, <1>11, <2>1, FS_CardinalityType DEF BucketOK
    <3>3. Used(p) = Cardinality(Counted(p)) /\ Used(p)' = Cardinality(Counted(p)')
      BY <2>1 DEF Used
    <3>4. CASE p \in hit
      <4>1. p \in ps /\ charge(p) = 1 /\ (first \/ ScopeKind[p] = "connection")
        <5>1. p \in ps
          BY <1>5, <3>4
        <5>2. charge(p) > 0 /\ charge(p) = IF first \/ ScopeKind[p] = "connection" THEN 1 ELSE 0
          BY <1>6, <1>7, <1>11, <2>1, <3>4, <5>1
        <5> QED BY <5>1, <5>2
      <4>2. \E x : more = {x}
        BY <4>1 DEF Counting, ps, first
      <4>3. PICK x : more = {x}
        BY <4>2
      <4>4. x \notin Counted(p) /\ Counted(p)' = Counted(p) \cup {x}
        BY <3>1, <4>3
      <4>5. IsFiniteSet(Counted(p)') /\ Cardinality(Counted(p)') = Cardinality(Counted(p)) + 1
        BY <3>2, <4>4, FS_AddElement
      <4> QED BY <2>1, <3>2, <3>3, <3>4, <4>1, <4>5
    <3>5. CASE p \notin hit
      <4>1. more = {}
        <5>1. CASE p \notin ps
          BY <5>1 DEF Counting, ps
        <5>2. CASE p \in ps
          <6>1. ~(first \/ ScopeKind[p] = "connection")
            BY <1>6, <1>7, <1>11, <2>1, <3>5, <5>2
          <6> QED BY <6>1 DEF Counting, first
        <5> QED BY <5>1, <5>2
      <4> QED BY <2>1, <3>1, <3>2, <3>3, <3>5, <4>1
    <3> QED BY <3>4, <3>5
  <2>2. CASE Metric[p] = "tokens"
    <3> DEFINE f == Uses(p)
               g == [b \in Attempts |-> UseOf(p, resv'[b][p], usage'[b])]
    <3>1. p \in hit <=> p \in ps
      BY <1>5, <1>6, <1>11, <2>2
    <3>2. \A b \in Attempts : f[b] \in Int
      BY UsedFacts DEF QuotaInv, FactInv
    <3>3. f[a] = 0 /\ \A b \in Attempts \ {a} : g[b] = f[b]
      BY <1>1, <1>3, <1>4 DEF Uses, UseOf
    <3>4. g[a] = IF p \in hit THEN est ELSE 0
      BY <1>3, <1>9, <2>2, <3>1 DEF UseOf
    <3>5. g = Uses(p)'
      BY DEF Uses, UseOf, Charged
    <3> HIDE DEF f, g
    <3>6. \A b \in Attempts : g[b] \in Int
      BY <1>8, <3>2, <3>3, <3>4
    <3>7. Sum(g, Attempts) = Sum(f, Attempts) + (g[a] - f[a])
      BY <3>2, <3>3, <3>6, AttemptsAssumption, SumChange
    <3>8. Sum(f, Attempts) \in Int
      BY <3>2, AttemptsAssumption, SumType
    <3>9. Used(p) = Sum(f, Attempts) /\ Used(p)' = Sum(g, Attempts)
      <4>1. Metric[p] # "requests"
        BY <2>2
      <4> QED BY <3>5, <4>1 DEF Used, f
    <3>10. p \in hit => charge(p) = est
      BY <1>7, <2>2, <3>1
    <3> QED BY <1>8, <2>2, <3>1, <3>3, <3>4, <3>7, <3>8, <3>9, <3>10
  <2> QED BY <1>10, <1>11, <2>1, <2>2
<1>12. ASSUME NEW p \in Policies, Bucketed(p) PROVE bucket[p].exists \/ Used(p) = 0
  <2>1. SUFFICES ASSUME ~bucket[p].exists PROVE Used(p) = 0
    OBVIOUS
  <2>2. CASE Metric[p] = "requests"
    <3>1. Counted(p) = {}
      BY <1>10, <1>12, <2>1, <2>2 DEF BucketOK
    <3>2. Cardinality({}) = 0
      BY FS_EmptySet
    <3> QED BY <2>2, <3>1, <3>2 DEF Used
  <2>3. CASE Metric[p] # "requests"
    <3>1. \A b \in Attempts : Uses(p)[b] = 0
      BY <1>10, <1>12, <2>1, <2>3 DEF BucketOK, Uses, UseOf
    <3> QED BY <2>3, <3>1, AttemptsAssumption, SumZero DEF Used
  <2> QED BY <2>2, <2>3
<1>13. ASSUME NEW p \in hit
       PROVE  bucket'[p] \in BucketRow /\ bucket'[p].exists /\ Bounded(p, bucket'[p], Used(p)', policy'[p].limit)
  <2>1. p \in Policies /\ Bucketed(p)
    BY <1>2, <1>5
  <2> DEFINE row == BucketAt(p, now)
             used == Used(p)
             x == charge(p)
             limit == policy[p].limit
  <2>2. used \in Int /\ x \in Int /\ Used(p)' = used + x /\ limit \in Nat /\ policy'[p].limit = limit
    BY <1>10, <1>11, <1>13, <2>1
  <2>3. row \in BucketRow /\ row.exists /\ Bounded(p, row, used, limit)
    <3>1. bucket[p].exists => Bounded(p, bucket[p], used, limit)
      BY <1>10, <2>1 DEF BucketOK
    <3>2. ~bucket[p].exists => used = 0
      BY <1>12, <2>1
    <3> QED BY <1>2, <1>10, <2>1, <2>2, <3>1, <3>2, Refilled
  <2>4. bucket'[p] = [row EXCEPT !.remaining = @ - x]
    BY <1>5, <1>13
  <2> HIDE DEF row, used, x, limit
  <2>5. bucket'[p] \in BucketRow /\ bucket'[p].exists = row.exists /\ Bounded(p, bucket'[p], used + x, limit)
    BY <2>1, <2>2, <2>3, <2>4, TakenOut
  <2> QED BY <2>2, <2>3, <2>5
<1>14. bucket' \in [Policies -> BucketRow]
  <2> HIDE DEF BucketRow
  <2>1. \A p \in Policies : bucket'[p] \in BucketRow
    BY <1>5, <1>13 DEF BucketInv
  <2> QED BY <1>5, <2>1
<1>15. ASSUME NEW p \in Policies, Bucketed(p) PROVE BucketOK(p)'
  <2>1. \A b \in Attempts : resv'[b][p].period = 0
    <3>1. resv'[a][p].period = 0
      BY <1>3, <1>9, <1>10, <1>15
    <3> QED BY <1>3, <1>10, <1>15, <3>1 DEF BucketOK
  <2>2. Metric[p] = "requests" => IsFiniteSet(Counted(p)')
    BY <1>11, <1>15
  <2>3. CASE p \in hit
    BY <1>13, <2>1, <2>2, <2>3 DEF BucketOK
  <2>4. CASE p \notin hit
    <3>1. bucket'[p] = bucket[p] /\ policy'[p].limit = policy[p].limit /\ Used(p)' = Used(p)
      BY <1>5, <1>10, <1>11, <1>15, <2>4
    <3>2. bucket[p].exists => Bounded(p, bucket'[p], Used(p)', policy'[p].limit)
      BY <1>10, <1>15, <3>1 DEF BucketOK
    <3>3. ASSUME ~bucket[p].exists
          PROVE  IF Metric[p] = "requests" THEN Counted(p)' = {} ELSE \A b \in Attempts : resv'[b][p].state = "none"
      <4>1. CASE Metric[p] = "requests"
        BY <1>10, <1>11, <1>15, <2>4, <3>3, <4>1 DEF BucketOK
      <4>2. CASE Metric[p] # "requests"
        <5>1. Metric[p] = "tokens" /\ p \notin ps
          BY <1>10, <1>11, <1>15, <2>4, <4>2
        <5>2. resv'[a][p].state = "none"
          BY <1>3, <1>9, <5>1
        <5>3. \A b \in Attempts : resv[b][p].state = "none"
          BY <1>10, <1>15, <3>3, <4>2 DEF BucketOK
        <5> QED BY <1>3, <4>2, <5>2, <5>3
      <4> QED BY <4>1, <4>2
    <3> QED BY <2>1, <2>2, <3>1, <3>2, <3>3 DEF BucketOK
  <2> QED BY <2>3, <2>4
<1>16. \A p \in Policies : Bucketed(p)' = Bucketed(p)
  BY DEF Bucketed
<1> QED BY <1>14, <1>15, <1>16 DEF BucketInv, Bucketed

\* Every operation keeps the buckets within what they may grant, unless it
\* restates an attempt whose reservation is settled.
LEMMA BucketStep ==
  ASSUME BucketsAreFixed, LifeInv, FactInv, QuotaInv, ChargeInv, BucketInv, FactInv', QuotaInv', [Next]_vars,
         UNCHANGED vars \/ ~RestatesSettled
  PROVE  BucketInv'
<1> FactTypeOK /\ FactTypeOK'
  BY DEF FactInv
<1>1. PolicyOK'
  BY PolicySteps DEF BucketInv
<1>2. CASE AdmitsNow
  BY <1>1, <1>2, AdmitBuckets DEF AdmitsNow
<1>3. CASE ~AdmitsNow
  <2>1. RowsStay
    BY <1>3, RowSteps
  <2> DEFINE Kept == /\ bucket' = [p \in Policies |-> bucket'[p]]
                     /\ \A p \in Policies : BucketMoves(p)
                     /\ \A a \in Attempts, p \in Policies : SameRow(resv[a][p], resv'[a][p])
  <2>2. bucket = [p \in Policies |-> bucket[p]]
    BY DEF BucketInv
  <2>3. ASSUME UNCHANGED <<bucket, resv, usage>> PROVE Kept
    BY <2>2, <2>3 DEF BucketMoves, SameRow
  <2>4. ASSUME NEW a \in Attempts, MarkDispatching(a) \/ MarkStreaming(a) PROVE Kept
    <3>1. UNCHANGED <<bucket, resv, usage>>
      BY <2>4 DEF MarkDispatching, MarkStreaming, counterVars, factVars
    <3> QED BY <2>3, <3>1
  <2>5. ASSUME NEW a \in Attempts, CancelBeforeDispatch(a) PROVE Kept
    <3> DEFINE U == {}
               S == {a}
    <3>1. /\ bucket' = ReleasedBucket(S) /\ resv' = Moved(S, "active", "released")
          /\ usage' = [usage EXCEPT ![a].status = "estimated"]
      BY <2>5 DEF CancelBeforeDispatch
    <3>2. Moved(S, "active", "released") = [b \in Attempts |-> Moved(S, "active", "released")[b]]
      BY DEF Moved
    <3>3. resv' = [b \in Attempts |-> IF b \in U THEN Moved(U, "active", "uncertain")[b]
                                      ELSE Moved(S, "active", "released")[b]]
      BY <3>1, <3>2
    <3>4. \A b \in Attempts : usage'[b].tokens = usage[b].tokens /\ usage'[b].cost = usage[b].cost
      BY <3>1 DEF FactTypeOK, UsageRow
    <3>5. S \in SUBSET Attempts /\ U \in SUBSET Attempts /\ S \cap U = {}
      OBVIOUS
    <3>6. bucket' = [p \in Policies |-> bucket'[p]]
      BY <3>1 DEF ReleasedBucket
    <3> HIDE DEF S, U
    <3> QED BY <3>1, <3>3, <3>4, <3>5, <3>6, BucketReleased
  <2>6. ASSUME NEW wall \in Times, Recover(wall) PROVE Kept
    <3> DEFINE S == {a \in Attempts : aState[a] = "reserved"}
               U == Active \ S
    <3>1. /\ bucket' = ReleasedBucket(S)
          /\ resv' = [a \in Attempts |-> IF a \in U THEN Moved(U, "active", "uncertain")[a]
                                         ELSE Moved(S, "active", "released")[a]]
          /\ usage' = [a \in Attempts |-> IF a \in S THEN [usage[a] EXCEPT !.status = "estimated"]
                                          ELSE IF a \in U THEN [usage[a] EXCEPT !.status = "unknown"] ELSE usage[a]]
      BY <2>6 DEF Recover
    <3>2. S \in SUBSET Attempts /\ U \in SUBSET Attempts /\ S \cap U = {}
      BY DEF Active
    <3>3. bucket' = [p \in Policies |-> bucket'[p]]
      BY <3>1 DEF ReleasedBucket
    <3> HIDE DEF S, U
    <3>4. \A b \in Attempts : usage'[b].tokens = usage[b].tokens /\ usage'[b].cost = usage[b].cost
      BY <3>1 DEF FactTypeOK, UsageRow
    <3> QED BY <3>1, <3>2, <3>3, <3>4, BucketReleased
  <2>7. ASSUME NEW a \in Attempts, NEW ps, NEW tokens, NEW cost, Resolves(a, ps, tokens, cost),
               \A p \in Policies \ ps : resv[a][p].state # "settled" \/ Charged(p, usage'[a]) = Charged(p, usage[a])
        PROVE  Kept
    <3>1. bucket' = [p \in Policies |-> bucket'[p]]
      BY <2>7 DEF Resolves, ResolvedBucket
    <3> QED BY <2>7, <3>1, BucketResolved
  <2>8. ASSUME NEW a \in Attempts, NEW state \in Outcomes, NEW status \in {"provider_reported", "unknown"},
               NEW tokens \in Units \cup {Unknown}, NEW reported \in Costs \cup {Unknown}, NEW final \in BOOLEAN,
               Settle(a, state, status, tokens, reported, final)
        PROVE  Kept
    <3>1. PICK ps, cost : Resolves(a, ps, tokens, cost)
      BY <2>8, SettleResolves
    <3>2. a \in Active
      BY <2>8 DEF Settle, Settleable, Active
    <3>3. \A p \in Policies : resv[a][p].state # "settled"
      BY <3>2 DEF ChargeInv, OpenUnresolved
    <3> QED BY <2>7, <3>1, <3>3
  <2>9. ASSUME NEW a \in Attempts, NEW tokens \in Reported, NEW reported \in ReconciledCosts \cup {Unknown},
               ReconcileUnknown(a, "provider_reported", tokens, reported)
        PROVE  Kept
    <3>1. CASE UNCHANGED vars
      BY <2>3, <3>1 DEF vars, factVars, counterVars
    <3>2. CASE ~RestatesSettled
      <4>1. PICK ps, cost : Resolves(a, ps, tokens, cost)
        BY <2>9, ReconcileResolves
      <4>2. \A p \in Policies : resv[a][p].state # "settled" \/ Charged(p, usage'[a]) = Charged(p, usage[a])
        BY <2>9, <3>2 DEF RestatesSettled
      <4> QED BY <2>7, <4>1, <4>2
    <3> QED BY <3>1, <3>2
  <2>10. ASSUME NEW S \in SUBSET Attempts, NEW amount, resv' = RespentReservations(S, amount), bucket' = bucket,
                \A a \in Attempts : usage'[a].tokens = usage[a].tokens
         PROVE  Kept
    <3>1. ASSUME NEW a \in Attempts, NEW p \in Policies PROVE SameRow(resv[a][p], resv'[a][p])
      <4>1. \/ resv'[a][p] = resv[a][p]
            \/ /\ SpendResolved(a, p, amount[a]) /\ resv'[a][p] = [resv[a][p] EXCEPT !.state = "settled"]
        BY <2>10 DEF RespentReservations
      <4>2. SpendResolved(a, p, amount[a]) => resv[a][p].state # "none"
        BY DEF SpendResolved
      <4> QED BY <4>1, <4>2 DEF SameRow, ResvStates
    <3>2. ASSUME NEW p \in Policies PROVE BucketMoves(p)
      <4>1. ASSUME TokenBucket(p), NEW a \in Attempts
            PROVE  UseOf(p, resv'[a][p], usage'[a]) = UseOf(p, resv[a][p], usage[a])
        <5>1. Metric[p] # "spend"
          BY <4>1 DEF TokenBucket
        <5>2. resv'[a][p] = resv[a][p]
          BY <2>10, <5>1 DEF RespentReservations
        <5>3. Charged(p, usage'[a]) = Charged(p, usage[a])
          BY <2>10, <5>1 DEF Charged
        <5> QED BY <5>2, <5>3 DEF UseOf
      <4> QED BY <2>10, <4>1 DEF BucketMoves
    <3> QED BY <2>2, <2>10, <3>1, <3>2
  <2>11. ASSUME NEW c \in Connections, NEW from \in Times, NEW to \in 1..MaxTime + 1, ApplyReprice(c, from, to)
         PROVE  Kept
    <3>1. \E S \in SUBSET Attempts : \E amount :
             /\ resv' = RespentReservations(S, amount) /\ bucket' = bucket
             /\ usage' = [a \in Attempts |-> IF a \in S THEN [usage[a] EXCEPT !.cost = amount[a]] ELSE usage[a]]
      <4> DEFINE items == {a \in Attempts : /\ aConn[a] = c /\ aStart[a] >= from /\ aStart[a] < to
                                            /\ usage[a].tokens # Unknown /\ usage[a].status # "unknown"
                                            /\ catalog[aStart[a]] # Unknown}
                 amount == [a \in items |-> CostOf(catalog[aStart[a]], usage[a].tokens) + ledger[a].adjusted]
                 applied == {a \in items : <<a, catalog[aStart[a]], "restated">> \notin assessed}
      <4>1. /\ resv' = RespentReservations(applied, amount) /\ bucket' = bucket
            /\ usage' = [a \in Attempts |-> IF a \in applied THEN [usage[a] EXCEPT !.cost = amount[a]] ELSE usage[a]]
        BY <2>11 DEF ApplyReprice
      <4>2. applied \in SUBSET Attempts
        OBVIOUS
      <4> HIDE DEF applied, amount
      <4> QED BY <4>1, <4>2
    <3>2. PICK S \in SUBSET Attempts : \E amount :
             /\ resv' = RespentReservations(S, amount) /\ bucket' = bucket
             /\ usage' = [a \in Attempts |-> IF a \in S THEN [usage[a] EXCEPT !.cost = amount[a]] ELSE usage[a]]
      BY <3>1
    <3>3. PICK amount :
             /\ resv' = RespentReservations(S, amount) /\ bucket' = bucket
             /\ usage' = [a \in Attempts |-> IF a \in S THEN [usage[a] EXCEPT !.cost = amount[a]] ELSE usage[a]]
      BY <3>2
    <3>4. \A a \in Attempts : usage'[a].tokens = usage[a].tokens
      BY <3>3 DEF FactTypeOK, UsageRow
    <3> QED BY <2>10, <3>3, <3>4
  <2>12. ASSUME NEW a \in Attempts, NEW delta \in Deltas, AdjustCost(a, delta) PROVE Kept
    <3> DEFINE next == [b \in {a} |-> OrZero(usage[b].cost) + delta]
               S == {a}
    <3>1. /\ resv' = RespentReservations(S, next) /\ bucket' = bucket
          /\ usage' = [usage EXCEPT ![a].cost = next[a]]
      BY <2>12 DEF AdjustCost
    <3>2. S \in SUBSET Attempts
      OBVIOUS
    <3> HIDE DEF S, next
    <3>3. \A b \in Attempts : usage'[b].tokens = usage[b].tokens
      BY <3>1 DEF FactTypeOK, UsageRow
    <3> QED BY <2>10, <3>1, <3>2, <3>3
  <2>13. ASSUME NEW r \in Requests, CloseFailedRequest(r) \/ \E state \in Outcomes : FinalizeRequest(r, state)
         PROVE  Kept
    <3>1. UNCHANGED <<bucket, resv, usage>>
      BY <2>13 DEF CloseFailedRequest, FinalizeRequest, counterVars, factVars
    <3> QED BY <2>3, <3>1
  <2>14. ASSUME NEW S \in SUBSET Requests, RepairStaleRequests(S) PROVE Kept
    <3>1. UNCHANGED <<bucket, resv, usage>>
      BY <2>14 DEF RepairStaleRequests, counterVars, factVars
    <3> QED BY <2>3, <3>1
  <2>15. ASSUME \/ \E p \in Policies : \E setting \in Settings[p] : UpdatePolicy(p, setting)
                \/ \E v \in Prices, from \in Times : CreatePrice(v, from)
                \/ \E g \in Grants : ChangeGrants(g)
                \/ Deliver
                \/ UNCHANGED vars
         PROVE  Kept
    <3>1. UNCHANGED <<bucket, resv, usage>>
      BY <2>15 DEF UpdatePolicy, CreatePrice, ChangeGrants, Deliver, vars, counterVars, factVars
    <3> QED BY <2>3, <3>1
  <2> HIDE DEF Kept
  <2>16. Kept
    BY <1>3, <2>4, <2>5, <2>6, <2>8, <2>9, <2>11, <2>12, <2>13, <2>14, <2>15 DEF Next, AdmitsNow
  <2> QED BY <1>1, <2>1, <2>16, BucketKept DEF Kept
<1> QED BY <1>2, <1>3

\* The attempts that take from a bucket, split by the state of their reservation.
LEMMA TakenFacts == FactInv /\ QuotaInv /\ BucketInv => BucketNeverOvergrants
<1> SUFFICES ASSUME FactInv, QuotaInv, BucketInv, NEW p \in Policies, Bucketed(p), bucket[p].exists
             PROVE  (bucket[p].remaining + Taken(p)) * Interval[p] + bucket[p].remainder
                      <= policy[p].limit * Interval[p] + bucket[p].at * Refill[p]
  BY DEF BucketNeverOvergrants, Bucketed
<1>1. BucketOK(p) /\ Bounded(p, bucket[p], Used(p), policy[p].limit)
  BY DEF BucketInv, BucketOK
<1>2. Taken(p) = Used(p)
  <2>1. CASE Metric[p] = "requests"
    BY <2>1 DEF Taken, Used
  <2>2. CASE Metric[p] # "requests"
    <3> DEFINE u == [a \in Attempts |-> resv[a][p].units]
               v == [a \in Attempts |-> OrZero(usage[a].tokens)]
               A == {a \in Attempts : resv[a][p].state = "active"}
               B == {a \in Attempts : resv[a][p].state = "uncertain"}
               C == {a \in Attempts : resv[a][p].state = "settled"}
               f == Uses(p)
    <3>1. Held(Attempts, p, 0, "active") = Sum(u, A) /\ Held(Attempts, p, 0, "uncertain") = Sum(u, B)
      <4>1. \A a \in Attempts : resv[a][p].period = 0
        BY <1>1 DEF BucketOK
      <4>2. /\ {a \in Attempts : resv[a][p].state = "active" /\ resv[a][p].period = 0} = A
            /\ {a \in Attempts : resv[a][p].state = "uncertain" /\ resv[a][p].period = 0} = B
        BY <4>1
      <4> QED BY <4>2 DEF Held, Sum
    <3>2. Taken(p) = Sum(u, A) + Sum(u, B) + Sum(v, C)
      BY <2>2, <3>1 DEF Taken, Sum
    <3>3. Used(p) = Sum(f, Attempts)
      BY <2>2 DEF Used
    <3>4. \A a \in Attempts : f[a] \in Int
      BY UsedFacts DEF FactInv, QuotaInv
    <3>5. Metric[p] # "spend"
      <4>1. Metric[p] \in {"requests", "tokens"}
        BY RateFacts
      <4> QED BY <4>1
    <3>6. /\ \A a \in A \cup B : u[a] = f[a]
          /\ \A a \in C : v[a] = f[a]
          /\ \A a \in Attempts \ (A \cup B \cup C) : f[a] = 0
      BY <3>5 DEF Uses, UseOf, Charged
    <3>7. /\ A \in SUBSET Attempts /\ B \in SUBSET Attempts /\ C \in SUBSET Attempts
          /\ A \cap B = {} /\ (A \cup B) \cap C = {} /\ (A \cup B) \cup C \in SUBSET Attempts
      OBVIOUS
    <3> HIDE DEF A, B, C, f, u, v
    <3>8. IsFiniteSet(A) /\ IsFiniteSet(B) /\ IsFiniteSet(C) /\ IsFiniteSet(A \cup B)
      <4>1. A \cup B \in SUBSET Attempts
        BY <3>7
      <4> QED BY <3>7, <4>1, AttemptsAssumption, FS_Subset
    <3>9. Sum(u, A) = Sum(f, A) /\ Sum(u, B) = Sum(f, B) /\ Sum(v, C) = Sum(f, C)
      BY <3>6, <3>8, SumSame
    <3>10. Sum(f, Attempts) = Sum(f, (A \cup B) \cup C)
      <4>1. \A a \in (A \cup B) \cup C : f[a] \in Int /\ f[a] = f[a]
        BY <3>4, <3>7
      <4>2. \A a \in Attempts \ ((A \cup B) \cup C) : f[a] = 0
        BY <3>6
      <4> QED BY <3>7, <4>1, <4>2, AttemptsAssumption, SumPart
    <3>11. Sum(f, (A \cup B) \cup C) = Sum(f, A \cup B) + Sum(f, C)
      <4>1. \A a \in (A \cup B) \cup C : f[a] \in Int
        BY <3>4, <3>7
      <4> QED BY <3>7, <3>8, <4>1, SumDisjoint
    <3>12. Sum(f, A \cup B) = Sum(f, A) + Sum(f, B)
      <4>1. \A a \in A \cup B : f[a] \in Int
        BY <3>4, <3>7
      <4> QED BY <3>7, <3>8, <4>1, SumDisjoint
    <3> QED BY <3>2, <3>3, <3>9, <3>10, <3>11, <3>12
  <2> QED BY <2>1, <2>2
<1> QED BY <1>1, <1>2 DEF Bounded

\* For every set of policies, capacities and refill rates: whatever is admitted,
\* released, settled or interrupted, with the wall clock stepping back at will,
\* a bucket grants no more than its capacity and the refill since the epoch, as
\* long as its owner leaves its capacity alone and no reconciliation restates an
\* attempt whose reservation is settled.
THEOREM BucketsStayBounded ==
  ASSUME BucketsAreFixed
  PROVE  Spec /\ [][~RestatesSettled]_vars => []BucketNeverOvergrants
<1> DEFINE Inv == LifeInv /\ OutboxRoom /\ FactInv /\ QuotaInv /\ ChargeInv /\ BucketInv
<1>1. Init => Inv
  BY InitLife, InitRoom, InitFacts, InitQuota, InitCharges, InitBuckets
<1>2. Inv /\ [Next]_vars /\ [~RestatesSettled]_vars => Inv'
  <2> SUFFICES ASSUME LifeInv, OutboxRoom, FactInv, QuotaInv, ChargeInv, BucketInv, [Next]_vars, [~RestatesSettled]_vars
               PROVE  Inv'
    OBVIOUS
  <2>1. LifeInv' /\ OutboxRoom'
    BY Step
  <2>2. FactInv' /\ QuotaInv'
    BY FactStep, QuotaStep
  <2>3. UNCHANGED vars \/ ~RestatesSettled
    OBVIOUS
  <2>4. ChargeInv'
    BY <2>1, <2>2, <2>3, ChargeStep
  <2>5. BucketInv'
    BY <2>2, <2>3, BucketsAreFixed, BucketStep
  <2> QED BY <2>1, <2>2, <2>4, <2>5
<1>3. Inv => BucketNeverOvergrants
  BY TakenFacts
<1> QED BY <1>1, <1>2, <1>3, PTL DEF Spec
=============================================================================
