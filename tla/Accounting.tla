------------------------------ MODULE Accounting ------------------------------
(***************************************************************************)
(* Admission and settlement of inference work (internal/features/usage).   *)
(* Every operation of usage.Service is one SQLite transaction on           *)
(* system.db, so every operation is one atomic action here. An operation   *)
(* that returns an error rolls its transaction back and changes nothing:   *)
(* its guard is false. Requests and attempts that were never inserted have *)
(* the state "absent".                                                     *)
(*                                                                         *)
(* Abstracted: tokens are one number (input plus output), cost is          *)
(* tokens * Rate[price version] in place of the cache and web-search aware *)
(* formula, calendar periods are windows of PeriodLen[p] clock units, and  *)
(* the int64 bounds of the counters are left out.                          *)
(***************************************************************************)
EXTENDS Integers, FiniteSets, FiniteSetsExt, Functions

CONSTANTS
  Requests, Attempts,     \* ids that Admit may draw
  Keys, Connections,      \* API keys and provider connections
  Owner,                  \* [Keys -> users]
  Policies,               \* limit_policies rows, and their immutable columns:
  Metric, Algorithm, ScopeKind, ScopeId, PeriodLen, Refill, Interval,
  Settings,               \* [Policies -> sets of rows limit_units and enabled take]
  Prices, Rate,           \* price versions and their cost per token
  Units,                  \* token estimates and token counts of a settlement
  Outcomes,               \* states a settlement or a finalization gives
  Reported,               \* token counts an operator reconciles with
  Costs,                  \* provider-reported costs of a settlement
  ReconciledCosts,        \* costs an operator reconciles with
  Deltas,                 \* signed manual cost adjustments
  Grants,                 \* values the granted relation takes
  MaxTime,                \* bound on the clock
  MaxCost,                \* bound on an adjusted cost
  MaxOutbox,              \* maxPendingOutboxEvents
  Unknown                 \* SQL NULL

ASSUME OutboxAssumption == MaxOutbox \in Nat
ASSUME TimeAssumption == MaxTime \in Nat
ASSUME AttemptsAssumption == IsFiniteSet(Attempts)
ASSUME DisjointAssumption == Requests \cap Attempts = {}
ASSUME UnknownAssumption == Unknown \notin Int /\ Unknown \notin Requests
ASSUME AmountsAssumption ==
  Units \cup Reported \cup Costs \cup ReconciledCosts \subseteq Nat /\ Deltas \subseteq Int /\ Rate \in [Prices -> Nat]

\* The policies validatePolicyInput lets through.
ASSUME PoliciesAssumption ==
  \A p \in Policies :
    /\ \/ Algorithm[p] = "concurrency" /\ Metric[p] = "concurrency"
       \/ Algorithm[p] = "ceiling" /\ Metric[p] \in {"body_bytes", "output_tokens", "batch_items"}
       \/ Algorithm[p] \in {"token_bucket", "fixed_window", "quota"} /\ Metric[p] \in {"requests", "tokens"}
       \/ Algorithm[p] = "quota" /\ Metric[p] = "spend"
    /\ PeriodLen[p] \in Nat
    /\ Algorithm[p] = "token_bucket" => Refill[p] \in Nat \ {0} /\ Interval[p] \in Nat \ {0}

VARIABLES
  clock,      \* admission_clock.last_effective_at
  granted,    \* <<key, connection>> pairs the key, user and target rows admit
  policy,     \* limit_policies: the mutable columns limit_units and enabled
  catalog,    \* the price version priceAt finds for each instant, or Unknown
  rState,     \* requests.state
  rKey,       \* requests.key_id
  aState,     \* attempts.state
  aReq,       \* attempts.request_id
  aConn,      \* attempts.connection_id
  aStart,     \* attempts.started_at, the effective time of the admission
  aPrice,     \* attempts.price_version_id
  usage,      \* attempts.usage_status, tokens and restated cost
  resv,       \* reservations, one row per attempt and policy
  leases,     \* concurrency_leases as <<policy, lease_id>>
  quota,      \* quota_periods[policy][period_start]
  bucket,     \* bucket_state[policy]
  outbox,     \* undelivered rows of event_outbox
  ledger,     \* usage_ledger, summed per attempt
  assessed    \* unique (attempt, price version, kind) of cost_assessments

lifeVars == <<rState, rKey, aState, aReq, aConn, aStart, aPrice>>
factVars == <<usage, ledger, assessed>>
counterVars == <<resv, quota, bucket>>
confVars == <<granted, policy, catalog>>
vars == <<clock, lifeVars, factVars, counterVars, leases, outbox, confVars>>

Times == 0..MaxTime
ActiveStates == {"reserved", "dispatching", "streaming"}
SettledStates == {"succeeded", "failed", "cancelled", "interrupted_unknown"}
AttemptStates == {"absent", "cancelled_before_dispatch"} \cup ActiveStates \cup SettledStates
RequestStates == {"absent", "reserved", "in_progress"} \cup SettledStates
ASSUME OutcomesAssumption == Outcomes \subseteq SettledStates

NoReservation == [state |-> "none", units |-> 0, period |-> 0]

Active == {a \in Attempts : aState[a] \in ActiveStates}
ActiveOf(r) == {a \in Active : aReq[a] = r}
OpenRequests == {r \in Requests : rState[r] \in {"reserved", "in_progress"}}
Terminal(r) == rState[r] \in SettledStates
Larger(m, n) == IF m > n THEN m ELSE n
Smaller(m, n) == IF m < n THEN m ELSE n
OrZero(v) == IF v = Unknown THEN 0 ELSE v

LifeTypeOK ==
  /\ clock \in Times
  /\ rState \in [Requests -> RequestStates]
  /\ rKey \in [Requests -> Keys \cup {Unknown}]
  /\ aState \in [Attempts -> AttemptStates]
  /\ aReq \in [Attempts -> Requests \cup {Unknown}]
  /\ aConn \in [Attempts -> Connections \cup {Unknown}]
  /\ aStart \in [Attempts -> Times]
  /\ leases \subseteq Policies \X (Requests \cup Attempts)
  /\ outbox \in Nat

Init ==
  /\ clock = 0
  /\ granted \in Grants
  /\ policy \in {f \in [Policies -> UNION {Settings[p] : p \in Policies}] : \A p \in Policies : f[p] \in Settings[p]}
  /\ catalog = [t \in Times |-> Unknown]
  /\ rState = [r \in Requests |-> "absent"]
  /\ rKey = [r \in Requests |-> Unknown]
  /\ aState = [a \in Attempts |-> "absent"]
  /\ aReq = [a \in Attempts |-> Unknown]
  /\ aConn = [a \in Attempts |-> Unknown]
  /\ aStart = [a \in Attempts |-> 0]
  /\ aPrice = [a \in Attempts |-> Unknown]
  /\ usage = [a \in Attempts |-> [status |-> "pending", tokens |-> Unknown, cost |-> Unknown]]
  /\ resv = [a \in Attempts |-> [p \in Policies |-> NoReservation]]
  /\ leases = {}
  /\ quota = [p \in Policies |-> [t \in Times |-> [consumed |-> 0, reserved |-> 0]]]
  /\ bucket = [p \in Policies |-> [exists |-> FALSE, remaining |-> 0, remainder |-> 0, at |-> 0]]
  /\ outbox = 0
  /\ ledger = [a \in Attempts |-> [settlements |-> 0, reconciled |-> FALSE, tokens |-> 0, cost |-> 0, adjusted |-> 0]]
  /\ assessed = {}

-----------------------------------------------------------------------------
(* Faulty variants of definitions below. Nothing uses them: each replaces its *)
(* original to show that a property notices the fault.                       *)

RefillAmountKeepsRemainder(p, elapsed, remainder) ==
  LET credit == elapsed * Refill[p] + remainder
  IN  [units |-> credit \div Interval[p], remainder |-> credit]
ChargeEveryAttempt(p, first, est, cost) ==
  CASE Metric[p] = "requests" -> 1 [] Metric[p] = "spend" -> cost [] OTHER -> est
ReleasedQuotaForgets(S) == quota
SettleableOnceAdmitted(a) == aState[a] # "absent"
FreedAlways(a, final) == {l \in leases : l[2] \in {a, aReq[a]}}
FreedOnlyAtEnd(a, final) == {l \in leases : final /\ l[2] = aReq[a]}
CorrectionIsWhole(old, given) == OrZero(given)
SpendChangeIsWhole(a, p, amount) == amount

-----------------------------------------------------------------------------
(* Policy evaluation. *)

\* matchingPolicies: enabled policies whose scope names the key, its owner,
\* the connection or the instance.
MatchingPolicies(k, c) ==
  {p \in Policies :
     /\ policy[p].enabled
     /\ \/ ScopeKind[p] = "instance"
        \/ ScopeKind[p] = "user" /\ ScopeId[p] = Owner[k]
        \/ ScopeKind[p] = "key" /\ ScopeId[p] = k
        \/ ScopeKind[p] = "connection" /\ ScopeId[p] = c}

PeriodStart(p, now) == IF PeriodLen[p] = 0 THEN 0 ELSE now - (now % PeriodLen[p])

\* refillAmount: whole units for the elapsed time, and what is left of one.
RefillAmount(p, elapsed, remainder) ==
  LET credit == elapsed * Refill[p] + remainder
  IN  [units |-> credit \div Interval[p], remainder |-> credit % Interval[p]]

\* effectiveTime: the persisted clock keeps admissions from running backwards.
EffectiveTime(wall) == Larger(clock, wall)

\* The bucket row after refillAmount has credited the elapsed effective time
\* and the capacity has capped it; a missing row starts full.
BucketAt(p, now) ==
  LET limit == policy[p].limit
      row == IF bucket[p].exists THEN bucket[p]
             ELSE [exists |-> TRUE, remaining |-> limit, remainder |-> 0, at |-> now]
      at == Larger(now, row.at)
      refill == RefillAmount(p, at - row.at, row.remainder)
      remaining == row.remaining + refill.units
  IN  IF remaining >= limit
      THEN [exists |-> TRUE, remaining |-> limit, remainder |-> 0, at |-> at]
      ELSE [exists |-> TRUE, remaining |-> remaining, remainder |-> refill.remainder, at |-> at]

Reserves(p) == Metric[p] \in {"tokens", "spend"}

\* Units the attempt asks of the policy: a fallback attempt is not a new
\* request except to the connection it now uses.
Charge(p, first, est, cost) ==
  CASE Metric[p] = "requests" -> IF first \/ ScopeKind[p] = "connection" THEN 1 ELSE 0
    [] Metric[p] = "spend" -> cost
    [] OTHER -> est

NoCharge(p, units) == ~Reserves(p) /\ units = 0
LeaseId(p, r, a) == IF ScopeKind[p] = "connection" THEN a ELSE r

\* evaluatePolicy: TRUE when the policy raises no Denial.
Permits(p, r, a, now, first, est, cost) ==
  LET units == Charge(p, first, est, cost)
      row == quota[p][PeriodStart(p, now)]
  IN  CASE Algorithm[p] = "concurrency" ->
             \/ <<p, LeaseId(p, r, a)>> \in leases
             \/ Cardinality({l \in leases : l[1] = p}) < policy[p].limit
        [] Algorithm[p] = "ceiling" -> units <= policy[p].limit
        [] Algorithm[p] = "token_bucket" ->
             NoCharge(p, units) \/ units <= BucketAt(p, now).remaining
        [] OTHER ->
             /\ Metric[p] = "spend" => cost # Unknown
             /\ NoCharge(p, units) \/ row.consumed + row.reserved + units <= policy[p].limit

\* applyPlan, for each of its tables.
Hit(ps, algorithms, first, est, cost) ==
  {p \in ps : Algorithm[p] \in algorithms /\ (Reserves(p) \/ Charge(p, first, est, cost) > 0)}

PlannedQuota(ps, now, first, est, cost) ==
  [p \in Policies |->
     IF p \in Hit(ps, {"quota", "fixed_window"}, first, est, cost)
     THEN LET units == Charge(p, first, est, cost) IN
          [quota[p] EXCEPT ![PeriodStart(p, now)] =
             IF Reserves(p) THEN [consumed |-> @.consumed, reserved |-> @.reserved + units]
                            ELSE [consumed |-> @.consumed + units, reserved |-> @.reserved]]
     ELSE quota[p]]

PlannedBucket(ps, now, first, est, cost) ==
  [p \in Policies |->
     IF p \in Hit(ps, {"token_bucket"}, first, est, cost)
     THEN [BucketAt(p, now) EXCEPT !.remaining = @ - Charge(p, first, est, cost)]
     ELSE bucket[p]]

PlannedReservations(ps, now, est, cost) ==
  [p \in Policies |->
     IF p \in ps /\ Reserves(p)
     THEN [state |-> "active",
           units |-> IF Metric[p] = "spend" THEN cost ELSE est,
           period |-> IF Algorithm[p] = "token_bucket" THEN 0 ELSE PeriodStart(p, now)]
     ELSE NoReservation]

PlannedLeases(ps, r, a) ==
  {<<p, LeaseId(p, r, a)>> : p \in {q \in ps : Algorithm[q] = "concurrency"}}

\* requireOutboxCapacity: every active attempt keeps room for the event that
\* will close it.
OutboxCapacity(additional) == outbox + Cardinality(Active) + additional <= MaxOutbox

CostOf(price, tokens) == IF price = Unknown \/ tokens = Unknown THEN Unknown ELSE tokens * Rate[price]
-----------------------------------------------------------------------------
(* Admission and dispatch. *)

\* A later attempt of the same key's request, after a non-final settlement.
Continues(r, k) == rState[r] = "in_progress" /\ rKey[r] = k

\* Admit inserts the request or continues an in_progress one, and reserves in
\* every matching policy or in none. wall is the larger of the wall clock and
\* the caller's quote time; the persisted clock keeps the effective time from
\* running backwards. priced is FALSE for work whose price is unavailable.
Admit(r, a, k, c, est, wall, priced) ==
  LET first == rState[r] = "absent"
      now == EffectiveTime(wall)
      price == IF priced THEN catalog[now] ELSE Unknown
      cost == CostOf(price, est)
      ps == MatchingPolicies(k, c)
  IN  /\ aState[a] = "absent"
      /\ <<k, c>> \in granted
      /\ first \/ Continues(r, k)
      /\ OutboxCapacity(2)
      /\ \A p \in ps : Permits(p, r, a, now, first, est, cost)
      /\ clock' = now
      /\ rState' = [rState EXCEPT ![r] = "reserved"]
      /\ rKey' = [rKey EXCEPT ![r] = k]
      /\ aState' = [aState EXCEPT ![a] = "reserved"]
      /\ aReq' = [aReq EXCEPT ![a] = r]
      /\ aConn' = [aConn EXCEPT ![a] = c]
      /\ aStart' = [aStart EXCEPT ![a] = now]
      /\ aPrice' = [aPrice EXCEPT ![a] = price]
      /\ quota' = PlannedQuota(ps, now, first, est, cost)
      /\ bucket' = PlannedBucket(ps, now, first, est, cost)
      /\ resv' = [resv EXCEPT ![a] = PlannedReservations(ps, now, est, cost)]
      /\ leases' = leases \cup PlannedLeases(ps, r, a)
      /\ outbox' = outbox + 1
      /\ UNCHANGED <<factVars, confVars>>

MarkDispatching(a) ==
  /\ aState[a] = "reserved"
  /\ aState' = [aState EXCEPT ![a] = "dispatching"]
  /\ UNCHANGED <<clock, rState, rKey, aReq, aConn, aStart, aPrice, factVars, counterVars, leases, outbox, confVars>>

MarkStreaming(a) ==
  /\ aState[a] = "dispatching"
  /\ aState' = [aState EXCEPT ![a] = "streaming"]
  /\ UNCHANGED <<clock, rState, rKey, aReq, aConn, aStart, aPrice, factVars, counterVars, leases, outbox, confVars>>

-----------------------------------------------------------------------------
(* Reservations. *)

\* Units released in policy p (of the period that starts at t) when the
\* reservations of the attempts S leave the state st.
Held(S, p, t, st) ==
  SumFunctionOnSet([a \in Attempts |-> resv[a][p].units],
                   {a \in S : resv[a][p].state = st /\ resv[a][p].period = t})

\* releaseReservations: what was reserved goes back to its own period or bucket.
ReleasedQuota(S) ==
  [p \in Policies |->
     IF Algorithm[p] = "token_bucket" THEN quota[p]
     ELSE [t \in Times |->
             IF quota[p][t].reserved >= Held(S, p, t, "active")
             THEN [consumed |-> quota[p][t].consumed,
                   reserved |-> quota[p][t].reserved - Held(S, p, t, "active")]
             ELSE quota[p][t]]]

ReleasedBucket(S) ==
  [p \in Policies |->
     IF Algorithm[p] = "token_bucket" /\ \E a \in S : resv[a][p].state = "active"
     THEN [bucket[p] EXCEPT !.remaining = Smaller(policy[p].limit, @ + Held(S, p, 0, "active"))]
     ELSE bucket[p]]

\* Reservations of the attempts S that are in state "from" move to state "to".
Moved(S, from, to) ==
  [a \in Attempts |->
     IF a \in S
     THEN [p \in Policies |->
             IF resv[a][p].state = from THEN [resv[a][p] EXCEPT !.state = to] ELSE resv[a][p]]
     ELSE resv[a]]

\* settlementUnits: what the facts say the policy should have been charged.
SettlementUnits(p, tokens, cost) == IF Metric[p] = "tokens" THEN tokens ELSE cost

\* Reservations of a in state st whose charge the facts determine.
Resolvable(a, st, tokens, cost) ==
  {p \in Policies : resv[a][p].state = st /\ SettlementUnits(p, tokens, cost) # Unknown}

\* The period a reservation was made in, which its resolution charges.
ReservationPeriod(a, p) == resv[a][p].period

\* The reserved units become the actual ones in the reservation's own period
\* (updateQuotaPeriod) or bucket, for the policies ps.
ResolvedQuota(a, ps, tokens, cost) ==
  [p \in Policies |->
     IF p \in ps /\ Algorithm[p] # "token_bucket"
     THEN [quota[p] EXCEPT ![ReservationPeriod(a, p)] =
             [consumed |-> @.consumed + SettlementUnits(p, tokens, cost),
              reserved |-> @.reserved - resv[a][p].units]]
     ELSE quota[p]]

ResolvedBucket(a, ps, tokens, cost) ==
  [p \in Policies |->
     IF p \in ps /\ Algorithm[p] = "token_bucket"
     THEN [bucket[p] EXCEPT !.remaining =
             Smaller(policy[p].limit, @ + resv[a][p].units - SettlementUnits(p, tokens, cost))]
     ELSE bucket[p]]

-----------------------------------------------------------------------------
(* Closing attempts and requests. *)

LeasesOf(id) == {l \in leases : l[2] = id}

\* CancelBeforeDispatch: only work that never reached the provider.
CancelBeforeDispatch(a) ==
  /\ aState[a] = "reserved"
  /\ quota' = ReleasedQuota({a})
  /\ bucket' = ReleasedBucket({a})
  /\ resv' = Moved({a}, "active", "released")
  /\ leases' = leases \ (LeasesOf(a) \cup LeasesOf(aReq[a]))
  /\ aState' = [aState EXCEPT ![a] = "cancelled_before_dispatch"]
  /\ rState' = [rState EXCEPT ![aReq[a]] = "cancelled"]
  /\ usage' = [usage EXCEPT ![a].status = "estimated"]
  /\ outbox' = outbox + 1
  /\ UNCHANGED <<clock, rKey, aReq, aConn, aStart, aPrice, ledger, assessed, confVars>>

Settleable(a) == aState[a] \in ActiveStates

\* Leases a settlement frees: those of the request only with its last attempt.
Freed(a, final) == LeasesOf(a) \cup (IF final THEN LeasesOf(aReq[a]) ELSE {})

\* Settle. A replay under the same idempotency key, and any other settlement
\* of a closed attempt (ErrConflict), leaves the database as it is.
Settle(a, state, status, tokens, reported, final) ==
  LET cost == IF reported # Unknown THEN reported ELSE CostOf(aPrice[a], tokens)
      known == IF status = "unknown" THEN {} ELSE Resolvable(a, "active", tokens, cost)
  IN  /\ Settleable(a)
      /\ ledger' = [ledger EXCEPT ![a].settlements = @ + 1,
                                  ![a].tokens = OrZero(tokens), ![a].cost = OrZero(cost)]
      /\ quota' = ResolvedQuota(a, known, tokens, cost)
      /\ bucket' = ResolvedBucket(a, known, tokens, cost)
      /\ resv' = [resv EXCEPT ![a] = [p \in Policies |->
                     IF p \in known THEN [@[p] EXCEPT !.state = "settled"]
                     ELSE IF @[p].state = "active" THEN [@[p] EXCEPT !.state = "uncertain"]
                     ELSE @[p]]]
      /\ usage' = [usage EXCEPT ![a] = [status |-> status, tokens |-> tokens, cost |-> cost]]
      /\ assessed' = IF aPrice[a] # Unknown /\ cost # Unknown
                     THEN assessed \cup {<<a, aPrice[a], "recorded">>} ELSE assessed
      /\ aState' = [aState EXCEPT ![a] = state]
      /\ rState' = [rState EXCEPT ![aReq[a]] = IF final THEN state ELSE "in_progress"]
      /\ leases' = leases \ Freed(a, final)
      /\ outbox' = outbox + 1
      /\ UNCHANGED <<clock, rKey, aReq, aConn, aStart, aPrice, confVars>>

\* CloseFailedRequest closes a request whose next attempt was not admitted.
CloseFailedRequest(r) ==
  /\ rState[r] = "in_progress"
  /\ rState' = [rState EXCEPT ![r] = "failed"]
  /\ leases' = leases \ LeasesOf(r)
  /\ UNCHANGED <<clock, rKey, aState, aReq, aConn, aStart, aPrice, factVars, counterVars, outbox, confVars>>

\* FinalizeRequestTx closes a request after its result has been published.
FinalizeRequest(r, state) ==
  /\ ActiveOf(r) = {}
  /\ rState[r] = "in_progress"
  /\ rState' = [rState EXCEPT ![r] = state]
  /\ leases' = leases \ LeasesOf(r)
  /\ UNCHANGED <<clock, rKey, aState, aReq, aConn, aStart, aPrice, factVars, counterVars, outbox, confVars>>

\* RepairStaleRequests fails the in_progress requests S with no open attempt
\* whose attempts ended staleRequestRepairAge ago; when that is, and whether a
\* queued response or batch item still holds the request, is left open.
RepairStaleRequests(S) ==
  /\ S # {}
  /\ \A r \in S : rState[r] = "in_progress" /\ ActiveOf(r) = {}
  /\ rState' = [r \in Requests |-> IF r \in S THEN "failed" ELSE rState[r]]
  /\ leases' = {l \in leases : l[2] \notin S}
  /\ UNCHANGED <<clock, rKey, aState, aReq, aConn, aStart, aPrice, factVars, counterVars, outbox, confVars>>

\* Recover, the first transaction after a restart: reserved work is released,
\* dispatched work has an unknown outcome and keeps its reservations.
Recover(wall) ==
  LET undispatched == {a \in Attempts : aState[a] = "reserved"}
      interrupted == Active \ undispatched
      outcome == [a \in Attempts |->
                    IF a \in undispatched THEN "cancelled_before_dispatch"
                    ELSE IF a \in interrupted THEN "interrupted_unknown" ELSE aState[a]]
  IN  /\ quota' = ReleasedQuota(undispatched)
      /\ bucket' = ReleasedBucket(undispatched)
      /\ resv' = [a \in Attempts |-> IF a \in interrupted
                                     THEN Moved(interrupted, "active", "uncertain")[a]
                                     ELSE Moved(undispatched, "active", "released")[a]]
      /\ aState' = outcome
      /\ usage' = [a \in Attempts |->
                     IF a \in undispatched THEN [usage[a] EXCEPT !.status = "estimated"]
                     ELSE IF a \in interrupted THEN [usage[a] EXCEPT !.status = "unknown"] ELSE usage[a]]
      /\ rState' = [r \in Requests |->
                      IF \E a \in interrupted : aReq[a] = r THEN "interrupted_unknown"
                      ELSE IF \E a \in undispatched : aReq[a] = r THEN "cancelled"
                      ELSE IF rState[r] = "in_progress" THEN "failed" ELSE rState[r]]
      /\ leases' = {}
      /\ clock' = EffectiveTime(wall)
      /\ outbox' = outbox + Cardinality(Active)
      /\ UNCHANGED <<rKey, aReq, aConn, aStart, aPrice, ledger, assessed, confVars>>

-----------------------------------------------------------------------------
(* Later corrections by an operator. *)

\* The cost delta a reconciliation or a repricing appends to the ledger.
Correction(old, given) == IF given = Unknown THEN 0 ELSE given - OrZero(old)

\* ReconcileUnknown records the facts of an attempt whose usage or cost is
\* missing, and resolves the reservations they determine.
ReconcileUnknown(a, status, tokens, reported) ==
  LET old == usage[a]
      given == IF reported # Unknown THEN reported
               ELSE IF old.cost = Unknown THEN CostOf(aPrice[a], tokens) ELSE Unknown
      cost == IF given # Unknown THEN given ELSE old.cost
      known == Resolvable(a, "uncertain", tokens, cost)
      unresolved == \E p \in Policies : resv[a][p].state = "uncertain"
  IN  /\ aState[a] \in SettledStates
      /\ \/ aState[a] = "interrupted_unknown" /\ old.status = "unknown"
         \/ unresolved \/ old.tokens = Unknown \/ old.cost = Unknown
      /\ ledger[a].reconciled => old.tokens \in {Unknown, tokens}
      /\ OutboxCapacity(1)
      /\ quota' = ResolvedQuota(a, known, tokens, cost)
      /\ bucket' = ResolvedBucket(a, known, tokens, cost)
      /\ resv' = [resv EXCEPT ![a] = [p \in Policies |->
                     IF p \in known THEN [@[p] EXCEPT !.state = "settled"] ELSE @[p]]]
      /\ usage' = [usage EXCEPT ![a] =
                     [status |-> IF cost # Unknown THEN status ELSE "unknown",
                      tokens |-> tokens, cost |-> cost]]
      /\ ledger' = [ledger EXCEPT ![a].reconciled = TRUE,
                       ![a].tokens = @ + tokens - OrZero(old.tokens),
                       ![a].cost = @ + Correction(old.cost, given)]
      /\ outbox' = outbox + 1
      /\ UNCHANGED <<clock, lifeVars, assessed, leases, confVars>>

\* reconcileSpendPeriods: the spend reservations of the attempts S follow their
\* new cost, amount[a]. An uncertain one is resolved, unless it holds no units
\* and costs nothing.
SpendResolved(a, p, amount) == resv[a][p].state = "uncertain" /\ (amount # 0 \/ resv[a][p].units # 0)

\* A settled reservation was already charged the old cost.
SpendChange(a, p, amount) ==
  IF resv[a][p].state = "settled" THEN amount - OrZero(usage[a].cost) ELSE amount

RespentQuota(S, amount) ==
  [p \in Policies |->
     IF Metric[p] # "spend" THEN quota[p]
     ELSE [t \in Times |->
       LET here == {a \in S : resv[a][p].period = t /\ resv[a][p].state \in {"settled", "uncertain"}}
           change == [a \in here |-> SpendChange(a, p, amount[a])]
       IN  [consumed |-> quota[p][t].consumed + SumFunctionOnSet(change, here),
            reserved |-> quota[p][t].reserved - Held(here, p, t, "uncertain")]]]

RespentReservations(S, amount) ==
  [a \in Attempts |-> [p \in Policies |->
     IF a \in S /\ Metric[p] = "spend" /\ SpendResolved(a, p, amount[a])
     THEN [resv[a][p] EXCEPT !.state = "settled"] ELSE resv[a][p]]]

\* ApplyReprice restates every attempt of a connection started in [from, to)
\* whose usage is known, once per price version: also the one it was settled
\* with, whose assessment is a row of another kind.
ApplyReprice(c, from, to) ==
  LET items == {a \in Attempts : /\ aConn[a] = c /\ aStart[a] >= from /\ aStart[a] < to
                                 /\ usage[a].tokens # Unknown /\ usage[a].status # "unknown"
                                 /\ catalog[aStart[a]] # Unknown}
      amount == [a \in items |-> CostOf(catalog[aStart[a]], usage[a].tokens) + ledger[a].adjusted]
      applied == {a \in items : <<a, catalog[aStart[a]], "restated">> \notin assessed}
  IN  /\ applied # {}
      /\ \A a \in items : amount[a] >= 0
      /\ OutboxCapacity(Cardinality(items))
      /\ quota' = RespentQuota(applied, amount)
      /\ \A p \in Policies, t \in Times : quota'[p][t].consumed >= 0
      /\ resv' = RespentReservations(applied, amount)
      /\ usage' = [a \in Attempts |-> IF a \in applied THEN [usage[a] EXCEPT !.cost = amount[a]] ELSE usage[a]]
      /\ ledger' = [a \in Attempts |->
                      IF a \in applied THEN [ledger[a] EXCEPT !.cost = @ + Correction(usage[a].cost, amount[a])]
                      ELSE ledger[a]]
      /\ assessed' = assessed \cup {<<a, catalog[aStart[a]], "restated">> : a \in applied}
      /\ outbox' = outbox + Cardinality(applied)
      /\ UNCHANGED <<clock, lifeVars, bucket, leases, confVars>>

\* AdjustCost applies a signed correction to an attempt whose usage is known.
AdjustCost(a, delta) ==
  LET next == [b \in {a} |-> OrZero(usage[b].cost) + delta]
  IN  /\ aState[a] \in SettledStates
      /\ usage[a].status # "unknown"
      /\ next[a] \in 0..MaxCost
      /\ OutboxCapacity(1)
      /\ quota' = RespentQuota({a}, next)
      /\ \A p \in Policies, t \in Times : quota'[p][t].consumed >= 0
      /\ resv' = RespentReservations({a}, next)
      /\ usage' = [usage EXCEPT ![a].cost = next[a]]
      /\ ledger' = [ledger EXCEPT ![a].cost = @ + delta, ![a].adjusted = @ + delta]
      /\ outbox' = outbox + 1
      /\ UNCHANGED <<clock, lifeVars, assessed, bucket, leases, confVars>>

-----------------------------------------------------------------------------
(* Configuration, and the projection that drains the outbox. *)

\* UpdatePolicy changes the limit and the switch; counters keep their rows.
UpdatePolicy(p, setting) ==
  /\ policy' = [policy EXCEPT ![p] = setting]
  /\ UNCHANGED <<clock, lifeVars, factVars, counterVars, leases, outbox, granted, catalog>>

\* CreatePrice makes v the open-ended version from the instant from on. It
\* closes the open version that began earlier, unless an attempt snapshotted
\* that version at or after from, and overlaps no version that began later.
CreatePrice(v, from) ==
  LET previous == IF from = 0 THEN Unknown ELSE catalog[from - 1]
  IN  /\ \A t \in Times : catalog[t] # v
      /\ \A t \in from..MaxTime : catalog[t] \in {previous, Unknown}
      /\ previous # Unknown => \A a \in Attempts : aPrice[a] = previous => aStart[a] < from
      /\ catalog' = [t \in Times |-> IF t >= from THEN v ELSE catalog[t]]
      /\ UNCHANGED <<clock, lifeVars, factVars, counterVars, leases, outbox, granted, policy>>

\* The keys, users and providers services change who may use what.
ChangeGrants(g) ==
  /\ granted' = g
  /\ UNCHANGED <<clock, lifeVars, factVars, counterVars, leases, outbox, policy, catalog>>

\* ProjectOutbox acknowledges one event.
Deliver ==
  /\ outbox > 0
  /\ outbox' = outbox - 1
  /\ UNCHANGED <<clock, lifeVars, factVars, counterVars, leases, confVars>>

Next ==
  \/ \E r \in Requests, a \in Attempts, k \in Keys, c \in Connections, est \in Units,
        wall \in Times, priced \in BOOLEAN : Admit(r, a, k, c, est, wall, priced)
  \/ \E a \in Attempts : MarkDispatching(a) \/ MarkStreaming(a) \/ CancelBeforeDispatch(a)
  \/ \E a \in Attempts, state \in Outcomes, status \in {"provider_reported", "unknown"},
        tokens \in Units \cup {Unknown}, cost \in Costs \cup {Unknown}, final \in BOOLEAN :
        Settle(a, state, status, tokens, cost, final)
  \/ \E r \in Requests : CloseFailedRequest(r) \/ \E state \in Outcomes : FinalizeRequest(r, state)
  \/ \E S \in SUBSET Requests : RepairStaleRequests(S)
  \/ \E wall \in Times : Recover(wall)
  \/ \E a \in Attempts, tokens \in Reported, cost \in ReconciledCosts \cup {Unknown} :
        ReconcileUnknown(a, "provider_reported", tokens, cost)
  \/ \E c \in Connections, from \in Times, to \in 1..MaxTime + 1 : ApplyReprice(c, from, to)
  \/ \E a \in Attempts, delta \in Deltas : AdjustCost(a, delta)
  \/ \E p \in Policies : \E setting \in Settings[p] : UpdatePolicy(p, setting)
  \/ \E v \in Prices, from \in Times : CreatePrice(v, from)
  \/ \E g \in Grants : ChangeGrants(g)
  \/ Deliver

Spec == Init /\ [][Next]_vars

-----------------------------------------------------------------------------
(* Properties. *)

\* A request is "reserved" exactly while one attempt of it is open, and never
\* has two: what Admit, Settle, Recover and the three closing operations rely
\* on when they read or write only one of the two states.
OneOpenAttempt ==
  /\ \A a \in Active : aReq[a] \in Requests /\ rState[aReq[a]] = "reserved"
  /\ \A r \in Requests : rState[r] = "reserved" => ActiveOf(r) # {}
  /\ \A a, b \in Active : aReq[a] = aReq[b] => a = b

\* Whatever the interleaving of admissions, settlements, corrections and
\* restarts, the undelivered events and one closing event per open attempt fit
\* in the outbox: Settle, CancelBeforeDispatch and Recover, which append
\* without checking, cannot overflow it (requireOutboxCapacity).
OutboxRoom == outbox + Cardinality(Active) <= MaxOutbox

\* A concurrency lease belongs to a request that is not closed or to an attempt
\* that is open: no path (cancel, settle, close, finalize, repair, restart)
\* leaks a slot of the limit.
LeasesAreLive ==
  \A l \in leases : l[2] \in OpenRequests \/ l[2] \in Active

\* The reserved units of every quota period are the unresolved reservations
\* made in it, so capacity is neither leaked nor returned twice, also when
\* settlement happens after the clock left the period.
ReservedIsOutstanding ==
  \A p \in Policies, t \in Times :
    Algorithm[p] # "token_bucket" =>
      quota[p][t].reserved = Held(Attempts, p, t, "active") + Held(Attempts, p, t, "uncertain")

\* What policy p is charged for an attempt with these facts.
Charged(p, facts) == OrZero(IF Metric[p] = "spend" THEN facts.cost ELSE facts.tokens)

\* The spend and the tokens charged to a period are the current cost and tokens
\* of the attempts admitted in it and settled, whenever they were settled and
\* through reconciliation, repricing and adjustment in any order (settle,
\* ReconcileUnknown without a cost of its own, ApplyReprice, AdjustCost).
PeriodsRestateUsage ==
  \A p \in Policies, t \in Times :
    Metric[p] \in {"spend", "tokens"} /\ Algorithm[p] # "token_bucket" =>
      quota[p][t].consumed =
        SumFunctionOnSet([a \in Attempts |-> Charged(p, usage[a])],
                         {a \in Attempts : resv[a][p].state = "settled" /\ resv[a][p].period = t})

\* A reconciliation gives an attempt other facts than a settled reservation of
\* it was charged (ReconcileUnknown, settlement.go:528): no period follows.
RestatesSettled ==
  \E a \in Attempts, tokens \in Reported, cost \in ReconciledCosts \cup {Unknown} :
    /\ ReconcileUnknown(a, "provider_reported", tokens, cost)
    /\ \E p \in Policies : resv[a][p].state = "settled" /\ Charged(p, usage'[a]) # Charged(p, usage[a])

\* What policy p counts under the metrics requests and concurrency: attempts on
\* the connection of a connection policy, else whole requests.
Counted(p) ==
  IF ScopeKind[p] = "connection"
  THEN {a \in Attempts : aState[a] # "absent" /\ aConn[a] = ScopeId[p]}
  ELSE {r \in Requests : /\ rState[r] # "absent"
                         /\ \/ ScopeKind[p] = "instance"
                            \/ ScopeKind[p] = "user" /\ ScopeId[p] = Owner[rKey[r]]
                            \/ ScopeKind[p] = "key" /\ ScopeId[p] = rKey[r]}
CountedAt(p, x) ==
  IF x \in Attempts THEN aStart[x] ELSE Min({aStart[a] : a \in {b \in Attempts : aReq[b] = x}})

\* A request counts once in the period of its first attempt, however many
\* fallbacks, cancellations and restarts follow, and no period goes over the
\* limit (as long as the policy itself is left alone).
RequestsCountOnce ==
  \A p \in Policies, t \in Times :
    Metric[p] = "requests" /\ Algorithm[p] # "token_bucket" =>
      /\ quota[p][t].consumed =
           Cardinality({x \in Counted(p) : PeriodStart(p, CountedAt(p, x)) = t})
      /\ quota[p][t].consumed <= policy[p].limit

\* What has been taken out of bucket p and not been given back.
Taken(p) ==
  IF Metric[p] = "requests" THEN Cardinality(Counted(p))
  ELSE Held(Attempts, p, 0, "active") + Held(Attempts, p, 0, "uncertain")
       + SumFunctionOnSet([a \in Attempts |-> OrZero(usage[a].tokens)],
                          {a \in Attempts : resv[a][p].state = "settled"})

\* A bucket never grants more than its capacity and what the effective time
\* since the epoch refills: not by counting time twice when the wall clock
\* steps back, not by losing or duplicating the remainder of a refill, and not
\* by returning a reservation twice.
BucketNeverOvergrants ==
  \A p \in Policies :
    Algorithm[p] = "token_bucket" /\ bucket[p].exists =>
      (bucket[p].remaining + Taken(p)) * Interval[p] + bucket[p].remainder
        <= policy[p].limit * Interval[p] + bucket[p].at * Refill[p]

\* The work in flight under a concurrency policy stays within its limit: a
\* retry keeps the slot of its request and no path frees a slot in use.
ConcurrencyIsBounded ==
  \A p \in Policies :
    Algorithm[p] = "concurrency" =>
      Cardinality({x \in Counted(p) : x \in Active \/ x \in OpenRequests})
        <= policy[p].limit

\* The append-only ledger explains the attempt row: one settlement at most, and
\* its deltas add up to the tokens and cost the row shows.
LedgerExplainsUsage ==
  \A a \in Attempts :
    /\ ledger[a].settlements <= 1
    /\ ledger[a].tokens = OrZero(usage[a].tokens)
    /\ ledger[a].cost = OrZero(usage[a].cost)

\* A closed request and a closed attempt stay as they were closed: a late
\* settlement, a repair or a restart never reopens or relabels them.
KeepsClosed ==
  /\ \A r \in Requests : Terminal(r) => rState'[r] = rState[r]
  /\ \A a \in Attempts : aState[a] \in SettledStates \cup {"cancelled_before_dispatch"}
                          => aState'[a] = aState[a]
ClosedStaysClosed == [][KeepsClosed]_vars

\* The wall clock may step back, also over a restart; the effective time of
\* admissions never does, so a later attempt is never charged to an earlier
\* period than one already admitted.
AdmitsInOrder ==
  /\ clock' >= clock
  /\ \A a, b \in Attempts : (aState[a] # "absent" /\ aState[b] = "absent" /\ aState'[b] # "absent")
                             => aStart'[b] >= aStart[a]
AdmissionTimeIsMonotone == [][AdmitsInOrder]_vars
=============================================================================
