----------------------------- MODULE Providers -----------------------------
(***************************************************************************)
(* Provider connections, the route of a public model, and the requests     *)
(* that are planned, dispatched and observed on it while managers change   *)
(* both.  The catalog of candidate models is left out.                     *)
(*                                                                         *)
(* Every writer of the configuration takes the dispatch lock exclusively;  *)
(* a request takes it shared from BeginDispatch until it is written.  A    *)
(* plan is read without the lock, in two queries.  An edit that carries a  *)
(* stale revision is refused, so the edits below carry the current one.    *)
(***************************************************************************)
EXTENDS Naturals, Sequences, FiniteSets, SequencesExt

CONSTANTS
  Connections, Models, Requests,
  ConnectionOf,  \* the connection of each upstream model
  Endpoints,     \* an adapter, base URL and preset
  Keyless,       \* endpoints whose preset needs no credential
  Scripted,      \* endpoints whose preset takes adapter scripts
  Cost,          \* the estimated cost of each model, or None
  Free,          \* models with a verified zero price
  Strategies,    \* the routing strategies managers use
  Latencies,     \* observed latencies
  Threshold,     \* consecutive failures that open a circuit
  Bundles,       \* the configuration bundles that owners import
  MaxRevision,   \* bound on the revisions of a connection and of the route
  None

ASSUME ProvidersAssumption ==
  /\ Free \subseteq Models /\ Keyless \subseteq Endpoints /\ Scripted \subseteq Endpoints
  /\ ConnectionOf \in [Models -> Connections]
  /\ Strategies \subseteq {"fixed", "ordered_fallback", "weighted", "lowest_cost", "lowest_latency"}
\* What a decoded bundle holds.
ASSUME BundlesAssumption ==
  \A bundle \in Bundles :
    /\ bundle.connection \in Connections /\ bundle.endpoint \in Endpoints /\ bundle.enabled \in BOOLEAN
    /\ bundle.script \in Nat \cup {None} /\ bundle.active \subseteq Models

VARIABLES
  conns,     \* provider_connections, provider_credentials, provider_adapter_scripts
  upstream,  \* upstream_models: the models that were added
  route,     \* the public model and its public_model_targets, by priority
  circuit,   \* route_observations: consecutive failures, and circuit_open_until ahead
  request    \* the rows each request was planned from, its plan and its place in it;
             \* history: the eligible targets, and those behind a failed credential

vars == <<conns, upstream, route, circuit, request>>
config == <<conns, upstream, route>>

NoConnection == [exists |-> FALSE, enabled |-> FALSE, endpoint |-> None, credential |-> None, script |-> None, revision |-> 0]
NoRoute == [strategy |-> None, free |-> FALSE, targets |-> <<>>, primary |-> None, revision |-> 0]
Idle == [pc |-> "idle", strategy |-> None, free |-> FALSE, rows |-> <<>>, eligible |-> {}, behind |-> {}, plan |-> <<>>, at |-> 1]

Init ==
  /\ conns = [c \in Connections |-> NoConnection]
  /\ upstream = {}
  /\ route = NoRoute
  /\ circuit = [m \in Models |-> [failures |-> 0, open |-> FALSE]]
  /\ request = [r \in Requests |-> Idle]

-----------------------------------------------------------------------------
(* Managers.  The lock is free when no request is being written. *)

Unlocked == \A r \in Requests : request[r].pc # "sending"
Unsaved == UNCHANGED <<circuit, request>>

CreateConnection(c, endpoint) ==
  /\ Unlocked /\ ~conns[c].exists
  /\ conns' = [conns EXCEPT ![c] = [NoConnection EXCEPT !.exists = TRUE, !.enabled = TRUE, !.endpoint = endpoint, !.revision = 1]]
  /\ UNCHANGED <<upstream, route>> /\ Unsaved

Editable(c) == Unlocked /\ conns[c].exists /\ conns[c].revision < MaxRevision
Edited(connection) == [connection EXCEPT !.revision = @ + 1]

\* A credential is for the endpoint it was given for.
Moved(connection, endpoint) ==
  [connection EXCEPT !.endpoint = endpoint,
                     !.credential = IF endpoint = connection.endpoint THEN @ ELSE None,
                     !.script = IF endpoint \in Scripted THEN @ ELSE None]
UpdateConnection(c, endpoint, enabled) ==
  /\ Editable(c)
  /\ conns' = [conns EXCEPT ![c] = Edited(Moved([conns[c] EXCEPT !.enabled = enabled], endpoint))]
  /\ UNCHANGED <<upstream, route>> /\ Unsaved

WithCredentialOnly(connection, serial) ==
  [connection EXCEPT !.credential = [endpoint |-> connection.endpoint, serial |-> serial]]
WithCredential(connection, serial) ==
  [Edited(connection) EXCEPT !.credential = [endpoint |-> connection.endpoint, serial |-> serial]]
PutCredential(c) ==
  /\ Editable(c)
  /\ conns' = [conns EXCEPT ![c] = WithCredential(@, @.revision)]
  /\ UNCHANGED <<upstream, route>> /\ Unsaved

\* PutAdapterScript (a version) and DeleteAdapterScript (None).
SetAdapterScript(c, script) ==
  /\ Editable(c) /\ (script # None => conns[c].endpoint \in Scripted)
  /\ conns' = [conns EXCEPT ![c] = [Edited(@) EXCEPT !.script = script]]
  /\ UNCHANGED <<upstream, route>> /\ Unsaved

CreateUpstreamModel(m) ==
  /\ Unlocked /\ conns[ConnectionOf[m]].exists /\ m \notin upstream
  /\ upstream' = upstream \cup {m}
  /\ UNCHANGED <<conns, route>> /\ Unsaved

CreatePublicModel(m) ==
  /\ Unlocked /\ route.revision = 0 /\ m \in upstream
  /\ route' = [strategy |-> "fixed", free |-> FALSE, targets |-> <<[model |-> m, enabled |-> TRUE]>>, primary |-> m, revision |-> 1]
  /\ UNCHANGED <<conns, upstream>> /\ Unsaved

\* Targets are unique, at least one is enabled, and a fixed route has one.
Configurable(strategy, targets) ==
  /\ \A i \in DOMAIN targets : targets[i].model \in upstream
  /\ \E i \in DOMAIN targets : targets[i].enabled
  /\ strategy = "fixed" => Len(targets) = 1
FirstEnabled(targets) == SelectSeq(targets, LAMBDA t : t.enabled)[1].model
TargetLists ==
  {[i \in DOMAIN order |-> [model |-> order[i], enabled |-> order[i] \in on]] :
     order \in UNION {SetToSeqs(chosen) : chosen \in SUBSET Models \ {{}}}, on \in SUBSET Models}
ConfigureRoute(strategy, free, targets) ==
  /\ Unlocked /\ route.revision \in 1..(MaxRevision - 1) /\ Configurable(strategy, targets)
  /\ route' = [strategy |-> strategy, free |-> free, targets |-> targets,
               primary |-> FirstEnabled(targets), revision |-> route.revision + 1]
  /\ UNCHANGED <<conns, upstream>> /\ Unsaved

\* PreviewConfig: what a bundle says of itself.  Its targets may be inactive.
Acceptable(bundle) ==
  /\ bundle.script # None => bundle.endpoint \in Scripted
  /\ \A i \in DOMAIN bundle.targets : ConnectionOf[bundle.targets[i].model] = bundle.connection
  /\ \E i \in DOMAIN bundle.targets : bundle.targets[i].enabled
  /\ bundle.strategy = "fixed" => Len(bundle.targets) = 1
\* ImportConfig: one transaction that writes a connection with its models and
\* the route.
ImportConfig(bundle) ==
  LET c == bundle.connection
      models == {bundle.targets[i].model : i \in DOMAIN bundle.targets}
      named == [conns[c] EXCEPT !.exists = TRUE, !.enabled = bundle.enabled]
  IN  /\ Unlocked /\ Acceptable(bundle)
      /\ conns[c].revision < MaxRevision /\ route.revision < MaxRevision
      /\ conns' = [conns EXCEPT ![c] = [Edited(Moved(named, bundle.endpoint)) EXCEPT !.script = bundle.script]]
      /\ upstream' = (upstream \ models) \cup bundle.active
      /\ route' = [strategy |-> bundle.strategy, free |-> bundle.free, targets |-> bundle.targets,
                   primary |-> FirstEnabled(bundle.targets), revision |-> route.revision + 1]
      /\ UNCHANGED <<circuit, request>>

-----------------------------------------------------------------------------
(* Planning a request: Route and orderRoute. *)

\* One row of the query: the configuration a target is read with.
Row(m) ==
  LET connection == conns[ConnectionOf[m]]
  IN  [endpoint |-> connection.endpoint, credential |-> connection.credential, script |-> connection.script,
       revision |-> connection.revision, routeRevision |-> route.revision]

\* The models of the rows, by priority.
ReadTargets ==
  LET targets == SelectSeq(route.targets, LAMBDA t : t.enabled /\ t.model \in upstream /\ conns[ConnectionOf[t.model]].enabled)
  IN  [i \in DOMAIN targets |-> targets[i].model]

\* refused: models that the key's grants or StaticTargetEligibility rule out.
\* broken: connections whose stored credential cannot be opened or resolved.
Eligible(m, refused, broken, free) ==
  LET connection == conns[ConnectionOf[m]]
  IN  /\ m \notin refused
      /\ IF connection.credential = None THEN connection.endpoint \in Keyless ELSE ConnectionOf[m] \notin broken
      /\ free => m \in Free
      /\ ~circuit[m].open

\* The error of a credential stays until the next one is opened, and rejects the
\* rows without a credential between them.
Opens(m, refused) == m \notin refused /\ conns[ConnectionOf[m]].credential # None
Failing(models, i, refused, broken) ==
  \E j \in 1..i : /\ Opens(models[j], refused) /\ ConnectionOf[models[j]] \in broken
                  /\ \A k \in (j + 1)..i : ~Opens(models[k], refused)
Offered(models, refused, broken, free) ==
  LET Passes(i) == Eligible(models[i], refused, broken, free) /\ ~Failing(models, i, refused, broken)
      kept == SelectSeq([i \in DOMAIN models |-> i], Passes)
  IN  [n \in DOMAIN kept |-> models[kept[n]]]

\* A model beats another by its cost or its known latency; models that do not
\* beat each other keep their priority.
Beats(strategy, latency, a, b) ==
  IF strategy = "lowest_cost" THEN Cost[a] < Cost[b]
  ELSE latency[a] # None /\ (latency[b] = None \/ latency[a] < latency[b])
Sorted(strategy, models, latency) ==
  LET Precedes(i, j) ==
        \/ Beats(strategy, latency, models[i], models[j])
        \/ ~Beats(strategy, latency, models[j], models[i]) /\ i < j
      order == SetToSortSeq(DOMAIN models, Precedes)
  IN  [i \in DOMAIN models |-> models[order[i]]]
Priced(models) == SelectSeq(models, LAMBDA m : Cost[m] # None)
Swapped(models, i) == [models EXCEPT ![1] = models[i], ![i] = models[1]]
Promoted(models, i) == [models EXCEPT ![1] = models[i]]

\* The orders a plan may take.  A weighted pick and the exploration of a second
\* target hash the seed of the request.
PicksPromoted(models) == IF models = <<>> THEN {<<>>} ELSE {Promoted(models, i) : i \in DOMAIN models}
Picks(models) == IF models = <<>> THEN {<<>>} ELSE {Swapped(models, i) : i \in DOMAIN models}
Orders(strategy, models, latency) ==
  CASE strategy = "fixed" -> {IF models = <<>> THEN models ELSE <<Head(models)>>}
    [] strategy = "ordered_fallback" -> {models}
    [] strategy = "weighted" -> Picks(models)
    [] strategy = "lowest_cost" -> {Sorted(strategy, Priced(models), latency)}
    [] strategy = "lowest_latency" ->
         LET sorted == Sorted(strategy, models, latency)
         IN  {sorted} \cup {Swapped(sorted, 2) : i \in {2} \cap DOMAIN sorted}

\* Route reads the strategy and the free-only flag, and then the targets.
RouteRead(r) ==
  /\ request[r].pc = "idle" /\ route.revision > 0
  /\ request' = [request EXCEPT ![r] = [@ EXCEPT !.pc = "planning", !.strategy = route.strategy, !.free = route.free]]
  /\ UNCHANGED <<config, circuit>>
RouteTargets(r, refused, broken, latency) ==
  /\ request[r].pc = "planning"
  /\ LET free == request[r].free
         models == ReadTargets
         offered == Offered(models, refused, broken, free)
         eligible == {m \in ToSet(models) : Eligible(m, refused, broken, free)}
         behind == {models[i] : i \in {n \in DOMAIN models : ~Opens(models[n], refused) /\ Failing(models, n, refused, broken)}}
     IN  \E plan \in Orders(request[r].strategy, offered, latency) :
           request' = [request EXCEPT ![r] = [@ EXCEPT !.pc = IF plan = <<>> THEN "over" ELSE "ready",
                                                       !.rows = [m \in Models |-> Row(m)],
                                                       !.eligible = eligible, !.behind = behind, !.plan = plan]]
  /\ UNCHANGED <<config, circuit>>

-----------------------------------------------------------------------------
(* Dispatch and observation. *)

TargetIsCurrentRoute(m, row) ==
  /\ route.revision = row.routeRevision
  /\ \E i \in DOMAIN route.targets : route.targets[i] = [model |-> m, enabled |-> TRUE]
TargetIsCurrent(m, row) ==
  /\ TargetIsCurrentRoute(m, row) /\ m \in upstream
  /\ conns[ConnectionOf[m]].enabled
  /\ conns[ConnectionOf[m]].revision = row.revision

\* The model whose turn it is, and what was read of it.
Target(r) == request[r].plan[request[r].at]
TargetRow(r) == request[r].rows[Target(r)]

\* BeginDispatch keeps the lock for a current target and ends the request otherwise.
BeginDispatch(r) ==
  /\ request[r].pc = "ready"
  /\ request' = [request EXCEPT ![r].pc = IF TargetIsCurrent(Target(r), TargetRow(r)) THEN "sending" ELSE "over"]
  /\ UNCHANGED <<config, circuit>>
Release(r) ==
  /\ request[r].pc = "sending"
  /\ request' = [request EXCEPT ![r].pc = "sent"]
  /\ UNCHANGED <<config, circuit>>

Observed(row, success) ==
  IF success THEN [failures |-> 0, open |-> FALSE]
  ELSE [failures |-> row.failures + 1,
        open |-> row.open \/ row.failures + 1 >= Threshold]
\* RecordRouteOutcome, and the next target of the plan after a failure.  The
\* count is kept at the threshold, which is all that is compared with it.
Capped(row) == [row EXCEPT !.failures = IF @ > Threshold THEN Threshold ELSE @]
Outcome(r, success) ==
  /\ request[r].pc = "sent"
  /\ circuit' = [circuit EXCEPT ![Target(r)] = Capped(Observed(@, success))]
  /\ request' = [request EXCEPT ![r] =
       IF ~success /\ @.at < Len(@.plan) THEN [request[r] EXCEPT !.pc = "ready", !.at = @ + 1] ELSE Idle]
  /\ UNCHANGED config
\* A client that left, or an outcome that says nothing about the target.
Leave(r) ==
  /\ request[r].pc \in {"sent", "over"}
  /\ request' = [request EXCEPT ![r] = Idle]
  /\ UNCHANGED <<config, circuit>>

\* circuitDuration after the failure that opened it or the last one since.
CircuitLapses(m) ==
  /\ circuit[m].open
  /\ circuit' = [circuit EXCEPT ![m].open = FALSE]
  /\ UNCHANGED <<config, request>>

-----------------------------------------------------------------------------
ManageConnections ==
  \E c \in Connections :
    \/ PutCredential(c)
    \/ \E endpoint \in Endpoints : CreateConnection(c, endpoint) \/ \E enabled \in BOOLEAN : UpdateConnection(c, endpoint, enabled)
    \/ \E script \in {None, conns[c].revision} : SetAdapterScript(c, script)

ManageRoute ==
  \/ \E m \in Models : CreateUpstreamModel(m) \/ CreatePublicModel(m)
  \/ \E strategy \in Strategies, free \in BOOLEAN, targets \in TargetLists : ConfigureRoute(strategy, free, targets)
  \/ \E bundle \in Bundles : ImportConfig(bundle)

Serve ==
  \E r \in Requests :
    \/ RouteRead(r) \/ BeginDispatch(r) \/ Release(r) \/ Leave(r)
    \/ \E success \in BOOLEAN : Outcome(r, success)
    \/ \E refused \in SUBSET Models, broken \in SUBSET Connections, latency \in [Models -> Latencies \cup {None}] :
         RouteTargets(r, refused, broken, latency)

Next == ManageConnections \/ ManageRoute \/ Serve \/ \E m \in Models : CircuitLapses(m)

Spec == Init /\ [][Next]_vars

-----------------------------------------------------------------------------
Sending == {r \in Requests : request[r].pc = "sending"}

\* BeginDispatch, PutCredential, UpdateConnection, SetAdapterScript,
\* ConfigureRoute: while a request is written, its endpoint, credential and
\* script are those of the connection now, the credential was given for that
\* endpoint, and the route still names the target.
SentAsConfigured ==
  \A r \in Sending :
    LET row == TargetRow(r)
    IN  /\ row = Row(Target(r)) /\ Target(r) \in upstream
        /\ row.credential # None => row.credential.endpoint = row.endpoint

\* Route, orderRoute: a plan that may fall back holds eligible targets only, none
\* twice, and every one of them but two kinds: those without a price for the
\* lowest cost, and those without a credential behind one that failed to open
\* (routing.go:477).  A request without a plan has no other eligible target.  The
\* lowest cost is in order of cost; what the other strategies start with is left
\* open.
PlansAreComplete ==
  \A r \in Requests : request[r].strategy # "fixed" =>
    LET plan == request[r].plan
        due == {m \in request[r].eligible : request[r].strategy = "lowest_cost" => Cost[m] # None}
    IN  /\ IsInjective(plan) /\ ToSet(plan) \subseteq due
        /\ due \ request[r].behind \subseteq ToSet(plan)
        /\ request[r].strategy = "lowest_cost" =>
             \A i, j \in DOMAIN plan : i < j => Cost[plan[i]] <= Cost[plan[j]]

\* Route, BeginDispatch: a request that is written to a target of a free-only
\* route goes to a verified free model.
FreeRoutesStayFree == \A r \in Sending : route.free => Target(r) \in Free
=============================================================================
