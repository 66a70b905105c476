--------------------------- MODULE ProvidersProofs ---------------------------
(***************************************************************************)
(* Proofs about Providers for every set of connections, models, requests   *)
(* and bundles, and every bound on the revisions.                          *)
(*                                                                         *)
(* A plan is read without the dispatch lock and may be stale when its turn *)
(* comes.  What BeginDispatch compares is the revision, so the invariant   *)
(* says that the revision of a connection stands for its contents: rows    *)
(* read at the current revision still hold the current endpoint, credential*)
(* and script, and no row is ahead of its connection (RowsArePinned).  The *)
(* lock keeps what was compared until the request is written (Locked).     *)
(***************************************************************************)
EXTENDS Providers, TLAPS

Planned == {"ready", "sending", "sent"}
Credentials == [endpoint : Endpoints \cup {None}, serial : Nat]
ConnectionRow ==
  [exists : BOOLEAN, enabled : BOOLEAN, endpoint : Endpoints \cup {None}, credential : Credentials \cup {None},
   script : Nat \cup {None}, revision : Nat]

\* A request has the fields of Idle, whatever was planned for it.
RequestShape(q) ==
  q = [pc |-> q.pc, strategy |-> q.strategy, free |-> q.free, rows |-> q.rows,
       eligible |-> q.eligible, behind |-> q.behind, plan |-> q.plan, at |-> q.at]
ProvidersTypeOK ==
  /\ conns \in [Connections -> ConnectionRow]
  /\ upstream \subseteq Models
  /\ request = [r \in Requests |-> request[r]] /\ \A r \in Requests : RequestShape(request[r])

\* A credential was given for the endpoint its connection has, and what was never
\* created has revision 0.
ConnectionFits(connection) ==
  /\ connection.credential # None => connection.credential.endpoint = connection.endpoint
  /\ ~connection.exists => connection.revision = 0
ConnectionsFit == \A c \in Connections : ConnectionFits(conns[c])

\* The revision a row was read at stands for what was read.
RowIsPinned(row, m) ==
  LET connection == conns[ConnectionOf[m]]
  IN  /\ row = [endpoint |-> row.endpoint, credential |-> row.credential, script |-> row.script,
                revision |-> row.revision, routeRevision |-> row.routeRevision]
      /\ row.revision \in Nat /\ row.revision <= connection.revision
      /\ row.revision = connection.revision =>
           /\ row.endpoint = connection.endpoint
           /\ row.credential = connection.credential
           /\ row.script = connection.script
RowsArePinned ==
  \A r \in Requests : request[r].pc \in Planned => \A m \in Models : RowIsPinned(request[r].rows[m], m)

\* What BeginDispatch found is so until the lock is released.
Locked == \A r \in Requests : request[r].pc = "sending" => TargetIsCurrent(Target(r), TargetRow(r))

ProvidersInv == ProvidersTypeOK /\ ConnectionsFit /\ RowsArePinned /\ Locked

-----------------------------------------------------------------------------
(* Managers. *)

\* A step of a manager gives every connection it changes its next revision.
LEMMA ConnectionsChanged ==
  ASSUME ProvidersInv, Unlocked, NEW c \in Connections, NEW row \in ConnectionRow, ConnectionFits(row),
         row.revision = conns[c].revision + 1, conns' = [conns EXCEPT ![c] = row],
         upstream' \subseteq Models, UNCHANGED request
  PROVE  ProvidersInv'
<1>1. /\ conns' \in [Connections -> ConnectionRow] /\ conns'[c] = row
      /\ \A d \in Connections \ {c} : conns'[d] = conns[d]
  BY DEF ProvidersInv, ProvidersTypeOK
<1>2. ConnectionsFit'
  BY <1>1 DEF ProvidersInv, ConnectionsFit, ConnectionFits
<1>3. ASSUME NEW r \in Requests, request[r].pc \in Planned, NEW m \in Models
      PROVE  RowIsPinned(request[r].rows[m], m)'
  <2>1. ConnectionOf[m] \in Connections /\ RowIsPinned(request[r].rows[m], m)
    BY <1>3, ProvidersAssumption DEF ProvidersInv, RowsArePinned
  <2>2. CASE ConnectionOf[m] = c
    <3>1. conns[c].revision \in Nat
      BY DEF ProvidersInv, ProvidersTypeOK, ConnectionRow
    <3>2. conns'[ConnectionOf[m]].revision = conns[ConnectionOf[m]].revision + 1
      BY <1>1, <2>2
    <3> QED BY <2>1, <2>2, <3>1, <3>2 DEF RowIsPinned
  <2>3. CASE ConnectionOf[m] # c
    <3>1. conns'[ConnectionOf[m]] = conns[ConnectionOf[m]]
      BY <1>1, <2>1, <2>3
    <3> QED BY <2>1, <3>1 DEF RowIsPinned
  <2> QED BY <2>2, <2>3
<1>4. RowsArePinned'
  BY <1>3 DEF RowsArePinned
<1>5. Locked'
  BY DEF Unlocked, Locked
<1>6. ProvidersTypeOK'
  BY <1>1 DEF ProvidersInv, ProvidersTypeOK, RequestShape
<1> QED BY <1>2, <1>4, <1>5, <1>6 DEF ProvidersInv

\* A step that changes only the route and the models.
LEMMA RouteChanged ==
  ASSUME ProvidersInv, Unlocked, upstream' \subseteq Models, UNCHANGED <<conns, request>>
  PROVE  ProvidersInv'
<1>1. ProvidersTypeOK' /\ ConnectionsFit'
  BY DEF ProvidersInv, ProvidersTypeOK, ConnectionsFit, ConnectionFits, RequestShape
<1>2. RowsArePinned'
  BY DEF ProvidersInv, RowsArePinned, RowIsPinned
<1>3. Locked'
  BY DEF Unlocked, Locked
<1> QED BY <1>1, <1>2, <1>3 DEF ProvidersInv

\* Where a connection moves to, its credential stays behind.
LEMMA MovedFacts ==
  ASSUME NEW connection \in ConnectionRow, NEW endpoint \in Endpoints, ConnectionFits(connection)
  PROVE  /\ Moved(connection, endpoint) \in ConnectionRow
         /\ Moved(connection, endpoint).revision = connection.revision
         /\ Moved(connection, endpoint).exists = connection.exists
         /\ Moved(connection, endpoint).credential # None => Moved(connection, endpoint).credential.endpoint = endpoint
         /\ Moved(connection, endpoint).endpoint = endpoint
<1> DEFINE credential == IF endpoint = connection.endpoint THEN connection.credential ELSE None
           script == IF endpoint \in Scripted THEN connection.script ELSE None
           first == [connection EXCEPT !.endpoint = endpoint]
           second == [first EXCEPT !.credential = credential]
<1>1. /\ first \in ConnectionRow /\ first.endpoint = endpoint /\ first.revision = connection.revision
      /\ first.exists = connection.exists /\ first.credential = connection.credential /\ first.script = connection.script
  BY DEF ConnectionRow
<1>2. credential \in Credentials \cup {None} /\ (credential # None => credential.endpoint = endpoint)
  BY DEF ConnectionRow, ConnectionFits
<1>3. script \in Nat \cup {None}
  BY DEF ConnectionRow
<1>4. Moved(connection, endpoint) = [second EXCEPT !.script = script]
  BY <1>1 DEF Moved
<1> HIDE DEF first, credential, script
<1>5. /\ second \in ConnectionRow /\ second.endpoint = endpoint /\ second.revision = connection.revision
      /\ second.exists = connection.exists /\ second.credential = credential
  BY <1>1, <1>2 DEF ConnectionRow
<1> HIDE DEF second
<1> QED BY <1>2, <1>3, <1>4, <1>5 DEF ConnectionRow

\* The next revision of a connection.
LEMMA EditedFacts ==
  ASSUME NEW connection \in ConnectionRow
  PROVE  /\ Edited(connection) \in ConnectionRow /\ Edited(connection).revision = connection.revision + 1
         /\ Edited(connection).exists = connection.exists /\ Edited(connection).endpoint = connection.endpoint
         /\ Edited(connection).credential = connection.credential
  BY DEF Edited, ConnectionRow

\* CreateConnection, UpdateConnection, PutCredential, PutAdapterScript and
\* DeleteAdapterScript.
LEMMA ManageConnectionsInv ==
  ASSUME ProvidersInv, ManageConnections
  PROVE  ProvidersInv'
<1>1. PICK c \in Connections :
        \/ PutCredential(c)
        \/ \E endpoint \in Endpoints : CreateConnection(c, endpoint) \/ \E enabled \in BOOLEAN : UpdateConnection(c, endpoint, enabled)
        \/ \E script \in {None, conns[c].revision} : SetAdapterScript(c, script)
  BY DEF ManageConnections
<1> DEFINE old == conns[c]
<1>2. old \in ConnectionRow /\ ConnectionFits(old) /\ upstream \subseteq Models /\ old.revision \in Nat
  BY DEF ProvidersInv, ProvidersTypeOK, ConnectionsFit, ConnectionRow
<1>3. CASE PutCredential(c)
  <2> DEFINE credential == [endpoint |-> old.endpoint, serial |-> old.revision]
             row == [Edited(old) EXCEPT !.credential = credential]
  <2>1. Unlocked /\ old.exists /\ conns' = [conns EXCEPT ![c] = row] /\ UNCHANGED <<upstream, request>>
    BY <1>3 DEF PutCredential, Editable, WithCredential, Unsaved
  <2>2. credential \in Credentials /\ credential.endpoint = old.endpoint
    BY <1>2 DEF Credentials, ConnectionRow
  <2> HIDE DEF credential
  <2>3. /\ row \in ConnectionRow /\ row.credential = credential /\ row.endpoint = old.endpoint
        /\ row.revision = old.revision + 1 /\ row.exists = old.exists
    BY <1>2, <2>2, EditedFacts DEF ConnectionRow
  <2> HIDE DEF row, old
  <2>4. ConnectionFits(row)
    BY <2>1, <2>2, <2>3 DEF ConnectionFits
  <2> QED BY <1>2, <2>1, <2>3, <2>4, ConnectionsChanged DEF old
<1>4. ASSUME NEW endpoint \in Endpoints, CreateConnection(c, endpoint) PROVE ProvidersInv'
  <2> DEFINE first == [NoConnection EXCEPT !.exists = TRUE]
             second == [first EXCEPT !.enabled = TRUE]
             third == [second EXCEPT !.endpoint = endpoint]
             row == [third EXCEPT !.revision = 1]
  <2>1. Unlocked /\ ~old.exists /\ UNCHANGED <<upstream, request>>
    BY <1>4 DEF CreateConnection, Unsaved
  <2>2. conns' = [conns EXCEPT ![c] = row]
    BY <1>4 DEF CreateConnection
  <2>3. row \in ConnectionRow /\ row.revision = 1 /\ row.exists /\ row.credential = None
    <3>1. first \in ConnectionRow /\ first.exists /\ first.credential = None
      BY DEF NoConnection, ConnectionRow
    <3> HIDE DEF first
    <3>2. second \in ConnectionRow /\ second.exists /\ second.credential = None
      BY <3>1 DEF ConnectionRow
    <3> HIDE DEF second
    <3>3. third \in ConnectionRow /\ third.exists /\ third.credential = None
      BY <3>2 DEF ConnectionRow
    <3> HIDE DEF third
    <3> QED BY <3>3 DEF ConnectionRow
  <2> HIDE DEF row
  <2>4. ConnectionFits(row)
    BY <2>3 DEF ConnectionFits
  <2>5. row.revision = conns[c].revision + 1
    BY <1>2, <2>1, <2>3 DEF ConnectionFits
  <2> QED BY <1>2, <2>1, <2>2, <2>3, <2>4, <2>5, ConnectionsChanged
<1>5. ASSUME NEW endpoint \in Endpoints, NEW enabled \in BOOLEAN, UpdateConnection(c, endpoint, enabled) PROVE ProvidersInv'
  <2> DEFINE named == [old EXCEPT !.enabled = enabled]
             row == Edited(Moved(named, endpoint))
  <2>1. Unlocked /\ old.exists /\ conns' = [conns EXCEPT ![c] = row] /\ UNCHANGED <<upstream, request>>
    BY <1>5 DEF UpdateConnection, Editable, Unsaved
  <2>2. /\ named \in ConnectionRow /\ named.revision = old.revision /\ named.exists = old.exists
        /\ named.credential = old.credential /\ named.endpoint = old.endpoint
    BY <1>2 DEF ConnectionRow
  <2>3. ConnectionFits(named)
    BY <1>2, <2>1, <2>2 DEF ConnectionFits
  <2> HIDE DEF named, old
  <2>4. /\ row \in ConnectionRow /\ row.revision = old.revision + 1 /\ row.exists = old.exists
        /\ row.credential # None => row.credential.endpoint = row.endpoint
    BY <2>2, <2>3, MovedFacts, EditedFacts
  <2> HIDE DEF row
  <2>5. ConnectionFits(row)
    BY <2>1, <2>4 DEF ConnectionFits
  <2> QED BY <1>2, <2>1, <2>4, <2>5, ConnectionsChanged DEF old
<1>6. ASSUME NEW script \in {None, conns[c].revision}, SetAdapterScript(c, script) PROVE ProvidersInv'
  <2> DEFINE row == [Edited(old) EXCEPT !.script = script]
  <2>1. Unlocked /\ old.exists /\ conns' = [conns EXCEPT ![c] = row] /\ UNCHANGED <<upstream, request>>
    BY <1>6 DEF SetAdapterScript, Editable, Unsaved
  <2>2. script \in Nat \cup {None}
    BY <1>2
  <2>3. /\ row \in ConnectionRow /\ row.credential = old.credential /\ row.endpoint = old.endpoint
        /\ row.revision = old.revision + 1 /\ row.exists = old.exists
    BY <1>2, <2>2, EditedFacts DEF ConnectionRow
  <2> HIDE DEF row, old
  <2>4. ConnectionFits(row)
    BY <1>2, <2>1, <2>3 DEF ConnectionFits
  <2> QED BY <1>2, <2>1, <2>3, <2>4, ConnectionsChanged DEF old
<1> QED BY <1>1, <1>3, <1>4, <1>5, <1>6

\* CreateUpstreamModel, CreatePublicModel, ConfigureRoute and ImportConfig.
LEMMA ManageRouteInv ==
  ASSUME ProvidersInv, ManageRoute
  PROVE  ProvidersInv'
<1>1. upstream \subseteq Models
  BY DEF ProvidersInv, ProvidersTypeOK
<1>2. ASSUME NEW m \in Models, CreateUpstreamModel(m) \/ CreatePublicModel(m) PROVE ProvidersInv'
  BY <1>1, <1>2, RouteChanged DEF CreateUpstreamModel, CreatePublicModel, Unsaved
<1>3. ASSUME NEW strategy \in Strategies, NEW free \in BOOLEAN, NEW targets \in TargetLists, ConfigureRoute(strategy, free, targets)
      PROVE  ProvidersInv'
  BY <1>1, <1>3, RouteChanged DEF ConfigureRoute, Unsaved
<1>4. ASSUME NEW bundle \in Bundles, ImportConfig(bundle) PROVE ProvidersInv'
  <2> DEFINE c == bundle.connection
             old == conns[c]
             named == [old EXCEPT !.exists = TRUE, !.enabled = bundle.enabled]
             edited == Edited(Moved(named, bundle.endpoint))
             row == [edited EXCEPT !.script = bundle.script]
             models == {bundle.targets[i].model : i \in DOMAIN bundle.targets}
  <2>1. /\ Unlocked /\ conns' = [conns EXCEPT ![c] = row] /\ UNCHANGED request
        /\ upstream' = (upstream \ models) \cup bundle.active
    BY <1>4 DEF ImportConfig
  <2>2. c \in Connections /\ bundle.endpoint \in Endpoints /\ bundle.script \in Nat \cup {None} /\ bundle.enabled \in BOOLEAN
    BY BundlesAssumption
  <2>3. old \in ConnectionRow /\ ConnectionFits(old)
    BY <2>2 DEF ProvidersInv, ProvidersTypeOK, ConnectionsFit
  <2>4. upstream' \subseteq Models
    BY <1>1, <2>1, BundlesAssumption
  <2>5. /\ [old EXCEPT !.exists = TRUE] \in ConnectionRow /\ [old EXCEPT !.exists = TRUE].exists
        /\ [old EXCEPT !.exists = TRUE].revision = old.revision
        /\ [old EXCEPT !.exists = TRUE].credential = old.credential /\ [old EXCEPT !.exists = TRUE].endpoint = old.endpoint
    BY <2>3 DEF ConnectionRow
  <2>6. /\ named \in ConnectionRow /\ named.revision = old.revision /\ named.exists
        /\ named.credential = old.credential /\ named.endpoint = old.endpoint
    BY <2>2, <2>5 DEF ConnectionRow
  <2>7. ConnectionFits(named)
    BY <2>3, <2>6 DEF ConnectionFits
  <2> HIDE DEF named, old, c
  <2>8. /\ edited \in ConnectionRow /\ edited.revision = old.revision + 1 /\ edited.exists = named.exists
        /\ edited.credential # None => edited.credential.endpoint = edited.endpoint
    <3>1. /\ Moved(named, bundle.endpoint) \in ConnectionRow
          /\ Moved(named, bundle.endpoint).revision = old.revision /\ Moved(named, bundle.endpoint).exists = named.exists
          /\ Moved(named, bundle.endpoint).credential # None =>
               Moved(named, bundle.endpoint).credential.endpoint = Moved(named, bundle.endpoint).endpoint
      BY <2>2, <2>6, <2>7, MovedFacts
    <3> QED BY <3>1, EditedFacts
  <2> HIDE DEF edited
  <2>9. /\ row \in ConnectionRow /\ row.revision = old.revision + 1 /\ row.exists = named.exists
        /\ row.credential = edited.credential /\ row.endpoint = edited.endpoint
    BY <2>2, <2>8 DEF ConnectionRow
  <2> HIDE DEF row
  <2>10. ConnectionFits(row)
    BY <2>6, <2>8, <2>9 DEF ConnectionFits
  <2> QED BY <2>1, <2>2, <2>4, <2>9, <2>10, ConnectionsChanged DEF old
<1> QED BY <1>2, <1>3, <1>4 DEF ManageRoute

-----------------------------------------------------------------------------
(* Requests. *)

\* A request changes and the configuration stays.
LEMMA RequestChanged ==
  ASSUME ProvidersInv, NEW r \in Requests, NEW q, request' = [request EXCEPT ![r] = q], UNCHANGED config, RequestShape(q),
         q.pc \in Planned => \A m \in Models : RowIsPinned(q.rows[m], m),
         q.pc = "sending" => TargetIsCurrent(q.plan[q.at], q.rows[q.plan[q.at]])
  PROVE  ProvidersInv'
<1>1. UNCHANGED <<conns, upstream, route>>
  BY DEF config
<1>2. /\ request' = [s \in Requests |-> request'[s]]
      /\ request'[r] = q /\ \A s \in Requests \ {r} : request'[s] = request[s]
  BY DEF ProvidersInv, ProvidersTypeOK
<1>3. ProvidersTypeOK'
  <2>1. \A s \in Requests : RequestShape(request'[s])
    BY <1>2 DEF ProvidersInv, ProvidersTypeOK
  <2> QED BY <1>1, <1>2, <2>1 DEF ProvidersInv, ProvidersTypeOK, RequestShape
<1>4. ConnectionsFit'
  BY <1>1 DEF ProvidersInv, ConnectionsFit, ConnectionFits
<1>5. ASSUME NEW s \in Requests, request'[s].pc \in Planned, NEW m \in Models PROVE RowIsPinned(request[s].rows[m], m)'
  <2>1. RowIsPinned(request'[s].rows[m], m)
    BY <1>2, <1>5 DEF ProvidersInv, RowsArePinned
  <2> QED BY <1>1, <2>1 DEF RowIsPinned
<1>6. ASSUME NEW s \in Requests, request'[s].pc = "sending" PROVE TargetIsCurrent(Target(s), TargetRow(s))'
  <2>1. TargetIsCurrent(request'[s].plan[request'[s].at], request'[s].rows[request'[s].plan[request'[s].at]])
    BY <1>2, <1>6 DEF ProvidersInv, Locked, Target, TargetRow
  <2> QED BY <1>1, <2>1 DEF TargetIsCurrent, TargetIsCurrentRoute, Target, TargetRow
<1> QED BY <1>3, <1>4, <1>5, <1>6 DEF ProvidersInv, RowsArePinned, Locked

\* A request that starts over.
LEMMA IdleFacts == RequestShape(Idle) /\ Idle.pc = "idle"
  BY DEF Idle, RequestShape

\* A request that only moves on.
LEMMA MovesOn ==
  ASSUME NEW q, NEW pc, RequestShape(q)
  PROVE  /\ RequestShape([q EXCEPT !.pc = pc]) /\ [q EXCEPT !.pc = pc].pc = pc
         /\ [q EXCEPT !.pc = pc].rows = q.rows /\ [q EXCEPT !.pc = pc].plan = q.plan /\ [q EXCEPT !.pc = pc].at = q.at
  BY DEF RequestShape

\* The rows of a query are those of the configuration now.
LEMMA RowFacts ==
  ASSUME ProvidersInv, NEW m \in Models
  PROVE  RowIsPinned(Row(m), m)
<1>1. ConnectionOf[m] \in Connections /\ conns[ConnectionOf[m]] \in ConnectionRow
  BY ProvidersAssumption DEF ProvidersInv, ProvidersTypeOK
<1> QED BY <1>1 DEF Row, RowIsPinned, ConnectionRow

\* Route, BeginDispatch, the release and the outcome of a request.
LEMMA ServeInv ==
  ASSUME ProvidersInv, NEW r \in Requests,
         \/ RouteRead(r) \/ BeginDispatch(r) \/ Release(r) \/ Leave(r)
         \/ \E success \in BOOLEAN : Outcome(r, success)
         \/ \E refused \in SUBSET Models, broken \in SUBSET Connections, latency \in [Models -> Latencies \cup {None}] :
              RouteTargets(r, refused, broken, latency)
  PROVE  ProvidersInv'
<1> DEFINE old == request[r]
<1>1. /\ RequestShape(old) /\ request = [s \in Requests |-> request[s]]
      /\ old.pc \in Planned => \A m \in Models : RowIsPinned(old.rows[m], m)
  BY DEF ProvidersInv, ProvidersTypeOK, RowsArePinned
<1>2. CASE RouteRead(r)
  <2> DEFINE first == [old EXCEPT !.pc = "planning"]
             second == [first EXCEPT !.strategy = route.strategy]
             q == [second EXCEPT !.free = route.free]
  <2>1. request' = [request EXCEPT ![r] = q] /\ UNCHANGED config
    BY <1>2 DEF RouteRead
  <2>2. RequestShape(q) /\ q.pc = "planning"
    <3>1. RequestShape(first) /\ first.pc = "planning"
      BY <1>1, MovesOn
    <3> HIDE DEF first
    <3>2. RequestShape(second) /\ second.pc = "planning"
      BY <3>1 DEF RequestShape
    <3> HIDE DEF second
    <3> QED BY <3>2 DEF RequestShape
  <2> HIDE DEF q
  <2> QED BY <2>1, <2>2, RequestChanged DEF Planned
<1>3. CASE BeginDispatch(r)
  <2> DEFINE pc == IF TargetIsCurrent(Target(r), TargetRow(r)) THEN "sending" ELSE "over"
             q == [old EXCEPT !.pc = pc]
  <2>1. request' = [request EXCEPT ![r] = q] /\ UNCHANGED config /\ old.pc = "ready"
    BY <1>3 DEF BeginDispatch
  <2>2. RequestShape(q) /\ q.pc = pc /\ q.rows = old.rows /\ q.plan = old.plan /\ q.at = old.at
    BY <1>1, MovesOn
  <2>3. pc = "sending" => TargetIsCurrent(q.plan[q.at], q.rows[q.plan[q.at]])
    BY <2>2 DEF Target, TargetRow
  <2> HIDE DEF q, pc
  <2> QED BY <1>1, <2>1, <2>2, <2>3, RequestChanged DEF Planned
<1>4. CASE Release(r)
  <2> DEFINE q == [old EXCEPT !.pc = "sent"]
  <2>1. request' = [request EXCEPT ![r] = q] /\ UNCHANGED config /\ old.pc = "sending"
    BY <1>4 DEF Release
  <2>2. RequestShape(q) /\ q.pc = "sent" /\ q.rows = old.rows
    BY <1>1, MovesOn
  <2> HIDE DEF q
  <2> QED BY <1>1, <2>1, <2>2, RequestChanged DEF Planned
<1>5. CASE Leave(r)
  BY <1>5, IdleFacts, RequestChanged DEF Leave, Planned
<1>6. ASSUME NEW success \in BOOLEAN, Outcome(r, success) PROVE ProvidersInv'
  <2>1. UNCHANGED config /\ old.pc = "sent"
    BY <1>6 DEF Outcome
  <2>2. CASE request' = [request EXCEPT ![r] = Idle]
    BY <2>1, <2>2, IdleFacts, RequestChanged DEF Planned
  <2>3. CASE request' = [request EXCEPT ![r] = [old EXCEPT !.pc = "ready", !.at = @ + 1]]
    <3> DEFINE first == [old EXCEPT !.pc = "ready"]
               q == [first EXCEPT !.at = @ + 1]
    <3>1. RequestShape(q) /\ q.pc = "ready" /\ q.rows = old.rows
      <4>1. RequestShape(first) /\ first.pc = "ready" /\ first.rows = old.rows
        BY <1>1, MovesOn
      <4> HIDE DEF first
      <4> QED BY <4>1 DEF RequestShape
    <3>2. request' = [request EXCEPT ![r] = q]
      BY <2>3
    <3> HIDE DEF q
    <3> QED BY <1>1, <2>1, <3>1, <3>2, RequestChanged DEF Planned
  <2>4. CASE ~success /\ old.at < Len(old.plan)
    BY <1>6, <2>3, <2>4 DEF Outcome
  <2>5. CASE ~(~success /\ old.at < Len(old.plan))
    BY <1>6, <2>2, <2>5 DEF Outcome
  <2> QED BY <2>4, <2>5
<1>7. ASSUME NEW refused, NEW broken, NEW latency, RouteTargets(r, refused, broken, latency) PROVE ProvidersInv'
  <2> DEFINE rows == [m \in Models |-> Row(m)]
             models == ReadTargets
             eligible == {m \in ToSet(models) : Eligible(m, refused, broken, old.free)}
             behind == {models[i] : i \in {n \in DOMAIN models : ~Opens(models[n], refused) /\ Failing(models, n, refused, broken)}}
  <2>1. PICK plan \in Orders(old.strategy, Offered(models, refused, broken, old.free), latency) :
          request' = [request EXCEPT ![r] = [old EXCEPT !.pc = IF plan = <<>> THEN "over" ELSE "ready", !.rows = rows,
                                                        !.eligible = eligible, !.behind = behind, !.plan = plan]]
    BY <1>7 DEF RouteTargets
  <2>2. UNCHANGED config
    BY <1>7 DEF RouteTargets
  <2>3. \A m \in Models : RowIsPinned(rows[m], m)
    BY RowFacts
  <2> HIDE DEF rows, models, eligible, behind
  <2> DEFINE pc == IF plan = <<>> THEN "over" ELSE "ready"
             first == [old EXCEPT !.pc = pc]
             second == [first EXCEPT !.rows = rows]
             third == [second EXCEPT !.eligible = eligible]
             fourth == [third EXCEPT !.behind = behind]
             q == [fourth EXCEPT !.plan = plan]
  <2>4. request' = [request EXCEPT ![r] = q] /\ pc \in {"over", "ready"}
    BY <2>1
  <2> HIDE DEF pc
  <2>5. RequestShape(first) /\ first.pc = pc
    BY <1>1 DEF RequestShape
  <2> HIDE DEF first
  <2>6. RequestShape(second) /\ second.pc = pc /\ second.rows = rows
    BY <2>5 DEF RequestShape
  <2> HIDE DEF second
  <2>7. RequestShape(third) /\ third.pc = pc /\ third.rows = rows
    BY <2>6 DEF RequestShape
  <2> HIDE DEF third
  <2>8. RequestShape(fourth) /\ fourth.pc = pc /\ fourth.rows = rows
    BY <2>7 DEF RequestShape
  <2> HIDE DEF fourth
  <2>9. RequestShape(q) /\ q.pc = pc /\ q.rows = rows
    BY <2>8 DEF RequestShape
  <2> HIDE DEF q
  <2> QED BY <2>2, <2>3, <2>4, <2>9, RequestChanged
<1> QED BY <1>2, <1>3, <1>4, <1>5, <1>6, <1>7

-----------------------------------------------------------------------------
(* The theorem. *)

\* Nothing is configured and nothing is planned.
LEMMA ProvidersInitInv == Init => ProvidersInv
<1> SUFFICES ASSUME Init PROVE ProvidersInv
  OBVIOUS
<1>1. \A c \in Connections : conns[c] \in ConnectionRow /\ ConnectionFits(conns[c])
  BY DEF Init, NoConnection, ConnectionRow, ConnectionFits
<1>2. \A r \in Requests : request[r] = Idle
  BY DEF Init
<1>3. ProvidersTypeOK
  BY <1>1, <1>2, IdleFacts DEF Init, ProvidersTypeOK
<1> QED BY <1>1, <1>2, <1>3, IdleFacts DEF ProvidersInv, ConnectionsFit, RowsArePinned, Locked, Planned

\* Every step keeps the invariant.
LEMMA ProvidersNextInv == ProvidersInv /\ [Next]_vars => ProvidersInv'
<1> SUFFICES ASSUME ProvidersInv, [Next]_vars PROVE ProvidersInv'
  OBVIOUS
<1>1. CASE ManageConnections
  BY <1>1, ManageConnectionsInv
<1>2. CASE ManageRoute
  BY <1>2, ManageRouteInv
<1>3. CASE Serve
  BY <1>3, ServeInv DEF Serve
<1>4. CASE UNCHANGED <<conns, upstream, route, request>>
  <2>1. ProvidersTypeOK' /\ ConnectionsFit' /\ RowsArePinned'
    BY <1>4 DEF ProvidersInv, ProvidersTypeOK, ConnectionsFit, ConnectionFits, RequestShape, RowsArePinned, RowIsPinned
  <2>2. Locked'
    BY <1>4 DEF ProvidersInv, Locked, TargetIsCurrent, TargetIsCurrentRoute, Target, TargetRow
  <2> QED BY <2>1, <2>2 DEF ProvidersInv
<1>5. CASE \E m \in Models : CircuitLapses(m)
  BY <1>4, <1>5 DEF CircuitLapses, config
<1>6. CASE UNCHANGED vars
  BY <1>4, <1>6 DEF vars
<1> QED BY <1>1, <1>2, <1>3, <1>5, <1>6 DEF Next

\* While a request is written, what it was planned with is what is configured,
\* and its credential belongs to its endpoint, however managers and imports
\* interleave with planning and dispatch (TargetIsCurrent, BeginDispatch,
\* LockConfiguration).
THEOREM SentIsAsConfigured == Spec => []SentAsConfigured
<1>1. ASSUME ProvidersInv PROVE SentAsConfigured
  <2> SUFFICES ASSUME NEW r \in Requests, request[r].pc = "sending"
               PROVE  /\ TargetRow(r) = Row(Target(r)) /\ Target(r) \in upstream
                      /\ TargetRow(r).credential # None => TargetRow(r).credential.endpoint = TargetRow(r).endpoint
    BY DEF SentAsConfigured, Sending
  <2> DEFINE m == Target(r)
             row == TargetRow(r)
  <2>1. /\ m \in upstream /\ route.revision = row.routeRevision
        /\ conns[ConnectionOf[m]].revision = row.revision
    BY <1>1 DEF ProvidersInv, Locked, TargetIsCurrent, TargetIsCurrentRoute
  <2>2. m \in Models /\ ConnectionOf[m] \in Connections
    BY <1>1, <2>1, ProvidersAssumption DEF ProvidersInv, ProvidersTypeOK
  <2>3. RowIsPinned(row, m)
    BY <1>1, <2>2 DEF ProvidersInv, RowsArePinned, Planned, TargetRow
  <2>4. ConnectionFits(conns[ConnectionOf[m]])
    BY <1>1, <2>2 DEF ProvidersInv, ConnectionsFit
  <2> HIDE DEF row
  <2> QED BY <2>1, <2>3, <2>4 DEF RowIsPinned, Row, ConnectionFits, row
<1> QED BY <1>1, ProvidersInitInv, ProvidersNextInv, PTL DEF Spec
=============================================================================
