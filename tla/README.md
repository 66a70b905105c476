# TLA+ models of Pocket AI Gateway

Pocket AI Gateway is one Go process with two SQLite databases (`system.db`, `data.db`). It accepts inference requests in several
wire dialects, admits them against limits, forwards them to providers with fallback, and accounts for what they used. This directory
models the parts of it whose correctness depends on the order of steps: the accounting transactions and the gateway loop that drives
them, sessions, file search and translated streams, the projection of usage into reports, queued work (media jobs, background
responses, batches), the resources a key keeps, users and keys, provider configuration and routing, and the files on disk through
snapshots, migrations, backups and updates.

Paths below are relative to `src/`. `PROJECT.json` maps every definition to the lines it models, and lists components, hazards and
findings.

## The system and its parts

| Part | State | Operations | What is hard | What makes it correct |
| --- | --- | --- | --- | --- |
| Admission and settlement (`internal/features/usage`: `admission.go`, `settlement.go`, `repair.go`) | requests, attempts, reservations, quota periods, buckets, leases, ledger, outbox | `Admit`, `MarkDispatching`, `MarkStreaming`, `Settle`, `CancelBeforeDispatch`, `CloseFailedRequest`, `FinalizeRequest`, `RepairStaleRequests`, `Recover` | late and repeated settlement, restarts, period rollover, clock steps, a full outbox | capacity is neither leaked nor returned twice; closed work stays closed; slots follow work |
| Corrections (`settlement.go`, `pricing.go`) | the same rows, price versions, assessments | `ReconcileUnknown`, `ApplyReprice`, `AdjustCost`, `CreatePrice` | any order of corrections over partly known facts | ledger, attempt row and period agree |
| Projection (`projection.go`) | `event_outbox` in one database, `usage_events` and `usage_daily` in the other | `ProjectOutbox` | no transaction spans the databases; a failing event blocks the rest | each event counts once, in order; nothing blocks the queue |
| Media jobs (`internal/features/mediajobs`) | `media_jobs`, and the attempt of each job | create, cancel, claim, submit, poll, two recoveries at start-up | cancels between statements, crash around the provider call | one submission; job and attempt tell one story; jobs end |
| Forward loop (`internal/gateway/forward.go`, `dispatch.go`), sessions (`realtime.go`, `live.go`, `gemini_live.go`), file search, streams (`internal/protocol/stream.go`) | the attempt in hand, the answer being written, deferred settlements | per target: admit, lock configuration, dispatch, translate, search again, settle, store, retry | storage errors between settlement and answer, client disconnect, configuration change, a reservation for many calls | answer and record agree; every request closes; a reservation covers what is spent |
| Routing, circuits, provider configuration (`internal/features/providers`) | connections, credentials, scripts, route, circuit, catalog | configure, plan, dispatch, observe, refresh, import | plans read in two queries, configuration changed under a request | a request is written as configured now; a plan loses no eligible target but those named below; free stays free |
| Background responses, batches, conversations (`internal/gateway/*_background.go`, `conversation*.go`) | queued work with claims, results, revisions | enqueue, claim, register, run, settle, store, cancel, delete, expire, recover | claim against cancel, restart between statements | one provider call per job; a confirmed cancel reaches the worker; results agree with accounting |
| Files, uploads, vector stores (`internal/gateway`) | rows, parts and encrypted content | create, append, complete, attach, expire, delete | expiry during use, completion without a check, repeated chunks | the budget holds; a file is what was sent |
| Auth, users, keys (`internal/features/auth`, `users`, `keys`) | users, sessions, codes, keys | claim, invite, activate, log in, change, recover, suspend, grant, rotate | checks before a slow hash, racing role changes | one owner; sessions of the current password; keys within their user |
| Operations, storage, self-update (`internal/features/operations`, `internal/storage`, `internal/selfupdate`) | data directory, snapshots, archives, backup jobs, executables | open, migrate, snapshot, back up, prune, trim, restore, update, roll back | a stop between any two file steps | pairs; a way back; a job says what happened |
| Whole-body translation (`internal/protocol`), text extraction and search, dashboard (`web/`) | none | conversion, display | — | — |

The gateway plans a route with `providers.Service`, calls `usage.Service` around every provider call and takes the dispatch lock for
the time it writes a request; the accounting service appends an event to the outbox in each transaction; one background goroutine
runs queued responses and batches and, when there are none, replays settlements and projects the outbox; media jobs have a goroutine
of their own. `app/execute.go` opens the stores, runs the recoveries and then starts the workers. Operations take the projection lock
to copy or trim the two databases. The update command runs while no server holds the instance lock.

## Modules

| Module | Models | Uses |
| --- | --- | --- |
| `Accounting` | every write of `usage.Service`, one action per transaction | |
| `Projection` | outbox rows with their payload and the projection worker | EXTENDS `Accounting` |
| `ExactlyOnce` | the abstract promise of the projection: a queue whose head is added to totals in one step | refined by `Projection` |
| `MediaJobs` | media jobs, the worker statement by statement, provider drivers, crash and restart | EXTENDS `Accounting` |
| `Stream` | the state of a translated stream and what one payload does to it, as operators | |
| `Forward` | the target loop of a request, file search, translated streams, WebSocket sessions, parked settlements, the dispatch lock, crash and restart | EXTENDS `Accounting`, `Stream` |
| `Background` | background responses and both kinds of batch on one worker, conversations, restart | |
| `Resources` | what a key keeps, and the budget it shares | |
| `Identity` | users, sessions, codes, keys | |
| `Providers` | connections, the route of a model, plans, circuits, configuration import | |
| `Storage` | data directory, process, projection lock, snapshots, migrations, backups, retention, restore | |
| `SelfUpdate` | the update command and its rollback | EXTENDS `Storage` |
| `MC*` | instances for TLC | |
| `AccountingProofs`, `ProjectionAndMediaProofs`, `ForwardProofs`, `BackgroundAndResourcesProofs`, `IdentityProofs`, `ProvidersProofs`, `SelfUpdateProofs` | theorems, the inductive invariants and their proofs | EXTENDS the modules each is named after, TLAPS |
| `SumProofs` | lemmas about sums over finite sets | used by the proofs about `Accounting`, `Projection` and `Resources` |

### Accounting

SQLite runs each operation as one write transaction, so each is one action and its errors are its guard: a transaction that returns
an error is rolled back. `rState` and `aState` are the `state` columns, `resv` the reservations (one per attempt and policy),
`quota` and `bucket` the counters, `leases` the concurrency rows, `ledger` the sum of `usage_ledger` per attempt, `usage` the token
and cost columns, `outbox` the number of undelivered events. Policies are constants with two mutable columns (`limit_units`,
`enabled`); a new policy is a row that is switched on. `assessed` holds the keys of `cost_assessments`: a settlement enters the price
version it used as recorded, a repricing restates each version once, the recorded one included. Tokens are one number and cost is tokens times the rate of the price version,
in place of the cache and web-search formula; calendar periods are windows of `PeriodLen` units; int64 bounds are left out.
`wall` in `Admit` and `Recover` is any instant, so the wall clock may step either way.

### Projection

`Projection` conjoins each accounting action with the events it appends and the fields the projection reads, and adds the worker:
`Project` (the data.db transaction), `Ack` and `Delete` (two statements on system.db), and `Interrupt`, an error return or a
crash between them. A row of `usage_daily` is a day and a connection. Under the refinement the queue of `ExactlyOnce` is the waiting
events, those neither acknowledged nor known to `usage_events` by their id, and its totals are the daily rows.

### MediaJobs

The worker is one goroutine; between its statements it holds the row it read (`worker`), and clients act. `due` keeps the order of
`next_poll_at`. A driver (Replicate, Together, Gemini, custom) is the set of answers its calls can return and whether it can cancel.
`Crash` stops the process; a restart runs `Recover` and then `recoverInterrupted`, the order of `serve`. `RestartWorker` starts the
worker alone, which is the restart the repository's own test exercises.

### Forward and Stream

`pc[r]` is where the handler of request `r` is; each step is one transaction, one lock operation or one wait of
`forwardAuthorized`, conjoined with the accounting action it calls. Every call may fail, and the handler then does what the code does:
most closing calls have their error ignored. `form` is what the request asked for: a plain answer, a stream (whose first bytes
commit the answer), a translated stream, a stored response or chat completion (published together with the end of the request, after
the settlement), a conversation turn (stored before the settlement), a response that searches files, or a WebSocket session of one of
three kinds. `result` is the class of the provider's answer. `gone` is the request's context, which ends at any moment and which the
loop reads at several. `pending` is the map of parked settlements; the settlements of handlers outside the instance may fill it.
`lost` is history: attempts whose closing write was dropped (a full map, a failed `CancelBeforeDispatch`), which only a restart
closes. `MarkFails` includes the case in which the statement took effect although the cancelled context made it report an error.
`HoldsLock` is the read lock from `BeginDispatch` until the request is written; `ChangeConfig` is any writer that takes it exclusively
and moves the connection's revision. The repair is allowed at any moment a request has no open attempt, not only after five minutes,
so the safety properties do not depend on its age limit. Admission can be denied for any reason, so the instance has no policies;
`Accounting` checks those.

A file search is a loop inside one dispatch: each provider call may ask for searches, whose results are appended to the next call.
`progress` counts searches, rounds and what the calls used; amounts of tokens are kept because the reservation made at admission has
to cover them. A translated stream is read payload by payload with the operators of `Stream`; each of the four source dialects has
its own payloads. Of a session's frames only those that end a response, report an error or close are kept.

### Background

One goroutine runs `RunBackground`; each of its database statements is a step, and clients create, cancel and delete between any
two. A job is a response or an item of a batch. `Registered` is the entry in the map of cancel functions: a cancel that comes before
it has to be seen by the read after it. The process stops anywhere; recovery decides from the stored state whether the
provider may have been called. A response may belong to a conversation that clients edit or delete meanwhile. Permissions and
validation of a stored request may go either way; what settlement does to limits is the subject of `Accounting`. A cancel or delete
is two steps, the write of the row and `CancelActive`, which ends the job's context. `AnswerError` is the handler that writes and
then answers with an error instead: `cancelOpenAIBatch` when `finalizeOpenAIBatch` fails (`openai_batches.go:486`), and
`cancelResponse` or `deleteResponse` when a context that had ended made a statement that took effect report an error. The call then
goes on. `unconfirmed` is history: the ids of such handlers, until one of theirs succeeds.

### Resources

Every handler is one transaction. Bytes are counted in units; what has expired no longer counts, although its row may still be
there until a sweep. `Retained` lists the rows that count, one set per table of the query, and `Within` compares them with a cap.
Three handlers of Vector Stores read the clock before they wait for the database and write with that instant; `Waits` is how long
that may take (`t` in `AttachFile`, `UpdateStore`, `CreateFileBatch`, `DetachFile`). Gemini uploads carry their bytes, so that a repeated or differently cut chunk can do damage.

### Identity

A management operation is one transaction that reads its actor again. What takes a password is several steps: a read, a hash that
needs one of a few slots, and a transaction that checks again. A password is named by the authentication revision that set it. Codes
(invitation, recovery) are issued up to a bound.

### Providers

A plan is read in two queries without the lock (`RouteRead`, `RouteTargets`), and a request keeps the rows it read; `BeginDispatch` takes the lock and compares
revisions; `Outcome` feeds the circuit. Writers take the lock exclusively and move a revision. The strategies are operators over the
rows offered; a strategy that draws (weighted) may pick any. A stored credential that cannot be opened (`broken`) leaves its error
set until the next credential is opened (`routing.go:472`), and so rejects a target that needs no credential in between: `Eligible`
judges a target alone, `Failing` is that error, `Offered` is what the loop lets through. `eligible` and `behind` keep for each plan,
as history, which targets were eligible and which stood behind such an error. `ImportConfig` applies a whole bundle in one
transaction.

### Storage and SelfUpdate

Events are numbered in the order of the outbox: a database is known by how many it holds, acknowledges or has trimmed. A snapshot
copies one database after the other under the projection lock while requests go on writing `system.db`. `Open` takes a
pre-migration snapshot and migrates the databases one by one. A backup is a snapshot, an archive, a job row and a prune, with a stop
between any two. `SelfUpdate` adds the executables, known by version, and the update command with a bounded number of failing file
operations. A failed exchange is undone while the temporary path is still to be removed at the end of the command, a later failure is
not (`unswap` and `undo`). A release may work or not, and one that does not may still migrate before it fails. The server that the update probes is
the server of `Storage`.

## Runs

| Run | Question | Bounds |
| --- | --- | --- |
| `accounting_corrections` | do quota periods, reservations, ledger and rows stay in step under every order of settlement, reconciliation, repricing, adjustment | one request with two attempts, two price versions, a token window and a spend quota; costs at most 2, calculated or reported by the provider; reconciliations bring tokens, not costs |
| `accounting_lifecycle` | request counts, bucket rate, slots, closed work | two requests, two attempts, two connections, instants 0..2, a window, a switched bucket and two kinds of slots, changing grants, an outbox of 3 |
| `projection` | exactly-once projection and progress | one request, two attempts on two connections, four events |
| `forward` | do answer, stored result, conversation and record agree; does the reservation cover a file search; is a translated stream whole; does every request close | one request of any form, two targets on two connections, one restart, one configuration write per connection, one place for parked settlements, three searches, four payloads |
| `media_jobs` | safety under cancel and restart; progress | two jobs, one without remote cancel, one restart, two poll failures |
| `background` | one call per job, cancels, turns, results, a queue that drains | a response, a batch of each kind with one item, one edit of the conversation, one restart |
| `resources` | does any step take what is kept over a cap; whole Gemini files | one key, one resource of each kind, two sizes, caps of three rows and units, three instants, a store that expires after two, two parts, a clock read up to one instant before its transaction |
| `identity` | one owner, current sessions, keys within grants | two users, one key, one scope, three handlers over two slots, five revisions |
| `providers` | what is sent is configured; plans are complete | two connections with a model each, two endpoints, three strategies, two bundles, one request, two revisions |
| `self_update` | pairs, the way back, honest backups, a working executable with its data | one event, two backups, two generations, one failing file operation |
| `media_restart` (violation) | does a start-up leave a job behind that nobody owns | one job, one restart |
| `free_route_race` (violation) | does a free-only route ever call a paid model | as `providers` |

The bounds are the smallest in which each fault of the mutants shows: a fallback needs two attempts, a slot conflict two requests, a
late settlement two periods, a refill remainder three instants, a settlement that is replayed under a live handler a retry with a
target left, a stale session a login and a change at once, an unpaired snapshot one event between the copies, a bad prune two
backups, a lost cancel one job and one cancel. Handlers of different requests share only the lock, the map and what `Accounting`
keeps, so `forward` has one request and lets others fill the map. Attempts, requests and users are symmetric where the properties
do not order them; runs with liveness use no symmetry. Deadlock is checked in `forward` and `background`, whose only resting states
are those with all work done; the other bounded instances end when their ids are used up.

What the violations show (quotations in `PROJECT.json`, "findings"):

- `media_restart`: `serve` runs `usage.Recover` first; it closes the attempt of a job that was being submitted, so
  `recoverSubmission` no longer recognises the job, which stays `submitting`.
- `free_route_race`: `Route` reads `free_only` and then the targets with the model's revision. A write in between gives a plan that
  is not free-only and carries the new revision, so the check at dispatch passes and a paid target is called.

Disagreements that TLC also exhibits when a passing property is widened, listed as hazards:

- a reconciliation that brings a cost, or other token counts than those recorded, leaves a settled reservation behind
  (`settlement.go:528`), so `PeriodsRestateUsage` is run with `ReconciledCosts` empty, and proved of behaviours without such a
  reconciliation (`RestatesSettled`); and `ReconcileUnknown` overwrites recorded token counts, which
  `docs/architecture/data-model.md:163` says never change;
- a job that the provider still runs is polled for ever after a restart (`worker.go:242`), and a local cancel that the answer in
  flight overwrites leaves a row that blocks the others (`worker.go:277`), so `UninterruptedJobsEnd` is
  about jobs that can be cancelled remotely, while neither happens;
- a handler that read the clock before it waited for the database touches a Vector Store that expired meanwhile
  (`vector_store_files.go:119`, and likewise `vector_stores.go:273`): the store counts again with all its Files and nobody asks for
  room, against the caps of `docs/reference/api.md:185`. `BudgetIsKept` excepts this step, `Revives`;
- a target that needs no credential is lost to a request behind one whose credential cannot be opened (`routing.go:477`);
  `PlansAreComplete` excepts such targets (`behind`), and says that no other eligible target is lost;
- a cancel of an OpenAI batch that answers with an error after its commit leaves the provider call running (`openai_batches.go:486`):
  `CancelReachesTheWorker` is about confirmed cancels and deletes, a confirmed retry included;
- parked settlements are not replayed while the background queue never empties (`response_background.go:185`), so `RequestsClose`
  is fair to the replay.

Met while reading and not carried by a property: a file search whose later call fails after it was sent is settled with the
usage of the earlier rounds as if the provider had reported it all (`responses_file_search_execution.go:465`); a tool call whose
id arrives late changes the id of an item already announced (`stream.go:156`); the sweep of expired Gemini files goes by id and takes
the live file of another key that has the same name (`gemini_files.go:182`); a first start that stops between creating the two
databases cannot be started again (`storage.go:65`); the update releases the instance lock between its snapshot and its probe, and
the probed server runs its workers on the real data (`apply.go:84`); when both the sync after the exchange and the undoing of it
fail, the deferred removal of the staged path takes the old executable with it (`apply.go:54`, `apply.go:206`).

### Fairness

`Projection`: `ProjectOutbox` is called on every background tick, so `Project` and `Delete` are weakly fair; the acknowledgement may
fail between tries, so it is strongly fair: a statement that is retried does not fail for ever. `MediaJobs`: the worker loop and
start-up are weakly fair, and a provider that is polled again and again about a job finally reports its end; the code has no
deadline of its own for a job. `Forward`: handlers are weakly fair (the overall timeout of at most ten minutes ends every wait; a
session ends with its deadline or its client), and so are the five-second replay of parked settlements and the one-minute repair,
each of which finally meets a database that answers; a stopped process is started again. `Background`: the worker goroutine,
recovery at start-up included, is weakly fair. Nothing is assumed about clients, managers or configuration writers. `Resources`,
`Identity`, `Providers` and `SelfUpdate` state no liveness: their operations are requests that nobody has to make.

## Proofs

The theorems hold for every value of the constants: any sets of requests, attempts, jobs, users, connections and policies, any limits
and bounds. Each safety theorem rests on an inductive invariant, whose preservation is proved with one step per action. `PROJECT.json` lists the results; a theorem is named here with the property it states.

| Module | Theorems | Inductive invariant, and why the property alone is not enough |
| --- | --- | --- |
| `AccountingProofs` | `LifecycleSafe` (`OneOpenAttempt`, `LeasesAreLive`, `OutboxRoom`), `ClosedIsFinal` (`ClosedStaysClosed`), `AdmissionsAreOrdered` (`AdmissionTimeIsMonotone`) | `LifeInv`: a lease survives a step only because its request has one open attempt; `OutboxRoom` counts open attempts, which `Admit` may raise only for a request that has none |
| | `LedgerExplainsAlways` (`LedgerExplainsUsage`) | `FactInv`: an attempt that can still be settled has no settlement in the ledger; amounts are integers or NULL |
| | `SlotsAreBounded` (`ConcurrencyIsBounded`) | `SlotInv`: the code counts lease rows, the property counts work; all work in flight has its row, and the rows fit the limit |
| | `ReservationsAddUp` (`ReservedIsOutstanding`) | `QuotaInv`: each reservation keeps its period and units until it is resolved, so every transaction moves the counter and the sum by the same amount |
| | `RequestsAreCountedOnce` (`RequestsCountOnce`) | `CountInv`: a request exists exactly when it has an attempt, and no attempt is dated after the clock, so an admission counts into a period that is not over |
| | `PeriodsFollowUsage` (`PeriodsRestateUsage`) | `ChargeInv`: reservations of an open attempt are unresolved, so a settlement charges each of them once; a period has consumed the sum of what its settled reservations were charged |
| | `BucketsStayBounded` (`BucketNeverOvergrants`) | `BucketInv`: a bucket holds its capacity and refill less what attempts use of it, as units reserved or charged; nothing was taken before the row existed. `Refilled` shows that a refill credits what the time is worth, remainder included; `GivenBack` and `TakenOut`, that every other step moves units between the row and the attempts |
| `ProjectionAndMediaProofs` | `ProjectionIsExactlyOnce` (`ProjectsExactlyOnce`) | `QueueOK`: acknowledged events are a prefix of the outbox, projected ones that prefix or one more, ids grow; every step then maps to a step of `ExactlyOnce` or a stutter |
| | `DaysAlwaysExplained` (`DailyExplainsAttempts`), `QueueIsNeverPoisoned` (`NothingPoisonsTheQueue`) | `DayInv`: for each day, connection and counter, the row plus the events on their way up to any point is what the attempts were worth there, which is never negative; an attempt's settlement precedes its corrections; a closed request is counted by one row |
| | `JobsAreSubmittedOnce` (`SubmittedOnce`), `JobsAgreeWithAttempts` (`JobAgreesWithAttempt`), `ClosedJobsAreFinal` (`ClosedJobIsFinal`) | `MediaInv`: what each point of the worker guarantees about the row it holds and its attempt, also while clients cancel |
| `ForwardProofs` | `SentStaysCharged` (`SentIsNeverReleased`), `AnswersMatchRecords` (`AnswerAgreesWithRecord`), `TurnsKeepTheirRequest` (`TurnsAreNotFailed`), `AnswersAreNotSpliced` (`NoAttemptAfterBytes`) | `ForwardInv`: between admission and settlement a handler's attempt is open, its own and not parked, so that neither the worker nor the repair closes it underneath (`HoldsOK`); what the client was or will be given against what the record can still become (`RecordOK`) |
| | `SearchStaysReserved` (`SearchWithinReservation`) | `SearchInv`: after `k` calls a search has used at most `Spent(k)`, and its history has grown by the output spent and one result per search at most (`Within`); `Spent` is the reservation at the largest `k`, and grows with `k` |
| `BackgroundAndResourcesProofs` | `CalledOnceAlways` (`ProviderCalledOnce`), `CancelAlwaysReaches` (`CancelReachesTheWorker`), `TurnsStayConsistent` (`TurnsAreConsistent`), `EndedBatchesStayExplained` (`EndedBatchIsExplained`) | what each place of the worker says of its job, and what stored rows say of the calls made for them: recovery decides from rows alone |
| | `BudgetIsAlwaysKept` (`BudgetIsKept`), `LimitsHoldUnlessRevived` | no invariant but types: each action is shown to lose rows, to add one for which there is room, or to exchange a row for one as large (a pending upload for its file). `TableSteps` turns what an action does to each table into what it does to the rows that count, `Exchange` that into the cap, for the gateway, an owner and a key at once (`IsBudget`) |
| | `GeminiFilesStayComplete` (`GeminiFilesAreComplete`) | `ResourcesInv`: a pending upload holds a prefix of its client's bytes, cut anywhere and sent again; an attachment has its store and its file (`AttachedOK`) |
| `IdentityProofs` | `OneOwnerAlways` (`OneOwner`), `SessionsStayCurrent` (`SessionsAreCurrent`), `KeysStayWithinCeiling` (`KeysWithinCeiling`) | `IdentityInv`: whoever remembers the current revision of a user, a login before its commit included, remembers the current password; the owner's role never leaves an active user |
| `ProvidersProofs` | `SentIsAsConfigured` (`SentAsConfigured`) | `ProvidersInv`: rows read at the current revision of a connection still hold its endpoint, credential and script; the lock keeps what was compared |
| `SelfUpdateProofs` | `SnapshotsStayPaired` (`SnapshotsArePaired`), `MigrationsStayRestorable` (`PreMigrationIsRestorable`), `BackupsStayHonest` (`BackupsAreHonest`), `UpdatesStayRecoverable` (`StaysRecoverable`), `UpdatesEndMatched` (`UpdateEndsMatched`) | `UpdateInv`: what each place of the process allows lock, snapshot and directory to be; how the databases are related half-way through a snapshot; job rows in every copy that may be restored; where the old executable is at each place of an update |

Sums. `SumFunctionOnSet` is recursive over subsets, and induction theorems with an operator parameter are out of the provers' reach.
`SumProofs` therefore argues by a counterexample of least cardinality: the recursion defines a function, the choice of the element
does not matter, and a change of one summand changes the sum by the difference.

Assumptions on the constants, each evaluated by TLC on the runs:

- `Accounting`: the bounds on outbox and clock are naturals; attempts are finitely many; request and attempt ids are disjoint; NULL
  is neither an integer nor a request; token counts, costs and rates are naturals and adjustments integers; a policy has an algorithm
  and metric that `validatePolicyInput` accepts together, and a bucket a positive refill and interval; a settlement ends in a settled state.
- `Projection`: connections are finitely many. `Forward`: each request has a route with at least one target and one attempt id per
  target; the limits of a file search are naturals.
- `Resources`: identities of rows are finitely many; sizes, lifetimes, caps and waits are naturals, no row and no lifetime is empty,
  and the null value is not a row.
- `MediaJobs`: jobs have attempts of their own, and drivers report known answers. `Background`: ids of responses and batches do not
  collide with the values beside them, a batch has an item. `Identity`, `Providers`, `Storage`: the null value is none of the
  others, bundles have the shape of an export, at least one backup is kept, bounds are naturals.

Some theorems have a hypothesis. `LimitsHoldUnlessRevived` is about behaviours in which no expired Vector Store is touched by a
handler with an older clock, the case above; `BudgetIsAlwaysKept` has none and says that no other step exceeds a cap. `SlotsAreBounded`,
`RequestsAreCountedOnce` and `BucketsStayBounded` are about policies that stay at one limit and enabled
(`SlotPoliciesAreFixed`, `RequestPoliciesAreFixed`, `BucketsAreFixed`; a bucket of tokens may be switched, other policies may change).
An owner who lowers a limit leaves more in flight than it allows, and one who switches a policy off leaves requests uncounted: the code
means both. `PeriodsFollowUsage` and `BucketsStayBounded` are about behaviours in which no reconciliation restates an attempt whose
reservation is settled (`RestatesSettled`): `ReconcileUnknown` may do that, and then leaves the period and the bucket as they were (see
above). The theorems show that it is the only operation which does. `UpdatesStayRecoverable` is about
updates in which at most one file operation fails, as in the run; with two the old executable can be lost (see above).

Only model-checked:

- liveness (`EventsAreDelivered`, `UninterruptedJobsEnd`, `RequestsClose`, `QueuedWorkEnds`), which needs fairness
  and `ENABLED`;
- `PlansAreComplete`: about `SelectSeq` and `SortSeq` of plans, that is recursion over data;
- `TranslatedIsFaithful`: about the concatenation of all payloads of a stream, likewise;
- `FreeRoutesStayFree` and `SubmittingIsOwned`, which the code violates.

## Plan

All planned modules exist, and every safety property that the provers can reach is a theorem. What a next step would be, in this
order: contents of batches and conversations in the budget of `Resources`; the concatenation of a stream's payloads over a
recursive function, to state `TranslatedIsFaithful` where induction on its length could be attempted.

## Not modelled

Whole-body translation and request validation of the dialects, text extraction, chunking and search, provider-run tools, the catalog of
candidate models (`catalog.go`), cryptography and signatures, JavaScript adapters, S3 requests, HTTP routing, read-only queries, generated query code and the dashboard. Their
correctness lies in formats and data that a small instance cannot hold, or they keep no state. SQLite is taken to be serializable and
durable; a synced file operation either happened or did not.
