------------------------------ MODULE Background ------------------------------
(***************************************************************************)
(* The durable queue behind background Responses, Anthropic Message Batches *)
(* and OpenAI Batches (internal/gateway): one goroutine, RunBackground,     *)
(* claims and runs one job at a time, HTTP handlers create, cancel and      *)
(* delete jobs between any two of its statements, and the process may stop  *)
(* at any point. Every database statement is one step.                      *)
(*                                                                           *)
(* A job is <<response, 0>> or <<batch, ordinal>>. Request bodies, result    *)
(* bytes and their encryption are abstracted: a result line is its type.     *)
(* Permission and validation of a stored request may go either way. What    *)
(* settling an attempt does to limits is the subject of Accounting; here it  *)
(* is the recorded state of the job's attempt and request.                   *)
(***************************************************************************)
EXTENDS Integers, Sequences, FiniteSets, SequencesExt

CONSTANTS
  Responses, MessageBatches, OpenAIBatches,  \* ids
  Total,                \* items of a batch
  KeyOf, OwnerOf,       \* [ids -> keys], [keys -> owners]
  MaxJobs, MaxOwnerJobs, MaxKeyJobs,  \* backgroundQueueJobs, OwnerJobs, KeyJobs
  MaxSubmissions, MaxEdits, MaxCrashes  \* bounds on ids used, client turns and restarts

ASSUME LimitsAssumption == MaxJobs \in Nat /\ MaxOwnerJobs \in Nat /\ MaxKeyJobs \in Nat
ASSUME TotalAssumption == Total \in Nat \ {0}
\* The ids carry the prefix of their kind.
ASSUME IdsAssumption ==
  MessageBatches \cap OpenAIBatches = {} /\ "edit" \notin Responses /\ "deleted" \notin Responses

VARIABLES
  resp,     \* stored_responses: state, attached to the conversation, the revision read
  batch,    \* message_batches, openai_batches: status, cancel_requested, counts
  item,     \* the batch items: state and result line
  late,     \* batches past their processing deadline
  order,    \* ids of each of the three kinds of work by created_at
  conv,     \* one conversation: what happened to it, a turn (the response), "edit" or "deleted"
  worker,   \* where RunBackground stands, its job and what its recorder holds
  next,     \* handler.nextBackground
  last,     \* the key of the last claimed response (lastKey, lastOwner), or "none"
  live,     \* handler.active: jobs with a registered cancel function
  cut,      \* jobs whose cancel function was called
  signals,  \* cancel and delete handlers before their call of cancelActive
  unconfirmed, \* history: ids whose last cancel or delete took effect and was answered with an error
  calls,    \* provider calls made for a job
  acct,     \* attempt and request of a job as accounting records them
  crashes   \* restarts so far

dbVars == <<resp, batch, item, order, conv, acct>>
procVars == <<worker, next, last, live, cut, signals, unconfirmed>>
bgVars == <<dbVars, procVars, late, calls, crashes>>

Batches == MessageBatches \cup OpenAIBatches
Items == Batches \X (1..Total)
Job(r) == <<r, 0>>
Jobs == {Job(r) : r \in Responses} \cup Items
IsResponse(j) == j[2] = 0
KindOf(id) == IF id \in Responses THEN 0 ELSE IF id \in MessageBatches THEN 1 ELSE 2
ItemsOf(b) == {b} \X (1..Total)
OpenItem == {"queued", "claimed", "dispatching", "settling"}
OpenResponse == {"queued", "running"}
OpenStatus == {"in_progress", "cancelling"}
EndedStatus == {"ended", "completed", "cancelled", "expired"}
NoAccount == [attempt |-> "none", request |-> "none"]
NewItem == [state |-> "queued", line |-> "none"]
NoBatch == [status |-> "none", cancel |-> FALSE, completed |-> 0, failed |-> 0]
Idle == [pc |-> "idle", kind |-> 0, job |-> <<"none", 0>>, got |-> "none"]

BackgroundInit ==
  /\ resp = [r \in Responses |-> [state |-> "none", attached |-> FALSE, base |-> 0]]
  /\ batch = [b \in Batches |-> NoBatch]
  /\ item = [j \in Items |-> [state |-> "none", line |-> "none"]]
  /\ late = {} /\ order = [kind \in 0..2 |-> <<>>] /\ conv = <<>>
  /\ worker = [Idle EXCEPT !.pc = "recover"] /\ next = 0 /\ last = "none"
  /\ live = {} /\ cut = {} /\ signals = {} /\ unconfirmed = {}
  /\ calls = [j \in Jobs |-> 0]
  /\ acct = [j \in Jobs |-> NoAccount]
  /\ crashes = 0

-----------------------------------------------------------------------------
(* Faulty variants. Nothing uses them: each replaces its original to show  *)
(* that a property notices the fault.                                        *)

RecoveredItemRetries(j) ==
  IF item[j].state = "settling" THEN [item[j] EXCEPT !.state = item[j].line] ELSE NewItem
RegisteredLate(j) == UNCHANGED live
TurnFitsDeleted(r) == resp[r].base = Cardinality({n \in DOMAIN conv : conv[n] # "deleted"})
ResultLineTrustsCancel(j, got) == IF batch[j[1]].cancel THEN "canceled" ELSE "errored"
LostClaims == {"dispatching", "settling"}

-----------------------------------------------------------------------------
(* Capacity: checkBackgroundQueueCapacity counts every open job. *)

OpenJobs == {Job(r) : r \in {q \in Responses : resp[q].state \in OpenResponse}}
            \cup {j \in Items : item[j].state \in OpenItem}
Fits(id, incoming) ==
  LET k == KeyOf[id] IN
  /\ Cardinality(OpenJobs) + incoming <= MaxJobs
  /\ Cardinality({j \in OpenJobs : OwnerOf[KeyOf[j[1]]] = OwnerOf[k]}) + incoming <= MaxOwnerJobs
  /\ Cardinality({j \in OpenJobs : KeyOf[j[1]] = k}) + incoming <= MaxKeyJobs

-----------------------------------------------------------------------------
(* The handlers. *)

Submitted == {r \in Responses : resp[r].state # "none"} \cup {b \in Batches : batch[b].status # "none"}
MaySubmit == Cardinality(Submitted) < MaxSubmissions

\* prepareConversationResponse reads the revision of a conversation that is there.
Exists == ~Contains(conv, "deleted")
Revision == Cardinality({n \in DOMAIN conv : conv[n] # "deleted"})

\* responses and enqueueResponse. A change between the read of the revision and
\* the INSERT is a change after it: nothing in between looks at the revision.
EnqueueResponse(r, attached) ==
  /\ resp[r].state = "none" /\ MaySubmit
  /\ Fits(r, 1)
  /\ attached => Exists
  /\ resp' = [resp EXCEPT ![r] = [state |-> "queued", attached |-> attached, base |-> Revision]]
  /\ order' = [order EXCEPT ![0] = Append(@, r)]
  /\ calls' = [calls EXCEPT ![Job(r)] = 0] /\ acct' = [acct EXCEPT ![Job(r)] = NoAccount]
  /\ UNCHANGED <<batch, item, late, conv, worker, next, last, live, cut, signals, unconfirmed, crashes>>

\* The transaction both create handlers end with: the batch and its items.
CreateBatch(b) ==
  /\ batch[b].status = "none" /\ MaySubmit /\ Fits(b, Total)
  /\ batch' = [batch EXCEPT ![b] = [NoBatch EXCEPT !.status = "in_progress"]]
  /\ item' = [j \in Items |-> IF j \in ItemsOf(b) THEN NewItem ELSE item[j]]
  /\ order' = [order EXCEPT ![KindOf(b)] = Append(@, b)]
  /\ UNCHANGED <<resp, late, conv, worker, next, last, live, cut, signals, unconfirmed, calls, acct, crashes>>

CreateMessageBatch(b) == b \in MessageBatches /\ CreateBatch(b)
CreateOpenAIBatch(b) == b \in OpenAIBatches /\ CreateBatch(b)

\* cancelResponse up to its UPDATE.
CancelResponse(r) ==
  /\ resp[r].state \in OpenResponse /\ r \notin signals
  /\ resp' = [resp EXCEPT ![r].state = "cancelled"]
  /\ signals' = signals \cup {r}
  /\ UNCHANGED <<batch, item, late, order, conv, worker, next, last, live, cut, unconfirmed, calls, acct, crashes>>

\* deleteResponse up to its DELETE.
DeleteResponse(r) ==
  /\ resp[r].state \notin {"none", "deleted"} /\ r \notin signals
  /\ resp' = [resp EXCEPT ![r].state = "deleted"]
  /\ order' = [order EXCEPT ![0] = Remove(@, r)]
  /\ signals' = signals \cup {r}
  /\ UNCHANGED <<batch, item, late, conv, worker, next, last, live, cut, unconfirmed, calls, acct, crashes>>

\* What is left of the items not yet dispatched, of batches canceled (C) or
\* expired (cancelOpenAIBatchQueuedTx, cancelQueuedBatchItems, the reconcile loops).
Undispatched == {"queued", "claimed"}
Withdrawn(B, C, it) ==
  [j \in Items |->
     LET end == IF j[1] \in C THEN "canceled" ELSE "expired" IN
     IF j[1] \in B /\ it[j].state \in Undispatched THEN [state |-> end, line |-> end] ELSE it[j]]

\* messageBatchValue: the request_counts of an ended Message Batch, by item state.
RequestCounts(b, state) ==
  Cardinality({j \in ItemsOf(b) :
    item[j].state \in IF state = "errored" THEN {"errored", "interrupted_unknown"} ELSE {state}})

\* finishMessageBatchTx and finalizeOpenAIBatch: a batch ends when none of its
\* items is open; an OpenAI batch then moves its lines to Files, drops the items
\* and takes its status from the cancel request and the expired items.
Done(b, it) == \A j \in ItemsOf(b) : it[j].state \notin OpenItem
CountLines(b, it, lines) == Cardinality({j \in ItemsOf(b) : it[j].line \in lines})
Ended(b, cancel, it) ==
  IF b \in MessageBatches THEN [batch[b] EXCEPT !.status = "ended", !.cancel = cancel]
  ELSE [status |-> IF cancel THEN "cancelled"
                   ELSE IF CountLines(b, it, {"expired"}) > 0 THEN "expired" ELSE "completed",
        cancel |-> cancel, completed |-> CountLines(b, it, {"succeeded"}),
        failed |-> CountLines(b, it, {"errored"})]
Finalized(B, it) ==
  [b \in Batches |-> IF b \in B /\ batch[b].status \in OpenStatus /\ Done(b, it)
                     THEN Ended(b, batch[b].cancel, it) ELSE batch[b]]
DroppedItems(B, it) ==
  [j \in Items |-> IF j[1] \in B \cap OpenAIBatches /\ batch[j[1]].status \in OpenStatus /\ Done(j[1], it)
                   THEN [it[j] EXCEPT !.state = "gone"] ELSE it[j]]

\* The transaction of a cancel: the undispatched items are withdrawn.
CancelBatch(b, ended) ==
  /\ batch[b].status \in OpenStatus /\ b \notin signals
  /\ item' = Withdrawn({b}, {b}, item)
  /\ batch' = [batch EXCEPT ![b] = IF ended THEN Ended(b, TRUE, item')
                                   ELSE [@ EXCEPT !.status = "cancelling", !.cancel = TRUE]]
  /\ signals' = signals \cup {b}
  /\ UNCHANGED <<resp, late, order, conv, worker, next, last, live, cut, unconfirmed, calls, acct, crashes>>

\* cancelMessageBatch up to cancelBatchActive: a batch left with no open item ends here.
CancelMessageBatch(b) ==
  b \in MessageBatches /\ CancelBatch(b, Done(b, Withdrawn({b}, {b}, item)))
\* cancelOpenAIBatch up to its commit.
CancelOpenAIBatch(b) == b \in OpenAIBatches /\ CancelBatch(b, FALSE)

\* deleteMessageBatch: only an ended batch.
DeleteBatch(b) ==
  /\ b \in MessageBatches /\ batch[b].status = "ended"
  /\ batch' = [batch EXCEPT ![b].status = "deleted"]
  /\ order' = [order EXCEPT ![1] = Remove(@, b)]
  /\ item' = [j \in Items |-> IF j[1] = b THEN [item[j] EXCEPT !.state = "gone"] ELSE item[j]]
  /\ UNCHANGED <<resp, late, conv, procVars, calls, acct, crashes>>

\* The second half of the handlers above, after which they answer with success:
\* finalizeOpenAIBatch, then cancelActive or cancelBatchActive.
CancelActive(id) ==
  /\ id \in signals
  /\ signals' = signals \ {id} /\ unconfirmed' = unconfirmed \ {id}
  /\ batch' = Finalized({id} \cap OpenAIBatches, item)
  /\ item' = DroppedItems({id} \cap OpenAIBatches, item)
  /\ cut' = cut \cup {j \in live : j[1] = id}
  /\ UNCHANGED <<resp, order, conv, acct, late, worker, next, last, live, calls, crashes>>

\* The handlers that answer with an error although they wrote the row, and then
\* cancel no call: cancelOpenAIBatch when finalizeOpenAIBatch fails, cancelResponse
\* and deleteResponse when their statement took effect and a context that had ended
\* made it report an error. A later cancel or delete of the id may still succeed.
AnswerError(id) ==
  /\ id \in signals \ MessageBatches
  /\ signals' = signals \ {id} /\ unconfirmed' = unconfirmed \cup {id}
  /\ UNCHANGED <<dbVars, worker, next, last, live, cut, late, calls, crashes>>

\* The 24 hours of a batch pass; its job context has that deadline.
PassDeadline(b) ==
  /\ batch[b].status \in OpenStatus /\ b \notin late
  /\ late' = late \cup {b}
  /\ UNCHANGED <<dbVars, procVars, calls, crashes>>

\* The client changes the conversation itself (while that can matter): adding or
\* deleting an item bumps the revision, deleting the conversation does not.
Edits(change) ==
  /\ Exists /\ Cardinality({n \in DOMAIN conv : conv[n] \notin Responses}) < MaxEdits
  /\ \E r \in Responses : resp[r].attached /\ resp[r].state \in OpenResponse
  /\ conv' = Append(conv, change)
  /\ UNCHANGED <<resp, batch, item, order, acct, procVars, late, calls, crashes>>
CreateConversationItems == Edits("edit")
DeleteConversationItem == Edits("edit")
DeleteConversation == Edits("deleted")

-----------------------------------------------------------------------------
(* RunBackground: recovery, then the round robin. *)

\* recoverBackground: a running response is closed with an unknown outcome.
RecoverResponse(r) ==
  /\ worker.pc = "recover" /\ resp[r].state = "running"
  /\ resp' = [resp EXCEPT ![r].state = "interrupted_unknown"]
  /\ UNCHANGED <<batch, item, order, conv, acct, procVars, late, calls, crashes>>

\* recoverMessageBatches and recoverOpenAIBatches on one item: a claim is given
\* back, a stored result is kept, a dispatched item has an unknown outcome.
Recoverable == {"claimed", "dispatching", "settling"}
RecoveredItem(j) ==
  CASE item[j].state = "claimed" -> NewItem
    [] item[j].state = "settling" -> [item[j] EXCEPT !.state = item[j].line]
    [] item[j].state = "dispatching" /\ j[1] \in late \cap OpenAIBatches -> [state |-> "expired", line |-> "expired"]
    [] OTHER -> [state |-> "interrupted_unknown", line |-> "errored"]
RecoverItem(j) ==
  /\ worker.pc = "recover" /\ \A r \in Responses : resp[r].state # "running"
  /\ item[j].state \in Recoverable
  /\ item' = [item EXCEPT ![j] = RecoveredItem(j)]
  /\ UNCHANGED <<resp, batch, order, conv, acct, procVars, late, calls, crashes>>

\* reconcileMessageBatches and reconcileOpenAIBatches.
Overdue(B) == {b \in B : batch[b].status \in OpenStatus /\ (batch[b].cancel \/ b \in late)}
Reconciled(B) == Withdrawn(Overdue(B), {b \in B : batch[b].cancel}, item)

FinishRecovery ==
  /\ worker.pc = "recover"
  /\ \A r \in Responses : resp[r].state # "running"
  /\ \A j \in Items : item[j].state \notin Recoverable
  /\ batch' = Finalized(Batches, Reconciled(Batches))
  /\ item' = DroppedItems(Batches, Reconciled(Batches))
  /\ worker' = Idle
  /\ UNCHANGED <<resp, order, conv, acct, next, last, live, cut, signals, unconfirmed, late, calls, crashes>>

Position(id) == CHOOSE n \in DOMAIN order[KindOf(id)] : order[KindOf(id)][n] = id
Before(j, q) == \* ORDER BY created_at, ordinal
  Position(j[1]) < Position(q[1]) \/ (j[1] = q[1] /\ j[2] < q[2])

\* claimBackground: not the last owner, then not the last key, then the oldest.
Rank(r) == IF last = "none" THEN 0
           ELSE (IF OwnerOf[KeyOf[r]] = OwnerOf[last] THEN 2 ELSE 0) + (IF KeyOf[r] = last THEN 1 ELSE 0)
QueuedResponses == {r \in Responses : resp[r].state = "queued"}
ClaimsResponse(r) ==
  /\ r \in QueuedResponses
  /\ \A q \in QueuedResponses \ {r} : Rank(r) < Rank(q) \/ (Rank(r) = Rank(q) /\ Before(Job(r), Job(q)))

\* claimMessageBatch and claimOpenAIBatch, after their reconcile: the oldest item
\* of a batch in progress that is neither canceled nor late.
QueuedItems(B, it) ==
  {j \in Items : /\ j[1] \in B /\ it[j].state = "queued"
                 /\ batch[j[1]].status = "in_progress" /\ ~batch[j[1]].cancel /\ j[1] \notin late}

\* One pass of RunBackground over the three kinds from nextBackground on: the
\* batch kinds it tries are reconciled, and the first kind with work is claimed.
KindBatches(kind) == {b \in Batches : KindOf(b) = kind}
ItemsAfter(B) == DroppedItems(B, Reconciled(B))
HasWork(kind) == IF kind = 0 THEN QueuedResponses # {} ELSE QueuedItems(KindBatches(kind), item) # {}
FirstWork(kind) ==
  HasWork(kind) /\ \A other \in 0..2 : (other - next) % 3 < (kind - next) % 3 => ~HasWork(other)
Tried(kind) == UNION {KindBatches(other) : other \in {t \in 0..2 : (t - next) % 3 <= (kind - next) % 3}}
Claimed(j, kind) == [Idle EXCEPT !.pc = "claimed", !.kind = kind, !.job = j]

ClaimResponse(r) ==
  /\ worker.pc = "idle" /\ FirstWork(0) /\ ClaimsResponse(r)
  /\ resp' = [resp EXCEPT ![r].state = "running"]
  /\ worker' = Claimed(Job(r), 0) /\ last' = KeyOf[r]
  /\ batch' = Finalized(Tried(0), Reconciled(Tried(0))) /\ item' = ItemsAfter(Tried(0))
  /\ UNCHANGED <<order, conv, acct, next, live, cut, signals, unconfirmed, late, calls, crashes>>

ClaimItem(j, kind) ==
  LET queued == QueuedItems(KindBatches(kind), item) IN
  /\ worker.pc = "idle" /\ FirstWork(kind)
  /\ j \in queued /\ \A q \in queued \ {j} : Before(j, q)
  /\ batch' = Finalized(Tried(kind), Reconciled(Tried(kind)))
  /\ item' = [ItemsAfter(Tried(kind)) EXCEPT ![j].state = "claimed"]
  /\ worker' = Claimed(j, kind)
  /\ UNCHANGED <<resp, order, conv, acct, next, last, live, cut, signals, unconfirmed, late, calls, crashes>>

\* Nothing ran: the select of RunBackground, where alone the ticker is read. A
\* token in handler.wake only shortens the wait, and is left out.
Tick ==
  /\ worker.pc = "idle" /\ \A kind \in 0..2 : ~HasWork(kind)
  /\ batch' = Finalized(Batches, Reconciled(Batches)) /\ item' = ItemsAfter(Batches)
  /\ UNCHANGED <<resp, order, conv, acct, worker, next, last, live, cut, signals, unconfirmed, late, calls, crashes>>

-----------------------------------------------------------------------------
(* One job, from its claim to its end. *)

At(pc, j) == worker.pc = pc /\ worker.job = j
Step(pc) == worker' = [worker EXCEPT !.pc = pc]
\* The deferred functions of the job, then the next kind.
EndJob ==
  /\ worker' = Idle /\ next' = (worker.kind + 1) % 3
  /\ live' = live \ {worker.job} /\ cut' = cut \ {worker.job}
  /\ UNCHANGED <<last, signals, unconfirmed>>
StayOn(pc) == Step(pc) /\ UNCHANGED <<next, last, live, cut, signals, unconfirmed>>

\* failBackground leaves a response alone that is no longer open.
FailResponse(r) == resp' = [resp EXCEPT ![r].state = IF @ \in OpenResponse THEN "failed" ELSE @]

\* runBackground up to the registration: validation, permission, and the
\* revision of the conversation.
CheckResponse(r) ==
  /\ At("claimed", Job(r))
  /\ \/ FailResponse(r) /\ EndJob
     \/ /\ resp[r].attached => Exists /\ resp[r].base = Revision
        /\ UNCHANGED resp /\ StayOn("register")
  /\ UNCHANGED <<batch, item, order, conv, acct, late, calls, crashes>>

\* runMessageBatch and runOpenAIBatch up to the registration: a refused item is
\* finished as errored, a withdrawn one is left alone.
DispatchItem(j) ==
  /\ At("claimed", j)
  /\ \/ /\ worker' = [worker EXCEPT !.pc = "finish", !.got = "errored"]
        /\ UNCHANGED <<item, next, last, live, cut, signals, unconfirmed>>
     \/ /\ item[j].state = "claimed"
        /\ item' = [item EXCEPT ![j].state = "dispatching"] /\ StayOn("register")
     \/ /\ item[j].state # "claimed"
        /\ UNCHANGED item /\ EndJob
  /\ UNCHANGED <<resp, batch, order, conv, acct, late, calls, crashes>>

\* handler.active[job] = cancel, under activeMu.
Registered(j) == live' = live \cup {j}
Register(j) ==
  /\ At("register", j)
  /\ Registered(j) /\ Step("reread")
  /\ UNCHANGED <<dbVars, next, last, cut, signals, unconfirmed, late, calls, crashes>>

\* The row is read again once cancelActive can find the job.
Reread(j) ==
  /\ At("reread", j)
  /\ \/ /\ IsResponse(j)
        /\ IF resp[j[1]].state = "running" THEN StayOn("send") ELSE EndJob
     \/ /\ ~IsResponse(j)
        /\ worker' = IF batch[j[1]].cancel THEN [worker EXCEPT !.pc = "finish", !.got = "canceled"]
                     ELSE IF j[1] \in late THEN [worker EXCEPT !.pc = "finish", !.got = "expired"]
                     ELSE [worker EXCEPT !.pc = "send"]
        /\ UNCHANGED <<next, last, live, cut, signals, unconfirmed>>
  /\ UNCHANGED <<dbVars, late, calls, crashes>>

\* forwardAuthorized up to the provider call, or refused before an attempt exists.
Send(j) ==
  /\ At("send", j)
  /\ \/ /\ calls' = [calls EXCEPT ![j] = @ + 1]
        /\ acct' = [acct EXCEPT ![j] = [attempt |-> "open", request |-> "open"]]
        /\ Step("answer")
     \/ /\ worker' = [worker EXCEPT !.pc = "outcome", !.got = "denied"]
        /\ UNCHANGED <<calls, acct>>
  /\ UNCHANGED <<resp, batch, item, order, conv, next, last, live, cut, signals, unconfirmed, late, crashes>>

\* The answer and its settlement. A context that has ended makes the outcome
\* unknown whatever arrived; the request of an attached response that succeeded
\* stays open (deferStore); a settlement may be refused for good ("unsettled").
ContextEnded(j) == j \in cut \/ j[1] \in late
KeepsRequestOpen(j, got) == IsResponse(j) /\ resp[j[1]].attached /\ got = "succeeded"
Answer(j) ==
  /\ At("answer", j)
  /\ \E got \in IF ContextEnded(j) THEN {"interrupted_unknown"} ELSE {"succeeded", "failed", "unsettled"} :
       /\ acct' = [acct EXCEPT ![j] =
            IF got = "unsettled" THEN @
            ELSE [attempt |-> got, request |-> IF KeepsRequestOpen(j, got) THEN "open" ELSE got]]
       /\ worker' = [worker EXCEPT !.pc = "outcome", !.got = got]
  /\ UNCHANGED <<resp, batch, item, order, conv, next, last, live, cut, signals, unconfirmed, late, calls, crashes>>

\* The rest of runBackground. An attached response is linked to its request
\* first (a lost row ends the job there); a result that cannot be stored, an
\* error or a conversation that moved on closes the request as failed.
CloseRequest(r, state) ==
  acct' = [acct EXCEPT ![Job(r)].request = IF @ = "open" /\ acct[Job(r)].attempt # "open" THEN state ELSE @]
EndResponse(r) ==
  /\ At("outcome", Job(r))
  /\ \/ /\ worker.got = "unsettled"
           \/ (resp[r].attached /\ (worker.got = "denied" \/ resp[r].state # "running"))
        /\ FailResponse(r) /\ UNCHANGED <<acct, conv>> /\ EndJob
     \/ /\ worker.got = "succeeded" /\ ~resp[r].attached
        /\ resp' = [resp EXCEPT ![r].state = IF @ = "running" THEN "completed" ELSE @]
        /\ UNCHANGED <<acct, conv>> /\ EndJob
     \/ /\ worker.got = "succeeded" /\ resp[r].attached /\ resp[r].state = "running"
        /\ UNCHANGED <<resp, acct, conv>> /\ StayOn("complete")
     \/ /\ worker.got # "unsettled" /\ (resp[r].attached => worker.got # "denied" /\ resp[r].state = "running")
        /\ CloseRequest(r, "failed") /\ UNCHANGED <<resp, conv>> /\ StayOn("fail")
  /\ UNCHANGED <<batch, item, order, late, calls, crashes>>

\* appendConversationTurn: the turn goes in at the revision its request was built on.
TurnFits(r) == Exists /\ resp[r].base = Revision

\* completeBackgroundConversation, one transaction: the turn is appended, the row
\* completed and the request closed. A row that is no longer running ends the
\* job; a conversation that moved on or is full fails the response.
CompleteTurn(r) ==
  /\ At("complete", Job(r))
  /\ \/ /\ TurnFits(r) /\ resp[r].state = "running" /\ acct[Job(r)].request = "open"
        /\ conv' = Append(conv, r)
        /\ resp' = [resp EXCEPT ![r].state = "completed"]
        /\ CloseRequest(r, "succeeded") /\ EndJob
     \/ /\ TurnFits(r) /\ resp[r].state # "running"
        /\ CloseRequest(r, "failed") /\ UNCHANGED <<resp, conv>> /\ EndJob
     \/ /\ CloseRequest(r, "failed") /\ UNCHANGED <<resp, conv>> /\ StayOn("fail")
  /\ UNCHANGED <<batch, item, order, late, calls, crashes>>
FailBackground(r) ==
  /\ At("fail", Job(r))
  /\ FailResponse(r) /\ EndJob
  /\ UNCHANGED <<batch, item, order, conv, acct, late, calls, crashes>>

\* The rest of runMessageBatch and runOpenAIBatch: a settled outcome is kept even
\* when the batch was canceled meanwhile; any other is canceled, expired or errored.
ResultLine(j, got) ==
  IF got = "succeeded" THEN "succeeded"
  ELSE IF got = "failed" THEN "errored"
  ELSE IF batch[j[1]].cancel THEN "canceled"
  ELSE IF j[1] \in late THEN "expired" ELSE "errored"
StoreResult(j) ==
  /\ At("outcome", j)
  /\ \E line \in {ResultLine(j, worker.got)} \cup (IF worker.got = "succeeded" THEN {"errored"} ELSE {}) :
       \/ /\ worker.got # "denied" /\ line \in {"succeeded", "errored"}
          /\ item' = [item EXCEPT ![j] = [state |-> "settling", line |-> line]]
          /\ worker' = [worker EXCEPT !.pc = "finish", !.got = line]
       \/ /\ worker.got = "denied" \/ line \in {"canceled", "expired"}
          /\ worker' = [worker EXCEPT !.pc = "finish", !.got = line]
          /\ UNCHANGED item
  /\ UNCHANGED <<resp, batch, order, conv, acct, next, last, live, cut, signals, unconfirmed, late, calls, crashes>>

\* finishMessageBatchItem ends the batch in the same transaction,
\* finishOpenAIBatchItem in a later one.
FinishItem(j) ==
  LET changes == item[j].state \in Recoverable
      it == [item EXCEPT ![j] = IF changes THEN [state |-> worker.got, line |-> worker.got] ELSE @]
      ending == {j[1]} \cap MessageBatches
  IN
  /\ At("finish", j)
  /\ item' = it
  /\ batch' = IF changes THEN Finalized(ending, it) ELSE batch
  /\ IF changes /\ j[1] \in OpenAIBatches THEN StayOn("finalize") ELSE EndJob
  /\ UNCHANGED <<resp, order, conv, acct, late, calls, crashes>>
FinalizeBatch(j) ==
  /\ At("finalize", j)
  /\ batch' = Finalized({j[1]}, item)
  /\ item' = DroppedItems({j[1]}, item)
  /\ EndJob
  /\ UNCHANGED <<resp, order, conv, acct, late, calls, crashes>>

-----------------------------------------------------------------------------
(* Around the worker. *)

\* RepairStaleRequests: an open request nobody works on, with its attempt ended.
RepairRequest(r) ==
  /\ acct[Job(r)].request = "open" /\ acct[Job(r)].attempt # "open" /\ worker.job # Job(r)
  /\ CloseRequest(r, "failed")
  /\ UNCHANGED <<resp, batch, item, order, conv, procVars, late, calls, crashes>>

\* The process stops; the next one runs usage.Recover, then RunBackground.
Restart ==
  /\ crashes < MaxCrashes
  /\ crashes' = crashes + 1
  /\ worker' = [Idle EXCEPT !.pc = "recover"] /\ next' = 0 /\ last' = "none"
  /\ live' = {} /\ cut' = {} /\ signals' = {} /\ unconfirmed' = {}
  /\ acct' = [j \in Jobs |->
       IF acct[j].attempt = "open" THEN [attempt |-> "interrupted_unknown", request |-> "interrupted_unknown"]
       ELSE IF acct[j].request = "open" THEN [acct[j] EXCEPT !.request = "failed"] ELSE acct[j]]
  /\ UNCHANGED <<resp, batch, item, order, conv, late, calls>>

ClientStep ==
  \/ \E r \in Responses : \/ \E attached \in BOOLEAN : EnqueueResponse(r, attached)
                          \/ CancelResponse(r) \/ DeleteResponse(r) \/ RepairRequest(r)
  \/ \E b \in Batches : CreateMessageBatch(b) \/ CreateOpenAIBatch(b) \/ CancelMessageBatch(b)
                        \/ CancelOpenAIBatch(b) \/ DeleteBatch(b) \/ PassDeadline(b)
  \/ \E id \in signals : CancelActive(id) \/ AnswerError(id)
  \/ CreateConversationItems \/ DeleteConversationItem \/ DeleteConversation

WorkerStep ==
  \/ \E r \in Responses : \/ RecoverResponse(r) \/ ClaimResponse(r) \/ CheckResponse(r) \/ EndResponse(r)
                          \/ CompleteTurn(r) \/ FailBackground(r)
  \/ \E j \in Items : RecoverItem(j) \/ (\E kind \in 1..2 : ClaimItem(j, kind)) \/ DispatchItem(j) \/ StoreResult(j) \/ FinishItem(j) \/ FinalizeBatch(j)
  \/ \E j \in Jobs : Register(j) \/ Reread(j) \/ Send(j) \/ Answer(j)
  \/ FinishRecovery \/ Tick

BackgroundNext == ClientStep \/ WorkerStep \/ Restart

\* The goroutine keeps running: databases answer again, providers answer or time
\* out. Nothing obliges clients, and nothing stops them.
BackgroundSpec == BackgroundInit /\ [][BackgroundNext]_bgVars /\ WF_bgVars(WorkerStep)

-----------------------------------------------------------------------------
(* Properties. *)

\* The provider is called at most once for a job, whatever the restarts: an item
\* given back to the queue at recovery had never been dispatched.
ProviderCalledOnce == \A j \in Jobs : calls[j] <= 1

\* A cancel or delete that its handler has confirmed reaches the worker: either
\* the worker has not read the row again yet and will see it, or the job's context
\* is ended; so does a confirmed retry of one that was answered with an error. The
\* order register-then-read in the worker and write-then-look-up in the handler is
\* what makes this so. A handler that answers with an error after its write
\* (cancelOpenAIBatch, openai_batches.go:486) leaves the call running.
CanceledJob(j) == IF IsResponse(j) THEN resp[j[1]].state # "running" ELSE batch[j[1]].cancel
CancelReachesTheWorker ==
  \A j \in Jobs :
    worker.job = j /\ worker.pc \in {"send", "answer"} /\ CanceledJob(j)
      => ContextEnded(j) \/ j[1] \in signals \cup unconfirmed

\* A turn of a response is appended once, directly after the history its request
\* was built from, never to a deleted conversation, and only together with a completed response and a request
\* closed as succeeded; nothing else closes such a request as succeeded.
TurnsAreConsistent ==
  /\ \A n \in DOMAIN conv : conv[n] \in Responses =>
       resp[conv[n]].base = n - 1 /\ \A m \in 1..n : conv[m] # "deleted"
  /\ \A r \in Responses : resp[r].attached =>
       /\ Contains(conv, r) <=> acct[Job(r)].request = "succeeded"
       /\ resp[r].state = "completed" => Contains(conv, r)
       /\ Contains(conv, r) => resp[r].state \in {"completed", "deleted"}

\* An ended batch has one result line per item: a succeeded line has a settled
\* successful attempt behind it, a canceled line no completed one; the counts shown
\* of a Message Batch are those of its results, those of an OpenAI batch those of its
\* Files, and "completed" hides no withdrawn item.
EndedBatchIsExplained ==
  \A b \in Batches : batch[b].status \in EndedStatus =>
    /\ \A j \in ItemsOf(b) :
         /\ item[j].line # "none" /\ item[j].state \notin OpenItem
         /\ item[j].line = "succeeded" => acct[j].attempt = "succeeded"
         /\ item[j].line = "canceled" => acct[j].attempt \notin {"succeeded", "failed"}
    /\ b \in MessageBatches => \A line \in {"succeeded", "errored", "canceled", "expired"} :
         RequestCounts(b, line) = CountLines(b, item, {line})
    /\ b \in OpenAIBatches =>
         /\ batch[b].completed = CountLines(b, item, {"succeeded"})
         /\ batch[b].completed + batch[b].failed + CountLines(b, item, {"canceled", "expired"}) = Total
         /\ batch[b].status = "completed" => CountLines(b, item, {"canceled", "expired"}) = 0

\* The queue drains: with finitely many submissions, every accepted response and
\* every batch comes to an end, whatever is canceled, late or interrupted.
Drained == /\ \A r \in Responses : resp[r].state \notin OpenResponse
           /\ \A b \in Batches : batch[b].status \notin OpenStatus
QueuedWorkEnds == []<>Drained
=============================================================================
