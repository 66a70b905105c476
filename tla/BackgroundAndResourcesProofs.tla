------------------- MODULE BackgroundAndResourcesProofs -------------------
(***************************************************************************)
(* Proofs about Background and about Resources, for all values of their    *)
(* constants: every set of responses and batches, every number of items,   *)
(* limits and restarts; every set of keys, owners, rows, sizes and caps.   *)
(*                                                                         *)
(* The inductive invariant of Background says, for each place the worker   *)
(* can be at, what the rows of its job may look like by then, whatever the *)
(* handlers did meanwhile (WorkerCall, WorkerResponse, WorkerItem); what a *)
(* stored response and a stored item say of the calls made for them        *)
(* (ResponsesOK, ItemsOK); and how an ended batch counts its lines         *)
(* (BatchesOK).                                                            *)
(*                                                                         *)
(* That of Resources (ResourcesInv) gives the tables their types, says     *)
(* that what is attached is there (AttachedOK) and that a pending Gemini   *)
(* upload holds a front part of its bytes (PrefixOK).  The budget is       *)
(* argued for one of its three sets of keys at a time (IsBudget): a step   *)
(* takes rows away, adds rows that HasRoom made room for, or trades a row  *)
(* for one that is no larger (FewerRows, OneMoreRow, MoreRows, TradedRow,  *)
(* all from Exchange); which it is follows from what the step does to each *)
(* of the eight tables (TableSteps).                                       *)
(***************************************************************************)
EXTENDS Background, Resources, SumProofs, FiniteSetTheorems, SequenceTheorems, TLAPS


ActivePc == {"claimed", "register", "reread", "send", "answer", "outcome", "complete", "fail", "finish", "finalize"}
Outcomes == {"succeeded", "failed", "unsettled", "interrupted_unknown", "denied"}
ResultLines == {"succeeded", "errored", "canceled", "expired"}
ClosedItem == ResultLines \cup {"interrupted_unknown", "gone"}

RespRow == [state : {"none", "queued", "running", "completed", "failed", "cancelled", "deleted", "interrupted_unknown"},
            attached : BOOLEAN, base : Nat]
BatchRow == [status : {"none", "deleted"} \cup OpenStatus \cup EndedStatus, cancel : BOOLEAN, completed : Nat, failed : Nat]
ItemRow == [state : {"none"} \cup OpenItem \cup ClosedItem, line : {"none"} \cup ResultLines]
AttemptState == {"none", "open", "succeeded", "failed", "interrupted_unknown"}
AcctRow == [attempt : AttemptState, request : AttemptState]
WorkerRow == [pc : {"idle", "recover"} \cup ActivePc, kind : 0..2, job : Jobs \cup {<<"none", 0>>},
              got : {"none"} \cup Outcomes \cup ResultLines]

BackgroundTypeOK ==
  /\ resp \in [Responses -> RespRow]
  /\ batch \in [Batches -> BatchRow]
  /\ item \in [Items -> ItemRow]
  /\ conv \in Seq(Responses \cup {"edit", "deleted"})
  /\ worker \in WorkerRow
  /\ calls \in [Jobs -> Nat]
  /\ acct \in [Jobs -> AcctRow]

NotSent == {"claimed", "register", "reread", "send"}
WithItem == {"register", "reread", "send", "answer", "outcome"}
Settled == {"succeeded", "failed"}

\* What holds of the worker's job wherever the worker stands: a job not yet sent
\* has no call and no attempt, and its outcome is the one that was settled.
WorkerCall ==
  /\ worker.pc \in ActivePc => worker.job \in Jobs
  /\ worker.pc \in NotSent => calls[worker.job] = 0 /\ acct[worker.job].attempt = "none"
  /\ worker.pc \in {"reread", "send", "answer"} => worker.job \in live
  /\ worker.pc = "answer" => acct[worker.job].attempt = "open"
  /\ worker.pc = "outcome" =>
       /\ worker.got \in Outcomes
       /\ worker.got \in Settled => acct[worker.job].attempt = worker.got
       /\ worker.got \notin Settled => acct[worker.job].attempt \notin Settled

\* A response the worker has is not in the conversation yet, and about to be
\* appended only after a settled success.
WorkerResponse ==
  \A r \in Responses : worker.pc \in ActivePc /\ worker.job = Job(r) =>
    /\ resp[r].state \notin {"none", "queued"} /\ ~Contains(conv, r)
    /\ worker.pc = "complete" => resp[r].attached /\ acct[Job(r)].attempt = "succeeded"

\* Nobody takes an item away from the worker once it is dispatched.
WorkerItem ==
  \A j \in Items : worker.pc \in ActivePc /\ worker.job = j =>
    /\ item[j].state # "none"
    /\ worker.pc \in WithItem => item[j].state = "dispatching"
    /\ worker.pc = "finish" =>
         /\ worker.got \in ResultLines
         /\ worker.got = "succeeded" => acct[j].attempt = "succeeded"
         /\ worker.got = "canceled" => acct[j].attempt \notin Settled /\ batch[j[1]].cancel

\* A response that was not claimed was never sent, and one in the conversation
\* has a settled success behind it.
ResponsesOK ==
  \A r \in Responses :
    /\ resp[r].state \in {"none", "queued"} => calls[Job(r)] = 0 /\ acct[Job(r)].attempt = "none"
    /\ Contains(conv, r) => resp[r].attached /\ acct[Job(r)].attempt = "succeeded"

\* The line of an item belongs to its state, and both to its batch, to the call
\* made for it and to what was settled.
LineFits(it) ==
  /\ it.state \in {"none", "queued", "claimed", "dispatching"} => it.line = "none"
  /\ it.state = "settling" => it.line \in {"succeeded", "errored"}
  /\ it.state \in ResultLines => it.line = it.state
  /\ it.state = "interrupted_unknown" => it.line = "errored"
  /\ it.state = "gone" => it.line # "none"
ItemFits(it, b, j) ==
  /\ LineFits(it)
  /\ it.state \in {"none", "queued", "claimed"} => calls[j] = 0 /\ acct[j].attempt = "none"
  /\ it.line = "succeeded" => acct[j].attempt = "succeeded"
  /\ it.line = "canceled" => acct[j].attempt \notin Settled /\ b.cancel
  /\ it.state = "none" <=> b.status = "none"
  /\ it.state \in OpenItem => b.status \in OpenStatus
  /\ it.state = "gone" => b.status = "deleted" \/ j[1] \notin MessageBatches
ItemsOK == \A j \in Items : ItemFits(item[j], batch[j[1]], j)

\* The counts of an ended OpenAI batch are those of its lines, and it is called
\* completed only if no line says otherwise.
BatchesOK ==
  \A b \in Batches : batch[b].status \in EndedStatus /\ b \notin MessageBatches =>
    /\ batch[b].completed = CountLines(b, item, {"succeeded"})
    /\ batch[b].failed = CountLines(b, item, {"errored"})
    /\ batch[b].status = "completed" => ~batch[b].cancel /\ CountLines(b, item, {"expired"}) = 0

BackgroundInv ==
  /\ BackgroundTypeOK /\ WorkerCall /\ WorkerResponse /\ WorkerItem
  /\ ResponsesOK /\ ItemsOK /\ BatchesOK
  /\ ProviderCalledOnce /\ CancelReachesTheWorker /\ TurnsAreConsistent

-----------------------------------------------------------------------------
(* Jobs, counts and revisions. *)

\* 1..n has n elements.
LEMMA IntervalFacts ==
  ASSUME NEW n \in Nat
  PROVE  IsFiniteSet(1..n) /\ Cardinality(1..n) = n
  BY FS_Interval

\* A job is a response or an item of a batch, and never both.
LEMMA JobFacts ==
  /\ \A r \in Responses : Job(r) \in Jobs /\ Job(r) \notin Items /\ Job(r)[1] = r /\ IsResponse(Job(r))
  /\ \A r, q \in Responses : Job(r) = Job(q) => r = q
  /\ \A j \in Items : j \in Jobs /\ j[1] \in Batches /\ ~IsResponse(j)
  /\ \A j \in Jobs : j \in Items \/ \E r \in Responses : j = Job(r)
  BY TotalAssumption DEF Job, Jobs, Items, IsResponse

\* The items of a batch are items.
LEMMA ItemsOfFacts ==
  ASSUME NEW b \in Batches
  PROVE  /\ \A j \in Items : j \in ItemsOf(b) <=> j[1] = b
         /\ ItemsOf(b) \subseteq Items
         /\ IsFiniteSet(ItemsOf(b)) /\ Cardinality(ItemsOf(b)) = Total
         /\ ItemsOf(b) # {}
<1>1. IsFiniteSet({b}) /\ Cardinality({b}) = 1
  BY FS_Singleton
<1>2. IsFiniteSet(1..Total) /\ Cardinality(1..Total) = Total
  BY TotalAssumption, IntervalFacts
<1>3. IsFiniteSet(ItemsOf(b)) /\ Cardinality(ItemsOf(b)) = 1 * Total
  <2>1. /\ IsFiniteSet({b} \X (1..Total))
        /\ Cardinality({b} \X (1..Total)) = Cardinality({b}) * Cardinality(1..Total)
    BY <1>1, <1>2, FS_Product, Zenon
  <2> QED BY <1>1, <1>2, <2>1 DEF ItemsOf
<1>4. <<b, 1>> \in ItemsOf(b)
  BY TotalAssumption DEF ItemsOf
<1> QED BY <1>3, <1>4, TotalAssumption DEF ItemsOf, Items

\* The lines of a batch are counted by natural numbers.
LEMMA CountFacts ==
  ASSUME NEW b \in Batches, NEW it, NEW lines
  PROVE  /\ CountLines(b, it, lines) \in Nat
         /\ CountLines(b, it, lines) = 0 <=> \A j \in ItemsOf(b) : it[j].line \notin lines
<1> DEFINE S == {j \in ItemsOf(b) : it[j].line \in lines}
<1>1. IsFiniteSet(S)
  BY ItemsOfFacts, FS_Subset
<1>2. CountLines(b, it, lines) = Cardinality(S)
  BY DEF CountLines
<1>3. CountLines(b, it, lines) \in Nat /\ (CountLines(b, it, lines) = 0 <=> S = {})
  BY <1>1, <1>2, FS_CardinalityType, FS_EmptySet
<1> QED BY <1>3

\* Tables with the same lines have the same counts.
LEMMA SameLines ==
  ASSUME NEW b, NEW it, NEW other, \A j \in ItemsOf(b) : it[j].line = other[j].line
  PROVE  \A lines : CountLines(b, it, lines) = CountLines(b, other, lines)
<1> SUFFICES ASSUME NEW lines PROVE CountLines(b, it, lines) = CountLines(b, other, lines)
  OBVIOUS
<1>1. {j \in ItemsOf(b) : it[j].line \in lines} = {j \in ItemsOf(b) : other[j].line \in lines}
  OBVIOUS
<1> QED BY <1>1 DEF CountLines

\* The revision of a conversation that exists is its length.
LEMMA RevisionFacts ==
  ASSUME BackgroundTypeOK
  PROVE  Revision \in Nat /\ (Exists => Revision = Len(conv))
<1> DEFINE S == {n \in DOMAIN conv : conv[n] # "deleted"}
<1>1. DOMAIN conv = 1..Len(conv) /\ Len(conv) \in Nat
  BY DEF BackgroundTypeOK
<1>2. IsFiniteSet(1..Len(conv)) /\ Cardinality(1..Len(conv)) = Len(conv)
  BY <1>1, IntervalFacts
<1>3. IsFiniteSet(S)
  BY <1>1, <1>2, FS_Subset
<1>4. Revision \in Nat
  BY <1>3, FS_CardinalityType DEF Revision
<1>5. Exists => S = 1..Len(conv)
  BY <1>1 DEF Exists, Contains
<1> QED BY <1>2, <1>4, <1>5 DEF Revision

\* Appending to the conversation.
LEMMA AppendFacts ==
  ASSUME BackgroundTypeOK, NEW turn \in Responses \cup {"edit", "deleted"}, conv' = Append(conv, turn)
  PROVE  /\ conv' \in Seq(Responses \cup {"edit", "deleted"})
         /\ DOMAIN conv' = 1..(Len(conv) + 1)
         /\ conv'[Len(conv) + 1] = turn /\ \A n \in 1..Len(conv) : conv'[n] = conv[n]
         /\ \A r : Contains(conv', r) <=> (Contains(conv, r) \/ r = turn)
<1>1. /\ conv' \in Seq(Responses \cup {"edit", "deleted"}) /\ Len(conv) \in Nat /\ Len(conv') = Len(conv) + 1
      /\ DOMAIN conv' = 1..(Len(conv) + 1)
      /\ conv'[Len(conv) + 1] = turn /\ \A n \in 1..Len(conv) : conv'[n] = conv[n]
  BY DEF BackgroundTypeOK
<1>2. ASSUME NEW r PROVE Contains(conv', r) <=> (Contains(conv, r) \/ r = turn)
  BY <1>1 DEF Contains
<1> QED BY <1>1, <1>2

-----------------------------------------------------------------------------
(* What several steps have in common. *)

\* The stored items say the same while they, their batches, their calls and
\* their attempts stay.
LEMMA ItemsKept ==
  ASSUME BackgroundInv, UNCHANGED <<batch, item>>,
         \A j \in Items : calls'[j] = calls[j] /\ acct'[j].attempt = acct[j].attempt
  PROVE  ItemsOK' /\ BatchesOK'
<1>1. ItemsOK'
  BY DEF BackgroundInv, ItemsOK, ItemFits
<1>2. BatchesOK'
  BY DEF BackgroundInv, BatchesOK, CountLines
<1> QED BY <1>1, <1>2

\* Ended OpenAI batches that keep their row and their lines keep their counts.
LEMMA BatchesKept ==
  ASSUME BackgroundInv,
         \A b \in Batches : b \notin MessageBatches /\ batch'[b].status \in EndedStatus =>
           batch'[b] = batch[b] /\ \A j \in ItemsOf(b) : item[j].line = item'[j].line
  PROVE  BatchesOK'
<1> SUFFICES ASSUME NEW b \in Batches, batch'[b].status \in EndedStatus, b \notin MessageBatches
             PROVE  /\ batch'[b].completed = CountLines(b, item', {"succeeded"})
                    /\ batch'[b].failed = CountLines(b, item', {"errored"})
                    /\ batch'[b].status = "completed" => ~batch'[b].cancel /\ CountLines(b, item', {"expired"}) = 0
  BY DEF BatchesOK, CountLines
<1>1. batch'[b] = batch[b] /\ \A j \in ItemsOf(b) : item[j].line = item'[j].line
  OBVIOUS
<1>2. \A lines : CountLines(b, item, lines) = CountLines(b, item', lines)
  BY <1>1, SameLines
<1> QED BY <1>1, <1>2 DEF BackgroundInv, BatchesOK

\* The same for responses and the conversation.
LEMMA ResponsesKept ==
  ASSUME BackgroundInv, UNCHANGED <<resp, conv>>,
         \A r \in Responses : calls'[Job(r)] = calls[Job(r)] /\ acct'[Job(r)] = acct[Job(r)]
  PROVE  ResponsesOK' /\ TurnsAreConsistent'
  BY DEF BackgroundInv, ResponsesOK, TurnsAreConsistent

\* A worker without a job knows nothing.
LEMMA WorkerGone ==
  ASSUME worker'.pc \in {"idle", "recover"}
  PROVE  WorkerCall' /\ WorkerResponse' /\ WorkerItem' /\ CancelReachesTheWorker'
  BY DEF WorkerCall, WorkerResponse, WorkerItem, CancelReachesTheWorker, ActivePc, NotSent, WithItem

\* What the worker knows of its job survives every step that leaves calls,
\* attempts and dispatched items alone and takes no claim or cancel back.
LEMMA WorkerKept ==
  ASSUME BackgroundInv, UNCHANGED <<worker, live, calls>>,
         \A j \in Jobs : acct'[j].attempt = acct[j].attempt,
         \A j \in Items : item[j].state # "none" =>
                            /\ item'[j].state # "none" /\ (batch[j[1]].cancel => batch'[j[1]].cancel)
                            /\ item[j].state = "dispatching" => item'[j].state = "dispatching",
         \A r \in Responses : resp[r].state \notin {"none", "queued"} =>
                                /\ resp'[r].state \notin {"none", "queued"}
                                /\ resp'[r].attached = resp[r].attached
                                /\ Contains(conv', r) => Contains(conv, r)
  PROVE  WorkerCall' /\ WorkerResponse' /\ WorkerItem'
<1>1. WorkerCall'
  BY DEF BackgroundInv, WorkerCall, ActivePc, NotSent
<1>2. WorkerResponse'
  BY JobFacts DEF BackgroundInv, WorkerResponse
<1>3. WorkerItem'
  BY JobFacts DEF BackgroundInv, WorkerItem
<1> QED BY <1>1, <1>2, <1>3

\* A cancel that reaches the worker keeps doing so while a signal leaves only by
\* ending the job's context, or with an answer that does not confirm it.
LEMMA CancelKept ==
  ASSUME BackgroundInv, UNCHANGED worker, cut \subseteq cut', late \subseteq late',
         worker.pc \in {"send", "answer"} =>
           /\ CanceledJob(worker.job)' => CanceledJob(worker.job) \/ worker.job[1] \in signals'
           /\ worker.job[1] \in signals \cup unconfirmed =>
                worker.job[1] \in signals' \cup unconfirmed' \/ worker.job \in cut'
  PROVE  CancelReachesTheWorker'
  BY DEF BackgroundInv, CancelReachesTheWorker, ContextEnded

\* An undispatched item of an open batch may be withdrawn; as canceled only if
\* the batch is.
LEMMA WithdrawnFits ==
  ASSUME BackgroundInv, NEW j \in Items, item[j].state \in Undispatched, NEW end \in {"canceled", "expired"},
         NEW b, b.status = batch[j[1]].status, end = "canceled" => b.cancel
  PROVE  ItemFits([state |-> end, line |-> end], b, j)
  BY DEF BackgroundInv, ItemsOK, ItemFits, LineFits, Undispatched, OpenItem, OpenStatus, ResultLines, Settled

\* What a reconciliation leaves of the items before batches are ended.
LEMMA WithdrawnFacts ==
  ASSUME BackgroundInv, NEW B \in SUBSET Batches, NEW C, NEW it, it = Withdrawn(B, C, item)
  PROVE  /\ it \in [Items -> ItemRow]
         /\ \A j \in Items : it[j] = item[j] \/ (item[j].state \in Undispatched /\ it[j].state \in {"canceled", "expired"})
         /\ \A j \in Items : it[j] # item[j] => batch[j[1]].status \in OpenStatus
         /\ (\A b \in B \cap C : batch[b].cancel) => \A j \in Items : ItemFits(it[j], batch[j[1]], j)
<1> DEFINE end(j) == IF j[1] \in C THEN "canceled" ELSE "expired"
<1>1. \A j \in Items : it[j] = IF j[1] \in B /\ item[j].state \in Undispatched
                               THEN [state |-> end(j), line |-> end(j)] ELSE item[j]
  BY DEF Withdrawn
<1>2. it \in [Items -> ItemRow]
  BY <1>1 DEF Withdrawn, BackgroundInv, BackgroundTypeOK, ItemRow, ResultLines, ClosedItem
<1>3. \A j \in Items : it[j] = item[j] \/ (item[j].state \in Undispatched /\ it[j].state \in {"canceled", "expired"})
  <2> SUFFICES ASSUME NEW j \in Items, it[j] # item[j]
               PROVE  item[j].state \in Undispatched /\ it[j].state \in {"canceled", "expired"}
    OBVIOUS
  <2>1. item[j].state \in Undispatched /\ it[j] = [state |-> end(j), line |-> end(j)]
    BY <1>1
  <2> QED BY <2>1
<1>4. \A j \in Items : it[j] # item[j] => batch[j[1]].status \in OpenStatus
  BY <1>3 DEF BackgroundInv, ItemsOK, ItemFits, Undispatched, OpenItem
<1>5. ASSUME \A b \in B \cap C : batch[b].cancel, NEW j \in Items PROVE ItemFits(it[j], batch[j[1]], j)
  <2>1. CASE j[1] \in B /\ item[j].state \in Undispatched
    <3>1. end(j) \in {"canceled", "expired"} /\ (end(j) = "canceled" => batch[j[1]].cancel)
      BY <1>5, <2>1
    <3>2. ItemFits([state |-> end(j), line |-> end(j)], batch[j[1]], j)
      BY <2>1, <3>1, WithdrawnFits
    <3> QED BY <1>1, <2>1, <3>2
  <2>2. CASE ~(j[1] \in B /\ item[j].state \in Undispatched)
    BY <1>1, <2>2 DEF BackgroundInv, ItemsOK
  <2> QED BY <2>1, <2>2
<1> QED BY <1>2, <1>3, <1>4, <1>5

\* Ending the batches of B that have no open item left, on top of the items it.
LEMMA FinalizedFacts ==
  ASSUME BackgroundInv, NEW B \in SUBSET Batches, NEW it \in [Items -> ItemRow],
         \A j \in Items : ItemFits(it[j], batch[j[1]], j),
         \A j \in Items : it[j] # item[j] => batch[j[1]].status \in OpenStatus,
         batch' = Finalized(B, it), item' = DroppedItems(B, it),
         \A j \in Items : calls'[j] = calls[j] /\ acct'[j].attempt = acct[j].attempt
  PROVE  /\ batch' \in [Batches -> BatchRow] /\ item' \in [Items -> ItemRow]
         /\ ItemsOK' /\ BatchesOK'
         /\ \A b \in Batches : batch'[b].cancel = batch[b].cancel
         /\ \A j \in Items : item[j].state # "none" => item'[j].state # "none"
         /\ \A j \in Items : it[j].state \in OpenItem => item'[j] = it[j] /\ batch'[j[1]] = batch[j[1]]
<1> DEFINE ends(b) == b \in B /\ batch[b].status \in OpenStatus /\ Done(b, it)
<1>1. \A b \in Batches : batch'[b] = IF ends(b) THEN Ended(b, batch[b].cancel, it) ELSE batch[b]
  BY DEF Finalized
<1>2. \A j \in Items : item'[j] = IF ends(j[1]) /\ j[1] \in OpenAIBatches THEN [it[j] EXCEPT !.state = "gone"] ELSE it[j]
  BY JobFacts DEF DroppedItems
<1>3. ASSUME NEW b \in Batches, ends(b)
      PROVE  /\ batch'[b] \in BatchRow /\ batch'[b].status \in EndedStatus /\ batch'[b].cancel = batch[b].cancel
             /\ b \notin MessageBatches => /\ batch'[b].completed = CountLines(b, it, {"succeeded"})
                                           /\ batch'[b].failed = CountLines(b, it, {"errored"})
                                           /\ batch'[b].status = "completed" => ~batch[b].cancel /\ CountLines(b, it, {"expired"}) = 0
  <2>1. batch[b] \in BatchRow
    BY DEF BackgroundInv, BackgroundTypeOK
  <2>2. batch[b].cancel \in BOOLEAN
    BY <2>1 DEF BatchRow
  <2>3. CountLines(b, it, {"succeeded"}) \in Nat /\ CountLines(b, it, {"errored"}) \in Nat /\ CountLines(b, it, {"expired"}) \in Nat
    BY CountFacts
  <2>4. CASE b \in MessageBatches
    BY <1>1, <1>3, <2>1, <2>2, <2>4 DEF Ended, BatchRow, EndedStatus
  <2>5. CASE b \notin MessageBatches
    <3> DEFINE status == IF batch[b].cancel THEN "cancelled"
                         ELSE IF CountLines(b, it, {"expired"}) > 0 THEN "expired" ELSE "completed"
    <3>1. batch'[b] = [status |-> status, cancel |-> batch[b].cancel,
                       completed |-> CountLines(b, it, {"succeeded"}), failed |-> CountLines(b, it, {"errored"})]
      BY <1>1, <1>3, <2>5 DEF Ended
    <3>2. /\ status \in EndedStatus
          /\ status = "completed" => ~batch[b].cancel /\ CountLines(b, it, {"expired"}) = 0
      BY <2>3 DEF EndedStatus
    <3> HIDE DEF status
    <3> QED BY <2>2, <2>3, <2>5, <3>1, <3>2 DEF BatchRow
  <2> QED BY <2>4, <2>5
<1>4. ASSUME NEW j \in Items, ends(j[1]) PROVE it[j].state \in ClosedItem /\ it[j].line # "none"
  <2>1. j \in ItemsOf(j[1]) /\ it[j] \in ItemRow
    BY JobFacts, ItemsOfFacts
  <2>2. it[j].state \notin OpenItem /\ it[j].state # "none"
    BY <1>4, <2>1 DEF Done, ItemFits, OpenStatus
  <2> QED BY <2>1, <2>2 DEF ItemRow, ItemFits, LineFits, ClosedItem, ResultLines
<1>5. \A j \in Items : item'[j] \in ItemRow /\ item'[j].line = it[j].line
  BY <1>2 DEF ItemRow, ClosedItem
<1>6. batch' \in [Batches -> BatchRow] /\ item' \in [Items -> ItemRow]
  BY <1>1, <1>3, <1>5 DEF Finalized, DroppedItems, BackgroundInv, BackgroundTypeOK
<1>7. ASSUME NEW j \in Items PROVE ItemFits(item[j], batch[j[1]], j)'
  <2>1. j[1] \in Batches
    BY JobFacts
  <2>2. CASE ~ends(j[1])
    <3>1. item'[j] = it[j] /\ batch'[j[1]] = batch[j[1]]
      BY <1>1, <1>2, <2>1, <2>2
    <3> QED BY <3>1 DEF ItemFits
  <2>3. CASE ends(j[1])
    <3>1. batch'[j[1]].status \in EndedStatus /\ batch'[j[1]].cancel = batch[j[1]].cancel
      BY <1>3, <2>1, <2>3
    <3>2. it[j].state \in ClosedItem /\ it[j].line # "none" /\ ItemFits(it[j], batch[j[1]], j)
      BY <1>4, <2>3
    <3>3. \/ item'[j] = it[j] /\ j[1] \notin OpenAIBatches
          \/ item'[j] = [it[j] EXCEPT !.state = "gone"] /\ j[1] \notin MessageBatches
      BY <1>2, <2>3, IdsAssumption
    <3>4. CASE item'[j] = it[j] /\ j[1] \notin OpenAIBatches
      <4>1. j[1] \in MessageBatches /\ batch[j[1]].status \in OpenStatus
        BY <2>1, <2>3, <3>4 DEF Batches
      <4>2. it[j].state # "gone"
        BY <3>2, <4>1 DEF ItemFits, OpenStatus
      <4> QED BY <3>1, <3>2, <3>4, <4>2 DEF ItemFits, ClosedItem, ResultLines, OpenItem, EndedStatus
    <3>5. CASE item'[j] = [it[j] EXCEPT !.state = "gone"] /\ j[1] \notin MessageBatches
      <4>1. item'[j].state = "gone" /\ item'[j].line = it[j].line
        BY <1>5, <3>5 DEF ItemRow
      <4> QED BY <3>1, <3>2, <3>5, <4>1 DEF ItemFits, LineFits, ResultLines, OpenItem, EndedStatus
    <3> QED BY <3>3, <3>4, <3>5
  <2> QED BY <2>2, <2>3
<1>8. BatchesOK'
  <2> SUFFICES ASSUME NEW b \in Batches, batch'[b].status \in EndedStatus, b \notin MessageBatches
               PROVE  /\ batch'[b].completed = CountLines(b, item', {"succeeded"})
                      /\ batch'[b].failed = CountLines(b, item', {"errored"})
                      /\ batch'[b].status = "completed" => ~batch'[b].cancel /\ CountLines(b, item', {"expired"}) = 0
    BY DEF BatchesOK, CountLines
  <2>1. \A lines : CountLines(b, it, lines) = CountLines(b, item', lines)
    <3>1. \A j \in ItemsOf(b) : it[j].line = item'[j].line
      BY <1>5, ItemsOfFacts
    <3> QED BY <3>1, SameLines, Zenon
  <2>2. CASE ends(b)
    BY <1>3, <2>1, <2>2
  <2>3. CASE ~ends(b)
    <3>1. batch'[b] = batch[b] /\ batch[b].status \notin OpenStatus
      BY <1>1, <2>3 DEF EndedStatus, OpenStatus
    <3>2. \A j \in ItemsOf(b) : it[j].line = item[j].line
      BY <3>1, ItemsOfFacts
    <3>3. \A lines : CountLines(b, it, lines) = CountLines(b, item, lines)
      BY <3>2, SameLines
    <3> QED BY <2>1, <3>1, <3>3 DEF BackgroundInv, BatchesOK
  <2> QED BY <2>2, <2>3
<1>9. \A j \in Items : it[j].state \in OpenItem => item'[j] = it[j] /\ batch'[j[1]] = batch[j[1]]
  <2>1. \A j \in Items : it[j].state \in OpenItem => ~ends(j[1])
    BY JobFacts, ItemsOfFacts DEF Done
  <2> QED BY <1>1, <1>2, <2>1, JobFacts
<1>10. \A b \in Batches : /\ batch'[b].cancel = batch[b].cancel
                          /\ batch[b].status # "none" => batch'[b].status # "none"
  BY <1>1, <1>3 DEF EndedStatus
<1>11. ItemsOK'
  BY <1>7 DEF ItemsOK
<1>12. \A j \in Items : item[j].state # "none" => item'[j].state # "none"
  <2>1. \A j \in Items : item[j].state = "none" <=> batch[j[1]].status = "none"
    BY DEF BackgroundInv, ItemsOK, ItemFits
  <2>2. \A j \in Items : item'[j].state = "none" <=> batch'[j[1]].status = "none"
    BY <1>11 DEF ItemsOK, ItemFits
  <2> QED BY <1>10, <2>1, <2>2, JobFacts
<1> QED BY <1>6, <1>8, <1>9, <1>10, <1>11, <1>12

-----------------------------------------------------------------------------
(* The handlers. *)

\* An open response changes its state, or a response is deleted: it stays out of
\* the conversation or in it. Only an unattached one completes this way.
LEMMA StateChanged ==
  ASSUME BackgroundInv, NEW r \in Responses, NEW s,
         resp' = [resp EXCEPT ![r].state = s],
         s \in {"running", "completed", "failed", "cancelled", "deleted", "interrupted_unknown"},
         \/ s = resp[r].state
         \/ s = "deleted"
         \/ resp[r].state \in OpenResponse /\ (s = "completed" => ~resp[r].attached),
         UNCHANGED <<conv, acct, calls>>
  PROVE  /\ resp' \in [Responses -> RespRow]
         /\ resp'[r].state = s /\ \A q \in Responses \ {r} : resp'[q] = resp[q]
         /\ \A q \in Responses : resp'[q].attached = resp[q].attached /\ resp'[q].base = resp[q].base
         /\ ResponsesOK' /\ TurnsAreConsistent'
<1>1. resp[r] \in RespRow
  BY DEF BackgroundInv, BackgroundTypeOK
<1>2. resp' \in [Responses -> RespRow]
  BY <1>1 DEF BackgroundInv, BackgroundTypeOK, RespRow
<1>3. /\ resp'[r].state = s /\ \A q \in Responses \ {r} : resp'[q] = resp[q]
      /\ \A q \in Responses : resp'[q].attached = resp[q].attached /\ resp'[q].base = resp[q].base
  BY <1>1 DEF BackgroundInv, BackgroundTypeOK, RespRow
<1>4. ResponsesOK'
  BY <1>3 DEF BackgroundInv, ResponsesOK
<1>5. \A n \in DOMAIN conv : conv[n] \in Responses =>
        resp'[conv[n]].base = n - 1 /\ \A m \in 1..n : conv[m] # "deleted"
  BY <1>3 DEF BackgroundInv, TurnsAreConsistent
<1>6. ASSUME NEW q \in Responses, resp'[q].attached
      PROVE  /\ resp'[q].state = "completed" => Contains(conv, q)
             /\ Contains(conv, q) => resp'[q].state \in {"completed", "deleted"}
  <2>1. /\ resp[q].state = "completed" => Contains(conv, q)
        /\ Contains(conv, q) => resp[q].state \in {"completed", "deleted"}
    BY <1>3, <1>6 DEF BackgroundInv, TurnsAreConsistent
  <2> QED BY <1>3, <1>6, <2>1 DEF OpenResponse
<1>7. TurnsAreConsistent'
  BY <1>3, <1>5, <1>6 DEF BackgroundInv, TurnsAreConsistent
<1> QED BY <1>2, <1>3, <1>4, <1>7

\* A new response: nothing was called for its id and it is in no conversation.
LEMMA EnqueueResponseInv ==
  ASSUME BackgroundInv, NEW r \in Responses, NEW turn \in BOOLEAN, EnqueueResponse(r, turn)
  PROVE  BackgroundInv'
<1> DEFINE row == [state |-> "queued", attached |-> turn, base |-> Revision]
<1>1. resp[r].state = "none" /\ calls[Job(r)] = 0 /\ acct[Job(r)].attempt = "none" /\ ~Contains(conv, r)
  BY DEF EnqueueResponse, BackgroundInv, ResponsesOK, TurnsAreConsistent
<1>2. /\ resp' = [resp EXCEPT ![r] = row] /\ calls' = [calls EXCEPT ![Job(r)] = 0]
      /\ acct' = [acct EXCEPT ![Job(r)] = NoAccount]
      /\ UNCHANGED <<batch, item, late, conv, worker, live, cut, signals, unconfirmed>>
  BY DEF EnqueueResponse
<1>3. calls' = calls
  BY <1>1, <1>2, JobFacts DEF BackgroundInv, BackgroundTypeOK
<1>4. /\ \A j \in Jobs \ {Job(r)} : acct'[j] = acct[j]
      /\ acct'[Job(r)] = NoAccount /\ \A j \in Jobs : acct'[j].attempt = acct[j].attempt
  BY <1>1, <1>2, JobFacts DEF BackgroundInv, BackgroundTypeOK, NoAccount
<1>5. row \in RespRow
  BY RevisionFacts DEF BackgroundInv, RespRow
<1>6. BackgroundTypeOK'
  <2>1. resp' \in [Responses -> RespRow]
    BY <1>2, <1>5 DEF BackgroundInv, BackgroundTypeOK
  <2>2. NoAccount \in AcctRow
    BY DEF NoAccount, AcctRow, AttemptState
  <2>3. acct' \in [Jobs -> AcctRow]
    BY <1>2, <2>2 DEF BackgroundInv, BackgroundTypeOK
  <2> QED BY <1>2, <1>3, <2>1, <2>3 DEF BackgroundInv, BackgroundTypeOK
<1>7. resp'[r] = row /\ \A q \in Responses \ {r} : resp'[q] = resp[q]
  BY <1>2 DEF BackgroundInv, BackgroundTypeOK
<1>8. WorkerCall' /\ WorkerResponse' /\ WorkerItem'
  BY <1>1, <1>2, <1>3, <1>4, <1>7, WorkerKept
<1>9. ItemsOK' /\ BatchesOK'
  BY <1>2, <1>3, <1>4, ItemsKept, JobFacts
<1>10. ResponsesOK'
  BY <1>1, <1>2, <1>3, <1>4, <1>7, JobFacts DEF BackgroundInv, ResponsesOK
<1>11. TurnsAreConsistent'
  <2>1. \A n \in DOMAIN conv : conv[n] # r
    BY <1>1 DEF Contains, BackgroundInv, BackgroundTypeOK
  <2>2. \A n \in DOMAIN conv' : conv'[n] \in Responses =>
          resp'[conv'[n]].base = n - 1 /\ \A m \in 1..n : conv'[m] # "deleted"
    BY <1>2, <1>7, <2>1 DEF BackgroundInv, TurnsAreConsistent
  <2>3. \A q \in Responses : q # r => acct'[Job(q)] = acct[Job(q)]
    BY <1>4, JobFacts
  <2>4. acct'[Job(r)].request = "none"
    BY <1>4 DEF NoAccount
  <2> QED BY <1>1, <1>2, <1>7, <2>2, <2>3, <2>4 DEF BackgroundInv, TurnsAreConsistent
<1>12. ProviderCalledOnce'
  BY <1>3 DEF BackgroundInv, ProviderCalledOnce
<1>13. CancelReachesTheWorker'
  <2>1. worker.pc \in {"send", "answer"} => worker.job # Job(r)
    BY <1>1 DEF BackgroundInv, WorkerResponse, ActivePc
  <2>2. worker.pc \in {"send", "answer"} => worker.job \in Jobs
    BY DEF BackgroundInv, WorkerCall, ActivePc
  <2>3. worker.pc \in {"send", "answer"} => (CanceledJob(worker.job)' => CanceledJob(worker.job))
    BY <1>2, <1>7, <2>1, <2>2, JobFacts DEF CanceledJob
  <2> QED BY <1>2, <2>3, CancelKept
<1> QED BY <1>6, <1>8, <1>9, <1>10, <1>11, <1>12, <1>13 DEF BackgroundInv

\* cancelResponse and deleteResponse write the row before they look for the
\* worker; recoverBackground closes a running row while there is no worker.
LEMMA RowClosedInv ==
  ASSUME BackgroundInv, NEW r \in Responses, CancelResponse(r) \/ DeleteResponse(r) \/ RecoverResponse(r)
  PROVE  BackgroundInv'
<1>1. PICK s \in {"cancelled", "deleted", "interrupted_unknown"} :
        /\ resp' = [resp EXCEPT ![r].state = s]
        /\ s = "deleted" \/ resp[r].state \in OpenResponse
        /\ signals' = signals \cup {r} \/ (worker.pc = "recover" /\ signals' = signals)
  BY DEF CancelResponse, DeleteResponse, RecoverResponse, OpenResponse, procVars
<1>2. UNCHANGED <<batch, item, late, conv, worker, live, cut, unconfirmed, calls, acct>>
  BY DEF CancelResponse, DeleteResponse, RecoverResponse, procVars
<1>3. /\ resp' \in [Responses -> RespRow]
      /\ resp'[r].state = s /\ \A q \in Responses \ {r} : resp'[q] = resp[q]
      /\ \A q \in Responses : resp'[q].attached = resp[q].attached /\ resp'[q].base = resp[q].base
      /\ ResponsesOK' /\ TurnsAreConsistent'
  BY <1>1, <1>2, StateChanged
<1>4. BackgroundTypeOK'
  BY <1>2, <1>3 DEF BackgroundInv, BackgroundTypeOK
<1>5. WorkerCall' /\ WorkerResponse' /\ WorkerItem'
  BY <1>1, <1>2, <1>3, WorkerKept
<1>6. ItemsOK' /\ BatchesOK'
  BY <1>2, ItemsKept
<1>7. CancelReachesTheWorker'
  <2>1. ASSUME worker.pc \in {"send", "answer"}
        PROVE  CanceledJob(worker.job)' => CanceledJob(worker.job) \/ worker.job[1] \in signals'
    <3>1. worker.job \in Jobs /\ signals' = signals \cup {r}
      BY <1>1, <2>1 DEF BackgroundInv, WorkerCall, ActivePc
    <3>2. CASE worker.job \in Items
      BY <1>2, <3>2, JobFacts DEF CanceledJob
    <3>3. ASSUME NEW q \in Responses, worker.job = Job(q) PROVE CanceledJob(worker.job)' => CanceledJob(worker.job) \/ q = r
      BY <1>2, <1>3, <3>3, JobFacts DEF CanceledJob
    <3> QED BY <3>1, <3>2, <3>3, JobFacts
  <2> QED BY <1>1, <1>2, <2>1, CancelKept
<1> QED BY <1>2, <1>3, <1>4, <1>5, <1>6, <1>7 DEF BackgroundInv, ProviderCalledOnce

\* A new batch starts with items nothing was called for.
LEMMA CreateBatchInv ==
  ASSUME BackgroundInv, NEW b \in Batches, CreateBatch(b)
  PROVE  BackgroundInv'
<1> DEFINE row == [NoBatch EXCEPT !.status = "in_progress"]
<1>1. /\ batch[b].status = "none"
      /\ batch' = [batch EXCEPT ![b] = row]
      /\ item' = [j \in Items |-> IF j \in ItemsOf(b) THEN NewItem ELSE item[j]]
      /\ UNCHANGED <<resp, late, conv, worker, live, cut, signals, unconfirmed, calls, acct>>
  BY DEF CreateBatch
<1>2. row \in BatchRow /\ row.status = "in_progress"
  <2>1. NoBatch \in BatchRow
    BY DEF NoBatch, BatchRow
  <2> QED BY <2>1 DEF BatchRow, OpenStatus
<1>3. /\ batch'[b] = row /\ \A c \in Batches \ {b} : batch'[c] = batch[c]
      /\ \A j \in Items : item'[j] = IF j[1] = b THEN NewItem ELSE item[j]
  BY <1>1, ItemsOfFacts DEF BackgroundInv, BackgroundTypeOK
<1>4. \A j \in Items : j[1] = b => item[j].state = "none" /\ calls[j] = 0 /\ acct[j].attempt = "none"
  BY <1>1 DEF BackgroundInv, ItemsOK, ItemFits
<1>5. BackgroundTypeOK'
  <2>1. row \in BatchRow
    BY <1>2
  <2>2. NewItem \in ItemRow
    BY DEF NewItem, ItemRow, OpenItem
  <2>3. batch' \in [Batches -> BatchRow] /\ item' \in [Items -> ItemRow]
    BY <1>1, <2>1, <2>2 DEF BackgroundInv, BackgroundTypeOK
  <2> QED BY <1>1, <2>3 DEF BackgroundInv, BackgroundTypeOK
<1>6. ItemsOK'
  <2> SUFFICES ASSUME NEW j \in Items PROVE ItemFits(item[j], batch[j[1]], j)'
    BY DEF ItemsOK
  <2>1. j[1] \in Batches
    BY JobFacts
  <2>2. CASE j[1] = b
    <3>1. item'[j] = NewItem /\ batch'[j[1]] = row
      BY <1>3, <2>2
    <3>2. calls'[j] = 0 /\ acct'[j].attempt = "none"
      BY <1>1, <1>4, <2>2
    <3> QED BY <1>2, <3>1, <3>2 DEF ItemFits, LineFits, NewItem, OpenItem, OpenStatus, ResultLines
  <2>3. CASE j[1] # b
    <3>1. item'[j] = item[j] /\ batch'[j[1]] = batch[j[1]]
      BY <1>3, <2>1, <2>3
    <3> QED BY <1>1, <3>1 DEF BackgroundInv, ItemsOK, ItemFits
  <2> QED BY <2>2, <2>3
<1>7. BatchesOK'
  <2>1. \A c \in Batches : batch'[c].status \in EndedStatus => c # b
    BY <1>2, <1>3 DEF EndedStatus
  <2>2. \A c \in Batches : c # b => batch'[c] = batch[c] /\ \A j \in ItemsOf(c) : item[j].line = item'[j].line
    BY <1>3, ItemsOfFacts
  <2> QED BY <2>1, <2>2, BatchesKept
<1>8. WorkerCall' /\ WorkerResponse' /\ WorkerItem'
  <2>1. \A j \in Items : item[j].state # "none" => item'[j] = item[j] /\ batch'[j[1]] = batch[j[1]]
    BY <1>3, <1>4, JobFacts
  <2> QED BY <1>1, <2>1, WorkerKept
<1>9. ResponsesOK' /\ TurnsAreConsistent'
  BY <1>1, ResponsesKept
<1>10. CancelReachesTheWorker'
  <2>1. ASSUME worker.pc \in {"send", "answer"} PROVE CanceledJob(worker.job)' => CanceledJob(worker.job)
    <3>1. worker.job \in Jobs
      BY <2>1 DEF BackgroundInv, WorkerCall, ActivePc
    <3>2. CASE worker.job \in Items
      <4>1. item[worker.job].state # "none"
        BY <2>1, <3>2 DEF BackgroundInv, WorkerItem, ActivePc
      <4> QED BY <1>1, <1>3, <1>4, <3>2, <4>1, JobFacts DEF CanceledJob
    <3>3. CASE worker.job \notin Items
      BY <1>1, <3>1, <3>3, JobFacts DEF CanceledJob
    <3> QED BY <3>2, <3>3
  <2> QED BY <1>1, <2>1, CancelKept
<1> QED BY <1>1, <1>5, <1>6, <1>7, <1>8, <1>9, <1>10 DEF BackgroundInv, ProviderCalledOnce

\* A cancel of a batch: the undispatched items are withdrawn and the batch is
\* marked; it ends at once only if it is a Message Batch with no item left open.
LEMMA CancelBatchInv ==
  ASSUME BackgroundInv, NEW b \in Batches, NEW ended \in BOOLEAN,
         ended => b \in MessageBatches /\ Done(b, Withdrawn({b}, {b}, item)), CancelBatch(b, ended)
  PROVE  BackgroundInv'
<1> DEFINE it == Withdrawn({b}, {b}, item)
           marked == [status |-> batch[b].status, cancel |-> TRUE]
<1>1. /\ batch[b].status \in OpenStatus /\ item' = it /\ signals' = signals \cup {b}
      /\ UNCHANGED <<resp, late, conv, worker, live, cut, unconfirmed, calls, acct>>
  BY DEF CancelBatch
<1>2. /\ it \in [Items -> ItemRow]
      /\ \A j \in Items : it[j] = item[j] \/ (item[j].state \in Undispatched /\ it[j].state \in {"canceled", "expired"})
  BY WithdrawnFacts
<1>3. \A j \in Items : j[1] # b => it[j] = item[j]
  BY DEF Withdrawn
<1>4. /\ \A c \in Batches \ {b} : batch'[c] = batch[c]
      /\ batch' \in [Batches -> BatchRow] /\ batch'[b].cancel
      /\ batch'[b].status = "cancelling" \/ (batch'[b].status = "ended" /\ ended)
  <2>1. batch[b] \in BatchRow
    BY DEF BackgroundInv, BackgroundTypeOK
  <2> DEFINE row == [batch[b] EXCEPT !.status = IF ended THEN "ended" ELSE "cancelling", !.cancel = TRUE]
  <2>2. batch' = [batch EXCEPT ![b] = row]
    BY <1>1 DEF CancelBatch, Ended
  <2>3. row \in BatchRow
    BY <2>1 DEF BatchRow, OpenStatus, EndedStatus
  <2>4. row.cancel /\ (row.status = "cancelling" \/ (row.status = "ended" /\ ended))
    BY <2>1 DEF BatchRow
  <2> HIDE DEF row
  <2> QED BY <2>2, <2>3, <2>4 DEF BackgroundInv, BackgroundTypeOK
<1>5. BackgroundTypeOK'
  BY <1>1, <1>2, <1>4 DEF BackgroundInv, BackgroundTypeOK
<1>6. ItemsOK'
  <2> SUFFICES ASSUME NEW j \in Items PROVE ItemFits(item[j], batch[j[1]], j)'
    BY DEF ItemsOK
  <2>1. CASE j[1] # b
    <3>1. item'[j] = item[j] /\ batch'[j[1]] = batch[j[1]]
      BY <1>1, <1>3, <1>4, <2>1, JobFacts
    <3> QED BY <1>1, <3>1 DEF BackgroundInv, ItemsOK, ItemFits
  <2>2. CASE j[1] = b
    <3>1. ItemFits(it[j], marked, j)
      <4>1. CASE item[j].state \in Undispatched
        <5>1. it[j] = [state |-> "canceled", line |-> "canceled"]
          BY <2>2, <4>1 DEF Withdrawn
        <5> QED BY <2>2, <4>1, <5>1, WithdrawnFits
      <4>2. CASE item[j].state \notin Undispatched
        <5>1. it[j] = item[j] /\ ItemFits(item[j], batch[b], j)
          BY <1>2, <2>2, <4>2 DEF BackgroundInv, ItemsOK
        <5> QED BY <5>1 DEF ItemFits
      <4> QED BY <4>1, <4>2
    <3>2. ended => it[j].state \notin OpenItem
      BY <2>2, ItemsOfFacts DEF Done
    <3>3. it[j].state # "none" /\ (it[j].state = "gone" => j[1] \notin MessageBatches)
      BY <1>1, <3>1 DEF ItemFits, OpenStatus
    <3> QED BY <1>1, <1>4, <2>2, <3>1, <3>2, <3>3 DEF ItemFits, OpenStatus
  <2> QED BY <2>1, <2>2
<1>7. BatchesOK'
  <2>1. \A c \in Batches : batch'[c].status \in EndedStatus /\ c \notin MessageBatches => c # b
    BY <1>4 DEF EndedStatus
  <2>2. \A j \in Items : j[1] # b => item'[j] = item[j]
    BY <1>1, <1>3
  <2>3. \A c \in Batches : c # b => batch'[c] = batch[c] /\ \A j \in ItemsOf(c) : item[j].line = item'[j].line
    BY <1>4, <2>2, ItemsOfFacts
  <2> QED BY <2>1, <2>3, BatchesKept
<1>8. WorkerCall' /\ WorkerResponse' /\ WorkerItem'
  <2>1. \A j \in Items : item[j].state # "none" =>
          /\ item'[j].state # "none" /\ (batch[j[1]].cancel => batch'[j[1]].cancel)
          /\ item[j].state = "dispatching" => item'[j].state = "dispatching"
    BY <1>1, <1>2, <1>4, JobFacts DEF Undispatched
  <2> QED BY <1>1, <2>1, WorkerKept
<1>9. ResponsesOK' /\ TurnsAreConsistent'
  BY <1>1, ResponsesKept
<1>10. CancelReachesTheWorker'
  <2>1. ASSUME worker.pc \in {"send", "answer"}
        PROVE  CanceledJob(worker.job)' => CanceledJob(worker.job) \/ worker.job[1] \in signals'
    <3>1. worker.job \in Jobs
      BY <2>1 DEF BackgroundInv, WorkerCall, ActivePc
    <3> QED BY <1>1, <1>4, <3>1, JobFacts DEF CanceledJob
  <2> QED BY <1>1, <2>1, CancelKept
<1> QED BY <1>1, <1>5, <1>6, <1>7, <1>8, <1>9, <1>10 DEF BackgroundInv, ProviderCalledOnce

\* deleteMessageBatch takes only an ended batch: none of its items is open.
LEMMA DeleteBatchInv ==
  ASSUME BackgroundInv, NEW b \in Batches, DeleteBatch(b)
  PROVE  BackgroundInv'
<1>1. /\ b \in MessageBatches /\ batch[b].status = "ended"
      /\ UNCHANGED <<resp, late, conv, worker, live, cut, signals, unconfirmed, calls, acct>>
  BY DEF DeleteBatch, procVars
<1>2. /\ batch' \in [Batches -> BatchRow] /\ batch'[b].status = "deleted" /\ batch'[b].cancel = batch[b].cancel
      /\ \A c \in Batches \ {b} : batch'[c] = batch[c]
  BY DEF DeleteBatch, BackgroundInv, BackgroundTypeOK, BatchRow
<1>3. /\ item' \in [Items -> ItemRow] /\ \A j \in Items : item'[j].line = item[j].line
      /\ \A j \in Items : IF j[1] = b THEN item'[j].state = "gone" ELSE item'[j] = item[j]
  BY DEF DeleteBatch, BackgroundInv, BackgroundTypeOK, ItemRow, ClosedItem
<1>4. \A j \in Items : j[1] = b => item[j].state \notin OpenItem /\ item[j].line # "none"
  <2> SUFFICES ASSUME NEW j \in Items, j[1] = b PROVE item[j].state \notin OpenItem /\ item[j].line # "none"
    OBVIOUS
  <2>1. item[j] \in ItemRow /\ ItemFits(item[j], batch[b], j)
    BY DEF BackgroundInv, BackgroundTypeOK, ItemsOK
  <2>2. item[j].state \notin OpenItem /\ item[j].state # "none"
    BY <1>1, <2>1 DEF ItemFits, OpenStatus
  <2> QED BY <2>1, <2>2 DEF ItemFits, LineFits, ItemRow, ClosedItem, ResultLines
<1>5. BackgroundTypeOK'
  BY <1>1, <1>2, <1>3 DEF BackgroundInv, BackgroundTypeOK
<1>6. ItemsOK'
  <2> SUFFICES ASSUME NEW j \in Items PROVE ItemFits(item[j], batch[j[1]], j)'
    BY DEF ItemsOK
  <2>1. CASE j[1] # b
    <3>1. item'[j] = item[j] /\ batch'[j[1]] = batch[j[1]]
      BY <1>2, <1>3, <2>1, JobFacts
    <3> QED BY <1>1, <3>1 DEF BackgroundInv, ItemsOK, ItemFits
  <2>2. CASE j[1] = b
    BY <1>1, <1>2, <1>3, <1>4, <2>2 DEF BackgroundInv, ItemsOK, ItemFits, LineFits, OpenItem, ResultLines
  <2> QED BY <2>1, <2>2
<1>7. BatchesOK'
  BY <1>1, <1>2, <1>3, ItemsOfFacts, BatchesKept
<1>8. WorkerCall' /\ WorkerResponse' /\ WorkerItem'
  <2>1. \A j \in Items : item[j].state # "none" =>
          /\ item'[j].state # "none" /\ (batch[j[1]].cancel => batch'[j[1]].cancel)
          /\ item[j].state = "dispatching" => item'[j].state = "dispatching"
    BY <1>2, <1>3, <1>4, JobFacts DEF OpenItem
  <2> QED BY <1>1, <2>1, WorkerKept
<1>9. ResponsesOK' /\ TurnsAreConsistent'
  BY <1>1, ResponsesKept
<1>10. CancelReachesTheWorker'
  <2>1. ASSUME worker.pc \in {"send", "answer"} PROVE CanceledJob(worker.job)' => CanceledJob(worker.job)
    <3>1. worker.job \in Jobs
      BY <2>1 DEF BackgroundInv, WorkerCall, ActivePc
    <3> QED BY <1>1, <1>2, <3>1, JobFacts DEF CanceledJob
  <2> QED BY <1>1, <2>1, CancelKept
<1> QED BY <1>1, <1>5, <1>6, <1>7, <1>8, <1>9, <1>10 DEF BackgroundInv, ProviderCalledOnce

\* The second half of a cancel ends the context of the job the worker has
\* registered, before the signal is gone.
LEMMA CancelActiveInv ==
  ASSUME BackgroundInv, NEW id \in signals, CancelActive(id)
  PROVE  BackgroundInv'
<1> DEFINE B == {id} \cap OpenAIBatches
<1>1. /\ signals' = signals \ {id} /\ unconfirmed' = unconfirmed \ {id}
      /\ cut' = cut \cup {j \in live : j[1] = id}
      /\ batch' = Finalized(B, item) /\ item' = DroppedItems(B, item)
      /\ UNCHANGED <<resp, conv, acct, late, worker, live, calls>>
  BY DEF CancelActive
<1>2. /\ batch' \in [Batches -> BatchRow] /\ item' \in [Items -> ItemRow]
      /\ ItemsOK' /\ BatchesOK'
      /\ \A b \in Batches : batch'[b].cancel = batch[b].cancel
      /\ \A j \in Items : item[j].state # "none" => item'[j].state # "none"
      /\ \A j \in Items : item[j].state \in OpenItem => item'[j] = item[j]
  <2>1. B \in SUBSET Batches
    BY DEF Batches
  <2>2. item \in [Items -> ItemRow] /\ \A j \in Items : ItemFits(item[j], batch[j[1]], j)
    BY DEF BackgroundInv, BackgroundTypeOK, ItemsOK
  <2> QED BY <1>1, <2>1, <2>2, FinalizedFacts
<1>3. BackgroundTypeOK'
  BY <1>1, <1>2 DEF BackgroundInv, BackgroundTypeOK
<1>4. WorkerCall' /\ WorkerResponse' /\ WorkerItem'
  BY <1>1, <1>2, WorkerKept, JobFacts DEF OpenItem
<1>5. ResponsesOK' /\ TurnsAreConsistent'
  BY <1>1, ResponsesKept
<1>6. CancelReachesTheWorker'
  <2>1. ASSUME worker.pc \in {"send", "answer"}
        PROVE  /\ CanceledJob(worker.job)' => CanceledJob(worker.job)
               /\ worker.job[1] \in signals \cup unconfirmed =>
                    worker.job[1] \in signals' \cup unconfirmed' \/ worker.job \in cut'
    <3>1. worker.job \in Jobs /\ worker.job \in live
      BY <2>1 DEF BackgroundInv, WorkerCall, ActivePc
    <3>2. CanceledJob(worker.job)' => CanceledJob(worker.job)
      <4>1. CASE worker.job \in Items
        <5>1. worker.job[1] \in Batches /\ ~IsResponse(worker.job)
          BY <4>1, JobFacts
        <5> QED BY <1>1, <1>2, <5>1 DEF CanceledJob
      <4>2. CASE worker.job \notin Items
        <5>1. IsResponse(worker.job)
          BY <3>1, <4>2, JobFacts
        <5> QED BY <1>1, <5>1 DEF CanceledJob
      <4> QED BY <4>1, <4>2
    <3>3. worker.job[1] = id => worker.job \in cut'
      BY <1>1, <3>1
    <3> QED BY <1>1, <3>2, <3>3
  <2> QED BY <1>1, <2>1, CancelKept
<1> QED BY <1>1, <1>2, <1>3, <1>4, <1>5, <1>6 DEF BackgroundInv, ProviderCalledOnce

\* A handler that answers with an error leaves the rows and the worker as they
\* are, and its id among the unconfirmed.
LEMMA AnswerErrorInv ==
  ASSUME BackgroundInv, NEW id \in signals, AnswerError(id)
  PROVE  BackgroundInv'
<1>1. /\ UNCHANGED <<resp, batch, item, conv, acct, worker, live, cut, late, calls>>
      /\ signals' = signals \ {id} /\ unconfirmed' = unconfirmed \cup {id}
  BY DEF AnswerError, dbVars
<1>2. BackgroundTypeOK'
  BY <1>1 DEF BackgroundInv, BackgroundTypeOK
<1>3. WorkerCall' /\ WorkerResponse' /\ WorkerItem'
  BY <1>1, WorkerKept
<1>4. ItemsOK' /\ BatchesOK' /\ ResponsesOK' /\ TurnsAreConsistent'
  BY <1>1, ItemsKept, ResponsesKept
<1>5. CancelReachesTheWorker'
  BY <1>1, CancelKept DEF CanceledJob
<1> QED BY <1>1, <1>2, <1>3, <1>4, <1>5 DEF BackgroundInv, ProviderCalledOnce

\* A request that is closed as failed was open.
LEMMA RequestClosed ==
  ASSUME BackgroundInv, NEW r \in Responses, CloseRequest(r, "failed")
  PROVE  /\ acct' \in [Jobs -> AcctRow]
         /\ \A j \in Jobs : /\ acct'[j].attempt = acct[j].attempt
                            /\ acct'[j].request = "succeeded" <=> acct[j].request = "succeeded"
<1> DEFINE k == Job(r)
           request == IF acct[k].request = "open" /\ acct[k].attempt # "open" THEN "failed" ELSE acct[k].request
<1>1. k \in Jobs /\ acct \in [Jobs -> AcctRow] /\ acct[k] \in AcctRow
  BY JobFacts DEF BackgroundInv, BackgroundTypeOK
<1>2. acct' = [acct EXCEPT ![k].request = request]
  BY DEF CloseRequest
<1>3. request \in AttemptState /\ (request = "succeeded" <=> acct[k].request = "succeeded")
  BY <1>1 DEF AcctRow, AttemptState
<1> HIDE DEF request, k
<1> QED BY <1>1, <1>2, <1>3 DEF AcctRow

\* A deadline passes, or a request nobody works on is closed as failed.
LEMMA AsideInv ==
  ASSUME BackgroundInv,
         (\E b \in Batches : PassDeadline(b)) \/ (\E r \in Responses : RepairRequest(r))
  PROVE  BackgroundInv'
<1>1. UNCHANGED <<resp, batch, item, conv, worker, live, cut, signals, unconfirmed, calls>> /\ late \subseteq late'
  BY DEF PassDeadline, RepairRequest, dbVars, procVars
<1>2. /\ acct' \in [Jobs -> AcctRow]
      /\ \A j \in Jobs : /\ acct'[j].attempt = acct[j].attempt
                         /\ acct'[j].request = "succeeded" <=> acct[j].request = "succeeded"
  <2>1. CASE \E b \in Batches : PassDeadline(b)
    BY <2>1 DEF PassDeadline, dbVars, BackgroundInv, BackgroundTypeOK
  <2>2. CASE \E r \in Responses : RepairRequest(r)
    <3>1. PICK r \in Responses : CloseRequest(r, "failed")
      BY <2>2 DEF RepairRequest
    <3> QED BY <3>1, RequestClosed
  <2> QED BY <2>1, <2>2
<1>3. BackgroundTypeOK'
  BY <1>1, <1>2 DEF BackgroundInv, BackgroundTypeOK
<1>4. WorkerCall' /\ WorkerResponse' /\ WorkerItem'
  BY <1>1, <1>2, WorkerKept
<1>5. ItemsOK' /\ BatchesOK'
  BY <1>1, <1>2, ItemsKept, JobFacts
<1>6. ResponsesOK' /\ TurnsAreConsistent'
  BY <1>1, <1>2, JobFacts DEF BackgroundInv, ResponsesOK, TurnsAreConsistent
<1>7. CancelReachesTheWorker'
  BY <1>1, CancelKept DEF CanceledJob
<1> QED BY <1>1, <1>3, <1>4, <1>5, <1>6, <1>7 DEF BackgroundInv, ProviderCalledOnce

\* The client edits or deletes the conversation: no turn is added.
LEMMA EditsInv ==
  ASSUME BackgroundInv, NEW change \in {"edit", "deleted"}, Edits(change)
  PROVE  BackgroundInv'
<1>1. conv' = Append(conv, change) /\ UNCHANGED <<resp, batch, item, acct, worker, live, cut, signals, unconfirmed, late, calls>>
  BY DEF Edits, procVars
<1>2. /\ conv' \in Seq(Responses \cup {"edit", "deleted"})
      /\ DOMAIN conv' = 1..(Len(conv) + 1)
      /\ conv'[Len(conv) + 1] = change /\ \A n \in 1..Len(conv) : conv'[n] = conv[n]
      /\ \A r \in Responses : Contains(conv', r) <=> Contains(conv, r)
  BY <1>1, AppendFacts, IdsAssumption DEF BackgroundInv
<1>3. BackgroundTypeOK'
  BY <1>1, <1>2 DEF BackgroundInv, BackgroundTypeOK
<1>4. WorkerCall' /\ WorkerResponse' /\ WorkerItem'
  BY <1>1, <1>2, WorkerKept
<1>5. ItemsOK' /\ BatchesOK'
  BY <1>1, ItemsKept
<1>6. ResponsesOK'
  BY <1>1, <1>2 DEF BackgroundInv, ResponsesOK
<1>7. TurnsAreConsistent'
  <2>1. ASSUME NEW n \in DOMAIN conv', conv'[n] \in Responses
        PROVE  resp'[conv'[n]].base = n - 1 /\ \A m \in 1..n : conv'[m] # "deleted"
    <3>1. DOMAIN conv = 1..Len(conv) /\ Len(conv) \in Nat
      BY DEF BackgroundInv, BackgroundTypeOK
    <3>2. n \in 1..Len(conv)
      BY <1>2, <2>1, <3>1, IdsAssumption
    <3>3. resp[conv[n]].base = n - 1 /\ \A m \in 1..n : conv[m] # "deleted"
      BY <1>2, <2>1, <3>1, <3>2 DEF BackgroundInv, TurnsAreConsistent
    <3> QED BY <1>1, <1>2, <3>1, <3>2, <3>3
  <2> QED BY <1>1, <1>2, <2>1 DEF BackgroundInv, TurnsAreConsistent
<1>8. CancelReachesTheWorker'
  BY <1>1, CancelKept DEF CanceledJob
<1> QED BY <1>1, <1>3, <1>4, <1>5, <1>6, <1>7, <1>8 DEF BackgroundInv, ProviderCalledOnce

-----------------------------------------------------------------------------
(* The worker between two jobs. *)

\* Where the worker goes.
LEMMA WorkerMoves ==
  ASSUME worker \in WorkerRow, NEW pc \in ActivePc, worker' = [worker EXCEPT !.pc = pc]
  PROVE  worker' \in WorkerRow /\ worker'.pc = pc /\ worker'.job = worker.job /\ worker'.got = worker.got
  BY DEF WorkerRow

\* With what it got on the way.
LEMMA WorkerTakes ==
  ASSUME worker \in WorkerRow, NEW pc \in ActivePc, NEW got \in Outcomes \cup ResultLines,
         worker' = [worker EXCEPT !.pc = pc, !.got = got]
  PROVE  worker' \in WorkerRow /\ worker'.pc = pc /\ worker'.job = worker.job /\ worker'.got = got
<1>1. [worker EXCEPT !.pc = pc] \in WorkerRow
  BY DEF WorkerRow
<1> QED BY <1>1 DEF WorkerRow

\* Where it starts from.
LEMMA WorkerStarts ==
  /\ Idle \in WorkerRow /\ Idle.pc = "idle"
  /\ [Idle EXCEPT !.pc = "recover"] \in WorkerRow /\ [Idle EXCEPT !.pc = "recover"].pc = "recover"
  /\ \A j \in Jobs, kind \in 0..2 : /\ Claimed(j, kind) \in WorkerRow
                                    /\ Claimed(j, kind).pc = "claimed" /\ Claimed(j, kind).job = j
<1>1. /\ Idle \in WorkerRow /\ Idle.pc = "idle"
      /\ [Idle EXCEPT !.pc = "recover"] \in WorkerRow /\ [Idle EXCEPT !.pc = "recover"].pc = "recover"
  BY DEF Idle, WorkerRow
<1>2. ASSUME NEW j \in Jobs, NEW kind \in 0..2
      PROVE  /\ Claimed(j, kind) \in WorkerRow
             /\ Claimed(j, kind).pc = "claimed" /\ Claimed(j, kind).job = j
  <2> DEFINE w == [[Idle EXCEPT !.pc = "claimed"] EXCEPT !.kind = kind]
  <2>1. [Idle EXCEPT !.pc = "claimed"] \in WorkerRow
    BY <1>1 DEF WorkerRow, ActivePc
  <2>2. w \in WorkerRow /\ w.pc = "claimed"
    BY <2>1 DEF WorkerRow
  <2>3. Claimed(j, kind) = [w EXCEPT !.job = j]
    BY DEF Claimed
  <2> HIDE DEF w
  <2> QED BY <2>2, <2>3 DEF WorkerRow
<1> QED BY <1>1, <1>2

\* One open item changes and its batch stays: an open batch counts nothing yet.
LEMMA ItemChanged ==
  ASSUME BackgroundInv, NEW k \in Items, NEW row \in ItemRow, item[k].state \in OpenItem,
         item' = [item EXCEPT ![k] = row], UNCHANGED <<batch, calls, acct>>,
         ItemFits(row, batch[k[1]], k)
  PROVE  /\ item' \in [Items -> ItemRow] /\ item'[k] = row /\ \A j \in Items \ {k} : item'[j] = item[j]
         /\ ItemsOK' /\ BatchesOK'
<1>1. item' \in [Items -> ItemRow] /\ item'[k] = row /\ \A j \in Items \ {k} : item'[j] = item[j]
  BY DEF BackgroundInv, BackgroundTypeOK
<1>2. ItemsOK'
  <2> SUFFICES ASSUME NEW j \in Items PROVE ItemFits(item[j], batch[j[1]], j)'
    BY DEF ItemsOK
  <2>1. CASE j = k
    BY <1>1, <2>1 DEF ItemFits
  <2>2. CASE j # k
    <3>1. item'[j] = item[j] /\ ItemFits(item[j], batch[j[1]], j)
      BY <1>1, <2>2 DEF BackgroundInv, ItemsOK
    <3> QED BY <3>1 DEF ItemFits
  <2> QED BY <2>1, <2>2
<1>3. BatchesOK'
  <2>1. batch[k[1]].status \in OpenStatus
    BY DEF BackgroundInv, ItemsOK, ItemFits
  <2>2. \A b \in Batches : batch'[b].status \in EndedStatus => b # k[1]
    BY <2>1 DEF OpenStatus, EndedStatus
  <2>3. \A b \in Batches : b # k[1] => \A j \in ItemsOf(b) : item[j].line = item'[j].line
    BY <1>1, ItemsOfFacts
  <2> QED BY <2>2, <2>3, BatchesKept
<1> QED BY <1>1, <1>2, <1>3

\* recoverMessageBatches, recoverOpenAIBatches: only what was never dispatched
\* goes back to the queue.
LEMMA RecoverItemInv ==
  ASSUME BackgroundInv, NEW j \in Items, RecoverItem(j)
  PROVE  BackgroundInv'
<1>1. /\ worker.pc = "recover" /\ item[j].state \in Recoverable /\ item' = [item EXCEPT ![j] = RecoveredItem(j)]
      /\ UNCHANGED <<resp, batch, conv, acct, worker, live, calls>>
  BY DEF RecoverItem, procVars
<1>2. item[j] \in ItemRow /\ ItemFits(item[j], batch[j[1]], j)
  BY DEF BackgroundInv, BackgroundTypeOK, ItemsOK
<1>3. RecoveredItem(j) \in ItemRow /\ ItemFits(RecoveredItem(j), batch[j[1]], j)
  <2>1. CASE item[j].state = "claimed"
    <3>1. RecoveredItem(j) = NewItem
      BY <2>1 DEF RecoveredItem
    <3> QED BY <1>2, <2>1, <3>1 DEF NewItem, ItemRow, ItemFits, LineFits, OpenItem, ResultLines, OpenStatus
  <2>2. CASE item[j].state = "settling"
    <3>1. RecoveredItem(j) = [state |-> item[j].line, line |-> item[j].line]
      BY <1>2, <2>2 DEF RecoveredItem, ItemRow
    <3> QED BY <1>2, <2>2, <3>1 DEF ItemRow, ItemFits, LineFits, OpenItem, ResultLines, ClosedItem, OpenStatus
  <2>3. CASE item[j].state = "dispatching"
    <3>1. \/ RecoveredItem(j) = [state |-> "expired", line |-> "expired"]
          \/ RecoveredItem(j) = [state |-> "interrupted_unknown", line |-> "errored"]
      BY <2>3 DEF RecoveredItem
    <3> QED BY <1>2, <2>3, <3>1 DEF ItemRow, ItemFits, LineFits, OpenItem, ResultLines, ClosedItem, OpenStatus
  <2> QED BY <1>1, <2>1, <2>2, <2>3 DEF Recoverable
<1>4. item' \in [Items -> ItemRow] /\ ItemsOK' /\ BatchesOK'
  BY <1>1, <1>3, ItemChanged DEF Recoverable, OpenItem
<1>5. BackgroundTypeOK'
  BY <1>1, <1>4 DEF BackgroundInv, BackgroundTypeOK
<1>6. WorkerCall' /\ WorkerResponse' /\ WorkerItem' /\ CancelReachesTheWorker'
  BY <1>1, WorkerGone
<1>7. ResponsesOK' /\ TurnsAreConsistent'
  BY <1>1, ResponsesKept
<1> QED BY <1>1, <1>4, <1>5, <1>6, <1>7 DEF BackgroundInv, ProviderCalledOnce

\* reconcileMessageBatches and reconcileOpenAIBatches on the batches of B, with
\* the claim of item j on top of it.
LEMMA ReconciledFacts ==
  ASSUME BackgroundInv, NEW B \in SUBSET Batches
  PROVE  /\ Reconciled(B) \in [Items -> ItemRow]
         /\ \A j \in Items : ItemFits(Reconciled(B)[j], batch[j[1]], j)
         /\ \A j \in Items : Reconciled(B)[j] # item[j] => batch[j[1]].status \in OpenStatus
         /\ \A j \in Items : j[1] \notin Overdue(B) => Reconciled(B)[j] = item[j]
<1> DEFINE C == {b \in B : batch[b].cancel}
<1>1. Overdue(B) \in SUBSET Batches /\ \A b \in Overdue(B) \cap C : batch[b].cancel
  BY DEF Overdue
<1>2. Reconciled(B) = Withdrawn(Overdue(B), C, item)
  BY DEF Reconciled
<1>3. \A j \in Items : j[1] \notin Overdue(B) => Reconciled(B)[j] = item[j]
  BY <1>2 DEF Withdrawn
<1> HIDE DEF C
<1> QED BY <1>1, <1>2, <1>3, WithdrawnFacts

\* The passes of the idle worker that claim nothing or a response.
LEMMA SweepInv ==
  ASSUME BackgroundInv, FinishRecovery \/ Tick \/ \E r \in Responses : ClaimResponse(r)
  PROVE  BackgroundInv'
<1>1. PICK B \in SUBSET Batches : batch' = Finalized(B, Reconciled(B)) /\ item' = DroppedItems(B, Reconciled(B))
  <2>1. Tried(0) \in SUBSET Batches
    BY DEF Tried, KindBatches
  <2> QED BY <2>1 DEF FinishRecovery, Tick, ClaimResponse, ItemsAfter
<1>2. UNCHANGED <<conv, acct, calls>>
  BY DEF FinishRecovery, Tick, ClaimResponse
<1>3. batch' \in [Batches -> BatchRow] /\ item' \in [Items -> ItemRow] /\ ItemsOK' /\ BatchesOK'
  BY <1>1, <1>2, ReconciledFacts, FinalizedFacts
<1>4. CASE FinishRecovery \/ Tick
  <2>1. UNCHANGED resp /\ worker' \in WorkerRow /\ worker'.pc = "idle"
    BY <1>4, WorkerStarts DEF FinishRecovery, Tick, BackgroundInv, BackgroundTypeOK
  <2>2. WorkerCall' /\ WorkerResponse' /\ WorkerItem' /\ CancelReachesTheWorker'
    BY <2>1, WorkerGone
  <2>3. ResponsesOK' /\ TurnsAreConsistent'
    BY <1>2, <2>1, ResponsesKept
  <2>4. BackgroundTypeOK'
    BY <1>2, <1>3, <2>1 DEF BackgroundInv, BackgroundTypeOK
  <2> QED BY <1>2, <1>3, <2>2, <2>3, <2>4 DEF BackgroundInv, ProviderCalledOnce
<1>5. ASSUME NEW r \in Responses, ClaimResponse(r) PROVE BackgroundInv'
  <2>1. /\ resp' = [resp EXCEPT ![r].state = "running"] /\ worker' = Claimed(Job(r), 0)
        /\ resp[r].state = "queued"
    BY <1>5 DEF ClaimResponse, ClaimsResponse, QueuedResponses
  <2>2. worker' \in WorkerRow /\ worker'.pc = "claimed" /\ worker'.job = Job(r)
    BY <2>1, WorkerStarts, JobFacts
  <2>3. /\ resp' \in [Responses -> RespRow] /\ resp'[r].state = "running"
        /\ ResponsesOK' /\ TurnsAreConsistent'
    BY <1>2, <2>1, StateChanged DEF OpenResponse
  <2>4. BackgroundTypeOK'
    BY <1>2, <1>3, <2>2, <2>3 DEF BackgroundInv, BackgroundTypeOK
  <2>5. calls[Job(r)] = 0 /\ acct[Job(r)].attempt = "none" /\ ~Contains(conv, r)
    BY <2>1 DEF BackgroundInv, ResponsesOK, TurnsAreConsistent
  <2>6. WorkerCall'
    BY <1>2, <2>2, <2>5, JobFacts DEF WorkerCall, ActivePc, NotSent
  <2>7. WorkerResponse'
    BY <1>2, <2>2, <2>3, <2>5, JobFacts DEF WorkerResponse
  <2>8. WorkerItem'
    BY <2>2, JobFacts DEF WorkerItem
  <2>9. CancelReachesTheWorker'
    BY <2>2 DEF CancelReachesTheWorker
  <2> QED BY <1>2, <1>3, <2>3, <2>4, <2>6, <2>7, <2>8, <2>9 DEF BackgroundInv, ProviderCalledOnce
<1> QED BY <1>4, <1>5

\* The pass that claims an item: the item is in no batch the pass ends.
LEMMA ClaimItemInv ==
  ASSUME BackgroundInv, NEW k \in Items, NEW kind \in 1..2, ClaimItem(k, kind)
  PROVE  BackgroundInv'
<1> DEFINE B == Tried(kind)
           R == Reconciled(B)
           it == [R EXCEPT ![k].state = "claimed"]
<1>1. /\ item[k].state = "queued" /\ batch[k[1]].status = "in_progress" /\ ~batch[k[1]].cancel /\ k[1] \notin late
      /\ batch' = Finalized(B, R) /\ item' = [DroppedItems(B, R) EXCEPT ![k].state = "claimed"]
      /\ worker' = Claimed(k, kind) /\ UNCHANGED <<resp, conv, acct, calls>>
  BY DEF ClaimItem, QueuedItems, ItemsAfter
<1>2. B \in SUBSET Batches
  BY DEF Tried, KindBatches
<1>3. /\ R \in [Items -> ItemRow]
      /\ \A j \in Items : ItemFits(R[j], batch[j[1]], j)
      /\ \A j \in Items : R[j] # item[j] => batch[j[1]].status \in OpenStatus
  BY <1>2, ReconciledFacts
<1>4. R[k] = item[k] /\ R[k] \in ItemRow
  <2>1. k[1] \notin Overdue(B)
    BY <1>1 DEF Overdue
  <2> QED BY <1>2, <1>3, <2>1, ReconciledFacts
<1> HIDE DEF R, B
<1>5. /\ it \in [Items -> ItemRow] /\ it[k].state = "claimed" /\ it[k].line = R[k].line
      /\ \A j \in Items \ {k} : it[j] = R[j]
  BY <1>3, <1>4 DEF ItemRow, OpenItem
<1>6. \A b \in Batches : Done(b, it) <=> Done(b, R)
  <2> SUFFICES ASSUME NEW b \in Batches PROVE Done(b, it) <=> Done(b, R)
    OBVIOUS
  <2>1. \A j \in ItemsOf(b) : it[j].state \in OpenItem <=> R[j].state \in OpenItem
    BY <1>1, <1>4, <1>5, ItemsOfFacts DEF OpenItem
  <2> QED BY <2>1 DEF Done
<1>7. \A b \in Batches : \A lines : CountLines(b, it, lines) = CountLines(b, R, lines)
  <2>1. \A b \in Batches : \A j \in ItemsOf(b) : it[j].line = R[j].line
    BY <1>5, ItemsOfFacts
  <2> HIDE DEF it
  <2> QED BY <2>1, SameLines
<1>8. batch' = Finalized(B, it)
  <2>1. \A b \in Batches : Ended(b, batch[b].cancel, it) = Ended(b, batch[b].cancel, R)
    BY <1>7 DEF Ended
  <2> QED BY <1>1, <1>6, <2>1 DEF Finalized
<1>9. item' = DroppedItems(B, it)
  <2>1. ~Done(k[1], R)
    BY <1>1, <1>4, JobFacts, ItemsOfFacts DEF Done, OpenItem
  <2>2. DroppedItems(B, R)[k] = R[k] /\ DroppedItems(B, it)[k] = it[k]
    BY <1>6, <2>1, JobFacts DEF DroppedItems
  <2>3. \A j \in Items : item'[j] = IF j = k THEN it[k] ELSE DroppedItems(B, R)[j]
    BY <1>1, <1>3, <2>2 DEF DroppedItems
  <2>4. \A j \in Items : DroppedItems(B, it)[j] = IF j = k THEN it[k] ELSE DroppedItems(B, R)[j]
    BY <1>5, <1>6, <2>2, JobFacts DEF DroppedItems
  <2>5. \A j \in Items : item'[j] = DroppedItems(B, it)[j]
    BY <2>3, <2>4
  <2> QED BY <1>1, <2>5 DEF DroppedItems
<1>10. \A j \in Items : ItemFits(it[j], batch[j[1]], j)
  <2> SUFFICES ASSUME NEW j \in Items PROVE ItemFits(it[j], batch[j[1]], j)
    OBVIOUS
  <2>1. CASE j = k
    BY <1>1, <1>3, <1>4, <1>5, <2>1 DEF ItemFits, LineFits, OpenItem, OpenStatus, ResultLines
  <2>2. CASE j # k
    BY <1>3, <1>5, <2>2
  <2> QED BY <2>1, <2>2
<1>11. \A j \in Items : it[j] # item[j] => batch[j[1]].status \in OpenStatus
  BY <1>1, <1>3, <1>5 DEF OpenStatus
<1> HIDE DEF it
<1>12. /\ batch' \in [Batches -> BatchRow] /\ item' \in [Items -> ItemRow] /\ ItemsOK' /\ BatchesOK'
       /\ item'[k].state = "claimed"
  BY <1>1, <1>2, <1>5, <1>8, <1>9, <1>10, <1>11, FinalizedFacts DEF OpenItem
<1>13. worker' \in WorkerRow /\ worker'.pc = "claimed" /\ worker'.job = k
  BY <1>1, WorkerStarts, JobFacts
<1>14. WorkerCall' /\ WorkerItem' /\ CancelReachesTheWorker'
  <2>1. calls'[k] = 0 /\ acct'[k].attempt = "none"
    BY <1>12 DEF ItemsOK, ItemFits
  <2> QED BY <1>12, <1>13, <2>1, JobFacts DEF WorkerCall, WorkerItem, CancelReachesTheWorker, ActivePc, NotSent, WithItem
<1>15. WorkerResponse'
  BY <1>13, JobFacts DEF WorkerResponse
<1>16. ResponsesOK' /\ TurnsAreConsistent'
  BY <1>1, ResponsesKept
<1>17. BackgroundTypeOK'
  BY <1>1, <1>12, <1>13 DEF BackgroundInv, BackgroundTypeOK
<1> QED BY <1>1, <1>12, <1>14, <1>15, <1>16, <1>17 DEF BackgroundInv, ProviderCalledOnce

-----------------------------------------------------------------------------
(* The worker on a job. *)

\* A step that moves only the worker, or closes a request as failed beside it.
LEMMA WorkerStepInv ==
  ASSUME BackgroundInv, UNCHANGED <<resp, batch, item, conv, calls>>, acct' \in [Jobs -> AcctRow],
         \A j \in Jobs : /\ acct'[j].attempt = acct[j].attempt
                         /\ acct'[j].request = "succeeded" <=> acct[j].request = "succeeded",
         worker' \in WorkerRow, WorkerCall', WorkerResponse', WorkerItem', CancelReachesTheWorker'
  PROVE  BackgroundInv'
<1>1. BackgroundTypeOK'
  BY DEF BackgroundInv, BackgroundTypeOK
<1>2. ItemsOK' /\ BatchesOK'
  BY ItemsKept, JobFacts
<1>3. ResponsesOK' /\ TurnsAreConsistent'
  BY JobFacts DEF BackgroundInv, ResponsesOK, TurnsAreConsistent
<1> QED BY <1>1, <1>2, <1>3 DEF BackgroundInv, ProviderCalledOnce

\* The job of a response ends and its row takes a last state.
LEMMA ResponseEnds ==
  ASSUME BackgroundInv, NEW r \in Responses, NEW s, EndJob,
         worker.pc \in ActivePc, worker.job = Job(r),
         resp' = [resp EXCEPT ![r].state = s],
         s = resp[r].state \/ (resp[r].state \in OpenResponse /\ (s = "failed" \/ (s = "completed" /\ ~resp[r].attached))),
         UNCHANGED <<batch, item, conv, acct, calls>>
  PROVE  BackgroundInv'
<1>1. s \in {"running", "completed", "failed", "cancelled", "deleted", "interrupted_unknown"}
  BY DEF BackgroundInv, BackgroundTypeOK, RespRow, WorkerResponse
<1>2. resp' \in [Responses -> RespRow] /\ ResponsesOK' /\ TurnsAreConsistent'
  BY <1>1, StateChanged
<1>3. worker' \in WorkerRow /\ worker'.pc = "idle"
  BY WorkerStarts DEF EndJob
<1>4. WorkerCall' /\ WorkerResponse' /\ WorkerItem' /\ CancelReachesTheWorker'
  BY <1>3, WorkerGone
<1>5. ItemsOK' /\ BatchesOK'
  BY ItemsKept
<1>6. BackgroundTypeOK'
  BY <1>2, <1>3 DEF BackgroundInv, BackgroundTypeOK
<1> QED BY <1>2, <1>4, <1>5, <1>6 DEF BackgroundInv, ProviderCalledOnce

\* failBackground leaves a row that is no longer open.
LEMMA ResponseFails ==
  ASSUME BackgroundInv, NEW r \in Responses, FailResponse(r), EndJob, worker.pc \in ActivePc, worker.job = Job(r),
         UNCHANGED <<batch, item, conv, acct, calls>>
  PROVE  BackgroundInv'
<1> DEFINE s == IF resp[r].state \in OpenResponse THEN "failed" ELSE resp[r].state
<1>1. resp' = [resp EXCEPT ![r].state = s]
  BY DEF FailResponse
<1>2. s = resp[r].state \/ (resp[r].state \in OpenResponse /\ s = "failed")
  OBVIOUS
<1> HIDE DEF s
<1> QED BY <1>1, <1>2, ResponseEnds

\* The worker ends a job of which it changes nothing more.
LEMMA JobEnds ==
  ASSUME BackgroundInv, EndJob, UNCHANGED <<resp, batch, item, conv, acct, calls>>
  PROVE  BackgroundInv'
<1>1. worker' \in WorkerRow /\ worker'.pc = "idle"
  BY WorkerStarts DEF EndJob
<1>2. WorkerCall' /\ WorkerResponse' /\ WorkerItem' /\ CancelReachesTheWorker'
  BY <1>1, WorkerGone
<1>3. acct' \in [Jobs -> AcctRow]
  BY DEF BackgroundInv, BackgroundTypeOK
<1> QED BY <1>1, <1>2, <1>3, WorkerStepInv

\* runBackground up to the registration of its cancel function.
LEMMA CheckResponseInv ==
  ASSUME BackgroundInv, NEW r \in Responses, CheckResponse(r)
  PROVE  BackgroundInv'
<1>1. /\ worker.pc = "claimed" /\ worker.job = Job(r) /\ worker \in WorkerRow /\ acct \in [Jobs -> AcctRow]
      /\ UNCHANGED <<batch, item, conv, acct, calls>>
  BY DEF CheckResponse, At, BackgroundInv, BackgroundTypeOK
<1>2. CASE FailResponse(r) /\ EndJob
  BY <1>1, <1>2, ResponseFails DEF ActivePc
<1>3. CASE UNCHANGED resp /\ StayOn("register")
  <2>1. worker' \in WorkerRow /\ worker'.pc = "register" /\ worker'.job = Job(r)
    BY <1>1, <1>3, WorkerMoves DEF StayOn, Step, ActivePc
  <2>2. WorkerCall'
    BY <1>1, <2>1, JobFacts DEF BackgroundInv, WorkerCall, ActivePc, NotSent
  <2>3. WorkerResponse'
    BY <1>1, <1>3, <2>1, JobFacts DEF BackgroundInv, WorkerResponse, ActivePc
  <2>4. WorkerItem' /\ CancelReachesTheWorker'
    BY <2>1, JobFacts DEF WorkerItem, CancelReachesTheWorker
  <2> QED BY <1>1, <1>3, <2>1, <2>2, <2>3, <2>4, WorkerStepInv
<1> QED BY <1>2, <1>3 DEF CheckResponse

\* runMessageBatch and runOpenAIBatch up to the registration.
LEMMA DispatchItemInv ==
  ASSUME BackgroundInv, NEW j \in Items, DispatchItem(j)
  PROVE  BackgroundInv'
<1>1. /\ worker.pc = "claimed" /\ worker.job = j /\ worker \in WorkerRow /\ acct \in [Jobs -> AcctRow]
      /\ UNCHANGED <<resp, batch, conv, acct, calls>>
  BY DEF DispatchItem, At, BackgroundInv, BackgroundTypeOK
<1>2. item[j].state # "none" /\ j \in Jobs /\ j \notin {Job(r) : r \in Responses} /\ ~IsResponse(j)
  BY <1>1, JobFacts DEF BackgroundInv, WorkerItem, ActivePc
<1>3. CASE worker' = [worker EXCEPT !.pc = "finish", !.got = "errored"] /\ UNCHANGED item
  <2>1. worker' \in WorkerRow /\ worker'.pc = "finish" /\ worker'.job = j /\ worker'.got = "errored"
    BY <1>1, <1>3, WorkerTakes DEF ActivePc, ResultLines
  <2>2. WorkerCall' /\ WorkerResponse' /\ CancelReachesTheWorker'
    BY <1>2, <2>1 DEF WorkerCall, WorkerResponse, CancelReachesTheWorker, NotSent
  <2>3. WorkerItem'
    BY <1>2, <1>3, <2>1 DEF WorkerItem, ResultLines, WithItem
  <2> QED BY <1>1, <1>3, <2>1, <2>2, <2>3, WorkerStepInv
<1>4. CASE item[j].state = "claimed" /\ item' = [item EXCEPT ![j].state = "dispatching"] /\ StayOn("register")
  <2> DEFINE row == [item[j] EXCEPT !.state = "dispatching"]
  <2>1. item[j] \in ItemRow /\ ItemFits(item[j], batch[j[1]], j)
    BY DEF BackgroundInv, BackgroundTypeOK, ItemsOK
  <2>2. row \in ItemRow /\ row.state = "dispatching" /\ row.line = item[j].line
    BY <2>1 DEF ItemRow, OpenItem
  <2>3. item' = [item EXCEPT ![j] = row]
    BY <1>4 DEF BackgroundInv, BackgroundTypeOK
  <2>4. ItemFits(row, batch[j[1]], j)
    BY <1>4, <2>1, <2>2 DEF ItemFits, LineFits, OpenItem, OpenStatus, ResultLines
  <2> HIDE DEF row
  <2>5. item' \in [Items -> ItemRow] /\ item'[j] = row /\ ItemsOK' /\ BatchesOK'
    BY <1>1, <1>4, <2>2, <2>3, <2>4, ItemChanged DEF OpenItem
  <2>6. worker' \in WorkerRow /\ worker'.pc = "register" /\ worker'.job = j
    BY <1>1, <1>4, WorkerMoves DEF StayOn, Step, ActivePc
  <2>7. WorkerCall'
    BY <1>1, <2>6 DEF BackgroundInv, WorkerCall, ActivePc, NotSent
  <2>8. WorkerResponse' /\ CancelReachesTheWorker'
    BY <1>2, <2>6 DEF WorkerResponse, CancelReachesTheWorker
  <2>9. WorkerItem'
    BY <2>2, <2>5, <2>6 DEF WorkerItem
  <2>10. ResponsesOK' /\ TurnsAreConsistent'
    BY <1>1, ResponsesKept
  <2>11. BackgroundTypeOK'
    BY <1>1, <2>5, <2>6 DEF BackgroundInv, BackgroundTypeOK
  <2> QED BY <1>1, <2>5, <2>7, <2>8, <2>9, <2>10, <2>11 DEF BackgroundInv, ProviderCalledOnce
<1>5. CASE UNCHANGED item /\ EndJob
  BY <1>1, <1>5, JobEnds
<1> QED BY <1>3, <1>4, <1>5 DEF DispatchItem

\* The registration, after which a cancel finds the job.
LEMMA RegisterInv ==
  ASSUME BackgroundInv, NEW j \in Jobs, Register(j)
  PROVE  BackgroundInv'
<1>1. /\ worker.pc = "register" /\ worker.job = j /\ worker \in WorkerRow /\ acct \in [Jobs -> AcctRow]
      /\ live' = live \cup {j} /\ worker' = [worker EXCEPT !.pc = "reread"]
      /\ UNCHANGED <<resp, batch, item, conv, acct, calls>>
  BY DEF Register, Registered, Step, At, dbVars, BackgroundInv, BackgroundTypeOK
<1>2. worker' \in WorkerRow /\ worker'.pc = "reread" /\ worker'.job = j
  BY <1>1, WorkerMoves DEF ActivePc
<1>3. WorkerCall'
  BY <1>1, <1>2 DEF BackgroundInv, WorkerCall, ActivePc, NotSent
<1>4. WorkerResponse' /\ WorkerItem' /\ CancelReachesTheWorker'
  BY <1>1, <1>2 DEF BackgroundInv, WorkerResponse, WorkerItem, CancelReachesTheWorker, ActivePc, WithItem
<1> QED BY <1>1, <1>2, <1>3, <1>4, WorkerStepInv

\* The row is read again after the registration: what goes on to the provider
\* was not canceled.
LEMMA RereadInv ==
  ASSUME BackgroundInv, NEW j \in Jobs, Reread(j)
  PROVE  BackgroundInv'
<1>1. /\ worker.pc = "reread" /\ worker.job = j /\ worker \in WorkerRow /\ acct \in [Jobs -> AcctRow]
      /\ UNCHANGED <<resp, batch, item, conv, acct, calls>>
  BY DEF Reread, At, dbVars, BackgroundInv, BackgroundTypeOK
<1>2. CASE EndJob
  BY <1>1, <1>2, JobEnds
<1>3. CASE worker' = [worker EXCEPT !.pc = "send"] /\ UNCHANGED live /\ ~CanceledJob(j)
  <2>1. worker' \in WorkerRow /\ worker'.pc = "send" /\ worker'.job = j
    BY <1>1, <1>3, WorkerMoves DEF ActivePc
  <2>2. WorkerCall'
    BY <1>1, <1>3, <2>1 DEF BackgroundInv, WorkerCall, ActivePc, NotSent
  <2>3. WorkerResponse' /\ WorkerItem'
    BY <1>1, <2>1 DEF BackgroundInv, WorkerResponse, WorkerItem, ActivePc, WithItem
  <2>4. CancelReachesTheWorker'
    BY <1>1, <1>3, <2>1 DEF CancelReachesTheWorker, CanceledJob
  <2> QED BY <1>1, <2>1, <2>2, <2>3, <2>4, WorkerStepInv
<1>4. ASSUME NEW got \in {"canceled", "expired"}, worker' = [worker EXCEPT !.pc = "finish", !.got = got],
             j \in Items, got = "canceled" => batch[j[1]].cancel
      PROVE  BackgroundInv'
  <2>1. worker' \in WorkerRow /\ worker'.pc = "finish" /\ worker'.job = j /\ worker'.got = got
    BY <1>1, <1>4, WorkerTakes DEF ActivePc, ResultLines
  <2>2. acct[j].attempt = "none" /\ item[j].state # "none"
    BY <1>1, <1>4 DEF BackgroundInv, WorkerCall, WorkerItem, NotSent, ActivePc
  <2>3. WorkerCall' /\ WorkerResponse' /\ CancelReachesTheWorker'
    BY <1>4, <2>1, JobFacts DEF WorkerCall, WorkerResponse, CancelReachesTheWorker, NotSent
  <2>4. WorkerItem'
    BY <1>1, <1>4, <2>1, <2>2 DEF WorkerItem, ResultLines, WithItem, Settled
  <2> QED BY <1>1, <2>1, <2>3, <2>4, WorkerStepInv
<1>5. CASE IsResponse(j)
  BY <1>2, <1>3, <1>5 DEF Reread, StayOn, Step, CanceledJob
<1>6. CASE ~IsResponse(j)
  <2>1. j \in Items
    BY <1>6, JobFacts
  <2>2. CASE batch[j[1]].cancel
    BY <1>4, <1>6, <2>1, <2>2 DEF Reread
  <2>3. CASE ~batch[j[1]].cancel /\ j[1] \in late
    BY <1>4, <1>6, <2>1, <2>3 DEF Reread
  <2>4. CASE ~batch[j[1]].cancel /\ j[1] \notin late
    BY <1>3, <1>6, <2>1, <2>4 DEF Reread, CanceledJob
  <2> QED BY <2>2, <2>3, <2>4
<1> QED BY <1>5, <1>6

\* The call of a job and what accounting records of it change: the job's item is
\* dispatched and has no line yet, its response is in no conversation.
LEMMA CallChanged ==
  ASSUME BackgroundInv, NEW j \in Jobs, NEW row \in AcctRow, worker.pc \in {"send", "answer"}, worker.job = j,
         acct' = [acct EXCEPT ![j] = row],
         calls' \in [Jobs -> Nat], calls'[j] <= 1, \A k \in Jobs \ {j} : calls'[k] = calls[k],
         \A r \in Responses : j = Job(r) /\ resp[r].attached => row.request # "succeeded",
         UNCHANGED <<resp, batch, item, conv>>
  PROVE  /\ acct' \in [Jobs -> AcctRow] /\ acct'[j] = row
         /\ ItemsOK' /\ BatchesOK' /\ ResponsesOK' /\ TurnsAreConsistent' /\ ProviderCalledOnce'
<1>1. acct' \in [Jobs -> AcctRow] /\ acct'[j] = row /\ \A k \in Jobs \ {j} : acct'[k] = acct[k]
  BY DEF BackgroundInv, BackgroundTypeOK
<1>2. ItemsOK'
  <2> SUFFICES ASSUME NEW k \in Items PROVE ItemFits(item[k], batch[k[1]], k)'
    BY DEF ItemsOK
  <2>1. k \in Jobs /\ ItemFits(item[k], batch[k[1]], k)
    BY JobFacts DEF BackgroundInv, ItemsOK
  <2>2. CASE k = j
    <3>1. item[k].state = "dispatching"
      BY <2>2 DEF BackgroundInv, WorkerItem, ActivePc, WithItem
    <3> QED BY <2>1, <3>1 DEF ItemFits, LineFits
  <2>3. CASE k # j
    BY <1>1, <2>1, <2>3 DEF ItemFits
  <2> QED BY <2>2, <2>3
<1>3. BatchesOK'
  BY DEF BackgroundInv, BatchesOK, CountLines
<1>4. ASSUME NEW r \in Responses, j = Job(r)
      PROVE  resp[r].state \notin {"none", "queued"} /\ ~Contains(conv, r)
  BY <1>4 DEF BackgroundInv, WorkerResponse, ActivePc
<1>5. \A r \in Responses : j # Job(r) => calls'[Job(r)] = calls[Job(r)] /\ acct'[Job(r)] = acct[Job(r)]
  BY <1>1, JobFacts
<1>6. ResponsesOK'
  BY <1>4, <1>5 DEF BackgroundInv, ResponsesOK
<1>7. TurnsAreConsistent'
  <2>1. ASSUME NEW r \in Responses, resp[r].attached
        PROVE  Contains(conv, r) <=> acct'[Job(r)].request = "succeeded"
    <3>1. CASE j = Job(r)
      BY <1>1, <1>4, <2>1, <3>1
    <3>2. CASE j # Job(r)
      BY <1>5, <2>1, <3>2 DEF BackgroundInv, TurnsAreConsistent
    <3> QED BY <3>1, <3>2
  <2> QED BY <2>1 DEF BackgroundInv, TurnsAreConsistent
<1>8. ProviderCalledOnce'
  BY DEF BackgroundInv, ProviderCalledOnce
<1> QED BY <1>1, <1>2, <1>3, <1>6, <1>7, <1>8

\* The one call of a job, or a refusal before it.
LEMMA SendInv ==
  ASSUME BackgroundInv, NEW j \in Jobs, Send(j)
  PROVE  BackgroundInv'
<1>1. /\ worker.pc = "send" /\ worker.job = j /\ worker \in WorkerRow
      /\ UNCHANGED <<resp, batch, item, conv, live, cut, signals, unconfirmed, late>>
  BY DEF Send, At, BackgroundInv, BackgroundTypeOK
<1>2. j \in live /\ calls[j] = 0 /\ acct[j].attempt = "none"
  BY <1>1 DEF BackgroundInv, WorkerCall, NotSent
<1>3. CASE calls' = [calls EXCEPT ![j] = @ + 1] /\ acct' = [acct EXCEPT ![j] = [attempt |-> "open", request |-> "open"]] /\ Step("answer")
  <2> DEFINE row == [attempt |-> "open", request |-> "open"]
  <2>1. row \in AcctRow /\ row.attempt = "open" /\ row.request = "open"
    BY DEF AcctRow, AttemptState
  <2>2. acct' = [acct EXCEPT ![j] = row]
    BY <1>3
  <2> HIDE DEF row
  <2>3. calls' \in [Jobs -> Nat] /\ calls'[j] <= 1 /\ \A k \in Jobs \ {j} : calls'[k] = calls[k]
    BY <1>2, <1>3 DEF BackgroundInv, BackgroundTypeOK
  <2>4. /\ acct' \in [Jobs -> AcctRow] /\ acct'[j] = row
        /\ ItemsOK' /\ BatchesOK' /\ ResponsesOK' /\ TurnsAreConsistent' /\ ProviderCalledOnce'
    BY <1>1, <2>1, <2>2, <2>3, CallChanged
  <2>5. worker' \in WorkerRow /\ worker'.pc = "answer" /\ worker'.job = j
    BY <1>1, <1>3, WorkerMoves DEF Step, ActivePc
  <2>6. WorkerCall'
    BY <1>1, <1>2, <2>1, <2>4, <2>5 DEF WorkerCall, NotSent
  <2>7. WorkerResponse' /\ WorkerItem' /\ CancelReachesTheWorker'
    BY <1>1, <2>5 DEF BackgroundInv, WorkerResponse, WorkerItem, CancelReachesTheWorker, ActivePc, WithItem, CanceledJob, ContextEnded
  <2>8. BackgroundTypeOK'
    BY <1>1, <2>3, <2>4, <2>5 DEF BackgroundInv, BackgroundTypeOK
  <2> QED BY <2>4, <2>6, <2>7, <2>8 DEF BackgroundInv
<1>4. CASE worker' = [worker EXCEPT !.pc = "outcome", !.got = "denied"] /\ UNCHANGED <<calls, acct>>
  <2>1. worker' \in WorkerRow /\ worker'.pc = "outcome" /\ worker'.job = j /\ worker'.got = "denied"
    BY <1>1, <1>4, WorkerTakes DEF ActivePc, Outcomes
  <2>2. WorkerCall'
    BY <1>2, <1>4, <2>1 DEF WorkerCall, NotSent, Outcomes, Settled
  <2>3. WorkerResponse' /\ WorkerItem' /\ CancelReachesTheWorker'
    BY <1>1, <2>1 DEF BackgroundInv, WorkerResponse, WorkerItem, CancelReachesTheWorker, ActivePc, WithItem
  <2>4. acct' \in [Jobs -> AcctRow]
    BY <1>4 DEF BackgroundInv, BackgroundTypeOK
  <2> QED BY <1>1, <1>4, <2>1, <2>2, <2>3, <2>4, WorkerStepInv
<1> QED BY <1>3, <1>4 DEF Send

\* The answer is settled as what it was, or not at all.
LEMMA AnswerInv ==
  ASSUME BackgroundInv, NEW j \in Jobs, Answer(j)
  PROVE  BackgroundInv'
<1>1. /\ worker.pc = "answer" /\ worker.job = j /\ worker \in WorkerRow
      /\ UNCHANGED <<resp, batch, item, conv, calls>>
  BY DEF Answer, At, BackgroundInv, BackgroundTypeOK
<1>2. acct[j].attempt = "open" /\ acct[j] \in AcctRow /\ calls \in [Jobs -> Nat] /\ calls[j] <= 1
  BY <1>1 DEF BackgroundInv, BackgroundTypeOK, WorkerCall, ProviderCalledOnce
<1>3. PICK got \in {"interrupted_unknown", "succeeded", "failed", "unsettled"} :
        /\ acct' = [acct EXCEPT ![j] =
             IF got = "unsettled" THEN acct[j]
             ELSE [attempt |-> got, request |-> IF KeepsRequestOpen(j, got) THEN "open" ELSE got]]
        /\ worker' = [worker EXCEPT !.pc = "outcome", !.got = got]
  BY DEF Answer
<1> DEFINE row == IF got = "unsettled" THEN acct[j]
                  ELSE [attempt |-> got, request |-> IF KeepsRequestOpen(j, got) THEN "open" ELSE got]
<1>4. /\ row \in AcctRow
      /\ got \in Settled => row.attempt = got
      /\ got \notin Settled => row.attempt \notin Settled
  BY <1>2, <1>3 DEF AcctRow, AttemptState, Settled
<1>5. ASSUME NEW r \in Responses, j = Job(r), resp[r].attached PROVE row.request # "succeeded"
  <2>1. ~Contains(conv, r)
    BY <1>1, <1>5 DEF BackgroundInv, WorkerResponse, ActivePc
  <2>2. acct[j].request # "succeeded"
    BY <1>5, <2>1 DEF BackgroundInv, TurnsAreConsistent
  <2>3. got = "succeeded" => KeepsRequestOpen(j, got)
    BY <1>5, JobFacts DEF KeepsRequestOpen
  <2> QED BY <2>2, <2>3
<1>6. acct' = [acct EXCEPT ![j] = row]
  BY <1>3
<1> HIDE DEF row
<1>7. /\ acct' \in [Jobs -> AcctRow] /\ acct'[j] = row
      /\ ItemsOK' /\ BatchesOK' /\ ResponsesOK' /\ TurnsAreConsistent' /\ ProviderCalledOnce'
  BY <1>1, <1>2, <1>4, <1>5, <1>6, CallChanged
<1>8. worker' \in WorkerRow /\ worker'.pc = "outcome" /\ worker'.job = j /\ worker'.got = got
  BY <1>1, <1>3, WorkerTakes DEF ActivePc, Outcomes
<1>9. WorkerCall'
  BY <1>4, <1>7, <1>8 DEF WorkerCall, NotSent, Outcomes
<1>10. WorkerResponse' /\ WorkerItem' /\ CancelReachesTheWorker'
  BY <1>1, <1>8 DEF BackgroundInv, WorkerResponse, WorkerItem, CancelReachesTheWorker, ActivePc, WithItem
<1>11. BackgroundTypeOK'
  BY <1>1, <1>7, <1>8 DEF BackgroundInv, BackgroundTypeOK
<1> QED BY <1>7, <1>9, <1>10, <1>11 DEF BackgroundInv

\* The worker goes on to fail its response.
LEMMA FailsNext ==
  ASSUME BackgroundInv, NEW r \in Responses, worker.pc \in {"outcome", "complete"}, worker.job = Job(r),
         CloseRequest(r, "failed"), StayOn("fail"), UNCHANGED <<resp, batch, item, conv, calls>>
  PROVE  BackgroundInv'
<1>1. /\ acct' \in [Jobs -> AcctRow]
      /\ \A j \in Jobs : /\ acct'[j].attempt = acct[j].attempt
                         /\ acct'[j].request = "succeeded" <=> acct[j].request = "succeeded"
  BY RequestClosed
<1>2. worker \in WorkerRow
  BY DEF BackgroundInv, BackgroundTypeOK
<1>3. worker' \in WorkerRow /\ worker'.pc = "fail" /\ worker'.job = Job(r)
  BY <1>2, WorkerMoves DEF StayOn, Step, ActivePc
<1>4. WorkerCall'
  BY <1>3, JobFacts DEF WorkerCall, NotSent
<1>5. WorkerResponse'
  BY <1>3 DEF BackgroundInv, WorkerResponse, ActivePc
<1>6. WorkerItem' /\ CancelReachesTheWorker'
  BY <1>3, JobFacts DEF WorkerItem, CancelReachesTheWorker
<1> QED BY <1>1, <1>3, <1>4, <1>5, <1>6, WorkerStepInv

\* The rest of runBackground.
LEMMA EndResponseInv ==
  ASSUME BackgroundInv, NEW r \in Responses, EndResponse(r)
  PROVE  BackgroundInv'
<1>1. /\ worker.pc = "outcome" /\ worker.job = Job(r) /\ worker.pc \in ActivePc
      /\ UNCHANGED <<batch, item, calls>>
  BY DEF EndResponse, At, ActivePc
<1>2. CASE FailResponse(r) /\ UNCHANGED <<acct, conv>> /\ EndJob
  BY <1>1, <1>2, ResponseFails
<1>3. CASE /\ ~resp[r].attached
           /\ resp' = [resp EXCEPT ![r].state = IF @ = "running" THEN "completed" ELSE @]
           /\ UNCHANGED <<acct, conv>> /\ EndJob
  <2> DEFINE s == IF resp[r].state = "running" THEN "completed" ELSE resp[r].state
  <2>1. resp' = [resp EXCEPT ![r].state = s]
    BY <1>3
  <2>2. s = resp[r].state \/ (resp[r].state \in OpenResponse /\ s = "completed" /\ ~resp[r].attached)
    BY <1>3 DEF OpenResponse
  <2> HIDE DEF s
  <2> QED BY <1>1, <1>3, <2>1, <2>2, ResponseEnds
<1>4. CASE /\ worker.got = "succeeded" /\ resp[r].attached
           /\ UNCHANGED <<resp, acct, conv>> /\ StayOn("complete")
  <2>1. worker \in WorkerRow /\ acct \in [Jobs -> AcctRow]
    BY DEF BackgroundInv, BackgroundTypeOK
  <2>2. worker' \in WorkerRow /\ worker'.pc = "complete" /\ worker'.job = Job(r)
    BY <1>1, <1>4, <2>1, WorkerMoves DEF StayOn, Step, ActivePc
  <2>3. acct[Job(r)].attempt = "succeeded"
    BY <1>1, <1>4 DEF BackgroundInv, WorkerCall, Settled
  <2>4. WorkerCall'
    BY <2>2, JobFacts DEF WorkerCall, NotSent
  <2>5. WorkerResponse'
    BY <1>1, <1>4, <2>2, <2>3, JobFacts DEF BackgroundInv, WorkerResponse
  <2>6. WorkerItem' /\ CancelReachesTheWorker'
    BY <2>2, JobFacts DEF WorkerItem, CancelReachesTheWorker
  <2> QED BY <1>1, <1>4, <2>1, <2>2, <2>4, <2>5, <2>6, WorkerStepInv
<1>5. CASE CloseRequest(r, "failed") /\ UNCHANGED <<resp, conv>> /\ StayOn("fail")
  BY <1>1, <1>5, FailsNext
<1> QED BY <1>2, <1>3, <1>4, <1>5 DEF EndResponse

\* failBackground.
LEMMA FailBackgroundInv ==
  ASSUME BackgroundInv, NEW r \in Responses, FailBackground(r)
  PROVE  BackgroundInv'
  BY ResponseFails DEF FailBackground, At, ActivePc

\* The turn goes in where its request left the conversation, with the response
\* completed and the request closed in the same transaction.
LEMMA TurnAppended ==
  ASSUME BackgroundInv, NEW r \in Responses, worker.pc = "complete", worker.job = Job(r),
         TurnFits(r), resp[r].state = "running", acct[Job(r)].request = "open",
         conv' = Append(conv, r), resp' = [resp EXCEPT ![r].state = "completed"],
         CloseRequest(r, "succeeded"), EndJob, UNCHANGED <<batch, item, calls>>
  PROVE  BackgroundInv'
<1>1. Job(r) \in Jobs /\ resp[r].attached /\ acct[Job(r)].attempt = "succeeded"
  BY JobFacts DEF BackgroundInv, WorkerResponse, ActivePc
<1>2. /\ acct' \in [Jobs -> AcctRow]
      /\ \A j \in Jobs : acct'[j].attempt = acct[j].attempt
      /\ acct'[Job(r)].request = "succeeded" /\ \A j \in Jobs \ {Job(r)} : acct'[j] = acct[j]
  <2>1. acct' = [acct EXCEPT ![Job(r)].request = "succeeded"]
    BY <1>1 DEF CloseRequest
  <2> QED BY <1>1, <2>1 DEF BackgroundInv, BackgroundTypeOK, AcctRow, AttemptState
<1>3. /\ resp' \in [Responses -> RespRow] /\ resp'[r].state = "completed"
      /\ \A q \in Responses \ {r} : resp'[q] = resp[q]
      /\ \A q \in Responses : resp'[q].attached = resp[q].attached /\ resp'[q].base = resp[q].base
  BY DEF BackgroundInv, BackgroundTypeOK, RespRow
<1>4. /\ conv' \in Seq(Responses \cup {"edit", "deleted"})
      /\ DOMAIN conv' = 1..(Len(conv) + 1)
      /\ conv'[Len(conv) + 1] = r /\ \A n \in 1..Len(conv) : conv'[n] = conv[n]
      /\ \A q : Contains(conv', q) <=> (Contains(conv, q) \/ q = r)
  BY AppendFacts DEF BackgroundInv
<1>5. /\ resp[r].base = Len(conv) /\ Len(conv) \in Nat /\ DOMAIN conv = 1..Len(conv)
      /\ \A n \in 1..Len(conv) : conv[n] # "deleted"
  BY RevisionFacts DEF BackgroundInv, BackgroundTypeOK, TurnFits, Exists, Contains
<1>6. \A n \in DOMAIN conv' : conv'[n] \in Responses =>
        resp'[conv'[n]].base = n - 1 /\ \A m \in 1..n : conv'[m] # "deleted"
  <2> SUFFICES ASSUME NEW n \in DOMAIN conv', conv'[n] \in Responses
               PROVE  resp'[conv'[n]].base = n - 1 /\ \A m \in 1..n : conv'[m] # "deleted"
    OBVIOUS
  <2>1. \A m \in 1..(Len(conv) + 1) : conv'[m] # "deleted"
    BY <1>4, <1>5, IdsAssumption
  <2>2. CASE n = Len(conv) + 1
    BY <1>3, <1>4, <1>5, <2>1, <2>2
  <2>3. CASE n \in 1..Len(conv)
    <3>1. resp[conv[n]].base = n - 1 /\ conv'[n] = conv[n]
      BY <1>4, <1>5, <2>3 DEF BackgroundInv, TurnsAreConsistent
    <3> QED BY <1>3, <1>4, <1>5, <2>1, <2>3, <3>1
  <2> QED BY <1>4, <1>5, <2>2, <2>3
<1>7. ASSUME NEW q \in Responses, resp'[q].attached
      PROVE  /\ Contains(conv', q) <=> acct'[Job(q)].request = "succeeded"
             /\ resp'[q].state = "completed" => Contains(conv', q)
             /\ Contains(conv', q) => resp'[q].state \in {"completed", "deleted"}
  <2>1. CASE q = r
    BY <1>2, <1>3, <1>4, <2>1
  <2>2. CASE q # r
    <3>1. acct'[Job(q)] = acct[Job(q)]
      BY <1>2, <2>2, JobFacts
    <3> QED BY <1>3, <1>4, <1>7, <2>2, <3>1 DEF BackgroundInv, TurnsAreConsistent
  <2> QED BY <2>1, <2>2
<1>8. TurnsAreConsistent'
  BY <1>6, <1>7 DEF TurnsAreConsistent
<1>9. ResponsesOK'
  BY <1>1, <1>2, <1>3, <1>4, JobFacts DEF BackgroundInv, ResponsesOK
<1>10. ItemsOK' /\ BatchesOK'
  BY <1>2, ItemsKept, JobFacts
<1>11. worker' \in WorkerRow /\ worker'.pc = "idle"
  BY WorkerStarts DEF EndJob
<1>12. WorkerCall' /\ WorkerResponse' /\ WorkerItem' /\ CancelReachesTheWorker'
  BY <1>11, WorkerGone
<1>13. BackgroundTypeOK'
  BY <1>2, <1>3, <1>4, <1>11 DEF BackgroundInv, BackgroundTypeOK
<1> QED BY <1>8, <1>9, <1>10, <1>12, <1>13 DEF BackgroundInv, ProviderCalledOnce

\* completeBackgroundConversation.
LEMMA CompleteTurnInv ==
  ASSUME BackgroundInv, NEW r \in Responses, CompleteTurn(r)
  PROVE  BackgroundInv'
<1>1. worker.pc = "complete" /\ worker.job = Job(r) /\ UNCHANGED <<batch, item, calls>>
  BY DEF CompleteTurn, At
<1>2. CASE /\ TurnFits(r) /\ resp[r].state = "running" /\ acct[Job(r)].request = "open"
           /\ conv' = Append(conv, r)
           /\ resp' = [resp EXCEPT ![r].state = "completed"]
           /\ CloseRequest(r, "succeeded") /\ EndJob
  BY <1>1, <1>2, TurnAppended
<1>3. CASE CloseRequest(r, "failed") /\ UNCHANGED <<resp, conv>> /\ EndJob
  <2>1. worker' \in WorkerRow /\ worker'.pc = "idle"
    BY <1>3, WorkerStarts DEF EndJob
  <2>2. WorkerCall' /\ WorkerResponse' /\ WorkerItem' /\ CancelReachesTheWorker'
    BY <2>1, WorkerGone
  <2>3. /\ acct' \in [Jobs -> AcctRow]
        /\ \A j \in Jobs : /\ acct'[j].attempt = acct[j].attempt
                           /\ acct'[j].request = "succeeded" <=> acct[j].request = "succeeded"
    BY <1>3, RequestClosed
  <2> QED BY <1>1, <1>3, <2>1, <2>2, <2>3, WorkerStepInv
<1>4. CASE CloseRequest(r, "failed") /\ UNCHANGED <<resp, conv>> /\ StayOn("fail")
  BY <1>1, <1>4, FailsNext
<1> QED BY <1>2, <1>3, <1>4 DEF CompleteTurn

\* The rest of runMessageBatch and runOpenAIBatch: the result is stored, or goes
\* straight to the end of the item.
LEMMA StoreResultInv ==
  ASSUME BackgroundInv, NEW j \in Items, StoreResult(j)
  PROVE  BackgroundInv'
<1>1. /\ worker.pc = "outcome" /\ worker.job = j /\ worker \in WorkerRow /\ acct \in [Jobs -> AcctRow]
      /\ UNCHANGED <<resp, batch, conv, acct, calls>>
  BY DEF StoreResult, At, BackgroundInv, BackgroundTypeOK
<1>2. /\ worker.got \in Outcomes
      /\ worker.got \in Settled => acct[j].attempt = worker.got
      /\ worker.got \notin Settled => acct[j].attempt \notin Settled
      /\ item[j].state = "dispatching"
  BY <1>1 DEF BackgroundInv, WorkerCall, WorkerItem, ActivePc, WithItem
<1>3. PICK line \in {ResultLine(j, worker.got)} \cup (IF worker.got = "succeeded" THEN {"errored"} ELSE {}) :
        \/ /\ worker.got # "denied" /\ line \in {"succeeded", "errored"}
           /\ item' = [item EXCEPT ![j] = [state |-> "settling", line |-> line]]
           /\ worker' = [worker EXCEPT !.pc = "finish", !.got = line]
        \/ /\ worker.got = "denied" \/ line \in {"canceled", "expired"}
           /\ worker' = [worker EXCEPT !.pc = "finish", !.got = line]
           /\ UNCHANGED item
  BY DEF StoreResult
<1>4. /\ line \in ResultLines
      /\ line = "succeeded" => acct[j].attempt = "succeeded"
      /\ line = "canceled" => acct[j].attempt \notin Settled /\ batch[j[1]].cancel
  BY <1>2, <1>3 DEF ResultLine, ResultLines, Settled, Outcomes
<1>5. worker' \in WorkerRow /\ worker'.pc = "finish" /\ worker'.job = j /\ worker'.got = line
  <2>1. worker' = [worker EXCEPT !.pc = "finish", !.got = line]
    BY <1>3
  <2> QED BY <1>1, <1>4, <2>1, WorkerTakes DEF ActivePc
<1>6. j \in Jobs /\ ~IsResponse(j) /\ \A r \in Responses : j # Job(r)
  BY JobFacts
<1>7. WorkerCall' /\ WorkerResponse' /\ CancelReachesTheWorker'
  BY <1>5, <1>6 DEF WorkerCall, WorkerResponse, CancelReachesTheWorker, NotSent
<1>8. CASE UNCHANGED item
  <2>1. WorkerItem'
    BY <1>1, <1>2, <1>4, <1>5, <1>8 DEF WorkerItem, WithItem
  <2> QED BY <1>1, <1>5, <1>7, <1>8, <2>1, WorkerStepInv
<1>9. CASE line \in {"succeeded", "errored"} /\ item' = [item EXCEPT ![j] = [state |-> "settling", line |-> line]]
  <2> DEFINE row == [state |-> "settling", line |-> line]
  <2>1. row \in ItemRow /\ row.state = "settling" /\ row.line = line
    BY <1>4 DEF ItemRow, OpenItem
  <2>2. ItemFits(row, batch[j[1]], j)
    <3>1. ItemFits(item[j], batch[j[1]], j)
      BY DEF BackgroundInv, ItemsOK
    <3> QED BY <1>2, <1>4, <1>9, <2>1, <3>1 DEF ItemFits, LineFits, OpenItem, OpenStatus, ResultLines
  <2>3. item' = [item EXCEPT ![j] = row]
    BY <1>9
  <2> HIDE DEF row
  <2>4. item' \in [Items -> ItemRow] /\ item'[j] = row /\ ItemsOK' /\ BatchesOK'
    BY <1>1, <1>2, <2>1, <2>2, <2>3, ItemChanged DEF OpenItem
  <2>5. WorkerItem'
    BY <1>1, <1>4, <1>5, <2>1, <2>4 DEF WorkerItem, WithItem
  <2>6. ResponsesOK' /\ TurnsAreConsistent'
    BY <1>1, ResponsesKept
  <2>7. BackgroundTypeOK'
    BY <1>1, <1>5, <2>4 DEF BackgroundInv, BackgroundTypeOK
  <2> QED BY <1>1, <1>7, <2>4, <2>5, <2>6, <2>7 DEF BackgroundInv, ProviderCalledOnce
<1> QED BY <1>3, <1>8, <1>9

\* A finished item takes the line the worker has for it.
LEMMA FinishedFits ==
  ASSUME BackgroundInv, NEW j \in Items, worker.pc = "finish", worker.job = j, item[j].state \in Recoverable,
         NEW it, it = [item EXCEPT ![j] = [state |-> worker.got, line |-> worker.got]]
  PROVE  /\ it \in [Items -> ItemRow] /\ it[j].state # "none"
         /\ \A k \in Items : ItemFits(it[k], batch[k[1]], k)
         /\ \A k \in Items : it[k] # item[k] => batch[k[1]].status \in OpenStatus
<1> DEFINE row == [state |-> worker.got, line |-> worker.got]
<1>1. /\ worker.got \in ResultLines
      /\ worker.got = "succeeded" => acct[j].attempt = "succeeded"
      /\ worker.got = "canceled" => acct[j].attempt \notin Settled /\ batch[j[1]].cancel
  BY DEF BackgroundInv, WorkerItem, ActivePc
<1>2. row \in ItemRow /\ row.state = worker.got /\ row.line = worker.got
  BY <1>1 DEF ItemRow, ClosedItem
<1>3. ItemFits(item[j], batch[j[1]], j) /\ batch[j[1]].status \in OpenStatus
  BY DEF BackgroundInv, ItemsOK, ItemFits, Recoverable, OpenItem
<1>4. ItemFits(row, batch[j[1]], j)
  BY <1>1, <1>2, <1>3 DEF ItemFits, LineFits, ResultLines, OpenItem, OpenStatus
<1>5. it = [item EXCEPT ![j] = row]
  OBVIOUS
<1> HIDE DEF row
<1>6. it \in [Items -> ItemRow] /\ it[j] = row /\ \A k \in Items \ {j} : it[k] = item[k]
  BY <1>2, <1>5 DEF BackgroundInv, BackgroundTypeOK
<1>7. \A k \in Items : ItemFits(item[k], batch[k[1]], k)
  BY DEF BackgroundInv, ItemsOK
<1>8. \A k \in Items : ItemFits(it[k], batch[k[1]], k)
  BY <1>4, <1>6, <1>7
<1> QED BY <1>1, <1>2, <1>3, <1>6, <1>8 DEF ResultLines

\* finishMessageBatchItem and finishOpenAIBatchItem.
LEMMA FinishItemInv ==
  ASSUME BackgroundInv, NEW j \in Items, FinishItem(j)
  PROVE  BackgroundInv'
<1> DEFINE it == [item EXCEPT ![j] = [state |-> worker.got, line |-> worker.got]]
           ending == {j[1]} \cap MessageBatches
<1>1. /\ worker.pc = "finish" /\ worker.job = j /\ worker \in WorkerRow /\ acct \in [Jobs -> AcctRow]
      /\ UNCHANGED <<resp, conv, acct, calls>>
  BY DEF FinishItem, At, BackgroundInv, BackgroundTypeOK
<1>2. CASE item[j].state \notin Recoverable
  <2>1. UNCHANGED <<item, batch>> /\ EndJob
    BY <1>2 DEF FinishItem, BackgroundInv, BackgroundTypeOK
  <2> QED BY <1>1, <2>1, JobEnds
<1>3. CASE item[j].state \in Recoverable
  <2>1. /\ item' = it /\ batch' = Finalized(ending, it)
        /\ StayOn("finalize") \/ EndJob
    BY <1>3 DEF FinishItem
  <2>2. /\ it \in [Items -> ItemRow] /\ it[j].state # "none"
        /\ \A k \in Items : ItemFits(it[k], batch[k[1]], k)
        /\ \A k \in Items : it[k] # item[k] => batch[k[1]].status \in OpenStatus
    BY <1>1, <1>3, FinishedFits
  <2> HIDE DEF it
  <2>3. ending \in SUBSET Batches /\ ending \cap OpenAIBatches = {}
    BY IdsAssumption DEF Batches
  <2> HIDE DEF ending
  <2>4. DroppedItems(ending, it) = it
    BY <2>2, <2>3 DEF DroppedItems
  <2>5. /\ batch' \in [Batches -> BatchRow] /\ item' \in [Items -> ItemRow] /\ ItemsOK' /\ BatchesOK'
    BY <1>1, <2>1, <2>2, <2>3, <2>4, FinalizedFacts
  <2>6. worker' \in WorkerRow /\ WorkerCall' /\ WorkerResponse' /\ WorkerItem' /\ CancelReachesTheWorker'
    <3>1. CASE StayOn("finalize")
      <4>1. worker' \in WorkerRow /\ worker'.pc = "finalize" /\ worker'.job = j
        BY <1>1, <3>1, WorkerMoves DEF StayOn, Step, ActivePc
      <4>2. j \in Jobs /\ \A r \in Responses : j # Job(r)
        BY JobFacts
      <4> QED BY <2>1, <2>2, <4>1, <4>2 DEF WorkerCall, WorkerResponse, WorkerItem, CancelReachesTheWorker, NotSent, WithItem
    <3>2. CASE EndJob
      <4>1. worker' \in WorkerRow /\ worker'.pc = "idle"
        BY <3>2, WorkerStarts DEF EndJob
      <4> QED BY <4>1, WorkerGone
    <3> QED BY <2>1, <3>1, <3>2
  <2>7. ResponsesOK' /\ TurnsAreConsistent'
    BY <1>1, ResponsesKept
  <2>8. BackgroundTypeOK'
    BY <1>1, <2>5, <2>6 DEF BackgroundInv, BackgroundTypeOK
  <2> QED BY <1>1, <2>5, <2>6, <2>7, <2>8 DEF BackgroundInv, ProviderCalledOnce
<1> QED BY <1>2, <1>3

\* finalizeOpenAIBatch after an item.
LEMMA FinalizeBatchInv ==
  ASSUME BackgroundInv, NEW j \in Items, FinalizeBatch(j)
  PROVE  BackgroundInv'
<1> DEFINE B == {j[1]}
<1>1. /\ batch' = Finalized(B, item) /\ item' = DroppedItems(B, item) /\ EndJob
      /\ UNCHANGED <<resp, conv, acct, calls>>
  BY DEF FinalizeBatch
<1>2. B \in SUBSET Batches
  BY JobFacts
<1>3. item \in [Items -> ItemRow] /\ \A k \in Items : ItemFits(item[k], batch[k[1]], k)
  BY DEF BackgroundInv, BackgroundTypeOK, ItemsOK
<1> HIDE DEF B
<1>4. batch' \in [Batches -> BatchRow] /\ item' \in [Items -> ItemRow] /\ ItemsOK' /\ BatchesOK'
  BY <1>1, <1>2, <1>3, FinalizedFacts
<1>5. worker' \in WorkerRow /\ worker'.pc = "idle"
  BY <1>1, WorkerStarts DEF EndJob
<1>6. WorkerCall' /\ WorkerResponse' /\ WorkerItem' /\ CancelReachesTheWorker'
  BY <1>5, WorkerGone
<1>7. ResponsesOK' /\ TurnsAreConsistent'
  BY <1>1, ResponsesKept
<1>8. BackgroundTypeOK'
  BY <1>1, <1>4, <1>5 DEF BackgroundInv, BackgroundTypeOK
<1> QED BY <1>1, <1>4, <1>6, <1>7, <1>8 DEF BackgroundInv, ProviderCalledOnce

-----------------------------------------------------------------------------
(* The process. *)

\* usage.Recover closes what was open; what was settled stays.
LEMMA RestartInv ==
  ASSUME BackgroundInv, Restart
  PROVE  BackgroundInv'
<1>1. /\ worker' = [Idle EXCEPT !.pc = "recover"]
      /\ acct' = [j \in Jobs |->
           IF acct[j].attempt = "open" THEN [attempt |-> "interrupted_unknown", request |-> "interrupted_unknown"]
           ELSE IF acct[j].request = "open" THEN [acct[j] EXCEPT !.request = "failed"] ELSE acct[j]]
      /\ UNCHANGED <<resp, batch, item, conv, calls>>
  BY DEF Restart
<1>2. ASSUME NEW j \in Jobs
      PROVE  /\ acct'[j] \in AcctRow
             /\ acct'[j].attempt = acct[j].attempt \/ (acct[j].attempt = "open" /\ acct'[j].attempt = "interrupted_unknown")
             /\ acct[j].attempt # "open" => (acct'[j].request = "succeeded" <=> acct[j].request = "succeeded")
             /\ acct[j].attempt = "open" => acct'[j].request # "succeeded"
  <2>1. acct[j] \in AcctRow
    BY DEF BackgroundInv, BackgroundTypeOK
  <2>2. CASE acct[j].attempt = "open"
    <3>1. acct'[j] = [attempt |-> "interrupted_unknown", request |-> "interrupted_unknown"]
      BY <1>1, <2>2
    <3> QED BY <2>2, <3>1 DEF AcctRow, AttemptState
  <2>3. CASE acct[j].attempt # "open" /\ acct[j].request = "open"
    <3>1. acct'[j] = [acct[j] EXCEPT !.request = "failed"]
      BY <1>1, <2>3
    <3> QED BY <2>1, <2>3, <3>1 DEF AcctRow, AttemptState
  <2>4. CASE acct[j].attempt # "open" /\ acct[j].request # "open"
    <3>1. acct'[j] = acct[j]
      BY <1>1, <2>4
    <3> QED BY <2>1, <2>4, <3>1
  <2> QED BY <2>2, <2>3, <2>4
<1>3. acct' \in [Jobs -> AcctRow]
  BY <1>1, <1>2
<1>4. worker' \in WorkerRow /\ worker'.pc = "recover"
  BY <1>1, WorkerStarts
<1>5. WorkerCall' /\ WorkerResponse' /\ WorkerItem' /\ CancelReachesTheWorker'
  BY <1>4, WorkerGone
<1>6. ItemsOK'
  <2> SUFFICES ASSUME NEW j \in Items PROVE ItemFits(item[j], batch[j[1]], j)'
    BY DEF ItemsOK
  <2>1. j \in Jobs /\ ItemFits(item[j], batch[j[1]], j)
    BY JobFacts DEF BackgroundInv, ItemsOK
  <2>2. acct'[j].attempt = acct[j].attempt \/ (acct[j].attempt = "open" /\ acct'[j].attempt = "interrupted_unknown")
    BY <1>2, <2>1
  <2> QED BY <1>1, <2>1, <2>2 DEF ItemFits, Settled
<1>7. BatchesOK'
  BY <1>1 DEF BackgroundInv, BatchesOK, CountLines
<1>8. ASSUME NEW r \in Responses
      PROVE  /\ resp[r].state \in {"none", "queued"} => acct'[Job(r)].attempt = "none"
             /\ Contains(conv, r) => acct'[Job(r)].attempt = "succeeded"
             /\ resp[r].attached => (Contains(conv, r) <=> acct'[Job(r)].request = "succeeded")
  <2>1. /\ Job(r) \in Jobs
        /\ resp[r].state \in {"none", "queued"} => acct[Job(r)].attempt = "none"
        /\ Contains(conv, r) => acct[Job(r)].attempt = "succeeded"
        /\ resp[r].attached => (Contains(conv, r) <=> acct[Job(r)].request = "succeeded")
    BY JobFacts DEF BackgroundInv, ResponsesOK, TurnsAreConsistent
  <2> QED BY <1>2, <2>1
<1>9. ResponsesOK' /\ TurnsAreConsistent'
  BY <1>1, <1>8 DEF BackgroundInv, ResponsesOK, TurnsAreConsistent
<1>10. BackgroundTypeOK'
  BY <1>1, <1>3, <1>4 DEF BackgroundInv, BackgroundTypeOK
<1> QED BY <1>1, <1>5, <1>6, <1>7, <1>9, <1>10 DEF BackgroundInv, ProviderCalledOnce

-----------------------------------------------------------------------------
(* The theorems. *)

\* Nothing is queued and the worker is about to recover.
LEMMA BackgroundInitInv == BackgroundInit => BackgroundInv
<1> SUFFICES ASSUME BackgroundInit PROVE BackgroundInv
  OBVIOUS
<1>1. /\ resp = [r \in Responses |-> [state |-> "none", attached |-> FALSE, base |-> 0]]
      /\ batch = [b \in Batches |-> NoBatch]
      /\ item = [j \in Items |-> [state |-> "none", line |-> "none"]]
      /\ conv = <<>> /\ worker = [Idle EXCEPT !.pc = "recover"]
      /\ calls = [j \in Jobs |-> 0] /\ acct = [j \in Jobs |-> NoAccount]
  BY DEF BackgroundInit
<1>2. worker \in WorkerRow /\ worker.pc = "recover"
  BY <1>1, WorkerStarts
<1>3. \A j \in Jobs : calls[j] = 0 /\ acct[j] \in AcctRow /\ acct[j].attempt = "none" /\ acct[j].request = "none"
  BY <1>1 DEF NoAccount, AcctRow, AttemptState
<1>4. \A r \in Responses : resp[r] \in RespRow /\ resp[r].state = "none"
  BY <1>1 DEF RespRow
<1>5. \A b \in Batches : batch[b] \in BatchRow /\ batch[b].status = "none"
  BY <1>1 DEF NoBatch, BatchRow
<1>6. \A j \in Items : item[j] \in ItemRow /\ item[j].state = "none" /\ item[j].line = "none"
  BY <1>1 DEF ItemRow
<1>7. conv \in Seq(Responses \cup {"edit", "deleted"}) /\ DOMAIN conv = {} /\ \A r : ~Contains(conv, r)
  BY <1>1 DEF Contains
<1>8. BackgroundTypeOK
  BY <1>1, <1>2, <1>3, <1>4, <1>5, <1>6, <1>7 DEF BackgroundTypeOK
<1>9. WorkerCall /\ WorkerResponse /\ WorkerItem /\ CancelReachesTheWorker
  BY <1>2 DEF WorkerCall, WorkerResponse, WorkerItem, CancelReachesTheWorker, ActivePc, NotSent
<1>10. ResponsesOK /\ TurnsAreConsistent
  BY <1>3, <1>4, <1>7, JobFacts DEF ResponsesOK, TurnsAreConsistent
<1>11. ItemsOK
  BY <1>3, <1>5, <1>6, JobFacts DEF ItemsOK, ItemFits, LineFits, OpenItem, ResultLines
<1>12. BatchesOK
  BY <1>5 DEF BatchesOK, EndedStatus
<1>13. ProviderCalledOnce
  BY <1>3 DEF ProviderCalledOnce
<1> QED BY <1>8, <1>9, <1>10, <1>11, <1>12, <1>13 DEF BackgroundInv

\* Every step keeps the invariant, whoever takes it.
LEMMA BackgroundNextInv == BackgroundInv /\ [BackgroundNext]_bgVars => BackgroundInv'
<1> SUFFICES ASSUME BackgroundInv, [BackgroundNext]_bgVars PROVE BackgroundInv'
  OBVIOUS
<1>1. CASE ClientStep
  <2>1. ASSUME NEW r \in Responses, NEW turn \in BOOLEAN, EnqueueResponse(r, turn) PROVE BackgroundInv'
    BY <2>1, EnqueueResponseInv
  <2>2. ASSUME NEW r \in Responses, CancelResponse(r) \/ DeleteResponse(r) PROVE BackgroundInv'
    BY <2>2, RowClosedInv
  <2>3. ASSUME NEW r \in Responses, RepairRequest(r) PROVE BackgroundInv'
    BY <2>3, AsideInv
  <2>4. ASSUME NEW b \in Batches, CreateMessageBatch(b) \/ CreateOpenAIBatch(b) PROVE BackgroundInv'
    BY <2>4, CreateBatchInv DEF CreateMessageBatch, CreateOpenAIBatch
  <2>5. ASSUME NEW b \in Batches, CancelMessageBatch(b) PROVE BackgroundInv'
    <3> DEFINE ended == Done(b, Withdrawn({b}, {b}, item))
    <3>1. b \in MessageBatches /\ CancelBatch(b, ended) /\ ended \in BOOLEAN
      BY <2>5 DEF CancelMessageBatch, Done
    <3>2. ended => b \in MessageBatches /\ Done(b, Withdrawn({b}, {b}, item))
      BY <3>1
    <3> HIDE DEF ended
    <3> QED BY <3>1, <3>2, CancelBatchInv
  <2>6. ASSUME NEW b \in Batches, CancelOpenAIBatch(b) PROVE BackgroundInv'
    BY <2>6, CancelBatchInv DEF CancelOpenAIBatch
  <2>7. ASSUME NEW b \in Batches, DeleteBatch(b) PROVE BackgroundInv'
    BY <2>7, DeleteBatchInv
  <2>8. ASSUME NEW b \in Batches, PassDeadline(b) PROVE BackgroundInv'
    BY <2>8, AsideInv
  <2>9. ASSUME NEW id \in signals, CancelActive(id) PROVE BackgroundInv'
    BY <2>9, CancelActiveInv
  <2>10. ASSUME NEW id \in signals, AnswerError(id) PROVE BackgroundInv'
    BY <2>10, AnswerErrorInv
  <2>11. CASE CreateConversationItems \/ DeleteConversationItem
    BY <2>11, EditsInv DEF CreateConversationItems, DeleteConversationItem
  <2>12. CASE DeleteConversation
    BY <2>12, EditsInv DEF DeleteConversation
  <2> QED BY <1>1, <2>1, <2>2, <2>3, <2>4, <2>5, <2>6, <2>7, <2>8, <2>9, <2>10, <2>11, <2>12 DEF ClientStep
<1>2. CASE WorkerStep
  <2>1. ASSUME NEW r \in Responses, RecoverResponse(r) PROVE BackgroundInv'
    BY <2>1, RowClosedInv
  <2>2. ASSUME NEW r \in Responses, ClaimResponse(r) PROVE BackgroundInv'
    BY <2>2, SweepInv
  <2>3. ASSUME NEW r \in Responses, CheckResponse(r) PROVE BackgroundInv'
    BY <2>3, CheckResponseInv
  <2>4. ASSUME NEW r \in Responses, EndResponse(r) PROVE BackgroundInv'
    BY <2>4, EndResponseInv
  <2>5. ASSUME NEW r \in Responses, CompleteTurn(r) PROVE BackgroundInv'
    BY <2>5, CompleteTurnInv
  <2>6. ASSUME NEW r \in Responses, FailBackground(r) PROVE BackgroundInv'
    BY <2>6, FailBackgroundInv
  <2>7. ASSUME NEW j \in Items, RecoverItem(j) PROVE BackgroundInv'
    BY <2>7, RecoverItemInv
  <2>8. ASSUME NEW j \in Items, NEW kind \in 1..2, ClaimItem(j, kind) PROVE BackgroundInv'
    BY <2>8, ClaimItemInv
  <2>9. ASSUME NEW j \in Items, DispatchItem(j) PROVE BackgroundInv'
    BY <2>9, DispatchItemInv
  <2>10. ASSUME NEW j \in Items, StoreResult(j) PROVE BackgroundInv'
    BY <2>10, StoreResultInv
  <2>11. ASSUME NEW j \in Items, FinishItem(j) PROVE BackgroundInv'
    BY <2>11, FinishItemInv
  <2>12. ASSUME NEW j \in Items, FinalizeBatch(j) PROVE BackgroundInv'
    BY <2>12, FinalizeBatchInv
  <2>13. ASSUME NEW j \in Jobs, Register(j) PROVE BackgroundInv'
    BY <2>13, RegisterInv
  <2>14. ASSUME NEW j \in Jobs, Reread(j) PROVE BackgroundInv'
    BY <2>14, RereadInv
  <2>15. ASSUME NEW j \in Jobs, Send(j) PROVE BackgroundInv'
    BY <2>15, SendInv
  <2>16. ASSUME NEW j \in Jobs, Answer(j) PROVE BackgroundInv'
    BY <2>16, AnswerInv
  <2>17. CASE FinishRecovery \/ Tick
    BY <2>17, SweepInv
  <2> QED BY <1>2, <2>1, <2>2, <2>3, <2>4, <2>5, <2>6, <2>7, <2>8, <2>9, <2>10, <2>11, <2>12, <2>13, <2>14, <2>15, <2>16, <2>17
          DEF WorkerStep
<1>3. CASE Restart
  BY <1>3, RestartInv
<1>4. CASE UNCHANGED bgVars
  <2>1. UNCHANGED <<resp, batch, item, conv, acct, worker, live, cut, signals, unconfirmed, late, calls>>
    BY <1>4 DEF bgVars, dbVars, procVars
  <2>2. BackgroundTypeOK'
    BY <2>1 DEF BackgroundInv, BackgroundTypeOK
  <2>3. WorkerCall' /\ WorkerResponse' /\ WorkerItem'
    BY <2>1, WorkerKept
  <2>4. ItemsOK' /\ BatchesOK' /\ ResponsesOK' /\ TurnsAreConsistent'
    BY <2>1, ItemsKept, ResponsesKept
  <2>5. CancelReachesTheWorker'
    BY <2>1, CancelKept DEF CanceledJob
  <2> QED BY <2>1, <2>2, <2>3, <2>4, <2>5 DEF BackgroundInv, ProviderCalledOnce
<1> QED BY <1>1, <1>2, <1>3, <1>4 DEF BackgroundNext

\* The invariant explains an ended batch: its lines are those of its states, and
\* every item has exactly one of them.
LEMMA EndedIsExplained == BackgroundInv => EndedBatchIsExplained
<1> SUFFICES ASSUME BackgroundInv, NEW b \in Batches, batch[b].status \in EndedStatus
             PROVE  /\ \A j \in ItemsOf(b) :
                         /\ item[j].line # "none" /\ item[j].state \notin OpenItem
                         /\ item[j].line = "succeeded" => acct[j].attempt = "succeeded"
                         /\ item[j].line = "canceled" => acct[j].attempt \notin {"succeeded", "failed"}
                    /\ b \in MessageBatches => \A line \in {"succeeded", "errored", "canceled", "expired"} :
                         RequestCounts(b, line) = CountLines(b, item, {line})
                    /\ b \in OpenAIBatches =>
                         /\ batch[b].completed = CountLines(b, item, {"succeeded"})
                         /\ batch[b].completed + batch[b].failed + CountLines(b, item, {"canceled", "expired"}) = Total
                         /\ batch[b].status = "completed" => CountLines(b, item, {"canceled", "expired"}) = 0
  BY DEF EndedBatchIsExplained
<1>1. ASSUME NEW j \in ItemsOf(b)
      PROVE  /\ item[j].state \in ClosedItem /\ item[j].line \in ResultLines
             /\ item[j].state \in ResultLines => item[j].line = item[j].state
             /\ item[j].state = "interrupted_unknown" => item[j].line = "errored"
             /\ item[j].state = "gone" => b \notin MessageBatches
             /\ item[j].line = "succeeded" => acct[j].attempt = "succeeded"
             /\ item[j].line = "canceled" => acct[j].attempt \notin Settled /\ batch[b].cancel
  <2>1. j \in Items /\ j[1] = b
    BY ItemsOfFacts
  <2>2. item[j] \in ItemRow /\ ItemFits(item[j], batch[b], j)
    BY <2>1 DEF BackgroundInv, BackgroundTypeOK, ItemsOK
  <2>3. item[j].state \notin OpenItem /\ item[j].state # "none"
    BY <2>2 DEF ItemFits, OpenStatus, EndedStatus
  <2>4. item[j].state \in ClosedItem /\ LineFits(item[j])
    BY <2>2, <2>3 DEF ItemRow, ItemFits
  <2>5. item[j].line \in ResultLines
    BY <2>2, <2>4 DEF ItemRow, LineFits, ClosedItem, ResultLines
  <2> QED BY <2>1, <2>2, <2>4, <2>5 DEF ItemFits, LineFits, EndedStatus
<1>2. \A j \in ItemsOf(b) :
        /\ item[j].line # "none" /\ item[j].state \notin OpenItem
        /\ item[j].line = "succeeded" => acct[j].attempt = "succeeded"
        /\ item[j].line = "canceled" => acct[j].attempt \notin {"succeeded", "failed"}
  BY <1>1 DEF ClosedItem, ResultLines, OpenItem, Settled
<1>3. ASSUME b \in MessageBatches, NEW line \in {"succeeded", "errored", "canceled", "expired"}
      PROVE  RequestCounts(b, line) = CountLines(b, item, {line})
  <2>1. \A j \in ItemsOf(b) :
          item[j].state \in (IF line = "errored" THEN {"errored", "interrupted_unknown"} ELSE {line}) <=> item[j].line \in {line}
    BY <1>1, <1>3 DEF ClosedItem, ResultLines
  <2>2. {j \in ItemsOf(b) : item[j].state \in (IF line = "errored" THEN {"errored", "interrupted_unknown"} ELSE {line})}
          = {j \in ItemsOf(b) : item[j].line \in {line}}
    BY <2>1
  <2> QED BY <2>2 DEF RequestCounts, CountLines
<1>4. ASSUME b \in OpenAIBatches
      PROVE  /\ batch[b].completed = CountLines(b, item, {"succeeded"})
             /\ batch[b].completed + batch[b].failed + CountLines(b, item, {"canceled", "expired"}) = Total
             /\ batch[b].status = "completed" => CountLines(b, item, {"canceled", "expired"}) = 0
  <2> DEFINE S == {j \in ItemsOf(b) : item[j].line \in {"succeeded"}}
             E == {j \in ItemsOf(b) : item[j].line \in {"errored"}}
             W == {j \in ItemsOf(b) : item[j].line \in {"canceled", "expired"}}
  <2>1. b \notin MessageBatches
    BY <1>4, IdsAssumption
  <2>2. /\ batch[b].completed = CountLines(b, item, {"succeeded"})
        /\ batch[b].failed = CountLines(b, item, {"errored"})
        /\ batch[b].status = "completed" => ~batch[b].cancel /\ CountLines(b, item, {"expired"}) = 0
    BY <2>1 DEF BackgroundInv, BatchesOK
  <2>3. /\ IsFiniteSet(S) /\ IsFiniteSet(E) /\ IsFiniteSet(W)
        /\ CountLines(b, item, {"succeeded"}) = Cardinality(S) /\ CountLines(b, item, {"errored"}) = Cardinality(E)
        /\ CountLines(b, item, {"canceled", "expired"}) = Cardinality(W)
    BY ItemsOfFacts, FS_Subset DEF CountLines
  <2>4. ItemsOf(b) = (S \cup E) \cup W /\ S \cap E = {} /\ (S \cup E) \cap W = {}
    BY <1>1 DEF ResultLines
  <2> HIDE DEF S, E, W
  <2>5. /\ Cardinality(S) \in Nat /\ Cardinality(E) \in Nat /\ Cardinality(W) \in Nat
        /\ Cardinality(S \cap E) = 0 /\ Cardinality((S \cup E) \cap W) = 0
    BY <2>3, <2>4, FS_CardinalityType, FS_EmptySet
  <2>6. IsFiniteSet(S \cup E) /\ Cardinality(S \cup E) = Cardinality(S) + Cardinality(E) - Cardinality(S \cap E)
    BY <2>3, FS_Union
  <2>7. Cardinality((S \cup E) \cup W) = Cardinality(S \cup E) + Cardinality(W) - Cardinality((S \cup E) \cap W)
    BY <2>3, <2>6, FS_Union
  <2>8. Cardinality(ItemsOf(b)) = Total
    BY ItemsOfFacts
  <2>9. Cardinality(S) + Cardinality(E) + Cardinality(W) = Total
    BY <2>4, <2>5, <2>6, <2>7, <2>8
  <2>10. ASSUME batch[b].status = "completed" PROVE CountLines(b, item, {"canceled", "expired"}) = 0
    <3>1. \A j \in ItemsOf(b) : item[j].line \notin {"expired"}
      BY <2>2, <2>10, CountFacts
    <3>2. \A j \in ItemsOf(b) : item[j].line \notin {"canceled", "expired"}
      BY <1>1, <2>2, <2>10, <3>1
    <3> QED BY <3>2, CountFacts
  <2> QED BY <2>2, <2>3, <2>9, <2>10
<1> QED BY <1>2, <1>3, <1>4

\* Whatever the restarts, cancels and deadlines, no job is sent to a provider a
\* second time (RunBackground, recoverBackground, recoverMessageBatches).
THEOREM CalledOnceAlways == BackgroundSpec => []ProviderCalledOnce
<1>1. BackgroundInv => ProviderCalledOnce
  BY DEF BackgroundInv
<1> QED BY <1>1, BackgroundInitInv, BackgroundNextInv, PTL DEF BackgroundSpec

\* A cancel or delete that its handler has confirmed is seen by the worker before
\* it sends, or ends the context of the call (cancelActive, cancelBatchActive);
\* one answered with an error (openai_batches.go:486) may leave the call running.
THEOREM CancelAlwaysReaches == BackgroundSpec => []CancelReachesTheWorker
<1>1. BackgroundInv => CancelReachesTheWorker
  BY DEF BackgroundInv
<1> QED BY <1>1, BackgroundInitInv, BackgroundNextInv, PTL DEF BackgroundSpec

\* Turns of background responses stay at the revision they were built on, once
\* each, together with their completed row and their closed request
\* (completeBackgroundConversation).
THEOREM TurnsStayConsistent == BackgroundSpec => []TurnsAreConsistent
<1>1. BackgroundInv => TurnsAreConsistent
  BY DEF BackgroundInv
<1> QED BY <1>1, BackgroundInitInv, BackgroundNextInv, PTL DEF BackgroundSpec

\* An ended batch accounts for every item with one line and shows the counts of
\* those lines (finishMessageBatchTx, finalizeOpenAIBatch).
THEOREM EndedBatchesStayExplained == BackgroundSpec => []EndedBatchIsExplained
  BY EndedIsExplained, BackgroundInitInv, BackgroundNextInv, PTL DEF BackgroundSpec

-----------------------------------------------------------------------------
(* A set of rows with sizes, before and after a step. *)

\* A set all of whose terms are one sums to its size.
LEMMA SumOnes ==
  ASSUME NEW f, NEW S, IsFiniteSet(S), \A x \in S : f[x] = 1
  PROVE  Sum(f, S) = Cardinality(S)
<1> DEFINE bad == {t \in SUBSET S : Sum(f, t) # Cardinality(t)}
<1>1. \A t \in SUBSET S : IsFiniteSet(t) /\ Cardinality(t) \in Nat
  BY FS_Subset, FS_CardinalityType
<1>2. ASSUME bad # {} PROVE FALSE
  <2>1. PICK t \in bad : \A u \in bad : Cardinality(t) <= Cardinality(u)
    BY <1>1, <1>2, LeastCardinality
  <2>2. t # {}
    BY <2>1, SumEmpty, FS_EmptySet
  <2>3. PICK x \in t : TRUE
    BY <2>2
  <2>4. t \ {x} \in SUBSET S /\ Cardinality(t \ {x}) = Cardinality(t) - 1
    BY <1>1, <2>1, <2>3, FS_RemoveElement
  <2>5. t \ {x} \notin bad
    BY <1>1, <2>1, <2>4
  <2>6. Sum(f, t) = f[x] + Sum(f, t \ {x})
    BY <1>1, <2>1, <2>3, SumRemove
  <2> QED BY <1>1, <2>1, <2>4, <2>5, <2>6
<1> QED BY <1>2

\* Fewer rows are no larger.
LEMMA SumFewer ==
  ASSUME NEW f, NEW S, IsFiniteSet(S), NEW T \in SUBSET S, \A x \in S : f[x] \in Nat
  PROVE  Sum(f, T) <= Sum(f, S) /\ Sum(f, T) \in Nat /\ Sum(f, S) \in Nat
<1>1. IsFiniteSet(T) /\ IsFiniteSet(S \ T) /\ T \cap (S \ T) = {} /\ T \cup (S \ T) = S
  BY FS_Subset
<1>2. Sum(f, S) = Sum(f, T) + Sum(f, S \ T)
  BY <1>1, SumDisjoint
<1>3. Sum(f, T) \in Nat /\ Sum(f, S \ T) \in Nat
  BY <1>1, SumNat
<1> QED BY <1>2, <1>3

\* The rows in G give way to those in N, which are as many and as large as
\* there is room for.
LEMMA Exchange ==
  ASSUME NEW R, IsFiniteSet(R), NEW G \in SUBSET R, NEW N, IsFiniteSet(N), NEW R2 \in SUBSET ((R \ G) \cup N),
         NEW f, NEW g, \A x \in R : f[x] \in Nat, \A x \in R2 : g[x] \in Nat,
         \A x \in R2 \ N : g[x] = f[x],
         NEW rows \in Int, NEW bytes \in Int, NEW maxRows \in Int, NEW maxBytes \in Int,
         Cardinality(N) <= rows + Cardinality(G), Sum(g, N \cap R2) <= bytes + Sum(f, G),
         Cardinality(R) + rows <= maxRows, Sum(f, R) + bytes <= maxBytes
  PROVE  Cardinality(R2) + 0 <= maxRows /\ Sum(g, R2) + 0 <= maxBytes
<1> DEFINE old == R2 \ N
           new == N \cap R2
<1>1. /\ old \in SUBSET (R \ G) /\ R2 = old \cup new /\ old \cap new = {}
      /\ new \in SUBSET N
  OBVIOUS
<1>2. IsFiniteSet(R \ G) /\ IsFiniteSet(G) /\ IsFiniteSet(new)
  BY <1>1, FS_Subset
<1>3. IsFiniteSet(old) /\ IsFiniteSet(R2)
  BY <1>1, <1>2, FS_Subset, FS_Union
<1>4. Cardinality(R \ G) = Cardinality(R) - Cardinality(G)
  <2>1. R \cap G = G
    OBVIOUS
  <2> QED BY <2>1, FS_Difference
<1>5. Cardinality(R2) = Cardinality(old) + Cardinality(new)
  <2>1. Cardinality({}) = 0
    BY FS_EmptySet
  <2>2. Cardinality(R2) = Cardinality(old) + Cardinality(new) - Cardinality(old \cap new)
    BY <1>1, <1>2, <1>3, FS_Union
  <2>3. Cardinality(old) \in Nat /\ Cardinality(new) \in Nat
    BY <1>2, <1>3, FS_CardinalityType
  <2>4. Cardinality(old \cap new) = 0
    BY <1>1, <2>1
  <2> HIDE DEF old, new
  <2> QED BY <2>2, <2>3, <2>4
<1>6. Cardinality(old) <= Cardinality(R \ G) /\ Cardinality(new) <= Cardinality(N)
  BY <1>1, <1>2, FS_Subset
<1>7. /\ Cardinality(R) \in Nat /\ Cardinality(G) \in Nat /\ Cardinality(N) \in Nat
      /\ Cardinality(old) \in Nat /\ Cardinality(new) \in Nat
  BY <1>2, <1>3, FS_CardinalityType
<1>8. Cardinality(R2) <= maxRows
  BY <1>4, <1>5, <1>6, <1>7
<1>9. Sum(g, R2) = Sum(g, old) + Sum(g, new)
  BY <1>1, <1>2, <1>3, SumDisjoint
<1>10. Sum(g, old) = Sum(f, old)
  BY <1>1, <1>3, SumSame
<1>11. Sum(f, old) <= Sum(f, R \ G) /\ Sum(f, old) \in Nat /\ Sum(f, R \ G) \in Nat
  BY <1>1, <1>2, SumFewer
<1>12. Sum(f, R) = Sum(f, R \ G) + Sum(f, G)
  <2>1. R = (R \ G) \cup G /\ (R \ G) \cap G = {}
    OBVIOUS
  <2> QED BY <1>2, <2>1, SumDisjoint
<1>13. Sum(f, G) \in Nat /\ Sum(g, new) \in Nat
  BY <1>1, <1>2, SumNat
<1> HIDE DEF old, new
<1>14. Sum(g, new) <= bytes + Sum(f, G)
  BY DEF new
<1>15. Sum(g, R2) <= maxBytes
  BY <1>9, <1>10, <1>11, <1>12, <1>13, <1>14
<1>16. Sum(g, R2) \in Nat /\ Cardinality(R2) \in Nat
  BY <1>3, SumNat, FS_CardinalityType
<1> QED BY <1>8, <1>15, <1>16

-----------------------------------------------------------------------------
(* The rows that count, and their sizes. *)

Statuses == {"pending", "completed", "cancelled"}
UploadType == [key : Keys, bytes : Nat, status : Statuses, parts : Seq(Nat), expires : Nat]
GeminiFileType == [content : Seq(Nat), by : GeminiUploads, expires : Nat]
GeminiUploadType == [key : Keys, name : Names, status : Statuses, content : Seq(Nat), expires : Nat]

ResourcesTypeOK ==
  /\ now \in Nat
  /\ files \in [Files -> FileType \cup {None}]
  /\ uploads \in [Uploads -> UploadType \cup {None}]
  /\ stores \in [Stores -> StoreType \cup {None}]
  /\ attached \in [Stores \X Files -> Nat]
  /\ kept \in [Kept -> FileType \cup {None}]
  /\ gfiles \in [Keys \X GeminiNames -> GeminiFileType \cup {None}]
  /\ guploads \in [GeminiUploads -> GeminiUploadType \cup {None}]

\* An attached File is there, and so is the store it is attached to.
AttachedOK == \A s \in Stores, f \in Files : attached[<<s, f>>] > 0 => stores[s] # None /\ files[f] # None

\* A pending upload holds a front part of what its client sends.
PrefixOK ==
  \A g \in GeminiUploads : guploads[g] # None /\ guploads[g].status = "pending" =>
    /\ Len(guploads[g].content) <= Len(Data[g])
    /\ guploads[g].content = SubSeq(Data[g], 1, Len(guploads[g].content))

ResourcesInv == ResourcesTypeOK /\ AttachedOK /\ PrefixOK /\ GeminiFilesAreComplete

\* What SizeOf says table by table.
LEMMA RowSizes ==
  /\ \A f : SizeOf(<<"file", f>>) = files[f].bytes
  /\ \A u : SizeOf(<<"upload", u>>) = uploads[u].bytes
  /\ \A s : SizeOf(<<"store", s>>) = stores[s].bytes
  /\ \A s : SizeOf(<<"batch", s>>) = 1
  /\ \A s, f : SizeOf(<<"attached", s, f>>) = attached[<<s, f>>]
  /\ \A x : SizeOf(<<"kept", x>>) = kept[x].bytes
  /\ \A k, n : SizeOf(<<"gfile", k, n>>) = Len(gfiles[<<k, n>>].content)
  /\ \A g : SizeOf(<<"gupload", g>>) = Len(Data[g])
  BY DEF SizeOf

\* The table a row is of.
CaseOf(K, row) ==
  \/ \E f \in Files : row = <<"file", f>> /\ Counted(K, files[f])
  \/ \E u \in Uploads : row = <<"upload", u>> /\ Counted(K, uploads[u]) /\ uploads[u].status = "pending"
  \/ \E s \in Stores : row = <<"store", s>> /\ Counted(K, stores[s])
  \/ \E s \in Stores : row = <<"batch", s>> /\ Counted(K, stores[s]) /\ stores[s].batched
  \/ \E s \in Stores, f \in Files : /\ row = <<"attached", s, f>> /\ Counted(K, stores[s])
                                   /\ Live(files[f]) /\ attached[<<s, f>>] > 0
  \/ \E x \in Kept : row = <<"kept", x>> /\ Counted(K, kept[x])
  \/ \E k \in K, n \in GeminiNames : row = <<"gfile", k, n>> /\ Live(gfiles[<<k, n>>])
  \/ \E g \in GeminiUploads : row = <<"gupload", g>> /\ Counted(K, guploads[g]) /\ guploads[g].status = "pending"

LEMMA RowCases ==
  ASSUME NEW K, NEW row \in Retained(K)
  PROVE  CaseOf(K, row)
<1>1. \/ row \in FileRows(K) \/ row \in UploadRows(K) \/ row \in StoreRows(K) \/ row \in BatchRows(K)
      \/ row \in AttachedRows(K) \/ row \in KeptRows(K) \/ row \in GeminiFileRows(K) \/ row \in GeminiUploadRows(K)
  BY DEF Retained
<1>2. CASE row \in AttachedRows(K)
  BY <1>2 DEF CaseOf, AttachedRows
<1>3. CASE row \in GeminiFileRows(K)
  BY <1>3 DEF CaseOf, GeminiFileRows
<1>4. CASE row \in FileRows(K)
  BY <1>4 DEF CaseOf, FileRows
<1>5. CASE row \in UploadRows(K)
  BY <1>5 DEF CaseOf, UploadRows
<1>6. CASE row \in StoreRows(K) \/ row \in BatchRows(K)
  BY <1>6 DEF CaseOf, StoreRows, BatchRows
<1>7. CASE row \in KeptRows(K)
  BY <1>7 DEF CaseOf, KeptRows
<1>8. CASE row \in GeminiUploadRows(K)
  BY <1>8 DEF CaseOf, GeminiUploadRows
<1> QED BY <1>1, <1>2, <1>3, <1>4, <1>5, <1>6, <1>7, <1>8

\* RowSizes are natural numbers.
LEMMA SizeNat ==
  ASSUME ResourcesTypeOK, NEW K \in SUBSET Keys, NEW row \in Retained(K)
  PROVE  SizeOf(row) \in Nat
<1>1. CASE \E f \in Files : row = <<"file", f>> /\ Counted(K, files[f])
  BY <1>1, RowSizes DEF ResourcesTypeOK, Counted, Live, LiveAt, FileType
<1>2. CASE \E u \in Uploads : row = <<"upload", u>> /\ Counted(K, uploads[u])
  BY <1>2, RowSizes DEF ResourcesTypeOK, Counted, Live, LiveAt, UploadType
<1>3. CASE \E s \in Stores : row = <<"store", s>> /\ Counted(K, stores[s])
  BY <1>3, RowSizes DEF ResourcesTypeOK, Counted, Live, LiveAt, StoreType
<1>4. CASE \E s \in Stores : row = <<"batch", s>>
  BY <1>4, RowSizes
<1>5. CASE \E s \in Stores, f \in Files : row = <<"attached", s, f>>
  <2>1. PICK s \in Stores, f \in Files : row = <<"attached", s, f>>
    BY <1>5
  <2>2. attached[<<s, f>>] \in Nat
    BY DEF ResourcesTypeOK
  <2> QED BY <2>1, <2>2, RowSizes
<1>6. CASE \E x \in Kept : row = <<"kept", x>> /\ Counted(K, kept[x])
  BY <1>6, RowSizes DEF ResourcesTypeOK, Counted, Live, LiveAt, FileType
<1>7. CASE \E k \in K, n \in GeminiNames : row = <<"gfile", k, n>> /\ Live(gfiles[<<k, n>>])
  <2>1. PICK k \in K, n \in GeminiNames : row = <<"gfile", k, n>> /\ Live(gfiles[<<k, n>>])
    BY <1>7
  <2>2. gfiles[<<k, n>>] \in GeminiFileType
    BY <2>1 DEF ResourcesTypeOK, Live, LiveAt
  <2> QED BY <2>1, <2>2, RowSizes DEF GeminiFileType
<1>8. CASE \E g \in GeminiUploads : row = <<"gupload", g>>
  BY <1>8, RowSizes, ResourcesAssumption
<1>9. CaseOf(K, row)
  BY RowCases
<1> QED BY <1>1, <1>2, <1>3, <1>4, <1>5, <1>6, <1>7, <1>8, <1>9 DEF CaseOf

\* The image of a finite set.
LEMMA Images ==
  ASSUME NEW S, IsFiniteSet(S), NEW f
  PROVE  IsFiniteSet({f[x] : x \in S})
<1> DEFINE T == {f[x] : x \in S}
           g == [x \in S |-> f[x]]
<1>1. g \in Surjection(S, T)
  BY DEF Surjection
<1> QED BY <1>1, FS_Surjection

\* The tables are finite.
LEMMA RetainedFinite ==
  ASSUME NEW K \in SUBSET Keys
  PROVE  IsFiniteSet(Retained(K))
<1> DEFINE Tagged(tag, ids) == {<<tag, i>> : i \in ids}
           Tagged2(tag, ids) == {<<tag, p[1], p[2]>> : p \in ids}
<1>1. ASSUME NEW tag, NEW ids, IsFiniteSet(ids) PROVE IsFiniteSet(Tagged(tag, ids))
  <2> DEFINE f == [i \in ids |-> <<tag, i>>]
  <2>1. Tagged(tag, ids) = {f[i] : i \in ids}
    OBVIOUS
  <2> HIDE DEF f
  <2> QED BY <1>1, <2>1, Images
<1>2. ASSUME NEW tag, NEW ids, IsFiniteSet(ids) PROVE IsFiniteSet(Tagged2(tag, ids))
  <2> DEFINE f == [p \in ids |-> <<tag, p[1], p[2]>>]
  <2>1. Tagged2(tag, ids) = {f[p] : p \in ids}
    OBVIOUS
  <2> HIDE DEF f
  <2> QED BY <1>2, <2>1, Images
<1>3. /\ IsFiniteSet(Files) /\ IsFiniteSet(Uploads) /\ IsFiniteSet(Stores) /\ IsFiniteSet(Kept)
      /\ IsFiniteSet(GeminiUploads) /\ IsFiniteSet(Names) /\ IsFiniteSet(K)
  BY TablesAssumption, FS_Subset
<1>4. IsFiniteSet(Stores \X Files) /\ IsFiniteSet(K \X GeminiNames)
  <2>1. IsFiniteSet(Names \ {None})
    BY <1>3, FS_RemoveElement
  <2>2. IsFiniteSet(GeminiNames)
    BY <1>3, <2>1, FS_Union DEF GeminiNames
  <2> QED BY <1>3, <2>2, FS_Product
<1> DEFINE all == Tagged("file", Files) \cup Tagged("upload", Uploads) \cup Tagged("store", Stores)
                  \cup Tagged("batch", Stores) \cup Tagged2("attached", Stores \X Files) \cup Tagged("kept", Kept)
                  \cup Tagged2("gfile", K \X GeminiNames) \cup Tagged("gupload", GeminiUploads)
<1>5. /\ IsFiniteSet(Tagged("file", Files)) /\ IsFiniteSet(Tagged("upload", Uploads))
      /\ IsFiniteSet(Tagged("store", Stores)) /\ IsFiniteSet(Tagged("batch", Stores))
      /\ IsFiniteSet(Tagged2("attached", Stores \X Files)) /\ IsFiniteSet(Tagged("kept", Kept))
      /\ IsFiniteSet(Tagged2("gfile", K \X GeminiNames)) /\ IsFiniteSet(Tagged("gupload", GeminiUploads))
  BY <1>1, <1>2, <1>3, <1>4
<1>6. Retained(K) \subseteq all
  BY DEF Retained, FileRows, UploadRows, StoreRows, BatchRows, AttachedRows, KeptRows, GeminiFileRows, GeminiUploadRows
<1> HIDE DEF Tagged, Tagged2
<1>7. IsFiniteSet(all)
  BY <1>5, FS_Union
<1> QED BY <1>6, <1>7, FS_Subset

-----------------------------------------------------------------------------
(* The budget of a set of keys over a step. *)

SizesOf(K) == [row \in Retained(K) |-> SizeOf(row)]
InBudget(K, maxRows, maxBytes) == Within(Retained(K), 0, 0, maxRows, maxBytes)
Measured(K) ==
  /\ IsFiniteSet(Retained(K))
  /\ \A row \in Retained(K) : SizeOf(row) \in Nat /\ SizesOf(K)[row] = SizeOf(row)
  /\ \A R \in SUBSET Retained(K) : Bytes(R) = Sum(SizesOf(K), R)
AllMeasured == \A K \in SUBSET Keys : Measured(K)

\* What counts against a set of keys has a number and a size.
LEMMA Measures == ResourcesTypeOK => AllMeasured
<1> SUFFICES ASSUME ResourcesTypeOK, NEW K \in SUBSET Keys PROVE Measured(K)
  BY DEF AllMeasured
<1>1. IsFiniteSet(Retained(K))
  BY RetainedFinite
<1>2. \A row \in Retained(K) : SizeOf(row) \in Nat /\ SizesOf(K)[row] = SizeOf(row)
  BY SizeNat DEF SizesOf
<1>3. ASSUME NEW R \in SUBSET Retained(K) PROVE Bytes(R) = Sum(SizesOf(K), R)
  <2> DEFINE f == [row \in R |-> SizeOf(row)]
  <2>1. Bytes(R) = Sum(f, R)
    BY DEF Bytes, Sum
  <2>2. \A x \in R : f[x] = SizesOf(K)[x]
    BY <1>2
  <2> HIDE DEF f
  <2>3. IsFiniteSet(R)
    BY <1>1, FS_Subset
  <2> QED BY <2>1, <2>2, <2>3, SumSame
<1> QED BY <1>1, <1>2, <1>3 DEF Measured

LEMMA MeasuresNext == ResourcesTypeOK' => AllMeasured'
  BY Measures, PTL

\* Rows go.
LEMMA FewerRows ==
  ASSUME ResourcesTypeOK, ResourcesTypeOK', NEW K \in SUBSET Keys, NEW maxRows \in Int, NEW maxBytes \in Int,
         InBudget(K, maxRows, maxBytes), Retained(K)' \subseteq Retained(K),
         \A x \in Retained(K)' : SizeOf(x)' = SizeOf(x)
  PROVE  InBudget(K, maxRows, maxBytes)'
<1> DEFINE R == Retained(K)
           R2 == Retained(K)'
           f == SizesOf(K)
           g == SizesOf(K)'
<1>1. Measured(K)
  BY Measures DEF AllMeasured
<1>2. Measured(K)'
  BY MeasuresNext DEF AllMeasured
<1>3. /\ IsFiniteSet(R) /\ \A x \in R : f[x] \in Nat
      /\ Cardinality(R) + 0 <= maxRows /\ Sum(f, R) + 0 <= maxBytes
  BY <1>1 DEF Measured, InBudget, Within
<1>4. /\ \A x \in R2 : g[x] \in Nat /\ g[x] = f[x]
  BY <1>1, <1>2 DEF Measured
<1>5. IsFiniteSet({}) /\ Cardinality({}) = 0 /\ Sum(f, {}) = 0 /\ Sum(g, {} \cap R2) = 0
  <2>1. {} \cap R2 = {}
    OBVIOUS
  <2> QED BY <2>1, SumEmpty, FS_EmptySet
<1>6. R2 \in SUBSET ((R \ {}) \cup {}) /\ {} \in SUBSET R
  OBVIOUS
<1> HIDE DEF R, R2, f, g
<1>7. /\ \A x \in R2 : g[x] \in Nat
      /\ \A x \in R2 \ {} : g[x] = f[x]
      /\ Cardinality({}) <= 0 + Cardinality({})
      /\ Sum(g, {} \cap R2) <= 0 + Sum(f, {})
  BY <1>4, <1>5
<1>8. Cardinality(R2) + 0 <= maxRows /\ Sum(g, R2) + 0 <= maxBytes
  BY <1>3, <1>5, <1>6, <1>7, Exchange
<1>9. Bytes(Retained(K))' = Sum(g, R2)
  BY <1>2 DEF Measured, R2, g
<1> QED BY <1>8, <1>9 DEF InBudget, Within, R2

\* A row comes for which there is room once others have gone.
LEMMA OneMoreRow ==
  ASSUME ResourcesTypeOK, ResourcesTypeOK', NEW K \in SUBSET Keys, NEW maxRows \in Int, NEW maxBytes \in Int,
         NEW gone, NEW x, NEW bytes \in Nat,
         Within(Retained(K) \ gone, 1, bytes, maxRows, maxBytes),
         Retained(K)' \subseteq (Retained(K) \ gone) \cup {x},
         x \in Retained(K)' => SizeOf(x)' <= bytes,
         \A y \in Retained(K)' \ {x} : SizeOf(y)' = SizeOf(y)
  PROVE  InBudget(K, maxRows, maxBytes)'
<1> DEFINE R == Retained(K) \ gone
           R2 == Retained(K)'
           f == SizesOf(K)
           g == SizesOf(K)'
<1>1. Measured(K)
  BY Measures DEF AllMeasured
<1>2. Measured(K)'
  BY MeasuresNext DEF AllMeasured
<1>3. /\ IsFiniteSet(R) /\ \A y \in R : f[y] \in Nat
      /\ Cardinality(R) + 1 <= maxRows /\ Sum(f, R) + bytes <= maxBytes
  <2>1. R \in SUBSET Retained(K) /\ IsFiniteSet(R)
    BY <1>1, FS_Subset DEF Measured
  <2>2. Bytes(R) = Sum(f, R)
    BY <1>1, <2>1 DEF Measured
  <2> QED BY <1>1, <2>1, <2>2 DEF Measured, Within
<1>4. /\ \A y \in R2 : g[y] \in Nat
      /\ \A y \in R2 \ {x} : g[y] = f[y]
      /\ x \in R2 => g[x] <= bytes
  BY <1>1, <1>2 DEF Measured
<1>5. IsFiniteSet({x}) /\ Cardinality({x}) = 1 /\ Cardinality({}) = 0 /\ Sum(f, {}) = 0
  BY SumEmpty, FS_Singleton, FS_EmptySet
<1>6. R2 \in SUBSET ((R \ {}) \cup {x}) /\ {} \in SUBSET R
  OBVIOUS
<1> HIDE DEF R, R2, f, g
<1>7. Sum(g, {x} \cap R2) <= bytes
  <2>1. CASE x \in R2
    <3>1. Sum(g, {x}) = g[x] + Sum(g, {x} \ {x})
      BY <1>4, <1>5, <2>1, SumRemove
    <3>2. {x} \ {x} = {} /\ {x} \cap R2 = {x}
      BY <2>1
    <3>3. Sum(g, {x} \ {x}) = 0
      BY <3>2, SumEmpty
    <3>4. g[x] \in Nat /\ g[x] <= bytes
      BY <1>4, <2>1
    <3>5. Sum(g, {x}) = g[x]
      BY <3>1, <3>3, <3>4
    <3> QED BY <3>2, <3>4, <3>5
  <2>2. CASE x \notin R2
    <3>1. {x} \cap R2 = {}
      BY <2>2
    <3> QED BY <3>1, SumEmpty
  <2> QED BY <2>1, <2>2
<1>8. /\ Cardinality({x}) <= 1 + Cardinality({})
      /\ Sum(g, {x} \cap R2) <= bytes + Sum(f, {})
  BY <1>5, <1>7
<1>9. Cardinality(R2) + 0 <= maxRows /\ Sum(g, R2) + 0 <= maxBytes
  BY <1>3, <1>4, <1>5, <1>6, <1>8, Exchange
<1>10. Bytes(Retained(K))' = Sum(g, R2)
  BY <1>2 DEF Measured, R2, g
<1> QED BY <1>9, <1>10 DEF InBudget, Within, R2

\* A row takes the place of another one, or grows where there is room.
LEMMA TradedRow ==
  ASSUME ResourcesTypeOK, ResourcesTypeOK', NEW K \in SUBSET Keys, NEW maxRows \in Int, NEW maxBytes \in Int,
         NEW x \in Retained(K), NEW y, NEW growth \in Int,
         Within(Retained(K), 0, growth, maxRows, maxBytes),
         Retained(K)' \subseteq (Retained(K) \ {x}) \cup {y},
         0 <= SizeOf(x) + growth,
         y \in Retained(K)' => SizeOf(y)' <= SizeOf(x) + growth,
         \A z \in Retained(K)' \ {y} : SizeOf(z)' = SizeOf(z)
  PROVE  InBudget(K, maxRows, maxBytes)'
<1> DEFINE R == Retained(K)
           R2 == Retained(K)'
           f == SizesOf(K)
           g == SizesOf(K)'
<1>1. Measured(K)
  BY Measures DEF AllMeasured
<1>2. Measured(K)'
  BY MeasuresNext DEF AllMeasured
<1>3. /\ IsFiniteSet(R) /\ \A z \in R : f[z] \in Nat
      /\ Cardinality(R) + 0 <= maxRows /\ Sum(f, R) + growth <= maxBytes
  BY <1>1 DEF Measured, Within
<1>4. /\ \A z \in R2 : g[z] \in Nat
      /\ \A z \in R2 \ {y} : g[z] = f[z]
      /\ y \in R2 => g[y] <= f[x] + growth
      /\ 0 <= f[x] + growth /\ f[x] \in Nat
  <2>1. \A z \in R : f[z] = SizeOf(z) /\ f[z] \in Nat
    BY <1>1 DEF Measured
  <2>2. \A z \in R2 : g[z] = SizeOf(z)' /\ g[z] \in Nat
    BY <1>2 DEF Measured
  <2> HIDE DEF f, g
  <2> QED BY <2>1, <2>2
<1>5. /\ IsFiniteSet({x}) /\ IsFiniteSet({y}) /\ Cardinality({x}) = 1 /\ Cardinality({y}) = 1
      /\ {x} \ {x} = {} /\ {y} \ {y} = {}
  BY FS_Singleton
<1>6. R2 \in SUBSET ((R \ {x}) \cup {y}) /\ {x} \in SUBSET R /\ x \in R
  OBVIOUS
<1> HIDE DEF R, R2, f, g
<1>7. Sum(f, {x}) = f[x]
  <2>1. Sum(f, {x}) = f[x] + Sum(f, {x} \ {x})
    BY <1>4, <1>5, SumRemove
  <2>2. Sum(f, {x} \ {x}) = 0
    BY <1>5, SumEmpty
  <2> QED BY <1>4, <2>1, <2>2
<1>8. Sum(g, {y} \cap R2) <= growth + f[x]
  <2>1. CASE y \in R2
    <3>1. Sum(g, {y}) = g[y] + Sum(g, {y} \ {y})
      BY <1>4, <1>5, <2>1, SumRemove
    <3>2. {y} \cap R2 = {y}
      BY <2>1
    <3>3. Sum(g, {y} \ {y}) = 0
      BY <1>5, SumEmpty
    <3> QED BY <1>4, <2>1, <3>1, <3>2, <3>3
  <2>2. CASE y \notin R2
    <3>1. {y} \cap R2 = {}
      BY <2>2
    <3>2. Sum(g, {y} \cap R2) = 0
      BY <3>1, SumEmpty
    <3> QED BY <1>4, <3>2
  <2> QED BY <2>1, <2>2
<1>9. /\ Cardinality({y}) <= 0 + Cardinality({x})
      /\ Sum(g, {y} \cap R2) <= growth + Sum(f, {x})
  BY <1>5, <1>7, <1>8
<1>10. Cardinality(R2) + 0 <= maxRows /\ Sum(g, R2) + 0 <= maxBytes
  BY <1>3, <1>4, <1>5, <1>6, <1>9, Exchange
<1>11. Bytes(Retained(K))' = Sum(g, R2)
  BY <1>2 DEF Measured, R2, g
<1> QED BY <1>10, <1>11 DEF InBudget, Within, R2

\* Rows of size one come for which there is room.
LEMMA MoreRows ==
  ASSUME ResourcesTypeOK, ResourcesTypeOK', NEW K \in SUBSET Keys, NEW maxRows \in Int, NEW maxBytes \in Int,
         NEW N, IsFiniteSet(N), NEW n \in Nat, Cardinality(N) <= n,
         Within(Retained(K), n, n, maxRows, maxBytes),
         Retained(K)' \subseteq Retained(K) \cup N,
         \A x \in N \cap Retained(K)' : SizeOf(x)' = 1,
         \A y \in Retained(K)' \ N : SizeOf(y)' = SizeOf(y)
  PROVE  InBudget(K, maxRows, maxBytes)'
<1> DEFINE R == Retained(K)
           R2 == Retained(K)'
           f == SizesOf(K)
           g == SizesOf(K)'
           M == N \cap R2
<1>1. Measured(K)
  BY Measures DEF AllMeasured
<1>2. Measured(K)'
  BY MeasuresNext DEF AllMeasured
<1>3. /\ IsFiniteSet(R) /\ \A z \in R : f[z] \in Nat
      /\ Cardinality(R) + n <= maxRows /\ Sum(f, R) + n <= maxBytes
  BY <1>1 DEF Measured, Within
<1>4. /\ \A z \in R2 : g[z] \in Nat
      /\ \A z \in R2 \ N : g[z] = f[z]
      /\ \A z \in M : g[z] = 1
  BY <1>1, <1>2 DEF Measured
<1>5. R2 \in SUBSET ((R \ {}) \cup N) /\ {} \in SUBSET R /\ M \in SUBSET N
  OBVIOUS
<1> HIDE DEF R, R2, f, g
<1>6. IsFiniteSet(M) /\ Cardinality(M) <= Cardinality(N) /\ Cardinality(M) \in Nat /\ Cardinality(N) \in Nat
  BY <1>5, FS_Subset, FS_CardinalityType
<1>7. Cardinality({}) = 0 /\ Sum(f, {}) = 0
  BY SumEmpty, FS_EmptySet
<1>8. Sum(g, M) = Cardinality(M)
  <2> HIDE DEF M
  <2> QED BY <1>4, <1>6, SumOnes
<1>9. /\ Cardinality(N) <= n + Cardinality({})
      /\ Sum(g, N \cap R2) <= n + Sum(f, {})
  BY <1>6, <1>7, <1>8
<1>10. Cardinality(R2) + 0 <= maxRows /\ Sum(g, R2) + 0 <= maxBytes
  BY <1>3, <1>4, <1>5, <1>9, Exchange
<1>11. Bytes(Retained(K))' = Sum(g, R2)
  BY <1>2 DEF Measured, R2, g
<1> QED BY <1>10, <1>11 DEF InBudget, Within, R2
-----------------------------------------------------------------------------
(* What a step does to the rows, table by table. *)

\* The rows that count are those of the eight tables.
RowsOf(K) ==
  /\ \A f \in Files : <<"file", f>> \in Retained(K) <=> Counted(K, files[f])
  /\ \A u \in Uploads : <<"upload", u>> \in Retained(K) <=> Counted(K, uploads[u]) /\ uploads[u].status = "pending"
  /\ \A s \in Stores : <<"store", s>> \in Retained(K) <=> Counted(K, stores[s])
  /\ \A s \in Stores : <<"batch", s>> \in Retained(K) <=> Counted(K, stores[s]) /\ stores[s].batched
  /\ \A s \in Stores, f \in Files :
       <<"attached", s, f>> \in Retained(K) <=> Counted(K, stores[s]) /\ Live(files[f]) /\ attached[<<s, f>>] > 0
  /\ \A x \in Kept : <<"kept", x>> \in Retained(K) <=> Counted(K, kept[x])
  /\ \A k \in Keys, n \in GeminiNames : <<"gfile", k, n>> \in Retained(K) <=> k \in K /\ Live(gfiles[<<k, n>>])
  /\ \A g \in GeminiUploads :
       <<"gupload", g>> \in Retained(K) <=> Counted(K, guploads[g]) /\ guploads[g].status = "pending"
  /\ \A row \in Retained(K) :
       \/ \E f \in Files : row = <<"file", f>>
       \/ \E u \in Uploads : row = <<"upload", u>>
       \/ \E s \in Stores : row = <<"store", s>>
       \/ \E s \in Stores : row = <<"batch", s>>
       \/ \E s \in Stores, f \in Files : row = <<"attached", s, f>>
       \/ \E x \in Kept : row = <<"kept", x>>
       \/ \E k \in K, n \in GeminiNames : row = <<"gfile", k, n>>
       \/ \E g \in GeminiUploads : row = <<"gupload", g>>

AllRowsOf == \A K \in SUBSET Keys : RowsOf(K)
AllSizes ==
  /\ \A f : SizeOf(<<"file", f>>) = files[f].bytes
  /\ \A u : SizeOf(<<"upload", u>>) = uploads[u].bytes
  /\ \A s : SizeOf(<<"store", s>>) = stores[s].bytes
  /\ \A s : SizeOf(<<"batch", s>>) = 1
  /\ \A s, f : SizeOf(<<"attached", s, f>>) = attached[<<s, f>>]
  /\ \A x : SizeOf(<<"kept", x>>) = kept[x].bytes
  /\ \A k, n : SizeOf(<<"gfile", k, n>>) = Len(gfiles[<<k, n>>].content)
  /\ \A g : SizeOf(<<"gupload", g>>) = Len(Data[g])

LEMMA TheRows == AllRowsOf /\ AllSizes
<1>1. AllSizes
  BY RowSizes DEF AllSizes
<1> SUFFICES ASSUME NEW K \in SUBSET Keys PROVE RowsOf(K)
  BY <1>1 DEF AllRowsOf
<1>0. \A row \in Retained(K) : CaseOf(K, row)
  BY RowCases
<1>2. ASSUME NEW f \in Files PROVE <<"file", f>> \in Retained(K) <=> Counted(K, files[f])
  <2>1. Counted(K, files[f]) => <<"file", f>> \in Retained(K)
    BY DEF Retained, FileRows
  <2>2. ASSUME <<"file", f>> \in Retained(K) PROVE Counted(K, files[f])
    BY <1>0, <2>2 DEF CaseOf
  <2> QED BY <2>1, <2>2
<1>3. ASSUME NEW u \in Uploads
      PROVE  <<"upload", u>> \in Retained(K) <=> Counted(K, uploads[u]) /\ uploads[u].status = "pending"
  <2>1. Counted(K, uploads[u]) /\ uploads[u].status = "pending" => <<"upload", u>> \in Retained(K)
    BY DEF Retained, UploadRows
  <2>2. ASSUME <<"upload", u>> \in Retained(K) PROVE Counted(K, uploads[u]) /\ uploads[u].status = "pending"
    BY <1>0, <2>2 DEF CaseOf
  <2> QED BY <2>1, <2>2
<1>4. ASSUME NEW s \in Stores PROVE <<"store", s>> \in Retained(K) <=> Counted(K, stores[s])
  <2>1. Counted(K, stores[s]) => <<"store", s>> \in Retained(K)
    BY DEF Retained, StoreRows
  <2>2. ASSUME <<"store", s>> \in Retained(K) PROVE Counted(K, stores[s])
    BY <1>0, <2>2 DEF CaseOf
  <2> QED BY <2>1, <2>2
<1>5. ASSUME NEW s \in Stores PROVE <<"batch", s>> \in Retained(K) <=> Counted(K, stores[s]) /\ stores[s].batched
  <2>1. Counted(K, stores[s]) /\ stores[s].batched => <<"batch", s>> \in Retained(K)
    BY DEF Retained, BatchRows
  <2>2. ASSUME <<"batch", s>> \in Retained(K) PROVE Counted(K, stores[s]) /\ stores[s].batched
    BY <1>0, <2>2 DEF CaseOf
  <2> QED BY <2>1, <2>2
<1>6. ASSUME NEW s \in Stores, NEW f \in Files
      PROVE  <<"attached", s, f>> \in Retained(K) <=> Counted(K, stores[s]) /\ Live(files[f]) /\ attached[<<s, f>>] > 0
  <2>1. ASSUME Counted(K, stores[s]), Live(files[f]), attached[<<s, f>>] > 0
        PROVE  <<"attached", s, f>> \in Retained(K)
    <3> DEFINE p == <<s, f>>
    <3>1. /\ p \in Stores \X Files /\ p[1] = s /\ p[2] = f
          /\ Counted(K, stores[p[1]]) /\ Live(files[p[2]]) /\ attached[p] > 0
      BY <2>1
    <3> HIDE DEF p
    <3>2. <<"attached", p[1], p[2]>> \in AttachedRows(K)
      BY <3>1 DEF AttachedRows
    <3> QED BY <3>1, <3>2 DEF Retained
  <2>2. ASSUME <<"attached", s, f>> \in Retained(K)
        PROVE  Counted(K, stores[s]) /\ Live(files[f]) /\ attached[<<s, f>>] > 0
    BY <1>0, <2>2 DEF CaseOf
  <2> QED BY <2>1, <2>2
<1>7. ASSUME NEW x \in Kept PROVE <<"kept", x>> \in Retained(K) <=> Counted(K, kept[x])
  <2>1. Counted(K, kept[x]) => <<"kept", x>> \in Retained(K)
    BY DEF Retained, KeptRows
  <2>2. ASSUME <<"kept", x>> \in Retained(K) PROVE Counted(K, kept[x])
    BY <1>0, <2>2 DEF CaseOf
  <2> QED BY <2>1, <2>2
<1>8. ASSUME NEW k \in Keys, NEW n \in GeminiNames
      PROVE  <<"gfile", k, n>> \in Retained(K) <=> k \in K /\ Live(gfiles[<<k, n>>])
  <2>1. ASSUME k \in K, Live(gfiles[<<k, n>>]) PROVE <<"gfile", k, n>> \in Retained(K)
    <3> DEFINE p == <<k, n>>
    <3>1. p \in K \X GeminiNames /\ p[1] = k /\ p[2] = n /\ Live(gfiles[p])
      BY <2>1
    <3> HIDE DEF p
    <3>2. <<"gfile", p[1], p[2]>> \in GeminiFileRows(K)
      BY <3>1 DEF GeminiFileRows
    <3> QED BY <3>1, <3>2 DEF Retained
  <2>2. ASSUME <<"gfile", k, n>> \in Retained(K) PROVE k \in K /\ Live(gfiles[<<k, n>>])
    BY <1>0, <2>2 DEF CaseOf
  <2> QED BY <2>1, <2>2
<1>9. ASSUME NEW g \in GeminiUploads
      PROVE  <<"gupload", g>> \in Retained(K) <=> Counted(K, guploads[g]) /\ guploads[g].status = "pending"
  <2>1. Counted(K, guploads[g]) /\ guploads[g].status = "pending" => <<"gupload", g>> \in Retained(K)
    BY DEF Retained, GeminiUploadRows
  <2>2. ASSUME <<"gupload", g>> \in Retained(K) PROVE Counted(K, guploads[g]) /\ guploads[g].status = "pending"
    BY <1>0, <2>2 DEF CaseOf
  <2> QED BY <2>1, <2>2
<1>10. \A row \in Retained(K) :
       \/ \E f \in Files : row = <<"file", f>>
       \/ \E u \in Uploads : row = <<"upload", u>>
       \/ \E s \in Stores : row = <<"store", s>>
       \/ \E s \in Stores : row = <<"batch", s>>
       \/ \E s \in Stores, f \in Files : row = <<"attached", s, f>>
       \/ \E x \in Kept : row = <<"kept", x>>
       \/ \E k \in K, n \in GeminiNames : row = <<"gfile", k, n>>
       \/ \E g \in GeminiUploads : row = <<"gupload", g>>
  BY <1>0 DEF CaseOf
<1> QED BY <1>2, <1>3, <1>4, <1>5, <1>6, <1>7, <1>8, <1>9, <1>10 DEF RowsOf

LEMMA TheRowsNext == (AllRowsOf /\ AllSizes)'
  BY TheRows, PTL
\* Of each table: a row that counts after the step is new, or it counted before
\* with the same size and is not one of those gone.
FilesStep(K, G, N) ==
  \A f \in Files : Counted(K, files[f])' =>
    <<"file", f>> \in N \/ (Counted(K, files[f]) /\ <<"file", f>> \notin G /\ files'[f].bytes = files[f].bytes)
UploadsStep(K, G, N) ==
  \A u \in Uploads : Counted(K, uploads[u])' /\ uploads'[u].status = "pending" =>
    \/ <<"upload", u>> \in N
    \/ /\ Counted(K, uploads[u]) /\ uploads[u].status = "pending" /\ <<"upload", u>> \notin G
       /\ uploads'[u].bytes = uploads[u].bytes
StoresStep(K, G, N) ==
  \A s \in Stores : Counted(K, stores[s])' =>
    <<"store", s>> \in N \/ (Counted(K, stores[s]) /\ <<"store", s>> \notin G /\ stores'[s].bytes = stores[s].bytes)
BatchesStep(K, G, N) ==
  \A s \in Stores : Counted(K, stores[s])' /\ stores'[s].batched =>
    <<"batch", s>> \in N \/ (Counted(K, stores[s]) /\ stores[s].batched /\ <<"batch", s>> \notin G)
AttachedStep(K, G, N) ==
  \A s \in Stores, f \in Files : Counted(K, stores[s])' /\ Live(files[f])' /\ attached'[<<s, f>>] > 0 =>
    \/ <<"attached", s, f>> \in N
    \/ /\ Counted(K, stores[s]) /\ Live(files[f]) /\ <<"attached", s, f>> \notin G
       /\ attached'[<<s, f>>] = attached[<<s, f>>]
KeptStep(K, G, N) ==
  \A x \in Kept : Counted(K, kept[x])' =>
    <<"kept", x>> \in N \/ (Counted(K, kept[x]) /\ <<"kept", x>> \notin G /\ kept'[x].bytes = kept[x].bytes)
GeminiFilesStep(K, G, N) ==
  \A k \in K, n \in GeminiNames : Live(gfiles[<<k, n>>])' =>
    \/ <<"gfile", k, n>> \in N
    \/ Live(gfiles[<<k, n>>]) /\ <<"gfile", k, n>> \notin G /\ gfiles'[<<k, n>>].content = gfiles[<<k, n>>].content
GeminiUploadsStep(K, G, N) ==
  \A g \in GeminiUploads : Counted(K, guploads[g])' /\ guploads'[g].status = "pending" =>
    <<"gupload", g>> \in N \/ (Counted(K, guploads[g]) /\ guploads[g].status = "pending" /\ <<"gupload", g>> \notin G)

TableSteps(K, G, N) ==
  /\ FilesStep(K, G, N) /\ UploadsStep(K, G, N) /\ StoresStep(K, G, N) /\ BatchesStep(K, G, N)
  /\ AttachedStep(K, G, N) /\ KeptStep(K, G, N) /\ GeminiFilesStep(K, G, N) /\ GeminiUploadsStep(K, G, N)

RowsStep(K, G, N) ==
  /\ Retained(K)' \subseteq (Retained(K) \ G) \cup N
  /\ \A row \in Retained(K)' \ N : SizeOf(row)' = SizeOf(row)

LEMMA StepOfRows ==
  ASSUME NEW K \in SUBSET Keys, NEW G, NEW N, TableSteps(K, G, N)
  PROVE  RowsStep(K, G, N)
<1>1. RowsOf(K) /\ AllSizes
  BY TheRows DEF AllRowsOf
<1>2. RowsOf(K)' /\ AllSizes'
  BY TheRowsNext DEF AllRowsOf
<1> DEFINE Stays(row) == row \in Retained(K) /\ row \notin G /\ SizeOf(row)' = SizeOf(row)
<1>3. ASSUME NEW f \in Files, <<"file", f>> \in Retained(K)' PROVE <<"file", f>> \in N \/ Stays(<<"file", f>>)
  BY <1>1, <1>2, <1>3 DEF TableSteps, FilesStep, RowsOf, AllSizes
<1>4. ASSUME NEW u \in Uploads, <<"upload", u>> \in Retained(K)' PROVE <<"upload", u>> \in N \/ Stays(<<"upload", u>>)
  BY <1>1, <1>2, <1>4 DEF TableSteps, UploadsStep, RowsOf, AllSizes
<1>5. ASSUME NEW s \in Stores, <<"store", s>> \in Retained(K)' PROVE <<"store", s>> \in N \/ Stays(<<"store", s>>)
  BY <1>1, <1>2, <1>5 DEF TableSteps, StoresStep, RowsOf, AllSizes
<1>6. ASSUME NEW s \in Stores, <<"batch", s>> \in Retained(K)' PROVE <<"batch", s>> \in N \/ Stays(<<"batch", s>>)
  BY <1>1, <1>2, <1>6 DEF TableSteps, BatchesStep, RowsOf, AllSizes
<1>7. ASSUME NEW s \in Stores, NEW f \in Files, <<"attached", s, f>> \in Retained(K)'
      PROVE  <<"attached", s, f>> \in N \/ Stays(<<"attached", s, f>>)
  <2>1. Counted(K, stores[s])' /\ Live(files[f])' /\ attached'[<<s, f>>] > 0
    BY <1>2, <1>7 DEF RowsOf
  <2>2. \/ <<"attached", s, f>> \in N
        \/ /\ Counted(K, stores[s]) /\ Live(files[f]) /\ <<"attached", s, f>> \notin G
           /\ attached'[<<s, f>>] = attached[<<s, f>>]
    BY <2>1, Zenon DEF TableSteps, AttachedStep
  <2>3. <<"attached", s, f>> \in Retained(K) <=> Counted(K, stores[s]) /\ Live(files[f]) /\ attached[<<s, f>>] > 0
    BY <1>1 DEF RowsOf
  <2>4. SizeOf(<<"attached", s, f>>) = attached[<<s, f>>] /\ SizeOf(<<"attached", s, f>>)' = attached'[<<s, f>>]
    BY <1>1, <1>2 DEF AllSizes
  <2> QED BY <2>1, <2>2, <2>3, <2>4
<1>8. ASSUME NEW x \in Kept, <<"kept", x>> \in Retained(K)' PROVE <<"kept", x>> \in N \/ Stays(<<"kept", x>>)
  BY <1>1, <1>2, <1>8 DEF TableSteps, KeptStep, RowsOf, AllSizes
<1>9. ASSUME NEW k \in K, NEW n \in GeminiNames, <<"gfile", k, n>> \in Retained(K)'
      PROVE  <<"gfile", k, n>> \in N \/ Stays(<<"gfile", k, n>>)
  <2>1. Live(gfiles[<<k, n>>])' /\ k \in Keys
    BY <1>2, <1>9 DEF RowsOf
  <2>2. \/ <<"gfile", k, n>> \in N
        \/ /\ Live(gfiles[<<k, n>>]) /\ <<"gfile", k, n>> \notin G
           /\ gfiles'[<<k, n>>].content = gfiles[<<k, n>>].content
    BY <2>1, Zenon DEF TableSteps, GeminiFilesStep
  <2>3. <<"gfile", k, n>> \in Retained(K) <=> k \in K /\ Live(gfiles[<<k, n>>])
    BY <1>1, <2>1 DEF RowsOf
  <2>4. /\ SizeOf(<<"gfile", k, n>>) = Len(gfiles[<<k, n>>].content)
        /\ SizeOf(<<"gfile", k, n>>)' = Len(gfiles'[<<k, n>>].content)
    BY <1>1, <1>2 DEF AllSizes
  <2> QED BY <2>1, <2>2, <2>3, <2>4
<1>10. ASSUME NEW g \in GeminiUploads, <<"gupload", g>> \in Retained(K)'
       PROVE  <<"gupload", g>> \in N \/ Stays(<<"gupload", g>>)
  BY <1>1, <1>2, <1>10 DEF TableSteps, GeminiUploadsStep, RowsOf, AllSizes
<1>11. ASSUME NEW row \in Retained(K)' PROVE row \in N \/ Stays(row)
  <2>1. \/ \E f \in Files : row = <<"file", f>>
        \/ \E u \in Uploads : row = <<"upload", u>>
        \/ \E s \in Stores : row = <<"store", s>>
        \/ \E s \in Stores : row = <<"batch", s>>
        \/ \E s \in Stores, f \in Files : row = <<"attached", s, f>>
        \/ \E x \in Kept : row = <<"kept", x>>
        \/ \E k \in K, n \in GeminiNames : row = <<"gfile", k, n>>
        \/ \E g \in GeminiUploads : row = <<"gupload", g>>
    BY <1>2 DEF RowsOf
  <2> HIDE DEF Stays
  <2> QED BY <1>3, <1>4, <1>5, <1>6, <1>7, <1>8, <1>9, <1>10, <2>1
<1> QED BY <1>11 DEF RowsStep

\* Tables that only lose rows, however late it is.
Shrinks(table) == \A i \in DOMAIN table : table'[i] = table[i] \/ table'[i] = None
Foreign(G, tag) == \A row \in G : row[1] # tag

LEMMA LivesEarlier ==
  ASSUME NEW row, NEW t \in Nat, NEW u \in Nat, t <= u, row # None => row.expires = None \/ row.expires \in Nat, LiveAt(row, u)
  PROVE  LiveAt(row, t)
  BY DEF LiveAt

LEMMA FilesShrink ==
  ASSUME ResourcesTypeOK, NEW K \in SUBSET Keys, NEW G, NEW N, now' \in Nat, now <= now',
         Shrinks(files), Foreign(G, "file")
  PROVE  FilesStep(K, G, N)
<1> SUFFICES ASSUME NEW f \in Files, Counted(K, files[f])'
             PROVE  Counted(K, files[f]) /\ <<"file", f>> \notin G /\ files'[f].bytes = files[f].bytes
  BY DEF FilesStep
<1>1. files'[f] = files[f] /\ files[f] # None
  BY DEF ResourcesTypeOK, Shrinks, Counted, Live, LiveAt
<1>2. files[f].expires \in Nat
  BY <1>1 DEF ResourcesTypeOK, FileType
<1> QED BY <1>1, <1>2 DEF ResourcesTypeOK, Counted, Live, LiveAt, Foreign

LEMMA UploadsShrink ==
  ASSUME ResourcesTypeOK, NEW K \in SUBSET Keys, NEW G, NEW N, now' \in Nat, now <= now',
         Shrinks(uploads), Foreign(G, "upload")
  PROVE  UploadsStep(K, G, N)
<1> SUFFICES ASSUME NEW u \in Uploads, Counted(K, uploads[u])', uploads'[u].status = "pending"
             PROVE  /\ Counted(K, uploads[u]) /\ uploads[u].status = "pending" /\ <<"upload", u>> \notin G
                    /\ uploads'[u].bytes = uploads[u].bytes
  BY DEF UploadsStep
<1>1. uploads'[u] = uploads[u] /\ uploads[u] # None
  BY DEF ResourcesTypeOK, Shrinks, Counted, Live, LiveAt
<1>2. uploads[u].expires \in Nat
  BY <1>1 DEF ResourcesTypeOK, UploadType
<1> QED BY <1>1, <1>2 DEF ResourcesTypeOK, Counted, Live, LiveAt, Foreign

LEMMA StoresShrink ==
  ASSUME ResourcesTypeOK, NEW K \in SUBSET Keys, NEW G, NEW N, now' \in Nat, now <= now',
         Shrinks(stores), Foreign(G, "store"), Foreign(G, "batch")
  PROVE  StoresStep(K, G, N) /\ BatchesStep(K, G, N)
<1>1. ASSUME NEW s \in Stores, Counted(K, stores[s])'
      PROVE  /\ Counted(K, stores[s]) /\ stores'[s] = stores[s]
             /\ <<"store", s>> \notin G /\ <<"batch", s>> \notin G
  <2>1. stores'[s] = stores[s] /\ stores[s] # None
    BY <1>1 DEF ResourcesTypeOK, Shrinks, Counted, Live, LiveAt
  <2>2. stores[s].expires \in Nat \/ stores[s].expires = None
    BY <2>1 DEF ResourcesTypeOK, StoreType
  <2> QED BY <1>1, <2>1, <2>2 DEF ResourcesTypeOK, Counted, Live, LiveAt, Foreign
<1> QED BY <1>1 DEF StoresStep, BatchesStep

LEMMA AttachedShrink ==
  ASSUME ResourcesTypeOK, NEW K \in SUBSET Keys, NEW G, NEW N, now' \in Nat, now <= now',
         Shrinks(stores), Shrinks(files), Foreign(G, "attached"),
         \A s \in Stores, f \in Files : attached'[<<s, f>>] \in {attached[<<s, f>>], 0}
  PROVE  AttachedStep(K, G, N)
<1> SUFFICES ASSUME NEW s \in Stores, NEW f \in Files,
                    Counted(K, stores[s])', Live(files[f])', attached'[<<s, f>>] > 0
             PROVE  /\ Counted(K, stores[s]) /\ Live(files[f]) /\ <<"attached", s, f>> \notin G
                    /\ attached'[<<s, f>>] = attached[<<s, f>>]
  BY DEF AttachedStep
<1>1. stores'[s] = stores[s] /\ stores[s] # None /\ files'[f] = files[f] /\ files[f] # None
  BY DEF ResourcesTypeOK, Shrinks, Counted, Live, LiveAt
<1>2. (stores[s].expires \in Nat \/ stores[s].expires = None) /\ files[f].expires \in Nat
  BY <1>1 DEF ResourcesTypeOK, StoreType, FileType
<1>3. Counted(K, stores[s]) /\ Live(files[f])
  BY <1>1, <1>2 DEF ResourcesTypeOK, Counted, Live, LiveAt
<1>4. attached'[<<s, f>>] = attached[<<s, f>>]
  <2>1. attached'[<<s, f>>] # 0
    OBVIOUS
  <2> QED BY <2>1
<1>5. <<"attached", s, f>> \notin G
  BY DEF Foreign
<1> QED BY <1>3, <1>4, <1>5

LEMMA KeptShrink ==
  ASSUME ResourcesTypeOK, NEW K \in SUBSET Keys, NEW G, NEW N, now' \in Nat, now <= now',
         Shrinks(kept), Foreign(G, "kept")
  PROVE  KeptStep(K, G, N)
<1> SUFFICES ASSUME NEW x \in Kept, Counted(K, kept[x])'
             PROVE  Counted(K, kept[x]) /\ <<"kept", x>> \notin G /\ kept'[x].bytes = kept[x].bytes
  BY DEF KeptStep
<1>1. kept'[x] = kept[x] /\ kept[x] # None
  BY DEF ResourcesTypeOK, Shrinks, Counted, Live, LiveAt
<1>2. kept[x].expires \in Nat
  BY <1>1 DEF ResourcesTypeOK, FileType
<1> QED BY <1>1, <1>2 DEF ResourcesTypeOK, Counted, Live, LiveAt, Foreign

\* The rows gone, if they are Gemini Files, are gone from the table.
LEMMA GeminiFilesShrink ==
  ASSUME ResourcesTypeOK, NEW K \in SUBSET Keys, NEW G, NEW N, now' \in Nat, now <= now', Shrinks(gfiles),
         \A k \in Keys, n \in GeminiNames : <<"gfile", k, n>> \in G => gfiles'[<<k, n>>] = None
  PROVE  GeminiFilesStep(K, G, N)
<1> SUFFICES ASSUME NEW k \in K, NEW n \in GeminiNames, Live(gfiles[<<k, n>>])'
             PROVE  /\ Live(gfiles[<<k, n>>]) /\ <<"gfile", k, n>> \notin G
                    /\ gfiles'[<<k, n>>].content = gfiles[<<k, n>>].content
  BY DEF GeminiFilesStep
<1>1. <<k, n>> \in DOMAIN gfiles /\ k \in Keys
  BY DEF ResourcesTypeOK
<1>2. gfiles'[<<k, n>>] = gfiles[<<k, n>>] /\ gfiles[<<k, n>>] # None
  BY <1>1 DEF Shrinks, Live, LiveAt
<1>3. gfiles[<<k, n>>] \in GeminiFileType
  BY <1>1, <1>2 DEF ResourcesTypeOK
<1>4. gfiles[<<k, n>>].expires \in Nat
  BY <1>3 DEF GeminiFileType
<1> QED BY <1>1, <1>2, <1>4 DEF ResourcesTypeOK, Live, LiveAt

LEMMA GeminiUploadsShrink ==
  ASSUME ResourcesTypeOK, NEW K \in SUBSET Keys, NEW G, NEW N, now' \in Nat, now <= now',
         Shrinks(guploads), Foreign(G, "gupload")
  PROVE  GeminiUploadsStep(K, G, N)
<1> SUFFICES ASSUME NEW g \in GeminiUploads, Counted(K, guploads[g])', guploads'[g].status = "pending"
             PROVE  Counted(K, guploads[g]) /\ guploads[g].status = "pending" /\ <<"gupload", g>> \notin G
  BY DEF GeminiUploadsStep
<1>1. guploads'[g] = guploads[g] /\ guploads[g] # None
  BY DEF ResourcesTypeOK, Shrinks, Counted, Live, LiveAt
<1>2. guploads[g].expires \in Nat
  BY <1>1 DEF ResourcesTypeOK, GeminiUploadType
<1> QED BY <1>1, <1>2 DEF ResourcesTypeOK, Counted, Live, LiveAt, Foreign
\* Tables a step leaves alone.
LEMMA IdleTables ==
  ASSUME ResourcesTypeOK, now' = now, NEW K \in SUBSET Keys, NEW G, NEW N
  PROVE  /\ files' = files /\ Foreign(G, "file") => FilesStep(K, G, N)
         /\ uploads' = uploads /\ Foreign(G, "upload") => UploadsStep(K, G, N)
         /\ stores' = stores /\ Foreign(G, "store") /\ Foreign(G, "batch") => StoresStep(K, G, N) /\ BatchesStep(K, G, N)
         /\ UNCHANGED <<stores, files, attached>> /\ Foreign(G, "attached") => AttachedStep(K, G, N)
         /\ kept' = kept /\ Foreign(G, "kept") => KeptStep(K, G, N)
         /\ gfiles' = gfiles /\ Foreign(G, "gfile") => GeminiFilesStep(K, G, N)
         /\ guploads' = guploads /\ Foreign(G, "gupload") => GeminiUploadsStep(K, G, N)
<1>1. now' \in Nat /\ now <= now'
  BY DEF ResourcesTypeOK
<1>2. ASSUME files' = files, Foreign(G, "file") PROVE FilesStep(K, G, N)
  <2>1. Shrinks(files)
    BY <1>2 DEF Shrinks
  <2> QED BY <1>1, <1>2, <2>1, FilesShrink
<1>3. ASSUME uploads' = uploads, Foreign(G, "upload") PROVE UploadsStep(K, G, N)
  <2>1. Shrinks(uploads)
    BY <1>3 DEF Shrinks
  <2> QED BY <1>1, <1>3, <2>1, UploadsShrink
<1>4. ASSUME stores' = stores, Foreign(G, "store"), Foreign(G, "batch") PROVE StoresStep(K, G, N) /\ BatchesStep(K, G, N)
  <2>1. Shrinks(stores)
    BY <1>4 DEF Shrinks
  <2> QED BY <1>1, <1>4, <2>1, StoresShrink
<1>5. ASSUME UNCHANGED <<stores, files, attached>>, Foreign(G, "attached") PROVE AttachedStep(K, G, N)
  <2>1. Shrinks(stores) /\ Shrinks(files)
    BY <1>5 DEF Shrinks
  <2>2. \A s \in Stores, f \in Files : attached'[<<s, f>>] \in {attached[<<s, f>>], 0}
    BY <1>5
  <2> QED BY <1>1, <1>5, <2>1, <2>2, AttachedShrink
<1>6. ASSUME kept' = kept, Foreign(G, "kept") PROVE KeptStep(K, G, N)
  <2>1. Shrinks(kept)
    BY <1>6 DEF Shrinks
  <2> QED BY <1>1, <1>6, <2>1, KeptShrink
<1>7. ASSUME gfiles' = gfiles, Foreign(G, "gfile") PROVE GeminiFilesStep(K, G, N)
  <2>1. Shrinks(gfiles)
    BY <1>7 DEF Shrinks
  <2>2. \A k \in Keys, n \in GeminiNames : <<"gfile", k, n>> \notin G
    BY <1>7 DEF Foreign
  <2> QED BY <1>1, <1>7, <2>1, <2>2, GeminiFilesShrink
<1>8. ASSUME guploads' = guploads, Foreign(G, "gupload") PROVE GeminiUploadsStep(K, G, N)
  <2>1. Shrinks(guploads)
    BY <1>8 DEF Shrinks
  <2> QED BY <1>1, <1>8, <2>1, GeminiUploadsShrink
<1> QED BY <1>2, <1>3, <1>4, <1>5, <1>6, <1>7, <1>8

\* No row goes to make room.
LEMMA NoneForeign == \A tag : Foreign({}, tag)
  BY DEF Foreign

-----------------------------------------------------------------------------
(* The three budgets. *)

\* The gateway's, an owner's and a key's.
IsBudget(K, maxRows, maxBytes) ==
  \/ K = Keys /\ maxRows = AllRows /\ maxBytes = AllBytes
  \/ \E j \in Keys : K = KeysOfOwner(j) /\ maxRows = OwnerRows /\ maxBytes = OwnerBytes
  \/ \E j \in Keys : K = {j} /\ maxRows = KeyRows /\ maxBytes = KeyBytes

LEMMA Budgets ==
  ASSUME NEW K, NEW R, NEW B, IsBudget(K, R, B)
  PROVE  K \in SUBSET Keys /\ R \in Int /\ B \in Int
  BY ResourcesAssumption DEF IsBudget, KeysOfOwner

\* Room is room in each budget of the key.
LEMMA RoomInBudget ==
  ASSUME NEW K, NEW R, NEW B, IsBudget(K, R, B), NEW k \in K, NEW gone, NEW rows, NEW bytes,
         HasRoomWithout(gone, k, rows, bytes)
  PROVE  Within(Retained(K) \ gone, rows, bytes, R, B)
<1>1. CASE K = Keys /\ R = AllRows /\ B = AllBytes
  BY <1>1 DEF HasRoomWithout
<1>2. ASSUME NEW j \in Keys, K = KeysOfOwner(j), R = OwnerRows, B = OwnerBytes
      PROVE  Within(Retained(K) \ gone, rows, bytes, R, B)
  <2>1. KeysOfOwner(k) = KeysOfOwner(j)
    BY <1>2 DEF KeysOfOwner
  <2> QED BY <1>2, <2>1 DEF HasRoomWithout
<1>3. ASSUME NEW j \in Keys, K = {j}, R = KeyRows, B = KeyBytes
      PROVE  Within(Retained(K) \ gone, rows, bytes, R, B)
  BY <1>3 DEF HasRoomWithout
<1> QED BY <1>1, <1>2, <1>3 DEF IsBudget

LEMMA RoomInBudgetAsIs ==
  ASSUME NEW K, NEW R, NEW B, IsBudget(K, R, B), NEW k \in K, NEW rows, NEW bytes, HasRoom(k, rows, bytes)
  PROVE  Within(Retained(K), rows, bytes, R, B)
<1>1. Within(Retained(K) \ {}, rows, bytes, R, B)
  BY RoomInBudget DEF HasRoom
<1>2. Retained(K) \ {} = Retained(K)
  OBVIOUS
<1> QED BY <1>1, <1>2

AllFit == \A K \in SUBSET Keys : \A R, B \in Nat : IsBudget(K, R, B) => InBudget(K, R, B)

LEMMA LimitsAreBudgets == WithinLimits <=> AllFit
<1>1. ASSUME WithinLimits PROVE AllFit
  BY <1>1 DEF WithinLimits, AllFit, IsBudget, InBudget
<1>2. ASSUME AllFit PROVE WithinLimits
  <2>1. IsBudget(Keys, AllRows, AllBytes)
    BY DEF IsBudget
  <2>2. ASSUME NEW j \in Keys
        PROVE  IsBudget(KeysOfOwner(j), OwnerRows, OwnerBytes) /\ IsBudget({j}, KeyRows, KeyBytes)
    BY DEF IsBudget
  <2>3. \A j \in Keys : KeysOfOwner(j) \in SUBSET Keys /\ {j} \in SUBSET Keys
    BY DEF KeysOfOwner
  <2>4. Keys \in SUBSET Keys /\ {KeyRows, KeyBytes, OwnerRows, OwnerBytes, AllRows, AllBytes} \subseteq Nat
    BY ResourcesAssumption
  <2>5. InBudget(Keys, AllRows, AllBytes)
    BY <1>2, <2>1, <2>4, Zenon DEF AllFit
  <2>6. ASSUME NEW j \in Keys
        PROVE  InBudget(KeysOfOwner(j), OwnerRows, OwnerBytes) /\ InBudget({j}, KeyRows, KeyBytes)
    <3>1. OwnerRows \in Nat /\ OwnerBytes \in Nat /\ KeyRows \in Nat /\ KeyBytes \in Nat
      BY <2>4
    <3> QED BY <1>2, <2>2, <2>3, <3>1, Zenon DEF AllFit
  <2> QED BY <2>5, <2>6 DEF WithinLimits, InBudget
<1> QED BY <1>1, <1>2

LEMMA LimitsAreBudgetsNext == WithinLimits' <=> AllFit'
  BY LimitsAreBudgets, PTL
-----------------------------------------------------------------------------
(* Every action keeps every budget. *)

LEMMA FewerFit ==
  ASSUME ResourcesTypeOK, ResourcesTypeOK', NEW K, NEW R, NEW B, IsBudget(K, R, B), InBudget(K, R, B),
         TableSteps(K, {}, {})
  PROVE  InBudget(K, R, B)'
<1>1. K \in SUBSET Keys /\ R \in Int /\ B \in Int
  BY Budgets
<1>2. RowsStep(K, {}, {})
  BY <1>1, StepOfRows
<1>3. Retained(K)' \subseteq Retained(K) /\ \A row \in Retained(K)' : SizeOf(row)' = SizeOf(row)
  BY <1>2 DEF RowsStep
<1> QED BY <1>1, <1>3, FewerRows

\* Deletions, the clock and CleanupStale.
LEMMA ShrinkFit ==
  ASSUME ResourcesTypeOK, ResourcesTypeOK', NEW K, NEW R, NEW B, IsBudget(K, R, B), InBudget(K, R, B), now <= now',
         Shrinks(files), Shrinks(uploads), Shrinks(stores), Shrinks(kept), Shrinks(gfiles), Shrinks(guploads),
         \A s \in Stores, f \in Files : attached'[<<s, f>>] \in {attached[<<s, f>>], 0}
  PROVE  InBudget(K, R, B)'
<1>1. K \in SUBSET Keys /\ now' \in Nat
  BY Budgets DEF ResourcesTypeOK
<1>2. FilesStep(K, {}, {})
  BY <1>1, NoneForeign, FilesShrink
<1>3. UploadsStep(K, {}, {})
  BY <1>1, NoneForeign, UploadsShrink
<1>4. StoresStep(K, {}, {}) /\ BatchesStep(K, {}, {})
  BY <1>1, NoneForeign, StoresShrink
<1>5. AttachedStep(K, {}, {})
  BY <1>1, NoneForeign, AttachedShrink
<1>6. KeptStep(K, {}, {})
  BY <1>1, NoneForeign, KeptShrink
<1>7. GeminiFilesStep(K, {}, {})
  <2>1. \A k \in Keys, n \in GeminiNames : <<"gfile", k, n>> \in {} => gfiles'[<<k, n>>] = None
    OBVIOUS
  <2> QED BY <1>1, <2>1, GeminiFilesShrink
<1>8. GeminiUploadsStep(K, {}, {})
  BY <1>1, NoneForeign, GeminiUploadsShrink
<1>9. TableSteps(K, {}, {})
  BY <1>2, <1>3, <1>4, <1>5, <1>6, <1>7, <1>8 DEF TableSteps
<1> QED BY <1>9, FewerFit

\* Rows that come where HasRoomWithout said there is room.
LEMMA OneMoreFits ==
  ASSUME ResourcesTypeOK, ResourcesTypeOK', NEW K, NEW R, NEW B, IsBudget(K, R, B), NEW k \in K,
         NEW gone, NEW x, NEW bytes \in Nat, HasRoomWithout(gone, k, 1, bytes),
         TableSteps(K, gone, {x}), SizeOf(x)' <= bytes
  PROVE  InBudget(K, R, B)'
<1>1. K \in SUBSET Keys /\ R \in Int /\ B \in Int
  BY Budgets
<1>2. RowsStep(K, gone, {x})
  BY <1>1, StepOfRows
<1>3. Within(Retained(K) \ gone, 1, bytes, R, B)
  BY RoomInBudget
<1>4. /\ Retained(K)' \subseteq (Retained(K) \ gone) \cup {x}
      /\ \A y \in Retained(K)' \ {x} : SizeOf(y)' = SizeOf(y)
      /\ x \in Retained(K)' => SizeOf(x)' <= bytes
  BY <1>2 DEF RowsStep
<1> QED BY <1>1, <1>3, <1>4, OneMoreRow

\* A row that takes another one's place, or grows where HasRoom said there is room.
LEMMA TradeFits ==
  ASSUME ResourcesTypeOK, ResourcesTypeOK', NEW K, NEW R, NEW B, IsBudget(K, R, B), InBudget(K, R, B), NEW k \in K,
         NEW x \in Retained(K), NEW y, NEW size \in Nat, SizeOf(x) \in Nat,
         size > SizeOf(x) => HasRoom(k, 0, size - SizeOf(x)),
         TableSteps(K, {x}, {y}), SizeOf(y)' <= size
  PROVE  InBudget(K, R, B)'
<1> DEFINE growth == IF size > SizeOf(x) THEN size - SizeOf(x) ELSE 0
<1>1. K \in SUBSET Keys /\ R \in Int /\ B \in Int
  BY Budgets
<1>2. RowsStep(K, {x}, {y})
  BY <1>1, StepOfRows
<1>3. Within(Retained(K), 0, growth, R, B)
  <2>1. CASE size > SizeOf(x)
    <3>1. HasRoom(k, 0, size - SizeOf(x))
      BY <2>1
    <3>2. Within(Retained(K), 0, size - SizeOf(x), R, B)
      BY <3>1, RoomInBudgetAsIs
    <3> QED BY <2>1, <3>2
  <2>2. CASE ~(size > SizeOf(x))
    BY <2>2 DEF InBudget
  <2> QED BY <2>1, <2>2
<1>4. growth \in Int /\ 0 <= SizeOf(x) + growth /\ size <= SizeOf(x) + growth
  OBVIOUS
<1>5. /\ Retained(K)' \subseteq (Retained(K) \ {x}) \cup {y}
      /\ \A z \in Retained(K)' \ {y} : SizeOf(z)' = SizeOf(z)
  BY <1>2 DEF RowsStep
<1>6. y \in Retained(K)' => SizeOf(y)' <= SizeOf(x) + growth
  <2> SUFFICES ASSUME y \in Retained(K)' PROVE SizeOf(y)' <= SizeOf(x) + growth
    OBVIOUS
  <2>1. Measured(K)'
    BY <1>1, MeasuresNext DEF AllMeasured
  <2>2. SizeOf(y)' \in Nat
    BY <2>1 DEF Measured
  <2> HIDE DEF growth
  <2> QED BY <1>4, <2>2
<1> HIDE DEF growth
<1> QED BY <1>1, <1>3, <1>4, <1>5, <1>6, TradedRow

LEMMA ManyMoreFit ==
  ASSUME ResourcesTypeOK, ResourcesTypeOK', NEW K, NEW R, NEW B, IsBudget(K, R, B), NEW k \in K,
         NEW N, IsFiniteSet(N), NEW n \in Nat, Cardinality(N) <= n, HasRoom(k, n, n),
         TableSteps(K, {}, N), \A x \in N : SizeOf(x)' = 1
  PROVE  InBudget(K, R, B)'
<1>1. K \in SUBSET Keys /\ R \in Int /\ B \in Int
  BY Budgets
<1>2. RowsStep(K, {}, N)
  BY <1>1, StepOfRows
<1>3. Within(Retained(K), n, n, R, B)
  BY RoomInBudgetAsIs
<1>4. /\ Retained(K)' \subseteq Retained(K) \cup N
      /\ \A y \in Retained(K)' \ N : SizeOf(y)' = SizeOf(y)
      /\ \A x \in N \cap Retained(K)' : SizeOf(x)' = 1
  BY <1>2 DEF RowsStep
<1> QED BY <1>1, <1>3, <1>4, MoreRows
\* A File comes: nothing is attached to it yet.
LEMMA NewFileSteps ==
  ASSUME ResourcesInv, NEW K \in SUBSET Keys, NEW G, NEW N, NEW k \in Keys, NEW f \in Files, NEW bytes,
         files[f] = None, files' = [files EXCEPT ![f] = NewFile(k, bytes)], UNCHANGED <<now, stores, attached>>,
         k \in K => <<"file", f>> \in N, Foreign(G, "file"), Foreign(G, "attached")
  PROVE  FilesStep(K, G, N) /\ AttachedStep(K, G, N)
<1>1. /\ files'[f] = NewFile(k, bytes) /\ \A h \in Files \ {f} : files'[h] = files[h]
  BY DEF ResourcesInv, ResourcesTypeOK
<1>2. ASSUME NEW h \in Files, Counted(K, files[h])'
      PROVE  <<"file", h>> \in N \/ (Counted(K, files[h]) /\ <<"file", h>> \notin G /\ files'[h].bytes = files[h].bytes)
  <2>1. CASE h = f
    BY <1>1, <1>2, <2>1 DEF Counted, NewFile
  <2>2. CASE h # f
    BY <1>1, <1>2, <2>2 DEF Counted, Live, LiveAt, Foreign
  <2> QED BY <2>1, <2>2
<1>3. ASSUME NEW s \in Stores, NEW h \in Files, Counted(K, stores[s])', Live(files[h])', attached'[<<s, h>>] > 0
      PROVE  /\ Counted(K, stores[s]) /\ Live(files[h]) /\ <<"attached", s, h>> \notin G
             /\ attached'[<<s, h>>] = attached[<<s, h>>]
  <2>1. files[h] # None
    BY <1>3 DEF ResourcesInv, AttachedOK
  <2>2. files'[h] = files[h]
    BY <1>1, <2>1
  <2> QED BY <1>3, <2>2 DEF Counted, Live, LiveAt, Foreign
<1> QED BY <1>2, <1>3 DEF FilesStep, AttachedStep

LEMMA CreateFileFits ==
  ASSUME ResourcesInv, ResourcesTypeOK', NEW K, NEW R, NEW B, IsBudget(K, R, B), InBudget(K, R, B),
         NEW k \in Keys, NEW f \in Files, NEW bytes \in Nat, CreateFile(k, f, bytes)
  PROVE  InBudget(K, R, B)'
<1>1. K \in SUBSET Keys /\ ResourcesTypeOK
  BY Budgets DEF ResourcesInv
<1>2. ASSUME NEW N, k \in K => <<"file", f>> \in N PROVE TableSteps(K, {}, N)
  <2>1. FilesStep(K, {}, N) /\ AttachedStep(K, {}, N)
    BY <1>1, <1>2, NoneForeign, NewFileSteps DEF CreateFile
  <2> QED BY <1>1, <2>1, NoneForeign, IdleTables DEF CreateFile, TableSteps
<1>3. CASE k \in K
  <2>1. TableSteps(K, {}, {<<"file", f>>})
    BY <1>2
  <2>2. SizeOf(<<"file", f>>)' = bytes
    <3>1. SizeOf(<<"file", f>>)' = files'[f].bytes
      BY TheRowsNext DEF AllSizes
    <3> QED BY <1>1, <3>1 DEF CreateFile, NewFile, ResourcesTypeOK
  <2>3. HasRoomWithout({}, k, 1, bytes)
    BY DEF CreateFile, HasRoom
  <2> QED BY <1>1, <1>3, <2>1, <2>2, <2>3, OneMoreFits
<1>4. CASE k \notin K
  BY <1>1, <1>2, <1>4, FewerFit
<1> QED BY <1>3, <1>4

LEMMA StoreRowFits ==
  ASSUME ResourcesInv, ResourcesTypeOK', NEW K, NEW R, NEW B, IsBudget(K, R, B), InBudget(K, R, B),
         NEW k \in Keys, NEW x \in Kept, NEW bytes \in Nat, StoreRow(k, x, bytes)
  PROVE  InBudget(K, R, B)'
<1>1. K \in SUBSET Keys /\ ResourcesTypeOK
  BY Budgets DEF ResourcesInv
<1>2. ASSUME NEW N, k \in K => <<"kept", x>> \in N PROVE TableSteps(K, {}, N)
  <2>1. KeptStep(K, {}, N)
    <3> SUFFICES ASSUME NEW y \in Kept, Counted(K, kept[y])'
                 PROVE  <<"kept", y>> \in N \/ (Counted(K, kept[y]) /\ kept'[y].bytes = kept[y].bytes)
      BY DEF KeptStep
    <3>1. CASE y = x
      BY <1>1, <1>2, <3>1 DEF StoreRow, Counted, NewFile, ResourcesTypeOK
    <3>2. CASE y # x
      BY <1>1, <3>2 DEF StoreRow, Counted, Live, LiveAt, ResourcesTypeOK
    <3> QED BY <3>1, <3>2
  <2> QED BY <1>1, <2>1, NoneForeign, IdleTables DEF StoreRow, TableSteps
<1>3. CASE k \in K
  <2>1. TableSteps(K, {}, {<<"kept", x>>})
    BY <1>2
  <2>2. SizeOf(<<"kept", x>>)' = bytes
    <3>1. SizeOf(<<"kept", x>>)' = kept'[x].bytes
      BY TheRowsNext DEF AllSizes
    <3> QED BY <1>1, <3>1 DEF StoreRow, NewFile, ResourcesTypeOK
  <2>3. HasRoomWithout({}, k, 1, bytes)
    BY DEF StoreRow, HasRoom
  <2> QED BY <1>1, <1>3, <2>1, <2>2, <2>3, OneMoreFits
<1>4. CASE k \notin K
  BY <1>1, <1>2, <1>4, FewerFit
<1> QED BY <1>3, <1>4

LEMMA UpdateChatFits ==
  ASSUME ResourcesInv, ResourcesTypeOK', NEW K, NEW R, NEW B, IsBudget(K, R, B), InBudget(K, R, B),
         NEW k \in Keys, NEW x \in Kept, NEW bytes \in Nat, UpdateChat(k, x, bytes)
  PROVE  InBudget(K, R, B)'
<1>1. K \in SUBSET Keys /\ ResourcesTypeOK
  BY Budgets DEF ResourcesInv
<1>2. /\ kept[x] \in FileType /\ kept[x].key = k /\ Live(kept[x])
      /\ kept'[x] = [kept[x] EXCEPT !.bytes = bytes] /\ \A y \in Kept \ {x} : kept'[y] = kept[y]
  BY <1>1 DEF UpdateChat, Live, LiveAt, ResourcesTypeOK
<1>3. kept'[x].key = k /\ kept'[x].bytes = bytes /\ kept[x].bytes \in Nat
  BY <1>2 DEF FileType
<1>4. ASSUME NEW G, NEW N, G \subseteq {<<"kept", x>>}, k \in K => <<"kept", x>> \in N PROVE TableSteps(K, G, N)
  <2>1. KeptStep(K, G, N)
    <3> SUFFICES ASSUME NEW y \in Kept, Counted(K, kept[y])'
                 PROVE  <<"kept", y>> \in N \/ (Counted(K, kept[y]) /\ <<"kept", y>> \notin G /\ kept'[y].bytes = kept[y].bytes)
      BY DEF KeptStep
    <3>1. CASE y = x
      BY <1>3, <1>4, <3>1 DEF Counted
    <3>2. CASE y # x
      <4>1. kept'[y] = kept[y] /\ now' = now
        BY <1>2, <3>2 DEF UpdateChat
      <4> QED BY <1>4, <3>2, <4>1 DEF Counted, Live, LiveAt
    <3> QED BY <3>1, <3>2
  <2>2. /\ Foreign(G, "file") /\ Foreign(G, "upload") /\ Foreign(G, "store") /\ Foreign(G, "batch")
        /\ Foreign(G, "attached") /\ Foreign(G, "gfile") /\ Foreign(G, "gupload")
    BY <1>4 DEF Foreign
  <2> QED BY <1>1, <2>1, <2>2, IdleTables DEF UpdateChat, TableSteps
<1>5. CASE k \in K
  <2>1. TableSteps(K, {<<"kept", x>>}, {<<"kept", x>>})
    BY <1>4
  <2>2. SizeOf(<<"kept", x>>)' = bytes /\ SizeOf(<<"kept", x>>) = kept[x].bytes
    BY <1>3, TheRows, TheRowsNext DEF AllSizes
  <2>3. <<"kept", x>> \in Retained(K)
    BY <1>1, <1>2, <1>5, TheRows DEF AllRowsOf, RowsOf, Counted
  <2>4. bytes > SizeOf(<<"kept", x>>) => HasRoom(k, 0, bytes - SizeOf(<<"kept", x>>))
    BY <2>2 DEF UpdateChat
  <2>5. SizeOf(<<"kept", x>>) \in Nat /\ SizeOf(<<"kept", x>>)' <= bytes
    BY <1>3, <2>2
  <2> QED BY <1>1, <1>5, <2>1, <2>3, <2>4, <2>5, TradeFits
<1>6. CASE k \notin K
  <2>1. TableSteps(K, {}, {})
    BY <1>4, <1>6
  <2> QED BY <1>1, <2>1, FewerFit
<1> QED BY <1>5, <1>6
\* One Upload changes, or comes.
LEMMA UploadSteps ==
  ASSUME ResourcesTypeOK, NEW K \in SUBSET Keys, NEW G, NEW N, NEW u \in Uploads, now' = now,
         \A v \in Uploads \ {u} : uploads'[v] = uploads[v], G \subseteq {<<"upload", u>>},
         Counted(K, uploads[u])' /\ uploads'[u].status = "pending" =>
           \/ <<"upload", u>> \in N
           \/ /\ Counted(K, uploads[u]) /\ uploads[u].status = "pending" /\ <<"upload", u>> \notin G
              /\ uploads'[u].bytes = uploads[u].bytes
  PROVE  /\ UploadsStep(K, G, N)
         /\ Foreign(G, "file") /\ Foreign(G, "kept") /\ Foreign(G, "store") /\ Foreign(G, "batch")
         /\ Foreign(G, "attached") /\ Foreign(G, "gfile") /\ Foreign(G, "gupload")
<1>1. ASSUME NEW v \in Uploads, Counted(K, uploads[v])', uploads'[v].status = "pending"
      PROVE  \/ <<"upload", v>> \in N
             \/ /\ Counted(K, uploads[v]) /\ uploads[v].status = "pending" /\ <<"upload", v>> \notin G
                /\ uploads'[v].bytes = uploads[v].bytes
  <2>1. CASE v = u
    BY <1>1, <2>1
  <2>2. CASE v # u
    <3>1. <<"upload", v>> \notin G
      BY <2>2
    <3>2. uploads'[v] = uploads[v]
      BY <2>2
    <3> QED BY <1>1, <3>1, <3>2 DEF Counted, Live, LiveAt
  <2> QED BY <2>1, <2>2
<1>2. UploadsStep(K, G, N)
  BY <1>1 DEF UploadsStep
<1> QED BY <1>2 DEF Foreign

LEMMA CreateUploadFits ==
  ASSUME ResourcesInv, ResourcesTypeOK', NEW K, NEW R, NEW B, IsBudget(K, R, B), InBudget(K, R, B),
         NEW k \in Keys, NEW u \in Uploads, NEW bytes \in Nat, CreateUpload(k, u, bytes)
  PROVE  InBudget(K, R, B)'
<1>1. K \in SUBSET Keys /\ ResourcesTypeOK
  BY Budgets DEF ResourcesInv
<1>2. /\ uploads'[u].key = k /\ uploads'[u].bytes = bytes
      /\ \A v \in Uploads \ {u} : uploads'[v] = uploads[v]
  BY <1>1 DEF CreateUpload, ResourcesTypeOK
<1>3. ASSUME NEW N, k \in K => <<"upload", u>> \in N PROVE TableSteps(K, {}, N)
  <2>1. UploadsStep(K, {}, N)
    <3>1. Counted(K, uploads[u])' => <<"upload", u>> \in N
      BY <1>2, <1>3 DEF Counted
    <3> QED BY <1>1, <1>2, <3>1, UploadSteps DEF CreateUpload
  <2> QED BY <1>1, <2>1, NoneForeign, IdleTables DEF CreateUpload, TableSteps
<1>4. CASE k \in K
  <2>1. TableSteps(K, {}, {<<"upload", u>>})
    BY <1>3
  <2>2. SizeOf(<<"upload", u>>)' = bytes
    BY <1>2, TheRowsNext DEF AllSizes
  <2>3. HasRoomWithout({}, k, 1, bytes)
    BY DEF CreateUpload, HasRoom
  <2> QED BY <1>1, <1>4, <2>1, <2>2, <2>3, OneMoreFits
<1>5. CASE k \notin K
  BY <1>1, <1>3, <1>5, FewerFit
<1> QED BY <1>4, <1>5

LEMMA AddPartFits ==
  ASSUME ResourcesInv, ResourcesTypeOK', NEW K, NEW R, NEW B, IsBudget(K, R, B), InBudget(K, R, B),
         NEW k \in Keys, NEW u \in Uploads, NEW bytes \in Nat, AddPart(k, u, bytes)
  PROVE  InBudget(K, R, B)'
<1>1. K \in SUBSET Keys /\ ResourcesTypeOK
  BY Budgets DEF ResourcesInv
<1>2. /\ uploads[u] \in UploadType /\ uploads'[u] = [uploads[u] EXCEPT !.parts = Append(@, bytes)]
      /\ \A v \in Uploads \ {u} : uploads'[v] = uploads[v]
  BY <1>1 DEF AddPart, Accepts, Live, LiveAt, ResourcesTypeOK
<1>3. Counted(K, uploads[u])' => /\ Counted(K, uploads[u]) /\ uploads[u].status = "pending"
                                 /\ uploads'[u].bytes = uploads[u].bytes
  BY <1>2 DEF AddPart, Accepts, Counted, Live, LiveAt, UploadType
<1>4. UploadsStep(K, {}, {})
  BY <1>1, <1>2, <1>3, UploadSteps DEF AddPart
<1>5. TableSteps(K, {}, {})
  BY <1>1, <1>4, NoneForeign, IdleTables DEF AddPart, TableSteps
<1> QED BY <1>1, <1>5, FewerFit

LEMMA CancelUploadFits ==
  ASSUME ResourcesInv, ResourcesTypeOK', NEW K, NEW R, NEW B, IsBudget(K, R, B), InBudget(K, R, B),
         NEW k \in Keys, NEW u \in Uploads, CancelUpload(k, u)
  PROVE  InBudget(K, R, B)'
<1>1. K \in SUBSET Keys /\ ResourcesTypeOK
  BY Budgets DEF ResourcesInv
<1>2. /\ uploads[u] \in UploadType
      /\ uploads'[u] = [uploads[u] EXCEPT !.status = "cancelled", !.parts = <<>>]
      /\ \A v \in Uploads \ {u} : uploads'[v] = uploads[v]
  BY <1>1 DEF CancelUpload, Accepts, Live, LiveAt, ResourcesTypeOK
<1>3. uploads'[u].status = "cancelled"
  BY <1>2 DEF UploadType
<1>4. UploadsStep(K, {}, {})
  BY <1>1, <1>2, <1>3, UploadSteps DEF CancelUpload
<1>5. TableSteps(K, {}, {})
  BY <1>1, <1>4, NoneForeign, IdleTables DEF CancelUpload, TableSteps
<1> QED BY <1>1, <1>5, FewerFit

\* The declared size of the Upload becomes the File's.
LEMMA CompleteUploadFits ==
  ASSUME ResourcesInv, ResourcesTypeOK', NEW K, NEW R, NEW B, IsBudget(K, R, B), InBudget(K, R, B),
         NEW k \in Keys, NEW u \in Uploads, NEW f \in Files, CompleteUpload(k, u, f)
  PROVE  InBudget(K, R, B)'
<1>1. K \in SUBSET Keys /\ ResourcesTypeOK
  BY Budgets DEF ResourcesInv
<1>2. /\ uploads[u] \in UploadType /\ uploads[u].key = k /\ Live(uploads[u]) /\ uploads[u].status = "pending"
      /\ uploads'[u] = [uploads[u] EXCEPT !.status = "completed", !.parts = <<>>]
      /\ \A v \in Uploads \ {u} : uploads'[v] = uploads[v]
  BY <1>1 DEF CompleteUpload, Accepts, Live, LiveAt, ResourcesTypeOK
<1>3. uploads'[u].status = "completed" /\ uploads[u].bytes \in Nat
  BY <1>2 DEF UploadType
<1>4. ASSUME NEW G, NEW N, G \subseteq {<<"upload", u>>}, k \in K => <<"file", f>> \in N PROVE TableSteps(K, G, N)
  <2>1. /\ UploadsStep(K, G, N)
        /\ Foreign(G, "file") /\ Foreign(G, "kept") /\ Foreign(G, "store") /\ Foreign(G, "batch")
        /\ Foreign(G, "attached") /\ Foreign(G, "gfile") /\ Foreign(G, "gupload")
    BY <1>1, <1>2, <1>3, <1>4, UploadSteps DEF CompleteUpload
  <2>2. FilesStep(K, G, N) /\ AttachedStep(K, G, N)
    BY <1>1, <1>4, <2>1, NewFileSteps DEF CompleteUpload
  <2> QED BY <1>1, <2>1, <2>2, IdleTables DEF CompleteUpload, TableSteps
<1>5. CASE k \in K
  <2> DEFINE x == <<"upload", u>>
             y == <<"file", f>>
             size == uploads[u].bytes
  <2>1. TableSteps(K, {x}, {y})
    BY <1>4
  <2>2. SizeOf(x) = uploads[u].bytes /\ SizeOf(y)' = uploads[u].bytes
    <3>1. SizeOf(x) = uploads[u].bytes /\ SizeOf(y)' = files'[f].bytes
      BY TheRows, TheRowsNext DEF AllSizes
    <3> QED BY <1>1, <3>1 DEF CompleteUpload, NewFile, ResourcesTypeOK
  <2>3. x \in Retained(K)
    BY <1>1, <1>2, <1>5, TheRows DEF AllRowsOf, RowsOf, Counted
  <2>4. size \in Nat /\ SizeOf(x) = size /\ SizeOf(y)' = size
    BY <1>3, <2>2
  <2> HIDE DEF x, y, size
  <2>5. SizeOf(x) \in Nat /\ ~(size > SizeOf(x)) /\ SizeOf(y)' <= size
    BY <2>4
  <2> QED BY <1>1, <1>5, <2>1, <2>3, <2>4, <2>5, TradeFits
<1>6. CASE k \notin K
  <2>1. TableSteps(K, {}, {})
    BY <1>4, <1>6
  <2> QED BY <1>1, <2>1, FewerFit
<1> QED BY <1>5, <1>6
\* A store whose expiry moves counts for no more keys than before, unless it is
\* revived.
LEMMA NotRevived ==
  ASSUME ~Revives, NEW K, NEW s \in Stores, stores[s] # None, stores'[s].key = stores[s].key, Counted(K, stores[s])'
  PROVE  Counted(K, stores[s])
  BY DEF Revives, Counted

\* One store changes, or comes.
LEMMA StoreSteps ==
  ASSUME NEW K \in SUBSET Keys, NEW G, NEW N, NEW s \in Stores, now' = now,
         \A r \in Stores \ {s} : stores'[r] = stores[r], Foreign(G, "batch"),
         \A r \in Stores \ {s} : <<"store", r>> \notin G,
         Counted(K, stores[s])' =>
           <<"store", s>> \in N \/ (Counted(K, stores[s]) /\ <<"store", s>> \notin G /\ stores'[s].bytes = stores[s].bytes),
         Counted(K, stores[s])' /\ stores'[s].batched => <<"batch", s>> \in N \/ (Counted(K, stores[s]) /\ stores[s].batched)
  PROVE  StoresStep(K, G, N) /\ BatchesStep(K, G, N)
<1>1. ASSUME NEW r \in Stores \ {s}, Counted(K, stores[r])' PROVE Counted(K, stores[r]) /\ stores'[r] = stores[r]
  <2>1. stores'[r] = stores[r]
    OBVIOUS
  <2> QED BY <1>1, <2>1 DEF Counted, Live, LiveAt
<1>2. StoresStep(K, G, N)
  BY <1>1 DEF StoresStep
<1>3. \A r \in Stores : <<"batch", r>> \notin G
  BY DEF Foreign
<1>4. BatchesStep(K, G, N)
  BY <1>1, <1>3 DEF BatchesStep
<1> QED BY <1>2, <1>4

\* Files attached to it or to others come, go or change.
LEMMA AttachedSteps ==
  ASSUME ResourcesInv, NEW K \in SUBSET Keys, NEW G, NEW N, NEW s \in Stores, now' = now, files' = files,
         \A r \in Stores \ {s} : stores'[r] = stores[r],
         Counted(K, stores[s])' => Counted(K, stores[s]) \/ stores[s] = None,
         \A r \in Stores, h \in Files : \/ attached'[<<r, h>>] \in {attached[<<r, h>>], 0}
                                        \/ Counted(K, stores[r])' => <<"attached", r, h>> \in N,
         \A r \in Stores, h \in Files : <<"attached", r, h>> \in G /\ Counted(K, stores[r])' => <<"attached", r, h>> \in N
  PROVE  AttachedStep(K, G, N)
<1> SUFFICES ASSUME NEW r \in Stores, NEW h \in Files,
                    Counted(K, stores[r])', Live(files[h])', attached'[<<r, h>>] > 0, <<"attached", r, h>> \notin N
             PROVE  /\ Counted(K, stores[r]) /\ Live(files[h]) /\ <<"attached", r, h>> \notin G
                    /\ attached'[<<r, h>>] = attached[<<r, h>>]
  BY DEF AttachedStep
<1>1. <<"attached", r, h>> \notin G
  OBVIOUS
<1>2. attached'[<<r, h>>] = attached[<<r, h>>]
  <2>1. attached'[<<r, h>>] # 0 /\ attached'[<<r, h>>] \in {attached[<<r, h>>], 0}
    OBVIOUS
  <2> QED BY <2>1
<1>3. Live(files[h])
  BY DEF Live, LiveAt
<1>4. Counted(K, stores[r])
  <2>1. CASE r = s
    <3>1. stores[s] # None
      BY <1>2, <2>1 DEF ResourcesInv, AttachedOK
    <3> QED BY <2>1, <3>1
  <2>2. CASE r # s
    <3>1. stores'[r] = stores[r]
      BY <2>2
    <3> QED BY <3>1 DEF Counted, Live, LiveAt
  <2> QED BY <2>1, <2>2
<1> QED BY <1>1, <1>2, <1>3, <1>4

LEMMA WithFilesAt ==
  ASSUME NEW s \in Stores, NEW F, NEW r \in Stores, NEW h \in Files
  PROVE  WithFiles(s, F)[<<r, h>>] = IF r = s /\ h \in F THEN 1 ELSE attached[<<r, h>>]
<1> DEFINE p == <<r, h>>
<1>1. p \in Stores \X Files /\ p[1] = r /\ p[2] = h
  OBVIOUS
<1> HIDE DEF p
<1>2. WithFiles(s, F)[p] = IF p[1] = s /\ p[2] \in F THEN 1 ELSE attached[p]
  BY <1>1 DEF WithFiles
<1> QED BY <1>1, <1>2 DEF p

\* The rows of Files attached together are as many as the Files.
Together(x, s, F) == {x} \cup {<<"attached", s, f>> : f \in F}

LEMMA AttachedTogether ==
  ASSUME NEW x, NEW s, NEW F \in SUBSET Files
  PROVE  /\ IsFiniteSet(Together(x, s, F)) /\ Cardinality(Together(x, s, F)) <= 1 + Cardinality(F)
         /\ Cardinality(F) \in Nat
<1> DEFINE T == {<<"attached", s, f>> : f \in F}
           g == [f \in F |-> <<"attached", s, f>>]
<1>1. IsFiniteSet(F) /\ Cardinality(F) \in Nat
  BY TablesAssumption, FS_Subset, FS_CardinalityType
<1>2. g \in Surjection(F, T)
  BY DEF Surjection
<1> HIDE DEF g, T
<1>3. IsFiniteSet(T) /\ Cardinality(T) <= Cardinality(F)
  BY <1>1, <1>2, FS_Surjection
<1>4. IsFiniteSet({x}) /\ Cardinality({x}) = 1
  BY FS_Singleton
<1>5. IsFiniteSet({x} \cup T) /\ Cardinality({x} \cup T) = 1 + Cardinality(T) - Cardinality({x} \cap T)
  BY <1>3, <1>4, FS_Union
<1>6. IsFiniteSet({x} \cap T) /\ Cardinality({x} \cap T) \in Nat /\ Cardinality(T) \in Nat
  BY <1>3, <1>4, FS_Intersection, FS_CardinalityType
<1>7. Cardinality({x} \cup T) <= 1 + Cardinality(F)
  BY <1>1, <1>3, <1>5, <1>6
<1> QED BY <1>1, <1>5, <1>7 DEF T, Together

LEMMA CreateStoreFits ==
  ASSUME ResourcesInv, ResourcesTypeOK', NEW K, NEW R, NEW B, IsBudget(K, R, B), InBudget(K, R, B),
         NEW k \in Keys, NEW s \in Stores, NEW days, NEW F \in SUBSET Files, CreateStore(k, s, days, F)
  PROVE  InBudget(K, R, B)'
<1>1. K \in SUBSET Keys /\ ResourcesTypeOK
  BY Budgets DEF ResourcesInv
<1>2. /\ stores'[s].key = k /\ stores'[s].bytes = 1 /\ ~stores'[s].batched
      /\ \A r \in Stores \ {s} : stores'[r] = stores[r]
  BY <1>1 DEF CreateStore, ResourcesTypeOK
<1>3. \A r \in Stores, h \in Files : attached'[<<r, h>>] = IF r = s /\ h \in F THEN 1 ELSE attached[<<r, h>>]
  <2>1. attached' = WithFiles(s, F)
    BY DEF CreateStore
  <2>2. ASSUME NEW r \in Stores, NEW h \in Files
        PROVE  WithFiles(s, F)[<<r, h>>] = IF r = s /\ h \in F THEN 1 ELSE attached[<<r, h>>]
    BY WithFilesAt
  <2> QED BY <2>1, <2>2, Zenon
<1>4. ASSUME NEW N, k \in K => <<"store", s>> \in N /\ \A f \in F : <<"attached", s, f>> \in N PROVE TableSteps(K, {}, N)
  <2>1. Counted(K, stores[s])' => k \in K
    BY <1>2 DEF Counted
  <2>2. StoresStep(K, {}, N) /\ BatchesStep(K, {}, N)
    BY <1>1, <1>2, <1>4, <2>1, NoneForeign, StoreSteps DEF CreateStore
  <2>3. AttachedStep(K, {}, N)
    <3>1. \A r \in Stores, h \in Files : \/ attached'[<<r, h>>] \in {attached[<<r, h>>], 0}
                                         \/ Counted(K, stores[r])' => <<"attached", r, h>> \in N
      BY <1>3, <1>4, <2>1
    <3> QED BY <1>1, <1>2, <3>1, AttachedSteps DEF CreateStore
  <2> QED BY <1>1, <2>2, <2>3, NoneForeign, IdleTables DEF CreateStore, TableSteps
<1>5. CASE k \in K
  <2> DEFINE N == Together(<<"store", s>>, s, F)
             n == 1 + Cardinality(F)
  <2>1. TableSteps(K, {}, N)
    BY <1>4 DEF Together
  <2>2. IsFiniteSet(N) /\ Cardinality(N) <= n /\ n \in Nat
    BY AttachedTogether
  <2>3. \A x \in N : SizeOf(x)' = 1
    <3>1. SizeOf(<<"store", s>>)' = 1
      BY <1>2, TheRowsNext DEF AllSizes
    <3>2. ASSUME NEW f \in F PROVE SizeOf(<<"attached", s, f>>)' = 1
      <4>1. SizeOf(<<"attached", s, f>>)' = attached'[<<s, f>>]
        BY TheRowsNext DEF AllSizes
      <4> QED BY <1>3, <4>1
    <3> QED BY <3>1, <3>2 DEF Together
  <2>4. HasRoom(k, n, n)
    BY DEF CreateStore
  <2> HIDE DEF N, n
  <2> QED BY <1>1, <1>5, <2>1, <2>2, <2>3, <2>4, ManyMoreFit
<1>6. CASE k \notin K
  BY <1>1, <1>4, <1>6, FewerFit
<1> QED BY <1>5, <1>6
\* What a store keeps when it is touched.
LEMMA TouchedStore ==
  ASSUME NEW store \in StoreType, NEW t
  PROVE  /\ Touched(store, t).key = store.key /\ Touched(store, t).bytes = store.bytes
         /\ Touched(store, t).batched = store.batched
  BY DEF Touched, StoreType

LEMMA AttachFileFits ==
  ASSUME ResourcesInv, ResourcesTypeOK', NEW K, NEW R, NEW B, IsBudget(K, R, B), InBudget(K, R, B), ~Revives,
         NEW k \in Keys, NEW s \in Stores, NEW f \in Files, NEW t, AttachFile(k, s, f, t)
  PROVE  InBudget(K, R, B)'
<1>1. K \in SUBSET Keys /\ ResourcesTypeOK
  BY Budgets DEF ResourcesInv
<1>2. /\ stores[s] \in StoreType /\ stores[s] # None /\ stores[s].key = k /\ stores'[s] = Touched(stores[s], t)
      /\ \A r \in Stores \ {s} : stores'[r] = stores[r]
  BY <1>1 DEF AttachFile, LiveAt, ResourcesTypeOK
<1>3. stores'[s].key = k /\ stores'[s].bytes = stores[s].bytes /\ stores'[s].batched = stores[s].batched
  BY <1>2, TouchedStore
<1>4. Counted(K, stores[s])' => Counted(K, stores[s]) /\ k \in K
  BY <1>2, <1>3, NotRevived DEF Counted
<1>5. \A r \in Stores, h \in Files : attached'[<<r, h>>] = IF r = s /\ h = f THEN 1 ELSE attached[<<r, h>>]
  <2>1. attached' = WithFiles(s, {f})
    BY DEF AttachFile
  <2>2. ASSUME NEW r \in Stores, NEW h \in Files
        PROVE  WithFiles(s, {f})[<<r, h>>] = IF r = s /\ h = f THEN 1 ELSE attached[<<r, h>>]
    <3>1. WithFiles(s, {f})[<<r, h>>] = IF r = s /\ h \in {f} THEN 1 ELSE attached[<<r, h>>]
      BY WithFilesAt
    <3> QED BY <3>1
  <2> QED BY <2>1, <2>2, Zenon
<1>6. ASSUME NEW N, k \in K => <<"attached", s, f>> \in N PROVE TableSteps(K, {}, N)
  <2>1. StoresStep(K, {}, N) /\ BatchesStep(K, {}, N)
    BY <1>1, <1>2, <1>3, <1>4, NoneForeign, StoreSteps DEF AttachFile
  <2>2. AttachedStep(K, {}, N)
    <3>1. \A r \in Stores, h \in Files : \/ attached'[<<r, h>>] \in {attached[<<r, h>>], 0}
                                         \/ Counted(K, stores[r])' => <<"attached", r, h>> \in N
      BY <1>4, <1>5, <1>6
    <3> QED BY <1>1, <1>2, <1>4, <3>1, AttachedSteps DEF AttachFile
  <2> QED BY <1>1, <2>1, <2>2, NoneForeign, IdleTables DEF AttachFile, TableSteps
<1>7. CASE k \in K
  <2>1. TableSteps(K, {}, {<<"attached", s, f>>})
    BY <1>6
  <2>2. SizeOf(<<"attached", s, f>>)' = 1
    <3>1. SizeOf(<<"attached", s, f>>)' = attached'[<<s, f>>]
      BY TheRowsNext DEF AllSizes
    <3> QED BY <1>5, <3>1
  <2>3. HasRoomWithout({}, k, 1, 1)
    BY DEF AttachFile, HasRoom
  <2> QED BY <1>1, <1>7, <2>1, <2>2, <2>3, OneMoreFits
<1>8. CASE k \notin K
  BY <1>1, <1>6, <1>8, FewerFit
<1> QED BY <1>7, <1>8

LEMMA CreateFileBatchFits ==
  ASSUME ResourcesInv, ResourcesTypeOK', NEW K, NEW R, NEW B, IsBudget(K, R, B), InBudget(K, R, B), ~Revives,
         NEW k \in Keys, NEW s \in Stores, NEW F \in SUBSET Files, NEW t, CreateFileBatch(k, s, F, t)
  PROVE  InBudget(K, R, B)'
<1>1. K \in SUBSET Keys /\ ResourcesTypeOK
  BY Budgets DEF ResourcesInv
<1>2. /\ stores[s] \in StoreType /\ stores[s] # None /\ stores[s].key = k
      /\ stores'[s] = [Touched(stores[s], t) EXCEPT !.batched = TRUE]
      /\ \A r \in Stores \ {s} : stores'[r] = stores[r]
  BY <1>1 DEF CreateFileBatch, LiveAt, ResourcesTypeOK
<1>3. stores'[s].key = k /\ stores'[s].bytes = stores[s].bytes
  BY <1>2, TouchedStore
<1>4. Counted(K, stores[s])' => Counted(K, stores[s]) /\ k \in K
  BY <1>2, <1>3, NotRevived DEF Counted
<1>5. \A r \in Stores, h \in Files : attached'[<<r, h>>] = IF r = s /\ h \in F THEN 1 ELSE attached[<<r, h>>]
  <2>1. attached' = WithFiles(s, F)
    BY DEF CreateFileBatch
  <2>2. ASSUME NEW r \in Stores, NEW h \in Files
        PROVE  WithFiles(s, F)[<<r, h>>] = IF r = s /\ h \in F THEN 1 ELSE attached[<<r, h>>]
    BY WithFilesAt
  <2> QED BY <2>1, <2>2, Zenon
<1>6. ASSUME NEW N, k \in K => <<"batch", s>> \in N /\ \A f \in F : <<"attached", s, f>> \in N PROVE TableSteps(K, {}, N)
  <2>1. StoresStep(K, {}, N) /\ BatchesStep(K, {}, N)
    BY <1>1, <1>2, <1>3, <1>4, <1>6, NoneForeign, StoreSteps DEF CreateFileBatch
  <2>2. AttachedStep(K, {}, N)
    <3>1. \A r \in Stores, h \in Files : \/ attached'[<<r, h>>] \in {attached[<<r, h>>], 0}
                                         \/ Counted(K, stores[r])' => <<"attached", r, h>> \in N
      BY <1>4, <1>5, <1>6
    <3> QED BY <1>1, <1>2, <1>4, <3>1, AttachedSteps DEF CreateFileBatch
  <2> QED BY <1>1, <2>1, <2>2, NoneForeign, IdleTables DEF CreateFileBatch, TableSteps
<1>7. CASE k \in K
  <2> DEFINE N == Together(<<"batch", s>>, s, F)
             n == 1 + Cardinality(F)
  <2>1. TableSteps(K, {}, N)
    BY <1>6 DEF Together
  <2>2. IsFiniteSet(N) /\ Cardinality(N) <= n /\ n \in Nat
    BY AttachedTogether
  <2>3. \A x \in N : SizeOf(x)' = 1
    <3>1. SizeOf(<<"batch", s>>)' = 1
      BY TheRowsNext DEF AllSizes
    <3>2. ASSUME NEW f \in F PROVE SizeOf(<<"attached", s, f>>)' = 1
      <4>1. SizeOf(<<"attached", s, f>>)' = attached'[<<s, f>>]
        BY TheRowsNext DEF AllSizes
      <4> QED BY <1>5, <4>1
    <3> QED BY <3>1, <3>2 DEF Together
  <2>4. HasRoom(k, n, n)
    BY DEF CreateFileBatch
  <2> HIDE DEF N, n
  <2> QED BY <1>1, <1>7, <2>1, <2>2, <2>3, <2>4, ManyMoreFit
<1>8. CASE k \notin K
  BY <1>1, <1>6, <1>8, FewerFit
<1> QED BY <1>7, <1>8

LEMMA UpdateStoreFits ==
  ASSUME ResourcesInv, ResourcesTypeOK', NEW K, NEW R, NEW B, IsBudget(K, R, B), InBudget(K, R, B), ~Revives,
         NEW k \in Keys, NEW s \in Stores, NEW bytes \in Nat, NEW days, NEW t, UpdateStore(k, s, bytes, days, t)
  PROVE  InBudget(K, R, B)'
<1> DEFINE x == <<"store", s>>
<1>1. K \in SUBSET Keys /\ ResourcesTypeOK
  BY Budgets DEF ResourcesInv
<1>2. /\ stores[s] \in StoreType /\ stores[s] # None /\ stores[s].key = k
      /\ stores'[s] = [stores[s] EXCEPT !.bytes = bytes, !.days = days, !.expires = Expiry(days, stores[s].active)]
      /\ \A r \in Stores \ {s} : stores'[r] = stores[r]
  BY <1>1 DEF UpdateStore, LiveAt, ResourcesTypeOK
<1>3. /\ stores'[s].key = k /\ stores'[s].bytes = bytes /\ stores'[s].batched = stores[s].batched
      /\ stores[s].bytes \in Nat
  BY <1>2 DEF StoreType
<1>4. Counted(K, stores[s])' => Counted(K, stores[s]) /\ k \in K
  BY <1>2, <1>3, NotRevived DEF Counted
<1>5. ASSUME NEW G, NEW N, G \subseteq {x}, Counted(K, stores[s])' => x \in N PROVE TableSteps(K, G, N)
  <2>1. /\ Foreign(G, "file") /\ Foreign(G, "upload") /\ Foreign(G, "kept") /\ Foreign(G, "batch")
        /\ Foreign(G, "gfile") /\ Foreign(G, "gupload") /\ \A r \in Stores \ {s} : <<"store", r>> \notin G
        /\ \A r \in Stores, h \in Files : <<"attached", r, h>> \notin G
    BY <1>5 DEF Foreign
  <2>2. StoresStep(K, G, N) /\ BatchesStep(K, G, N)
    BY <1>1, <1>2, <1>3, <1>4, <1>5, <2>1, StoreSteps DEF UpdateStore
  <2>3. AttachedStep(K, G, N)
    <3>1. \A r \in Stores, h \in Files : attached'[<<r, h>>] \in {attached[<<r, h>>], 0}
      BY DEF UpdateStore
    <3> QED BY <1>1, <1>2, <1>4, <2>1, <3>1, AttachedSteps DEF UpdateStore
  <2> QED BY <1>1, <2>1, <2>2, <2>3, IdleTables DEF UpdateStore, TableSteps
<1>6. CASE Counted(K, stores[s])'
  <2>1. TableSteps(K, {x}, {x}) /\ k \in K
    BY <1>4, <1>5, <1>6
  <2>2. SizeOf(x)' = bytes /\ SizeOf(x) = stores[s].bytes
    BY <1>3, TheRows, TheRowsNext DEF AllSizes
  <2>3. x \in Retained(K)
    BY <1>1, <1>4, <1>6, TheRows DEF AllRowsOf, RowsOf
  <2>4. bytes > SizeOf(x) => HasRoom(k, 0, bytes - SizeOf(x))
    BY <2>2 DEF UpdateStore
  <2>5. SizeOf(x) \in Nat /\ SizeOf(x)' <= bytes
    BY <1>3, <2>2
  <2> HIDE DEF x
  <2> QED BY <1>1, <2>1, <2>3, <2>4, <2>5, TradeFits
<1>7. CASE ~Counted(K, stores[s])'
  <2>1. TableSteps(K, {}, {})
    BY <1>5, <1>7
  <2> QED BY <1>1, <2>1, FewerFit
<1> QED BY <1>6, <1>7

LEMMA UpdateAttributesFits ==
  ASSUME ResourcesInv, ResourcesTypeOK', NEW K, NEW R, NEW B, IsBudget(K, R, B), InBudget(K, R, B), ~Revives,
         NEW k \in Keys, NEW s \in Stores, NEW f \in Files, NEW bytes \in Nat, UpdateAttributes(k, s, f, bytes)
  PROVE  InBudget(K, R, B)'
<1> DEFINE x == <<"attached", s, f>>
<1>1. K \in SUBSET Keys /\ ResourcesTypeOK
  BY Budgets DEF ResourcesInv
<1>2. /\ stores[s] \in StoreType /\ stores[s] # None /\ stores[s].key = k /\ Live(stores[s])
      /\ Live(files[f]) /\ attached[<<s, f>>] > 0 /\ stores'[s] = Touched(stores[s], now)
      /\ \A r \in Stores \ {s} : stores'[r] = stores[r]
  BY <1>1 DEF UpdateAttributes, Shown, Live, LiveAt, ResourcesTypeOK
<1>3. stores'[s].key = k /\ stores'[s].bytes = stores[s].bytes /\ stores'[s].batched = stores[s].batched
  BY <1>2, TouchedStore
<1>4. Counted(K, stores[s])' => Counted(K, stores[s]) /\ k \in K
  BY <1>2, <1>3 DEF Counted
<1>5. /\ attached[<<s, f>>] \in Nat /\ attached'[<<s, f>>] = bytes
      /\ \A r \in Stores, h \in Files : <<r, h>> # <<s, f>> => attached'[<<r, h>>] = attached[<<r, h>>]
  BY <1>1 DEF UpdateAttributes, ResourcesTypeOK
<1>6. ASSUME NEW G, NEW N, G \subseteq {x}, k \in K => x \in N PROVE TableSteps(K, G, N)
  <2>1. /\ Foreign(G, "file") /\ Foreign(G, "upload") /\ Foreign(G, "kept") /\ Foreign(G, "batch")
        /\ Foreign(G, "gfile") /\ Foreign(G, "gupload") /\ Foreign(G, "store")
        /\ \A r \in Stores \ {s} : <<"store", r>> \notin G
    BY <1>6 DEF Foreign
  <2>2. StoresStep(K, G, N) /\ BatchesStep(K, G, N)
    <3>1. <<"store", s>> \notin G
      BY <1>6
    <3> QED BY <1>1, <1>2, <1>3, <1>4, <2>1, <3>1, StoreSteps DEF UpdateAttributes
  <2>3. AttachedStep(K, G, N)
    <3>1. \A r \in Stores, h \in Files : \/ attached'[<<r, h>>] \in {attached[<<r, h>>], 0}
                                         \/ Counted(K, stores[r])' => <<"attached", r, h>> \in N
      <4> SUFFICES ASSUME NEW r \in Stores, NEW h \in Files, Counted(K, stores[r])', <<"attached", r, h>> \notin N
                   PROVE  attached'[<<r, h>>] = attached[<<r, h>>]
        OBVIOUS
      <4>1. <<r, h>> # <<s, f>>
        BY <1>4, <1>6
      <4> QED BY <1>5, <4>1
    <3>2. \A r \in Stores, h \in Files : <<"attached", r, h>> \in G /\ Counted(K, stores[r])' => <<"attached", r, h>> \in N
      BY <1>4, <1>6
    <3> QED BY <1>1, <1>2, <1>4, <3>1, <3>2, AttachedSteps DEF UpdateAttributes
  <2> QED BY <1>1, <2>1, <2>2, <2>3, IdleTables DEF UpdateAttributes, TableSteps
<1>7. CASE k \in K
  <2>1. TableSteps(K, {x}, {x})
    BY <1>6, <1>7
  <2>2. SizeOf(x)' = bytes /\ SizeOf(x) = attached[<<s, f>>]
    BY <1>5, TheRows, TheRowsNext DEF AllSizes
  <2>3. x \in Retained(K)
    <3>1. Counted(K, stores[s])
      BY <1>2, <1>7 DEF Counted
    <3> QED BY <1>1, <1>2, <3>1, TheRows DEF AllRowsOf, RowsOf
  <2>4. bytes > SizeOf(x) => HasRoom(k, 0, bytes - SizeOf(x))
    BY <2>2 DEF UpdateAttributes
  <2>5. SizeOf(x) \in Nat /\ SizeOf(x)' <= bytes
    BY <1>5, <2>2
  <2> HIDE DEF x
  <2> QED BY <1>1, <1>7, <2>1, <2>3, <2>4, <2>5, TradeFits
<1>8. CASE k \notin K
  <2>1. TableSteps(K, {}, {})
    BY <1>6, <1>8
  <2> QED BY <1>1, <2>1, FewerFit
<1> QED BY <1>7, <1>8

LEMMA DetachFileFits ==
  ASSUME ResourcesInv, ResourcesTypeOK', NEW K, NEW R, NEW B, IsBudget(K, R, B), InBudget(K, R, B), ~Revives,
         NEW k \in Keys, NEW s \in Stores, NEW f \in Files, NEW t, DetachFile(k, s, f, t)
  PROVE  InBudget(K, R, B)'
<1>1. K \in SUBSET Keys /\ ResourcesTypeOK
  BY Budgets DEF ResourcesInv
<1>2. /\ stores[s] \in StoreType /\ stores[s] # None /\ stores'[s] = Touched(stores[s], t)
      /\ \A r \in Stores \ {s} : stores'[r] = stores[r]
  BY <1>1 DEF DetachFile, Shown, LiveAt, ResourcesTypeOK
<1>3. /\ stores'[s].key = stores[s].key /\ stores'[s].bytes = stores[s].bytes
      /\ stores'[s].batched = stores[s].batched
  BY <1>2, TouchedStore
<1>4. Counted(K, stores[s])' => Counted(K, stores[s])
  BY <1>2, <1>3, NotRevived
<1>5. \A r \in Stores, h \in Files : attached'[<<r, h>>] \in {attached[<<r, h>>], 0}
  BY <1>1 DEF DetachFile, ResourcesTypeOK
<1>6. StoresStep(K, {}, {}) /\ BatchesStep(K, {}, {})
  BY <1>1, <1>2, <1>3, <1>4, NoneForeign, StoreSteps DEF DetachFile
<1>7. AttachedStep(K, {}, {})
  BY <1>1, <1>2, <1>4, <1>5, AttachedSteps DEF DetachFile
<1>8. TableSteps(K, {}, {})
  BY <1>1, <1>6, <1>7, NoneForeign, IdleTables DEF DetachFile, TableSteps
<1> QED BY <1>1, <1>8, FewerFit
\* One Gemini upload changes, or comes; others may go.
LEMMA GeminiUploadSteps ==
  ASSUME NEW K \in SUBSET Keys, NEW G, NEW N, NEW g \in GeminiUploads, now' = now,
         \A h \in GeminiUploads \ {g} : guploads'[h] = guploads[h] \/ guploads'[h] = None,
         \A h \in GeminiUploads \ {g} : <<"gupload", h>> \notin G,
         Counted(K, guploads[g])' /\ guploads'[g].status = "pending" =>
           \/ <<"gupload", g>> \in N
           \/ Counted(K, guploads[g]) /\ guploads[g].status = "pending" /\ <<"gupload", g>> \notin G
  PROVE  GeminiUploadsStep(K, G, N)
<1>1. ASSUME NEW h \in GeminiUploads \ {g}, Counted(K, guploads[h])'
      PROVE  Counted(K, guploads[h]) /\ guploads'[h] = guploads[h]
  <2>1. guploads'[h] = guploads[h]
    BY <1>1 DEF Counted, Live, LiveAt
  <2> QED BY <1>1, <2>1 DEF Counted, Live, LiveAt
<1> QED BY <1>1 DEF GeminiUploadsStep

LEMMA StartUploadFits ==
  ASSUME ResourcesInv, ResourcesTypeOK', NEW K, NEW R, NEW B, IsBudget(K, R, B), InBudget(K, R, B),
         NEW k \in Keys, NEW g \in GeminiUploads, NEW name, StartUpload(k, g, name)
  PROVE  InBudget(K, R, B)'
<1> DEFINE gone == {<<"gfile", p[1], p[2]>> : p \in Swept}
<1>1. K \in SUBSET Keys /\ ResourcesTypeOK /\ now' \in Nat /\ now <= now'
  BY Budgets DEF ResourcesInv, ResourcesTypeOK, StartUpload
<1>2. /\ guploads'[g].key = k
      /\ \A h \in GeminiUploads \ {g} : guploads'[h] = guploads[h] \/ guploads'[h] = None
  BY DEF StartUpload, SweptUploads
<1>3. Shrinks(gfiles) /\ \A p \in Keys \X GeminiNames : p \in Swept => gfiles'[p] = None
  BY <1>1 DEF StartUpload, Unless, Shrinks, ResourcesTypeOK
<1>4. ASSUME NEW G, NEW N, G \subseteq gone, k \in K => <<"gupload", g>> \in N PROVE TableSteps(K, G, N)
  <2>1. /\ Foreign(G, "file") /\ Foreign(G, "upload") /\ Foreign(G, "kept") /\ Foreign(G, "batch")
        /\ Foreign(G, "store") /\ Foreign(G, "attached") /\ \A h \in GeminiUploads : <<"gupload", h>> \notin G
    BY <1>4 DEF Foreign
  <2>2. GeminiUploadsStep(K, G, N)
    <3>1. Counted(K, guploads[g])' => <<"gupload", g>> \in N
      BY <1>2, <1>4 DEF Counted
    <3> QED BY <1>1, <1>2, <2>1, <3>1, GeminiUploadSteps DEF StartUpload
  <2>3. GeminiFilesStep(K, G, N)
    <3>1. ASSUME NEW j \in Keys, NEW n \in GeminiNames, <<"gfile", j, n>> \in G PROVE gfiles'[<<j, n>>] = None
      <4>1. PICK p \in Swept : <<"gfile", j, n>> = <<"gfile", p[1], p[2]>>
        BY <1>4, <3>1
      <4>2. p \in Keys \X GeminiNames
        BY DEF Swept
      <4>3. p = <<j, n>>
        BY <4>1, <4>2
      <4> QED BY <1>3, <4>2, <4>3
    <3> HIDE DEF gone
    <3> QED BY <1>1, <1>3, <3>1, GeminiFilesShrink
  <2> QED BY <1>1, <2>1, <2>2, <2>3, IdleTables DEF StartUpload, TableSteps
<1>5. CASE k \in K
  <2> DEFINE bytes == Len(Data[g])
  <2>1. TableSteps(K, gone, {<<"gupload", g>>})
    BY <1>4
  <2>2. SizeOf(<<"gupload", g>>)' = bytes
    BY TheRowsNext DEF AllSizes
  <2>3. HasRoomWithout(gone, k, 1, bytes)
    BY DEF StartUpload
  <2>4. bytes \in Nat
    BY ResourcesAssumption
  <2> HIDE DEF gone, bytes
  <2>5. SizeOf(<<"gupload", g>>)' <= bytes
    BY <2>2, <2>4
  <2> QED BY <1>1, <1>5, <2>1, <2>3, <2>4, <2>5, OneMoreFits
<1>6. CASE k \notin K
  <2>1. TableSteps(K, {}, {})
    BY <1>4, <1>6
  <2> QED BY <1>1, <2>1, FewerFit
<1> QED BY <1>5, <1>6

LEMMA UploadChunkFits ==
  ASSUME ResourcesInv, ResourcesTypeOK', NEW K, NEW R, NEW B, IsBudget(K, R, B), InBudget(K, R, B),
         NEW g \in GeminiUploads, NEW offset, NEW length, UploadChunk(g, offset, length)
  PROVE  InBudget(K, R, B)'
<1>1. K \in SUBSET Keys /\ ResourcesTypeOK
  BY Budgets DEF ResourcesInv
<1>2. /\ guploads[g] \in GeminiUploadType /\ guploads[g].status = "pending"
      /\ guploads'[g] = [guploads[g] EXCEPT !.content = Assembled(g, offset, length)]
      /\ \A h \in GeminiUploads \ {g} : guploads'[h] = guploads[h]
  BY <1>1 DEF UploadChunk, TakesChunk, Live, LiveAt, ResourcesTypeOK
<1>3. guploads'[g].key = guploads[g].key /\ Live(guploads[g])
  BY <1>2 DEF GeminiUploadType, UploadChunk, TakesChunk
<1>4. GeminiUploadsStep(K, {}, {})
  <2>1. Counted(K, guploads[g])' => Counted(K, guploads[g])
    BY <1>3 DEF Counted
  <2> QED BY <1>1, <1>2, <2>1, GeminiUploadSteps DEF UploadChunk
<1>5. TableSteps(K, {}, {})
  BY <1>1, <1>4, NoneForeign, IdleTables DEF UploadChunk, TableSteps
<1> QED BY <1>1, <1>5, FewerFit

\* The name of a finished upload's File.
FileName(g) == IF guploads[g].name = None THEN g ELSE guploads[g].name

LEMMA FileNames ==
  ASSUME NEW g \in GeminiUploads, guploads[g] \in GeminiUploadType
  PROVE  FileName(g) \in GeminiNames /\ guploads[g].key \in Keys
  BY DEF FileName, GeminiNames, GeminiUploadType

\* The bytes reserved for the upload become the File's.
LEMMA FinalizeUploadFits ==
  ASSUME ResourcesInv, ResourcesTypeOK', NEW K, NEW R, NEW B, IsBudget(K, R, B), InBudget(K, R, B),
         NEW g \in GeminiUploads, NEW offset, NEW length, FinalizeUpload(g, offset, length)
  PROVE  InBudget(K, R, B)'
<1> DEFINE x == <<"gupload", g>>
           size == Len(Data[g])
<1>1. K \in SUBSET Keys /\ ResourcesTypeOK /\ now' = now
  BY Budgets DEF ResourcesInv, FinalizeUpload
<1>2. /\ guploads[g] \in GeminiUploadType /\ guploads[g].status = "pending" /\ Live(guploads[g])
      /\ guploads'[g] = [guploads[g] EXCEPT !.status = "completed", !.content = <<>>]
      /\ \A h \in GeminiUploads \ {g} : guploads'[h] = guploads[h]
  BY <1>1 DEF FinalizeUpload, TakesChunk, Live, LiveAt, ResourcesTypeOK
<1>3. guploads'[g].status = "completed"
  BY <1>2 DEF GeminiUploadType
<1>4. size \in Nat
  BY ResourcesAssumption
<1>4a. PICK k \in Keys, n \in GeminiNames : k = guploads[g].key /\ n = FileName(g)
  BY <1>2, FileNames
<1> DEFINE y == <<"gfile", k, n>>
<1>5. /\ Len(gfiles'[<<k, n>>].content) = size
      /\ \A p \in Keys \X GeminiNames : p # <<k, n>> => gfiles'[p] = gfiles[p]
  <2>1. \E content : /\ Len(content) = size
                     /\ gfiles' = [gfiles EXCEPT ![<<k, n>>] = [content |-> content, by |-> g, expires |-> now + FileLife]]
    BY <1>4a DEF FinalizeUpload, FileName
  <2>2. <<k, n>> \in DOMAIN gfiles /\ DOMAIN gfiles = Keys \X GeminiNames
    BY <1>1 DEF ResourcesTypeOK
  <2> HIDE DEF size
  <2> QED BY <2>1, <2>2
<1> HIDE DEF size
<1>6. ASSUME NEW G, NEW N, G \subseteq {x}, k \in K => y \in N PROVE TableSteps(K, G, N)
  <2>1. /\ Foreign(G, "file") /\ Foreign(G, "upload") /\ Foreign(G, "kept") /\ Foreign(G, "batch")
        /\ Foreign(G, "store") /\ Foreign(G, "attached") /\ \A h \in GeminiUploads \ {g} : <<"gupload", h>> \notin G
        /\ \A j \in Keys, m \in GeminiNames : <<"gfile", j, m>> \notin G
    BY <1>6 DEF Foreign
  <2>2. GeminiUploadsStep(K, G, N)
    BY <1>1, <1>2, <1>3, <2>1, GeminiUploadSteps DEF FinalizeUpload
  <2>3. GeminiFilesStep(K, G, N)
    <3> SUFFICES ASSUME NEW j \in K, NEW m \in GeminiNames, Live(gfiles[<<j, m>>])', <<"gfile", j, m>> \notin N
                 PROVE  /\ Live(gfiles[<<j, m>>]) /\ <<"gfile", j, m>> \notin G
                        /\ gfiles'[<<j, m>>].content = gfiles[<<j, m>>].content
      BY DEF GeminiFilesStep
    <3>1. <<j, m>> # <<k, n>> /\ j \in Keys
      <4>1. ~(j = k /\ m = n)
        BY <1>6
      <4> QED BY <1>1, <4>1
    <3>2. gfiles'[<<j, m>>] = gfiles[<<j, m>>]
      BY <1>5, <3>1
    <3> QED BY <1>1, <2>1, <3>1, <3>2 DEF Live, LiveAt
  <2> QED BY <1>1, <2>1, <2>2, <2>3, IdleTables DEF FinalizeUpload, TableSteps
<1>7. CASE k \in K
  <2>1. TableSteps(K, {x}, {y})
    BY <1>6, <1>7
  <2>2. SizeOf(x) = size /\ SizeOf(y)' = size
    <3>1. SizeOf(x) = size
      BY TheRows DEF AllSizes, size
    <3>2. SizeOf(y)' = Len(gfiles'[<<k, n>>].content)
      BY TheRowsNext DEF AllSizes
    <3> QED BY <1>5, <3>1, <3>2
  <2>3. x \in Retained(K)
    BY <1>4a, <1>1, <1>2, <1>7, TheRows DEF AllRowsOf, RowsOf, Counted
  <2> HIDE DEF x, y
  <2>4. SizeOf(x) \in Nat /\ ~(size > SizeOf(x)) /\ SizeOf(y)' <= size
    BY <1>4, <2>2
  <2> QED BY <1>1, <1>4, <1>7, <2>1, <2>3, <2>4, TradeFits
<1>8. CASE k \notin K
  <2>1. TableSteps(K, {}, {})
    BY <1>6, <1>8
  <2> QED BY <1>1, <2>1, FewerFit
<1> QED BY <1>7, <1>8
LEMMA DetachedAt ==
  ASSUME NEW gone, NEW F, NEW s \in Stores, NEW f \in Files
  PROVE  Detached(gone, F)[<<s, f>>] = IF s \in gone \/ f \in F THEN 0 ELSE attached[<<s, f>>]
<1> DEFINE p == <<s, f>>
<1>1. p \in Stores \X Files /\ p[1] = s /\ p[2] = f
  OBVIOUS
<1> HIDE DEF p
<1>2. Detached(gone, F)[p] = IF p[1] \in gone \/ p[2] \in F THEN 0 ELSE attached[p]
  BY <1>1 DEF Detached
<1> QED BY <1>1, <1>2 DEF p

\* Tables and attachments that only lose rows.
Losing ==
  /\ now <= now'
  /\ Shrinks(files) /\ Shrinks(uploads) /\ Shrinks(stores) /\ Shrinks(kept) /\ Shrinks(gfiles) /\ Shrinks(guploads)
  /\ \A s \in Stores, f \in Files : attached'[<<s, f>>] \in {attached[<<s, f>>], 0}

LEMMA DetachedLoses ==
  ASSUME NEW gone, NEW F, attached' = Detached(gone, F)
  PROVE  \A s \in Stores, f \in Files : attached'[<<s, f>>] \in {attached[<<s, f>>], 0}
<1>1. ASSUME NEW s \in Stores, NEW f \in Files PROVE Detached(gone, F)[<<s, f>>] \in {attached[<<s, f>>], 0}
  <2>1. Detached(gone, F)[<<s, f>>] = IF s \in gone \/ f \in F THEN 0 ELSE attached[<<s, f>>]
    BY DetachedAt
  <2> QED BY <2>1
<1> QED BY <1>1, Zenon

LEMMA DeleteFileLoses == ASSUME ResourcesTypeOK, NEW k, NEW f, DeleteFile(k, f) PROVE Losing
<1>1. \A s \in Stores, h \in Files : attached'[<<s, h>>] \in {attached[<<s, h>>], 0}
  BY DetachedLoses DEF DeleteFile
<1>2. Shrinks(files)
  BY DEF DeleteFile, Shrinks, ResourcesTypeOK
<1>3. Shrinks(uploads) /\ Shrinks(stores) /\ Shrinks(kept) /\ Shrinks(gfiles) /\ Shrinks(guploads)
  BY DEF DeleteFile, Shrinks
<1>4. now <= now'
  BY DEF DeleteFile, ResourcesTypeOK
<1> QED BY <1>1, <1>2, <1>3, <1>4 DEF Losing

LEMMA DeleteStoreLoses == ASSUME ResourcesTypeOK, NEW k, NEW s, DeleteStore(k, s) PROVE Losing
<1>1. \A r \in Stores, h \in Files : attached'[<<r, h>>] \in {attached[<<r, h>>], 0}
  BY DetachedLoses DEF DeleteStore
<1>2. Shrinks(stores)
  BY DEF DeleteStore, Shrinks, ResourcesTypeOK
<1>3. Shrinks(files) /\ Shrinks(uploads) /\ Shrinks(kept) /\ Shrinks(gfiles) /\ Shrinks(guploads)
  BY DEF DeleteStore, Shrinks
<1>4. now <= now'
  BY DEF DeleteStore, ResourcesTypeOK
<1> QED BY <1>1, <1>2, <1>3, <1>4 DEF Losing

LEMMA DeleteRowLoses == ASSUME ResourcesTypeOK, NEW k, NEW x, DeleteRow(k, x) PROVE Losing
  BY DEF DeleteRow, Losing, Shrinks, ResourcesTypeOK

LEMMA DeleteGeminiFileLoses == ASSUME ResourcesTypeOK, NEW k, NEW n, DeleteGeminiFile(k, n) PROVE Losing
  BY DEF DeleteGeminiFile, Losing, Shrinks, ResourcesTypeOK

LEMMA ClockTicksLoses == ASSUME ResourcesTypeOK, ClockTicks PROVE Losing
  BY DEF ClockTicks, Losing, Shrinks, ResourcesTypeOK

LEMMA CleanupLoses ==
  ASSUME NEW name, NEW table, NEW i \in DOMAIN table
  PROVE  Cleanup(name, table)[i] = table[i] \/ Cleanup(name, table)[i] = None
  BY DEF Cleanup, Unless

LEMMA CleanupStaleLoses == ASSUME ResourcesTypeOK, NEW name, CleanupStale(name) PROVE Losing
<1>1. \A s \in Stores, h \in Files : attached'[<<s, h>>] \in {attached[<<s, h>>], 0}
  BY DetachedLoses DEF CleanupStale
<1>2. /\ Shrinks(files) /\ Shrinks(uploads) /\ Shrinks(stores) /\ Shrinks(kept) /\ Shrinks(gfiles) /\ Shrinks(guploads)
  BY CleanupLoses DEF CleanupStale, Shrinks
<1> QED BY <1>1, <1>2 DEF CleanupStale, Losing, ResourcesTypeOK

LEMMA LosingFits ==
  ASSUME ResourcesTypeOK, ResourcesTypeOK', NEW K, NEW R, NEW B, IsBudget(K, R, B), InBudget(K, R, B), Losing
  PROVE  InBudget(K, R, B)'
  BY ShrinkFit DEF Losing

\* No step takes more than a budget, but for reviving a store.
LEMMA StepFits ==
  ASSUME ResourcesInv, ResourcesTypeOK', ResourcesNext, ~Revives,
         NEW K, NEW R, NEW B, IsBudget(K, R, B), InBudget(K, R, B)
  PROVE  InBudget(K, R, B)'
<1>1. ResourcesTypeOK /\ Sizes \subseteq Nat
  BY ResourcesAssumption DEF ResourcesInv
<1>2. ASSUME NEW k \in Keys, NEW f \in Files, DeleteFile(k, f) PROVE InBudget(K, R, B)'
  BY <1>1, <1>2, DeleteFileLoses, LosingFits
<1>3. ASSUME NEW k \in Keys, NEW f \in Files, NEW b \in Sizes, CreateFile(k, f, b) PROVE InBudget(K, R, B)'
  BY <1>1, <1>3, CreateFileFits
<1>4. ASSUME NEW k \in Keys, NEW x \in Kept, DeleteRow(k, x) PROVE InBudget(K, R, B)'
  BY <1>1, <1>4, DeleteRowLoses, LosingFits
<1>5. ASSUME NEW k \in Keys, NEW x \in Kept, NEW b \in Sizes, StoreRow(k, x, b) PROVE InBudget(K, R, B)'
  BY <1>1, <1>5, StoreRowFits
<1>6. ASSUME NEW k \in Keys, NEW x \in Kept, NEW b \in Sizes, UpdateChat(k, x, b) PROVE InBudget(K, R, B)'
  BY <1>1, <1>6, UpdateChatFits
<1>7. ASSUME NEW k \in Keys, NEW u \in Uploads, CancelUpload(k, u) PROVE InBudget(K, R, B)'
  BY <1>1, <1>7, CancelUploadFits
<1>8. ASSUME NEW k \in Keys, NEW u \in Uploads, NEW b \in Sizes, CreateUpload(k, u, b) PROVE InBudget(K, R, B)'
  BY <1>1, <1>8, CreateUploadFits
<1>9. ASSUME NEW k \in Keys, NEW u \in Uploads, NEW b \in Sizes, AddPart(k, u, b) PROVE InBudget(K, R, B)'
  BY <1>1, <1>9, AddPartFits
<1>10. ASSUME NEW k \in Keys, NEW u \in Uploads, NEW f \in Files, CompleteUpload(k, u, f) PROVE InBudget(K, R, B)'
  BY <1>1, <1>10, CompleteUploadFits
<1>11. CASE FileActions
  BY <1>2, <1>3, <1>4, <1>5, <1>6, <1>7, <1>8, <1>9, <1>10, <1>11, Zenon DEF FileActions
<1>12. ASSUME NEW k \in Keys, NEW s \in Stores, DeleteStore(k, s) PROVE InBudget(K, R, B)'
  BY <1>1, <1>12, DeleteStoreLoses, LosingFits
<1>13. ASSUME NEW k \in Keys, NEW s \in Stores, NEW d \in Days, NEW F \in SUBSET Files, CreateStore(k, s, d, F)
       PROVE  InBudget(K, R, B)'
  BY <1>1, <1>13, CreateStoreFits
<1>14. ASSUME NEW k \in Keys, NEW s \in Stores, NEW d \in Days, NEW b \in Sizes, NEW t \in ReadAt, UpdateStore(k, s, b, d, t)
       PROVE  InBudget(K, R, B)'
  BY <1>1, <1>14, UpdateStoreFits
<1>15. ASSUME NEW k \in Keys, NEW s \in Stores, NEW F \in SUBSET Files \ {{}}, NEW t \in ReadAt, CreateFileBatch(k, s, F, t)
       PROVE  InBudget(K, R, B)'
  BY <1>1, <1>15, CreateFileBatchFits
<1>16. ASSUME NEW k \in Keys, NEW s \in Stores, NEW f \in Files, NEW b \in Sizes, UpdateAttributes(k, s, f, b)
       PROVE  InBudget(K, R, B)'
  BY <1>1, <1>16, UpdateAttributesFits
<1>17. ASSUME NEW k \in Keys, NEW s \in Stores, NEW f \in Files, NEW t \in ReadAt, DetachFile(k, s, f, t)
       PROVE  InBudget(K, R, B)'
  BY <1>1, <1>17, DetachFileFits
<1>18. ASSUME NEW k \in Keys, NEW s \in Stores, NEW f \in Files, NEW t \in ReadAt, AttachFile(k, s, f, t)
       PROVE  InBudget(K, R, B)'
  BY <1>1, <1>18, AttachFileFits
<1>19. CASE StoreActions
  BY <1>12, <1>13, <1>14, <1>15, <1>16, <1>17, <1>18, <1>19, Zenon DEF StoreActions
<1>20. ASSUME NEW k \in Keys, NEW n \in GeminiNames, DeleteGeminiFile(k, n) PROVE InBudget(K, R, B)'
  BY <1>1, <1>20, DeleteGeminiFileLoses, LosingFits
<1>21. ASSUME NEW k \in Keys, NEW g \in GeminiUploads, NEW n \in Names, StartUpload(k, g, n) PROVE InBudget(K, R, B)'
  BY <1>1, <1>21, StartUploadFits
<1>22. ASSUME NEW g \in GeminiUploads, NEW offset \in 0..Len(Data[g]), NEW length \in 0..Len(Data[g]), UploadChunk(g, offset, length)
       PROVE  InBudget(K, R, B)'
  BY <1>1, <1>22, UploadChunkFits
<1>23. ASSUME NEW g \in GeminiUploads, NEW offset \in 0..Len(Data[g]), NEW length \in 0..Len(Data[g]), FinalizeUpload(g, offset, length)
       PROVE  InBudget(K, R, B)'
  BY <1>1, <1>23, FinalizeUploadFits
<1>24. CASE GeminiActions
  BY <1>20, <1>21, <1>22, <1>23, <1>24, Zenon DEF GeminiActions
<1>25. CASE ClockTicks
  BY <1>1, <1>25, ClockTicksLoses, LosingFits
<1>26. ASSUME NEW name \in DOMAIN Tables, CleanupStale(name) PROVE InBudget(K, R, B)'
  BY <1>1, <1>26, CleanupStaleLoses, LosingFits
<1> QED BY <1>11, <1>19, <1>24, <1>25, <1>26, Zenon DEF ResourcesNext
-----------------------------------------------------------------------------
(* ResourcesInv is an invariant. *)

LEMMA ReadEarlier == ASSUME ResourcesTypeOK, NEW t \in ReadAt PROVE t \in Nat
<1>1. PICK w \in Waits : t = now - w
  BY DEF ReadAt
<1>2. t >= 0
  BY DEF ReadAt
<1>3. w \in Nat /\ now \in Nat
  BY ResourcesAssumption DEF ResourcesTypeOK
<1> QED BY <1>1, <1>2, <1>3

LEMMA ExpiryType ==
  ASSUME NEW days \in Nat \cup {None}, NEW active \in Nat
  PROVE  Expiry(days, active) \in Nat \cup {None}
<1>1. CASE days = None
  BY <1>1 DEF Expiry
<1>2. CASE days # None
  BY <1>2 DEF Expiry
<1> QED BY <1>1, <1>2

LEMMA TouchedType ==
  ASSUME NEW store \in StoreType, NEW t \in Nat
  PROVE  Touched(store, t) \in StoreType
<1>1. store.days \in Nat \cup {None}
  BY DEF StoreType
<1>2. Expiry(store.days, t) \in Nat \cup {None}
  BY <1>1, ExpiryType
<1> QED BY <1>2 DEF Touched, StoreType

LEMMA NewFileType ==
  ASSUME ResourcesTypeOK, NEW k \in Keys, NEW bytes \in Nat
  PROVE  NewFile(k, bytes) \in FileType
  BY ResourcesAssumption DEF NewFile, FileType, ResourcesTypeOK

LEMMA CleanupType ==
  ASSUME NEW name, NEW S, NEW T, NEW table \in [S -> T \cup {None}]
  PROVE  Cleanup(name, table) \in [S -> T \cup {None}]
  BY DEF Cleanup, Unless

LEMMA AttachedTypes ==
  ASSUME ResourcesTypeOK
  PROVE  /\ \A gone, F : Detached(gone, F) \in [Stores \X Files -> Nat]
         /\ \A s, F : WithFiles(s, F) \in [Stores \X Files -> Nat]
  BY DEF Detached, WithFiles, ResourcesTypeOK

\* What is assembled of the client's bytes is a front part of them.
LEMMA PrefixGrows ==
  ASSUME NEW d \in Seq(Nat), NEW n \in Nat, NEW m \in Nat, n + m <= Len(d)
  PROVE  SubSeq(d, 1, n) \o SubSeq(d, n + 1, n + m) = SubSeq(d, 1, n + m)
<1>1. 1 \in 1..(Len(d) + 1) /\ n \in (1 - 1)..Len(d) /\ n + m \in n..Len(d)
  OBVIOUS
<1> QED BY <1>1, ConcatAdjacentSubSeq

LEMMA AssembledFacts ==
  ASSUME ResourcesInv, NEW g \in GeminiUploads, NEW offset \in Nat, NEW length \in Nat, TakesChunk(g, offset, length)
  PROVE  LET content == Assembled(g, offset, length)
         IN  content \in Seq(Nat) /\ Len(content) <= Len(Data[g]) /\ content = SubSeq(Data[g], 1, Len(content))
<1> DEFINE content == guploads[g].content
           n == Len(content)
<1>1. /\ Data[g] \in Seq(Nat) /\ content \in Seq(Nat) /\ n \in Nat /\ n <= Len(Data[g])
      /\ content = SubSeq(Data[g], 1, n) /\ offset <= n /\ length <= Len(Data[g]) - offset
  <2>1. Data[g] \in Seq(Nat)
    BY ResourcesAssumption
  <2>2. guploads[g] \in GeminiUploadType /\ guploads[g].status = "pending" /\ guploads[g] # None
    BY DEF TakesChunk, Live, LiveAt, ResourcesInv, ResourcesTypeOK
  <2>3. content \in Seq(Nat)
    BY <2>2 DEF GeminiUploadType
  <2> QED BY <2>1, <2>2, <2>3 DEF ResourcesInv, PrefixOK, TakesChunk
<1>2. CASE offset < n
  BY <1>1, <1>2 DEF Assembled
<1>3. CASE ~(offset < n)
  <2>1. Assembled(g, offset, length) = content \o SubSeq(Data[g], offset + 1, offset + length)
    BY <1>3 DEF Assembled, Chunk
  <2> HIDE DEF content, n
  <2>2. offset = n
    BY <1>1, <1>3
  <2>3. n + length \in Nat /\ n + length <= Len(Data[g])
    BY <1>1, <2>2
  <2>4. content \o SubSeq(Data[g], n + 1, n + length) = SubSeq(Data[g], 1, n + length)
    <3>1. SubSeq(Data[g], 1, n) \o SubSeq(Data[g], n + 1, n + length) = SubSeq(Data[g], 1, n + length)
      BY <1>1, <2>3, PrefixGrows
    <3> QED BY <1>1, <3>1
  <2>5. SubSeq(Data[g], 1, n + length) \in Seq(Nat) /\ Len(SubSeq(Data[g], 1, n + length)) = n + length
    BY <1>1, <2>3
  <2> QED BY <2>1, <2>2, <2>3, <2>4, <2>5
<1> QED BY <1>2, <1>3
LEMMA NoBytes == <<>> \in Seq(Nat)
  OBVIOUS

\* The types of the tables a step changes.
LEMMA TypesKept ==
  ASSUME ResourcesInv, ResourcesNext
  PROVE  ResourcesTypeOK'
<1>1. ResourcesTypeOK /\ Sizes \subseteq Nat /\ Days \subseteq Nat \cup {None}
  BY ResourcesAssumption DEF ResourcesInv
<1>2. ASSUME NEW k \in Keys, NEW f \in Files, DeleteFile(k, f) PROVE ResourcesTypeOK'
  BY <1>1, <1>2, AttachedTypes DEF DeleteFile, ResourcesTypeOK
<1>3. ASSUME NEW k \in Keys, NEW f \in Files, NEW b \in Sizes, CreateFile(k, f, b) PROVE ResourcesTypeOK'
  <2>1. NewFile(k, b) \in FileType
    BY <1>1, NewFileType
  <2> QED BY <1>1, <1>3, <2>1 DEF CreateFile, ResourcesTypeOK
<1>4. ASSUME NEW k \in Keys, NEW x \in Kept, DeleteRow(k, x) PROVE ResourcesTypeOK'
  BY <1>1, <1>4 DEF DeleteRow, ResourcesTypeOK
<1>5. ASSUME NEW k \in Keys, NEW x \in Kept, NEW b \in Sizes, StoreRow(k, x, b) PROVE ResourcesTypeOK'
  <2>1. NewFile(k, b) \in FileType
    BY <1>1, NewFileType
  <2> QED BY <1>1, <1>5, <2>1 DEF StoreRow, ResourcesTypeOK
<1>6. ASSUME NEW k \in Keys, NEW x \in Kept, NEW b \in Sizes, UpdateChat(k, x, b) PROVE ResourcesTypeOK'
  <2>1. kept[x] \in FileType
    BY <1>1, <1>6 DEF UpdateChat, Live, LiveAt, ResourcesTypeOK
  <2>2. [kept[x] EXCEPT !.bytes = b] \in FileType
    BY <1>1, <2>1 DEF FileType
  <2> QED BY <1>1, <1>6, <2>2 DEF UpdateChat, ResourcesTypeOK
<1>7. ASSUME NEW k \in Keys, NEW u \in Uploads, CancelUpload(k, u) PROVE ResourcesTypeOK'
  <2>1. uploads[u] \in UploadType
    BY <1>1, <1>7 DEF CancelUpload, Accepts, Live, LiveAt, ResourcesTypeOK
  <2>2. [uploads[u] EXCEPT !.status = "cancelled", !.parts = <<>>] \in UploadType
    BY <2>1, NoBytes DEF UploadType, Statuses
  <2> QED BY <1>1, <1>7, <2>2 DEF CancelUpload, ResourcesTypeOK
<1>8. ASSUME NEW k \in Keys, NEW u \in Uploads, NEW b \in Sizes, CreateUpload(k, u, b) PROVE ResourcesTypeOK'
  <2>1. [key |-> k, bytes |-> b, status |-> "pending", parts |-> <<>>, expires |-> now + UploadLife] \in UploadType
    BY <1>1, NoBytes, ResourcesAssumption DEF UploadType, Statuses, ResourcesTypeOK
  <2> QED BY <1>1, <1>8, <2>1 DEF CreateUpload, ResourcesTypeOK
<1>9. ASSUME NEW k \in Keys, NEW u \in Uploads, NEW b \in Sizes, AddPart(k, u, b) PROVE ResourcesTypeOK'
  <2>1. uploads[u] \in UploadType
    BY <1>1, <1>9 DEF AddPart, Accepts, Live, LiveAt, ResourcesTypeOK
  <2>2. Append(uploads[u].parts, b) \in Seq(Nat)
    BY <1>1, <2>1 DEF UploadType
  <2>3. [uploads[u] EXCEPT !.parts = Append(@, b)] \in UploadType
    BY <2>1, <2>2 DEF UploadType
  <2> QED BY <1>1, <1>9, <2>3 DEF AddPart, ResourcesTypeOK
<1>10. ASSUME NEW k \in Keys, NEW u \in Uploads, NEW f \in Files, CompleteUpload(k, u, f) PROVE ResourcesTypeOK'
  <2>1. uploads[u] \in UploadType
    BY <1>1, <1>10 DEF CompleteUpload, Accepts, Live, LiveAt, ResourcesTypeOK
  <2>2. [uploads[u] EXCEPT !.status = "completed", !.parts = <<>>] \in UploadType /\ uploads[u].bytes \in Nat
    BY <2>1, NoBytes DEF UploadType, Statuses
  <2>3. NewFile(k, uploads[u].bytes) \in FileType
    BY <1>1, <2>2, NewFileType
  <2> QED BY <1>1, <1>10, <2>2, <2>3 DEF CompleteUpload, ResourcesTypeOK
<1>11. CASE FileActions
  BY <1>2, <1>3, <1>4, <1>5, <1>6, <1>7, <1>8, <1>9, <1>10, <1>11, Zenon DEF FileActions
<1>12. ASSUME NEW k \in Keys, NEW s \in Stores, DeleteStore(k, s) PROVE ResourcesTypeOK'
  BY <1>1, <1>12, AttachedTypes DEF DeleteStore, ResourcesTypeOK
<1>13. ASSUME NEW k \in Keys, NEW s \in Stores, NEW d \in Days, NEW F \in SUBSET Files, CreateStore(k, s, d, F)
       PROVE  ResourcesTypeOK'
  <2>1. now \in Nat /\ d \in Nat \cup {None}
    BY <1>1 DEF ResourcesTypeOK
  <2>2. Expiry(d, now) \in Nat \cup {None}
    BY <2>1, ExpiryType
  <2>3. [key |-> k, bytes |-> 1, days |-> d, active |-> now, expires |-> Expiry(d, now), batched |-> FALSE] \in StoreType
    BY <2>1, <2>2 DEF StoreType
  <2> QED BY <1>1, <1>13, <2>3, AttachedTypes DEF CreateStore, ResourcesTypeOK
<1>14. ASSUME NEW k \in Keys, NEW s \in Stores, NEW d \in Days, NEW b \in Sizes, NEW t \in ReadAt, UpdateStore(k, s, b, d, t)
       PROVE  ResourcesTypeOK'
  <2>1. stores[s] \in StoreType
    BY <1>1, <1>14 DEF UpdateStore, LiveAt, ResourcesTypeOK
  <2>2. stores[s].active \in Nat /\ d \in Nat \cup {None} /\ b \in Nat
    BY <1>1, <2>1 DEF StoreType
  <2>3. Expiry(d, stores[s].active) \in Nat \cup {None}
    BY <2>2, ExpiryType
  <2>4. [stores[s] EXCEPT !.bytes = b, !.days = d, !.expires = Expiry(d, stores[s].active)] \in StoreType
    BY <2>1, <2>2, <2>3 DEF StoreType
  <2>5. stores' = [stores EXCEPT ![s] = [stores[s] EXCEPT !.bytes = b, !.days = d, !.expires = Expiry(d, stores[s].active)]]
    BY <1>14 DEF UpdateStore
  <2> QED BY <1>1, <1>14, <2>4, <2>5 DEF UpdateStore, ResourcesTypeOK
<1>15. ASSUME NEW k \in Keys, NEW s \in Stores, NEW F \in SUBSET Files \ {{}}, NEW t \in ReadAt, CreateFileBatch(k, s, F, t)
       PROVE  ResourcesTypeOK'
  <2>1. stores[s] \in StoreType /\ t \in Nat
    BY <1>1, <1>15, ReadEarlier DEF CreateFileBatch, LiveAt, ResourcesTypeOK
  <2>2. [Touched(stores[s], t) EXCEPT !.batched = TRUE] \in StoreType
    <3>1. Touched(stores[s], t) \in StoreType
      BY <2>1, TouchedType
    <3> QED BY <3>1 DEF StoreType
  <2> QED BY <1>1, <1>15, <2>2, AttachedTypes DEF CreateFileBatch, ResourcesTypeOK
<1>16. ASSUME NEW k \in Keys, NEW s \in Stores, NEW f \in Files, NEW b \in Sizes, UpdateAttributes(k, s, f, b)
       PROVE  ResourcesTypeOK'
  <2>1. stores[s] \in StoreType /\ now \in Nat
    BY <1>1, <1>16 DEF UpdateAttributes, Shown, LiveAt, ResourcesTypeOK
  <2>2. Touched(stores[s], now) \in StoreType
    BY <2>1, TouchedType
  <2> QED BY <1>1, <1>16, <2>2 DEF UpdateAttributes, ResourcesTypeOK
<1>17. ASSUME NEW k \in Keys, NEW s \in Stores, NEW f \in Files, NEW t \in ReadAt, DetachFile(k, s, f, t)
       PROVE  ResourcesTypeOK'
  <2>1. stores[s] \in StoreType /\ t \in Nat
    BY <1>1, <1>17, ReadEarlier DEF DetachFile, Shown, LiveAt, ResourcesTypeOK
  <2>2. Touched(stores[s], t) \in StoreType
    BY <2>1, TouchedType
  <2> QED BY <1>1, <1>17, <2>2 DEF DetachFile, ResourcesTypeOK
<1>18. ASSUME NEW k \in Keys, NEW s \in Stores, NEW f \in Files, NEW t \in ReadAt, AttachFile(k, s, f, t)
       PROVE  ResourcesTypeOK'
  <2>1. stores[s] \in StoreType /\ t \in Nat
    BY <1>1, <1>18, ReadEarlier DEF AttachFile, LiveAt, ResourcesTypeOK
  <2>2. Touched(stores[s], t) \in StoreType
    BY <2>1, TouchedType
  <2> QED BY <1>1, <1>18, <2>2, AttachedTypes DEF AttachFile, ResourcesTypeOK
<1>19. CASE StoreActions
  BY <1>12, <1>13, <1>14, <1>15, <1>16, <1>17, <1>18, <1>19, Zenon DEF StoreActions
<1>20. ASSUME NEW k \in Keys, NEW n \in GeminiNames, DeleteGeminiFile(k, n) PROVE ResourcesTypeOK'
  BY <1>1, <1>20 DEF DeleteGeminiFile, ResourcesTypeOK
<1>21. ASSUME NEW k \in Keys, NEW g \in GeminiUploads, NEW n \in Names, StartUpload(k, g, n) PROVE ResourcesTypeOK'
  <2>1. [key |-> k, name |-> n, status |-> "pending", content |-> <<>>, expires |-> now + UploadLife] \in GeminiUploadType
    BY <1>1, NoBytes, ResourcesAssumption DEF GeminiUploadType, Statuses, ResourcesTypeOK
  <2>2. SweptUploads \in [GeminiUploads -> GeminiUploadType \cup {None}]
    BY <1>1 DEF SweptUploads, ResourcesTypeOK
  <2>3. Unless(Swept, gfiles) \in [Keys \X GeminiNames -> GeminiFileType \cup {None}]
    BY <1>1 DEF Unless, ResourcesTypeOK
  <2> HIDE DEF SweptUploads
  <2>4. guploads' \in [GeminiUploads -> GeminiUploadType \cup {None}]
    BY <1>21, <2>1, <2>2 DEF StartUpload
  <2> QED BY <1>1, <1>21, <2>3, <2>4 DEF StartUpload, ResourcesTypeOK
<1>22. ASSUME NEW g \in GeminiUploads, NEW offset \in 0..Len(Data[g]), NEW length \in 0..Len(Data[g]), UploadChunk(g, offset, length)
       PROVE  ResourcesTypeOK'
  <2>1. guploads[g] \in GeminiUploadType /\ TakesChunk(g, offset, length)
    BY <1>1, <1>22 DEF UploadChunk, TakesChunk, Live, LiveAt, ResourcesTypeOK
  <2>2. Assembled(g, offset, length) \in Seq(Nat)
    BY <2>1, AssembledFacts
  <2>3. [guploads[g] EXCEPT !.content = Assembled(g, offset, length)] \in GeminiUploadType
    BY <2>1, <2>2 DEF GeminiUploadType
  <2> QED BY <1>1, <1>22, <2>3 DEF UploadChunk, ResourcesTypeOK
<1>23. ASSUME NEW g \in GeminiUploads, NEW offset \in 0..Len(Data[g]), NEW length \in 0..Len(Data[g]), FinalizeUpload(g, offset, length)
       PROVE  ResourcesTypeOK'
  <2>1. guploads[g] \in GeminiUploadType /\ TakesChunk(g, offset, length)
    BY <1>1, <1>23 DEF FinalizeUpload, TakesChunk, Live, LiveAt, ResourcesTypeOK
  <2>2. Assembled(g, offset, length) \in Seq(Nat)
    BY <2>1, AssembledFacts
  <2>3. [guploads[g] EXCEPT !.status = "completed", !.content = <<>>] \in GeminiUploadType
    BY <2>1, NoBytes DEF GeminiUploadType, Statuses
  <2>4. [content |-> Assembled(g, offset, length), by |-> g, expires |-> now + FileLife] \in GeminiFileType
    BY <1>1, <2>2, ResourcesAssumption DEF GeminiFileType, ResourcesTypeOK
  <2>5. gfiles' = [gfiles EXCEPT ![<<guploads[g].key, FileName(g)>>] =
                     [content |-> Assembled(g, offset, length), by |-> g, expires |-> now + FileLife]]
    BY <1>23 DEF FinalizeUpload, FileName
  <2> QED BY <1>1, <1>23, <2>3, <2>4, <2>5 DEF FinalizeUpload, ResourcesTypeOK
<1>24. CASE GeminiActions
  BY <1>20, <1>21, <1>22, <1>23, <1>24, Zenon DEF GeminiActions
<1>25. CASE ClockTicks
  BY <1>1, <1>25 DEF ClockTicks, ResourcesTypeOK
<1>26. ASSUME NEW name \in DOMAIN Tables, CleanupStale(name) PROVE ResourcesTypeOK'
  <2>1. /\ files' \in [Files -> FileType \cup {None}] /\ uploads' \in [Uploads -> UploadType \cup {None}]
        /\ stores' \in [Stores -> StoreType \cup {None}] /\ kept' \in [Kept -> FileType \cup {None}]
        /\ gfiles' \in [Keys \X GeminiNames -> GeminiFileType \cup {None}]
        /\ guploads' \in [GeminiUploads -> GeminiUploadType \cup {None}]
    BY <1>1, <1>26, CleanupType DEF CleanupStale, ResourcesTypeOK
  <2>2. attached' \in [Stores \X Files -> Nat]
    BY <1>1, <1>26, AttachedTypes DEF CleanupStale
  <2> QED BY <1>1, <1>26, <2>1, <2>2 DEF CleanupStale, ResourcesTypeOK
<1> QED BY <1>11, <1>19, <1>24, <1>25, <1>26, Zenon DEF ResourcesNext
\* Attachments that come are of a store and a File that are there; stores and
\* Files that go take theirs with them.
LEMMA AttachedStays ==
  ASSUME AttachedOK,
         \A s \in Stores, f \in Files : attached'[<<s, f>>] > 0 =>
           \/ stores'[s] # None /\ files'[f] # None
           \/ /\ attached[<<s, f>>] > 0
              /\ stores[s] # None => stores'[s] # None
              /\ files[f] # None => files'[f] # None
  PROVE  AttachedOK'
<1> SUFFICES ASSUME NEW s \in Stores, NEW f \in Files, attached'[<<s, f>>] > 0
             PROVE  stores'[s] # None /\ files'[f] # None
  BY DEF AttachedOK
<1>1. CASE stores'[s] # None /\ files'[f] # None
  BY <1>1
<1>2. CASE ~(stores'[s] # None /\ files'[f] # None)
  <2>1. /\ attached[<<s, f>>] > 0
        /\ stores[s] # None => stores'[s] # None
        /\ files[f] # None => files'[f] # None
    BY <1>2
  <2>2. stores[s] # None /\ files[f] # None
    BY <2>1 DEF AttachedOK
  <2> QED BY <2>1, <2>2
<1> QED BY <1>1, <1>2

LEMMA FileIsThere == ASSUME NEW row \in FileType PROVE row # None
  BY NoneAssumption

LEMMA StoreIsThere == ASSUME NEW row \in StoreType PROVE row # None
  BY NoneAssumption

\* Files attached to a store that is there, or comes.
LEMMA AttachingStays ==
  ASSUME ResourcesInv, NEW s \in Stores, NEW F \in SUBSET Files, attached' = WithFiles(s, F), files' = files,
         \A f \in F : files[f] # None, stores'[s] # None, \A r \in Stores \ {s} : stores'[r] = stores[r]
  PROVE  AttachedOK'
<1>1. ASSUME NEW r \in Stores, NEW h \in Files
      PROVE  WithFiles(s, F)[<<r, h>>] = IF r = s /\ h \in F THEN 1 ELSE attached[<<r, h>>]
  BY WithFilesAt
<1>2. ASSUME NEW r \in Stores, NEW h \in Files, attached'[<<r, h>>] > 0
      PROVE  \/ stores'[r] # None /\ files'[h] # None
             \/ /\ attached[<<r, h>>] > 0
                /\ stores[r] # None => stores'[r] # None
                /\ files[h] # None => files'[h] # None
  <2>1. CASE r = s /\ h \in F
    BY <2>1
  <2>2. CASE ~(r = s /\ h \in F)
    <3>1. attached'[<<r, h>>] = attached[<<r, h>>]
      BY <1>1, <2>2
    <3> QED BY <1>2, <3>1
  <2> QED BY <2>1, <2>2
<1> QED BY <1>2, AttachedStays DEF ResourcesInv

LEMMA DetachingStays ==
  ASSUME ResourcesInv, NEW gone, NEW F, attached' = Detached(gone, F),
         \A s \in Stores \ gone : stores[s] # None => stores'[s] # None,
         \A f \in Files \ F : files[f] # None => files'[f] # None
  PROVE  AttachedOK'
<1>1. ASSUME NEW r \in Stores, NEW h \in Files
      PROVE  Detached(gone, F)[<<r, h>>] = IF r \in gone \/ h \in F THEN 0 ELSE attached[<<r, h>>]
  BY DetachedAt
<1>2. ASSUME NEW r \in Stores, NEW h \in Files, attached'[<<r, h>>] > 0
      PROVE  /\ attached[<<r, h>>] > 0
             /\ stores[r] # None => stores'[r] # None
             /\ files[h] # None => files'[h] # None
  BY <1>1, <1>2
<1> QED BY <1>2, AttachedStays DEF ResourcesInv

LEMMA AttachedKept ==
  ASSUME ResourcesInv, ResourcesNext
  PROVE  AttachedOK'
<1>1. ResourcesTypeOK /\ AttachedOK /\ Sizes \subseteq Nat /\ Days \subseteq Nat \cup {None}
  BY ResourcesAssumption DEF ResourcesInv
<1>2. ASSUME UNCHANGED <<files, stores, attached>> PROVE AttachedOK'
  BY <1>1, <1>2 DEF AttachedOK
<1>3. ASSUME NEW k \in Keys, NEW f \in Files, DeleteFile(k, f) PROVE AttachedOK'
  <2>1. attached' = Detached({}, {f}) /\ stores' = stores /\ \A h \in Files \ {f} : files'[h] = files[h]
    BY <1>1, <1>3 DEF DeleteFile, ResourcesTypeOK
  <2> QED BY <2>1, DetachingStays
<1>4. ASSUME NEW k \in Keys, NEW f \in Files, NEW b \in Nat, files' = [files EXCEPT ![f] = NewFile(k, b)],
             UNCHANGED <<stores, attached>>
      PROVE  AttachedOK'
  <2>1. NewFile(k, b) # None
    BY <1>1, NewFileType, FileIsThere
  <2>2. \A h \in Files : files[h] # None => files'[h] # None
    BY <1>1, <1>4, <2>1 DEF ResourcesTypeOK
  <2> QED BY <1>1, <1>4, <2>2, AttachedStays
<1>5. ASSUME NEW k \in Keys, NEW u \in Uploads, NEW f \in Files, CompleteUpload(k, u, f) PROVE AttachedOK'
  <2>1. uploads[u] \in UploadType
    BY <1>1, <1>5 DEF CompleteUpload, Accepts, Live, LiveAt, ResourcesTypeOK
  <2>2. uploads[u].bytes \in Nat
    BY <2>1 DEF UploadType
  <2>3. files' = [files EXCEPT ![f] = NewFile(k, uploads[u].bytes)] /\ UNCHANGED <<stores, attached>>
    BY <1>5 DEF CompleteUpload
  <2> QED BY <1>4, <2>2, <2>3
<1>6. CASE FileActions
  <2>1. PICK k \in Keys :
          \/ \E f \in Files : DeleteFile(k, f) \/ \E b \in Sizes : CreateFile(k, f, b)
          \/ \E x \in Kept : DeleteRow(k, x) \/ \E b \in Sizes : StoreRow(k, x, b) \/ UpdateChat(k, x, b)
          \/ \E u \in Uploads :
               \/ CancelUpload(k, u)
               \/ \E b \in Sizes : CreateUpload(k, u, b) \/ AddPart(k, u, b)
               \/ \E f \in Files : CompleteUpload(k, u, f)
    BY <1>6, Zenon DEF FileActions
  <2>2. ASSUME NEW f \in Files, NEW b \in Sizes, CreateFile(k, f, b) PROVE AttachedOK'
    BY <1>1, <1>4, <2>2 DEF CreateFile
  <2>3. ASSUME NEW x \in Kept, DeleteRow(k, x) \/ \E b \in Sizes : StoreRow(k, x, b) \/ UpdateChat(k, x, b)
        PROVE  AttachedOK'
    BY <1>2, <2>3 DEF DeleteRow, StoreRow, UpdateChat
  <2>4. ASSUME NEW u \in Uploads, CancelUpload(k, u) \/ \E b \in Sizes : CreateUpload(k, u, b) \/ AddPart(k, u, b)
        PROVE  AttachedOK'
    BY <1>2, <2>4 DEF CancelUpload, CreateUpload, AddPart
  <2> QED BY <1>3, <1>5, <2>1, <2>2, <2>3, <2>4, Zenon
<1>7. ASSUME NEW k \in Keys, NEW s \in Stores, DeleteStore(k, s) PROVE AttachedOK'
  <2>1. attached' = Detached({s}, {}) /\ files' = files /\ \A r \in Stores \ {s} : stores'[r] = stores[r]
    BY <1>1, <1>7 DEF DeleteStore, ResourcesTypeOK
  <2> QED BY <2>1, DetachingStays
<1>8. ASSUME NEW s \in Stores, stores'[s] # None, \A r \in Stores \ {s} : stores'[r] = stores[r], files' = files,
             \A r \in Stores, h \in Files : attached'[<<r, h>>] > 0 => attached[<<r, h>>] > 0
      PROVE  AttachedOK'
  BY <1>1, <1>8, AttachedStays
<1>9. ASSUME NEW k \in Keys, NEW s \in Stores, NEW d \in Days, NEW F \in SUBSET Files, CreateStore(k, s, d, F)
      PROVE  AttachedOK'
  <2>1. stores'[s] # None /\ \A r \in Stores \ {s} : stores'[r] = stores[r]
    <3>2. stores'[s] = [key |-> k, bytes |-> 1, days |-> d, active |-> now, expires |-> Expiry(d, now), batched |-> FALSE]
      BY <1>1, <1>9 DEF CreateStore, ResourcesTypeOK
    <3>3. now \in Nat /\ d \in Nat \cup {None} /\ Expiry(d, now) \in Nat \cup {None}
      BY <1>1, ExpiryType DEF ResourcesTypeOK
    <3>4. stores'[s] \in StoreType
      BY <3>2, <3>3 DEF StoreType
    <3> QED BY <1>1, <1>9, <3>4, StoreIsThere DEF CreateStore, ResourcesTypeOK
  <2>2. attached' = WithFiles(s, F) /\ files' = files /\ \A f \in F : files[f] # None
    BY <1>9 DEF CreateStore, Attachable, LiveAt
  <2> QED BY <2>1, <2>2, AttachingStays
<1>10. ASSUME NEW k \in Keys, NEW s \in Stores, NEW d \in Days, NEW b \in Sizes, NEW t \in ReadAt, UpdateStore(k, s, b, d, t)
       PROVE  AttachedOK'
  <2>1. stores[s] \in StoreType
    BY <1>1, <1>10 DEF UpdateStore, LiveAt, ResourcesTypeOK
  <2>2. stores[s].active \in Nat /\ d \in Nat \cup {None} /\ b \in Nat
    BY <1>1, <2>1 DEF StoreType
  <2>3. Expiry(d, stores[s].active) \in Nat \cup {None}
    BY <2>2, ExpiryType
  <2>4. [stores[s] EXCEPT !.bytes = b, !.days = d, !.expires = Expiry(d, stores[s].active)] \in StoreType
    BY <2>1, <2>2, <2>3 DEF StoreType
  <2>5. stores' = [stores EXCEPT ![s] = [stores[s] EXCEPT !.bytes = b, !.days = d, !.expires = Expiry(d, stores[s].active)]]
    BY <1>10 DEF UpdateStore
  <2>6. stores'[s] # None /\ \A r \in Stores \ {s} : stores'[r] = stores[r]
    BY <1>1, <2>4, <2>5, StoreIsThere DEF ResourcesTypeOK
  <2> QED BY <1>8, <1>10, <2>6 DEF UpdateStore
<1>11. ASSUME NEW s \in Stores, NEW t \in Nat, stores[s] \in StoreType,
              \/ stores' = [stores EXCEPT ![s] = Touched(@, t)]
              \/ stores' = [stores EXCEPT ![s] = [Touched(@, t) EXCEPT !.batched = TRUE]]
       PROVE  stores'[s] # None /\ \A r \in Stores \ {s} : stores'[r] = stores[r]
  <2>1. Touched(stores[s], t) \in StoreType
    BY <1>11, TouchedType
  <2>2. [Touched(stores[s], t) EXCEPT !.batched = TRUE] \in StoreType
    BY <2>1 DEF StoreType
  <2> QED BY <1>1, <1>11, <2>1, <2>2, StoreIsThere DEF ResourcesTypeOK
<1>12. ASSUME NEW k \in Keys, NEW s \in Stores, NEW F \in SUBSET Files \ {{}}, NEW t \in ReadAt, CreateFileBatch(k, s, F, t)
       PROVE  AttachedOK'
  <2>1. stores[s] \in StoreType /\ t \in Nat
    BY <1>1, <1>12, ReadEarlier DEF CreateFileBatch, LiveAt, ResourcesTypeOK
  <2>2. stores'[s] # None /\ \A r \in Stores \ {s} : stores'[r] = stores[r]
    BY <1>11, <1>12, <2>1 DEF CreateFileBatch
  <2>3. attached' = WithFiles(s, F) /\ files' = files /\ \A f \in F : files[f] # None
    BY <1>12 DEF CreateFileBatch, Attachable, LiveAt
  <2> QED BY <2>2, <2>3, AttachingStays
<1>13. ASSUME NEW k \in Keys, NEW s \in Stores, NEW f \in Files, NEW t \in ReadAt, AttachFile(k, s, f, t) PROVE AttachedOK'
  <2>1. stores[s] \in StoreType /\ t \in Nat
    BY <1>1, <1>13, ReadEarlier DEF AttachFile, LiveAt, ResourcesTypeOK
  <2>2. stores'[s] # None /\ \A r \in Stores \ {s} : stores'[r] = stores[r]
    BY <1>11, <1>13, <2>1 DEF AttachFile
  <2>3. attached' = WithFiles(s, {f}) /\ files' = files /\ \A h \in {f} : files[h] # None
    BY <1>13 DEF AttachFile, Attachable, LiveAt
  <2> QED BY <2>2, <2>3, AttachingStays
<1>14. ASSUME NEW k \in Keys, NEW s \in Stores, NEW f \in Files, NEW b \in Sizes, UpdateAttributes(k, s, f, b)
       PROVE  AttachedOK'
  <2>1. stores[s] \in StoreType /\ now \in Nat
    BY <1>1, <1>14 DEF UpdateAttributes, Shown, LiveAt, ResourcesTypeOK
  <2>2. stores'[s] # None /\ \A r \in Stores \ {s} : stores'[r] = stores[r]
    BY <1>11, <1>14, <2>1 DEF UpdateAttributes
  <2>3. \A r \in Stores, h \in Files : attached'[<<r, h>>] > 0 => attached[<<r, h>>] > 0
    <3> SUFFICES ASSUME NEW r \in Stores, NEW h \in Files, attached'[<<r, h>>] > 0 PROVE attached[<<r, h>>] > 0
      OBVIOUS
    <3>1. CASE <<r, h>> = <<s, f>>
      BY <1>14, <3>1 DEF UpdateAttributes, Shown
    <3>2. CASE <<r, h>> # <<s, f>>
      BY <1>1, <1>14, <3>2 DEF UpdateAttributes, ResourcesTypeOK
    <3> QED BY <3>1, <3>2
  <2> QED BY <1>8, <1>14, <2>2, <2>3 DEF UpdateAttributes
<1>15. ASSUME NEW k \in Keys, NEW s \in Stores, NEW f \in Files, NEW t \in ReadAt, DetachFile(k, s, f, t) PROVE AttachedOK'
  <2>1. stores[s] \in StoreType /\ t \in Nat
    BY <1>1, <1>15, ReadEarlier DEF DetachFile, Shown, LiveAt, ResourcesTypeOK
  <2>2. stores'[s] # None /\ \A r \in Stores \ {s} : stores'[r] = stores[r]
    BY <1>11, <1>15, <2>1 DEF DetachFile
  <2>3. \A r \in Stores, h \in Files : attached'[<<r, h>>] > 0 => attached[<<r, h>>] > 0
    BY <1>1, <1>15 DEF DetachFile, ResourcesTypeOK
  <2> QED BY <1>8, <1>15, <2>2, <2>3 DEF DetachFile
<1>16. CASE StoreActions
  BY <1>7, <1>9, <1>10, <1>12, <1>13, <1>14, <1>15, <1>16, Zenon DEF StoreActions
<1>17. CASE GeminiActions
  BY <1>2, <1>17 DEF GeminiActions, DeleteGeminiFile, StartUpload, UploadChunk, FinalizeUpload
<1>18. CASE ClockTicks
  BY <1>2, <1>18 DEF ClockTicks
<1>19. ASSUME NEW name \in DOMAIN Tables, CleanupStale(name) PROVE AttachedOK'
  <2> DEFINE gone == {s \in Stores : stores'[s] = None}
             lost == {f \in Files : files'[f] = None}
  <2>1. attached' = Detached(gone, lost)
    BY <1>19 DEF CleanupStale
  <2>2. \A s \in Stores \ gone : stores[s] # None => stores'[s] # None
    OBVIOUS
  <2>3. \A f \in Files \ lost : files[f] # None => files'[f] # None
    OBVIOUS
  <2> HIDE DEF gone, lost
  <2> QED BY <2>1, <2>2, <2>3, DetachingStays
<1> QED BY <1>6, <1>16, <1>17, <1>18, <1>19, Zenon DEF ResourcesNext
\* What is left of a table of Gemini uploads.
LEMMA PrefixesStay ==
  ASSUME PrefixOK,
         \A g \in GeminiUploads : guploads'[g] # None /\ guploads'[g].status = "pending" =>
           \/ guploads'[g] = guploads[g]
           \/ /\ Len(guploads'[g].content) <= Len(Data[g])
              /\ guploads'[g].content = SubSeq(Data[g], 1, Len(guploads'[g].content))
  PROVE  PrefixOK'
<1> SUFFICES ASSUME NEW g \in GeminiUploads, guploads'[g] # None, guploads'[g].status = "pending"
             PROVE  /\ Len(guploads'[g].content) <= Len(Data[g])
                    /\ guploads'[g].content = SubSeq(Data[g], 1, Len(guploads'[g].content))
  BY DEF PrefixOK
<1> QED BY DEF PrefixOK

LEMMA StoreActionsFrame == StoreActions => UNCHANGED <<gfiles, guploads>>
<1>1. ASSUME NEW k, NEW s, DeleteStore(k, s) PROVE UNCHANGED <<gfiles, guploads>>
  BY <1>1 DEF DeleteStore
<1>2. ASSUME NEW k, NEW s, NEW d, NEW F, CreateStore(k, s, d, F) PROVE UNCHANGED <<gfiles, guploads>>
  BY <1>2 DEF CreateStore
<1>3. ASSUME NEW k, NEW s, NEW b, NEW d, NEW t, UpdateStore(k, s, b, d, t) PROVE UNCHANGED <<gfiles, guploads>>
  BY <1>3 DEF UpdateStore
<1>4. ASSUME NEW k, NEW s, NEW F, NEW t, CreateFileBatch(k, s, F, t) PROVE UNCHANGED <<gfiles, guploads>>
  BY <1>4 DEF CreateFileBatch
<1>5. ASSUME NEW k, NEW s, NEW f, NEW b, UpdateAttributes(k, s, f, b) PROVE UNCHANGED <<gfiles, guploads>>
  BY <1>5 DEF UpdateAttributes
<1>6. ASSUME NEW k, NEW s, NEW f, NEW t, DetachFile(k, s, f, t) \/ AttachFile(k, s, f, t) PROVE UNCHANGED <<gfiles, guploads>>
  BY <1>6 DEF DetachFile, AttachFile
<1> QED BY <1>1, <1>2, <1>3, <1>4, <1>5, <1>6, Zenon DEF StoreActions

LEMMA PrefixKept ==
  ASSUME ResourcesInv, ResourcesNext
  PROVE  PrefixOK'
<1>1. ResourcesTypeOK /\ PrefixOK
  BY DEF ResourcesInv
<1>2. ASSUME \A g \in GeminiUploads : guploads'[g] = guploads[g] \/ guploads'[g] = None PROVE PrefixOK'
  BY <1>1, <1>2, PrefixesStay
<1>3. ASSUME NEW k \in Keys, NEW g \in GeminiUploads, NEW n \in Names, StartUpload(k, g, n) PROVE PrefixOK'
  <2>1. /\ guploads'[g] = [key |-> k, name |-> n, status |-> "pending", content |-> <<>>, expires |-> now + UploadLife]
        /\ \A h \in GeminiUploads \ {g} : guploads'[h] = guploads[h] \/ guploads'[h] = None
    BY <1>3 DEF StartUpload, SweptUploads
  <2>2. guploads'[g].content = <<>>
    BY <2>1
  <2>3. Data[g] \in Seq(Nat)
    BY ResourcesAssumption
  <2>4. SubSeq(Data[g], 1, 0) = <<>> /\ Len(<<>>) = 0 /\ 0 <= Len(Data[g])
    BY <2>3, SubSeqEmpty
  <2> QED BY <1>1, <2>1, <2>2, <2>4, PrefixesStay
<1>4. ASSUME NEW g \in GeminiUploads, NEW offset \in 0..Len(Data[g]), NEW length \in 0..Len(Data[g]), UploadChunk(g, offset, length)
      PROVE  PrefixOK'
  <2> DEFINE content == Assembled(g, offset, length)
  <2>1. guploads[g] \in GeminiUploadType /\ TakesChunk(g, offset, length) /\ offset \in Nat /\ length \in Nat
    BY <1>1, <1>4 DEF UploadChunk, TakesChunk, Live, LiveAt, ResourcesTypeOK
  <2>2. content \in Seq(Nat) /\ Len(content) <= Len(Data[g]) /\ content = SubSeq(Data[g], 1, Len(content))
    BY <2>1, AssembledFacts
  <2>3. /\ guploads'[g] = [guploads[g] EXCEPT !.content = content]
        /\ \A h \in GeminiUploads \ {g} : guploads'[h] = guploads[h]
    BY <1>1, <1>4 DEF UploadChunk, ResourcesTypeOK
  <2> HIDE DEF content
  <2>4. guploads'[g].content = content
    BY <2>1, <2>3 DEF GeminiUploadType
  <2> QED BY <1>1, <2>2, <2>3, <2>4, PrefixesStay
<1>5. ASSUME NEW g \in GeminiUploads, NEW offset \in 0..Len(Data[g]), NEW length \in 0..Len(Data[g]), FinalizeUpload(g, offset, length)
      PROVE  PrefixOK'
  <2>1. guploads[g] \in GeminiUploadType
    BY <1>1, <1>5 DEF FinalizeUpload, TakesChunk, Live, LiveAt, ResourcesTypeOK
  <2>2. /\ guploads'[g] = [guploads[g] EXCEPT !.status = "completed", !.content = <<>>]
        /\ \A h \in GeminiUploads \ {g} : guploads'[h] = guploads[h]
    BY <1>1, <1>5 DEF FinalizeUpload, ResourcesTypeOK
  <2>3. guploads'[g].status = "completed"
    BY <2>1, <2>2 DEF GeminiUploadType
  <2> QED BY <1>1, <2>2, <2>3, PrefixesStay
<1>6. ASSUME NEW name \in DOMAIN Tables, CleanupStale(name) PROVE PrefixOK'
  <2>1. \A g \in GeminiUploads : guploads'[g] = guploads[g] \/ guploads'[g] = None
    BY <1>1, <1>6, CleanupLoses DEF CleanupStale, ResourcesTypeOK
  <2> QED BY <1>2, <2>1
<1>7. ASSUME guploads' = guploads PROVE PrefixOK'
  BY <1>2, <1>7
<1>8. CASE FileActions
  BY <1>7, <1>8 DEF FileActions, DeleteFile, CreateFile, DeleteRow, StoreRow, UpdateChat, CancelUpload,
                    CreateUpload, AddPart, CompleteUpload
<1>9. CASE StoreActions
  BY <1>7, <1>9, StoreActionsFrame
<1>10. ASSUME NEW k \in Keys, NEW n \in GeminiNames, DeleteGeminiFile(k, n) PROVE PrefixOK'
  BY <1>7, <1>10 DEF DeleteGeminiFile
<1>11. CASE GeminiActions
  BY <1>3, <1>4, <1>5, <1>10, <1>11, Zenon DEF GeminiActions
<1>12. CASE ClockTicks
  BY <1>7, <1>12 DEF ClockTicks
<1> QED BY <1>6, <1>8, <1>9, <1>11, <1>12, Zenon DEF ResourcesNext

\* A File that comes holds what its upload's client had to send.
LEMMA CompleteKept ==
  ASSUME ResourcesInv, ResourcesNext
  PROVE  GeminiFilesAreComplete'
<1>1. ResourcesTypeOK /\ GeminiFilesAreComplete /\ DOMAIN gfiles = Keys \X GeminiNames
  BY DEF ResourcesInv, ResourcesTypeOK
<1>2. ASSUME DOMAIN gfiles' = DOMAIN gfiles, \A p \in Keys \X GeminiNames : gfiles'[p] = gfiles[p] \/ gfiles'[p] = None
      PROVE  GeminiFilesAreComplete'
  BY <1>1, <1>2 DEF GeminiFilesAreComplete
<1>3. ASSUME NEW k \in Keys, NEW n \in GeminiNames, DeleteGeminiFile(k, n) PROVE GeminiFilesAreComplete'
  <2>1. DOMAIN gfiles' = DOMAIN gfiles /\ \A p \in Keys \X GeminiNames : gfiles'[p] = gfiles[p] \/ gfiles'[p] = None
    BY <1>1, <1>3 DEF DeleteGeminiFile
  <2> QED BY <1>2, <2>1
<1>4. ASSUME NEW k \in Keys, NEW g \in GeminiUploads, NEW n \in Names, StartUpload(k, g, n) PROVE GeminiFilesAreComplete'
  <2>1. DOMAIN gfiles' = DOMAIN gfiles /\ \A p \in Keys \X GeminiNames : gfiles'[p] = gfiles[p] \/ gfiles'[p] = None
    BY <1>1, <1>4 DEF StartUpload, Unless
  <2> QED BY <1>2, <2>1
<1>5. ASSUME NEW g \in GeminiUploads, NEW offset \in 0..Len(Data[g]), NEW length \in 0..Len(Data[g]), FinalizeUpload(g, offset, length)
      PROVE  GeminiFilesAreComplete'
  <2> DEFINE content == Assembled(g, offset, length)
             file == <<guploads[g].key, FileName(g)>>
  <2>1. TakesChunk(g, offset, length) /\ offset \in Nat /\ length \in Nat
    BY <1>5 DEF FinalizeUpload
  <2>2. content \in Seq(Nat) /\ content = SubSeq(Data[g], 1, Len(content)) /\ Len(content) = Len(Data[g])
    BY <1>5, <2>1, AssembledFacts DEF FinalizeUpload
  <2>3. content = Data[g]
    <3>1. Data[g] \in Seq(Nat)
      BY ResourcesAssumption
    <3>2. SubSeq(Data[g], 1, Len(Data[g])) = Data[g]
      BY <3>1, SubSeqFull
    <3> QED BY <2>2, <3>2
  <2>4. gfiles' = [gfiles EXCEPT ![file] = [content |-> content, by |-> g, expires |-> now + FileLife]]
    BY <1>5 DEF FinalizeUpload, FileName
  <2> HIDE DEF content, file
  <2> QED BY <1>1, <2>3, <2>4 DEF GeminiFilesAreComplete
<1>6. ASSUME NEW name \in DOMAIN Tables, CleanupStale(name) PROVE GeminiFilesAreComplete'
  <2>1. gfiles' = Cleanup(name = "gfiles", gfiles)
    BY <1>6 DEF CleanupStale
  <2>2. DOMAIN gfiles' = DOMAIN gfiles /\ \A p \in Keys \X GeminiNames : gfiles'[p] = gfiles[p] \/ gfiles'[p] = None
    BY <1>1, <2>1 DEF Cleanup, Unless
  <2> QED BY <1>2, <2>2
<1>7. ASSUME gfiles' = gfiles PROVE GeminiFilesAreComplete'
  BY <1>1, <1>7 DEF GeminiFilesAreComplete
<1>8. CASE FileActions
  BY <1>7, <1>8 DEF FileActions, DeleteFile, CreateFile, DeleteRow, StoreRow, UpdateChat, CancelUpload,
                    CreateUpload, AddPart, CompleteUpload
<1>9. CASE StoreActions
  BY <1>7, <1>9, StoreActionsFrame
<1>10. ASSUME NEW g \in GeminiUploads, NEW offset, NEW length, UploadChunk(g, offset, length)
       PROVE  GeminiFilesAreComplete'
  BY <1>7, <1>10 DEF UploadChunk
<1>11. CASE GeminiActions
  BY <1>3, <1>4, <1>5, <1>10, <1>11, Zenon DEF GeminiActions
<1>12. CASE ClockTicks
  BY <1>7, <1>12 DEF ClockTicks
<1> QED BY <1>6, <1>8, <1>9, <1>11, <1>12, Zenon DEF ResourcesNext

-----------------------------------------------------------------------------

LEMMA ResourcesStart == ResourcesInit => ResourcesInv
<1> SUFFICES ASSUME ResourcesInit PROVE ResourcesInv
  OBVIOUS
<1>1. ResourcesTypeOK
  BY DEF ResourcesInit, ResourcesTypeOK
<1>2. AttachedOK
  <2>1. ASSUME NEW s \in Stores, NEW f \in Files PROVE attached[<<s, f>>] = 0
    BY DEF ResourcesInit
  <2> QED BY <2>1 DEF AttachedOK
<1>3. PrefixOK /\ GeminiFilesAreComplete
  BY DEF ResourcesInit, PrefixOK, GeminiFilesAreComplete
<1> QED BY <1>1, <1>2, <1>3 DEF ResourcesInv

LEMMA ResourcesStep == ResourcesInv /\ [ResourcesNext]_resourceVars => ResourcesInv'
<1> SUFFICES ASSUME ResourcesInv, [ResourcesNext]_resourceVars PROVE ResourcesInv'
  OBVIOUS
<1>1. CASE ResourcesNext
  BY <1>1, TypesKept, AttachedKept, PrefixKept, CompleteKept DEF ResourcesInv
<1>2. CASE UNCHANGED resourceVars
  BY <1>2 DEF resourceVars, ResourcesInv, ResourcesTypeOK, AttachedOK, PrefixOK, GeminiFilesAreComplete
<1> QED BY <1>1, <1>2

LEMMA ResourcesAlways == ResourcesSpec => []ResourcesInv
  BY ResourcesStart, ResourcesStep, PTL DEF ResourcesSpec

\* A Gemini File holds exactly the bytes its client set out to send
\* (GeminiFilesAreComplete), however its chunks were repeated, cut or finalized
\* (gemini_files.go:264): an upload that is pending always holds a front part of
\* them (PrefixOK).
THEOREM GeminiFilesStayComplete == ResourcesSpec => []GeminiFilesAreComplete
<1>1. ResourcesInv => GeminiFilesAreComplete
  BY DEF ResourcesInv
<1> QED BY <1>1, ResourcesAlways, PTL

LEMMA BudgetStepKept ==
  ResourcesInv /\ ResourcesInv' /\ [ResourcesNext]_resourceVars => [~WithinLimits' => ~WithinLimits \/ Revives]_resourceVars
<1> SUFFICES ASSUME ResourcesInv, ResourcesInv', ResourcesNext, WithinLimits, ~Revives PROVE WithinLimits'
  OBVIOUS
<1>1. AllFit
  BY LimitsAreBudgets
<1>2. ASSUME NEW K \in SUBSET Keys, NEW R \in Nat, NEW B \in Nat, IsBudget(K, R, B) PROVE InBudget(K, R, B)'
  <2>1. InBudget(K, R, B)
    BY <1>1, <1>2, Zenon DEF AllFit
  <2>2. ResourcesTypeOK'
    BY DEF ResourcesInv
  <2> QED BY <1>2, <2>1, <2>2, StepFits
<1>3. AllFit'
  BY <1>2 DEF AllFit, IsBudget, KeysOfOwner
<1> QED BY <1>3, LimitsAreBudgetsNext

\* No step takes what a key, its owner or the gateway keeps over its caps, but for
\* the step that revives an expired Vector Store (BudgetIsKept): the handlers
\* that insert without asking (uploads.go:253, gemini_files.go:264) only turn
\* what is reserved into what is kept, for any keys, owners, sizes and caps.
THEOREM BudgetIsAlwaysKept == ResourcesSpec => BudgetIsKept
<1>1. ResourcesSpec => [][ResourcesNext]_resourceVars
  BY PTL DEF ResourcesSpec
<1> QED BY <1>1, ResourcesAlways, BudgetStepKept, PTL DEF BudgetIsKept

\* Where no store is revived, the caps of response_storage.go:96 hold of what is
\* kept (WithinLimits), always.
THEOREM LimitsHoldUnlessRevived == ResourcesSpec /\ [][~Revives]_resourceVars => []WithinLimits
<1>1. ResourcesInit => WithinLimits
  <2> SUFFICES ASSUME ResourcesInit PROVE WithinLimits
    OBVIOUS
  <2>1. ASSUME NEW K \in SUBSET Keys, NEW R \in Nat, NEW B \in Nat PROVE InBudget(K, R, B)
    <3>1. /\ \A f \in Files : files[f] = None
          /\ \A u \in Uploads : uploads[u] = None
          /\ \A s \in Stores : stores[s] = None
          /\ \A x \in Kept : kept[x] = None
          /\ \A k \in Keys, n \in GeminiNames : gfiles[<<k, n>>] = None
          /\ \A g \in GeminiUploads : guploads[g] = None
      BY DEF ResourcesInit
    <3>2. ASSUME NEW row \in Retained(K) PROVE FALSE
      <4>1. ~Live(None)
        BY DEF Live, LiveAt
      <4>2. ~Counted(K, None)
        BY <4>1 DEF Counted
      <4>3. CaseOf(K, row)
        BY RowCases
      <4> QED BY <3>1, <4>1, <4>2, <4>3 DEF CaseOf
    <3>3. Bytes({}) = 0 /\ Cardinality({}) = 0
      BY SumEmpty, FS_EmptySet DEF Bytes, Sum
    <3>4. Retained(K) = {}
      BY <3>2
    <3> QED BY <3>3, <3>4 DEF InBudget, Within
  <2> QED BY <2>1, LimitsAreBudgets DEF AllFit
<1>2. /\ WithinLimits /\ [~WithinLimits' => ~WithinLimits \/ Revives]_resourceVars /\ [~Revives]_resourceVars
      /\ (UNCHANGED resourceVars => (WithinLimits <=> WithinLimits'))
      => WithinLimits'
  OBVIOUS
<1>3. UNCHANGED resourceVars => (WithinLimits <=> WithinLimits')
  BY DEF resourceVars, WithinLimits, Within, Retained, FileRows, UploadRows, StoreRows, BatchRows, AttachedRows,
         KeptRows, GeminiFileRows, GeminiUploadRows, Counted, Live, LiveAt, Bytes, SizeOf, KeysOfOwner
<1>4. ResourcesSpec => ResourcesInit /\ [][~WithinLimits' => ~WithinLimits \/ Revives]_resourceVars
  BY BudgetIsAlwaysKept, PTL DEF ResourcesSpec, BudgetIsKept
<1> QED BY <1>1, <1>2, <1>3, <1>4, PTL
=============================================================================
