------------------------------ MODULE Projection ------------------------------
(***************************************************************************)
(* The usage projection (internal/features/usage/projection.go): the events  *)
(* that the accounting transactions append to event_outbox in system.db are  *)
(* added to the usage_daily rows of data.db by one worker. The two databases *)
(* share no transaction: an event is projected in data.db, acknowledged in   *)
(* system.db and deleted there in three steps, and the process may stop      *)
(* between any two of them.                                                  *)
(*                                                                           *)
(* Abstracted: a usage_daily row is named by the start instant and the       *)
(* connection of its attempts; cache and web-search columns, and the         *)
(* erasure of old payloads after projection, are left out.                   *)
(***************************************************************************)
EXTENDS Accounting, Sequences, SequencesExt

CONSTANT MaxEvents   \* bound on the events written

\* The connections are rows of a table.
ASSUME ConnectionsAssumption == IsFiniteSet(Connections)

VARIABLES
  events,   \* event_outbox in order of its sequence; acked is delivered_at
  written,  \* events written so far; an event's id is its number
  seen,     \* usage_events
  daily,    \* usage_daily[started_at][connection]
  at        \* the projector: "idle", or past the "data" or the "ack" commit

projectionVars == <<events, written, seen, daily, at>>
pVars == <<vars, projectionVars>>

NoRow == [exists |-> FALSE, requests |-> 0, tokens |-> 0, cost |-> 0, unknown |-> 0]
Closing == {"attempt.settled", "request.cancelled_before_dispatch"}

ProjectionInit ==
  /\ Init
  /\ events = <<>> /\ written = 0 /\ seen = {} /\ at = "idle"
  /\ daily = [t \in Times |-> [c \in Connections |-> NoRow]]

-----------------------------------------------------------------------------
(* Faulty variants. Nothing uses them: each replaces its original to show  *)
(* that a property notices the fault.                                        *)

IsNewAlways(e) == TRUE
ResolvesUnknownAlways(a) == -1
NextEventLast(e) == events # <<>> /\ e = events[Len(events)] /\ ~e.acked
AckForgets ==
  /\ at = "data"
  /\ at' = "idle"
  /\ UNCHANGED <<vars, events, written, seen, daily>>

-----------------------------------------------------------------------------
(* Writing events: each accounting transaction with its appendOutbox calls. *)

Event(a, type, tokens, cost, unknown) ==
  [type |-> type, request |-> aReq'[a], day |-> aStart'[a], conn |-> aConn'[a],
   tokens |-> tokens, cost |-> cost, unknown |-> unknown]

IsUnknown(fact) == fact.status = "unknown" \/ fact.cost = Unknown

Reserved(a) == Event(a, "attempt.reserved", 0, 0, 0)
Cancelled(a) == Event(a, "request.cancelled_before_dispatch", 0, 0, 0)

\* The counts projectSettlement reads out of a settlement's payload.
Settled(a) ==
  Event(a, "attempt.settled", OrZero(usage'[a].tokens), OrZero(usage'[a].cost),
        IF IsUnknown(usage'[a]) THEN 1 ELSE 0)

\* The corrections send deltas, and take back the unknown outcome they resolve.
ResolvesUnknown(a) == IF IsUnknown(usage[a]) /\ ~IsUnknown(usage'[a]) THEN -1 ELSE 0
Reconciled(a) ==
  Event(a, "attempt.reconciled", usage'[a].tokens - OrZero(usage[a].tokens),
        OrZero(usage'[a].cost) - OrZero(usage[a].cost), ResolvesUnknown(a))
CostAdjusted(a) ==
  Event(a, "attempt.cost_adjusted", 0, usage'[a].cost - OrZero(usage[a].cost), ResolvesUnknown(a))

\* appendOutbox, for the events new of one transaction.
Emit(new) ==
  /\ written + Len(new) <= MaxEvents
  /\ written' = written + Len(new)
  /\ events' = events \o [n \in DOMAIN new |-> [id |-> written + n, acked |-> FALSE, body |-> new[n]]]
  /\ UNCHANGED <<seen, daily>>

WriteAdmit ==
  \E r \in Requests, a \in Attempts, k \in Keys, c \in Connections, est \in Units,
     wall \in Times, priced \in BOOLEAN :
     Admit(r, a, k, c, est, wall, priced) /\ Emit(<<Reserved(a)>>) /\ UNCHANGED at

WriteCancel ==
  \E a \in Attempts : CancelBeforeDispatch(a) /\ Emit(<<Cancelled(a)>>) /\ UNCHANGED at

WriteSettle ==
  \E a \in Attempts, state \in Outcomes, status \in {"provider_reported", "unknown"},
     tokens \in Units \cup {Unknown}, cost \in Costs \cup {Unknown}, final \in BOOLEAN :
     Settle(a, state, status, tokens, cost, final) /\ Emit(<<Settled(a)>>) /\ UNCHANGED at

\* A restart: Recover writes one event per open attempt before the projector
\* starts again.
WriteRecover ==
  /\ \E wall \in Times : Recover(wall)
  /\ LET open == SetToSeq(Active)
     IN  Emit([n \in DOMAIN open |->
                 IF aState[open[n]] = "reserved" THEN Cancelled(open[n]) ELSE Settled(open[n])])
  /\ at' = "idle"

WriteReconcile ==
  \E a \in Attempts, tokens \in Reported, cost \in ReconciledCosts \cup {Unknown} :
     ReconcileUnknown(a, "provider_reported", tokens, cost) /\ Emit(<<Reconciled(a)>>) /\ UNCHANGED at

WriteAdjust ==
  \E a \in Attempts, delta \in Deltas :
     AdjustCost(a, delta) /\ Emit(<<CostAdjusted(a)>>) /\ UNCHANGED at

WriteReprice ==
  \E c \in Connections, from \in Times, to \in 1..MaxTime + 1 :
     /\ ApplyReprice(c, from, to)
     /\ LET applied == SetToSeq({x[1] : x \in assessed' \ assessed})
        IN  Emit([n \in DOMAIN applied |-> CostAdjusted(applied[n])])
     /\ UNCHANGED at

\* Transactions without an event.
Quiet ==
  /\ \/ \E a \in Attempts : MarkDispatching(a) \/ MarkStreaming(a)
     \/ \E r \in Requests : CloseFailedRequest(r) \/ \E state \in Outcomes : FinalizeRequest(r, state)
     \/ \E S \in SUBSET Requests : RepairStaleRequests(S)
     \/ \E v \in Prices, from \in Times : CreatePrice(v, from)
  /\ UNCHANGED projectionVars

-----------------------------------------------------------------------------
(* ProjectOutbox. The batch it reads is in order of the sequence and nothing *)
(* else acknowledges events, so it always works on the first one pending.    *)

NextEvent(e) ==
  \E n \in DOMAIN events : /\ e = events[n] /\ ~e.acked
                           /\ \A m \in 1..n - 1 : events[m].acked

\* INSERT OR IGNORE INTO usage_events: is this the first time?
IsNew(e) == \A s \in seen : s.id # e.id

\* A request counts with the first of its closing events. A settlement looks
\* at settlements only: no settlement follows the cancellation of a request.
RequestIncrement(e) ==
  LET others == IF e.body.type = "attempt.settled" THEN {"attempt.settled"} ELSE Closing
  IN  IF \E s \in seen : s.request = e.body.request /\ s.type \in others THEN 0 ELSE 1

Row(e) == daily[e.body.day][e.body.conn]

\* projectSettlement, projectCancelledRequest, projectReconciliation and
\* projectCostAdjustment; "attempt.reserved" adds nothing.
Projected(row, e) ==
  IF e.body.type = "attempt.reserved" THEN row
  ELSE [exists |-> TRUE,
        requests |-> row.requests + (IF e.body.type \in Closing THEN RequestIncrement(e) ELSE 0),
        tokens |-> row.tokens + e.body.tokens,
        cost |-> row.cost + e.body.cost,
        unknown |-> row.unknown + e.body.unknown]

\* The corrections reject a missing row and a count below zero.
Projectable(e) ==
  e.body.type \in {"attempt.reconciled", "attempt.cost_adjusted"} =>
    /\ Row(e).exists
    /\ Row(e).unknown + e.body.unknown >= 0
    /\ e.body.type = "attempt.cost_adjusted" => Row(e).cost + e.body.cost >= 0

\* The transaction on data.db.
Project ==
  /\ at = "idle"
  /\ \E e \in Range(events) :
       /\ NextEvent(e)
       /\ \/ /\ IsNew(e)
             /\ Projectable(e)
             /\ seen' = seen \cup {[id |-> e.id, type |-> e.body.type, request |-> e.body.request]}
             /\ daily' = [daily EXCEPT ![e.body.day][e.body.conn] = Projected(@, e)]
          \/ ~IsNew(e) /\ UNCHANGED <<seen, daily>>
  /\ at' = "data"
  /\ UNCHANGED <<vars, events, written>>

\* UPDATE event_outbox SET delivered_at.
Ack ==
  /\ at = "data"
  /\ at' = "ack"
  /\ \E e \in Range(events) :
       /\ NextEvent(e)
       /\ events' = [n \in DOMAIN events |-> IF events[n] = e THEN [e EXCEPT !.acked = TRUE] ELSE events[n]]
  /\ Deliver
  /\ UNCHANGED <<written, seen, daily>>

\* DELETE of the event just acknowledged, the last of those acknowledged.
Delete ==
  /\ at = "ack"
  /\ at' = "idle"
  /\ events' = RemoveAt(events, Max({n \in DOMAIN events : events[n].acked}))
  /\ UNCHANGED <<vars, written, seen, daily>>

\* A statement between two commits fails and ProjectOutbox returns.
Interrupt ==
  /\ at # "idle"
  /\ at' = "idle"
  /\ UNCHANGED <<vars, events, written, seen, daily>>

Writes == WriteAdmit \/ WriteCancel \/ WriteSettle \/ WriteRecover \/ WriteReconcile \/ WriteAdjust \/ WriteReprice
ProjectionNext == Writes \/ Quiet \/ Project \/ Ack \/ Delete \/ Interrupt

ProjectionSpec == ProjectionInit /\ [][ProjectionNext]_pVars

\* The worker calls ProjectOutbox every second, and a statement that is tried
\* again and again does not fail for ever.
ProjectionFairSpec == ProjectionSpec /\ WF_pVars(Project) /\ SF_pVars(Ack) /\ WF_pVars(Delete)

-----------------------------------------------------------------------------
(* Properties. *)

Unprojected(e) == ~e.acked /\ e.id \notin {s.id : s \in seen}
Pending == {e \in Range(events) : Unprojected(e)}
In(t, c, S) == {x \in S : x.body.day = t /\ x.body.conn = c}
AttemptsIn(t, c) == {a \in Attempts : aState[a] \in SettledStates /\ aStart[a] = t /\ aConn[a] = c}

\* The daily rows and the events not yet projected together are the attempts'
\* tokens, costs and unknown outcomes, and a request with a projected close is
\* counted once over all rows (projectEvent, nextEvents): no crash between the
\* two databases, and no order of settlement, reconciliation, adjustment and
\* repricing, loses or doubles a count.
DailyExplainsAttempts ==
  /\ \A t \in Times, c \in Connections :
       LET waiting == In(t, c, Pending)
           there == AttemptsIn(t, c)
       IN  /\ daily[t][c].tokens + SumFunction([e \in waiting |-> e.body.tokens])
                = SumFunction([a \in there |-> OrZero(usage[a].tokens)])
           /\ daily[t][c].cost + SumFunction([e \in waiting |-> e.body.cost])
                = SumFunction([a \in there |-> OrZero(usage[a].cost)])
           /\ daily[t][c].unknown + SumFunction([e \in waiting |-> e.body.unknown])
                = Cardinality({a \in there : IsUnknown(usage[a])})
  /\ SumFunction([x \in Times \X Connections |-> daily[x[1]][x[2]].requests])
       = Cardinality({s.request : s \in {x \in seen : x.type \in Closing}})

\* No correction reaches the projection before the settlement it corrects, or
\* takes a count below zero: such an event would fail for ever and hold up
\* every event behind it.
NothingPoisonsTheQueue ==
  \A e \in Range(events) : NextEvent(e) /\ IsNew(e) => Projectable(e)

\* Every event is acknowledged in the end, whatever is interrupted on the way.
EventsAreDelivered ==
  \A n \in 1..MaxEvents :
    (\E e \in Range(events) : e.id = n /\ ~e.acked) ~> ~(\E e \in Range(events) : e.id = n /\ ~e.acked)

\* To a reader of data.db the three steps and their repetition after a crash
\* are one: the totals take each event exactly once, in order.
Totals == [t \in Times |-> [c \in Connections |->
             [tokens |-> daily[t][c].tokens, cost |-> daily[t][c].cost, unknown |-> daily[t][c].unknown]]]
AddEvent(totals, e) ==
  [totals EXCEPT ![e.body.day][e.body.conn] =
     [tokens |-> @.tokens + e.body.tokens, cost |-> @.cost + e.body.cost, unknown |-> @.unknown + e.body.unknown]]
\* The events behind the last one whose effect is in data.db.
Done == {n \in DOMAIN events : ~Unprojected(events[n])}
Waiting == SubSeq(events, Max(Done \cup {0}) + 1, Len(events))
Abstract == INSTANCE ExactlyOnce WITH
  queue <- Waiting,
  totals <- Totals,
  Zero <- [t \in Times |-> [c \in Connections |-> [tokens |-> 0, cost |-> 0, unknown |-> 0]]],
  Add <- AddEvent
ProjectsExactlyOnce == Abstract!Spec
=============================================================================
