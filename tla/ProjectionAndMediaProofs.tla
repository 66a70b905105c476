---------------------- MODULE ProjectionAndMediaProofs ----------------------
(***************************************************************************)
(* Proofs about the two modules that keep rows of their own beside those   *)
(* of Accounting: Projection and MediaJobs, in this order.                 *)
(*                                                                         *)
(* Projection implements ExactlyOnce, for every number of attempts,        *)
(* events, connections and restarts. The mapping takes the waiting events  *)
(* to the queue and the daily rows to the totals. QueueOK is the invariant *)
(* that makes it work: the acknowledged events are a prefix of             *)
(* event_outbox, the projected ones the same prefix or one event longer,   *)
(* and ids grow along the table, so that an event is recognised in         *)
(* usage_events by its id. The facts of the accounting (AccountingProofs)  *)
(* make what the events carry numbers.                                     *)
(*                                                                         *)
(* That the daily rows also add up to what the attempts say (DayInv) needs *)
(* what is still under way: a row and the events that wait for it together *)
(* make the sum over the attempts, and no front part of those events takes *)
(* a count below zero (CountsOK); the row a correction needs is there or   *)
(* is made by an earlier event, and no settlement follows the cancellation *)
(* of its request (OrderInv); amounts that events carry are numbers        *)
(* (MoneyInv); a row has counted each request whose closing event was seen *)
(* (RequestsOK). So no waiting event can poison the queue.                 *)
(*                                                                         *)
(* MediaInv is about MediaJobs, for every number of jobs, every client,    *)
(* every limit of retries and restarts. JobOK ties the row of a job to its *)
(* attempt, its terminal ledger entry and the create requests sent for it; *)
(* WorkerOK says what the worker's point of execution guarantees about the *)
(* job it holds: the row is open, so that no client call gives the attempt *)
(* back, and what was settled before the row is written still holds when   *)
(* it is.                                                                  *)
(***************************************************************************)
EXTENDS Projection, MediaJobs, AccountingProofs, SequenceTheorems

Body == [type : {"attempt.reserved", "request.cancelled_before_dispatch", "attempt.settled",
                 "attempt.reconciled", "attempt.cost_adjusted"},
         request : Requests \cup {Unknown}, day : Times, conn : Connections \cup {Unknown},
         tokens : Int, cost : Int, unknown : Int]
AddsNothing(body) == body.tokens = 0 /\ body.cost = 0 /\ body.unknown = 0
BodyOK(body) == body \in Body /\ (body.type = "attempt.reserved" => AddsNothing(body))
Entry == [id : Nat, acked : BOOLEAN, body : Body]
DayRow == [exists : BOOLEAN, requests : Int, tokens : Int, cost : Int, unknown : Int]

IsSeen(id) == \E s \in seen : s.id = id

\* The first j events are acknowledged, the first k are projected.
FrontAt(j, k) ==
  /\ j \in 0..Len(events) /\ k \in 0..Len(events) /\ (k = j \/ k = j + 1)
  /\ \A n \in DOMAIN events : events[n].acked <=> n <= j
  /\ \A n \in DOMAIN events : (events[n].acked \/ IsSeen(events[n].id)) <=> n <= k
  /\ at = "data" => k = j + 1
  /\ at = "ack" => j >= 1

QueueOK ==
  /\ written \in Nat
  /\ events \in Seq(Entry)
  /\ \A n \in DOMAIN events : events[n].id \in 1..written /\ BodyOK(events[n].body)
  /\ \A m, n \in DOMAIN events : m < n => events[m].id < events[n].id
  /\ \A s \in seen : s.id \in 1..written
  /\ daily \in [Times -> [Connections -> DayRow]]
  /\ \E j, k \in Nat : FrontAt(j, k)

ProjectionInv == LifeInv /\ OutboxRoom /\ FactInv /\ QueueOK

-----------------------------------------------------------------------------
(* The queue. *)

\* What is left of a sequence behind its first k elements.
LEMMA SuffixFacts ==
  ASSUME NEW S, NEW s \in Seq(S), NEW k \in 0..Len(s)
  PROVE  /\ SubSeq(s, k + 1, Len(s)) \in Seq(S)
         /\ Len(SubSeq(s, k + 1, Len(s))) = Len(s) - k
         /\ \A i \in 1..Len(s) - k : SubSeq(s, k + 1, Len(s))[i] = s[k + i]
<1>1. k \in Nat /\ k <= Len(s)
  OBVIOUS
<1>2. SubSeq(s, k + 1, Len(s)) \in Seq(S)
  BY <1>1
<1>3. Len(SubSeq(s, k + 1, Len(s))) = Len(s) - k
  BY <1>1
<1>4. \A i \in 1..Len(s) - k : SubSeq(s, k + 1, Len(s))[i] = s[k + i]
  BY <1>1
<1> QED BY <1>2, <1>3, <1>4

\* The front of the queue tells the waiting events.
WaitingBehind(k) ==
  /\ Waiting = SubSeq(events, k + 1, Len(events))
  /\ Waiting \in Seq(Entry) /\ Len(Waiting) = Len(events) - k
  /\ \A i \in 1..Len(events) - k : Waiting[i] = events[k + i]
WaitingOK == \A j, k \in Nat : FrontAt(j, k) => WaitingBehind(k)

LEMMA WaitingFacts == QueueOK => WaitingOK
<1> SUFFICES ASSUME QueueOK, NEW j \in Nat, NEW k \in Nat, FrontAt(j, k) PROVE WaitingBehind(k)
  BY DEF WaitingOK
<1>1. Len(events) \in Nat /\ DOMAIN events = 1..Len(events)
  BY DEF QueueOK
<1>2. Done \cup {0} = 0..k
  <2>1. \A n \in DOMAIN events : (~Unprojected(events[n])) <=> n <= k
    BY DEF FrontAt, Unprojected, IsSeen
  <2> QED BY <1>1, <2>1 DEF Done, FrontAt
<1>3. Max(Done \cup {0}) = k
  <2>1. \A x \in 0..k : (\A y \in 0..k : x >= y) <=> x = k
    OBVIOUS
  <2> QED BY <1>2, <2>1 DEF Max
<1>4. Waiting = SubSeq(events, k + 1, Len(events))
  BY <1>3 DEF Waiting
<1>5. events \in Seq(Entry) /\ k \in 0..Len(events)
  BY DEF QueueOK, FrontAt
<1> QED BY <1>4, <1>5, SuffixFacts DEF WaitingBehind

\* The same after a step.
LEMMA WaitingNext == QueueOK' => WaitingOK'
  BY WaitingFacts, PTL

\* The event ProjectOutbox works on is the one behind the acknowledged ones.
LEMMA NextFacts ==
  ASSUME QueueOK, NEW j \in Nat, NEW k \in Nat, FrontAt(j, k), NEW e, NextEvent(e)
  PROVE  j + 1 \in DOMAIN events /\ e = events[j + 1]
<1>1. Len(events) \in Nat /\ DOMAIN events = 1..Len(events)
  BY DEF QueueOK
<1>2. PICK n \in DOMAIN events : e = events[n] /\ ~e.acked /\ \A m \in 1..n - 1 : events[m].acked
  BY DEF NextEvent
<1>3. n > j
  BY <1>1, <1>2 DEF FrontAt
<1>4. n <= j + 1
  <2>1. ASSUME n > j + 1 PROVE FALSE
    <3>1. j + 1 \in 1..n - 1 /\ j + 1 \in DOMAIN events
      BY <1>1, <2>1
    <3>2. events[j + 1].acked
      BY <1>2, <3>1
    <3> QED BY <3>1, <3>2, <1>1 DEF FrontAt
  <2> QED BY <1>1, <2>1
<1> QED BY <1>1, <1>2, <1>3, <1>4

\* The initial queue.
LEMMA InitQueue == ProjectionInit => QueueOK /\ Abstract!Init
<1> SUFFICES ASSUME ProjectionInit PROVE QueueOK /\ Abstract!Init
  OBVIOUS
<1>1. QueueOK
  <2>1. daily \in [Times -> [Connections -> DayRow]]
    BY DEF ProjectionInit, NoRow, DayRow
  <2>2. FrontAt(0, 0)
    BY DEF ProjectionInit, FrontAt
  <2> QED BY <2>1, <2>2 DEF ProjectionInit, QueueOK
<1>2. Waiting = <<>>
  <2>1. FrontAt(0, 0)
    BY DEF ProjectionInit, FrontAt
  <2> QED BY <1>1, <2>1, WaitingFacts, EmptySeq DEF ProjectionInit, WaitingOK, WaitingBehind
<1>3. Totals = [t \in Times |-> [c \in Connections |-> [tokens |-> 0, cost |-> 0, unknown |-> 0]]]
  BY DEF ProjectionInit, Totals, NoRow
<1> QED BY <1>1, <1>2, <1>3 DEF Abstract!Init

-----------------------------------------------------------------------------
(* Steps of the queue. *)

AbstractStep == [Abstract!Write \/ Abstract!Apply]_<<Waiting, Totals>>

\* A transaction that appends events writes to the abstract queue; one without
\* events leaves it alone.
LEMMA EmitStep ==
  ASSUME QueueOK, NEW new \in Seq(Body), \A n \in DOMAIN new : BodyOK(new[n]), Emit(new), at' \in {at, "idle"}
  PROVE  QueueOK' /\ AbstractStep
<1> DEFINE f == [n \in DOMAIN new |-> [id |-> written + n, acked |-> FALSE, body |-> new[n]]]
           N == Len(events)
           M == Len(new)
<1>1. /\ written' = written + M /\ events' = events \o f /\ seen' = seen /\ daily' = daily
  BY DEF Emit
<1>2. /\ N \in Nat /\ DOMAIN events = 1..N /\ M \in Nat /\ DOMAIN new = 1..M
      /\ written \in Nat /\ events \in Seq(Entry)
  BY DEF QueueOK
<1>3. \A n \in 1..M : new[n] \in Body
  BY <1>2 DEF BodyOK
<1>4. \A n \in 1..M : /\ f[n] = [id |-> written + n, acked |-> FALSE, body |-> new[n]]
                      /\ f[n] \in Entry /\ f[n].id = written + n /\ f[n].acked = FALSE /\ f[n].body = new[n]
  BY <1>2, <1>3 DEF Entry
<1>5. f \in Seq(Entry) /\ Len(f) = M
  <2>1. f = [n \in 1..M |-> f[n]]
    BY <1>2
  <2> HIDE DEF f
  <2>2. f \in [1..M -> Entry]
    BY <2>1, <1>4
  <2> QED BY <1>2, <2>2
<1> HIDE DEF f
<1>6. /\ events' \in Seq(Entry) /\ Len(events') = N + M
      /\ DOMAIN events' = 1..N + M
      /\ \A n \in 1..N : events'[n] = events[n]
      /\ \A n \in N + 1..N + M : n - N \in 1..M /\ events'[n] = f[n - N]
  <2>1. events' \in Seq(Entry) /\ Len(events') = N + M
    <3>1. events \o f \in Seq(Entry) /\ Len(events \o f) = Len(events) + Len(f)
      BY <1>2, <1>5, ConcatProperties
    <3> QED BY <3>1, <1>1, <1>5
  <2>2. \A n \in 1..N + M : events'[n] = IF n <= N THEN events[n] ELSE f[n - N]
    BY <1>1, <1>2, <1>5, ConcatProperties
  <2> QED BY <1>2, <2>1, <2>2
<1> HIDE DEF N, M
<1>7. PICK j \in Nat, k \in Nat : FrontAt(j, k)
  BY DEF QueueOK
<1>8. \A n \in N + 1..N + M : /\ ~events'[n].acked /\ events'[n].id = written + (n - N)
                              /\ events'[n].id \in 1..written' /\ events'[n].id > written
                              /\ BodyOK(events'[n].body)
  <2> SUFFICES ASSUME NEW n \in N + 1..N + M
               PROVE  /\ ~events'[n].acked /\ events'[n].id = written + (n - N)
                      /\ events'[n].id \in 1..written' /\ events'[n].id > written
                      /\ BodyOK(events'[n].body)
    OBVIOUS
  <2>1. n - N \in 1..M /\ events'[n] = f[n - N]
    BY <1>6
  <2>2. events'[n].id = written + (n - N) /\ events'[n].acked = FALSE /\ events'[n].body = new[n - N]
    BY <2>1, <1>4
  <2>3. BodyOK(new[n - N])
    BY <2>1, <1>2
  <2>4. written + (n - N) \in 1..written' /\ written + (n - N) > written
    BY <2>1, <1>1, <1>2
  <2> QED BY <2>2, <2>3, <2>4
<1>9. \A n \in 1..N : /\ events[n].id \in 1..written /\ events[n].id \in 1..written' /\ BodyOK(events[n].body)
  BY <1>1, <1>2 DEF QueueOK
<1>10. /\ j \in 0..N /\ k \in 0..N /\ (k = j \/ k = j + 1)
       /\ \A n \in 1..N : (events[n].acked <=> n <= j) /\ ((events[n].acked \/ IsSeen(events[n].id)) <=> n <= k)
       /\ at = "data" => k = j + 1
       /\ at = "ack" => j >= 1
  BY <1>2, <1>7 DEF FrontAt, N
<1>12. \A i : IsSeen(i) => i \in 1..written
  BY DEF IsSeen, QueueOK
<1>13. FrontAt(j, k)'
  <2>1. \A n \in 1..N + M : n \in 1..N \/ n \in N + 1..N + M
    BY <1>2
  <2>2. \A n \in 1..N + M : events'[n].acked <=> n <= j
    <3>1. \A n \in 1..N : events'[n].acked <=> n <= j
      BY <1>6, <1>10
    <3>2. \A n \in N + 1..N + M : ~events'[n].acked /\ ~(n <= j)
      BY <1>2, <1>8, <1>10
    <3> QED BY <2>1, <3>1, <3>2
  <2>3. \A n \in 1..N + M : (events'[n].acked \/ IsSeen(events'[n].id)) <=> n <= k
    <3>1. \A n \in 1..N : (events'[n].acked \/ IsSeen(events'[n].id)) <=> n <= k
      BY <1>6, <1>10
    <3>2. \A n \in N + 1..N + M : ~events'[n].acked /\ ~IsSeen(events'[n].id) /\ ~(n <= k)
      BY <1>2, <1>8, <1>10, <1>12
    <3> QED BY <2>1, <3>1, <3>2
  <2>4. j \in 0..N + M /\ k \in 0..N + M
    BY <1>2, <1>10
  <2>5. (at' = "data" => k = j + 1) /\ (at' = "ack" => j >= 1)
    BY <1>10
  <2> QED BY <1>1, <1>6, <1>10, <2>2, <2>3, <2>4, <2>5 DEF FrontAt, IsSeen
<1>14. QueueOK'
  <2>1. \A n \in 1..N + M : events'[n].id \in 1..written' /\ BodyOK(events'[n].body)
    <3>1. \A n \in 1..N + M : n \in 1..N \/ n \in N + 1..N + M
      BY <1>2
    <3> QED BY <3>1, <1>6, <1>8, <1>9
  <2>2. \A m, n \in 1..N + M : m < n => events'[m].id < events'[n].id
    <3> SUFFICES ASSUME NEW m \in 1..N + M, NEW n \in 1..N + M, m < n PROVE events'[m].id < events'[n].id
      OBVIOUS
    <3>1. CASE n <= N
      <4>1. m \in 1..N /\ n \in 1..N
        BY <3>1, <1>2
      <4> QED BY <4>1, <1>2, <1>6 DEF QueueOK
    <3>2. CASE m <= N /\ n > N
      <4>1. m \in 1..N /\ n \in N + 1..N + M
        BY <3>2, <1>2
      <4> QED BY <4>1, <1>6, <1>8, <1>9, <1>2
    <3>3. CASE m > N
      <4>1. m \in N + 1..N + M /\ n \in N + 1..N + M
        BY <3>3, <1>2
      <4> QED BY <4>1, <1>8, <1>2
    <3> QED BY <3>1, <3>2, <3>3, <1>2
  <2>3. \A s \in seen' : s.id \in 1..written'
    BY <1>1, <1>2 DEF QueueOK
  <2>4. daily' \in [Times -> [Connections -> DayRow]] /\ written' \in Nat
    BY <1>1, <1>2 DEF QueueOK
  <2> QED BY <1>6, <1>13, <2>1, <2>2, <2>3, <2>4 DEF QueueOK
<1>15. Totals' = Totals
  BY <1>1 DEF Totals
<1>16. WaitingBehind(k) /\ WaitingBehind(k)'
  BY <1>7, <1>13, <1>14, WaitingFacts, WaitingNext DEF WaitingOK
<1>17. /\ Waiting \in Seq(Entry) /\ Len(Waiting) = N - k /\ \A i \in 1..N - k : Waiting[i] = events[k + i]
       /\ Waiting' \in Seq(Entry) /\ Len(Waiting') = (N + M) - k
       /\ \A i \in 1..(N + M) - k : Waiting'[i] = events'[k + i]
  <2>1. Waiting \in Seq(Entry) /\ Len(Waiting) = N - k /\ \A i \in 1..N - k : Waiting[i] = events[k + i]
    BY <1>16 DEF WaitingBehind, N
  <2>2. /\ Waiting' \in Seq(Entry) /\ Len(Waiting') = Len(events') - k
        /\ \A i \in 1..Len(events') - k : Waiting'[i] = events'[k + i]
    BY <1>16 DEF WaitingBehind
  <2>3. Len(events') = N + M
    BY <1>6
  <2>4. \A i \in 1..(N + M) - k : Waiting'[i] = events'[k + i]
    BY <2>2, <2>3, Zenon
  <2>5. Len(Waiting') = (N + M) - k
    BY <2>2, <2>3, Zenon
  <2> QED BY <2>1, <2>2, <2>4, <2>5, Zenon
<1>18. \A i \in 1..N - k : Waiting'[i] = Waiting[i]
  <2>1. \A i \in 1..N - k : i \in 1..(N + M) - k /\ k + i \in 1..N
    BY <1>2, <1>10
  <2> QED BY <2>1, <1>6, <1>17
<1>19. CASE M = 0
  <2>1. Waiting' = Waiting
    BY <1>2, <1>10, <1>17, <1>18, <1>19, SeqEqual
  <2> QED BY <2>1, <1>14, <1>15 DEF AbstractStep
<1>20. CASE M > 0
  <2>1. Len(Waiting') > Len(Waiting)
    BY <1>20, <1>2, <1>10, <1>17
  <2>2. SubSeq(Waiting', 1, Len(Waiting)) = Waiting
    <3> DEFINE w == Waiting'
               L == Len(Waiting)
    <3>1. w \in Seq(Entry) /\ L \in Nat /\ L <= Len(w) /\ Waiting \in Seq(Entry)
      BY <1>17, <2>1
    <3>2. \A i \in 1..L : w[i] = Waiting[i]
      BY <1>17, <1>18
    <3> HIDE DEF w
    <3>3. SubSeq(w, 1, L) \in Seq(Entry)
      BY <3>1 DEF L
    <3>4. Len(SubSeq(w, 1, L)) = L
      BY <3>1 DEF L
    <3>5. \A i \in 1..L : SubSeq(w, 1, L)[i] = w[i]
      BY <3>1 DEF L
    <3>6. SubSeq(w, 1, L) = Waiting
      BY <3>1, <3>2, <3>3, <3>4, <3>5, SeqEqual
    <3> QED BY <3>6 DEF w
  <2> QED BY <2>1, <2>2, <1>14, <1>15 DEF AbstractStep, Abstract!Write
<1> QED BY <1>19, <1>20, <1>2

\* Steps that leave the tables alone.
LEMMA StillStep ==
  ASSUME QueueOK, UNCHANGED <<events, written, seen, daily>>, at' \in {at, "idle"}
  PROVE  QueueOK' /\ AbstractStep
<1>1. PICK j \in Nat, k \in Nat : FrontAt(j, k)
  BY DEF QueueOK
<1>2. FrontAt(j, k)'
  BY <1>1 DEF FrontAt, IsSeen
<1>3. QueueOK'
  BY <1>2 DEF QueueOK
<1>4. Waiting' = Waiting /\ Totals' = Totals
  BY DEF Waiting, Done, Unprojected, Totals
<1> QED BY <1>3, <1>4 DEF AbstractStep

\* The event projected is the first one waiting.
LEMMA ProjectStep ==
  ASSUME QueueOK, Project
  PROVE  QueueOK' /\ AbstractStep
<1>1. Len(events) \in Nat /\ DOMAIN events = 1..Len(events)
  BY DEF QueueOK
<1>2. PICK j \in Nat, k \in Nat : FrontAt(j, k)
  BY DEF QueueOK
<1>3. /\ at = "idle" /\ at' = "data" /\ UNCHANGED <<events, written>>
  BY DEF Project
<1>4. PICK e \in Range(events) :
        /\ NextEvent(e)
        /\ \/ /\ IsNew(e)
              /\ seen' = seen \cup {[id |-> e.id, type |-> e.body.type, request |-> e.body.request]}
              /\ daily' = [daily EXCEPT ![e.body.day][e.body.conn] = Projected(@, e)]
           \/ ~IsNew(e) /\ UNCHANGED <<seen, daily>>
  BY DEF Project
<1>5. j + 1 \in 1..Len(events) /\ e = events[j + 1]
  BY <1>1, <1>2, <1>4, NextFacts
<1>6. e \in Entry /\ BodyOK(e.body) /\ e.id \in 1..written /\ ~e.acked
  BY <1>1, <1>4, <1>5 DEF QueueOK, NextEvent
<1>7. IsNew(e) <=> ~IsSeen(e.id)
  BY DEF IsNew, IsSeen
<1>8. CASE ~IsNew(e)
  <2>1. k = j + 1 /\ UNCHANGED <<seen, daily>>
    BY <1>1, <1>2, <1>4, <1>5, <1>6, <1>7, <1>8 DEF FrontAt
  <2>2. FrontAt(j, k)'
    BY <1>2, <1>3, <2>1 DEF FrontAt, IsSeen
  <2>3. QueueOK'
    BY <1>3, <2>1, <2>2 DEF QueueOK
  <2>4. Waiting' = Waiting /\ Totals' = Totals
    BY <1>3, <2>1 DEF Waiting, Done, Unprojected, Totals
  <2> QED BY <2>3, <2>4 DEF AbstractStep
<1>9. CASE IsNew(e)
  <2> DEFINE mark == [id |-> e.id, type |-> e.body.type, request |-> e.body.request]
  <2>1. /\ seen' = seen \cup {mark}
        /\ daily' = [daily EXCEPT ![e.body.day][e.body.conn] = Projected(@, e)]
    BY <1>4, <1>9
  <2>2. mark.id = e.id
    OBVIOUS
  <2> HIDE DEF mark
  <2>3. k = j
    BY <1>1, <1>2, <1>5, <1>6, <1>7, <1>9 DEF FrontAt
  <2>4. \A n \in 1..Len(events) : events[n].id = e.id => n = j + 1
    <3> SUFFICES ASSUME NEW n \in 1..Len(events), n # j + 1 PROVE events[n].id # e.id
      OBVIOUS
    <3>1. events[n].id \in Nat /\ e.id \in Nat
      BY <1>1, <1>6 DEF QueueOK
    <3>2. n < j + 1 \/ j + 1 < n
      BY <1>1
    <3>3. \A l, m \in DOMAIN events : l < m => events[l].id < events[m].id
      BY DEF QueueOK
    <3>4. n \in DOMAIN events /\ j + 1 \in DOMAIN events /\ events[j + 1].id = e.id
      BY <1>1, <1>5
    <3>5. events[n].id < e.id \/ e.id < events[n].id
      BY <3>2, <3>3, <3>4
    <3> QED BY <3>1, <3>5
  <2>5. FrontAt(j, j + 1)'
    <3>1. \A n \in 1..Len(events) : (events[n].acked \/ IsSeen(events[n].id)) <=> n <= j
      BY <1>1, <1>2, <2>3 DEF FrontAt
    <3>2. \A n \in 1..Len(events) : (events[n].acked \/ \E s \in seen' : s.id = events[n].id) <=> n <= j + 1
      <4> SUFFICES ASSUME NEW n \in 1..Len(events)
                   PROVE  (events[n].acked \/ \E s \in seen' : s.id = events[n].id) <=> n <= j + 1
        OBVIOUS
      <4>1. (\E s \in seen' : s.id = events[n].id) <=> (IsSeen(events[n].id) \/ n = j + 1)
        BY <2>1, <2>2, <2>4, <1>5 DEF IsSeen
      <4> QED BY <4>1, <3>1, <1>1
    <3>3. \A n \in 1..Len(events) : events[n].acked <=> n <= j
      BY <1>1, <1>2 DEF FrontAt
    <3> QED BY <1>1, <1>2, <1>3, <1>5, <3>2, <3>3 DEF FrontAt, IsSeen
  <2>6. \A t \in Times, c \in Connections :
          daily'[t][c] = IF t = e.body.day /\ c = e.body.conn THEN Projected(daily[t][c], e) ELSE daily[t][c]
    BY <2>1 DEF QueueOK
  <2>7. ASSUME NEW t \in Times, NEW c \in Connections
        PROVE  /\ Projected(daily[t][c], e) \in DayRow
               /\ Projected(daily[t][c], e).tokens = daily[t][c].tokens + e.body.tokens
               /\ Projected(daily[t][c], e).cost = daily[t][c].cost + e.body.cost
               /\ Projected(daily[t][c], e).unknown = daily[t][c].unknown + e.body.unknown
    <3>1. RequestIncrement(e) \in {0, 1}
      BY DEF RequestIncrement
    <3>2. daily[t][c] \in DayRow
      BY DEF QueueOK
    <3>3. e.body \in Body
      BY <1>6 DEF BodyOK
    <3>4. CASE e.body.type = "attempt.reserved"
      BY <1>6, <3>2, <3>4 DEF Projected, BodyOK, AddsNothing, DayRow
    <3>5. CASE e.body.type # "attempt.reserved"
      BY <3>1, <3>2, <3>3, <3>5 DEF Projected, DayRow, Body
    <3> QED BY <3>4, <3>5
  <2>8. daily' \in [Times -> [Connections -> DayRow]]
    <3>1. daily' = [t \in Times |-> [c \in Connections |-> daily'[t][c]]]
      BY <2>1 DEF QueueOK
    <3>2. \A t \in Times, c \in Connections : daily'[t][c] \in DayRow
      BY <2>6, <2>7 DEF QueueOK
    <3> QED BY <3>1, <3>2
  <2>9. QueueOK'
    <3>1. \A s \in seen' : s.id \in 1..written'
      BY <2>1, <2>2, <1>3, <1>6 DEF QueueOK
    <3>2. j + 1 \in Nat
      OBVIOUS
    <3> QED BY <1>3, <2>5, <2>8, <3>1, <3>2 DEF QueueOK
  <2>10. Totals' = AddEvent(Totals, e)
    <3> DEFINE sum(t, c) == [tokens |-> daily[t][c].tokens + e.body.tokens, cost |-> daily[t][c].cost + e.body.cost,
                             unknown |-> daily[t][c].unknown + e.body.unknown]
               row(t, c) == [tokens |-> daily[t][c].tokens, cost |-> daily[t][c].cost, unknown |-> daily[t][c].unknown]
               goal(t, c) == IF t = e.body.day /\ c = e.body.conn THEN sum(t, c) ELSE row(t, c)
    <3>1. Totals' = [t \in Times |-> [c \in Connections |->
                       [tokens |-> daily'[t][c].tokens, cost |-> daily'[t][c].cost, unknown |-> daily'[t][c].unknown]]]
      BY DEF Totals
    <3>2. \A t \in Times, c \in Connections :
            [tokens |-> daily'[t][c].tokens, cost |-> daily'[t][c].cost, unknown |-> daily'[t][c].unknown] = goal(t, c)
      BY <2>6, <2>7
    <3>3. Totals' = [t \in Times |-> [c \in Connections |-> goal(t, c)]]
      BY <3>1, <3>2
    <3>4. Totals = [t \in Times |-> [c \in Connections |-> row(t, c)]]
      BY DEF Totals
    <3>5. AddEvent(Totals, e) = [t \in Times |-> [c \in Connections |-> goal(t, c)]]
      <4> DEFINE Cell == [tokens : Int, cost : Int, unknown : Int]
      <4>1. \A t \in Times, c \in Connections : daily[t][c] \in DayRow
        BY DEF QueueOK
      <4>2. \A t \in Times, c \in Connections : row(t, c) \in Cell
        BY <4>1 DEF DayRow
      <4>3. Totals \in [Times -> [Connections -> Cell]]
        BY <3>4, <4>2
      <4> HIDE DEF Cell
      <4>4. AddEvent(Totals, e) = [t \in Times |-> [c \in Connections |-> AddEvent(Totals, e)[t][c]]]
        BY <4>3 DEF AddEvent
      <4>5. ASSUME NEW t \in Times, NEW c \in Connections PROVE AddEvent(Totals, e)[t][c] = goal(t, c)
        <5>1. Totals[t][c] = row(t, c)
          BY <3>4
        <5>2. /\ Totals[t][c].tokens = daily[t][c].tokens /\ Totals[t][c].cost = daily[t][c].cost
              /\ Totals[t][c].unknown = daily[t][c].unknown
          BY <5>1
        <5>3. AddEvent(Totals, e)[t][c]
                = IF t = e.body.day /\ c = e.body.conn
                  THEN [tokens |-> Totals[t][c].tokens + e.body.tokens, cost |-> Totals[t][c].cost + e.body.cost,
                        unknown |-> Totals[t][c].unknown + e.body.unknown]
                  ELSE Totals[t][c]
          BY <4>3 DEF AddEvent
        <5> QED BY <5>1, <5>2, <5>3
      <4> HIDE DEF goal
      <4> QED BY <4>4, <4>5
    <3> QED BY <3>3, <3>5
  <2>11. WaitingBehind(j) /\ WaitingBehind(j + 1)'
    BY <1>2, <2>3, <2>5, <2>9, WaitingFacts, WaitingNext DEF WaitingOK
  <2>12. Waiting # <<>> /\ Head(Waiting) = e /\ Waiting' = Tail(Waiting)
    <3> DEFINE L == Len(events)
    <3>1. /\ Waiting \in Seq(Entry) /\ Len(Waiting) = L - j /\ \A i \in 1..L - j : Waiting[i] = events[j + i]
      BY <2>11 DEF WaitingBehind
    <3>2. /\ Waiting' \in Seq(Entry) /\ Len(Waiting') = L - (j + 1)
          /\ \A i \in 1..L - (j + 1) : Waiting'[i] = events[(j + 1) + i]
      BY <2>11, <1>3 DEF WaitingBehind
    <3>3. L \in Nat /\ j + 1 <= L
      BY <1>1, <1>5
    <3> HIDE DEF L
    <3>4. Waiting # <<>> /\ Head(Waiting) = e
      BY <3>1, <3>3, <1>5
    <3>5. Tail(Waiting) \in Seq(Entry) /\ Len(Tail(Waiting)) = L - (j + 1)
      BY <3>1, <3>3, <3>4, HeadTailProperties
    <3>6. \A i \in 1..L - (j + 1) : Tail(Waiting)[i] = Waiting[i + 1]
      BY <3>1, <3>4, <3>5, HeadTailProperties
    <3>7. \A i \in 1..L - (j + 1) : i + 1 \in 1..L - j /\ j + (i + 1) = (j + 1) + i
      BY <3>3
    <3>8. \A i \in 1..L - (j + 1) : Tail(Waiting)[i] = Waiting'[i]
      BY <3>1, <3>2, <3>6, <3>7
    <3> QED BY <3>2, <3>4, <3>5, <3>8, SeqEqual
  <2> QED BY <2>9, <2>10, <2>12 DEF AbstractStep, Abstract!Apply
<1> QED BY <1>8, <1>9

\* The event acknowledged is the one just projected.
LEMMA AckStep ==
  ASSUME QueueOK, Ack
  PROVE  QueueOK' /\ AbstractStep
<1> DEFINE L == Len(events)
<1>1. L \in Nat /\ DOMAIN events = 1..L /\ events \in Seq(Entry)
  BY DEF QueueOK
<1>2. PICK j \in Nat, k \in Nat : FrontAt(j, k)
  BY DEF QueueOK
<1>3. PICK e \in Range(events) :
        /\ NextEvent(e)
        /\ events' = [n \in DOMAIN events |-> IF events[n] = e THEN [e EXCEPT !.acked = TRUE] ELSE events[n]]
  BY DEF Ack
<1>4. at = "data" /\ at' = "ack" /\ UNCHANGED <<written, seen, daily>>
  BY DEF Ack
<1>5. j + 1 \in 1..L /\ e = events[j + 1]
  BY <1>1, <1>2, <1>3, NextFacts
<1>6. \A n \in 1..L : events[n] \in Entry /\ events[n].id \in 1..written /\ BodyOK(events[n].body)
  BY <1>1 DEF QueueOK
<1>7. \A n \in 1..L : events[n] = e <=> n = j + 1
  <2> SUFFICES ASSUME NEW n \in 1..L, n # j + 1 PROVE events[n].id # events[j + 1].id
    BY <1>5
  <2>1. n < j + 1 \/ j + 1 < n
    BY <1>1
  <2>2. events[n].id \in Int /\ events[j + 1].id \in Int
    BY <1>5, <1>6
  <2> QED BY <1>1, <1>5, <2>1, <2>2 DEF QueueOK
<1>8. \A n \in 1..L : events'[n] = IF n = j + 1 THEN [events[n] EXCEPT !.acked = TRUE] ELSE events[n]
  BY <1>1, <1>3, <1>5, <1>7
<1>9. \A n \in 1..L : /\ events'[n] \in Entry /\ events'[n].id = events[n].id /\ events'[n].body = events[n].body
                      /\ n = j + 1 => events'[n].acked
                      /\ n # j + 1 => events'[n] = events[n]
  <2> SUFFICES ASSUME NEW n \in 1..L
               PROVE  /\ events'[n] \in Entry /\ events'[n].id = events[n].id /\ events'[n].body = events[n].body
                      /\ n = j + 1 => events'[n].acked
                      /\ n # j + 1 => events'[n] = events[n]
    OBVIOUS
  <2>1. events[n] \in Entry
    BY <1>6
  <2> QED BY <2>1, <1>8 DEF Entry
<1>10. events' \in Seq(Entry) /\ Len(events') = L /\ DOMAIN events' = 1..L
  <2>1. events' = [n \in 1..L |-> events'[n]]
    BY <1>1, <1>3
  <2>2. events' \in [1..L -> Entry]
    BY <1>9, <2>1
  <2> QED BY <1>1, <2>2
<1> HIDE DEF L
<1>11. k = j + 1
  BY <1>2, <1>4 DEF FrontAt
<1>12. FrontAt(j + 1, k)'
  <2>1. \A n \in 1..L : (events[n].acked <=> n <= j) /\ ((events[n].acked \/ IsSeen(events[n].id)) <=> n <= j + 1)
    BY <1>1, <1>2, <1>11 DEF FrontAt
  <2>2. \A n \in 1..L : events'[n].acked <=> n <= j + 1
    BY <1>1, <1>9, <2>1
  <2>3. \A n \in 1..L : (events'[n].acked \/ IsSeen(events'[n].id)) <=> n <= j + 1
    BY <1>1, <1>9, <2>1
  <2> QED BY <1>1, <1>4, <1>5, <1>10, <1>11, <2>2, <2>3 DEF FrontAt, IsSeen
<1>13. QueueOK'
  <2>1. \A n \in 1..L : events'[n].id \in 1..written /\ BodyOK(events'[n].body)
    BY <1>6, <1>9
  <2>2. \A m, n \in 1..L : m < n => events'[m].id < events'[n].id
    BY <1>1, <1>9 DEF QueueOK
  <2>3. j + 1 \in Nat
    OBVIOUS
  <2> QED BY <1>4, <1>10, <1>12, <2>1, <2>2, <2>3 DEF QueueOK
<1>14. WaitingBehind(k) /\ WaitingBehind(k)'
  BY <1>2, <1>12, <1>13, WaitingFacts, WaitingNext DEF WaitingOK
<1>15. /\ Waiting \in Seq(Entry) /\ Len(Waiting) = L - k /\ \A i \in 1..L - k : Waiting[i] = events[k + i]
  BY <1>14 DEF WaitingBehind, L
<1>16. /\ Waiting' \in Seq(Entry) /\ Len(Waiting') = L - k /\ \A i \in 1..L - k : Waiting'[i] = events'[k + i]
  <2>1. /\ Waiting' \in Seq(Entry) /\ Len(Waiting') = Len(events') - k
        /\ \A i \in 1..Len(events') - k : Waiting'[i] = events'[k + i]
    BY <1>14 DEF WaitingBehind
  <2> QED BY <2>1, <1>10, Zenon
<1>17. \A i \in 1..L - k : k + i \in 1..L /\ k + i # j + 1
  BY <1>1, <1>11
<1>18. \A i \in 1..L - k : Waiting'[i] = Waiting[i]
  BY <1>9, <1>15, <1>16, <1>17
<1>19. Waiting' = Waiting
  BY <1>15, <1>16, <1>18, SeqEqual
<1>20. Totals' = Totals
  BY <1>4 DEF Totals
<1> QED BY <1>13, <1>19, <1>20 DEF AbstractStep

\* A sequence without its i-th element.
LEMMA RemoveAtFacts ==
  ASSUME NEW S, NEW s \in Seq(S), NEW i \in 1..Len(s)
  PROVE  /\ RemoveAt(s, i) \in Seq(S) /\ Len(RemoveAt(s, i)) = Len(s) - 1
         /\ \A n \in 1..Len(s) - 1 : RemoveAt(s, i)[n] = IF n < i THEN s[n] ELSE s[n + 1]
<1> DEFINE front == SubSeq(s, 1, i - 1)
           back == SubSeq(s, i + 1, Len(s))
<1>1. Len(s) \in Nat /\ i \in Nat /\ i >= 1 /\ i <= Len(s)
  OBVIOUS
<1>2. front \in Seq(S)
  BY <1>1
<1>3. Len(front) = i - 1
  BY <1>1
<1>4. \A n \in 1..i - 1 : front[n] = s[n]
  BY <1>1
<1>5. back \in Seq(S) /\ Len(back) = Len(s) - i /\ \A n \in 1..Len(s) - i : back[n] = s[i + n]
  BY <1>1, SuffixFacts
<1> HIDE DEF front, back
<1>6. front \o back \in Seq(S) /\ Len(front \o back) = Len(front) + Len(back)
  BY <1>2, <1>5, ConcatProperties
<1>7. \A n \in 1..Len(front) + Len(back) :
        (front \o back)[n] = IF n <= Len(front) THEN front[n] ELSE back[n - Len(front)]
  BY <1>2, <1>5, ConcatProperties
<1>8. Len(front) + Len(back) = Len(s) - 1
  BY <1>1, <1>3, <1>5
<1>9. ASSUME NEW n \in 1..Len(s) - 1 PROVE (front \o back)[n] = IF n < i THEN s[n] ELSE s[n + 1]
  <2>1. (front \o back)[n] = IF n <= Len(front) THEN front[n] ELSE back[n - Len(front)]
    BY <1>7, <1>8
  <2>2. CASE n < i
    BY <2>1, <2>2, <1>1, <1>3, <1>4
  <2>3. CASE n >= i
    <3>1. n - (i - 1) \in 1..Len(s) - i /\ i + (n - (i - 1)) = n + 1
      BY <2>3, <1>1
    <3>2. (front \o back)[n] = back[n - (i - 1)]
      BY <2>1, <2>3, <1>1, <1>3
    <3> QED BY <3>1, <3>2, <2>3, <1>5
  <2>4. n < i \/ n >= i
    BY <1>1
  <2> QED BY <2>2, <2>3, <2>4
<1>10. RemoveAt(s, i) = front \o back
  BY DEF RemoveAt, front, back
<1> QED BY <1>6, <1>8, <1>9, <1>10

\* The event deleted is the last one acknowledged.
LEMMA DeleteStep ==
  ASSUME QueueOK, Delete
  PROVE  QueueOK' /\ AbstractStep
<1> DEFINE L == Len(events)
<1>1. L \in Nat /\ DOMAIN events = 1..L /\ events \in Seq(Entry)
  BY DEF QueueOK
<1>2. PICK j \in Nat, k \in Nat : FrontAt(j, k)
  BY DEF QueueOK
<1>3. at = "ack" /\ at' = "idle" /\ UNCHANGED <<written, seen, daily>>
  BY DEF Delete
<1>4. j \in 1..L /\ k \in 1..L /\ (k = j \/ k = j + 1)
  BY <1>1, <1>2, <1>3 DEF FrontAt
<1>5. {n \in DOMAIN events : events[n].acked} = 1..j
  BY <1>1, <1>2, <1>4 DEF FrontAt
<1>6. Max(1..j) = j
  <2>1. \A x \in 1..j : (\A y \in 1..j : x >= y) <=> x = j
    BY <1>4
  <2>2. j \in 1..j
    BY <1>4
  <2> QED BY <2>1, <2>2 DEF Max
<1>7. events' = RemoveAt(events, j)
  BY <1>5, <1>6 DEF Delete
<1>8. /\ events' \in Seq(Entry) /\ Len(events') = L - 1
      /\ \A n \in 1..L - 1 : events'[n] = IF n < j THEN events[n] ELSE events[n + 1]
  BY <1>1, <1>4, <1>7, RemoveAtFacts
<1>9. L - 1 \in Nat /\ DOMAIN events' = 1..L - 1
  BY <1>1, <1>4, <1>8
<1> DEFINE p(n) == IF n < j THEN n ELSE n + 1
<1>10. \A n \in 1..L - 1 : p(n) \in 1..L /\ events'[n] = events[p(n)]
  BY <1>1, <1>4, <1>8
<1>11. \A m, n \in 1..L - 1 : m < n => p(m) < p(n)
  BY <1>1, <1>4
<1>12. \A n \in 1..L - 1 : (p(n) <= j <=> n <= j - 1) /\ (p(n) <= k <=> n <= k - 1)
  BY <1>1, <1>4
<1> HIDE DEF L, p
<1>13. FrontAt(j - 1, k - 1)'
  <2>1. \A n \in 1..L : (events[n].acked <=> n <= j) /\ ((events[n].acked \/ IsSeen(events[n].id)) <=> n <= k)
    BY <1>1, <1>2 DEF FrontAt
  <2>2. \A n \in 1..L - 1 : /\ events'[n].acked <=> n <= j - 1
                            /\ (events'[n].acked \/ IsSeen(events'[n].id)) <=> n <= k - 1
    BY <1>10, <1>12, <2>1
  <2>3. j - 1 \in 0..L - 1 /\ k - 1 \in 0..L - 1 /\ (k - 1 = j - 1 \/ k - 1 = (j - 1) + 1)
    BY <1>1, <1>4
  <2> QED BY <1>3, <1>8, <1>9, <2>2, <2>3 DEF FrontAt, IsSeen
<1>14. QueueOK'
  <2>1. \A n \in 1..L - 1 : events'[n].id \in 1..written /\ BodyOK(events'[n].body)
    BY <1>1, <1>10 DEF QueueOK
  <2>2. \A m, n \in 1..L - 1 : m < n => events'[m].id < events'[n].id
    BY <1>1, <1>10, <1>11 DEF QueueOK
  <2>3. j - 1 \in Nat /\ k - 1 \in Nat
    BY <1>1, <1>4
  <2> QED BY <1>3, <1>8, <1>9, <1>13, <2>1, <2>2, <2>3 DEF QueueOK
<1>15. WaitingBehind(k) /\ WaitingBehind(k - 1)'
  <2>1. j - 1 \in Nat /\ k - 1 \in Nat
    BY <1>1, <1>4
  <2> QED BY <2>1, <1>2, <1>13, <1>14, WaitingFacts, WaitingNext DEF WaitingOK
<1>16. /\ Waiting \in Seq(Entry) /\ Len(Waiting) = L - k /\ \A i \in 1..L - k : Waiting[i] = events[k + i]
  BY <1>15 DEF WaitingBehind, L
<1>17. /\ Waiting' \in Seq(Entry) /\ Len(Waiting') = (L - 1) - (k - 1)
       /\ \A i \in 1..(L - 1) - (k - 1) : Waiting'[i] = events'[(k - 1) + i]
  <2>1. /\ Waiting' \in Seq(Entry) /\ Len(Waiting') = Len(events') - (k - 1)
        /\ \A i \in 1..Len(events') - (k - 1) : Waiting'[i] = events'[(k - 1) + i]
    BY <1>15 DEF WaitingBehind
  <2> QED BY <2>1, <1>8, Zenon
<1>18. (L - 1) - (k - 1) = L - k
  BY <1>1, <1>4
<1>19. \A i \in 1..L - k : (k - 1) + i \in 1..L - 1 /\ p((k - 1) + i) = k + i
  BY <1>1, <1>4 DEF p
<1>20. \A i \in 1..L - k : Waiting'[i] = Waiting[i]
  BY <1>10, <1>16, <1>17, <1>18, <1>19
<1>21. Waiting' = Waiting
  BY <1>16, <1>17, <1>18, <1>20, SeqEqual
<1>22. Totals' = Totals
  BY <1>3 DEF Totals
<1> QED BY <1>14, <1>21, <1>22 DEF AbstractStep

-----------------------------------------------------------------------------
(* What the transactions write. *)

\* An event names the attempt's own request, instant and connection.
LEMMA EventFacts ==
  ASSUME LifeInv', NEW a \in Attempts, NEW tokens \in Int, NEW cost \in Int, NEW unknown \in Int,
         NEW type \in {"attempt.reserved", "request.cancelled_before_dispatch", "attempt.settled",
                       "attempt.reconciled", "attempt.cost_adjusted"}
  PROVE  /\ Event(a, type, tokens, cost, unknown) \in Body
         /\ Event(a, type, tokens, cost, unknown).type = type
<1>1. aReq'[a] \in Requests \cup {Unknown} /\ aStart'[a] \in Times /\ aConn'[a] \in Connections \cup {Unknown}
  BY DEF LifeInv, LifeTypeOK
<1> QED BY <1>1 DEF Event, Body

LEMMA UsageNext ==
  ASSUME FactInv, FactInv', NEW a \in Attempts
  PROVE  /\ usage[a].tokens \in Amount /\ usage[a].cost \in Amount
         /\ usage'[a].tokens \in Amount /\ usage'[a].cost \in Amount
  BY DEF FactInv, FactTypeOK, UsageRow

LEMMA BodyFacts ==
  ASSUME LifeInv', FactInv, FactInv', NEW a \in Attempts
  PROVE  /\ BodyOK(Reserved(a)) /\ BodyOK(Cancelled(a)) /\ BodyOK(Settled(a))
         /\ usage'[a].tokens \in Int => BodyOK(Reconciled(a))
         /\ usage'[a].cost \in Int => BodyOK(CostAdjusted(a))
<1>1. BodyOK(Reserved(a))
  <2>1. aReq'[a] \in Requests \cup {Unknown} /\ aStart'[a] \in Times /\ aConn'[a] \in Connections \cup {Unknown}
    BY DEF LifeInv, LifeTypeOK
  <2> QED BY <2>1 DEF Reserved, Event, Body, BodyOK, AddsNothing
<1>2. BodyOK(Cancelled(a))
  BY EventFacts DEF Cancelled, BodyOK
<1>3. OrZero(usage[a].tokens) \in Int /\ OrZero(usage[a].cost) \in Int
  BY UsageNext, OrZeroFacts
<1>4. OrZero(usage'[a].tokens) \in Int /\ OrZero(usage'[a].cost) \in Int
  BY UsageNext, OrZeroFacts
<1>5. BodyOK(Settled(a))
  <2>1. (IF IsUnknown(usage'[a]) THEN 1 ELSE 0) \in Int
    OBVIOUS
  <2> QED BY <1>4, <2>1, EventFacts DEF Settled, BodyOK
<1>6. ResolvesUnknown(a) \in Int
  BY DEF ResolvesUnknown
<1>7. ASSUME usage'[a].tokens \in Int PROVE BodyOK(Reconciled(a))
  <2>1. /\ usage'[a].tokens - OrZero(usage[a].tokens) \in Int
        /\ OrZero(usage'[a].cost) - OrZero(usage[a].cost) \in Int
    BY <1>3, <1>4, <1>7
  <2> QED BY <1>6, <2>1, EventFacts DEF Reconciled, BodyOK
<1>8. ASSUME usage'[a].cost \in Int PROVE BodyOK(CostAdjusted(a))
  <2>1. usage'[a].cost - OrZero(usage[a].cost) \in Int
    BY <1>3, <1>8
  <2> QED BY <1>6, <2>1, EventFacts DEF CostAdjusted, BodyOK
<1> QED BY <1>1, <1>2, <1>5, <1>7, <1>8

\* Events listed for the attempts of a finite set.
LEMMA ListFacts ==
  ASSUME NEW S, IsFiniteSet(S)
  PROVE  Cardinality(S) \in Nat /\ SetToSeq(S) \in [1..Cardinality(S) -> S]
<1>1. Cardinality(S) \in Nat /\ ExistsBijection(1..Cardinality(S), S)
  BY FS_CardinalityType
<1>2. PICK f \in Bijection(1..Cardinality(S), S) : TRUE
  BY <1>1 DEF ExistsBijection
<1>3. f \in [1..Cardinality(S) -> S] /\ IsInjective(f)
  BY <1>2 DEF Bijection, Injection, IsInjective
<1> QED BY <1>1, <1>3 DEF SetToSeq

\* A transaction with one event.
LEMMA WriteOne ==
  ASSUME QueueOK, NEW body, BodyOK(body), Emit(<<body>>), at' = at
  PROVE  QueueOK' /\ AbstractStep
<1>1. <<body>> \in Seq(Body) /\ \A n \in DOMAIN <<body>> : BodyOK(<<body>>[n])
  BY DEF BodyOK
<1> QED BY <1>1, EmitStep

\* A transaction with one event per attempt of S.
LEMMA WriteMany ==
  ASSUME QueueOK, NEW S \in SUBSET Attempts, NEW body, at' \in {at, "idle"},
         \A n \in DOMAIN SetToSeq(S) : BodyOK(body[n]),
         body = [n \in DOMAIN SetToSeq(S) |-> body[n]], Emit(body)
  PROVE  QueueOK' /\ AbstractStep
<1>1. IsFiniteSet(S)
  BY AttemptsAssumption, FS_Subset
<1>2. Cardinality(S) \in Nat /\ DOMAIN SetToSeq(S) = 1..Cardinality(S)
  BY <1>1, ListFacts
<1>3. body \in Seq(Body)
  BY <1>2 DEF BodyOK
<1>4. DOMAIN body = DOMAIN SetToSeq(S)
  OBVIOUS
<1> QED BY <1>3, <1>4, EmitStep

\* Every step of the projection is a step of the accounting, or none.
LEMMA AccountStep == ProjectionNext => [Next]_vars
<1>1. WriteAdmit => Next
  BY DEF WriteAdmit, Next
<1>2. WriteCancel => Next
  BY DEF WriteCancel, Next
<1>3. WriteSettle => Next
  BY DEF WriteSettle, Next
<1>4. WriteRecover => Next
  BY DEF WriteRecover, Next
<1>5. WriteReconcile => Next
  BY DEF WriteReconcile, Next
<1>6. WriteAdjust => Next
  BY DEF WriteAdjust, Next
<1>7. WriteReprice => Next
  BY DEF WriteReprice, Next
<1>8. Quiet => Next
  BY DEF Quiet, Next
<1>9. Ack => Next
  BY DEF Ack, Next
<1>10. Project \/ Delete \/ Interrupt => UNCHANGED vars
  BY DEF Project, Delete, Interrupt
<1> QED BY <1>1, <1>2, <1>3, <1>4, <1>5, <1>6, <1>7, <1>8, <1>9, <1>10 DEF ProjectionNext, Writes

\* A repricing leaves a cost on every attempt it assessed.
LEMMA RepriceCosts ==
  ASSUME LifeInv, FactInv, NEW c, NEW from, NEW to, ApplyReprice(c, from, to)
  PROVE  /\ {x[1] : x \in assessed' \ assessed} \in SUBSET Attempts
         /\ \A a \in {x[1] : x \in assessed' \ assessed} : usage'[a].cost \in Int
<1> DEFINE items == {a \in Attempts : /\ aConn[a] = c /\ aStart[a] >= from /\ aStart[a] < to
                                      /\ usage[a].tokens # Unknown /\ usage[a].status # "unknown"
                                      /\ catalog[aStart[a]] # Unknown}
           amount == [a \in items |-> CostOf(catalog[aStart[a]], usage[a].tokens) + ledger[a].adjusted]
           applied == {a \in items : <<a, catalog[aStart[a]], "restated">> \notin assessed}
<1>1. /\ usage' = [a \in Attempts |-> IF a \in applied THEN [usage[a] EXCEPT !.cost = amount[a]] ELSE usage[a]]
      /\ assessed' = assessed \cup {<<a, catalog[aStart[a]], "restated">> : a \in applied}
  BY DEF ApplyReprice
<1>2. \A a \in applied : /\ a \in Attempts /\ usage[a].tokens # Unknown /\ catalog[aStart[a]] # Unknown
                         /\ amount[a] = CostOf(catalog[aStart[a]], usage[a].tokens) + ledger[a].adjusted
  OBVIOUS
<1> HIDE DEF applied, amount
<1>3. \A a \in {x[1] : x \in assessed' \ assessed} : a \in applied
  BY <1>1
<1>4. ASSUME NEW a \in applied PROVE usage'[a].cost \in Int
  <2>1. /\ usage[a] \in UsageRow /\ usage[a].tokens \in Amount /\ ledger[a].adjusted \in Int
        /\ catalog[aStart[a]] \in Prices \cup {Unknown}
    BY <1>2 DEF FactInv, FactTypeOK, UsageRow, LedgerRow, LifeInv, LifeTypeOK
  <2>2. amount[a] \in Int
    BY <1>2, <2>1, CostFacts
  <2>3. usage'[a].cost = amount[a]
    BY <1>1, <1>2, <2>1 DEF UsageRow
  <2> QED BY <2>2, <2>3
<1> QED BY <1>2, <1>3, <1>4

\* Every transaction keeps the queue in order and adds to it at its end.
LEMMA WriteStep ==
  ASSUME LifeInv, FactInv, LifeInv', FactInv', QueueOK, Writes
  PROVE  QueueOK' /\ AbstractStep
<1>1. CASE WriteAdmit
  <2>1. PICK a \in Attempts : Emit(<<Reserved(a)>>) /\ at' = at
    BY <1>1 DEF WriteAdmit
  <2> QED BY <2>1, BodyFacts, WriteOne
<1>2. CASE WriteCancel
  <2>1. PICK a \in Attempts : Emit(<<Cancelled(a)>>) /\ at' = at
    BY <1>2 DEF WriteCancel
  <2> QED BY <2>1, BodyFacts, WriteOne
<1>3. CASE WriteSettle
  <2>1. PICK a \in Attempts : Emit(<<Settled(a)>>) /\ at' = at
    BY <1>3 DEF WriteSettle
  <2> QED BY <2>1, BodyFacts, WriteOne
<1>4. CASE WriteRecover
  <2> DEFINE open == SetToSeq(Active)
             body == [n \in DOMAIN open |->
                        IF aState[open[n]] = "reserved" THEN Cancelled(open[n]) ELSE Settled(open[n])]
  <2>1. Emit(body) /\ at' = "idle"
    BY <1>4 DEF WriteRecover
  <2>2. Active \in SUBSET Attempts
    BY DEF Active
  <2>3. open \in [1..Cardinality(Active) -> Active]
    BY <2>2, AttemptsAssumption, FS_Subset, ListFacts
  <2>4. \A n \in DOMAIN open : BodyOK(body[n])
    BY <2>2, <2>3, BodyFacts
  <2>5. body = [n \in DOMAIN open |-> body[n]]
    OBVIOUS
  <2> HIDE DEF body
  <2> QED BY <2>1, <2>2, <2>4, <2>5, WriteMany
<1>5. CASE WriteReconcile
  <2>1. PICK a \in Attempts, tokens \in Reported, cost \in ReconciledCosts \cup {Unknown} :
          ReconcileUnknown(a, "provider_reported", tokens, cost) /\ Emit(<<Reconciled(a)>>) /\ at' = at
    BY <1>5 DEF WriteReconcile
  <2>2. tokens \in Int
    BY AmountsAssumption
  <2>3. usage'[a].tokens = tokens
    BY <2>1 DEF ReconcileUnknown, FactInv, FactTypeOK
  <2> QED BY <2>1, <2>2, <2>3, BodyFacts, WriteOne
<1>6. CASE WriteAdjust
  <2>1. PICK a \in Attempts, delta \in Deltas : AdjustCost(a, delta) /\ Emit(<<CostAdjusted(a)>>) /\ at' = at
    BY <1>6 DEF WriteAdjust
  <2>2. delta \in Int /\ OrZero(usage[a].cost) \in Int
    BY AmountsAssumption, UsageNext, OrZeroFacts
  <2>3. usage'[a].cost = OrZero(usage[a].cost) + delta
    BY <2>1 DEF AdjustCost, FactInv, FactTypeOK, UsageRow
  <2> QED BY <2>1, <2>2, <2>3, BodyFacts, WriteOne
<1>7. CASE WriteReprice
  <2>1. PICK c \in Connections, from \in Times, to \in 1..MaxTime + 1 :
          /\ ApplyReprice(c, from, to)
          /\ LET applied == SetToSeq({x[1] : x \in assessed' \ assessed})
             IN  Emit([n \in DOMAIN applied |-> CostAdjusted(applied[n])])
          /\ at' = at
    BY <1>7 DEF WriteReprice
  <2> DEFINE S == {x[1] : x \in assessed' \ assessed}
             applied == SetToSeq(S)
             body == [n \in DOMAIN applied |-> CostAdjusted(applied[n])]
  <2>2. Emit(body)
    BY <2>1
  <2>3. S \in SUBSET Attempts /\ \A a \in S : usage'[a].cost \in Int
    BY <2>1, RepriceCosts
  <2> HIDE DEF S
  <2>4. applied \in [1..Cardinality(S) -> S]
    BY <2>3, AttemptsAssumption, FS_Subset, ListFacts
  <2>5. \A n \in DOMAIN applied : BodyOK(body[n])
    BY <2>3, <2>4, BodyFacts
  <2>6. body = [n \in DOMAIN applied |-> body[n]]
    OBVIOUS
  <2> HIDE DEF body
  <2> QED BY <2>1, <2>2, <2>3, <2>5, <2>6, WriteMany
<1> QED BY <1>1, <1>2, <1>3, <1>4, <1>5, <1>6, <1>7 DEF Writes

\* The inductive step, and with it the step of the abstract specification.
LEMMA ProjectionStep ==
  ASSUME ProjectionInv, [ProjectionNext]_pVars
  PROVE  ProjectionInv' /\ AbstractStep
<1>1. [Next]_vars
  BY AccountStep DEF pVars
<1>2. LifeInv' /\ OutboxRoom' /\ FactInv'
  BY <1>1, Step, FactStep DEF ProjectionInv
<1>3. QueueOK' /\ AbstractStep
  <2> USE DEF ProjectionInv
  <2>1. CASE Writes
    BY <1>2, <2>1, WriteStep
  <2>2. CASE Quiet \/ Interrupt \/ UNCHANGED pVars
    BY <2>2, StillStep DEF Quiet, Interrupt, pVars, projectionVars
  <2>3. CASE Project
    BY <2>3, ProjectStep
  <2>4. CASE Ack
    BY <2>4, AckStep
  <2>5. CASE Delete
    BY <2>5, DeleteStep
  <2> QED BY <2>1, <2>2, <2>3, <2>4, <2>5 DEF ProjectionNext
<1> QED BY <1>2, <1>3 DEF ProjectionInv

\* Across two databases without a common transaction, and whatever is
\* interrupted between projecting, acknowledging and deleting (ProjectOutbox,
\* projectEvent), a reader of data.db sees every event enter the totals exactly
\* once and in the order of the outbox.
THEOREM ProjectionIsExactlyOnce == ProjectionSpec => ProjectsExactlyOnce
<1>1. ProjectionInit => ProjectionInv /\ Abstract!Init
  BY InitQueue, InitLife, InitRoom, InitFacts DEF ProjectionInit, ProjectionInv
<1>2. ProjectionInv /\ [ProjectionNext]_pVars => ProjectionInv' /\ [Abstract!Write \/ Abstract!Apply]_<<Waiting, Totals>>
  BY ProjectionStep DEF AbstractStep
<1> QED BY <1>1, <1>2, PTL DEF ProjectionSpec, ProjectsExactlyOnce, Abstract!Spec
-----------------------------------------------------------------------------
(* The counts of the daily rows. What a row shows and what the waiting       *)
(* events will add to it is compared with what the attempts are worth, one   *)
(* count, one day and one connection at a time.                              *)

Parts == {"tokens", "cost", "unknown"}
Part(f, x) == IF f = "tokens" THEN x.tokens ELSE IF f = "cost" THEN x.cost ELSE x.unknown
Fact(f, u) ==
  IF f = "tokens" THEN OrZero(u.tokens)
  ELSE IF f = "cost" THEN OrZero(u.cost)
  ELSE IF IsUnknown(u) THEN 1 ELSE 0

\* What an event adds to, and what an attempt is worth in, one daily row.
Brings(f, t, c, body) == IF body.day = t /\ body.conn = c THEN Part(f, body) ELSE 0
Worth(f, t, c, a) ==
  IF aState[a] \in SettledStates /\ aStart[a] = t /\ aConn[a] = c THEN Fact(f, usage[a]) ELSE 0
Coming(f, t, c, X) == Sum([e \in X |-> Brings(f, t, c, e.body)], X)
Worths(f, t, c) == [a \in Attempts |-> Worth(f, t, c, a)]
UpTo(i) == {e \in Pending : e.id <= i}

BalanceOK ==
  \A f \in Parts, t \in Times, c \in Connections :
    Part(f, daily[t][c]) + Coming(f, t, c, Pending) = Sum(Worths(f, t, c), Attempts)

\* No front part of the waiting events takes a count below zero.
NoDip ==
  \A f \in Parts, t \in Times, c \in Connections, i \in Nat :
    Part(f, daily[t][c]) + Coming(f, t, c, UpTo(i)) >= 0

\* The daily row is there, or an event before number i makes it.
Known(t, c, i) ==
  \/ daily[t][c].exists
  \/ \E e \in Pending : e.id < i /\ e.body.type \in Closing /\ e.body.day = t /\ e.body.conn = c
Correcting == {"attempt.reconciled", "attempt.cost_adjusted"}
KnownOK ==
  /\ \A a \in Attempts : aState[a] \in SettledStates => Known(aStart[a], aConn[a], written + 1)
  /\ \A e \in Pending : e.body.type \in Correcting => Known(e.body.day, e.body.conn, e.id)

PlaceOK ==
  /\ \A a \in Attempts : aState[a] # "absent" => aConn[a] \in Connections
  /\ \A e \in Pending : e.body.conn \in Connections
AmountsOK == \A a \in Attempts : usage[a].tokens \in Nat \cup {Unknown} /\ usage[a].cost \in Nat \cup {Unknown}

\* No settlement of a request follows its cancellation.
Cancelling == "request.cancelled_before_dispatch"
CloseOK ==
  /\ \A s \in seen : s.type = Cancelling =>
       /\ s.request \in Requests /\ rState[s.request] = "cancelled"
       /\ \A e \in Pending : e.body.type = "attempt.settled" => e.body.request # s.request
  /\ \A d \in Pending : d.body.type = Cancelling =>
       /\ d.body.request \in Requests /\ rState[d.body.request] = "cancelled"
       /\ \A e \in Pending : e.body.type = "attempt.settled" /\ e.body.request = d.body.request => e.id < d.id

Places == Times \X Connections
ClosedSeen == {s.request : s \in {x \in seen : x.type \in Closing}}
RequestRows == [x \in Places |-> daily[x[1]][x[2]].requests]
RequestsOK == IsFiniteSet(ClosedSeen) /\ Sum(RequestRows, Places) = Cardinality(ClosedSeen)

CountsOK == BalanceOK /\ NoDip

\* A sum over the images of the elements of a set.
ImageOf(ev, S) == {ev[x] : x \in S}
LEMMA SumImage ==
  ASSUME NEW f, NEW g, NEW S, IsFiniteSet(S), NEW ev, \A x, y \in S : ev[x] = ev[y] => x = y,
         \A x \in S : g[x] \in Int /\ f[ev[x]] = g[x]
  PROVE  IsFiniteSet(ImageOf(ev, S)) /\ Sum(f, ImageOf(ev, S)) = Sum(g, S)
<1> DEFINE image(t) == {ev[x] : x \in t}
           bad == {t \in SUBSET S : ~IsFiniteSet(image(t)) \/ Sum(f, image(t)) # Sum(g, t)}
<1>1. \A t \in SUBSET S : IsFiniteSet(t) /\ Cardinality(t) \in Nat
  BY FS_Subset, FS_CardinalityType
<1>2. ASSUME bad # {} PROVE FALSE
  <2>1. PICK t \in bad : \A u \in bad : Cardinality(t) <= Cardinality(u)
    BY <1>1, <1>2, LeastCardinality
  <2>2. t # {}
    <3>1. image({}) = {} /\ IsFiniteSet({}) /\ Sum(f, {}) = 0 /\ Sum(g, {}) = 0
      BY SumEmpty, FS_EmptySet
    <3> QED BY <2>1, <3>1
  <2>3. PICK x \in t : TRUE
    BY <2>2
  <2> DEFINE u == t \ {x}
  <2>4. x \in S /\ u \in SUBSET S /\ t = u \cup {x} /\ x \notin u
    BY <2>3
  <2>5. Cardinality(u) = Cardinality(t) - 1 /\ Cardinality(t) \in Nat /\ IsFiniteSet(u)
    BY <1>1, <2>3, FS_RemoveElement
  <2>6. u \notin bad
    BY <2>1, <2>5
  <2>7. IsFiniteSet(image(u)) /\ Sum(f, image(u)) = Sum(g, u)
    BY <2>4, <2>6
  <2>8. image(t) = image(u) \cup {ev[x]} /\ ev[x] \notin image(u)
    BY <2>4
  <2>9. \A y \in image(u) \cup {ev[x]} : f[y] \in Int
    BY <2>4
  <2>10. IsFiniteSet(image(t)) /\ Sum(f, image(t)) = f[ev[x]] + Sum(f, image(u))
    <3> DEFINE I == image(u)
               z == ev[x]
    <3>1. IsFiniteSet(I) /\ z \notin I /\ \A y \in I \cup {z} : f[y] \in Int
      BY <2>7, <2>8, <2>9
    <3>2. image(t) = I \cup {z}
      BY <2>8
    <3> HIDE DEF I, z
    <3>3. IsFiniteSet(I \cup {z}) /\ Sum(f, I \cup {z}) = f[z] + Sum(f, I)
      BY <3>1, FS_AddElement, SumAdd
    <3>4. IsFiniteSet(image(t)) /\ Sum(f, image(t)) = f[z] + Sum(f, I)
      <4> HIDE DEF image
      <4> QED BY <3>2, <3>3
    <3> QED BY <3>4 DEF I, z
  <2>12. Sum(g, t) = g[x] + Sum(g, u)
    <3> HIDE DEF u
    <3> QED BY <2>4, <2>5, SumAdd
  <2>13. f[ev[x]] = g[x]
    BY <2>4
  <2>14. t \notin bad
    BY <2>7, <2>10, <2>12, <2>13
  <2> QED BY <2>1, <2>14
<1>3. S \notin bad
  BY <1>2
<1> QED BY <1>3 DEF ImageOf

\* A sum of ones.
LEMMA SumOnes ==
  ASSUME NEW f, NEW S, IsFiniteSet(S), \A x \in S : f[x] = 1
  PROVE  Sum(f, S) = Cardinality(S)
<1> DEFINE bad == {t \in SUBSET S : Sum(f, t) # Cardinality(t)}
<1>1. \A t \in SUBSET S : IsFiniteSet(t) /\ Cardinality(t) \in Nat
  BY FS_Subset, FS_CardinalityType
<1>2. ASSUME bad # {} PROVE FALSE
  <2>1. PICK t \in bad : \A u \in bad : Cardinality(t) <= Cardinality(u)
    BY <1>1, <1>2, LeastCardinality
  <2>2. t # {}
    BY <2>1, SumEmpty, FS_EmptySet
  <2>3. Pick(t) \in S /\ t \ {Pick(t)} \in SUBSET S
    BY <2>2, PickFacts
  <2>4. Cardinality(t \ {Pick(t)}) = Cardinality(t) - 1 /\ Cardinality(t) \in Nat
    BY <1>1, <2>2, Remaining
  <2>5. t \ {Pick(t)} \notin bad
    BY <2>1, <2>4
  <2>6. Sum(f, t \ {Pick(t)}) = Cardinality(t \ {Pick(t)})
    BY <2>3, <2>5
  <2>7. Sum(f, t) = f[Pick(t)] + Sum(f, t \ {Pick(t)})
    BY <1>1, <2>2, SumPick
  <2> QED BY <2>1, <2>3, <2>4, <2>6, <2>7
<1> QED BY <1>2

\* The waiting events are entries with ids of their own.
LEMMA PendingFacts ==
  ASSUME QueueOK
  PROVE  /\ IsFiniteSet(Pending)
         /\ \A e \in Pending : /\ e \in Entry /\ BodyOK(e.body) /\ e.id \in 1..written /\ e.id \in Nat /\ ~IsSeen(e.id)
                               /\ ~e.acked
         /\ \A d, e \in Pending : d.id = e.id => d = e
<1>1. Len(events) \in Nat /\ DOMAIN events = 1..Len(events)
  BY DEF QueueOK
<1>2. IsFiniteSet(Pending)
  <2>1. events \in Surjection(DOMAIN events, Range(events))
    BY DEF QueueOK, Surjection, Range
  <2>2. IsFiniteSet(DOMAIN events)
    BY <1>1, FS_Interval
  <2>3. IsFiniteSet(Range(events)) /\ Pending \in SUBSET Range(events)
    BY <2>1, <2>2, FS_Surjection DEF Pending
  <2> QED BY <2>3, FS_Subset
<1>3. \A e \in Pending : ~e.acked /\ ~IsSeen(e.id) /\ \E n \in 1..Len(events) : e = events[n]
  BY <1>1 DEF Pending, Unprojected, Range, IsSeen
<1>4. ASSUME NEW e \in Pending PROVE e \in Entry /\ BodyOK(e.body) /\ e.id \in 1..written /\ e.id \in Nat
  <2>1. PICK n \in 1..Len(events) : e = events[n]
    BY <1>3
  <2> QED BY <1>1, <2>1 DEF QueueOK
<1>5. ASSUME NEW d \in Pending, NEW e \in Pending, d.id = e.id PROVE d = e
  <2>1. PICK m \in 1..Len(events), n \in 1..Len(events) : d = events[m] /\ e = events[n]
    BY <1>3
  <2>2. ~(m < n) /\ ~(n < m)
    <3>1. \A x, y \in 1..Len(events) : x < y => events[x].id < events[y].id /\ events[x].id \in Nat /\ events[y].id \in Nat
      BY <1>1 DEF QueueOK
    <3> QED BY <1>5, <2>1, <3>1
  <2> QED BY <2>1, <2>2
<1> QED BY <1>2, <1>3, <1>4, <1>5
-----------------------------------------------------------------------------
(* What a transaction adds to the waiting events. *)

\* Event ev[a] of each attempt a of S, with a number above all earlier ones.
NewEvents(S, b, ev) ==
  /\ written' \in Nat /\ written' >= written
  /\ \A a \in S : ev[a].body = b[a] /\ ev[a].id \in written + 1..written'
  /\ \A x, y \in S : ev[x].id = ev[y].id => x = y
  /\ Pending' = Pending \cup {ev[a] : a \in S}
  /\ seen' = seen /\ daily' = daily

\* The order in which a transaction lists its events does not matter.
LEMMA EmitPending ==
  ASSUME QueueOK, NEW M \in Nat, NEW S, NEW order \in Bijection(1..M, S), NEW b,
         Emit([n \in 1..M |-> b[order[n]]])
  PROVE  \E ev : NewEvents(S, b, ev)
<1> DEFINE new == [n \in 1..M |-> b[order[n]]]
           f == [n \in DOMAIN new |-> [id |-> written + n, acked |-> FALSE, body |-> new[n]]]
           pos(a) == CHOOSE n \in 1..M : order[n] = a
           ev == [a \in S |-> [id |-> written + pos(a), acked |-> FALSE, body |-> b[a]]]
           N == Len(events)
<1>1. DOMAIN new = 1..M /\ new \in [1..M -> {b[order[n]] : n \in 1..M}]
  OBVIOUS
<1>2. Len(new) = M
  <2> HIDE DEF new
  <2> QED BY <1>1
<1>3. /\ written' = written + M /\ events' = events \o f /\ seen' = seen /\ daily' = daily
  BY <1>2 DEF Emit
<1>4. \A n \in 1..M : f[n] = [id |-> written + n, acked |-> FALSE, body |-> b[order[n]]]
  BY <1>1
<1>5. \A a \in S : pos(a) \in 1..M /\ order[pos(a)] = a
  <2> SUFFICES ASSUME NEW a \in S PROVE pos(a) \in 1..M /\ order[pos(a)] = a
    OBVIOUS
  <2>1. \E n \in 1..M : order[n] = a
    BY DEF Bijection, Surjection
  <2> QED BY <2>1, Zenon
<1>6. \A n \in 1..M : order[n] \in S /\ pos(order[n]) = n
  <2>1. \A n \in 1..M : order[n] \in S
    BY DEF Bijection, Injection
  <2>2. \A m, n \in 1..M : order[m] = order[n] => m = n
    BY DEF Bijection, Injection, IsInjective
  <2> HIDE DEF pos
  <2> QED BY <2>1, <2>2, <1>5
<1>7. written \in Nat /\ N \in Nat /\ DOMAIN events = 1..N /\ events \in Seq(Entry)
  BY DEF QueueOK
<1>8. f \in [1..M -> {f[n] : n \in 1..M}] /\ f \in Seq({f[n] : n \in 1..M}) /\ Len(f) = M
  <2>1. f = [n \in 1..M |-> f[n]]
    BY <1>1
  <2> HIDE DEF f
  <2>2. f \in [1..M -> {f[n] : n \in 1..M}]
    BY <2>1
  <2> QED BY <2>2
<1> HIDE DEF f, pos, new
<1>9. /\ DOMAIN events' = 1..N + M
      /\ \A n \in 1..N : events'[n] = events[n]
      /\ \A n \in N + 1..N + M : n - N \in 1..M /\ events'[n] = f[n - N]
  <2> DEFINE T == Entry \cup {f[n] : n \in 1..M}
  <2>1. events \in Seq(T) /\ f \in Seq(T)
    <3>1. events \in [1..N -> T]
      BY <1>7
    <3>2. f \in [1..M -> T]
      BY <1>8
    <3> HIDE DEF T, N
    <3> QED BY <1>7, <3>1, <3>2
  <2> HIDE DEF T
  <2>2. events \o f \in Seq(T) /\ Len(events \o f) = N + M
    BY <2>1, <1>8, ConcatProperties
  <2>3. \A n \in 1..N + M : (events \o f)[n] = IF n <= N THEN events[n] ELSE f[n - N]
    BY <2>1, <1>8, ConcatProperties
  <2> QED BY <1>3, <1>7, <2>2, <2>3
<1> HIDE DEF N
<1>10. \A a \in S : ev[a] = f[pos(a)] /\ ev[a].body = b[a] /\ ev[a].id = written + pos(a) /\ ev[a].acked = FALSE
  BY <1>4, <1>5
<1>11. \A x, y \in S : ev[x].id = ev[y].id => x = y
  BY <1>5, <1>7, <1>10
<1>12. \A a \in S : ev[a].id \in written + 1..written'
  BY <1>3, <1>5, <1>7, <1>10
<1>13. Range(events') = Range(events) \cup {ev[a] : a \in S}
  <2>1. ASSUME NEW e \in Range(events') PROVE e \in Range(events) \cup {ev[a] : a \in S}
    <3>1. PICK n \in 1..N + M : e = events'[n]
      BY <1>9 DEF Range
    <3>2. CASE n \in 1..N
      BY <3>1, <3>2, <1>7, <1>9 DEF Range
    <3>3. CASE n \in N + 1..N + M
      <4>1. PICK m \in 1..M : e = f[m]
        BY <3>1, <3>3, <1>9
      <4>2. order[m] \in S /\ pos(order[m]) = m
        BY <1>6
      <4>3. e = ev[order[m]]
        BY <4>1, <4>2, <1>10
      <4> HIDE DEF ev
      <4> QED BY <4>2, <4>3
    <3>4. n \in 1..N \/ n \in N + 1..N + M
      BY <3>1, <1>7
    <3> QED BY <3>2, <3>3, <3>4
  <2>2. ASSUME NEW e \in Range(events) PROVE e \in Range(events')
    <3>1. PICK n \in 1..N : e = events[n]
      BY <1>7 DEF Range
    <3>2. n \in 1..N + M
      BY <1>7
    <3> QED BY <3>1, <3>2, <1>9 DEF Range
  <2>3. ASSUME NEW a \in S PROVE ev[a] \in Range(events')
    <3>1. pos(a) \in 1..M
      BY <1>5
    <3> DEFINE n == N + pos(a)
    <3>2. n \in N + 1..N + M /\ n \in 1..N + M /\ n - N = pos(a)
      BY <3>1, <1>7
    <3>3. events'[n] = ev[a]
      BY <3>2, <1>9, <1>10
    <3> HIDE DEF n, ev
    <3> QED BY <3>2, <3>3, <1>9 DEF Range
  <2> HIDE DEF ev
  <2> QED BY <2>1, <2>2, <2>3
<1>14. \A e : Unprojected(e)' <=> Unprojected(e)
  BY <1>3 DEF Unprojected
<1>15. \A a \in S : Unprojected(ev[a])
  <2> SUFFICES ASSUME NEW a \in S PROVE Unprojected(ev[a])
    OBVIOUS
  <2>1. \A s \in seen : s.id \in 1..written
    BY DEF QueueOK
  <2>2. ev[a].id \notin {s.id : s \in seen}
    BY <2>1, <1>7, <1>12
  <2> QED BY <2>2, <1>10 DEF Unprojected
<1>16. Pending' = Pending \cup {ev[a] : a \in S}
  <2> HIDE DEF ev
  <2> QED BY <1>13, <1>14, <1>15 DEF Pending
<1> HIDE DEF ev
<1>17. NewEvents(S, b, ev)
  BY <1>3, <1>7, <1>10, <1>11, <1>12, <1>16 DEF NewEvents
<1> QED BY <1>17

\* One event, or one for each attempt of a set.
LEMMA EmitOne ==
  ASSUME QueueOK, NEW a, NEW body, Emit(<<body>>)
  PROVE  \E ev : NewEvents({a}, [x \in {a} |-> body], ev)
<1> DEFINE order == [n \in 1..1 |-> a]
           b == [x \in {a} |-> body]
<1>1. order \in Bijection(1..1, {a})
  <2>1. \A n \in 1..1 : n = 1
    OBVIOUS
  <2> QED BY <2>1 DEF Bijection, Injection, Surjection, IsInjective
<1>2. <<body>> = [n \in 1..1 |-> b[order[n]]]
  <2>1. <<body>> \in Seq({body}) /\ Len(<<body>>) = 1 /\ <<body>>[1] = body
    OBVIOUS
  <2>2. DOMAIN <<body>> = 1..1 /\ \A n \in 1..1 : n = 1
    OBVIOUS
  <2> QED BY <2>1, <2>2
<1> HIDE DEF order, b
<1>3. \E ev : NewEvents({a}, b, ev)
  BY <1>1, <1>2, EmitPending
<1> QED BY <1>3 DEF b

LEMMA EmitMany ==
  ASSUME QueueOK, NEW S, IsFiniteSet(S), NEW b, Emit([n \in DOMAIN SetToSeq(S) |-> b[SetToSeq(S)[n]]])
  PROVE  \E ev : NewEvents(S, b, ev)
<1> DEFINE M == Cardinality(S)
           order == SetToSeq(S)
<1>1. M \in Nat /\ order \in Bijection(1..M, S)
  <2>1. M \in Nat /\ ExistsBijection(1..M, S)
    BY FS_CardinalityType
  <2>2. PICK g \in Bijection(1..M, S) : TRUE
    BY <2>1 DEF ExistsBijection
  <2>3. g \in [1..M -> S] /\ IsInjective(g)
    BY <2>2 DEF Bijection, Injection, IsInjective
  <2>4. order \in [1..M -> S] /\ IsInjective(order)
    BY <2>1, <2>3 DEF SetToSeq
  <2>5. order \in Injection(1..M, S)
    BY <2>4 DEF Injection, IsInjective
  <2>6. IsFiniteSet(1..M) /\ Cardinality(1..M) = M
    BY <2>1, FS_Interval
  <2>7. order \in Surjection(1..M, S)
    <3> HIDE DEF order
    <3> QED BY <2>5, <2>6, FS_Injection
  <2> QED BY <2>1, <2>5, <2>7 DEF Bijection
<1>2. DOMAIN SetToSeq(S) = 1..M
  BY <1>1 DEF Bijection, Injection
<1> QED BY <1>1, <1>2, EmitPending
\* A transaction with the events b of the attempts S keeps the books: what an
\* event brings is what its attempt is now worth more.
Books(S, b) ==
  /\ \A a \in S : BodyOK(b[a]) /\ b[a].conn \in Connections
  /\ \A f \in Parts, t \in Times, c \in Connections, a \in Attempts :
       Worth(f, t, c, a)' = Worth(f, t, c, a) + (IF a \in S THEN Brings(f, t, c, b[a]) ELSE 0)

LEMMA BringsFacts ==
  ASSUME NEW f \in Parts, NEW t, NEW c, NEW body, BodyOK(body)
  PROVE  Brings(f, t, c, body) \in Int
  BY DEF Brings, Part, BodyOK, Body, Parts

LEMMA WorthFacts ==
  ASSUME FactInv, NEW f \in Parts, NEW t, NEW c, NEW a \in Attempts
  PROVE  Worth(f, t, c, a) \in Int /\ (AmountsOK => Worth(f, t, c, a) \in Nat)
<1>1. usage[a].tokens \in Amount /\ usage[a].cost \in Amount
  BY DEF FactInv, FactTypeOK, UsageRow
<1>2. OrZero(usage[a].tokens) \in Int /\ OrZero(usage[a].cost) \in Int
  BY <1>1, OrZeroFacts
<1>3. AmountsOK => OrZero(usage[a].tokens) \in Nat /\ OrZero(usage[a].cost) \in Nat
  BY DEF AmountsOK, OrZero
<1>4. Fact(f, usage[a]) \in Int /\ (AmountsOK => Fact(f, usage[a]) \in Nat)
  BY <1>2, <1>3 DEF Fact, Parts
<1> QED BY <1>4 DEF Worth

WorthOK ==
  \A f \in Parts, t \in Times, c \in Connections, a \in Attempts :
    Worth(f, t, c, a) \in Int /\ (AmountsOK => Worth(f, t, c, a) \in Nat)
LEMMA WorthNext == FactInv' => WorthOK'
<1>1. FactInv => WorthOK
  BY WorthFacts DEF WorthOK
<1> QED BY <1>1, PTL

\* What two groups of events bring.
LEMMA ComingAdd ==
  ASSUME NEW f \in Parts, NEW t, NEW c, NEW X, IsFiniteSet(X), NEW Y, IsFiniteSet(Y), X \cap Y = {},
         \A e \in X \cup Y : BodyOK(e.body)
  PROVE  Coming(f, t, c, X \cup Y) = Coming(f, t, c, X) + Coming(f, t, c, Y)
<1> DEFINE g(Z) == [e \in Z |-> Brings(f, t, c, e.body)]
<1>1. \A e \in X \cup Y : Brings(f, t, c, e.body) \in Int
  BY BringsFacts
<1>2. \A e \in X \cup Y : g(X \cup Y)[e] \in Int
  BY <1>1
<1>3. \A e \in X : g(X)[e] = g(X \cup Y)[e]
  OBVIOUS
<1>4. \A e \in Y : g(Y)[e] = g(X \cup Y)[e]
  OBVIOUS
<1> HIDE DEF g
<1>5. Sum(g(X), X) = Sum(g(X \cup Y), X) /\ Sum(g(Y), Y) = Sum(g(X \cup Y), Y)
  BY <1>3, <1>4, SumSame
<1>6. Sum(g(X \cup Y), X \cup Y) = Sum(g(X \cup Y), X) + Sum(g(X \cup Y), Y)
  BY <1>2, SumDisjoint
<1> QED BY <1>5, <1>6 DEF Coming, g

LEMMA ComingType ==
  ASSUME NEW f \in Parts, NEW t, NEW c, NEW X, IsFiniteSet(X), \A e \in X : BodyOK(e.body)
  PROVE  Coming(f, t, c, X) \in Int
<1> DEFINE g == [e \in X |-> Brings(f, t, c, e.body)]
<1>1. \A e \in X : g[e] \in Int
  BY BringsFacts
<1> HIDE DEF g
<1>2. Sum(g, X) \in Int
  BY <1>1, SumType
<1> QED BY <1>2 DEF Coming, g

\* What the events of the attempts T bring, by attempt.
LEMMA ComingOf ==
  ASSUME NEW f \in Parts, NEW t, NEW c, NEW T, IsFiniteSet(T), NEW ev, NEW b,
         \A a \in T : ev[a].body = b[a] /\ BodyOK(b[a]),
         \A x, y \in T : ev[x].id = ev[y].id => x = y
  PROVE  /\ IsFiniteSet(ImageOf(ev, T))
         /\ Coming(f, t, c, ImageOf(ev, T)) = Sum([a \in T |-> Brings(f, t, c, b[a])], T)
<1> DEFINE g == [a \in T |-> Brings(f, t, c, b[a])]
           h == [e \in ImageOf(ev, T) |-> Brings(f, t, c, e.body)]
<1>1. \A x, y \in T : ev[x] = ev[y] => x = y
  OBVIOUS
<1>2. \A a \in T : Brings(f, t, c, b[a]) \in Int
  BY BringsFacts
<1>3. \A a \in T : g[a] \in Int /\ h[ev[a]] = g[a]
  BY <1>2 DEF ImageOf
<1> HIDE DEF g, h
<1>4. IsFiniteSet(ImageOf(ev, T)) /\ Sum(h, ImageOf(ev, T)) = Sum(g, T)
  BY <1>1, <1>3, SumImage
<1> QED BY <1>4 DEF Coming, g, h

\* After some of the new events, the row shows the new worth of their attempts
\* and the old worth of the others.
Partly(f, t, c, T, a) == IF a \in T THEN Worth(f, t, c, a)' ELSE Worth(f, t, c, a)
LEMMA BalanceStep ==
  ASSUME QueueOK, FactInv, FactInv', BalanceOK, NEW S \in SUBSET Attempts, NEW b, NEW ev,
         NewEvents(S, b, ev), Books(S, b),
         NEW f \in Parts, NEW t \in Times, NEW c \in Connections, NEW T \in SUBSET S
  PROVE  Part(f, daily[t][c]) + Coming(f, t, c, Pending \cup {ev[a] : a \in T})
           = Sum([a \in Attempts |-> Partly(f, t, c, T, a)], Attempts)
<1> DEFINE new == {ev[a] : a \in T}
           g == [a \in T |-> Brings(f, t, c, b[a])]
           h == [a \in Attempts |-> IF a \in T THEN Brings(f, t, c, b[a]) ELSE 0]
           w == Worths(f, t, c)
           p == [a \in Attempts |-> Partly(f, t, c, T, a)]
<1>1. IsFiniteSet(Attempts) /\ IsFiniteSet(T)
  BY AttemptsAssumption, FS_Subset
<1>2. \A a \in T : ev[a].body = b[a] /\ BodyOK(b[a]) /\ ev[a].id \in written + 1..written'
  BY DEF NewEvents, Books
<1>3. \A x, y \in T : ev[x].id = ev[y].id => x = y
  BY DEF NewEvents
<1>4. IsFiniteSet(new) /\ Coming(f, t, c, new) = Sum(g, T)
  <2>1. new = ImageOf(ev, T)
    BY DEF ImageOf
  <2> HIDE DEF new
  <2> QED BY <1>1, <1>2, <1>3, <2>1, ComingOf
<1>5. /\ IsFiniteSet(Pending) /\ \A e \in Pending : BodyOK(e.body) /\ e.id \in 1..written
      /\ written \in Nat
  BY PendingFacts DEF QueueOK
<1>6. Pending \cap new = {} /\ \A e \in Pending \cup new : BodyOK(e.body)
  BY <1>2, <1>5
<1>7. Coming(f, t, c, Pending \cup new) = Coming(f, t, c, Pending) + Coming(f, t, c, new)
  <2> HIDE DEF new
  <2> QED BY <1>4, <1>5, <1>6, ComingAdd
<1>8. \A a \in T : Brings(f, t, c, b[a]) \in Int
  BY <1>2, BringsFacts
<1>9. (\A a \in T : g[a] \in Int /\ h[a] = g[a]) /\ (\A a \in Attempts \ T : h[a] = 0) /\ T \in SUBSET Attempts
  BY <1>8
<1>10. \A a \in Attempts : w[a] \in Int /\ h[a] \in Int /\ p[a] = w[a] + h[a]
  <2> SUFFICES ASSUME NEW a \in Attempts PROVE w[a] \in Int /\ h[a] \in Int /\ p[a] = w[a] + h[a]
    OBVIOUS
  <2>1. Worth(f, t, c, a) \in Int /\ w[a] = Worth(f, t, c, a)
    BY WorthFacts DEF Worths
  <2>2. Worth(f, t, c, a)' = Worth(f, t, c, a) + (IF a \in S THEN Brings(f, t, c, b[a]) ELSE 0)
    BY DEF Books
  <2>3. CASE a \in T
    BY <2>1, <2>2, <2>3, <1>8 DEF Partly
  <2>4. CASE a \notin T
    BY <2>1, <2>4 DEF Partly
  <2> QED BY <2>3, <2>4
<1> HIDE DEF g, h, w, p, new
<1>11. Sum(p, Attempts) = Sum(w, Attempts) + Sum(h, Attempts)
  BY <1>1, <1>10, SumPlus
<1>12. Sum(h, Attempts) = Sum(g, T)
  BY <1>1, <1>9, SumPart
<1>13. Part(f, daily[t][c]) + Coming(f, t, c, Pending) = Sum(w, Attempts)
  BY DEF BalanceOK, w
<1>14. Part(f, daily[t][c]) \in Int /\ Coming(f, t, c, Pending) \in Int /\ Coming(f, t, c, new) \in Int
  <2>1. Part(f, daily[t][c]) \in Int
    BY DEF QueueOK, DayRow, Part, Parts
  <2> QED BY <2>1, <1>4, <1>5, <1>6, ComingType
<1>15. Part(f, daily[t][c]) + Coming(f, t, c, Pending \cup new) = Sum(p, Attempts)
  BY <1>4, <1>7, <1>11, <1>12, <1>13, <1>14
<1> QED BY <1>15 DEF p, new
\* A transaction leaves the rows and the waiting events explaining the attempts.
LEMMA CountsStep ==
  ASSUME QueueOK, QueueOK', FactInv, FactInv', CountsOK, AmountsOK, AmountsOK',
         NEW S \in SUBSET Attempts, NEW b, NEW ev, NewEvents(S, b, ev), Books(S, b)
  PROVE  CountsOK'
<1>1. WorthOK /\ WorthOK'
  BY WorthFacts, WorthNext DEF WorthOK
<1>2. /\ Pending' = Pending \cup {ev[a] : a \in S} /\ daily' = daily
      /\ written \in Nat /\ \A a \in S : ev[a].id \in written + 1..written'
      /\ \A e \in Pending : e.id \in 1..written
  BY PendingFacts DEF NewEvents, QueueOK
<1>3. IsFiniteSet(Attempts)
  BY AttemptsAssumption
<1>4. ASSUME NEW f \in Parts, NEW t \in Times, NEW c \in Connections
      PROVE  (Part(f, daily[t][c]) + Coming(f, t, c, Pending) = Sum(Worths(f, t, c), Attempts))'
  <2> DEFINE p == [a \in Attempts |-> Partly(f, t, c, S, a)]
  <2>1. \A a \in Attempts : Partly(f, t, c, S, a) = Worth(f, t, c, a)'
    <3> SUFFICES ASSUME NEW a \in Attempts PROVE Partly(f, t, c, S, a) = Worth(f, t, c, a)'
      OBVIOUS
    <3>1. Worth(f, t, c, a)' = Worth(f, t, c, a) + (IF a \in S THEN Brings(f, t, c, b[a]) ELSE 0)
      BY DEF Books
    <3>2. Worth(f, t, c, a) \in Int
      BY <1>1 DEF WorthOK
    <3> QED BY <3>1, <3>2 DEF Partly
  <2>2. p = Worths(f, t, c)'
    BY <2>1 DEF Worths
  <2> HIDE DEF p
  <2>3. Part(f, daily[t][c]) + Coming(f, t, c, Pending \cup {ev[a] : a \in S}) = Sum(p, Attempts)
    BY BalanceStep DEF CountsOK, p
  <2> QED BY <1>2, <2>2, <2>3
<1>5. ASSUME NEW f \in Parts, NEW t \in Times, NEW c \in Connections, NEW i \in Nat
      PROVE  (Part(f, daily[t][c]) + Coming(f, t, c, UpTo(i)) >= 0)'
  <2>1. CASE i <= written
    <3>1. UpTo(i)' = UpTo(i)
      <4>1. \A a \in S : ~(ev[a].id <= i)
        BY <1>2, <2>1
      <4> QED BY <1>2, <4>1 DEF UpTo
    <3> QED BY <1>2, <3>1 DEF CountsOK, NoDip
  <2>2. CASE i > written
    <3> DEFINE T == {a \in S : ev[a].id <= i}
               p == [a \in Attempts |-> Partly(f, t, c, T, a)]
    <3>1. UpTo(i)' = Pending \cup {ev[a] : a \in T}
      <4>1. \A e \in Pending : e.id <= i
        BY <1>2, <2>2
      <4> QED BY <1>2, <4>1 DEF UpTo
    <3>2. T \in SUBSET S
      OBVIOUS
    <3>3. \A a \in Attempts : p[a] \in Nat
      BY <1>1 DEF Partly, WorthOK
    <3> HIDE DEF T, p
    <3>4. Part(f, daily[t][c]) + Coming(f, t, c, Pending \cup {ev[a] : a \in T}) = Sum(p, Attempts)
      BY <3>2, BalanceStep DEF CountsOK, p
    <3>5. Sum(p, Attempts) \in Nat
      BY <1>3, <3>3, SumNat
    <3> QED BY <1>2, <3>1, <3>4, <3>5
  <2> QED BY <1>2, <2>1, <2>2
<1> QED BY <1>4, <1>5 DEF CountsOK, BalanceOK, NoDip

\* What else a transaction may assume and must keep.
Proper(S, b) ==
  /\ \A a \in S : b[a].type \in Correcting =>
       aState[a] \in SettledStates /\ b[a].day = aStart[a] /\ b[a].conn = aConn[a]
  /\ \A a \in Attempts : aState'[a] \in SettledStates =>
       \/ aState[a] \in SettledStates /\ aStart'[a] = aStart[a] /\ aConn'[a] = aConn[a]
       \/ a \in S /\ b[a].type \in Closing /\ b[a].day = aStart'[a] /\ b[a].conn = aConn'[a]
  /\ \A a \in Attempts : aState'[a] # "absent" => aConn'[a] \in Connections
  /\ \A a \in S : b[a].type = Cancelling =>
       /\ b[a].request \in Requests /\ rState'[b[a].request] = "cancelled"
       /\ \A x \in S : b[x].type = "attempt.settled" => b[x].request # b[a].request
  /\ \A a \in S : b[a].type = "attempt.settled" => rState[b[a].request] # "cancelled"
  /\ \A r \in Requests : rState[r] = "cancelled" => rState'[r] = "cancelled"

OrderInv == KnownOK /\ PlaceOK /\ CloseOK
LEMMA OrderStep ==
  ASSUME QueueOK, OrderInv, NEW S \in SUBSET Attempts, NEW b, NEW ev, NewEvents(S, b, ev), Books(S, b), Proper(S, b)
  PROVE  OrderInv'
<1>1. /\ daily' = daily /\ seen' = seen
      /\ written \in Nat /\ written' \in Nat /\ written' >= written
      /\ \A a \in S : /\ ev[a].body = b[a] /\ ev[a].id \in Nat /\ ev[a].id >= written + 1 /\ ev[a].id <= written'
                      /\ ev[a] \in Pending'
      /\ \A e \in Pending : e \in Pending' /\ e.id \in Nat /\ e.id <= written
  BY PendingFacts DEF NewEvents, QueueOK
<1>2. \A e \in Pending' : e \in Pending \/ \E a \in S : e = ev[a]
  BY DEF NewEvents
<1>3. ASSUME NEW t, NEW c, NEW i \in Int, NEW j \in Int, Known(t, c, i), i <= j PROVE Known(t, c, j)'
  BY <1>1, <1>3 DEF Known
<1>4. KnownOK'
  <2>1. ASSUME NEW a \in Attempts, aState'[a] \in SettledStates
        PROVE  Known(aStart[a], aConn[a], written + 1)'
    <3>1. PICK t, c, j : t = aStart'[a] /\ c = aConn'[a] /\ j = written' + 1
      OBVIOUS
    <3>2. CASE aState[a] \in SettledStates /\ aStart'[a] = aStart[a] /\ aConn'[a] = aConn[a]
      <4>1. PICK i : i = written + 1
        OBVIOUS
      <4>2. Known(t, c, i)
        BY <3>1, <3>2, <4>1 DEF OrderInv, KnownOK
      <4>3. i \in Int /\ j \in Int /\ i <= j
        BY <1>1, <3>1, <4>1
      <4>4. Known(t, c, j)'
        BY <1>3, <4>2, <4>3
      <4> QED BY <3>1, <4>4 DEF Known
    <3>3. CASE a \in S /\ b[a].type \in Closing /\ b[a].day = aStart'[a] /\ b[a].conn = aConn'[a]
      <4>1. /\ ev[a] \in Pending' /\ ev[a].id < j /\ ev[a].body.type \in Closing
            /\ ev[a].body.day = t /\ ev[a].body.conn = c
        BY <1>1, <3>1, <3>3
      <4>2. Known(t, c, j)'
        BY <4>1 DEF Known
      <4> QED BY <3>1, <4>2 DEF Known
    <3> QED BY <2>1, <3>2, <3>3 DEF Proper
  <2>2. ASSUME NEW e \in Pending', e.body.type \in Correcting PROVE Known(e.body.day, e.body.conn, e.id)'
    <3>1. CASE e \in Pending
      BY <2>2, <3>1, <1>1, <1>3 DEF OrderInv, KnownOK
    <3>2. ASSUME NEW a \in S, e = ev[a] PROVE Known(e.body.day, e.body.conn, e.id)'
      <4>1. aState[a] \in SettledStates /\ b[a].day = aStart[a] /\ b[a].conn = aConn[a] /\ e.body = b[a]
        BY <2>2, <3>2, <1>1 DEF Proper
      <4>2. PICK i : i = written + 1
        OBVIOUS
      <4>3. Known(b[a].day, b[a].conn, i)
        BY <4>1, <4>2 DEF OrderInv, KnownOK
      <4>4. i \in Int /\ e.id \in Int /\ i <= e.id
        BY <1>1, <3>2, <4>2
      <4> QED BY <1>3, <4>1, <4>3, <4>4
    <3> QED BY <1>2, <3>1, <3>2
  <2> QED BY <2>1, <2>2 DEF KnownOK
<1>5. PlaceOK'
  <2>1. \A e \in Pending' : e.body.conn \in Connections
    BY <1>1, <1>2 DEF OrderInv, PlaceOK, Books
  <2> QED BY <2>1 DEF PlaceOK, Proper
<1>6. CloseOK'
  <2>1. ASSUME NEW s \in seen, s.type = Cancelling
        PROVE  /\ s.request \in Requests /\ rState'[s.request] = "cancelled"
               /\ \A e \in Pending' : e.body.type = "attempt.settled" => e.body.request # s.request
    <3>1. /\ s.request \in Requests /\ rState[s.request] = "cancelled"
          /\ \A e \in Pending : e.body.type = "attempt.settled" => e.body.request # s.request
      BY <2>1 DEF OrderInv, CloseOK
    <3> QED BY <3>1, <1>1, <1>2 DEF Proper
  <2>2. ASSUME NEW d \in Pending', d.body.type = Cancelling
        PROVE  /\ d.body.request \in Requests /\ rState'[d.body.request] = "cancelled"
               /\ \A e \in Pending' : e.body.type = "attempt.settled" /\ e.body.request = d.body.request => e.id < d.id
    <3>1. CASE d \in Pending
      <4>1. /\ d.body.request \in Requests /\ rState[d.body.request] = "cancelled"
            /\ \A e \in Pending : e.body.type = "attempt.settled" /\ e.body.request = d.body.request => e.id < d.id
        BY <2>2, <3>1 DEF OrderInv, CloseOK
      <4> QED BY <4>1, <1>1, <1>2 DEF Proper
    <3>2. ASSUME NEW a \in S, d = ev[a]
          PROVE  /\ d.body.request \in Requests /\ rState'[d.body.request] = "cancelled"
                 /\ \A e \in Pending' : e.body.type = "attempt.settled" /\ e.body.request = d.body.request => e.id < d.id
      <4>1. /\ d.body.request \in Requests /\ rState'[d.body.request] = "cancelled"
            /\ \A x \in S : b[x].type = "attempt.settled" => b[x].request # d.body.request
        BY <2>2, <3>2, <1>1 DEF Proper
      <4>2. \A e \in Pending : e.id < d.id
        BY <1>1, <3>2
      <4> QED BY <4>1, <4>2, <1>1, <1>2
    <3> QED BY <1>2, <3>1, <3>2
  <2> QED BY <2>1, <2>2, <1>1 DEF CloseOK
<1> QED BY <1>4, <1>5, <1>6 DEF OrderInv
-----------------------------------------------------------------------------
(* The transactions keep the books. *)

\* An attempt that is not settled has no amounts yet.
BlankOK == \A a \in Attempts : aState[a] \notin SettledStates => usage[a].tokens = Unknown /\ usage[a].cost = Unknown

\* What a step may do to the worth of an attempt, and the event that tells it.
SamePlace(a) == aStart'[a] = aStart[a] /\ aConn'[a] = aConn[a]
Still(a) ==
  /\ aState'[a] \in SettledStates <=> aState[a] \in SettledStates
  /\ aState[a] \in SettledStates => SamePlace(a) /\ \A f \in Parts : Fact(f, usage'[a]) = Fact(f, usage[a])
Worthless(a, body) ==
  /\ body.type \in {"attempt.reserved", Cancelling}
  /\ aState[a] \notin SettledStates /\ aState'[a] \notin SettledStates
  /\ \A f \in Parts : Part(f, body) = 0
Settling(a, body) ==
  /\ body.type = "attempt.settled"
  /\ aState[a] \notin SettledStates /\ aState'[a] \in SettledStates
  /\ rState[aReq'[a]] # "cancelled"
  /\ \A f \in Parts : Part(f, body) = Fact(f, usage'[a])
Correct(a, body) ==
  /\ body.type \in Correcting
  /\ aState[a] \in SettledStates /\ aState'[a] \in SettledStates /\ SamePlace(a)
  /\ \A f \in Parts : Part(f, body) = Fact(f, usage'[a]) - Fact(f, usage[a])
Tells(a, body) ==
  /\ BodyOK(body) /\ body.day = aStart'[a] /\ body.conn = aConn'[a] /\ body.request = aReq'[a]
  /\ aState'[a] # "absent"
  /\ Worthless(a, body) \/ Settling(a, body) \/ Correct(a, body)
Placed == \A a \in Attempts : aState'[a] # "absent" => aConn'[a] \in Connections
ClosesApart(S, b) ==
  \A a \in S : b[a].type = Cancelling =>
    /\ aReq'[a] \in Requests /\ rState'[aReq'[a]] = "cancelled"
    /\ \A x \in S : b[x].type = "attempt.settled" => aReq'[x] # aReq'[a]

LEMMA MoveStep ==
  ASSUME FactInv, FactInv', KeepsClosed, Placed, NEW S \in SUBSET Attempts, NEW b,
         \A a \in S : Tells(a, b[a]), \A a \in Attempts \ S : Still(a), ClosesApart(S, b)
  PROVE  Books(S, b) /\ Proper(S, b)
<1>1. WorthOK /\ WorthOK'
  BY WorthFacts, WorthNext DEF WorthOK
<1>2. \A a \in S : BodyOK(b[a]) /\ b[a].conn \in Connections
  BY DEF Tells, Placed
<1>3. ASSUME NEW f \in Parts, NEW t \in Times, NEW c \in Connections, NEW a \in Attempts
      PROVE  Worth(f, t, c, a)' = Worth(f, t, c, a) + (IF a \in S THEN Brings(f, t, c, b[a]) ELSE 0)
  <2>1. Worth(f, t, c, a) \in Int /\ Worth(f, t, c, a)' \in Int
    BY <1>1 DEF WorthOK
  <2>2. CASE a \notin S
    <3>1. Worth(f, t, c, a)' = Worth(f, t, c, a)
      BY <2>2 DEF Still, SamePlace, Worth
    <3> QED BY <2>1, <2>2, <3>1
  <2>3. CASE a \in S /\ Worthless(a, b[a])
    <3>1. Worth(f, t, c, a)' = 0 /\ Worth(f, t, c, a) = 0 /\ Brings(f, t, c, b[a]) = 0
      BY <2>3 DEF Worthless, Worth, Brings
    <3> QED BY <2>3, <3>1
  <2>4. CASE a \in S /\ Settling(a, b[a])
    <3>1. Worth(f, t, c, a)' = Brings(f, t, c, b[a]) /\ Worth(f, t, c, a) = 0
      BY <2>4 DEF Settling, Worth, Brings, Tells
    <3> QED BY <2>1, <2>4, <3>1
  <2>5. CASE a \in S /\ Correct(a, b[a])
    <3>1. CASE aStart[a] = t /\ aConn[a] = c
      <4>1. /\ Worth(f, t, c, a)' = Fact(f, usage'[a]) /\ Worth(f, t, c, a) = Fact(f, usage[a])
            /\ Brings(f, t, c, b[a]) = Fact(f, usage'[a]) - Fact(f, usage[a])
        BY <2>5, <3>1 DEF Correct, Worth, Brings, Tells, SamePlace
      <4> QED BY <2>1, <2>5, <4>1
    <3>2. CASE ~(aStart[a] = t /\ aConn[a] = c)
      <4>1. /\ Worth(f, t, c, a)' = 0 /\ Worth(f, t, c, a) = 0 /\ Brings(f, t, c, b[a]) = 0
        BY <2>5, <3>2 DEF Correct, Worth, Brings, Tells, SamePlace
      <4> QED BY <2>5, <4>1
    <3> QED BY <3>1, <3>2
  <2> QED BY <2>2, <2>3, <2>4, <2>5 DEF Tells
<1>4. Books(S, b)
  BY <1>2, <1>3 DEF Books
<1>5. \A a \in S : b[a].type \in Correcting =>
        aState[a] \in SettledStates /\ b[a].day = aStart[a] /\ b[a].conn = aConn[a]
  BY DEF Tells, Worthless, Settling, Correct, SamePlace, Correcting, Cancelling
<1>6. \A a \in Attempts : aState'[a] \in SettledStates =>
       \/ aState[a] \in SettledStates /\ aStart'[a] = aStart[a] /\ aConn'[a] = aConn[a]
       \/ a \in S /\ b[a].type \in Closing /\ b[a].day = aStart'[a] /\ b[a].conn = aConn'[a]
  BY DEF Tells, Worthless, Settling, Correct, SamePlace, Still, Closing
<1>7. \A a \in S : b[a].type = Cancelling =>
       /\ b[a].request \in Requests /\ rState'[b[a].request] = "cancelled"
       /\ \A x \in S : b[x].type = "attempt.settled" => b[x].request # b[a].request
  BY DEF ClosesApart, Tells
<1>8. \A a \in S : b[a].type = "attempt.settled" => rState[b[a].request] # "cancelled"
  BY DEF Tells, Worthless, Settling, Correct, Correcting, Cancelling
<1>9. \A r \in Requests : rState[r] = "cancelled" => rState'[r] = "cancelled"
  BY DEF KeepsClosed, Terminal, SettledStates
<1> QED BY <1>4, <1>5, <1>6, <1>7, <1>8, <1>9 DEF Proper, Placed

\* The parts of each kind of event.
LEMMA EventParts ==
  ASSUME NEW a, NEW f \in Parts
  PROVE  /\ Part(f, Reserved(a)) = 0 /\ Part(f, Cancelled(a)) = 0
         /\ Part(f, Settled(a)) = Fact(f, usage'[a])
  BY DEF Parts, Part, Fact, Reserved, Cancelled, Settled, Event

LEMMA EventNames ==
  ASSUME NEW a, NEW body \in {Reserved(a), Cancelled(a), Settled(a), Reconciled(a), CostAdjusted(a)}
  PROVE  body.day = aStart'[a] /\ body.conn = aConn'[a] /\ body.request = aReq'[a]
  BY DEF Reserved, Cancelled, Settled, Reconciled, CostAdjusted, Event

LEMMA EventTypes ==
  ASSUME NEW a
  PROVE  /\ Reserved(a).type = "attempt.reserved" /\ Cancelled(a).type = Cancelling
         /\ Settled(a).type = "attempt.settled" /\ Reconciled(a).type = "attempt.reconciled"
         /\ CostAdjusted(a).type = "attempt.cost_adjusted"
  BY DEF Reserved, Cancelled, Settled, Reconciled, CostAdjusted, Event, Cancelling

\* A correction's deltas are what the attempt is worth more.
LEMMA CorrectParts ==
  ASSUME FactInv, FactInv', NEW a \in Attempts, IsUnknown(usage'[a]) => IsUnknown(usage[a]), NEW f \in Parts
  PROVE  /\ usage'[a].tokens \in Int => Part(f, Reconciled(a)) = Fact(f, usage'[a]) - Fact(f, usage[a])
         /\ usage'[a].cost \in Int /\ usage'[a].tokens = usage[a].tokens
              => Part(f, CostAdjusted(a)) = Fact(f, usage'[a]) - Fact(f, usage[a])
<1>1. /\ OrZero(usage[a].tokens) \in Int /\ OrZero(usage[a].cost) \in Int
      /\ usage'[a].tokens \in Int => OrZero(usage'[a].tokens) = usage'[a].tokens
      /\ usage'[a].cost \in Int => OrZero(usage'[a].cost) = usage'[a].cost
  BY UsageNext, OrZeroFacts
<1>2. ResolvesUnknown(a) = (IF IsUnknown(usage'[a]) THEN 1 ELSE 0) - (IF IsUnknown(usage[a]) THEN 1 ELSE 0)
  BY DEF ResolvesUnknown
<1>3. ASSUME usage'[a].tokens \in Int PROVE Part(f, Reconciled(a)) = Fact(f, usage'[a]) - Fact(f, usage[a])
  <2>1. CASE f = "tokens"
    BY <2>1, <1>1, <1>3 DEF Part, Fact, Reconciled, Event
  <2>2. CASE f = "cost"
    BY <2>2, <1>1, <1>3 DEF Part, Fact, Reconciled, Event
  <2>3. CASE f = "unknown"
    BY <2>3, <1>2 DEF Part, Fact, Reconciled, Event
  <2> QED BY <2>1, <2>2, <2>3 DEF Parts
<1>4. ASSUME usage'[a].cost \in Int, usage'[a].tokens = usage[a].tokens
      PROVE  Part(f, CostAdjusted(a)) = Fact(f, usage'[a]) - Fact(f, usage[a])
  <2>1. CASE f = "tokens"
    BY <2>1, <1>1, <1>4 DEF Part, Fact, CostAdjusted, Event
  <2>2. CASE f = "cost"
    BY <2>2, <1>1, <1>4 DEF Part, Fact, CostAdjusted, Event
  <2>3. CASE f = "unknown"
    BY <2>3, <1>2 DEF Part, Fact, CostAdjusted, Event
  <2> QED BY <2>1, <2>2, <2>3 DEF Parts
<1> QED BY <1>3, <1>4
Book == \E S \in SUBSET Attempts : \E b : \E ev : NewEvents(S, b, ev) /\ Books(S, b) /\ Proper(S, b)

\* A transaction with one event, and one with an event for each of some attempts.
LEMMA OneBook ==
  ASSUME QueueOK, FactInv, FactInv', KeepsClosed, Placed, NEW a \in Attempts, NEW body, Emit(<<body>>),
         Tells(a, body), \A x \in Attempts \ {a} : Still(x),
         body.type = Cancelling => aReq'[a] \in Requests /\ rState'[aReq'[a]] = "cancelled"
  PROVE  Book
<1> DEFINE b == [x \in {a} |-> body]
<1>1. PICK ev : NewEvents({a}, b, ev)
  BY EmitOne
<1>2. {a} \in SUBSET Attempts /\ \A x \in {a} : Tells(x, b[x])
  OBVIOUS
<1>3. ClosesApart({a}, b)
  <2>1. body.type = Cancelling => body.type # "attempt.settled"
    BY DEF Cancelling
  <2> QED BY <2>1 DEF ClosesApart
<1> HIDE DEF b
<1>4. Books({a}, b) /\ Proper({a}, b)
  BY <1>2, <1>3, MoveStep
<1> QED BY <1>1, <1>2, <1>4 DEF Book

LEMMA ManyBook ==
  ASSUME QueueOK, FactInv, FactInv', KeepsClosed, Placed, NEW S \in SUBSET Attempts, NEW b,
         Emit([n \in DOMAIN SetToSeq(S) |-> b[SetToSeq(S)[n]]]),
         \A a \in S : Tells(a, b[a]), \A a \in Attempts \ S : Still(a), ClosesApart(S, b)
  PROVE  Book
<1>1. IsFiniteSet(S)
  BY AttemptsAssumption, FS_Subset
<1>2. PICK ev : NewEvents(S, b, ev)
  BY <1>1, EmitMany
<1>3. Books(S, b) /\ Proper(S, b)
  BY MoveStep
<1> QED BY <1>2, <1>3 DEF Book

LEMMA StillFacts ==
  ASSUME NEW a, aState'[a] = aState[a], SamePlace(a),
         usage'[a].tokens = usage[a].tokens, usage'[a].cost = usage[a].cost, IsUnknown(usage'[a]) = IsUnknown(usage[a])
  PROVE  Still(a)
  BY DEF Still, Fact

LEMMA PlacedFacts ==
  ASSUME PlaceOK, aConn' = aConn, \A a \in Attempts : aState[a] = "absent" => aState'[a] = "absent"
  PROVE  Placed
  BY DEF PlaceOK, Placed

LEMMA CostNat ==
  ASSUME NEW price \in Prices \cup {Unknown}, NEW tokens \in Nat \cup {Unknown}
  PROVE  CostOf(price, tokens) \in Nat \cup {Unknown}
<1>1. CASE price = Unknown \/ tokens = Unknown
  BY <1>1 DEF CostOf
<1>2. CASE price # Unknown /\ tokens # Unknown
  <2>1. Rate[price] \in Nat /\ tokens \in Nat
    BY <1>2, AmountsAssumption
  <2>2. \A m, n \in Nat : m * n \in Nat
    OBVIOUS
  <2> QED BY <1>2, <2>1, <2>2 DEF CostOf
<1> QED BY <1>1, <1>2

MoneyInv == AmountsOK /\ BlankOK

LEMMA AdmitBook ==
  ASSUME QueueOK, LifeInv, FactInv, LifeInv', FactInv', KeepsClosed, PlaceOK, MoneyInv,
         NEW r \in Requests, NEW a \in Attempts, NEW k \in Keys, NEW c \in Connections, NEW est \in Units,
         NEW wall \in Times, NEW priced \in BOOLEAN,
         Admit(r, a, k, c, est, wall, priced), Emit(<<Reserved(a)>>)
  PROVE  Book /\ MoneyInv'
<1>1. /\ aState[a] = "absent" /\ aState' = [aState EXCEPT ![a] = "reserved"]
      /\ aConn' = [aConn EXCEPT ![a] = c] /\ usage' = usage
      /\ aStart' = [aStart EXCEPT ![a] = EffectiveTime(wall)]
  BY DEF Admit, factVars
<1>2. /\ aState'[a] = "reserved" /\ aConn'[a] = c
      /\ \A x \in Attempts \ {a} : aState'[x] = aState[x] /\ SamePlace(x)
  BY <1>1 DEF LifeInv, LifeTypeOK, SamePlace
<1>3. Placed
  BY <1>2 DEF Placed, PlaceOK, SamePlace
<1>4. Tells(a, Reserved(a))
  <2>1. BodyOK(Reserved(a)) /\ Reserved(a).type = "attempt.reserved" /\ \A f \in Parts : Part(f, Reserved(a)) = 0
    BY BodyFacts, EventTypes, EventParts
  <2>2. aState[a] \notin SettledStates /\ aState'[a] \notin SettledStates /\ aState'[a] # "absent"
    BY <1>1, <1>2 DEF SettledStates
  <2> QED BY <2>1, <2>2, EventNames DEF Tells, Worthless
<1>5. \A x \in Attempts \ {a} : Still(x)
  BY <1>1, <1>2, StillFacts
<1>6. Reserved(a).type # Cancelling
  BY EventTypes DEF Cancelling
<1>7. Book
  BY <1>3, <1>4, <1>5, <1>6, OneBook
<1>8. MoneyInv'
  <2>1. \A x \in Attempts : aState'[x] \notin SettledStates => aState[x] \notin SettledStates
    BY <1>1, <1>2 DEF SettledStates
  <2> QED BY <1>1, <2>1 DEF MoneyInv, AmountsOK, BlankOK
<1> QED BY <1>7, <1>8

LEMMA CancelBook ==
  ASSUME QueueOK, LifeInv, FactInv, LifeInv', FactInv', KeepsClosed, PlaceOK, MoneyInv,
         NEW a \in Attempts, CancelBeforeDispatch(a), Emit(<<Cancelled(a)>>)
  PROVE  Book /\ MoneyInv'
<1>1. /\ aState[a] = "reserved" /\ aState' = [aState EXCEPT ![a] = "cancelled_before_dispatch"]
      /\ rState' = [rState EXCEPT ![aReq[a]] = "cancelled"]
      /\ usage' = [usage EXCEPT ![a].status = "estimated"]
      /\ UNCHANGED <<aReq, aConn, aStart>>
  BY DEF CancelBeforeDispatch
<1>2. /\ aState'[a] = "cancelled_before_dispatch"
      /\ \A x \in Attempts \ {a} : aState'[x] = aState[x] /\ SamePlace(x) /\ usage'[x] = usage[x]
      /\ \A x \in Attempts : usage'[x].tokens = usage[x].tokens /\ usage'[x].cost = usage[x].cost
  BY <1>1 DEF LifeInv, LifeTypeOK, SamePlace, FactInv, FactTypeOK, UsageRow
<1>3. Placed
  BY <1>1, <1>2, PlacedFacts
<1>4. aReq'[a] \in Requests /\ rState'[aReq'[a]] = "cancelled"
  <2>1. aReq[a] \in Requests
    BY <1>1 DEF LifeInv, OneOpenAttempt, Active, ActiveStates
  <2> QED BY <1>1, <2>1 DEF LifeInv, LifeTypeOK
<1>5. Tells(a, Cancelled(a))
  <2>1. BodyOK(Cancelled(a)) /\ Cancelled(a).type = Cancelling /\ \A f \in Parts : Part(f, Cancelled(a)) = 0
    BY BodyFacts, EventTypes, EventParts
  <2>2. aState[a] \notin SettledStates /\ aState'[a] \notin SettledStates /\ aState'[a] # "absent"
    BY <1>1, <1>2 DEF SettledStates
  <2> QED BY <2>1, <2>2, EventNames DEF Tells, Worthless
<1>6. \A x \in Attempts \ {a} : Still(x)
  BY <1>2, StillFacts
<1>7. Book
  BY <1>3, <1>4, <1>5, <1>6, OneBook
<1>8. MoneyInv'
  <2>1. \A x \in Attempts : aState'[x] \notin SettledStates => aState[x] \notin SettledStates
    BY <1>1, <1>2 DEF SettledStates
  <2> QED BY <1>2, <2>1 DEF MoneyInv, AmountsOK, BlankOK
<1> QED BY <1>7, <1>8

LEMMA SettleBook ==
  ASSUME QueueOK, LifeInv, FactInv, LifeInv', FactInv', KeepsClosed, PlaceOK, MoneyInv,
         NEW a \in Attempts, NEW state \in Outcomes, NEW status \in {"provider_reported", "unknown"},
         NEW tokens \in Units \cup {Unknown}, NEW cost \in Costs \cup {Unknown}, NEW final \in BOOLEAN,
         Settle(a, state, status, tokens, cost, final), Emit(<<Settled(a)>>)
  PROVE  Book /\ MoneyInv'
<1>1. PICK whole : whole = IF cost # Unknown THEN cost ELSE CostOf(aPrice[a], tokens)
  OBVIOUS
<1>2. /\ aState[a] \in ActiveStates /\ aState' = [aState EXCEPT ![a] = state]
      /\ usage' = [usage EXCEPT ![a] = [status |-> status, tokens |-> tokens, cost |-> whole]]
      /\ UNCHANGED <<aReq, aConn, aStart>>
  BY <1>1 DEF Settle, Settleable
<1>3. /\ aState'[a] = state /\ usage'[a].tokens = tokens /\ usage'[a].cost = whole
      /\ \A x \in Attempts \ {a} : aState'[x] = aState[x] /\ SamePlace(x) /\ usage'[x] = usage[x]
  BY <1>2 DEF LifeInv, LifeTypeOK, SamePlace, FactInv, FactTypeOK
<1>4. state \in SettledStates
  BY OutcomesAssumption
<1>5. Placed
  <2>1. \A x \in Attempts : aState[x] = "absent" => aState'[x] = "absent"
    BY <1>2, <1>3 DEF ActiveStates
  <2> QED BY <1>2, <2>1, PlacedFacts
<1>6. Tells(a, Settled(a))
  <2>1. BodyOK(Settled(a)) /\ Settled(a).type = "attempt.settled" /\ \A f \in Parts : Part(f, Settled(a)) = Fact(f, usage'[a])
    BY BodyFacts, EventTypes, EventParts
  <2>2. aState[a] \notin SettledStates /\ aState'[a] \in SettledStates /\ aState'[a] # "absent"
    BY <1>2, <1>3, <1>4 DEF SettledStates, ActiveStates
  <2>3. rState[aReq'[a]] # "cancelled"
    <3>1. rState[aReq[a]] = "reserved"
      BY <1>2 DEF LifeInv, OneOpenAttempt, Active
    <3> QED BY <1>2, <3>1
  <2> QED BY <2>1, <2>2, <2>3, EventNames DEF Tells, Settling
<1>7. \A x \in Attempts \ {a} : Still(x)
  BY <1>3, StillFacts
<1>8. Settled(a).type # Cancelling
  BY EventTypes DEF Cancelling
<1>9. Book
  BY <1>5, <1>6, <1>7, <1>8, OneBook
<1>10. tokens \in Nat \cup {Unknown} /\ whole \in Nat \cup {Unknown}
  <2>1. tokens \in Nat \cup {Unknown} /\ cost \in Nat \cup {Unknown}
    BY AmountsAssumption
  <2>2. aPrice[a] \in Prices \cup {Unknown}
    BY DEF FactInv, FactTypeOK
  <2> QED BY <1>1, <2>1, <2>2, CostNat
<1>11. MoneyInv'
  <2>1. AmountsOK'
    BY <1>3, <1>10 DEF MoneyInv, AmountsOK
  <2>2. BlankOK'
    BY <1>3, <1>4 DEF MoneyInv, BlankOK
  <2> QED BY <2>1, <2>2 DEF MoneyInv
<1> QED BY <1>9, <1>11
\* A restart closes every open attempt, each with its own event.
LEMMA RecoverBook ==
  ASSUME QueueOK, LifeInv, FactInv, LifeInv', FactInv', KeepsClosed, PlaceOK, MoneyInv,
         NEW wall \in Times, Recover(wall),
         LET open == SetToSeq(Active)
         IN  Emit([n \in DOMAIN open |->
                     IF aState[open[n]] = "reserved" THEN Cancelled(open[n]) ELSE Settled(open[n])])
  PROVE  Book /\ MoneyInv'
<1> DEFINE b == [a \in Active |-> IF aState[a] = "reserved" THEN Cancelled(a) ELSE Settled(a)]
<1>1. Active \in SUBSET Attempts /\ IsFiniteSet(Active)
  BY AttemptsAssumption, FS_Subset DEF Active
<1>2. Emit([n \in DOMAIN SetToSeq(Active) |-> b[SetToSeq(Active)[n]]])
  <2>1. SetToSeq(Active) \in [1..Cardinality(Active) -> Active]
    BY <1>1, ListFacts
  <2>2. \A n \in DOMAIN SetToSeq(Active) : SetToSeq(Active)[n] \in Active
    BY <2>1
  <2> QED BY <2>2
<1>3. /\ \A a \in Attempts : /\ aState[a] = "reserved" => aState'[a] = "cancelled_before_dispatch"
                             /\ a \in Active /\ aState[a] # "reserved" => aState'[a] = "interrupted_unknown"
                             /\ a \notin Active => aState'[a] = aState[a] /\ usage'[a] = usage[a]
                             /\ usage'[a].tokens = usage[a].tokens /\ usage'[a].cost = usage[a].cost
      /\ UNCHANGED <<aReq, aConn, aStart>>
  <2>1. \A a \in Attempts : usage[a] \in UsageRow
    BY DEF FactInv, FactTypeOK
  <2>2. /\ aState' = [a \in Attempts |-> IF aState[a] = "reserved" THEN "cancelled_before_dispatch"
                                         ELSE IF a \in Active THEN "interrupted_unknown" ELSE aState[a]]
        /\ usage' = [a \in Attempts |-> IF aState[a] = "reserved" THEN [usage[a] EXCEPT !.status = "estimated"]
                                        ELSE IF a \in Active THEN [usage[a] EXCEPT !.status = "unknown"] ELSE usage[a]]
        /\ UNCHANGED <<aReq, aConn, aStart>>
    BY DEF Recover
  <2>3. \A a \in Attempts : a \notin Active => aState[a] # "reserved"
    BY DEF Active, ActiveStates
  <2> QED BY <2>1, <2>2, <2>3 DEF UsageRow
<1>4. \A r \in Requests : rState'[r] = IF \E a \in Active : aState[a] # "reserved" /\ aReq[a] = r THEN "interrupted_unknown"
                                       ELSE IF \E a \in Attempts : aState[a] = "reserved" /\ aReq[a] = r THEN "cancelled"
                                       ELSE IF rState[r] = "in_progress" THEN "failed" ELSE rState[r]
  BY <1>1 DEF Recover
<1>5. Placed
  <2>1. \A a \in Attempts : aState[a] = "absent" => aState'[a] = "absent"
    BY <1>3 DEF Active, ActiveStates
  <2> QED BY <1>3, <2>1, PlacedFacts
<1>6. ASSUME NEW a \in Active PROVE Tells(a, b[a])
  <2>1. aState[a] \notin SettledStates /\ a \in Attempts
    BY DEF Active, ActiveStates, SettledStates
  <2>2. CASE aState[a] = "reserved"
    <3>1. b[a] = Cancelled(a)
      BY <2>2
    <3>2. BodyOK(Cancelled(a)) /\ Cancelled(a).type = Cancelling /\ \A f \in Parts : Part(f, Cancelled(a)) = 0
      BY <2>1, BodyFacts, EventTypes, EventParts
    <3>3. aState'[a] \notin SettledStates /\ aState'[a] # "absent"
      BY <1>3, <2>1, <2>2 DEF SettledStates
    <3> HIDE DEF b
    <3> QED BY <2>1, <3>1, <3>2, <3>3, EventNames DEF Tells, Worthless
  <2>3. CASE aState[a] # "reserved"
    <3>1. b[a] = Settled(a)
      BY <2>3
    <3>2. BodyOK(Settled(a)) /\ Settled(a).type = "attempt.settled" /\ \A f \in Parts : Part(f, Settled(a)) = Fact(f, usage'[a])
      BY <2>1, BodyFacts, EventTypes, EventParts
    <3>3. aState'[a] \in SettledStates /\ aState'[a] # "absent"
      BY <1>3, <2>1, <2>3 DEF SettledStates
    <3>4. rState[aReq'[a]] # "cancelled"
      <4>1. rState[aReq[a]] = "reserved"
        BY DEF LifeInv, OneOpenAttempt
      <4> QED BY <1>3, <4>1
    <3> HIDE DEF b
    <3> QED BY <2>1, <3>1, <3>2, <3>3, <3>4, EventNames DEF Tells, Settling
  <2> QED BY <2>2, <2>3
<1>7. ASSUME NEW a \in Attempts \ Active PROVE Still(a)
  <2>1. aState'[a] = aState[a] /\ usage'[a] = usage[a] /\ SamePlace(a)
    BY <1>3 DEF SamePlace
  <2> QED BY <2>1, StillFacts
<1>8. ClosesApart(Active, b)
  <2> SUFFICES ASSUME NEW a \in Active, b[a].type = Cancelling
               PROVE  /\ aReq'[a] \in Requests /\ rState'[aReq'[a]] = "cancelled"
                      /\ \A x \in Active : b[x].type = "attempt.settled" => aReq'[x] # aReq'[a]
    BY DEF ClosesApart
  <2>1. aState[a] = "reserved"
    BY EventTypes DEF Cancelling
  <2>2. aReq[a] \in Requests /\ \A x \in Active : aReq[x] = aReq[a] => x = a
    BY DEF LifeInv, OneOpenAttempt
  <2>3. rState'[aReq[a]] = "cancelled"
    BY <1>1, <1>4, <2>1, <2>2
  <2>4. b[a].type # "attempt.settled"
    BY DEF Cancelling
  <2> HIDE DEF b
  <2> QED BY <1>3, <2>2, <2>3, <2>4
<1> HIDE DEF b
<1>9. Book
  BY <1>1, <1>2, <1>5, <1>6, <1>7, <1>8, ManyBook
<1>10. MoneyInv'
  <2>1. \A a \in Attempts : aState'[a] \notin SettledStates => aState[a] \notin SettledStates
    <3>1. \A a \in Attempts : aState[a] \in SettledStates => a \notin Active
      BY DEF Active, ActiveStates, SettledStates
    <3> QED BY <1>3, <3>1
  <2> QED BY <1>3, <2>1 DEF MoneyInv, AmountsOK, BlankOK
<1> QED BY <1>9, <1>10

\* A correction of one settled attempt.
LEMMA OneCorrection ==
  ASSUME QueueOK, LifeInv, FactInv, LifeInv', FactInv', KeepsClosed, PlaceOK, MoneyInv,
         NEW a \in Attempts, aState[a] \in SettledStates, UNCHANGED lifeVars,
         \A x \in Attempts \ {a} : usage'[x] = usage[x],
         usage'[a].tokens \in Nat \cup {Unknown}, usage'[a].cost \in Nat \cup {Unknown},
         IsUnknown(usage'[a]) => IsUnknown(usage[a]),
         NEW body \in {Reconciled(a), CostAdjusted(a)}, Emit(<<body>>), BodyOK(body),
         \A f \in Parts : Part(f, body) = Fact(f, usage'[a]) - Fact(f, usage[a])
  PROVE  Book /\ MoneyInv'
<1>1. UNCHANGED <<aState, aReq, aConn, aStart>>
  BY DEF lifeVars
<1>2. Placed
  BY <1>1, PlacedFacts
<1>3. body.type \in Correcting /\ body.type # Cancelling
  BY EventTypes DEF Correcting, Cancelling
<1>4. aState[a] # "absent"
  BY DEF SettledStates
<1>5. Tells(a, body)
  BY <1>1, <1>3, <1>4, EventNames DEF Tells, Correct, SamePlace
<1>6. \A x \in Attempts \ {a} : Still(x)
  BY <1>1, StillFacts DEF SamePlace
<1>7. Book
  BY <1>2, <1>3, <1>5, <1>6, OneBook
<1>8. MoneyInv'
  BY <1>1 DEF MoneyInv, AmountsOK, BlankOK
<1> QED BY <1>7, <1>8

LEMMA ReconcileBook ==
  ASSUME QueueOK, LifeInv, FactInv, LifeInv', FactInv', KeepsClosed, PlaceOK, MoneyInv,
         NEW a \in Attempts, NEW tokens \in Reported, NEW cost \in ReconciledCosts \cup {Unknown},
         ReconcileUnknown(a, "provider_reported", tokens, cost), Emit(<<Reconciled(a)>>)
  PROVE  Book /\ MoneyInv'
<1>1. PICK given : given = IF cost # Unknown THEN cost
                           ELSE IF usage[a].cost = Unknown THEN CostOf(aPrice[a], tokens) ELSE Unknown
  OBVIOUS
<1>2. PICK whole : whole = IF given # Unknown THEN given ELSE usage[a].cost
  OBVIOUS
<1>3. /\ aState[a] \in SettledStates /\ UNCHANGED lifeVars
      /\ usage' = [usage EXCEPT ![a] = [status |-> IF whole # Unknown THEN "provider_reported" ELSE "unknown",
                                        tokens |-> tokens, cost |-> whole]]
  BY <1>1, <1>2 DEF ReconcileUnknown
<1>4. /\ usage'[a].tokens = tokens /\ usage'[a].cost = whole
      /\ usage'[a].status = IF whole # Unknown THEN "provider_reported" ELSE "unknown"
      /\ \A x \in Attempts \ {a} : usage'[x] = usage[x]
  BY <1>3 DEF FactInv, FactTypeOK
<1>5. tokens \in Nat /\ tokens \in Int /\ cost \in Nat \cup {Unknown}
  BY AmountsAssumption
<1>6. whole \in Nat \cup {Unknown}
  <2>1. aPrice[a] \in Prices \cup {Unknown} /\ usage[a].cost \in Nat \cup {Unknown}
    BY DEF FactInv, FactTypeOK, MoneyInv, AmountsOK
  <2>2. CostOf(aPrice[a], tokens) \in Nat \cup {Unknown}
    BY <1>5, <2>1, CostNat
  <2> QED BY <1>1, <1>2, <1>5, <2>1, <2>2
<1>7. IsUnknown(usage'[a]) => IsUnknown(usage[a])
  BY <1>1, <1>2, <1>4 DEF IsUnknown
<1>8. BodyOK(Reconciled(a)) /\ \A f \in Parts : Part(f, Reconciled(a)) = Fact(f, usage'[a]) - Fact(f, usage[a])
  BY <1>4, <1>5, <1>7, BodyFacts, CorrectParts
<1> QED BY <1>3, <1>4, <1>5, <1>6, <1>7, <1>8, OneCorrection

LEMMA AdjustBook ==
  ASSUME QueueOK, LifeInv, FactInv, LifeInv', FactInv', KeepsClosed, PlaceOK, MoneyInv,
         NEW a \in Attempts, NEW delta \in Deltas, AdjustCost(a, delta), Emit(<<CostAdjusted(a)>>)
  PROVE  Book /\ MoneyInv'
<1>1. PICK next : next = OrZero(usage[a].cost) + delta
  OBVIOUS
<1>2. /\ aState[a] \in SettledStates /\ UNCHANGED lifeVars /\ next \in 0..MaxCost
      /\ usage[a].status # "unknown" /\ usage' = [usage EXCEPT ![a].cost = next]
  BY <1>1 DEF AdjustCost
<1>3. /\ usage'[a].tokens = usage[a].tokens /\ usage'[a].cost = next /\ usage'[a].status = usage[a].status
      /\ \A x \in Attempts \ {a} : usage'[x] = usage[x]
  BY <1>2 DEF FactInv, FactTypeOK, UsageRow
<1>4. next \in Nat /\ next \in Int /\ next # Unknown
  BY <1>2, UnknownAssumption
<1>5. IsUnknown(usage'[a]) => IsUnknown(usage[a])
  BY <1>2, <1>3, <1>4 DEF IsUnknown
<1>6. usage[a].tokens \in Nat \cup {Unknown}
  BY DEF MoneyInv, AmountsOK
<1>7. BodyOK(CostAdjusted(a)) /\ \A f \in Parts : Part(f, CostAdjusted(a)) = Fact(f, usage'[a]) - Fact(f, usage[a])
  BY <1>3, <1>4, <1>5, BodyFacts, CorrectParts
<1> QED BY <1>2, <1>3, <1>4, <1>5, <1>6, <1>7, OneCorrection

\* A repricing corrects the settled attempts it assesses, each with its own event.
LEMMA RepriceBook ==
  ASSUME QueueOK, LifeInv, FactInv, LifeInv', FactInv', KeepsClosed, PlaceOK, MoneyInv,
         NEW c \in Connections, NEW from \in Times, NEW to \in 1..MaxTime + 1, ApplyReprice(c, from, to),
         LET applied == SetToSeq({x[1] : x \in assessed' \ assessed})
         IN  Emit([n \in DOMAIN applied |-> CostAdjusted(applied[n])])
  PROVE  Book /\ MoneyInv'
<1> DEFINE items == {a \in Attempts : /\ aConn[a] = c /\ aStart[a] >= from /\ aStart[a] < to
                                      /\ usage[a].tokens # Unknown /\ usage[a].status # "unknown"
                                      /\ catalog[aStart[a]] # Unknown}
           amount == [a \in items |-> CostOf(catalog[aStart[a]], usage[a].tokens) + ledger[a].adjusted]
           applied == {a \in items : <<a, catalog[aStart[a]], "restated">> \notin assessed}
           S == {x[1] : x \in assessed' \ assessed}
           b == [a \in S |-> CostAdjusted(a)]
<1>1. /\ \A a \in items : amount[a] >= 0
      /\ usage' = [a \in Attempts |-> IF a \in applied THEN [usage[a] EXCEPT !.cost = amount[a]] ELSE usage[a]]
      /\ assessed' = assessed \cup {<<a, catalog[aStart[a]], "restated">> : a \in applied}
      /\ UNCHANGED lifeVars
  BY DEF ApplyReprice
<1>2. \A a \in applied : /\ a \in Attempts /\ usage[a].tokens # Unknown /\ usage[a].status # "unknown"
                         /\ a \in items
  OBVIOUS
<1>3. ASSUME NEW a \in applied PROVE amount[a] \in Int
  <2>1. /\ usage[a].tokens \in Amount /\ ledger[a].adjusted \in Int
        /\ catalog[aStart[a]] \in Prices \cup {Unknown} /\ catalog[aStart[a]] # Unknown
    BY DEF FactInv, FactTypeOK, UsageRow, LedgerRow, LifeInv, LifeTypeOK
  <2>2. CostOf(catalog[aStart[a]], usage[a].tokens) \in Int
    BY <1>2, <2>1, CostFacts
  <2> QED BY <2>1, <2>2
<1>4. S = applied
  <2>1. \A a \in applied : <<a, catalog[aStart[a]], "restated">> \in assessed' \ assessed
    BY <1>1
  <2>2. \A x \in assessed' \ assessed : \E a \in applied : x = <<a, catalog[aStart[a]], "restated">>
    BY <1>1
  <2> HIDE DEF applied
  <2>3. ASSUME NEW a \in applied PROVE a \in S
    <3>1. PICK x : x = <<a, catalog[aStart[a]], "restated">>
      OBVIOUS
    <3>2. x \in assessed' \ assessed /\ x[1] = a
      BY <2>1, <3>1
    <3> QED BY <3>2
  <2>4. \A a \in S : a \in applied
    BY <2>2
  <2> QED BY <2>3, <2>4
<1>5. S \in SUBSET Attempts /\ IsFiniteSet(S)
  <2>1. applied \in SUBSET Attempts
    OBVIOUS
  <2> HIDE DEF S, applied
  <2> QED BY <1>4, <2>1, AttemptsAssumption, FS_Subset
<1>6. /\ \A a \in S : /\ usage'[a].cost \in Nat /\ usage'[a].cost \in Int /\ usage'[a].tokens = usage[a].tokens
                      /\ usage'[a].status = usage[a].status /\ aState[a] \in SettledStates /\ usage[a].status # "unknown"
      /\ \A a \in Attempts \ S : usage'[a] = usage[a]
  <2>1. \A a \in Attempts : usage[a] \in UsageRow
    BY DEF FactInv, FactTypeOK
  <2> HIDE DEF items, amount, applied, S
  <2>2. \A a \in applied : amount[a] \in Nat
    BY <1>1, <1>2, <1>3
  <2>3. ASSUME NEW a \in applied
        PROVE  /\ usage'[a].cost \in Nat /\ usage'[a].cost \in Int /\ usage'[a].tokens = usage[a].tokens
               /\ usage'[a].status = usage[a].status
    <3>1. usage'[a] = [usage[a] EXCEPT !.cost = amount[a]] /\ usage[a] \in UsageRow
      BY <1>1, <1>2, <2>1
    <3> QED BY <2>2, <3>1 DEF UsageRow
  <2>4. \A a \in applied : aState[a] \in SettledStates
    BY <1>2 DEF MoneyInv, BlankOK
  <2> QED BY <1>1, <1>2, <1>4, <2>3, <2>4
<1>7. Emit([n \in DOMAIN SetToSeq(S) |-> b[SetToSeq(S)[n]]])
  <2>1. Emit([n \in DOMAIN SetToSeq(S) |-> CostAdjusted(SetToSeq(S)[n])])
    OBVIOUS
  <2> HIDE DEF S
  <2>2. SetToSeq(S) \in [1..Cardinality(S) -> S]
    BY <1>5, ListFacts
  <2>3. \A n \in DOMAIN SetToSeq(S) : b[SetToSeq(S)[n]] = CostAdjusted(SetToSeq(S)[n])
    BY <2>2
  <2> HIDE DEF b
  <2>4. [n \in DOMAIN SetToSeq(S) |-> b[SetToSeq(S)[n]]] = [n \in DOMAIN SetToSeq(S) |-> CostAdjusted(SetToSeq(S)[n])]
    BY <2>3
  <2> QED BY <2>1, <2>4
<1> HIDE DEF items, amount, applied, S
<1>8. UNCHANGED <<aState, aReq, aConn, aStart>>
  BY <1>1 DEF lifeVars
<1>9. Placed
  BY <1>8, PlacedFacts
<1>10. ASSUME NEW a \in S PROVE Tells(a, b[a]) /\ b[a].type # Cancelling
  <2>1. b[a] = CostAdjusted(a) /\ a \in Attempts
    BY <1>5
  <2>2. IsUnknown(usage'[a]) => IsUnknown(usage[a])
    BY <1>6, UnknownAssumption DEF IsUnknown
  <2>3. BodyOK(CostAdjusted(a)) /\ \A f \in Parts : Part(f, CostAdjusted(a)) = Fact(f, usage'[a]) - Fact(f, usage[a])
    BY <1>6, <2>1, <2>2, BodyFacts, CorrectParts
  <2>4. CostAdjusted(a).type \in Correcting /\ CostAdjusted(a).type # Cancelling
    BY EventTypes DEF Correcting, Cancelling
  <2>5. aState[a] \in SettledStates /\ aState[a] # "absent"
    BY <1>6 DEF SettledStates
  <2> HIDE DEF b
  <2> QED BY <1>8, <2>1, <2>3, <2>4, <2>5, EventNames DEF Tells, Correct, SamePlace
<1> HIDE DEF b
<1>11. \A a \in Attempts \ S : Still(a)
  BY <1>6, <1>8, StillFacts DEF SamePlace
<1>12. ClosesApart(S, b)
  BY <1>10 DEF ClosesApart
<1>13. Book
  BY <1>5, <1>7, <1>9, <1>10, <1>11, <1>12, ManyBook
<1>14. MoneyInv'
  BY <1>5, <1>6, <1>8 DEF MoneyInv, AmountsOK, BlankOK
<1> QED BY <1>13, <1>14
\* Every transaction books what it writes.
LEMMA WriteBook ==
  ASSUME QueueOK, LifeInv, FactInv, LifeInv', FactInv', KeepsClosed, PlaceOK, MoneyInv, Writes
  PROVE  Book /\ MoneyInv'
<1>1. CASE WriteAdmit
  <2>1. PICK r \in Requests, a \in Attempts, k \in Keys, c \in Connections, est \in Units,
             wall \in Times, priced \in BOOLEAN :
               Admit(r, a, k, c, est, wall, priced) /\ Emit(<<Reserved(a)>>)
    BY <1>1 DEF WriteAdmit
  <2> QED BY <2>1, AdmitBook
<1>2. CASE WriteCancel
  BY <1>2, CancelBook DEF WriteCancel
<1>3. CASE WriteSettle
  <2>1. PICK a \in Attempts, state \in Outcomes, status \in {"provider_reported", "unknown"},
             tokens \in Units \cup {Unknown}, cost \in Costs \cup {Unknown}, final \in BOOLEAN :
               Settle(a, state, status, tokens, cost, final) /\ Emit(<<Settled(a)>>)
    BY <1>3 DEF WriteSettle
  <2> QED BY <2>1, SettleBook
<1>4. CASE WriteRecover
  <2>1. PICK wall \in Times : Recover(wall)
    BY <1>4 DEF WriteRecover
  <2> QED BY <1>4, <2>1, RecoverBook DEF WriteRecover
<1>5. CASE WriteReconcile
  <2>1. PICK a \in Attempts, tokens \in Reported, cost \in ReconciledCosts \cup {Unknown} :
          ReconcileUnknown(a, "provider_reported", tokens, cost) /\ Emit(<<Reconciled(a)>>)
    BY <1>5 DEF WriteReconcile
  <2> QED BY <2>1, ReconcileBook
<1>6. CASE WriteAdjust
  BY <1>6, AdjustBook DEF WriteAdjust
<1>7. CASE WriteReprice
  <2>1. PICK c \in Connections, from \in Times, to \in 1..MaxTime + 1 :
          /\ ApplyReprice(c, from, to)
          /\ LET applied == SetToSeq({x[1] : x \in assessed' \ assessed})
             IN  Emit([n \in DOMAIN applied |-> CostAdjusted(applied[n])])
    BY <1>7 DEF WriteReprice
  <2> QED BY <2>1, RepriceBook
<1> QED BY <1>1, <1>2, <1>3, <1>4, <1>5, <1>6, <1>7 DEF Writes

\* A step without events and without new amounts.
LEMMA SilentBook ==
  ASSUME QueueOK, FactInv, FactInv', KeepsClosed, PlaceOK, MoneyInv,
         written' = written, seen' = seen, daily' = daily, Pending' = Pending,
         UNCHANGED <<usage, aReq, aConn, aStart>>,
         \A a \in Attempts : /\ aState'[a] \in SettledStates <=> aState[a] \in SettledStates
                             /\ aState[a] = "absent" => aState'[a] = "absent"
  PROVE  Book /\ MoneyInv'
<1>1. NewEvents({}, <<>>, <<>>)
  <2>1. {<<>>[a] : a \in {}} = {}
    OBVIOUS
  <2> QED BY <2>1 DEF NewEvents, QueueOK
<1>2. Placed
  BY PlacedFacts
<1>3. \A a \in Attempts : Still(a)
  BY DEF Still, SamePlace
<1>4. ClosesApart({}, <<>>)
  BY DEF ClosesApart
<1>5. Books({}, <<>>) /\ Proper({}, <<>>)
  BY <1>2, <1>3, <1>4, MoveStep
<1>6. MoneyInv'
  BY DEF MoneyInv, AmountsOK, BlankOK
<1> QED BY <1>1, <1>5, <1>6 DEF Book

LEMMA QuietBook ==
  ASSUME QueueOK, LifeInv, FactInv, FactInv', KeepsClosed, PlaceOK, MoneyInv, Quiet
  PROVE  Book /\ MoneyInv'
<1>1. UNCHANGED <<events, written, seen, daily>>
  BY DEF Quiet, projectionVars
<1>2. Pending' = Pending
  BY <1>1 DEF Pending, Unprojected
<1>3. UNCHANGED <<usage, aReq, aConn, aStart>>
  BY DEF Quiet, MarkDispatching, MarkStreaming, CloseFailedRequest, FinalizeRequest, RepairStaleRequests, CreatePrice,
         factVars, lifeVars
<1>4. \/ \E a \in Attempts : /\ aState[a] \in ActiveStates
                             /\ \E s \in ActiveStates : aState' = [aState EXCEPT ![a] = s]
      \/ aState' = aState
  <2>1. ASSUME NEW a \in Attempts, MarkDispatching(a) \/ MarkStreaming(a)
        PROVE  /\ aState[a] \in ActiveStates
               /\ \E s \in ActiveStates : aState' = [aState EXCEPT ![a] = s]
    BY <2>1 DEF MarkDispatching, MarkStreaming, ActiveStates
  <2>2. CASE \E r \in Requests : CloseFailedRequest(r) \/ \E state \in Outcomes : FinalizeRequest(r, state)
    BY <2>2 DEF CloseFailedRequest, FinalizeRequest
  <2>3. CASE \E T \in SUBSET Requests : RepairStaleRequests(T)
    BY <2>3 DEF RepairStaleRequests
  <2>4. CASE \E v \in Prices, from \in Times : CreatePrice(v, from)
    BY <2>4 DEF CreatePrice, lifeVars
  <2> QED BY <2>1, <2>2, <2>3, <2>4 DEF Quiet
<1>5. \A a \in Attempts : /\ aState'[a] \in SettledStates <=> aState[a] \in SettledStates
                          /\ aState[a] = "absent" => aState'[a] = "absent"
  BY <1>4 DEF LifeInv, LifeTypeOK, ActiveStates, SettledStates
<1> QED BY <1>1, <1>2, <1>3, <1>5, SilentBook

\* The event acknowledged was projected, the one deleted acknowledged.
LEMMA AckBook ==
  ASSUME QueueOK, FactInv, FactInv', KeepsClosed, PlaceOK, MoneyInv, Ack
  PROVE  Book /\ MoneyInv'
<1>1. PICK j \in Nat, k \in Nat : FrontAt(j, k)
  BY DEF QueueOK
<1>2. PICK e \in Range(events) :
        /\ NextEvent(e)
        /\ events' = [n \in DOMAIN events |-> IF events[n] = e THEN [e EXCEPT !.acked = TRUE] ELSE events[n]]
  BY DEF Ack
<1>3. k = j + 1 /\ UNCHANGED <<written, seen, daily>>
  BY <1>1 DEF Ack, FrontAt
<1>4. j + 1 \in DOMAIN events /\ e = events[j + 1]
  BY <1>1, <1>2, NextFacts
<1>5. ~Unprojected(e)
  BY <1>1, <1>3, <1>4 DEF FrontAt, IsSeen, Unprojected
<1>6. [e EXCEPT !.acked = TRUE].acked = TRUE
  <2>1. e \in Entry
    BY <1>4 DEF QueueOK
  <2> QED BY <2>1 DEF Entry
<1>7. DOMAIN events' = DOMAIN events
  BY <1>2
<1>8. \A x : Unprojected(x)' <=> Unprojected(x)
  BY <1>3 DEF Unprojected
<1>9. Pending' = Pending
  <2>1. ASSUME NEW x \in Pending PROVE x \in Pending'
    <3>1. PICK n \in DOMAIN events : x = events[n] /\ Unprojected(x)
      BY DEF Pending, Range
    <3>2. events'[n] = x
      BY <1>2, <1>5, <3>1
    <3> QED BY <1>7, <1>8, <3>1, <3>2 DEF Pending, Range
  <2>2. ASSUME NEW x \in Pending' PROVE x \in Pending
    <3>1. PICK n \in DOMAIN events : x = events'[n] /\ Unprojected(x)
      BY <1>7, <1>8 DEF Pending, Range
    <3>2. events[n] # e
      BY <1>2, <1>6, <3>1 DEF Unprojected
    <3>3. x = events[n]
      BY <1>2, <3>1, <3>2
    <3> QED BY <3>1, <3>3 DEF Pending, Range
  <2> QED BY <2>1, <2>2
<1>10. UNCHANGED <<usage, aReq, aConn, aStart, aState>>
  BY DEF Ack, Deliver, factVars, lifeVars
<1> QED BY <1>3, <1>9, <1>10, SilentBook

LEMMA DeleteBook ==
  ASSUME QueueOK, FactInv, FactInv', KeepsClosed, PlaceOK, MoneyInv, Delete
  PROVE  Book /\ MoneyInv'
<1> DEFINE L == Len(events)
<1>1. L \in Nat /\ DOMAIN events = 1..L /\ events \in Seq(Entry)
  BY DEF QueueOK
<1>2. PICK j \in Nat, k \in Nat : FrontAt(j, k)
  BY DEF QueueOK
<1>3. at = "ack" /\ UNCHANGED <<written, seen, daily>>
  BY DEF Delete
<1>4. j \in 1..L
  BY <1>1, <1>2, <1>3 DEF FrontAt
<1>5. {n \in DOMAIN events : events[n].acked} = 1..j
  BY <1>1, <1>2, <1>4 DEF FrontAt
<1>6. Max(1..j) = j
  <2>1. \A x \in 1..j : (\A y \in 1..j : x >= y) <=> x = j
    BY <1>4
  <2>2. j \in 1..j
    BY <1>4
  <2> QED BY <2>1, <2>2 DEF Max
<1>7. events' = RemoveAt(events, j)
  BY <1>5, <1>6 DEF Delete
<1>8. /\ events' \in Seq(Entry) /\ Len(events') = L - 1
      /\ \A n \in 1..L - 1 : events'[n] = IF n < j THEN events[n] ELSE events[n + 1]
  BY <1>1, <1>4, <1>7, RemoveAtFacts
<1>9. DOMAIN events' = 1..L - 1
  BY <1>1, <1>4, <1>8
<1>10. \A x : Unprojected(x)' <=> Unprojected(x)
  BY <1>3 DEF Unprojected
<1>11. events[j].acked
  BY <1>4, <1>5
<1> HIDE DEF L
<1>12. Pending' = Pending
  <2>1. ASSUME NEW x \in Pending PROVE x \in Pending'
    <3>1. PICK n \in 1..L : x = events[n] /\ Unprojected(x)
      BY <1>1 DEF Pending, Range
    <3>2. n # j
      BY <1>11, <3>1 DEF Unprojected
    <3>3. CASE n < j
      <4>1. n \in 1..L - 1 /\ events'[n] = x
        BY <1>1, <1>4, <1>8, <3>1, <3>3
      <4> QED BY <1>9, <1>10, <3>1, <4>1 DEF Pending, Range
    <3>4. CASE n > j
      <4>1. n - 1 \in 1..L - 1 /\ ~(n - 1 < j) /\ (n - 1) + 1 = n
        BY <1>1, <1>4, <3>1, <3>4
      <4>2. events'[n - 1] = x
        BY <1>8, <3>1, <4>1
      <4> QED BY <1>9, <1>10, <3>1, <4>1, <4>2 DEF Pending, Range
    <3> QED BY <1>1, <1>4, <3>2, <3>3, <3>4
  <2>2. ASSUME NEW x \in Pending' PROVE x \in Pending
    <3>1. PICK n \in 1..L - 1 : x = events'[n] /\ Unprojected(x)
      BY <1>9, <1>10 DEF Pending, Range
    <3>2. n \in 1..L /\ n + 1 \in 1..L
      BY <1>1, <1>4
    <3>3. x = events[n] \/ x = events[n + 1]
      BY <1>8, <3>1
    <3> QED BY <1>1, <3>1, <3>2, <3>3 DEF Pending, Range
  <2> QED BY <2>1, <2>2
<1>13. UNCHANGED <<usage, aReq, aConn, aStart, aState>>
  BY DEF Delete, vars, factVars, lifeVars
<1> QED BY <1>3, <1>12, <1>13, SilentBook
-----------------------------------------------------------------------------
(* Projecting an event. *)

LEMMA ComingRemove ==
  ASSUME NEW f \in Parts, NEW t, NEW c, NEW X, IsFiniteSet(X), \A x \in X : BodyOK(x.body), NEW e \in X
  PROVE  Coming(f, t, c, X) = Brings(f, t, c, e.body) + Coming(f, t, c, X \ {e})
<1> DEFINE g == [x \in X |-> Brings(f, t, c, x.body)]
           h == [x \in X \ {e} |-> Brings(f, t, c, x.body)]
<1>1. (\A x \in X : g[x] \in Int) /\ g[e] = Brings(f, t, c, e.body) /\ \A x \in X \ {e} : h[x] = g[x]
  BY BringsFacts
<1>2. IsFiniteSet(X \ {e})
  BY FS_RemoveElement
<1> HIDE DEF g, h
<1>3. Sum(g, X) = g[e] + Sum(g, X \ {e}) /\ Sum(h, X \ {e}) = Sum(g, X \ {e})
  BY <1>1, <1>2, SumRemove, SumSame
<1> QED BY <1>1, <1>3 DEF Coming, g, h

\* What the transaction on data.db does when the event is new.
Takes(e) ==
  /\ e \in Pending /\ e \in Entry /\ BodyOK(e.body) /\ e.body.conn \in Connections
  /\ \A x \in Pending : x.id >= e.id
  /\ Pending' = Pending \ {e}
  /\ seen' = seen \cup {[id |-> e.id, type |-> e.body.type, request |-> e.body.request]}
  /\ daily' = [daily EXCEPT ![e.body.day][e.body.conn] = Projected(@, e)]
  /\ UNCHANGED <<vars, written>>

\* The event ProjectOutbox works on, when it is new, is the first one waiting.
LEMMA NextIsLeast ==
  ASSUME QueueOK, NEW e \in Range(events), NextEvent(e), IsNew(e)
  PROVE  e \in Pending /\ \A x \in Pending : x.id >= e.id
<1>1. Len(events) \in Nat /\ DOMAIN events = 1..Len(events)
  BY DEF QueueOK
<1>2. PICK j \in Nat, k \in Nat : FrontAt(j, k)
  BY DEF QueueOK
<1>3. j + 1 \in DOMAIN events /\ e = events[j + 1]
  BY <1>2, NextFacts
<1>4. e \in Pending
  BY DEF Pending, Unprojected, NextEvent, IsNew
<1>5. \A x \in Pending : x.id >= e.id
  <2> SUFFICES ASSUME NEW x \in Pending PROVE x.id >= e.id
    OBVIOUS
  <2>1. PICK n \in 1..Len(events) : x = events[n] /\ ~x.acked
    BY <1>1 DEF Pending, Range, Unprojected
  <2>2. ~(n <= j)
    BY <1>1, <1>2, <2>1 DEF FrontAt
  <2>3. \A y \in Pending : y.id \in Nat
    BY PendingFacts
  <2>4. \A m \in DOMAIN events : j + 1 < m => events[j + 1].id < events[m].id
    BY <1>3 DEF QueueOK
  <2>5. CASE n = j + 1
    BY <1>3, <2>1, <2>3, <2>5
  <2>6. CASE n > j + 1
    <3>1. events[j + 1].id < events[n].id
      BY <1>1, <2>4, <2>6
    <3>2. x.id \in Nat /\ e.id \in Nat
      BY <1>4, <2>3
    <3> QED BY <1>3, <2>1, <3>1, <3>2
  <2> QED BY <1>1, <2>2, <2>5, <2>6
<1> QED BY <1>4, <1>5

LEMMA ProjectTakes ==
  ASSUME QueueOK, PlaceOK, Project
  PROVE  \/ \E e : Takes(e)
         \/ UNCHANGED <<vars, events, written, seen, daily>>
<1>1. Len(events) \in Nat /\ DOMAIN events = 1..Len(events)
  BY DEF QueueOK
<1>2. PICK j \in Nat, k \in Nat : FrontAt(j, k)
  BY DEF QueueOK
<1>3. PICK e \in Range(events) :
        /\ NextEvent(e)
        /\ \/ /\ IsNew(e)
              /\ seen' = seen \cup {[id |-> e.id, type |-> e.body.type, request |-> e.body.request]}
              /\ daily' = [daily EXCEPT ![e.body.day][e.body.conn] = Projected(@, e)]
           \/ ~IsNew(e) /\ UNCHANGED <<seen, daily>>
  BY DEF Project
<1>4. UNCHANGED <<vars, events, written>>
  BY DEF Project
<1>5. ASSUME IsNew(e), seen' = seen \cup {[id |-> e.id, type |-> e.body.type, request |-> e.body.request]},
             daily' = [daily EXCEPT ![e.body.day][e.body.conn] = Projected(@, e)]
      PROVE  Takes(e)
  <2>1. e \in Pending /\ \A x \in Pending : x.id >= e.id
    BY <1>3, <1>5, NextIsLeast
  <2>2. Pending' = Pending \ {e}
    <3>1. \A x : Unprojected(x)' <=> Unprojected(x) /\ x.id # e.id
      <4>1. \A i : i \in {s.id : s \in seen'} <=> i \in {s.id : s \in seen} \/ i = e.id
        <5>1. PICK mark : mark = [id |-> e.id, type |-> e.body.type, request |-> e.body.request]
          OBVIOUS
        <5>2. mark.id = e.id
          BY <5>1
        <5> QED BY <1>5, <5>1, <5>2
      <4> QED BY <4>1 DEF Unprojected
    <3>2. \A x \in Pending : x.id = e.id => x = e
      BY <2>1, PendingFacts
    <3> QED BY <1>4, <3>1, <3>2 DEF Pending
  <2>3. e \in Entry /\ BodyOK(e.body) /\ e.body.conn \in Connections
    BY <2>1, PendingFacts DEF PlaceOK
  <2> QED BY <1>4, <1>5, <2>1, <2>2, <2>3 DEF Takes
<1> QED BY <1>3, <1>4, <1>5

Here(e, t, c) == e.body.day = t /\ e.body.conn = c
LEMMA TakenRow ==
  ASSUME QueueOK, NEW e, Takes(e), NEW t \in Times, NEW c \in Connections
  PROVE  /\ \A f \in Parts : Part(f, daily'[t][c]) = Part(f, daily[t][c]) + Brings(f, t, c, e.body)
         /\ daily'[t][c].exists <=> daily[t][c].exists \/ (Here(e, t, c) /\ e.body.type # "attempt.reserved")
         /\ daily'[t][c].requests =
              daily[t][c].requests + (IF Here(e, t, c) /\ e.body.type \in Closing THEN RequestIncrement(e) ELSE 0)
         /\ daily[t][c].requests \in Int
<1>1. daily[t][c] \in DayRow /\ e.body \in Body /\ daily \in [Times -> [Connections -> DayRow]]
  BY DEF QueueOK, Takes, BodyOK
<1>2. daily'[t][c] = IF Here(e, t, c) THEN Projected(daily[t][c], e) ELSE daily[t][c]
  BY <1>1 DEF Takes, Here, Body
<1>3. /\ daily[t][c].requests \in Int /\ daily[t][c].exists \in BOOLEAN
      /\ \A f \in Parts : Part(f, daily[t][c]) \in Int
  BY <1>1 DEF Part, DayRow
<1>4. CASE ~Here(e, t, c)
  BY <1>2, <1>3, <1>4 DEF Brings, Here
<1>5. CASE Here(e, t, c) /\ e.body.type = "attempt.reserved"
  <2>1. daily'[t][c] = daily[t][c] /\ AddsNothing(e.body)
    BY <1>2, <1>5 DEF Projected, Takes, BodyOK
  <2>2. \A f \in Parts : Brings(f, t, c, e.body) = 0
    BY <2>1 DEF Brings, Part, AddsNothing
  <2>3. e.body.type \notin Closing
    BY <1>5 DEF Closing
  <2> QED BY <1>3, <1>5, <2>1, <2>2, <2>3
<1>6. CASE Here(e, t, c) /\ e.body.type # "attempt.reserved"
  <2> DEFINE row == daily[t][c]
             next == [exists |-> TRUE,
                      requests |-> row.requests + (IF e.body.type \in Closing THEN RequestIncrement(e) ELSE 0),
                      tokens |-> row.tokens + e.body.tokens,
                      cost |-> row.cost + e.body.cost,
                      unknown |-> row.unknown + e.body.unknown]
  <2>1. daily'[t][c] = next
    BY <1>2, <1>6 DEF Projected
  <2>2. \A f \in Parts : Part(f, next) = Part(f, row) + Part(f, e.body)
    BY DEF Part
  <2>3. \A f \in Parts : Brings(f, t, c, e.body) = Part(f, e.body)
    BY <1>6 DEF Brings, Here
  <2>4. /\ next.exists = TRUE
        /\ next.requests = row.requests + (IF e.body.type \in Closing THEN RequestIncrement(e) ELSE 0)
    OBVIOUS
  <2> HIDE DEF next
  <2> QED BY <1>3, <1>6, <2>1, <2>2, <2>3, <2>4
<1> QED BY <1>4, <1>5, <1>6

LEMMA TakenCounts ==
  ASSUME QueueOK, FactInv, CountsOK, NEW e, Takes(e)
  PROVE  CountsOK'
<1>1. IsFiniteSet(Pending) /\ \A x \in Pending : BodyOK(x.body) /\ x.id \in Nat
  BY PendingFacts
<1>2. \A i \in Nat : IsFiniteSet(UpTo(i)) /\ \A x \in UpTo(i) : BodyOK(x.body)
  BY <1>1, FS_Subset DEF UpTo
<1>3. \A f \in Parts, t \in Times, c \in Connections : Worths(f, t, c)' = Worths(f, t, c)
  BY DEF Worths, Worth, Takes, vars, factVars, lifeVars
<1>4. ASSUME NEW f \in Parts, NEW t \in Times, NEW c \in Connections, NEW X, IsFiniteSet(X), e \in X,
             \A x \in X : BodyOK(x.body)
      PROVE  /\ Part(f, daily'[t][c]) + Coming(f, t, c, X \ {e}) = Part(f, daily[t][c]) + Coming(f, t, c, X)
  <2>1. Part(f, daily'[t][c]) = Part(f, daily[t][c]) + Brings(f, t, c, e.body)
    BY TakenRow
  <2>2. Coming(f, t, c, X) = Brings(f, t, c, e.body) + Coming(f, t, c, X \ {e})
    BY <1>4, ComingRemove
  <2>3. Brings(f, t, c, e.body) \in Int
    BY BringsFacts DEF Takes
  <2>4. Coming(f, t, c, X \ {e}) \in Int
    <3>1. IsFiniteSet(X \ {e}) /\ \A x \in X \ {e} : BodyOK(x.body)
      BY <1>4, FS_RemoveElement
    <3> QED BY <3>1, ComingType
  <2>5. Part(f, daily[t][c]) \in Int
    BY DEF QueueOK, DayRow, Part
  <2> QED BY <2>1, <2>2, <2>3, <2>4, <2>5
<1>5. ASSUME NEW f \in Parts, NEW t \in Times, NEW c \in Connections
      PROVE  (Part(f, daily[t][c]) + Coming(f, t, c, Pending) = Sum(Worths(f, t, c), Attempts))'
  <2>1. Part(f, daily'[t][c]) + Coming(f, t, c, Pending \ {e}) = Part(f, daily[t][c]) + Coming(f, t, c, Pending)
    BY <1>1, <1>4 DEF Takes
  <2>2. Part(f, daily[t][c]) + Coming(f, t, c, Pending) = Sum(Worths(f, t, c), Attempts)
    BY DEF CountsOK, BalanceOK
  <2> QED BY <1>3, <2>1, <2>2 DEF Takes
<1>6. ASSUME NEW f \in Parts, NEW t \in Times, NEW c \in Connections, NEW i \in Nat
      PROVE  (Part(f, daily[t][c]) + Coming(f, t, c, UpTo(i)) >= 0)'
  <2> DEFINE m == IF i > e.id THEN i ELSE e.id
  <2>1. m \in Nat /\ m >= e.id /\ e.id \in Nat
    BY <1>1 DEF Takes
  <2>2. UpTo(i)' = UpTo(m) \ {e}
    <3>1. \A x \in Pending : x # e => (x.id <= m <=> x.id <= i)
      <4> SUFFICES ASSUME NEW x \in Pending, x # e PROVE x.id <= m <=> x.id <= i
        OBVIOUS
      <4>1. x.id \in Nat /\ x.id >= e.id /\ x.id # e.id
        BY <1>1, PendingFacts DEF Takes
      <4> QED BY <2>1, <4>1
    <3> HIDE DEF m
    <3> QED BY <3>1 DEF UpTo, Takes
  <2>3. e \in UpTo(m)
    BY <2>1 DEF UpTo, Takes
  <2> HIDE DEF m
  <2>4. Part(f, daily'[t][c]) + Coming(f, t, c, UpTo(m) \ {e}) = Part(f, daily[t][c]) + Coming(f, t, c, UpTo(m))
    <3> DEFINE X == UpTo(m)
    <3>1. IsFiniteSet(X) /\ e \in X /\ \A x \in X : BodyOK(x.body)
      BY <1>2, <2>1, <2>3
    <3> HIDE DEF X
    <3>2. Part(f, daily'[t][c]) + Coming(f, t, c, X \ {e}) = Part(f, daily[t][c]) + Coming(f, t, c, X)
      BY <1>4, <3>1
    <3> QED BY <3>2 DEF X
  <2>5. Part(f, daily[t][c]) + Coming(f, t, c, UpTo(m)) >= 0
    BY <2>1 DEF CountsOK, NoDip
  <2> QED BY <2>2, <2>4, <2>5
<1> QED BY <1>5, <1>6 DEF CountsOK, BalanceOK, NoDip

LEMMA TakenOrder ==
  ASSUME LifeInv, QueueOK, OrderInv, MoneyInv, NEW e, Takes(e)
  PROVE  OrderInv' /\ MoneyInv'
<1>1. UNCHANGED <<aState, aStart, aConn, rState, usage, written>>
  BY DEF Takes, vars, lifeVars, factVars
<1>2. \A x \in Pending' : x \in Pending /\ x # e
  BY DEF Takes
<1>3. ASSUME NEW t \in Times, NEW c \in Connections, NEW i, Known(t, c, i) PROVE Known(t, c, i)'
  <2>1. CASE daily[t][c].exists
    BY <2>1, TakenRow DEF Known
  <2>2. ASSUME NEW x \in Pending, x.id < i, x.body.type \in Closing, x.body.day = t, x.body.conn = c
        PROVE  Known(t, c, i)'
    <3>1. CASE x = e
      BY <2>2, <3>1, TakenRow DEF Known, Here, Closing
    <3>2. CASE x # e
      BY <2>2, <3>2 DEF Known, Takes
    <3> QED BY <3>1, <3>2
  <2> QED BY <1>3, <2>1, <2>2 DEF Known
<1>4. KnownOK'
  <2>1. ASSUME NEW a \in Attempts, aState'[a] \in SettledStates PROVE Known(aStart[a], aConn[a], written + 1)'
    <3>1. PICK t, c, i : t = aStart[a] /\ c = aConn[a] /\ i = written + 1
      OBVIOUS
    <3>2. Known(t, c, i)
      BY <1>1, <2>1, <3>1 DEF OrderInv, KnownOK
    <3>3. t \in Times /\ c \in Connections
      BY <1>1, <2>1, <3>1 DEF OrderInv, PlaceOK, SettledStates, LifeInv, LifeTypeOK
    <3>4. Known(t, c, i)'
      BY <1>3, <3>2, <3>3
    <3> QED BY <1>1, <3>1, <3>4 DEF Known
  <2>2. ASSUME NEW x \in Pending', x.body.type \in Correcting PROVE Known(x.body.day, x.body.conn, x.id)'
    <3>1. x \in Pending /\ x.body.day \in Times /\ x.body.conn \in Connections
      BY <1>2, PendingFacts DEF OrderInv, PlaceOK, BodyOK, Body
    <3> QED BY <1>3, <2>2, <3>1 DEF OrderInv, KnownOK
  <2> QED BY <2>1, <2>2 DEF KnownOK
<1>5. PlaceOK'
  BY <1>1, <1>2 DEF OrderInv, PlaceOK
<1>6. CloseOK'
  <2>1. ASSUME NEW s \in seen', s.type = Cancelling
        PROVE  /\ s.request \in Requests /\ rState[s.request] = "cancelled"
               /\ \A x \in Pending' : x.body.type = "attempt.settled" => x.body.request # s.request
    <3>1. CASE s \in seen
      BY <1>2, <2>1, <3>1 DEF OrderInv, CloseOK
    <3>2. CASE s \notin seen
      <4>1. s.type = e.body.type /\ s.request = e.body.request
        BY <3>2 DEF Takes
      <4>2. /\ e.body.request \in Requests /\ rState[e.body.request] = "cancelled"
            /\ \A x \in Pending : x.body.type = "attempt.settled" /\ x.body.request = e.body.request => x.id < e.id
        BY <2>1, <4>1 DEF OrderInv, CloseOK, Takes
      <4>3. \A x \in Pending : x.id >= e.id /\ x.id \in Nat /\ e.id \in Nat
        BY PendingFacts DEF Takes
      <4> QED BY <1>2, <4>1, <4>2, <4>3
    <3> QED BY <3>1, <3>2
  <2> QED BY <1>1, <1>2, <2>1 DEF OrderInv, CloseOK
<1>7. MoneyInv'
  BY <1>1 DEF MoneyInv, AmountsOK, BlankOK
<1> QED BY <1>4, <1>5, <1>6, <1>7 DEF OrderInv

\* A request is counted with its first close and never again.
LEMMA TakenRequests ==
  ASSUME QueueOK, OrderInv, RequestsOK, NEW e, Takes(e)
  PROVE  RequestsOK'
<1>1. IsFiniteSet(Places)
  <2>1. IsFiniteSet(Times)
    BY TimeAssumption, FS_Interval DEF Times
  <2> QED BY <2>1, ConnectionsAssumption, FS_Product DEF Places
<1>2. \A x \in Places : /\ x[1] \in Times /\ x[2] \in Connections
                        /\ x = <<x[1], x[2]>>
  BY DEF Places
<1> DEFINE here == <<e.body.day, e.body.conn>>
           f == RequestRows
           g == RequestRows'
           more == IF e.body.type \in Closing THEN RequestIncrement(e) ELSE 0
<1>3. here \in Places
  BY DEF Takes, BodyOK, Body, Places
<1>4. ASSUME NEW x \in Places
      PROVE  f[x] \in Int /\ g[x] = f[x] + (IF x = here THEN more ELSE 0)
  <2>1. PICK t \in Times, c \in Connections : x = <<t, c>>
    BY DEF Places
  <2>2. f[x] = daily[t][c].requests /\ g[x] = daily'[t][c].requests
    BY <2>1 DEF RequestRows
  <2>3. x = here <=> Here(e, t, c)
    BY <2>1 DEF Here
  <2> HIDE DEF f, g, here
  <2> QED BY <2>2, <2>3, TakenRow
<1>5. more \in {0, 1}
  BY DEF RequestIncrement
<1>6. ClosedSeen' = IF e.body.type \in Closing THEN ClosedSeen \cup {e.body.request} ELSE ClosedSeen
  <2> DEFINE K == {x \in seen : x.type \in Closing}
  <2>1. PICK mark : mark = [id |-> e.id, type |-> e.body.type, request |-> e.body.request]
    OBVIOUS
  <2>2. mark.type = e.body.type /\ mark.request = e.body.request
    BY <2>1
  <2>3. {x \in seen' : x.type \in Closing} = IF e.body.type \in Closing THEN K \cup {mark} ELSE K
    BY <2>1, <2>2 DEF Takes
  <2>4. ClosedSeen' = {s.request : s \in IF e.body.type \in Closing THEN K \cup {mark} ELSE K}
    BY <2>3 DEF ClosedSeen
  <2>5. {s.request : s \in K \cup {mark}} = {s.request : s \in K} \cup {e.body.request}
    <3> HIDE DEF K
    <3> QED BY <2>2
  <2> QED BY <2>4, <2>5 DEF ClosedSeen
<1>7. e.body.type \in Closing => (more = 0 <=> e.body.request \in ClosedSeen)
  <2>1. CASE e.body.type = "attempt.settled"
    <3>1. \A s \in seen : s.type = Cancelling => s.request # e.body.request
      BY <2>1 DEF OrderInv, CloseOK, Takes
    <3>2. \A s \in seen : s.request = e.body.request /\ s.type \in Closing => s.type = "attempt.settled"
      BY <3>1 DEF Closing, Cancelling
    <3>3. "attempt.settled" \in Closing
      BY DEF Closing
    <3> QED BY <2>1, <3>2, <3>3 DEF RequestIncrement, ClosedSeen
  <2>2. CASE e.body.type # "attempt.settled"
    BY <2>2 DEF RequestIncrement, ClosedSeen
  <2> QED BY <2>1, <2>2
<1>8. IsFiniteSet(ClosedSeen) /\ Cardinality(ClosedSeen) \in Nat
  BY FS_CardinalityType DEF RequestsOK
<1>9. IsFiniteSet(ClosedSeen') /\ Cardinality(ClosedSeen') = Cardinality(ClosedSeen) + more
  <2>1. CASE e.body.type \in Closing
    <3> HIDE DEF more
    <3> DEFINE C == ClosedSeen
               r == e.body.request
    <3>1. ClosedSeen' = C \cup {r} /\ (more = 0 <=> r \in C) /\ IsFiniteSet(C) /\ Cardinality(C) \in Nat
      BY <1>6, <1>7, <1>8, <2>1
    <3> HIDE DEF C, r
    <3>2. IsFiniteSet(C \cup {r}) /\ Cardinality(C \cup {r}) = IF r \in C THEN Cardinality(C) ELSE Cardinality(C) + 1
      BY <3>1, FS_AddElement
    <3>3. Cardinality(ClosedSeen') = Cardinality(C) + more
      BY <1>5, <3>1, <3>2
    <3> QED BY <3>1, <3>2, <3>3 DEF C
  <2>2. CASE e.body.type \notin Closing
    BY <1>6, <1>8, <2>2
  <2> QED BY <2>1, <2>2
<1> HIDE DEF f, g, more, here
<1>10. \A y \in Places : f[y] \in Int /\ g[y] \in Int
  BY <1>4, <1>5
<1>11. (\A y \in Places \ {here} : g[y] = f[y]) /\ g[here] = f[here] + more /\ f[here] \in Int /\ g[here] \in Int
  BY <1>3, <1>4, <1>10
<1>12. Sum(g, Places) = Sum(f, Places) + (g[here] - f[here])
  BY <1>1, <1>3, <1>10, <1>11, SumChange
<1>13. Sum(f, Places) = Cardinality(ClosedSeen)
  BY DEF RequestsOK, f
<1>14. Sum(g, Places) = Cardinality(ClosedSeen')
  BY <1>5, <1>8, <1>9, <1>11, <1>12, <1>13
<1> QED BY <1>9, <1>14 DEF RequestsOK, g
-----------------------------------------------------------------------------
(* The invariant of the daily rows. *)

DayInv == CountsOK /\ OrderInv /\ MoneyInv /\ RequestsOK

LEMMA InitDay == ProjectionInit => DayInv
<1> SUFFICES ASSUME ProjectionInit PROVE DayInv
  OBVIOUS
<1>1. Pending = {} /\ \A i \in Nat : UpTo(i) = {}
  BY DEF ProjectionInit, Pending, Range, UpTo
<1>2. \A a \in Attempts : aState[a] = "absent" /\ usage[a].tokens = Unknown /\ usage[a].cost = Unknown
  BY DEF ProjectionInit, Init
<1>3. \A a \in Attempts : aState[a] \notin SettledStates
  BY <1>2 DEF SettledStates
<1>4. ASSUME NEW f \in Parts, NEW t \in Times, NEW c \in Connections
      PROVE  Part(f, daily[t][c]) = 0 /\ Coming(f, t, c, {}) = 0 /\ Sum(Worths(f, t, c), Attempts) = 0
  <2>1. Part(f, daily[t][c]) = 0
    BY DEF ProjectionInit, NoRow, Part
  <2>2. Coming(f, t, c, {}) = 0
    BY SumEmpty DEF Coming
  <2>3. \A a \in Attempts : Worths(f, t, c)[a] = 0
    BY <1>3 DEF Worths, Worth
  <2>4. Sum(Worths(f, t, c), Attempts) = 0
    BY <2>3, AttemptsAssumption, SumZero
  <2> QED BY <2>1, <2>2, <2>4
<1>5. CountsOK
  BY <1>1, <1>4 DEF CountsOK, BalanceOK, NoDip
<1>6. OrderInv
  <2>1. seen = {}
    BY DEF ProjectionInit
  <2> QED BY <1>1, <1>2, <1>3, <2>1 DEF OrderInv, KnownOK, PlaceOK, CloseOK
<1>7. MoneyInv
  BY <1>2 DEF MoneyInv, AmountsOK, BlankOK
<1>8. RequestsOK
  <2>1. IsFiniteSet(Places)
    <3>1. IsFiniteSet(Times)
      BY TimeAssumption, FS_Interval DEF Times
    <3> QED BY <3>1, ConnectionsAssumption, FS_Product DEF Places
  <2>2. \A x \in Places : RequestRows[x] = 0
    BY DEF RequestRows, Places, ProjectionInit, NoRow
  <2>3. Sum(RequestRows, Places) = 0
    BY <2>1, <2>2, SumZero
  <2>4. ClosedSeen = {}
    BY DEF ProjectionInit, ClosedSeen
  <2> QED BY <2>3, <2>4, FS_EmptySet DEF RequestsOK
<1> QED BY <1>5, <1>6, <1>7, <1>8 DEF DayInv

LEMMA BookStep ==
  ASSUME QueueOK, QueueOK', FactInv, FactInv', DayInv, Book, MoneyInv'
  PROVE  DayInv'
<1>1. PICK S \in SUBSET Attempts : \E b : \E ev : NewEvents(S, b, ev) /\ Books(S, b) /\ Proper(S, b)
  BY DEF Book
<1>2. PICK b, ev : NewEvents(S, b, ev) /\ Books(S, b) /\ Proper(S, b)
  BY <1>1
<1>3. CountsOK'
  BY <1>2, CountsStep DEF DayInv, MoneyInv
<1>4. OrderInv'
  BY <1>2, OrderStep DEF DayInv
<1>5. RequestsOK'
  BY <1>2 DEF DayInv, RequestsOK, NewEvents, RequestRows, ClosedSeen
<1> QED BY <1>3, <1>4, <1>5 DEF DayInv

LEMMA DayStep ==
  ASSUME ProjectionInv, DayInv, [ProjectionNext]_pVars
  PROVE  DayInv'
<1>1. ProjectionInv'
  BY ProjectionStep
<1>2. [Next]_vars
  BY AccountStep DEF pVars
<1>3. KeepsClosed
  BY <1>2, ClosedStep DEF ProjectionInv
<1> USE DEF ProjectionInv
<1>4. PlaceOK /\ MoneyInv
  BY DEF DayInv, OrderInv
<1>5. CASE Writes
  BY <1>1, <1>3, <1>4, <1>5, WriteBook, BookStep
<1>6. CASE Quiet
  BY <1>1, <1>3, <1>4, <1>6, QuietBook, BookStep
<1>7. CASE Ack
  BY <1>1, <1>3, <1>4, <1>7, AckBook, BookStep
<1>8. CASE Delete
  BY <1>1, <1>3, <1>4, <1>8, DeleteBook, BookStep
<1>9. CASE UNCHANGED <<vars, events, written, seen, daily>>
  <2>1. Pending' = Pending /\ UNCHANGED <<usage, aReq, aConn, aStart, aState, written, seen, daily>>
    BY <1>9 DEF Pending, Unprojected, vars, lifeVars, factVars
  <2> QED BY <1>1, <1>3, <1>4, <2>1, SilentBook, BookStep
<1>10. CASE Interrupt \/ UNCHANGED pVars
  BY <1>9, <1>10 DEF Interrupt, pVars, projectionVars
<1>11. CASE Project
  <2>1. ASSUME NEW e, Takes(e) PROVE DayInv'
    BY <2>1, TakenCounts, TakenOrder, TakenRequests DEF DayInv
  <2> QED BY <1>4, <1>9, <1>11, <2>1, ProjectTakes
<1> QED BY <1>5, <1>6, <1>7, <1>8, <1>10, <1>11 DEF ProjectionNext

\* The rows, the waiting events and the attempts in the words of the property.
LEMMA DaysExplained == ProjectionInv /\ DayInv => DailyExplainsAttempts
<1> SUFFICES ASSUME ProjectionInv, DayInv PROVE DailyExplainsAttempts
  OBVIOUS
<1> USE DEF ProjectionInv
<1>1. IsFiniteSet(Pending) /\ \A e \in Pending : BodyOK(e.body)
  BY PendingFacts
<1>2. IsFiniteSet(Attempts)
  BY AttemptsAssumption
<1>3. ASSUME NEW t \in Times, NEW c \in Connections
      PROVE  /\ daily[t][c].tokens + SumFunction([e \in In(t, c, Pending) |-> e.body.tokens])
                  = SumFunction([a \in AttemptsIn(t, c) |-> OrZero(usage[a].tokens)])
             /\ daily[t][c].cost + SumFunction([e \in In(t, c, Pending) |-> e.body.cost])
                  = SumFunction([a \in AttemptsIn(t, c) |-> OrZero(usage[a].cost)])
             /\ daily[t][c].unknown + SumFunction([e \in In(t, c, Pending) |-> e.body.unknown])
                  = Cardinality({a \in AttemptsIn(t, c) : IsUnknown(usage[a])})
  <2> DEFINE W == In(t, c, Pending)
             T == AttemptsIn(t, c)
  <2>1. W \in SUBSET Pending /\ T \in SUBSET Attempts
    BY DEF In, AttemptsIn
  <2>2. ASSUME NEW f \in Parts, NEW g, \A e \in W : g[e] = Part(f, e.body)
        PROVE  Sum(g, W) = Coming(f, t, c, Pending)
    <3> DEFINE h == [e \in Pending |-> Brings(f, t, c, e.body)]
    <3>1. \A e \in W : g[e] \in Int /\ h[e] = g[e]
      <4>1. \A e \in W : Brings(f, t, c, e.body) = Part(f, e.body) /\ Brings(f, t, c, e.body) \in Int
        BY <1>1, <2>1, BringsFacts DEF Brings, In
      <4> QED BY <2>1, <2>2, <4>1
    <3>2. \A e \in Pending \ W : h[e] = 0
      BY DEF Brings, In
    <3> HIDE DEF h, W
    <3>3. Sum(h, Pending) = Sum(g, W)
      BY <1>1, <2>1, <3>1, <3>2, SumPart
    <3> QED BY <3>3 DEF Coming, h
  <2>3. ASSUME NEW f \in Parts, NEW g, NEW U \in SUBSET T, \A a \in U : g[a] = Fact(f, usage[a]),
               \A a \in T \ U : Fact(f, usage[a]) = 0
        PROVE  Sum(g, U) = Sum(Worths(f, t, c), Attempts)
    <3> DEFINE w == Worths(f, t, c)
    <3>1. \A a \in U : g[a] \in Int /\ w[a] = g[a]
      <4>1. \A a \in U : Worth(f, t, c, a) = Fact(f, usage[a]) /\ a \in Attempts
        BY <2>1 DEF Worth, AttemptsIn
      <4>2. \A a \in U : Worth(f, t, c, a) \in Int
        BY <4>1, WorthFacts
      <4> QED BY <2>3, <4>1, <4>2 DEF Worths
    <3>2. \A a \in Attempts \ U : w[a] = 0
      <4>1. \A a \in Attempts \ T : Worth(f, t, c, a) = 0
        BY DEF Worth, AttemptsIn
      <4>2. \A a \in T \ U : Worth(f, t, c, a) = 0
        BY <2>3 DEF Worth
      <4> QED BY <4>1, <4>2 DEF Worths
    <3>3. U \in SUBSET Attempts
      BY <2>1
    <3> HIDE DEF w, T
    <3>4. Sum(w, Attempts) = Sum(g, U)
      BY <1>2, <3>1, <3>2, <3>3, SumPart
    <3> QED BY <3>4 DEF w
  <2>4. \A f \in Parts : Part(f, daily[t][c]) + Coming(f, t, c, Pending) = Sum(Worths(f, t, c), Attempts)
    BY DEF DayInv, CountsOK, BalanceOK
  <2>5. \A g, X : g = [x \in X |-> g[x]] => SumFunction(g) = Sum(g, X)
    BY DEF SumFunction, Sum
  <2> HIDE DEF W, T
  <2>6. daily[t][c].tokens + SumFunction([e \in W |-> e.body.tokens]) = SumFunction([a \in T |-> OrZero(usage[a].tokens)])
    <3> DEFINE g == [e \in W |-> e.body.tokens]
               h == [a \in T |-> OrZero(usage[a].tokens)]
    <3>1. "tokens" \in Parts /\ Part("tokens", daily[t][c]) = daily[t][c].tokens
      BY DEF Parts, Part
    <3>2. (\A e \in W : g[e] = Part("tokens", e.body)) /\ g = [x \in W |-> g[x]]
      BY DEF Part
    <3>3. (\A a \in T : h[a] = Fact("tokens", usage[a])) /\ h = [x \in T |-> h[x]]
      BY DEF Fact
    <3> HIDE DEF g, h
    <3>4. Sum(g, W) = Coming("tokens", t, c, Pending)
      BY <2>2, <3>1, <3>2
    <3>5. Sum(h, T) = Sum(Worths("tokens", t, c), Attempts)
      BY <2>3, <3>1, <3>3
    <3>6. SumFunction(g) = Sum(g, W) /\ SumFunction(h) = Sum(h, T)
      BY <2>5, <3>2, <3>3
    <3>7. daily[t][c].tokens + SumFunction(g) = SumFunction(h)
      BY <2>4, <3>1, <3>4, <3>5, <3>6
    <3> QED BY <3>7 DEF g, h
  <2>7. daily[t][c].cost + SumFunction([e \in W |-> e.body.cost]) = SumFunction([a \in T |-> OrZero(usage[a].cost)])
    <3> DEFINE g == [e \in W |-> e.body.cost]
               h == [a \in T |-> OrZero(usage[a].cost)]
    <3>1. "cost" \in Parts /\ Part("cost", daily[t][c]) = daily[t][c].cost
      BY DEF Parts, Part
    <3>2. (\A e \in W : g[e] = Part("cost", e.body)) /\ g = [x \in W |-> g[x]]
      BY DEF Part
    <3>3. (\A a \in T : h[a] = Fact("cost", usage[a])) /\ h = [x \in T |-> h[x]]
      BY DEF Fact
    <3> HIDE DEF g, h
    <3>4. Sum(g, W) = Coming("cost", t, c, Pending)
      BY <2>2, <3>1, <3>2
    <3>5. Sum(h, T) = Sum(Worths("cost", t, c), Attempts)
      BY <2>3, <3>1, <3>3
    <3>6. SumFunction(g) = Sum(g, W) /\ SumFunction(h) = Sum(h, T)
      BY <2>5, <3>2, <3>3
    <3>7. daily[t][c].cost + SumFunction(g) = SumFunction(h)
      BY <2>4, <3>1, <3>4, <3>5, <3>6
    <3> QED BY <3>7 DEF g, h
  <2>8. daily[t][c].unknown + SumFunction([e \in W |-> e.body.unknown]) = Cardinality({a \in T : IsUnknown(usage[a])})
    <3> DEFINE g == [e \in W |-> e.body.unknown]
               U == {a \in T : IsUnknown(usage[a])}
               h == [a \in U |-> 1]
    <3>1. "unknown" \in Parts /\ Part("unknown", daily[t][c]) = daily[t][c].unknown
      BY DEF Parts, Part
    <3>2. (\A e \in W : g[e] = Part("unknown", e.body)) /\ g = [x \in W |-> g[x]]
      BY DEF Part
    <3>3. /\ \A a \in U : h[a] = Fact("unknown", usage[a]) /\ h[a] = 1
          /\ \A a \in T \ U : Fact("unknown", usage[a]) = 0
      BY DEF Fact
    <3>4. U \in SUBSET T /\ U \in SUBSET Attempts
      BY <2>1
    <3>5. IsFiniteSet(U)
      BY <1>2, <3>4, FS_Subset
    <3> HIDE DEF g, h, U
    <3>6. Sum(g, W) = Coming("unknown", t, c, Pending)
      BY <2>2, <3>1, <3>2
    <3>7. Sum(h, U) = Sum(Worths("unknown", t, c), Attempts)
      BY <2>3, <3>1, <3>3, <3>4
    <3>8. SumFunction(g) = Sum(g, W) /\ Sum(h, U) = Cardinality(U)
      BY <2>5, <3>2, <3>3, <3>5, SumOnes
    <3>9. daily[t][c].unknown + SumFunction(g) = Cardinality(U)
      BY <2>4, <3>1, <3>6, <3>7, <3>8
    <3> QED BY <3>9 DEF g, U
  <2> QED BY <2>6, <2>7, <2>8 DEF W, T
<1>4. SumFunction([x \in Times \X Connections |-> daily[x[1]][x[2]].requests])
        = Cardinality({s.request : s \in {x \in seen : x.type \in Closing}})
  <2>1. SumFunction(RequestRows) = Sum(RequestRows, Places)
    BY DEF SumFunction, Sum, RequestRows
  <2>2. Sum(RequestRows, Places) = Cardinality(ClosedSeen)
    BY DEF DayInv, RequestsOK
  <2> QED BY <2>1, <2>2 DEF RequestRows, Places, ClosedSeen
<1> QED BY <1>3, <1>4 DEF DailyExplainsAttempts

LEMMA NothingPoisons == ProjectionInv /\ DayInv => NothingPoisonsTheQueue
<1> SUFFICES ASSUME ProjectionInv, DayInv, NEW e \in Range(events), NextEvent(e), IsNew(e), e.body.type \in Correcting
             PROVE  /\ Row(e).exists
                    /\ Row(e).unknown + e.body.unknown >= 0
                    /\ Row(e).cost + e.body.cost >= 0
  BY DEF NothingPoisonsTheQueue, Projectable, Correcting
<1> USE DEF ProjectionInv
<1>1. e \in Pending /\ \A x \in Pending : x.id >= e.id
  BY NextIsLeast
<1>2. /\ \A x \in Pending : x.id \in Nat
      /\ \A x \in Pending : x.id = e.id => x = e
      /\ e.body.day \in Times /\ e.body.conn \in Connections /\ BodyOK(e.body)
  BY <1>1, PendingFacts DEF DayInv, OrderInv, PlaceOK, BodyOK, Body
<1>3. PICK t \in Times, c \in Connections, i \in Nat : t = e.body.day /\ c = e.body.conn /\ i = e.id
  BY <1>1, <1>2
<1>4. Row(e) = daily[t][c]
  BY <1>3 DEF Row
<1>5. Row(e).exists
  <2>1. Known(t, c, i)
    BY <1>1, <1>3 DEF DayInv, OrderInv, KnownOK
  <2>2. \A x \in Pending : ~(x.id < i)
    BY <1>1, <1>2, <1>3
  <2> QED BY <1>4, <2>1, <2>2 DEF Known
<1>6. ASSUME NEW f \in Parts PROVE Part(f, daily[t][c]) + Part(f, e.body) >= 0
  <2>1. UpTo(i) = {e}
    <3>1. \A x \in Pending : x.id <= i <=> x = e
      BY <1>1, <1>2, <1>3
    <3> QED BY <1>1, <3>1 DEF UpTo
  <2>2. Coming(f, t, c, {e}) = Brings(f, t, c, e.body) + Coming(f, t, c, {e} \ {e})
    <3>1. IsFiniteSet({e}) /\ \A x \in {e} : BodyOK(x.body)
      BY <1>2, FS_Singleton
    <3> QED BY <3>1, ComingRemove
  <2>3. Coming(f, t, c, {e} \ {e}) = 0
    <3>1. {e} \ {e} = {} /\ [x \in {} |-> Brings(f, t, c, x.body)] = [x \in {} |-> Brings(f, t, c, x.body)]
      OBVIOUS
    <3> QED BY <3>1, SumEmpty DEF Coming
  <2>4. Part(f, daily[t][c]) + Coming(f, t, c, UpTo(i)) >= 0
    BY DEF DayInv, CountsOK, NoDip
  <2>5. Brings(f, t, c, e.body) = Part(f, e.body) /\ Brings(f, t, c, e.body) \in Int
    BY <1>2, <1>3, BringsFacts DEF Brings
  <2> QED BY <2>1, <2>2, <2>3, <2>4, <2>5
<1> QED BY <1>4, <1>5, <1>6 DEF Parts, Part

LEMMA DayInvariant == ProjectionSpec => [](ProjectionInv /\ DayInv)
<1>1. ProjectionInit => ProjectionInv /\ DayInv
  BY InitQueue, InitLife, InitRoom, InitFacts, InitDay DEF ProjectionInit, ProjectionInv
<1>2. ProjectionInv /\ DayInv /\ [ProjectionNext]_pVars => (ProjectionInv /\ DayInv)'
  BY ProjectionStep, DayStep
<1> QED BY <1>1, <1>2, PTL DEF ProjectionSpec

\* For every number of attempts, events, connections and restarts the daily
\* rows and the events not yet projected together are the attempts' tokens,
\* costs and unknown outcomes, and each closed request is counted once
\* (projectEvent, nextEvents, and the six transactions that append events).
THEOREM DaysAlwaysExplained == ProjectionSpec => []DailyExplainsAttempts
<1>1. ProjectionInv /\ DayInv => DailyExplainsAttempts
  BY DaysExplained
<1> QED BY <1>1, DayInvariant, PTL

\* No order of settlements and corrections makes an event that the projection
\* rejects (projectReconciliation, projectCostAdjustment) and that would hold
\* up all events behind it.
THEOREM QueueIsNeverPoisoned == ProjectionSpec => []NothingPoisonsTheQueue
<1>1. ProjectionInv /\ DayInv => NothingPoisonsTheQueue
  BY NothingPoisons
<1> QED BY <1>1, DayInvariant, PTL

-----------------------------------------------------------------------------
(* Media jobs. *)

MediaRow == [state : JobStates, cancel : BOOLEAN, failures : Nat, known : BOOLEAN]
WorkerPcs == {"idle", "submit", "create", "apply", "update", "poll", "localCancel",
              "fail", "failRow", "unknownRow"}

MediaTypeOK ==
  /\ aState \in [Attempts -> AttemptStates]
  /\ job \in [Jobs -> MediaRow]
  /\ terminal \in [Jobs -> SettledStates \cup {"none"}]
  /\ worker \in [pc : WorkerPcs, job : Jobs, failures : Nat, answer : Answers \cup {"none", "error"}]
  /\ creating \subseteq Jobs
  /\ canceling \subseteq Jobs
  /\ phase \in {"up", "down", "recovering"}
  /\ creates \in [Jobs -> {0, 1}]

\* The states of a row the worker may hold.
MayHold(state) == state \in {"submitting"} \cup Pollable

\* The attempt state applyPrediction settles an answer with.
SettledAs(answer) == IF answer = "canceled" THEN "cancelled" ELSE answer

JobOK(j) ==
  /\ j \in creating => job[j].state = "none" /\ aState[Attempt(j)] = "reserved"
  /\ job[j].state = "queued" => aState[Attempt(j)] \in {"reserved", "cancelled_before_dispatch"}
  /\ terminal[j] # "none" => aState[Attempt(j)] = terminal[j]
  /\ creates[j] = 1 => aState[Attempt(j)] \notin {"absent", "reserved"}
  /\ job[j].state = "succeeded" => aState[Attempt(j)] = "succeeded"
  /\ job[j].state = "canceled" =>
       \/ aState[Attempt(j)] \in {"cancelled", "cancelled_before_dispatch"}
       \/ aState[Attempt(j)] = "reserved" /\ (j \in canceling \/ phase = "down")
  /\ job[j].state \in Closed \ {"canceled"} => aState[Attempt(j)] \notin ActiveStates

HeldJobOK(j) ==
  /\ MayHold(job[j].state)
  /\ worker.pc = "submit" => aState[Attempt(j)] \in {"reserved", "cancelled_before_dispatch"}
  /\ worker.pc = "create" => aState[Attempt(j)] = "dispatching" /\ creates[j] = 0
  /\ worker.pc = "apply" => worker.answer \in Answers
  /\ worker.pc = "update" => worker.answer \in Closed /\ aState[Attempt(j)] = SettledAs(worker.answer)
  /\ worker.pc = "localCancel" =>
       worker.answer = "none" \/ (worker.answer = "canceled" /\ aState[Attempt(j)] = "cancelled")
  /\ worker.pc = "failRow" => aState[Attempt(j)] \notin ActiveStates
  /\ worker.pc = "unknownRow" => aState[Attempt(j)] = "interrupted_unknown"
WorkerOK == worker.pc # "idle" => HeldJobOK(worker.job)

DownOK == phase = "down" => creating = {} /\ canceling = {} /\ worker.pc = "idle"

MediaInv == MediaTypeOK /\ (\A j \in Jobs : JobOK(j)) /\ WorkerOK /\ DownOK

-----------------------------------------------------------------------------
(* Frames: what a step on one job leaves alone. *)

\* Two jobs never share an attempt.
LEMMA AttemptFacts ==
  /\ \A j \in Jobs : Attempt(j) \in Attempts
  /\ \A i, j \in Jobs : i # j => Attempt(i) # Attempt(j)
  BY AttemptOfAssumption DEF Attempt

\* Everything JobOK says of a job is the same after the step.
SameJob(i) ==
  /\ job'[i].state = job[i].state
  /\ aState'[Attempt(i)] = aState[Attempt(i)]
  /\ terminal'[i] = terminal[i]
  /\ creates'[i] = creates[i]
  /\ (i \in creating') = (i \in creating)
  /\ (i \in canceling') = (i \in canceling)

\* A step that touches only job j keeps the invariant when it does so for j
\* and for the worker.
LEMMA OneJob ==
  ASSUME MediaInv, NEW j \in Jobs, phase' = phase, phase # "down",
         \A i \in Jobs \ {j} : SameJob(i),
         MediaTypeOK', JobOK(j)', WorkerOK'
  PROVE  MediaInv'
<1>1. ASSUME NEW i \in Jobs PROVE JobOK(i)'
  <2>1. CASE i = j
    BY <2>1
  <2>2. CASE i # j
    <3>1. SameJob(i) /\ JobOK(i)
      BY <2>2 DEF MediaInv
    <3> QED BY <3>1 DEF SameJob, JobOK
  <2> QED BY <2>1, <2>2
<1>2. DownOK'
  BY DEF DownOK
<1> QED BY <1>1, <1>2 DEF MediaInv

\* The worker, left alone, still holds what it held when the step left its
\* job's attempt and create requests alone and its row open.
LEMMA WorkerKept ==
  ASSUME MediaInv, worker' = worker,
         worker.pc # "idle" =>
           /\ MayHold(job'[worker.job].state)
           /\ aState'[Attempt(worker.job)] = aState[Attempt(worker.job)]
           /\ creates'[worker.job] = creates[worker.job]
  PROVE  WorkerOK'
  BY DEF MediaInv, WorkerOK, HeldJobOK

\* A worker that rests holds nothing.
LEMMA WorkerRests == ASSUME worker' = Idle PROVE WorkerOK'
  BY DEF Idle, WorkerOK

\* What the idle worker looks like.
LEMMA IdleFacts ==
  /\ Idle \in [pc : WorkerPcs, job : Jobs, failures : Nat, answer : Answers \cup {"none", "error"}]
  /\ Idle.pc = "idle"
  BY JobsAssumption DEF Idle, WorkerPcs, Jobs

\* The worker does not hold a job whose row is none, queued or closed.
LEMMA NotHeld ==
  ASSUME MediaInv, NEW j \in Jobs, ~MayHold(job[j].state)
  PROVE  worker.pc # "idle" => worker.job \in Jobs /\ worker.job # j
  BY DEF MediaInv, MediaTypeOK, WorkerOK, HeldJobOK

\* The settlement of a job's attempt, first or replayed: the attempt and the
\* terminal entry are in the settled state.
LEMMA SettlesFacts ==
  ASSUME MediaInv, NEW j \in Jobs, NEW state \in SettledStates, Settles(j, state)
  PROVE  /\ aState' = [aState EXCEPT ![Attempt(j)] = state]
         /\ terminal' = [terminal EXCEPT ![j] = state]
<1>1. CASE terminal[j] = "none" /\ Settle(Attempt(j), state, "unknown", Unknown, Unknown, TRUE)
           /\ terminal' = [terminal EXCEPT ![j] = state]
  BY <1>1 DEF Settle
<1>2. CASE terminal[j] = state /\ UNCHANGED <<vars, terminal>>
  <2>1. state # "none"
    BY DEF SettledStates
  <2>2. aState[Attempt(j)] = state
    BY <2>1, <1>2 DEF MediaInv, JobOK
  <2>3. aState' = aState /\ terminal' = terminal
    BY <1>2 DEF vars, lifeVars
  <2> QED BY <2>2, <2>3, <1>2, AttemptFacts DEF MediaInv, MediaTypeOK
<1> QED BY <1>1, <1>2 DEF Settles

\* The accounting half of fail closes the attempt, whatever it was.
LEMMA CloseAttemptFacts ==
  ASSUME MediaInv, NEW j \in Jobs, CloseAttempt(j)
  PROVE  \E s \in AttemptStates \ ActiveStates, t \in SettledStates \cup {"none"} :
           /\ aState' = [aState EXCEPT ![Attempt(j)] = s]
           /\ terminal' = [terminal EXCEPT ![j] = t]
           /\ t # "none" => s = t
           /\ s = "absent" => aState[Attempt(j)] = "absent"
<1> Attempt(j) \in Attempts
  BY AttemptFacts
<1>1. CASE aState[Attempt(j)] = "reserved" /\ CancelBeforeDispatch(Attempt(j)) /\ terminal' = terminal
  <2>1. terminal[j] = "none"
    BY <1>1 DEF MediaInv, MediaTypeOK, JobOK, SettledStates
  <2>2. /\ aState' = [aState EXCEPT ![Attempt(j)] = "cancelled_before_dispatch"]
        /\ terminal' = [terminal EXCEPT ![j] = "none"]
    BY <1>1, <2>1 DEF CancelBeforeDispatch, MediaInv, MediaTypeOK
  <2>3. "cancelled_before_dispatch" \in AttemptStates \ ActiveStates
    BY DEF AttemptStates, ActiveStates
  <2> QED BY <2>2, <2>3
<1>2. CASE aState[Attempt(j)] \in {"dispatching", "streaming"} /\ Settles(j, "failed")
  <2>1. "failed" \in SettledStates /\ "failed" \in AttemptStates \ ActiveStates /\ "failed" # "absent"
    BY DEF SettledStates, AttemptStates, ActiveStates
  <2> QED BY <1>2, <2>1, SettlesFacts
<1>3. CASE aState[Attempt(j)] \notin ActiveStates /\ UNCHANGED <<vars, terminal>>
  <2> DEFINE s == aState[Attempt(j)]
             t == terminal[j]
  <2>1. s \in AttemptStates \ ActiveStates /\ t \in SettledStates \cup {"none"}
    BY <1>3 DEF MediaInv, MediaTypeOK
  <2>2. t # "none" => s = t
    BY DEF MediaInv, JobOK
  <2>3. aState' = [aState EXCEPT ![Attempt(j)] = s] /\ terminal' = [terminal EXCEPT ![j] = t]
    BY <1>3 DEF MediaInv, MediaTypeOK, vars, lifeVars
  <2> QED BY <2>1, <2>2, <2>3
<1> QED BY <1>1, <1>2, <1>3 DEF CloseAttempt

-----------------------------------------------------------------------------
(* Client calls. *)

\* Create: the attempt is admitted, then the row is inserted or the attempt is
\* given back.
LEMMA CreateInv ==
  ASSUME MediaInv, NEW j \in Jobs, CreateAdmit(j) \/ CreateInsert(j) \/ CreateFails(j)
  PROVE  MediaInv'
<1> USE AttemptFacts
<1> DEFINE a == Attempt(j)
<1>0. /\ a \in Attempts /\ phase' = phase /\ phase # "down"
      /\ UNCHANGED <<terminal, worker, canceling, creates>>
      /\ job[j].state = "none"
  BY DEF CreateAdmit, CreateInsert, CreateFails, MediaInv, JobOK
<1>1. (\A i \in Jobs \ {j} : SameJob(i)) => WorkerOK'
  <2> SUFFICES ASSUME \A i \in Jobs \ {j} : SameJob(i) PROVE WorkerOK'
    OBVIOUS
  <2>1. worker.pc # "idle" => worker.job \in Jobs \ {j}
    BY <1>0, NotHeld DEF MayHold, Pollable
  <2>2. worker.pc # "idle" => MayHold(job[worker.job].state)
    BY DEF MediaInv, WorkerOK, HeldJobOK
  <2> QED BY <2>1, <2>2, <1>0, WorkerKept DEF SameJob
<1>2. CASE CreateAdmit(j)
  <2>1. /\ aState' = [aState EXCEPT ![a] = "reserved"] /\ aState[a] = "absent"
        /\ job' = job /\ creating' = creating \cup {j}
    BY <1>2 DEF CreateAdmit, Admit
  <2>2. \A i \in Jobs \ {j} : SameJob(i)
    BY <2>1, <1>0 DEF SameJob, MediaInv, MediaTypeOK
  <2>3. MediaTypeOK'
    BY <2>1, <1>0 DEF MediaInv, MediaTypeOK, AttemptStates, ActiveStates
  <2>4. JobOK(j)'
    <3>1. aState'[a] = "reserved" /\ job'[j].state = "none" /\ terminal[j] = "none" /\ creates[j] = 0
      BY <2>1, <1>0 DEF MediaInv, MediaTypeOK, JobOK, SettledStates
    <3> QED BY <3>1, <1>0 DEF JobOK, Closed
  <2> QED BY <2>2, <2>3, <2>4, <1>0, <1>1, OneJob
<1>3. CASE CreateInsert(j)
  <2>1. /\ job' = [job EXCEPT ![j].state = "queued"] /\ aState' = aState
        /\ j \in creating /\ creating' = creating \ {j}
    BY <1>3 DEF CreateInsert, vars, lifeVars
  <2>2. \A i \in Jobs \ {j} : SameJob(i)
    BY <2>1, <1>0 DEF SameJob, MediaInv, MediaTypeOK
  <2>3. MediaTypeOK'
    BY <2>1, <1>0 DEF MediaInv, MediaTypeOK, MediaRow, JobStates
  <2>4. JobOK(j)'
    <3>1. job'[j].state = "queued"
      BY <2>1 DEF MediaInv, MediaTypeOK, MediaRow
    <3>2. JobOK(j)
      BY DEF MediaInv
    <3> QED BY <3>1, <3>2, <2>1, <1>0 DEF JobOK, Closed
  <2> QED BY <2>2, <2>3, <2>4, <1>0, <1>1, OneJob
<1>4. CASE CreateFails(j)
  <2>1. /\ aState' = [aState EXCEPT ![a] = "cancelled_before_dispatch"] /\ aState[a] = "reserved"
        /\ job' = job /\ creating' = creating \ {j}
    BY <1>4 DEF CreateFails, CancelBeforeDispatch
  <2>2. \A i \in Jobs \ {j} : SameJob(i)
    BY <2>1, <1>0 DEF SameJob, MediaInv, MediaTypeOK
  <2>3. MediaTypeOK'
    BY <2>1, <1>0 DEF MediaInv, MediaTypeOK, AttemptStates
  <2>4. JobOK(j)'
    <3>1. aState'[a] = "cancelled_before_dispatch" /\ job'[j].state = "none" /\ terminal[j] = "none" /\ creates[j] = 0
      BY <2>1, <1>0 DEF MediaInv, MediaTypeOK, JobOK, SettledStates
    <3> QED BY <3>1, <2>1, <1>0 DEF JobOK, Closed
  <2> QED BY <2>2, <2>3, <2>4, <1>0, <1>1, OneJob
<1> QED BY <1>2, <1>3, <1>4

\* Cancel: a queued row is canceled, a submitted one marked; the attempt of a
\* canceled one is given back.
LEMMA CancelInv ==
  ASSUME MediaInv, NEW j \in Jobs, Cancel(j) \/ CancelAttempt(j)
  PROVE  MediaInv'
<1> USE AttemptFacts
<1> DEFINE a == Attempt(j)
<1>0. /\ a \in Attempts /\ phase' = phase /\ phase # "down"
      /\ UNCHANGED <<terminal, worker, creating, creates>>
  BY DEF Cancel, CancelAttempt
<1>1. JobOK(j)
  BY DEF MediaInv
<1>2. CASE Cancel(j)
  <2>1. /\ job' = [job EXCEPT ![j].cancel = TRUE, ![j].state = CanceledState(@)] /\ aState' = aState
        /\ canceling' = canceling \cup {j} /\ job[j].state # "none"
    BY <1>2 DEF Cancel, vars, lifeVars
  <2>2. CanceledState(job[j].state) \in JobStates
    BY DEF CanceledState, JobStates, Closed, MediaInv, MediaTypeOK, MediaRow
  <2> DEFINE marked == [job EXCEPT ![j].cancel = TRUE]
  <2>a. /\ marked \in [Jobs -> MediaRow] /\ marked[j].state = job[j].state
        /\ \A i \in Jobs \ {j} : marked[i] = job[i]
    <3> DEFINE row == [job[j] EXCEPT !.cancel = TRUE]
    <3>1. job \in [Jobs -> MediaRow] /\ job[j] \in MediaRow
      BY DEF MediaInv, MediaTypeOK
    <3>2. row \in MediaRow
      BY <3>1 DEF MediaRow
    <3>3. row.state = job[j].state
      BY <3>1 DEF MediaRow
    <3>4. marked = [job EXCEPT ![j] = row]
      OBVIOUS
    <3> HIDE DEF row, marked
    <3> QED BY <3>1, <3>2, <3>3, <3>4
  <2>b. job' = [marked EXCEPT ![j].state = CanceledState(@)]
    BY <2>1
  <2> HIDE DEF marked
  <2>3. /\ job' \in [Jobs -> MediaRow] /\ job'[j].state = CanceledState(job[j].state)
        /\ \A i \in Jobs \ {j} : job'[i] = job[i]
    BY <2>a, <2>b, <2>2 DEF MediaRow
  <2>4. job'[j].state = CanceledState(job[j].state)
    BY <2>3 DEF MediaInv, MediaTypeOK
  <2>5. \A i \in Jobs \ {j} : SameJob(i)
    BY <2>1, <2>3, <1>0 DEF SameJob, MediaInv, MediaTypeOK
  <2>6. MediaTypeOK'
    BY <2>1, <2>3, <1>0 DEF MediaInv, MediaTypeOK
  <2>7. JobOK(j)'
    <3>1. CASE job[j].state = "queued"
      BY <3>1, <2>1, <2>4, <1>0, <1>1 DEF JobOK, CanceledState, Closed
    <3>2. CASE job[j].state \in {"submitting", "starting", "processing"}
      BY <3>2, <2>1, <2>4, <1>0, <1>1 DEF JobOK, CanceledState, Closed
    <3>3. CASE job[j].state \notin {"queued", "submitting", "starting", "processing"}
      <4>1. job'[j].state = job[j].state
        BY <3>3, <2>4 DEF CanceledState
      <4> QED BY <4>1, <2>1, <1>0, <1>1 DEF JobOK
    <3> QED BY <3>1, <3>2, <3>3
  <2>8. MayHold(job[j].state) => MayHold(job'[j].state)
    BY <2>4 DEF MayHold, Pollable, CanceledState
  <2>9. WorkerOK'
    <3>1. worker.pc # "idle" => worker.job \in Jobs /\ MayHold(job[worker.job].state)
      BY DEF MediaInv, MediaTypeOK, WorkerOK, HeldJobOK
    <3>2. worker.pc # "idle" => MayHold(job'[worker.job].state)
      BY <3>1, <2>5, <2>8 DEF SameJob
    <3> QED BY <3>2, <2>1, <1>0, WorkerKept
  <2> QED BY <2>5, <2>6, <2>7, <2>9, <1>0, OneJob
<1>3. CASE CancelAttempt(j)
  <2>1. /\ job' = job /\ canceling' = canceling \ {j}
        /\ \/ /\ job[j].state = "canceled" /\ aState[a] = "reserved"
              /\ aState' = [aState EXCEPT ![a] = "cancelled_before_dispatch"]
           \/ /\ ~(job[j].state = "canceled" /\ aState[a] = "reserved")
              /\ aState' = aState
    BY <1>3 DEF CancelAttempt, CancelBeforeDispatch, vars, lifeVars
  <2>2. \A i \in Jobs \ {j} : SameJob(i)
    BY <2>1, <1>0 DEF SameJob, MediaInv, MediaTypeOK
  <2>3. MediaTypeOK'
    BY <2>1, <1>0 DEF MediaInv, MediaTypeOK, AttemptStates
  <2>4. JobOK(j)'
    <3>1. CASE job[j].state = "canceled" /\ aState[a] = "reserved"
      <4>1. aState'[a] = "cancelled_before_dispatch" /\ terminal[j] = "none" /\ creates[j] = 0
        BY <3>1, <2>1, <1>1, <1>0 DEF MediaInv, MediaTypeOK, JobOK, SettledStates
      <4> QED BY <4>1, <3>1, <2>1, <1>0, <1>1 DEF JobOK, Closed
    <3>2. CASE ~(job[j].state = "canceled" /\ aState[a] = "reserved")
      BY <3>2, <2>1, <1>0, <1>1 DEF JobOK
    <3> QED BY <3>1, <3>2
  <2>5. WorkerOK'
    <3>1. worker.pc # "idle" => worker.job \in Jobs /\ MayHold(job[worker.job].state)
      BY DEF MediaInv, MediaTypeOK, WorkerOK, HeldJobOK
    <3>2. worker.pc # "idle" => aState'[Attempt(worker.job)] = aState[Attempt(worker.job)]
      <4>1. CASE worker.job = j
        BY <4>1, <3>1, <2>1 DEF MayHold, Pollable
      <4>2. CASE worker.job # j
        BY <4>2, <3>1, <2>2 DEF SameJob
      <4> QED BY <4>1, <4>2
    <3> QED BY <3>1, <3>2, <2>1, <1>0, WorkerKept
  <2> QED BY <2>2, <2>3, <2>4, <2>5, <1>0, OneJob
<1> QED BY <1>2, <1>3

-----------------------------------------------------------------------------
(* The worker. *)

\* Only the worker moves, to a point where it holds job j rightly or rests.
LEMMA WorkerMoves ==
  ASSUME MediaInv, NEW j \in Jobs, phase' = phase, phase # "down",
         UNCHANGED <<aState, job, terminal, creating, canceling, creates>>,
         worker' \in [pc : WorkerPcs, job : Jobs, failures : Nat, answer : Answers \cup {"none", "error"}],
         WorkerOK'
  PROVE  MediaInv'
<1>1. MediaTypeOK'
  BY DEF MediaInv, MediaTypeOK
<1>2. \A i \in Jobs : SameJob(i)
  BY DEF SameJob
<1>3. JobOK(j)'
  BY DEF MediaInv, JobOK
<1> QED BY <1>1, <1>2, <1>3, OneJob

\* The worker at pc, holding job j.
LEMMA WorkingFacts ==
  ASSUME MediaInv, NEW j \in Jobs, NEW pc \in WorkerPcs \ {"idle"}, worker.pc = pc, worker.job = j
  PROVE  HeldJobOK(j) /\ JobOK(j) /\ Attempt(j) \in Attempts
  BY AttemptFacts DEF MediaInv, WorkerOK

\* The steps of the worker that only decide what comes next.
LEMMA WorkerDecides ==
  ASSUME MediaInv, NEW j \in Jobs,
         SubmitConflict(j) \/ SubmitDenied(j) \/ PollFails(j) \/ StartPoll(j)
         \/ (\E answer \in Driver[j].answers : PollAnswer(j, answer))
  PROVE  MediaInv'
<1>0. /\ phase' = phase /\ phase # "down"
      /\ UNCHANGED <<aState, job, terminal, creating, canceling, creates>>
  BY DEF SubmitConflict, SubmitDenied, PollFails, StartPoll, PollAnswer, Working, vars, lifeVars
<1>1. CASE SubmitConflict(j)
  <2>1. worker.pc = "submit" /\ worker.job = j /\ worker' = [worker EXCEPT !.pc = "failRow"]
        /\ aState[Attempt(j)] # "reserved"
    BY <1>1 DEF SubmitConflict, Working, Goto
  <2>2. HeldJobOK(j)
    BY <2>1, WorkingFacts DEF WorkerPcs
  <2>3. worker'.pc = "failRow" /\ worker'.job = j
        /\ worker' \in [pc : WorkerPcs, job : Jobs, failures : Nat, answer : Answers \cup {"none", "error"}]
    BY <2>1 DEF MediaInv, MediaTypeOK, WorkerPcs
  <2>4. WorkerOK'
    BY <2>1, <2>2, <2>3, <1>0 DEF WorkerOK, HeldJobOK, ActiveStates
  <2> QED BY <2>3, <2>4, <1>0, WorkerMoves
<1>2. CASE SubmitDenied(j) \/ PollFails(j)
  <2>1. worker.pc \in {"submit", "poll"} /\ worker.job = j /\ worker' = [worker EXCEPT !.pc = "fail"]
    BY <1>2 DEF SubmitDenied, PollFails, Working, Goto
  <2>2. HeldJobOK(j)
    BY <2>1, WorkingFacts DEF WorkerPcs
  <2>3. worker'.pc = "fail" /\ worker'.job = j
        /\ worker' \in [pc : WorkerPcs, job : Jobs, failures : Nat, answer : Answers \cup {"none", "error"}]
    BY <2>1 DEF MediaInv, MediaTypeOK, WorkerPcs
  <2>4. WorkerOK'
    BY <2>2, <2>3, <1>0 DEF WorkerOK, HeldJobOK
  <2> QED BY <2>3, <2>4, <1>0, WorkerMoves
<1>3. CASE StartPoll(j)
  <2>1. PICK pc \in {"localCancel", "poll"} :
          worker' = [pc |-> pc, job |-> j, failures |-> job[j].failures, answer |-> "none"]
    BY <1>3 DEF StartPoll, Idle
  <2>2. job[j].state \in Pollable
    BY <1>3 DEF StartPoll, NextDue
  <2>3. worker'.pc = pc /\ worker'.job = j /\ worker'.answer = "none"
        /\ worker' \in [pc : WorkerPcs, job : Jobs, failures : Nat, answer : Answers \cup {"none", "error"}]
    BY <2>1 DEF MediaInv, MediaTypeOK, MediaRow, WorkerPcs
  <2>4. WorkerOK'
    BY <2>1, <2>2, <2>3, <1>0 DEF WorkerOK, HeldJobOK, MayHold
  <2> QED BY <2>3, <2>4, <1>0, WorkerMoves
<1>4. ASSUME NEW answer \in Driver[j].answers, PollAnswer(j, answer) PROVE MediaInv'
  <2>0. answer \in Answers
    BY DriverAssumption
  <2>1. worker.pc = "poll" /\ worker.job = j /\ worker' = [worker EXCEPT !.pc = "apply", !.answer = answer]
    BY <1>4 DEF PollAnswer, Working
  <2>2. HeldJobOK(j)
    BY <2>1, WorkingFacts DEF WorkerPcs
  <2>3. worker'.pc = "apply" /\ worker'.job = j /\ worker'.answer = answer
        /\ worker' \in [pc : WorkerPcs, job : Jobs, failures : Nat, answer : Answers \cup {"none", "error"}]
    BY <2>0, <2>1 DEF MediaInv, MediaTypeOK, WorkerPcs
  <2>4. WorkerOK'
    BY <2>0, <2>2, <2>3, <1>0 DEF WorkerOK, HeldJobOK
  <2> QED BY <2>3, <2>4, <1>0, WorkerMoves
<1> QED BY <1>1, <1>2, <1>3, <1>4

\* claimQueued, and the dispatch of the claimed job.
LEMMA ClaimInv ==
  ASSUME MediaInv, NEW j \in Jobs, Claim(j) \/ SubmitDispatch(j)
  PROVE  MediaInv'
<1> USE AttemptFacts
<1>0. /\ phase' = phase /\ phase # "down"
      /\ UNCHANGED <<terminal, creating, canceling, creates>>
  BY DEF Claim, SubmitDispatch, Working
<1>1. JobOK(j)
  BY DEF MediaInv
<1>2. CASE Claim(j)
  <2>1. /\ job[j].state = "queued" /\ job' = [job EXCEPT ![j].state = "submitting"] /\ aState' = aState
        /\ worker' = [pc |-> "submit", job |-> j, failures |-> 0, answer |-> "none"]
    BY <1>2 DEF Claim, Claimable, vars, lifeVars, Idle
  <2>2. job'[j].state = "submitting" /\ \A i \in Jobs \ {j} : SameJob(i)
    BY <2>1, <1>0 DEF SameJob, MediaInv, MediaTypeOK, MediaRow
  <2>3. MediaTypeOK'
    BY <2>1, <1>0 DEF MediaInv, MediaTypeOK, MediaRow, JobStates, WorkerPcs
  <2>4. JobOK(j)'
    BY <2>1, <2>2, <1>0, <1>1 DEF JobOK, Closed
  <2>5. WorkerOK'
    BY <2>1, <2>2, <1>1 DEF WorkerOK, HeldJobOK, JobOK, MayHold
  <2> QED BY <2>2, <2>3, <2>4, <2>5, <1>0, OneJob
<1>3. CASE SubmitDispatch(j)
  <2>1. /\ worker.pc = "submit" /\ worker.job = j /\ job' = job /\ worker' = [worker EXCEPT !.pc = "create"]
        /\ aState[Attempt(j)] = "reserved" /\ aState' = [aState EXCEPT ![Attempt(j)] = "dispatching"]
    BY <1>3 DEF SubmitDispatch, Working, Goto, MarkDispatching
  <2>2. HeldJobOK(j)
    BY <2>1, WorkingFacts DEF WorkerPcs
  <2>3. \A i \in Jobs \ {j} : SameJob(i)
    BY <2>1, <1>0 DEF SameJob, MediaInv, MediaTypeOK
  <2>4. MediaTypeOK' /\ worker'.pc = "create" /\ worker'.job = j
    BY <2>1, <1>0 DEF MediaInv, MediaTypeOK, AttemptStates, ActiveStates, WorkerPcs
  <2>5. aState'[Attempt(j)] = "dispatching" /\ terminal[j] = "none" /\ creates[j] = 0
    BY <2>1, <1>1 DEF MediaInv, MediaTypeOK, JobOK, SettledStates
  <2>6. JobOK(j)'
    BY <2>1, <2>2, <2>5, <1>0, <1>1 DEF JobOK, HeldJobOK, MayHold, Pollable, Closed
  <2>7. WorkerOK'
    BY <2>1, <2>2, <2>4, <2>5, <1>0 DEF WorkerOK, HeldJobOK
  <2> QED BY <2>3, <2>4, <2>6, <2>7, <1>0, OneJob
<1> QED BY <1>2, <1>3

\* The create request: the one the dispatched attempt stands for.
LEMMA CreateCallInv ==
  ASSUME MediaInv, NEW j \in Jobs, NEW answer \in Driver[j].answers \cup {"error"}, CreateCall(j, answer)
  PROVE  MediaInv'
<1> DEFINE pc == IF answer = "error" THEN "fail" ELSE "apply"
<1>1. answer \in Answers \cup {"error"} /\ (pc = "apply" => answer \in Answers) /\ pc \in {"fail", "apply"}
  BY DriverAssumption
<1>2. /\ worker.pc = "create" /\ worker.job = j /\ worker' = [worker EXCEPT !.pc = pc, !.answer = answer]
      /\ creates' = [creates EXCEPT ![j] = @ + 1] /\ phase' = phase /\ phase # "down"
      /\ UNCHANGED <<aState, job, terminal, creating, canceling>>
  BY DEF CreateCall, Working, vars, lifeVars
<1> HIDE DEF pc
<1>3. HeldJobOK(j) /\ JobOK(j)
  BY <1>2, WorkingFacts DEF WorkerPcs
<1>4. creates[j] = 0 /\ aState[Attempt(j)] = "dispatching"
  BY <1>2, <1>3 DEF HeldJobOK
<1>5. creates' \in [Jobs -> {0, 1}] /\ \A i \in Jobs \ {j} : creates'[i] = creates[i]
  BY <1>2, <1>4 DEF MediaInv, MediaTypeOK
<1>6. MediaTypeOK' /\ worker'.pc = pc /\ worker'.job = j /\ worker'.answer = answer
  BY <1>1, <1>2, <1>5 DEF MediaInv, MediaTypeOK, WorkerPcs
<1>7. \A i \in Jobs \ {j} : SameJob(i)
  BY <1>2, <1>5 DEF SameJob
<1>8. JobOK(j)'
  BY <1>2, <1>3, <1>4 DEF JobOK
<1>9. WorkerOK'
  BY <1>1, <1>2, <1>3, <1>6 DEF WorkerOK, HeldJobOK
<1> QED BY <1>2, <1>6, <1>7, <1>8, <1>9, OneJob

\* The row of job j changes, the worker rests, nothing else is touched.
LEMMA RowWritten ==
  ASSUME MediaInv, NEW j \in Jobs, NEW row \in MediaRow, phase' = phase, phase # "down",
         job' = [job EXCEPT ![j] = row], worker' = Idle,
         UNCHANGED <<aState, terminal, creating, canceling, creates>>,
         \/ row.state = job[j].state
         \/ /\ MayHold(job[j].state)
            /\ \/ MayHold(row.state)
               \/ row.state = "succeeded" /\ aState[Attempt(j)] = "succeeded"
               \/ row.state = "canceled" /\ aState[Attempt(j)] = "cancelled"
               \/ row.state \in {"failed", "interrupted_unknown"} /\ aState[Attempt(j)] \notin ActiveStates
  PROVE  MediaInv'
<1>1. job'[j].state = row.state /\ \A i \in Jobs \ {j} : SameJob(i)
  BY DEF MediaInv, MediaTypeOK, SameJob
<1>2. MediaTypeOK'
  BY IdleFacts DEF MediaInv, MediaTypeOK
<1>3. JobOK(j)
  BY DEF MediaInv
<1>4. JobOK(j)'
  <2>1. CASE row.state = job[j].state
    BY <1>1, <1>3, <2>1 DEF JobOK
  <2>2. CASE MayHold(job[j].state) /\ MayHold(row.state)
    BY <1>1, <1>3, <2>2 DEF JobOK, MayHold, Pollable, Closed
  <2>3. CASE MayHold(job[j].state) /\ row.state = "succeeded" /\ aState[Attempt(j)] = "succeeded"
    BY <1>1, <1>3, <2>3 DEF JobOK, MayHold, Pollable, ActiveStates
  <2>4. CASE MayHold(job[j].state) /\ row.state = "canceled" /\ aState[Attempt(j)] = "cancelled"
    BY <1>1, <1>3, <2>4 DEF JobOK, MayHold, Pollable
  <2>5. CASE MayHold(job[j].state) /\ row.state \in {"failed", "interrupted_unknown"}
             /\ aState[Attempt(j)] \notin ActiveStates
    BY <1>1, <1>3, <2>5 DEF JobOK, MayHold, Pollable
  <2> QED BY <2>1, <2>2, <2>3, <2>4, <2>5
<1>5. WorkerOK'
  BY WorkerRests
<1> QED BY <1>1, <1>2, <1>4, <1>5, OneJob

\* A row keeps its type when its state or its count of failures changes.
LEMMA RowFacts ==
  ASSUME NEW row \in MediaRow, NEW state \in JobStates, NEW n \in Nat
  PROVE  /\ [row EXCEPT !.state = state] \in MediaRow /\ [row EXCEPT !.state = state].state = state
         /\ [row EXCEPT !.failures = n] \in MediaRow /\ [row EXCEPT !.failures = n].state = row.state
         /\ [row EXCEPT !.known = TRUE] \in MediaRow /\ [row EXCEPT !.known = TRUE].state = row.state
  BY DEF MediaRow

\* A poll that failed and will be tried again.
LEMMA RescheduleInv == ASSUME MediaInv, NEW j \in Jobs, Reschedule(j) PROVE MediaInv'
<1> DEFINE n == IF job[j].state \in Pollable THEN worker.failures + 1 ELSE job[j].failures
<1>1. /\ phase' = phase /\ phase # "down" /\ job' = [job EXCEPT ![j].failures = n] /\ worker' = Idle
      /\ UNCHANGED <<aState, terminal, creating, canceling, creates>>
  BY DEF Reschedule, Working, Rest, vars, lifeVars
<1>2. n \in Nat /\ job[j] \in MediaRow
  BY DEF MediaInv, MediaTypeOK, MediaRow
<1> HIDE DEF n
<1> DEFINE row == [job[j] EXCEPT !.failures = n]
<1>3. row \in MediaRow /\ row.state = job[j].state
  BY <1>2, RowFacts DEF JobStates
<1>4. job' = [job EXCEPT ![j] = row]
  BY <1>1
<1> HIDE DEF row
<1> QED BY <1>1, <1>3, <1>4, RowWritten

\* applyPrediction writes the row with the provider's answer.
LEMMA ApplyUpdateInv == ASSUME MediaInv, NEW j \in Jobs, ApplyUpdate(j) PROVE MediaInv'
<1>1. /\ phase' = phase /\ phase # "down" /\ worker' = Idle /\ worker.job = j
      /\ worker.pc = "update" \/ (worker.pc = "apply" /\ worker.answer \notin Closed)
      /\ UNCHANGED <<aState, terminal, creating, canceling, creates>>
  BY DEF ApplyUpdate, Working, Rest, vars, lifeVars
<1>2. HeldJobOK(j) /\ worker.answer \in Answers \cup {"none", "error"}
  BY <1>1, WorkingFacts DEF WorkerPcs, MediaInv, MediaTypeOK
<1>3. job' = [job EXCEPT ![j] = [@ EXCEPT !.state = worker.answer, !.failures = 0, !.known = TRUE]]
  BY <1>2 DEF ApplyUpdate, HeldJobOK, MayHold
<1>4. worker.answer \in JobStates
  BY <1>1, <1>2 DEF HeldJobOK, Answers, Closed, JobStates
<1> DEFINE one == [job[j] EXCEPT !.state = worker.answer]
           two == [one EXCEPT !.failures = 0]
           row == [two EXCEPT !.known = TRUE]
<1>5. job' = [job EXCEPT ![j] = row]
  BY <1>3
<1>6. job[j] \in MediaRow
  BY DEF MediaInv, MediaTypeOK
<1> HIDE DEF one, two, row
<1>7. one \in MediaRow /\ one.state = worker.answer
  BY <1>4, <1>6, RowFacts DEF one
<1>8. two \in MediaRow /\ two.state = worker.answer
  BY <1>4, <1>7, RowFacts DEF two
<1>9. row \in MediaRow /\ row.state = worker.answer
  BY <1>4, <1>8, RowFacts DEF row
<1>10. \/ MayHold(row.state)
       \/ row.state = "succeeded" /\ aState[Attempt(j)] = "succeeded"
       \/ row.state = "canceled" /\ aState[Attempt(j)] = "cancelled"
       \/ row.state \in {"failed", "interrupted_unknown"} /\ aState[Attempt(j)] \notin ActiveStates
  <2>1. CASE worker.pc = "update"
    BY <2>1, <1>2, <1>9 DEF HeldJobOK, SettledAs, Closed, ActiveStates
  <2>2. CASE worker.pc = "apply" /\ worker.answer \notin Closed
    BY <2>2, <1>2, <1>9 DEF HeldJobOK, MayHold, Pollable, Answers, Closed
  <2> QED BY <1>1, <2>1, <2>2
<1>11. MayHold(job[j].state)
  BY <1>2 DEF HeldJobOK
<1> QED BY <1>1, <1>5, <1>9, <1>10, <1>11, RowWritten

\* The writes that change only the state of the row.
LEMMA StateWritten ==
  ASSUME MediaInv, NEW j \in Jobs, NEW state \in JobStates, phase' = phase, phase # "down",
         job' = [job EXCEPT ![j].state = state], worker' = Idle,
         UNCHANGED <<aState, terminal, creating, canceling, creates>>,
         \/ state = job[j].state
         \/ /\ MayHold(job[j].state)
            /\ \/ state = "canceled" /\ aState[Attempt(j)] = "cancelled"
               \/ state \in {"failed", "interrupted_unknown"} /\ aState[Attempt(j)] \notin ActiveStates
  PROVE  MediaInv'
<1> DEFINE row == [job[j] EXCEPT !.state = state]
<1>1. job[j] \in MediaRow
  BY DEF MediaInv, MediaTypeOK
<1>2. row \in MediaRow /\ row.state = state
  BY <1>1, RowFacts
<1>3. job' = [job EXCEPT ![j] = row]
  OBVIOUS
<1> HIDE DEF row
<1> QED BY <1>2, <1>3, RowWritten

\* completeLocalCancel, failRow and recoverSubmission close the row after the
\* attempt.
LEMMA RowClosedInv ==
  ASSUME MediaInv, NEW j \in Jobs, LocalCancelUpdate(j) \/ FailJob(j) \/ RecoverRow(j)
  PROVE  MediaInv'
<1>1. /\ phase' = phase /\ phase # "down" /\ worker' = Idle /\ worker.job = j
      /\ UNCHANGED <<aState, terminal, creating, canceling, creates>>
  BY DEF LocalCancelUpdate, FailJob, RecoverRow, Working, Rest, vars, lifeVars
<1>2. job[j].state \in JobStates
  BY DEF MediaInv, MediaTypeOK, MediaRow
<1>3. CASE LocalCancelUpdate(j)
  <2>1. worker.pc = "localCancel" /\ worker.answer = "canceled"
        /\ job' = [job EXCEPT ![j].state = IF @ = "canceling" THEN "canceled" ELSE @]
    BY <1>3 DEF LocalCancelUpdate, Working
  <2>2. HeldJobOK(j)
    BY <2>1, <1>1, WorkingFacts DEF WorkerPcs
  <2> DEFINE state == IF job[j].state = "canceling" THEN "canceled" ELSE job[j].state
  <2>3. job' = [job EXCEPT ![j].state = state]
    BY <2>1
  <2>4. /\ state \in JobStates
        /\ \/ state = job[j].state
           \/ MayHold(job[j].state) /\ state = "canceled" /\ aState[Attempt(j)] = "cancelled"
    BY <2>1, <2>2, <1>2 DEF HeldJobOK, JobStates, Closed
  <2> HIDE DEF state
  <2> QED BY <2>3, <2>4, <1>1, StateWritten
<1>4. CASE worker.pc = "failRow" /\ FailRow(j)
  <2>1. HeldJobOK(j)
    BY <1>4, <1>1, WorkingFacts DEF WorkerPcs
  <2> DEFINE state == IF job[j].state \in Closed THEN job[j].state ELSE "failed"
  <2>2. job' = [job EXCEPT ![j].state = state]
    BY <1>4 DEF FailRow
  <2>3. /\ state \in JobStates
        /\ \/ state = job[j].state
           \/ MayHold(job[j].state) /\ state = "failed" /\ aState[Attempt(j)] \notin ActiveStates
    BY <2>1, <1>4, <1>2 DEF HeldJobOK, JobStates, Closed
  <2> HIDE DEF state
  <2> QED BY <2>2, <2>3, <1>1, StateWritten
<1>5. CASE /\ worker.pc = "unknownRow"
           /\ job' = [job EXCEPT ![j].state = IF @ = "submitting" THEN "interrupted_unknown" ELSE @]
  <2>1. HeldJobOK(j)
    BY <1>5, <1>1, WorkingFacts DEF WorkerPcs
  <2> DEFINE state == IF job[j].state = "submitting" THEN "interrupted_unknown" ELSE job[j].state
  <2>2. job' = [job EXCEPT ![j].state = state]
    BY <1>5
  <2>3. /\ state \in JobStates
        /\ \/ state = job[j].state
           \/ MayHold(job[j].state) /\ state = "interrupted_unknown" /\ aState[Attempt(j)] \notin ActiveStates
    BY <2>1, <1>5, <1>2 DEF HeldJobOK, JobStates, Closed, ActiveStates
  <2> HIDE DEF state
  <2> QED BY <2>2, <2>3, <1>1, StateWritten
<1> QED BY <1>3, <1>4, <1>5 DEF FailJob, RecoverRow, Working

\* The attempt of an open job is closed; the row is written later.
LEMMA AttemptClosed ==
  ASSUME MediaInv, NEW j \in Jobs, phase' = phase, phase # "down", MayHold(job[j].state),
         NEW s \in AttemptStates \ ActiveStates, NEW t \in SettledStates \cup {"none"},
         aState' = [aState EXCEPT ![Attempt(j)] = s], terminal' = [terminal EXCEPT ![j] = t],
         t # "none" => s = t, s = "absent" => aState[Attempt(j)] = "absent",
         UNCHANGED <<job, creating, canceling, creates>>,
         worker' \in [pc : WorkerPcs, job : Jobs, failures : Nat, answer : Answers \cup {"none", "error"}],
         worker'.pc # "idle" => worker'.job = j /\ HeldJobOK(j)'
  PROVE  MediaInv'
<1> USE AttemptFacts
<1>1. \A i \in Jobs \ {j} : SameJob(i)
  BY DEF SameJob, MediaInv, MediaTypeOK
<1>2. MediaTypeOK' /\ aState'[Attempt(j)] = s /\ terminal'[j] = t
  BY DEF MediaInv, MediaTypeOK
<1>3. JobOK(j)
  BY DEF MediaInv
<1>4. JobOK(j)'
  BY <1>2, <1>3 DEF JobOK, MayHold, Pollable, Closed, ActiveStates
<1>5. WorkerOK'
  BY DEF WorkerOK
<1> QED BY <1>1, <1>2, <1>4, <1>5, OneJob

\* The states a job's attempt is settled with.
LEMMA SettledFacts ==
  /\ SettledStates \subseteq AttemptStates \ ActiveStates
  /\ \A s \in SettledStates : s # "absent" /\ s # "none"
  /\ "cancelled" \in SettledStates /\ "interrupted_unknown" \in SettledStates
  /\ "cancelled_before_dispatch" \in AttemptStates \ ActiveStates
  /\ \A answer \in Answers \cap Closed : SettledAs(answer) \in SettledStates
  BY DEF SettledStates, AttemptStates, ActiveStates, Answers, Closed, SettledAs

\* The settlements of the worker, each before the write of the row.
LEMMA SettlementInv ==
  ASSUME MediaInv, NEW j \in Jobs, ApplySettle(j) \/ LocalCancelSettle(j) \/ FailAttempt(j)
  PROVE  MediaInv'
<1>1. /\ phase' = phase /\ phase # "down" /\ worker.job = j /\ worker.pc \in {"apply", "localCancel", "fail"}
      /\ UNCHANGED <<job, creating, canceling, creates>>
  BY DEF ApplySettle, LocalCancelSettle, FailAttempt, Working
<1>2. HeldJobOK(j) /\ MayHold(job[j].state)
  BY <1>1, WorkingFacts DEF WorkerPcs, HeldJobOK
<1>3. ASSUME worker' = Idle, UNCHANGED <<vars, terminal>> PROVE MediaInv'
  <2>1. aState' = aState /\ terminal' = terminal
    BY <1>3 DEF vars, lifeVars
  <2> QED BY <2>1, <1>1, <1>3, IdleFacts, WorkerRests, WorkerMoves
<1>4. CASE ApplySettle(j)
  <2> DEFINE state == SettledAs(worker.answer)
  <2>1. /\ worker.pc = "apply" /\ worker.answer \in Closed
        /\ \/ Settles(j, state) /\ worker' = [worker EXCEPT !.pc = "update"]
           \/ worker' = Idle /\ UNCHANGED <<vars, terminal>>
    BY <1>4 DEF ApplySettle, Working, Goto, Rest, SettledAs
  <2>2. worker.answer \in Answers /\ state \in SettledStates
    BY <2>1, <1>2, SettledFacts DEF HeldJobOK
  <2>3. CASE Settles(j, state) /\ worker' = [worker EXCEPT !.pc = "update"]
    <3> HIDE DEF state
    <3>1. /\ aState' = [aState EXCEPT ![Attempt(j)] = state]
          /\ terminal' = [terminal EXCEPT ![j] = state]
      BY <2>2, <2>3, SettlesFacts
    <3>2. /\ worker' \in [pc : WorkerPcs, job : Jobs, failures : Nat, answer : Answers \cup {"none", "error"}]
          /\ worker'.pc = "update" /\ worker'.job = j /\ worker'.answer = worker.answer
      BY <2>3, <1>1 DEF MediaInv, MediaTypeOK, WorkerPcs
    <3>3. aState'[Attempt(j)] = state
      BY <3>1, AttemptFacts DEF MediaInv, MediaTypeOK
    <3>4. HeldJobOK(j)'
      BY <3>2, <3>3, <2>1, <1>1, <1>2 DEF HeldJobOK, state
    <3> QED BY <3>1, <3>2, <3>4, <2>2, <1>1, <1>2, SettledFacts, AttemptClosed
  <2> QED BY <2>1, <2>3, <1>3
<1>5. CASE LocalCancelSettle(j)
  <2>1. /\ worker.pc = "localCancel"
        /\ \/ Settles(j, "cancelled") /\ worker' = [worker EXCEPT !.answer = "canceled"]
           \/ worker' = Idle /\ UNCHANGED <<vars, terminal>>
    BY <1>5 DEF LocalCancelSettle, Working, Rest
  <2>2. CASE Settles(j, "cancelled") /\ worker' = [worker EXCEPT !.answer = "canceled"]
    <3>1. /\ aState' = [aState EXCEPT ![Attempt(j)] = "cancelled"]
          /\ terminal' = [terminal EXCEPT ![j] = "cancelled"]
      BY <2>2, SettlesFacts, SettledFacts
    <3>2. /\ worker' \in [pc : WorkerPcs, job : Jobs, failures : Nat, answer : Answers \cup {"none", "error"}]
          /\ worker'.pc = "localCancel" /\ worker'.job = j /\ worker'.answer = "canceled"
      BY <2>1, <2>2, <1>1 DEF MediaInv, MediaTypeOK, WorkerPcs, Answers
    <3>3. aState'[Attempt(j)] = "cancelled"
      BY <3>1, AttemptFacts DEF MediaInv, MediaTypeOK
    <3>4. HeldJobOK(j)'
      BY <3>2, <3>3, <1>1, <1>2 DEF HeldJobOK
    <3> QED BY <3>1, <3>2, <3>4, <1>1, <1>2, SettledFacts, AttemptClosed
  <2> QED BY <2>1, <2>2, <1>3
<1>6. CASE FailAttempt(j)
  <2>1. CloseAttempt(j) /\ worker' = [worker EXCEPT !.pc = "failRow"]
    BY <1>6 DEF FailAttempt, Goto
  <2>2. PICK s \in AttemptStates \ ActiveStates, t \in SettledStates \cup {"none"} :
           /\ aState' = [aState EXCEPT ![Attempt(j)] = s]
           /\ terminal' = [terminal EXCEPT ![j] = t]
           /\ t # "none" => s = t
           /\ s = "absent" => aState[Attempt(j)] = "absent"
    BY <2>1, CloseAttemptFacts
  <2>3. /\ worker' \in [pc : WorkerPcs, job : Jobs, failures : Nat, answer : Answers \cup {"none", "error"}]
        /\ worker'.pc = "failRow" /\ worker'.job = j
    BY <2>1, <1>1 DEF MediaInv, MediaTypeOK, WorkerPcs
  <2>4. aState'[Attempt(j)] = s
    BY <2>2, AttemptFacts DEF MediaInv, MediaTypeOK
  <2>5. HeldJobOK(j)'
    BY <2>3, <2>4, <1>1, <1>2 DEF HeldJobOK
  <2> QED BY <2>2, <2>3, <2>5, <1>1, <1>2, AttemptClosed
<1> QED BY <1>4, <1>5, <1>6

-----------------------------------------------------------------------------
(* Restarts. *)

\* recoverSubmission closes the attempt of an interrupted submission.
LEMMA RecoverSubmissionInv == ASSUME MediaInv, NEW j \in Jobs, RecoverSubmission(j) PROVE MediaInv'
<1>1. /\ phase' = phase /\ phase # "down" /\ UNCHANGED <<job, creating, canceling, creates>>
      /\ MayHold(job[j].state)
  BY DEF RecoverSubmission, Interrupted, MayHold
<1>2. CASE /\ aState[Attempt(j)] = "reserved"
           /\ CancelBeforeDispatch(Attempt(j)) /\ terminal' = terminal
           /\ worker' = [Idle EXCEPT !.pc = "failRow", !.job = j]
  <2>1. terminal[j] = "none"
    BY <1>2 DEF MediaInv, MediaTypeOK, JobOK, SettledStates
  <2>2. /\ aState' = [aState EXCEPT ![Attempt(j)] = "cancelled_before_dispatch"]
        /\ terminal' = [terminal EXCEPT ![j] = "none"]
    BY <1>2, <2>1 DEF CancelBeforeDispatch, MediaInv, MediaTypeOK
  <2>3. /\ worker' \in [pc : WorkerPcs, job : Jobs, failures : Nat, answer : Answers \cup {"none", "error"}]
        /\ worker'.pc = "failRow" /\ worker'.job = j
    BY <1>2, IdleFacts DEF WorkerPcs
  <2>4. aState'[Attempt(j)] = "cancelled_before_dispatch"
    BY <2>2, AttemptFacts DEF MediaInv, MediaTypeOK
  <2>5. HeldJobOK(j)'
    BY <2>3, <2>4, <1>1 DEF HeldJobOK, ActiveStates
  <2> QED BY <2>2, <2>3, <2>5, <1>1, SettledFacts, AttemptClosed
<1>3. CASE /\ Settles(j, "interrupted_unknown")
           /\ worker' = [Idle EXCEPT !.pc = "unknownRow", !.job = j]
  <2>1. /\ aState' = [aState EXCEPT ![Attempt(j)] = "interrupted_unknown"]
        /\ terminal' = [terminal EXCEPT ![j] = "interrupted_unknown"]
    BY <1>3, SettlesFacts, SettledFacts
  <2>2. /\ worker' \in [pc : WorkerPcs, job : Jobs, failures : Nat, answer : Answers \cup {"none", "error"}]
        /\ worker'.pc = "unknownRow" /\ worker'.job = j
    BY <1>3, IdleFacts DEF WorkerPcs
  <2>3. aState'[Attempt(j)] = "interrupted_unknown"
    BY <2>1, AttemptFacts DEF MediaInv, MediaTypeOK
  <2>4. HeldJobOK(j)'
    BY <2>2, <2>3, <1>1 DEF HeldJobOK
  <2> QED BY <2>1, <2>2, <2>4, <1>1, SettledFacts, AttemptClosed
<1> QED BY <1>2, <1>3 DEF RecoverSubmission

\* The process or the worker stops: what it held is open for the recovery.
LEMMA StopInv == ASSUME MediaInv, Crash \/ RestartWorker PROVE MediaInv'
<1>1. UNCHANGED <<aState, job, terminal, creates>> /\ worker' = Idle
  BY DEF Crash, RestartWorker, vars, lifeVars
<1>2. \/ phase' = "down" /\ creating' = {} /\ canceling' = {}
      \/ phase = "up" /\ phase' = "recovering" /\ UNCHANGED <<creating, canceling>>
  BY DEF Crash, RestartWorker
<1>3. MediaTypeOK'
  BY <1>1, <1>2, IdleFacts DEF MediaInv, MediaTypeOK
<1>4. ASSUME NEW j \in Jobs PROVE JobOK(j)'
  <2>1. JobOK(j)
    BY DEF MediaInv
  <2> QED BY <1>1, <1>2, <2>1 DEF JobOK
<1>5. WorkerOK' /\ DownOK'
  BY <1>1, <1>2, IdleFacts, WorkerRests DEF DownOK
<1> QED BY <1>3, <1>4, <1>5 DEF MediaInv

\* usage.Recover closes every open attempt before the worker starts.
LEMMA StartAccountingInv == ASSUME MediaInv, StartAccounting PROVE MediaInv'
<1>1. /\ phase = "down" /\ phase' = "recovering"
      /\ UNCHANGED <<job, terminal, worker, creating, canceling, creates>>
      /\ creating = {} /\ canceling = {} /\ worker.pc = "idle"
  BY DEF StartAccounting, MediaInv, DownOK
<1>2. /\ aState' \in [Attempts -> AttemptStates]
      /\ \A a \in Attempts :
           \/ aState[a] = "reserved" /\ aState'[a] = "cancelled_before_dispatch"
           \/ aState[a] \in {"dispatching", "streaming"} /\ aState'[a] = "interrupted_unknown"
           \/ aState[a] \notin ActiveStates /\ aState'[a] = aState[a]
  <2>1. aState' = [a \in Attempts |->
                     IF a \in {b \in Attempts : aState[b] = "reserved"} THEN "cancelled_before_dispatch"
                     ELSE IF a \in Active \ {b \in Attempts : aState[b] = "reserved"}
                          THEN "interrupted_unknown" ELSE aState[a]]
    BY DEF StartAccounting, Recover
  <2> QED BY <2>1 DEF MediaInv, MediaTypeOK, Active, ActiveStates, AttemptStates, SettledStates
<1>3. MediaTypeOK'
  BY <1>1, <1>2 DEF MediaInv, MediaTypeOK
<1>4. ASSUME NEW j \in Jobs PROVE JobOK(j)'
  <2>1. JobOK(j) /\ Attempt(j) \in Attempts
    BY AttemptFacts DEF MediaInv
  <2>2. terminal[j] # "none" => terminal[j] \notin ActiveStates
    BY SettledFacts DEF MediaInv, MediaTypeOK
  <2> QED BY <1>1, <1>2, <2>1, <2>2 DEF JobOK, ActiveStates, Closed
<1>5. WorkerOK' /\ DownOK'
  BY <1>1 DEF WorkerOK, DownOK
<1> QED BY <1>3, <1>4, <1>5 DEF MediaInv

\* recoverInterrupted is done and the worker loop starts.
LEMMA StartWorkerInv == ASSUME MediaInv, StartWorker PROVE MediaInv'
<1>1. /\ phase = "recovering" /\ phase' = "up"
      /\ UNCHANGED <<aState, job, terminal, worker, creating, canceling, creates>>
  BY DEF StartWorker, vars, lifeVars
<1>2. MediaTypeOK'
  BY <1>1 DEF MediaInv, MediaTypeOK
<1>3. ASSUME NEW j \in Jobs PROVE JobOK(j)'
  BY <1>1 DEF MediaInv, JobOK
<1>4. WorkerOK' /\ DownOK'
  BY <1>1 DEF MediaInv, WorkerOK, HeldJobOK, DownOK
<1> QED BY <1>2, <1>3, <1>4 DEF MediaInv

-----------------------------------------------------------------------------
(* The invariant, and what follows from it. *)

\* The empty database satisfies the invariant.
LEMMA MediaInitInv == MediaInit => MediaInv
<1> SUFFICES ASSUME MediaInit PROVE MediaInv
  OBVIOUS
<1>1. MediaTypeOK
  BY IdleFacts DEF MediaInit, Init, MediaTypeOK, MediaRow, JobStates, AttemptStates
<1>2. ASSUME NEW j \in Jobs PROVE JobOK(j)
  BY DEF MediaInit, JobOK, Closed
<1>3. WorkerOK /\ DownOK
  BY DEF MediaInit, Idle, WorkerOK, DownOK
<1> QED BY <1>1, <1>2, <1>3 DEF MediaInv

\* Every step of the clients, the worker and the restart keeps it.
LEMMA MediaNextInv == MediaInv /\ [MediaNext]_allVars => MediaInv'
<1> SUFFICES ASSUME MediaInv, [MediaNext]_allVars PROVE MediaInv'
  OBVIOUS
<1>1. CASE UNCHANGED allVars
  <2>1. UNCHANGED <<aState, job, terminal, worker, creating, canceling, phase, creates>>
    BY <1>1 DEF allVars, vars, lifeVars, mediaVars
  <2> QED BY <2>1 DEF MediaInv, MediaTypeOK, JobOK, WorkerOK, HeldJobOK, DownOK
<1>2. CASE Crash \/ RestartWorker
  BY <1>2, StopInv
<1>3. CASE Startup
  BY <1>3, StartAccountingInv, StartWorkerInv, RecoverSubmissionInv, RowClosedInv DEF Startup
<1>4. ASSUME NEW j \in Jobs, ClientStep(j) PROVE MediaInv'
  BY <1>4, CreateInv, CancelInv DEF ClientStep
<1>5. ASSUME NEW j \in Jobs, WorkerStep(j) PROVE MediaInv'
  <2>1. CASE \E answer \in Driver[j].answers \cup {"error"} : CreateCall(j, answer)
    BY <2>1, CreateCallInv
  <2>2. CASE \/ SubmitConflict(j) \/ SubmitDenied(j) \/ PollFails(j) \/ StartPoll(j)
             \/ (\E answer \in Driver[j].answers : PollAnswer(j, answer))
    BY <2>2, WorkerDecides
  <2> QED BY <1>5, <2>1, <2>2, ClaimInv, RescheduleInv, ApplyUpdateInv, SettlementInv, RowClosedInv
        DEF WorkerStep
<1> QED BY <1>1, <1>2, <1>3, <1>4, <1>5 DEF MediaNext

\* The invariant in every reachable state.
LEMMA MediaInvariant == MediaSpec => []MediaInv
  BY MediaInitInv, MediaNextInv, PTL DEF MediaSpec

\* What the properties need of the invariant.
LEMMA MediaInvImplies == MediaInv => SubmittedOnce /\ JobAgreesWithAttempt
<1> SUFFICES ASSUME MediaInv, NEW j \in Jobs
             PROVE  /\ creates[j] <= 1
                    /\ job[j].state = "succeeded" => aState[Attempt(j)] = "succeeded"
                    /\ job[j].state = "canceled" =>
                         \/ aState[Attempt(j)] \in {"cancelled", "cancelled_before_dispatch"}
                         \/ j \in canceling \/ phase # "up"
                    /\ job[j].state \in Closed \ {"canceled"} => aState[Attempt(j)] \notin ActiveStates
  BY DEF SubmittedOnce, JobAgreesWithAttempt
<1>1. JobOK(j)
  BY DEF MediaInv
<1>2. creates[j] <= 1
  BY DEF MediaInv, MediaTypeOK
<1> QED BY <1>1, <1>2 DEF JobOK

\* For every number of jobs, clients and restarts: a job reaches the create
\* endpoint of its provider at most once (claimQueued, submit, recoverInterrupted).
THEOREM JobsAreSubmittedOnce == MediaSpec => []SubmittedOnce
  BY MediaInvariant, MediaInvImplies, PTL

\* A closed row never contradicts its attempt: settle comes before the write of
\* the row in applyPrediction, completeLocalCancel, fail and recoverSubmission,
\* and no client call comes between them.
THEOREM JobsAgreeWithAttempts == MediaSpec => []JobAgreesWithAttempt
  BY MediaInvariant, MediaInvImplies, PTL

\* A write of the state column of one row.
LEMMA OneRowWritten ==
  ASSUME MediaInv, NEW j \in Jobs, NEW i \in Jobs, NEW row, job' = [job EXCEPT ![i] = row],
         job[i].state \in Closed => row.state = job[i].state
  PROVE  job[j].state \in Closed => job'[j].state = job[j].state
  BY DEF MediaInv, MediaTypeOK

\* No step writes another state over a closed one.
LEMMA ClosedJobStep ==
  ASSUME MediaInv, [MediaNext]_allVars, NEW j \in Jobs
  PROVE  job[j].state \in Closed => job'[j].state = job[j].state
<1>0. ASSUME job' = job PROVE job'[j].state = job[j].state
  BY <1>0
<1>1. CASE UNCHANGED allVars
  BY <1>1, <1>0 DEF allVars, mediaVars
<1>2. CASE Crash \/ RestartWorker \/ StartAccounting \/ StartWorker
  BY <1>2, <1>0 DEF Crash, RestartWorker, StartAccounting, StartWorker
<1>3. ASSUME NEW i \in Jobs, RecoverSubmission(i) \/ CreateAdmit(i) \/ CreateFails(i) \/ CancelAttempt(i)
                              \/ SubmitDispatch(i) \/ SubmitConflict(i) \/ SubmitDenied(i)
                              \/ StartPoll(i) \/ PollFails(i) \/ ApplySettle(i) \/ LocalCancelSettle(i)
                              \/ FailAttempt(i)
      PROVE  job' = job
  BY <1>3 DEF RecoverSubmission, CreateAdmit, CreateFails, CancelAttempt, SubmitDispatch, SubmitConflict,
              SubmitDenied, StartPoll, PollFails, ApplySettle, LocalCancelSettle, FailAttempt
<1>4. ASSUME NEW i \in Jobs, NEW answer, CreateCall(i, answer) \/ PollAnswer(i, answer)
      PROVE  job' = job
  BY <1>4 DEF CreateCall, PollAnswer
<1>5. ASSUME NEW i \in Jobs, NEW state, job' = [job EXCEPT ![i].state = state],
             job[i].state \in Closed => state = job[i].state
      PROVE  job[j].state \in Closed => job'[j].state = job[j].state
  BY <1>5 DEF MediaInv, MediaTypeOK, MediaRow
<1>6. ASSUME NEW i \in Jobs, CreateInsert(i) \/ Claim(i)
      PROVE  job[j].state \in Closed => job'[j].state = job[j].state
  <2>1. CreateInsert(i) => job' = [job EXCEPT ![i].state = "queued"] /\ job[i].state = "none"
    BY DEF CreateInsert, MediaInv, JobOK
  <2>2. Claim(i) => job' = [job EXCEPT ![i].state = "submitting"] /\ job[i].state = "queued"
    BY DEF Claim, Claimable
  <2> QED BY <2>1, <2>2, <1>5, <1>6 DEF Closed
<1>7. ASSUME NEW i \in Jobs, Cancel(i)
      PROVE  job[j].state \in Closed => job'[j].state = job[j].state
  <2>1. job' = [job EXCEPT ![i].cancel = TRUE, ![i].state = CanceledState(@)]
    BY <1>7 DEF Cancel
  <2>2. job[i].state \in Closed => CanceledState(job[i].state) = job[i].state
    BY DEF CanceledState, Closed
  <2> DEFINE marked == [job EXCEPT ![i].cancel = TRUE]
  <2>3. marked = [job EXCEPT ![i] = [job[i] EXCEPT !.cancel = TRUE]]
    OBVIOUS
  <2>4. [job[i] EXCEPT !.cancel = TRUE].state = job[i].state
        /\ DOMAIN [job[i] EXCEPT !.cancel = TRUE] = DOMAIN job[i]
    BY DEF MediaInv, MediaTypeOK, MediaRow
  <2>5. job' = [marked EXCEPT ![i].state = CanceledState(@)]
    BY <2>1
  <2>6. DOMAIN marked = Jobs /\ DOMAIN marked[i] = {"state", "cancel", "failures", "known"}
        /\ marked[i].state = job[i].state /\ \A k \in Jobs \ {i} : marked[k] = job[k]
    BY <2>3, <2>4 DEF MediaInv, MediaTypeOK, MediaRow
  <2> HIDE DEF marked
  <2>7. job'[i].state = CanceledState(job[i].state) /\ \A k \in Jobs \ {i} : job'[k] = job[k]
    BY <2>5, <2>6
  <2> QED BY <2>2, <2>7
<1>8. ASSUME NEW i \in Jobs, Reschedule(i)
      PROVE  job[j].state \in Closed => job'[j].state = job[j].state
  <2>1. PICK n : job' = [job EXCEPT ![i].failures = n]
    BY <1>8 DEF Reschedule
  <2> QED BY <2>1 DEF MediaInv, MediaTypeOK, MediaRow
<1>9. ASSUME NEW i \in Jobs, ApplyUpdate(i)
      PROVE  job[j].state \in Closed => job'[j].state = job[j].state
  <2>1. CASE job[i].state \in {"submitting"} \cup Pollable
    <3>1. PICK row : job' = [job EXCEPT ![i] = row]
      BY <2>1, <1>9 DEF ApplyUpdate
    <3> QED BY <3>1, <2>1, OneRowWritten DEF Pollable, Closed
  <2>2. CASE job[i].state \notin {"submitting"} \cup Pollable
    BY <2>2, <1>9 DEF ApplyUpdate
  <2> QED BY <2>1, <2>2
<1>10. ASSUME NEW i \in Jobs, LocalCancelUpdate(i) \/ FailRow(i)
              \/ job' = [job EXCEPT ![i].state = IF @ = "submitting" THEN "interrupted_unknown" ELSE @]
       PROVE  job[j].state \in Closed => job'[j].state = job[j].state
  <2>1. PICK state : /\ job' = [job EXCEPT ![i].state = state]
                     /\ job[i].state \in Closed => state = job[i].state
    BY <1>10 DEF LocalCancelUpdate, FailRow, Closed
  <2> QED BY <2>1, <1>5
<1>11. ASSUME NEW i \in Jobs, FailJob(i) \/ RecoverRow(i)
       PROVE  job[j].state \in Closed => job'[j].state = job[j].state
  BY <1>11, <1>10 DEF FailJob, RecoverRow
<1>12. ASSUME NEW i \in Jobs, WorkerStep(i)
       PROVE  job[j].state \in Closed => job'[j].state = job[j].state
  BY <1>12, <1>0, <1>3, <1>4, <1>6, <1>8, <1>9, <1>10, <1>11 DEF WorkerStep
<1>13. ASSUME NEW i \in Jobs, ClientStep(i)
       PROVE  job[j].state \in Closed => job'[j].state = job[j].state
  BY <1>13, <1>0, <1>3, <1>6, <1>7 DEF ClientStep
<1> QED BY <1>0, <1>1, <1>2, <1>3, <1>11, <1>12, <1>13 DEF MediaNext, Startup

\* A closed job stays as it was closed: late answers, failed polls, cancels and
\* both kinds of restart leave its state alone.
THEOREM ClosedJobsAreFinal == MediaSpec => ClosedJobIsFinal
<1>1. MediaInv /\ [MediaNext]_allVars
      => [\A j \in Jobs : job[j].state \in Closed => job'[j].state = job[j].state]_allVars
  BY ClosedJobStep
<1> QED BY <1>1, MediaInvariant, PTL DEF MediaSpec, ClosedJobIsFinal
=============================================================================
