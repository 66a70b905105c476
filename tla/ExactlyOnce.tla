----------------------------- MODULE ExactlyOnce -----------------------------
(***************************************************************************)
(* What the usage projection promises a reader of data.db: every event is    *)
(* added to the totals exactly once and in the order it was written.         *)
(***************************************************************************)
EXTENDS Naturals, Sequences

CONSTANTS
  Zero,        \* the totals before any event
  Add(_, _)    \* totals and an event to the new totals

VARIABLES queue, totals

Init == queue = <<>> /\ totals = Zero

\* A transaction appends its events.
Write ==
  /\ Len(queue') > Len(queue)
  /\ SubSeq(queue', 1, Len(queue)) = queue
  /\ totals' = totals

\* The first event leaves the queue and enters the totals, in one step.
Apply ==
  /\ queue # <<>>
  /\ queue' = Tail(queue)
  /\ totals' = Add(totals, Head(queue))

Spec == Init /\ [][Write \/ Apply]_<<queue, totals>>
=============================================================================
