------------------------------ MODULE MediaJobs ------------------------------
(***************************************************************************)
(* Asynchronous media jobs (internal/features/mediajobs) on top of the      *)
(* accounting of Accounting: one worker goroutine claims, submits and polls  *)
(* jobs, clients create and cancel them, the process may stop at any point   *)
(* and starts again as app/execute.go does: usage.Recover first, then the    *)
(* worker's recoverInterrupted. Every database statement is one step; the    *)
(* worker keeps what it read in between.                                     *)
(*                                                                           *)
(* Abstracted: inputs, outputs, their encryption and the cost an answer may  *)
(* report; a provider client is what its answers can say and whether it can  *)
(* cancel; next_poll_at (its order is kept in due); permission and           *)
(* configuration checks, which may go either way.                            *)
(***************************************************************************)
EXTENDS Accounting, Sequences, SequencesExt

CONSTANTS
  MaxJobs,         \* jobs are numbered in order of creation
  RequestOf, AttemptOf,  \* [Jobs -> ...] the ids Admit draws for a job
  Key, Target,     \* the key and connection of the jobs
  Driver,          \* [Jobs -> Replicate, Together, Gemini or Custom]
  MaxPollFailures, \* mediaMaxPollFailures
  WorkerRestarts,  \* TRUE: the worker alone may start again, as its test does
  MaxCrashes       \* bound on restarts

ASSUME PollFailuresAssumption == MaxPollFailures \in Nat \ {0}
ASSUME RestartsAssumption == WorkerRestarts \in BOOLEAN
ASSUME JobsAssumption == MaxJobs \in Nat \ {0}

Jobs == 1..MaxJobs

\* Admit draws a fresh attempt id for every job.
ASSUME AttemptOfAssumption ==
  /\ AttemptOf \in [Jobs -> Attempts]
  /\ \A i, j \in Jobs : AttemptOf[i] = AttemptOf[j] => i = j

VARIABLES
  job,       \* media_jobs: state, cancel_requested, poll_failures, provider_job_id stored
  due,       \* jobs by next_poll_at
  terminal,  \* the ledger entry under the key "media-job:<id>:terminal"
  worker,    \* what the worker goroutine is doing, with the row it has read
  creating,  \* Create calls between Admit and INSERT
  canceling, \* Cancel calls between the UPDATE and CancelBeforeDispatch
  phase,     \* "up", "down", or "recovering" after usage.Recover
  crashes,   \* restarts so far
  creates    \* provider create requests sent

mediaVars == <<job, due, terminal, worker, creating, canceling, phase, crashes, creates>>
allVars == <<vars, mediaVars>>

Closed == {"succeeded", "failed", "canceled", "interrupted_unknown"}
JobStates == {"none", "queued", "submitting", "starting", "processing", "canceling"} \cup Closed
Answers == {"starting", "processing", "succeeded", "failed", "canceled"}

\* The provider clients. Gemini reports an operation that runs, failed or
\* succeeded; the others pass on any status the provider names. Together and
\* Gemini have no cancel request.
Replicate == [answers |-> Answers, cancel |-> TRUE]
Together == [answers |-> Answers, cancel |-> FALSE]
Gemini == [answers |-> {"processing", "succeeded", "failed"}, cancel |-> FALSE]
Custom == [answers |-> Answers, cancel |-> TRUE]
LocalCancel == {j \in Jobs : ~Driver[j].cancel}
ASSUME DriverAssumption == \A j \in Jobs : Driver[j].answers \subseteq Answers

Idle == [pc |-> "idle", job |-> 1, failures |-> 0, answer |-> "none"]

MediaInit ==
  /\ Init
  /\ job = [j \in Jobs |-> [state |-> "none", cancel |-> FALSE, failures |-> 0, known |-> FALSE]]
  /\ due = <<>>
  /\ terminal = [j \in Jobs |-> "none"]
  /\ worker = Idle
  /\ creating = {} /\ canceling = {}
  /\ phase = "up" /\ crashes = 0
  /\ creates = [j \in Jobs |-> 0]

-----------------------------------------------------------------------------
(* Faulty variants. Nothing uses them: each replaces its original to show  *)
(* that a property notices the fault.                                        *)

PollableForgetsCanceling == {"starting", "processing"}
CanceledStateAny(state) == IF state = "queued" THEN "canceled" ELSE "canceling"
CloseAttemptForgets(j) == UNCHANGED <<vars, terminal>>
CreateCallRetries(j, answer) ==
  /\ phase = "up" /\ worker.pc = "create" /\ worker.job = j /\ creates[j] < 2
  /\ creates' = [creates EXCEPT ![j] = @ + 1]
  /\ worker' = [worker EXCEPT !.pc = IF answer = "error" THEN "create" ELSE "apply", !.answer = answer]
  /\ UNCHANGED <<vars, job, due, terminal, creating, canceling, phase, crashes>>

-----------------------------------------------------------------------------
(* What the operations share. *)

Attempt(j) == AttemptOf[j]

\* The states dueActive polls, and reschedule and applyPrediction may leave.
Pollable == {"starting", "processing", "canceling"}

\* usage.Settle under the job's terminal idempotency key: a first settlement of
\* an open attempt, a replay with the same signature, or ErrConflict.
Settles(j, state) ==
  \/ /\ terminal[j] = "none"
     /\ Settle(Attempt(j), state, "unknown", Unknown, Unknown, TRUE)
     /\ terminal' = [terminal EXCEPT ![j] = state]
  \/ /\ terminal[j] = state
     /\ UNCHANGED <<vars, terminal>>
SettleConflicts(j, state) ==
  terminal[j] # state /\ (terminal[j] # "none" \/ ~Settleable(Attempt(j)))

\* The statement's new next_poll_at puts the job behind every other one.
ToBack(j) == due' = Append(Remove(due, j), j)

\* dueActive takes the pollable job that was due first.
NextDue(j) ==
  /\ job[j].state \in Pollable
  /\ \E n \in DOMAIN due : due[n] = j /\ \A m \in 1..n - 1 : job[due[m]].state \notin Pollable

\* failRow leaves a closed row alone.
FailRow(j) ==
  job' = [job EXCEPT ![j].state = IF @ \in Closed THEN @ ELSE "failed"]

\* The accounting half of fail: what is open is closed, the rest left alone.
CloseAttempt(j) ==
  \/ aState[Attempt(j)] = "reserved" /\ CancelBeforeDispatch(Attempt(j)) /\ terminal' = terminal
  \/ aState[Attempt(j)] \in {"dispatching", "streaming"} /\ Settles(j, "failed")
  \/ aState[Attempt(j)] \notin ActiveStates /\ UNCHANGED <<vars, terminal>>

Goto(pc) == worker' = [worker EXCEPT !.pc = pc]
Rest == worker' = Idle

-----------------------------------------------------------------------------
(* Client calls. *)

\* Create: admission without a price, then the row.
CreateAdmit(j) ==
  /\ phase = "up" /\ job[j].state = "none" /\ j \notin creating
  /\ \A i \in 1..j - 1 : job[i].state # "none" \/ aState[Attempt(i)] # "absent"
  /\ Admit(RequestOf[j], Attempt(j), Key, Target, 0, 0, FALSE)
  /\ creating' = creating \cup {j}
  /\ UNCHANGED <<job, due, terminal, worker, canceling, phase, crashes, creates>>

CreateInsert(j) ==
  /\ phase = "up" /\ j \in creating
  /\ creating' = creating \ {j}
  /\ job' = [job EXCEPT ![j].state = "queued"]
  /\ due' = Append(due, j)
  /\ UNCHANGED <<vars, terminal, worker, canceling, phase, crashes, creates>>

\* The row could not be inserted: the admission is given back.
CreateFails(j) ==
  /\ phase = "up" /\ j \in creating
  /\ creating' = creating \ {j}
  /\ CancelBeforeDispatch(Attempt(j))
  /\ UNCHANGED <<job, due, terminal, worker, canceling, phase, crashes, creates>>

CanceledState(state) ==
  CASE state = "queued" -> "canceled"
    [] state \in {"submitting", "starting", "processing"} -> "canceling"
    [] OTHER -> state

\* cancel: a queued job is canceled at once, a submitted one is marked; then
\* the attempt of a canceled job is given back (an error is ignored).
Cancel(j) ==
  /\ phase = "up" /\ job[j].state # "none" /\ j \notin canceling /\ ~job[j].cancel
  /\ job' = [job EXCEPT ![j].cancel = TRUE,
                        ![j].state = CanceledState(@)]
  /\ canceling' = canceling \cup {j}
  /\ UNCHANGED <<vars, due, terminal, worker, creating, phase, crashes, creates>>

CancelAttempt(j) ==
  /\ phase = "up" /\ j \in canceling
  /\ canceling' = canceling \ {j}
  /\ IF job[j].state = "canceled" /\ aState[Attempt(j)] = "reserved"
     THEN CancelBeforeDispatch(Attempt(j)) ELSE UNCHANGED vars
  /\ UNCHANGED <<job, due, terminal, worker, creating, phase, crashes, creates>>

-----------------------------------------------------------------------------
(* The worker. Its actions name the job j it works on. *)

Working(j, pc) == phase = "up" /\ worker.pc = pc /\ worker.job = j
Queued == {j \in Jobs : job[j].state = "queued"}

\* claimQueued: the oldest queued job, by compare-and-set.
Claimable(j) == job[j].state = "queued"
Claim(j) ==
  /\ phase = "up" /\ worker.pc = "idle"
  /\ Claimable(j) /\ \A i \in Queued : j <= i
  /\ job' = [job EXCEPT ![j].state = "submitting"]
  /\ worker' = [Idle EXCEPT !.pc = "submit", !.job = j]
  /\ UNCHANGED <<vars, due, terminal, creating, canceling, phase, crashes, creates>>

\* submit up to the provider call, when target and BeginDispatch agree.
SubmitDispatch(j) ==
  /\ Working(j, "submit")
  /\ MarkDispatching(Attempt(j))
  /\ Goto("create")
  /\ UNCHANGED <<job, due, terminal, creating, canceling, phase, crashes, creates>>

\* MarkDispatching fails when the attempt is not reserved any more; the
\* CancelBeforeDispatch that follows then has nothing to cancel.
SubmitConflict(j) ==
  /\ Working(j, "submit")
  /\ aState[Attempt(j)] # "reserved"
  /\ Goto("failRow")
  /\ UNCHANGED <<vars, job, due, terminal, creating, canceling, phase, crashes, creates>>

\* The stored input, the permissions or the configuration do not hold.
SubmitDenied(j) ==
  /\ Working(j, "submit")
  /\ Goto("fail")
  /\ UNCHANGED <<vars, job, due, terminal, creating, canceling, phase, crashes, creates>>

\* The provider accepts the job, refuses it, or answers nonsense.
CreateCall(j, answer) ==
  /\ Working(j, "create")
  /\ creates' = [creates EXCEPT ![j] = @ + 1]
  /\ worker' = [worker EXCEPT !.pc = IF answer = "error" THEN "fail" ELSE "apply", !.answer = answer]
  /\ UNCHANGED <<vars, job, due, terminal, creating, canceling, phase, crashes>>

\* dueActive reads the row; without a remote cancel the worker cancels locally.
StartPoll(j) ==
  /\ phase = "up" /\ worker.pc = "idle" /\ Queued = {}
  /\ NextDue(j)
  /\ worker' = [Idle EXCEPT !.pc = IF j \in LocalCancel /\ job[j].cancel THEN "localCancel" ELSE "poll",
                            !.job = j, !.failures = job[j].failures]
  /\ UNCHANGED <<vars, job, due, terminal, creating, canceling, phase, crashes, creates>>

\* The provider's answer to a status or a cancel request; every client refuses
\* an empty provider id before the call, with an error that is not retryable.
PollAnswer(j, answer) ==
  /\ Working(j, "poll") /\ job[j].known
  /\ worker' = [worker EXCEPT !.pc = "apply", !.answer = answer]
  /\ UNCHANGED <<vars, job, due, terminal, creating, canceling, phase, crashes, creates>>

MayRetry(failures) == failures + 1 < MaxPollFailures

\* A retryable error below the limit reschedules the poll.
Reschedule(j) ==
  /\ Working(j, "poll") /\ job[j].known
  /\ MayRetry(worker.failures)
  /\ job' = [job EXCEPT ![j].failures = IF job[j].state \in Pollable THEN worker.failures + 1 ELSE @]
  /\ IF job[j].state \in Pollable THEN ToBack(j) ELSE due' = due
  /\ Rest
  /\ UNCHANGED <<vars, terminal, creating, canceling, phase, crashes, creates>>

\* Permission lost, configuration changed, or an error that is final.
PollFails(j) ==
  /\ Working(j, "poll")
  /\ Goto("fail")
  /\ UNCHANGED <<vars, job, due, terminal, creating, canceling, phase, crashes, creates>>

\* applyPrediction: a closing answer settles the attempt before the row is
\* written; when the settlement conflicts the worker gives up silently.
ApplySettle(j) ==
  /\ Working(j, "apply") /\ worker.answer \in Closed
  /\ LET state == IF worker.answer = "canceled" THEN "cancelled" ELSE worker.answer
     IN  \/ Settles(j, state) /\ Goto("update")
         \/ SettleConflicts(j, state) /\ Rest /\ UNCHANGED <<vars, terminal>>
  /\ UNCHANGED <<job, due, creating, canceling, phase, crashes, creates>>

\* The row takes the provider's state, unless it is closed.
ApplyUpdate(j) ==
  /\ Working(j, "update") \/ (Working(j, "apply") /\ worker.answer \notin Closed)
  /\ IF job[j].state \in {"submitting"} \cup Pollable
     THEN /\ job' = [job EXCEPT ![j] = [@ EXCEPT !.state = worker.answer, !.failures = 0, !.known = TRUE]]
          /\ ToBack(j)
     ELSE UNCHANGED <<job, due>>
  /\ Rest
  /\ UNCHANGED <<vars, terminal, creating, canceling, phase, crashes, creates>>

\* completeLocalCancel settles the attempt as cancelled and closes the row if
\* it is still in the state canceling.
LocalCancelSettle(j) ==
  /\ Working(j, "localCancel") /\ worker.answer = "none"
  /\ \/ Settles(j, "cancelled") /\ worker' = [worker EXCEPT !.answer = "canceled"]
     \/ SettleConflicts(j, "cancelled") /\ Rest /\ UNCHANGED <<vars, terminal>>
  /\ UNCHANGED <<job, due, creating, canceling, phase, crashes, creates>>
LocalCancelUpdate(j) ==
  /\ Working(j, "localCancel") /\ worker.answer = "canceled"
  /\ job' = [job EXCEPT ![j].state = IF @ = "canceling" THEN "canceled" ELSE @]
  /\ Rest
  /\ UNCHANGED <<vars, due, terminal, creating, canceling, phase, crashes, creates>>

\* fail: the attempt first, then the row.
FailAttempt(j) ==
  /\ Working(j, "fail")
  /\ CloseAttempt(j)
  /\ Goto("failRow")
  /\ UNCHANGED <<job, due, creating, canceling, phase, crashes, creates>>
FailJob(j) ==
  /\ Working(j, "failRow")
  /\ FailRow(j)
  /\ Rest
  /\ UNCHANGED <<vars, due, terminal, creating, canceling, phase, crashes, creates>>

-----------------------------------------------------------------------------
(* Restarts. *)

\* The process stops, at any point; calls in progress are gone.
Crash ==
  /\ phase # "down" /\ crashes < MaxCrashes
  /\ phase' = "down" /\ crashes' = crashes + 1
  /\ worker' = Idle /\ creating' = {} /\ canceling' = {}
  /\ UNCHANGED <<vars, job, due, terminal, creates>>

\* The worker alone starts again; calls of clients go on afterwards.
RestartWorker ==
  /\ WorkerRestarts /\ phase = "up" /\ crashes < MaxCrashes
  /\ phase' = "recovering" /\ crashes' = crashes + 1
  /\ worker' = Idle
  /\ UNCHANGED <<vars, job, due, terminal, creating, canceling, creates>>

\* serve runs usage.Recover before any worker.
StartAccounting ==
  /\ phase = "down"
  /\ Recover(0)
  /\ phase' = "recovering"
  /\ UNCHANGED <<job, due, terminal, worker, creating, canceling, crashes, creates>>

\* recoverInterrupted looks at the submissions without a provider id; those
\* whose attempt is still open are closed by recoverSubmission, the attempt
\* first, then the row.
Interrupted == {j \in Jobs : job[j].state = "submitting" /\ ~job[j].known}
RecoverSubmission(j) ==
  /\ phase = "recovering" /\ worker.pc = "idle"
  /\ j \in Interrupted
  /\ \/ /\ aState[Attempt(j)] = "reserved"
        /\ CancelBeforeDispatch(Attempt(j)) /\ terminal' = terminal
        /\ worker' = [Idle EXCEPT !.pc = "failRow", !.job = j]
     \/ /\ aState[Attempt(j)] \in {"dispatching", "streaming"}
        /\ Settles(j, "interrupted_unknown")
        /\ worker' = [Idle EXCEPT !.pc = "unknownRow", !.job = j]
  /\ UNCHANGED <<job, due, creating, canceling, phase, crashes, creates>>
RecoverRow(j) ==
  /\ phase = "recovering" /\ worker.job = j
  /\ \/ worker.pc = "failRow" /\ FailRow(j)
     \/ /\ worker.pc = "unknownRow"
        /\ job' = [job EXCEPT ![j].state = IF @ = "submitting" THEN "interrupted_unknown" ELSE @]
  /\ Rest
  /\ UNCHANGED <<vars, due, terminal, creating, canceling, phase, crashes, creates>>

\* Then every pollable job is due now, in order of creation.
StartWorker ==
  /\ phase = "recovering" /\ worker.pc = "idle"
  /\ \A j \in Interrupted : aState[Attempt(j)] \notin ActiveStates
  /\ due' = SetToSortSeq({j \in Jobs : job[j].state # "none"}, <)
  /\ phase' = "up"
  /\ UNCHANGED <<vars, job, terminal, worker, creating, canceling, crashes, creates>>

-----------------------------------------------------------------------------
WorkerStep(j) ==
  \/ Claim(j) \/ SubmitDispatch(j) \/ SubmitConflict(j) \/ SubmitDenied(j)
  \/ \E answer \in Driver[j].answers \cup {"error"} : CreateCall(j, answer)
  \/ StartPoll(j) \/ Reschedule(j) \/ PollFails(j)
  \/ \E answer \in Driver[j].answers : PollAnswer(j, answer)
  \/ ApplySettle(j) \/ ApplyUpdate(j)
  \/ LocalCancelSettle(j) \/ LocalCancelUpdate(j)
  \/ FailAttempt(j) \/ FailJob(j)

ClientStep(j) == CreateAdmit(j) \/ CreateInsert(j) \/ CreateFails(j) \/ Cancel(j) \/ CancelAttempt(j)

Startup == StartAccounting \/ StartWorker \/ \E j \in Jobs : RecoverSubmission(j) \/ RecoverRow(j)

MediaNext == Crash \/ RestartWorker \/ Startup \/ \E j \in Jobs : ClientStep(j) \/ WorkerStep(j)

MediaSpec == MediaInit /\ [][MediaNext]_allVars

\* The worker loop keeps running and a restart completes. A provider asked
\* again and again about a job finally reports its end: the code has no
\* deadline of its own for a job.
MediaFairSpec ==
  /\ MediaSpec
  /\ WF_allVars(Startup)
  /\ WF_allVars(\E j \in Jobs : WorkerStep(j))
  /\ \A j \in Jobs : SF_allVars(\E answer \in Driver[j].answers \cap Closed : PollAnswer(j, answer))

-----------------------------------------------------------------------------
(* Properties. *)

\* A job reaches the provider's create endpoint at most once, through claims,
\* cancels and restarts: the user never pays for a second submission.
SubmittedOnce == \A j \in Jobs : creates[j] <= 1

\* A closed job tells the same story as its attempt: succeeded only if the
\* attempt was settled so, canceled only if it was cancelled, and never closed
\* while its attempt and its reservations are still open (but for the Cancel
\* call that is about to give the attempt back).
JobAgreesWithAttempt ==
  \A j \in Jobs :
    /\ job[j].state = "succeeded" => aState[Attempt(j)] = "succeeded"
    /\ job[j].state = "canceled" =>
         \/ aState[Attempt(j)] \in {"cancelled", "cancelled_before_dispatch"}
         \/ j \in canceling \/ phase # "up"
    /\ job[j].state \in Closed \ {"canceled"} => aState[Attempt(j)] \notin ActiveStates

\* A closed job stays as it is: late answers, failures, cancels and restarts
\* leave it alone.
ClosedJobIsFinal ==
  [][\A j \in Jobs : job[j].state \in Closed => job'[j].state = job[j].state]_allVars

\* As long as the process runs, every job of a provider that can cancel comes to
\* an end: no interleaving of Cancel with a claim, a submission, a poll or a
\* failing poll leaves a row that neither claimQueued nor dueActive finds.
\* A cancel of a job without remote cancel is excepted: when it lands during a
\* poll the answer overwrites the state canceling, completeLocalCancel then never
\* closes the row nor moves its poll time, and the worker polls nothing else.
UninterruptedJobsEnd ==
  \A j \in Jobs \ LocalCancel :
    (job[j].state # "none") ~>
      (job[j].state \in Closed \/ crashes > 0 \/ \E i \in LocalCancel : job[i].cancel)

\* A job in the state submitting is in the hands of the worker: nothing else
\* would ever pick it up again.
SubmittingIsOwned ==
  \A j \in Jobs : phase = "up" /\ job[j].state = "submitting" => worker.job = j /\ worker.pc # "idle"
=============================================================================
