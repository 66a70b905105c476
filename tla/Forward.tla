------------------------------- MODULE Forward -------------------------------
(***************************************************************************)
(* The synchronous inference path (internal/gateway): Handler.forward      *)
(* drives the accounting of a request through its route targets, the       *)
(* WebSocket handlers (realtime, live, geminiLive) do the same for a       *)
(* session, and a background worker replays the settlements that failed    *)
(* transiently.                                                            *)
(* Each step of a handler is one transaction or one wait, so steps of      *)
(* other handlers, of the worker, of configuration writers and the end of  *)
(* the process come between any two.                                       *)
(*                                                                         *)
(* Abstracted: the provider's answer is its class, and of the frames of a  *)
(* session only those count that decide its end; translation of whole      *)
(* bodies, usage parsing and route statistics are left out, and so are the *)
(* observer and the deferred store of queued (background and batch) work.  *)
(* Of a file search the amounts of tokens are kept, of its calls the       *)
(* number.                                                                 *)
(***************************************************************************)
EXTENDS Accounting, Stream

CONSTANTS
  Forms,         \* [Requests -> sets of the forms the request may have]
  Targets,       \* [Requests -> sequence of connections, the planned route]
  AttemptOf,     \* [Requests -> sequence of the attempt ids Admit draws]
  Key,           \* the API key every request uses
  SearchCalls,   \* max_tool_calls of a request with file search
  SearchOutput,  \* its max_output_tokens
  SearchInput,   \* the estimate of its input
  SearchResult,  \* the most that one search adds to the input
  Client,        \* the dialect of a client whose stream is translated
  MaxPayloads,   \* bound on the payloads of a translated stream
  MaxDeferred,   \* maxDeferredSettlements
  MaxRevision,   \* bound on the configuration writes
  MaxCrashes     \* bound on the restarts

\* A request whose route plan is empty ends before its first attempt.
ASSUME RouteAssumption ==
  \A r \in Requests :
    AttemptOf[r] \in Seq(Attempts) /\ AttemptOf[r] # << >> /\ Len(AttemptOf[r]) = Len(Targets[r])
ASSUME SearchAssumption == {SearchCalls, SearchOutput, SearchInput, SearchResult} \subseteq Nat

VARIABLES
  pc,         \* where the handler of a request is
  form,       \* what the request asked for
  index,      \* the route target the handler is at
  plan,       \* connection revisions read when the route was planned
  result,     \* class of the current attempt's outcome
  committed,  \* bytes of the answer have reached the client
  gone,       \* request.Context() is done: client left or time is up
  progress,   \* of a file search through its provider calls, of a stream through its payloads
  answer,     \* what the client was given
  sent,       \* history: attempts whose request reached the provider
  stored,     \* requests with a stored response or chat completion
  turns,      \* requests whose conversation turn is stored
  pending,    \* Handler.pending: parked settlements
  lost,       \* history: attempts nothing will close before a restart
  revision,   \* provider_connections.revision
  up,         \* the process is running
  crashes

localVars == <<form, index, plan, result, committed, gone, progress>>
worldVars == <<answer, sent, stored, turns>>
parkVars == <<pending, lost>>
procVars == <<revision, up, crashes>>
allVars == <<vars, pc, localVars, worldVars, parkVars, procVars>>

None == "none"
Unplanned == [c \in Connections |-> 0]
Current(r) == AttemptOf[r][index[r]]
Target(r) == Targets[r][index[r]]
FormsAsked == {"plain", "stream", "translated", "stored", "attached"}
FileSearches == {"search", "storedSearch"}
Sessions == {"realtime", "live", "geminiLive"}
Session(r) == form[r] \in Sessions
Searches(r) == form[r] \in FileSearches
Stores(r) == form[r] \in {"stored", "storedSearch"}
\* The searches done, the output tokens left, the input of the next provider
\* call and the input of all calls so far.
NoSearch == [calls |-> 0, left |-> SearchOutput, context |-> SearchInput, used |-> 0]

ForwardInit ==
  /\ Init
  /\ pc = [r \in Requests |-> "idle"]
  /\ form = [r \in Requests |-> None]
  /\ index = [r \in Requests |-> 1]
  /\ plan = [r \in Requests |-> Unplanned]
  /\ result = [r \in Requests |-> None]
  /\ committed = [r \in Requests |-> FALSE]
  /\ gone = [r \in Requests |-> FALSE]
  /\ progress = [r \in Requests |-> NoSearch]
  /\ answer = [r \in Requests |-> None]
  /\ sent = {} /\ stored = {} /\ turns = {} /\ lost = {}
  /\ pending = << >>
  /\ revision = [c \in Connections |-> 0]
  /\ up = TRUE
  /\ crashes = 0

-----------------------------------------------------------------------------
(* Control of the handler of request r. *)

At(r, where) == up /\ pc[r] = where
Goto(r, where) == pc' = [pc EXCEPT ![r] = where]
\* The handlers of the requests S return; their local variables are no more.
Return(S) ==
  /\ pc' = [r \in Requests |-> IF r \in S THEN "done" ELSE pc[r]]
  /\ index' = [r \in Requests |-> IF r \in S THEN 1 ELSE index[r]]
  /\ plan' = [r \in Requests |-> IF r \in S THEN Unplanned ELSE plan[r]]
  /\ result' = [r \in Requests |-> IF r \in S THEN None ELSE result[r]]
  /\ committed' = [r \in Requests |-> r \notin S /\ committed[r]]
  /\ gone' = [r \in Requests |-> r \notin S /\ gone[r]]
  /\ form' = [r \in Requests |-> IF r \in S THEN None ELSE form[r]]
  /\ progress' = [r \in Requests |-> IF r \in S THEN NoSearch ELSE progress[r]]
Gives(r, what) == answer' = [answer EXCEPT ![r] = what]

-----------------------------------------------------------------------------
(* Faulty variants of definitions below. Nothing uses them: each replaces its *)
(* original to show that a property notices the fault.                       *)

FinalOnlyPlain(r) == form[r] \in {"plain", "stream"} /\ ~(result[r] = "retryable" /\ index[r] < Len(Targets[r]))
SessionEndForgetsErrors(r, benign) ==
  IF benign /\ result[r] \in {"complete", "errored"} THEN "ok" ELSE "interrupted"
RetryingAfterBytes(r) == result[r] = "retryable" /\ index[r] < Len(Targets[r]) /\ ~gone[r]
InputReservationOffByOne ==
  (SearchCalls + 1) * SearchInput + ((SearchCalls * (SearchCalls - 1)) \div 2) * (SearchResult + SearchOutput)
DeferForgets(a, settlement) == UNCHANGED parkVars
MarkForDispatchSkips(r) ==
  At(r, "mark") /\ Goto(r, "send") /\ UNCHANGED <<vars, localVars, worldVars, parkVars, procVars>>

-----------------------------------------------------------------------------
(* What the handler decides from an outcome. *)

\* retry: a transient failure before any byte went out, with a target left and
\* a client that still waits; a session asks only for a target left. A file
\* search is not retried.
Retrying(r) ==
  /\ result[r] = "retryable"
  /\ index[r] < Len(Targets[r])
  /\ ~committed[r]
  /\ gone[r] => Session(r)

\* publishAfterSettlement: the stored result and the request close together,
\* after the attempt is settled.
Publishes(r) == Stores(r) /\ ~gone[r] /\ result[r] \in {"ok", "failed"}

\* FinalRequest of the settlement.
Final(r) == ~Retrying(r) /\ result[r] # "unstored" /\ ~Publishes(r)

StateOf(r) ==
  IF result[r] = "interrupted" \/ (gone[r] /\ ~Session(r)) THEN "interrupted_unknown"
  ELSE IF result[r] \in {"ok", "unstored"} THEN "succeeded" ELSE "failed"

\* The dispatch read lock, held from BeginDispatch until the request is written.
HoldsLock(r) == pc[r] \in {"mark", "send", "setup", "resend"}

IsCurrent(r) == plan[r][Target(r)] = revision[Target(r)]

\* deferSettlement: the map, which holds settlements of any number of other
\* handlers too, is bounded, and what it cannot hold is dropped.
Defer(a, settlement) ==
  \E others \in 0..MaxDeferred :
    IF Cardinality(DOMAIN pending) + others < MaxDeferred
    THEN pending' = [b \in DOMAIN pending \cup {a} |-> IF b = a THEN settlement ELSE pending[b]] /\ UNCHANGED lost
    ELSE lost' = lost \cup {a} /\ UNCHANGED pending

-----------------------------------------------------------------------------
(* The handler of request r. *)

\* forward up to the route plan.
Begin(r, f) ==
  /\ At(r, "idle") /\ f \in Forms[r]
  /\ form' = [form EXCEPT ![r] = f]
  /\ plan' = [plan EXCEPT ![r] = revision]
  /\ Goto(r, "admit")
  /\ UNCHANGED <<vars, index, result, committed, gone, progress, worldVars, parkVars, procVars>>
Start(r) == \E f \in FormsAsked : Begin(r, f)

\* A file search neither streams nor continues a conversation, and its output
\* is bounded.
StartSearch(r) == \E f \in FileSearches : Begin(r, f)

\* responseFileSearchInputReservation: the input of SearchCalls + 1 provider
\* calls, each with what the calls and searches before it added.
InputReservation ==
  (SearchCalls + 1) * SearchInput + ((SearchCalls * (SearchCalls + 1)) \div 2) * (SearchResult + SearchOutput)

\* A session takes its model from the query, or upgrades the client first and
\* takes it from the client's first frame.
StartRealtime(r) == Begin(r, "realtime")
StartLive(r) == Begin(r, "live")
StartGeminiLive(r) == Begin(r, "geminiLive")
Upgraded(r) == form[r] \in {"live", "geminiLive"} \/ pc[r] = "session"

\* Admit, which reads the target's revision in its own transaction.
AdmitTarget(r) ==
  /\ At(r, "admit") /\ ~gone[r] /\ IsCurrent(r)
  /\ Admit(r, Current(r), Key, Target(r), 1, 0, FALSE)
  /\ Goto(r, "lock")
  /\ UNCHANGED <<localVars, worldVars, parkVars, procVars>>

\* A denial, a changed target, a database failure or a body the target cannot
\* express. A request with an earlier attempt is closed, unless that fails too.
AdmitDenied(r) ==
  /\ At(r, "admit")
  /\ IF index[r] > 1 THEN CloseFailedRequest(r) \/ UNCHANGED vars ELSE UNCHANGED vars
  /\ Return({r}) /\ Gives(r, "error")
  /\ UNCHANGED <<sent, stored, turns, parkVars, procVars>>

\* BeginDispatch keeps the lock when the target is still current.
BeginDispatch(r) ==
  /\ At(r, "lock")
  /\ Goto(r, IF IsCurrent(r) /\ ~gone[r] THEN "mark" ELSE "undo")
  /\ UNCHANGED <<vars, localVars, worldVars, parkVars, procVars>>

MarkForDispatch(r) ==
  /\ At(r, "mark") /\ ~gone[r]
  /\ MarkDispatching(Current(r))
  /\ Goto(r, "send")
  /\ UNCHANGED <<localVars, worldVars, parkVars, procVars>>

\* MarkDispatching returns an error: nothing was written, or the context ended
\* while the statement ran and the row changed all the same.
MarkFails(r) ==
  /\ At(r, "mark")
  /\ UNCHANGED vars \/ (gone[r] /\ MarkDispatching(Current(r)))
  /\ Goto(r, "undo")
  /\ UNCHANGED <<localVars, worldVars, parkVars, procVars>>

\* CancelBeforeDispatch, whose error the handler ignores, and a 503.
Undo(r) ==
  /\ At(r, "undo")
  /\ \/ CancelBeforeDispatch(Current(r)) /\ UNCHANGED lost
     \/ UNCHANGED vars /\ lost' = lost \cup {Current(r)}
  /\ Return({r}) /\ Gives(r, "error")
  /\ UNCHANGED <<sent, stored, turns, pending, procVars>>

\* The dispatch returns what the attempt came to: it is settled next.
Ends(r, class) ==
  /\ result' = [result EXCEPT ![r] = class]
  /\ progress' = [progress EXCEPT ![r] = NoSearch]
  /\ Goto(r, "settle")
  /\ UNCHANGED <<vars, form, index, plan, committed, gone, worldVars, parkVars, procVars>>

\* dispatch writes the request and releases the lock (releaseAfterWrite). The
\* answer of a translated stream comes in the dialect of the target, any one.
Awaits(r) ==
  IF Searches(r) THEN {[progress[r] EXCEPT !.used = @ + progress[r].context]}
  ELSE IF form[r] = "translated" THEN {Fresh(dialect) : dialect \in Dialects} ELSE {progress[r]}
Written(r) ==
  /\ ~gone[r]
  /\ \E awaited \in Awaits(r) : progress' = [progress EXCEPT ![r] = awaited]
  /\ sent' = sent \cup {Current(r)}
  /\ Goto(r, "wait")
  /\ UNCHANGED <<vars, form, index, plan, result, committed, gone, answer, stored, turns, parkVars, procVars>>
Send(r) == At(r, "send") /\ ~Session(r) /\ Written(r)

\* dispatch fails before it writes: no connection, or an adapter script error.
SendFails(r) ==
  /\ At(r, "send") /\ ~Session(r)
  /\ \E class \in {"retryable", "refused"} : (Searches(r) => class = "refused") /\ Ends(r, class)

\* A session dials the provider; the lock is held until it has, and until a live
\* session has sent its first frame with the model rewritten.
Dial(r) ==
  /\ At(r, "send") /\ Session(r) /\ ~gone[r]
  /\ sent' = sent \cup {Current(r)}
  /\ Goto(r, IF form[r] = "realtime" THEN "session" ELSE "setup")
  /\ UNCHANGED <<vars, localVars, answer, stored, turns, parkVars, procVars>>
DialFails(r) == At(r, "send") /\ Session(r) /\ Ends(r, "retryable")

FirstFrame(r) ==
  \/ Goto(r, "session") /\ UNCHANGED <<vars, localVars, worldVars, parkVars, procVars>>
  \/ Ends(r, "refused")
StartSession(r) == At(r, "setup") /\ form[r] = "live" /\ FirstFrame(r)
SetupSession(r) == At(r, "setup") /\ form[r] = "geminiLive" /\ FirstFrame(r)

\* The client's own upgrade fails after the provider was dialled.
UpgradeFails(r) == At(r, "session") /\ form[r] = "realtime" /\ result[r] = None /\ Ends(r, "refused")

\* A frame that decides the session is relayed: it completes the session, or it
\* is a provider error, which outweighs that.
Observed(r, class) ==
  /\ At(r, "session") /\ result[r] \notin {class, "errored"}
  /\ result' = [result EXCEPT ![r] = class]
  /\ Gives(r, IF class = "errored" THEN "failed" ELSE "ok")
  /\ UNCHANGED <<vars, pc, form, index, plan, committed, gone, progress, sent, stored, turns, parkVars, procVars>>
\* response.done or session.closed, and error.
ObserveFrame(r) == form[r] # "geminiLive" /\ \E class \in {"complete", "errored"} : Observed(r, class)
\* setupComplete, and error.
ObserveGeminiFrame(r) == form[r] = "geminiLive" /\ \E class \in {"complete", "errored"} : Observed(r, class)

\* What the session comes to when both relays have ended; benign: neither of
\* them with more than a closed connection.
SessionEnd(r, benign) ==
  IF result[r] = "errored" THEN "failed"
  ELSE IF result[r] = "complete" /\ benign THEN "ok" ELSE "interrupted"

\* One relay ends (either side closes, or the session limit), both connections
\* are closed, and the other relay ends too.
RelayEnds(r) == At(r, "session") /\ \E benign \in BOOLEAN : Ends(r, SessionEnd(r, benign))
ServeRealtime(r) == form[r] = "realtime" /\ RelayEnds(r)
RelayLiveSession(r) == form[r] = "live" /\ RelayEnds(r)
RelayGeminiLiveSession(r) == form[r] = "geminiLive" /\ RelayEnds(r)

\* attemptWriter.Flush commits the header of a successful stream.
StreamBytes(r) ==
  /\ At(r, "wait") /\ form[r] = "stream" /\ ~committed[r]
  /\ committed' = [committed EXCEPT ![r] = TRUE]
  /\ UNCHANGED <<vars, pc, form, index, plan, result, gone, progress, worldVars, parkVars, procVars>>

\* TranslateStream reads a payload, and writes what it says to the client.
TranslatePayload(r) ==
  /\ At(r, "wait") /\ form[r] = "translated" /\ progress[r].payloads < MaxPayloads
  /\ \E delta \in Payloads(progress[r].dialect) :
       /\ progress' = [progress EXCEPT ![r] = Consume(@, delta)]
       /\ committed' = [committed EXCEPT ![r] = @ \/ Writes(Client, delta)]
  /\ UNCHANGED <<vars, pc, form, index, plan, result, gone, worldVars, parkVars, procVars>>

\* The provider's stream is cut off, holds what cannot be translated, or ends; an
\* error status comes before any of it.
TranslateStream(r) ==
  /\ At(r, "wait") /\ form[r] = "translated"
  /\ \E class \in {"retryable", "refused", Finished(progress[r])} : Ends(r, class)

\* What a dispatch comes to: a complete answer, a complete answer that reports a
\* failed generation (retained forms only), a failure that another target may
\* mend, or one for which the operation or the status rules a retry out.
Classes(r) ==
  {"ok", "retryable", "refused"} \cup (IF form[r] \in {"stored", "attached"} THEN {"failed"} ELSE {})

Outcome(r, class) ==
  /\ At(r, "wait") /\ ~Searches(r) /\ form[r] # "translated" /\ class \in Classes(r)
  /\ result' = [result EXCEPT ![r] = class]
  /\ Goto(r, IF form[r] = "attached" /\ class = "ok" THEN "turn" ELSE "settle")
  /\ UNCHANGED <<vars, form, index, plan, committed, gone, progress, worldVars, parkVars, procVars>>

\* dispatchResponseFileSearch: a provider answer may ask for n searches after t
\* tokens of output. The limit on the calls and the output that is left decide
\* whether they are made.
MaySearch(r, n, t) ==
  /\ t <= progress[r].left
  /\ progress[r].calls + n <= SearchCalls
  /\ progress[r].left - t >= 1

\* appendResponseFileSearchInput: the answer and the results (as large as they
\* may be) join the input, the rest of the output budget is the next limit.
Continued(s, n, t) ==
  [s EXCEPT !.calls = @ + n, !.left = @ - t, !.context = @ + t + n * SearchResult]

\* What an answer may hold: calls of the search function, each with valid
\* queries, and a usage that can be added to that of the rounds before.
CallsAsked == 1..SearchCalls
OutputReported == 0..SearchOutput

SearchRound(r) ==
  /\ At(r, "wait") /\ Searches(r) /\ ~gone[r]
  /\ \E n \in CallsAsked, t \in OutputReported :
       MaySearch(r, n, t) /\ progress' = [progress EXCEPT ![r] = Continued(@, n, t)]
  /\ Goto(r, "again")
  /\ UNCHANGED <<vars, form, index, plan, result, committed, gone, worldVars, parkVars, procVars>>

\* No search is asked for, or a function of the client's too: the answer of all
\* rounds is written.
SearchAnswers(r) == At(r, "wait") /\ Searches(r) /\ Ends(r, "ok")

\* The provider call, its answer, a limit or a search fails: what the rounds
\* reported is accounted, and there is no retry.
SearchFails(r) == At(r, "wait") /\ Searches(r) /\ Ends(r, "refused")

\* BeginDispatch before each further call: the configuration the attempt was
\* admitted with must still be the current one.
BeginAgain(r) ==
  /\ At(r, "again")
  /\ IF IsCurrent(r) /\ ~gone[r]
     THEN Goto(r, "resend") /\ UNCHANGED <<vars, localVars, worldVars, parkVars, procVars>>
     ELSE Ends(r, "refused")
SendAgain(r) == At(r, "resend") /\ (Written(r) \/ Ends(r, "refused"))

\* storeConversationTurn, before the settlement.
StoreTurn(r) ==
  /\ At(r, "turn")
  /\ \/ turns' = turns \cup {r} /\ UNCHANGED result
     \/ result' = [result EXCEPT ![r] = "unstored"] /\ UNCHANGED turns
  /\ Goto(r, "settle")
  /\ UNCHANGED <<vars, form, index, plan, committed, gone, progress, answer, sent, stored, parkVars, procVars>>

\* Where forward goes with a settled attempt.
AfterSettle(r) ==
  IF Publishes(r) THEN "publish"
  ELSE IF result[r] = "unstored" THEN "finalize"
  ELSE IF Retrying(r) THEN "retry" ELSE "reply"

SettleAttempt(r) ==
  /\ At(r, "settle")
  /\ Settle(Current(r), StateOf(r), "unknown", Unknown, Unknown, Final(r))
  /\ Goto(r, AfterSettle(r))
  /\ UNCHANGED <<localVars, worldVars, parkVars, procVars>>

\* Five transient failures: the settlement is parked, and forward goes on as if
\* it had happened, unless it was to publish a result.
SettleDeferred(r) ==
  /\ At(r, "settle")
  /\ Defer(Current(r), [state |-> StateOf(r), final |-> Final(r)])
  /\ IF Publishes(r)
     THEN result' = [result EXCEPT ![r] = "unsettled"] /\ Goto(r, "reply")
     ELSE Goto(r, AfterSettle(r)) /\ UNCHANGED result
  /\ UNCHANGED <<vars, form, index, plan, committed, gone, progress, worldVars, procVars>>

\* storeResponse or storeChatCompletion: the row and FinalizeRequestTx commit
\* together, or neither does.
Publish(r) ==
  /\ At(r, "publish")
  /\ \/ /\ FinalizeRequest(r, IF result[r] = "ok" THEN "succeeded" ELSE "failed")
        /\ stored' = stored \cup {r}
        /\ Goto(r, "reply") /\ UNCHANGED result
     \/ /\ result' = [result EXCEPT ![r] = "unstored"]
        /\ Goto(r, "finalize") /\ UNCHANGED <<vars, stored>>
  /\ UNCHANGED <<form, index, plan, committed, gone, progress, answer, sent, turns, parkVars, procVars>>

\* FinalizeFailedRequest after a result could not be stored; it may fail too.
FinalizeFailed(r) ==
  /\ At(r, "finalize")
  /\ FinalizeRequest(r, "failed") \/ UNCHANGED vars
  /\ Goto(r, "reply")
  /\ UNCHANGED <<localVars, worldVars, parkVars, procVars>>

\* waitRetry: the next target, or the end when the client left meanwhile; a
\* session goes on to the next target at once.
Retry(r) ==
  /\ At(r, "retry")
  /\ \/ /\ gone[r] /\ ~Session(r)
        /\ CloseFailedRequest(r) \/ UNCHANGED vars
        /\ Return({r})
     \/ /\ index' = [index EXCEPT ![r] = @ + 1]
        /\ result' = [result EXCEPT ![r] = None]
        /\ Goto(r, "admit") /\ UNCHANGED <<vars, form, plan, committed, gone, progress>>
  /\ UNCHANGED <<worldVars, parkVars, procVars>>

\* attemptWriter.Commit, or the error written in place of a buffered answer; the
\* client of a session has had its frames.
Reply(r) ==
  /\ At(r, "reply")
  /\ Gives(r, IF answer[r] # None THEN answer[r]
              ELSE IF result[r] \in {"ok", "failed"} THEN result[r]
              ELSE IF committed[r] \/ result[r] = "interrupted" THEN "partial" ELSE "error")
  /\ Return({r})
  /\ UNCHANGED <<vars, sent, stored, turns, parkVars, procVars>>

Handler(r) ==
  \/ Start(r) \/ StartSearch(r) \/ StartRealtime(r) \/ StartLive(r) \/ StartGeminiLive(r)
  \/ AdmitTarget(r) \/ AdmitDenied(r) \/ BeginDispatch(r)
  \/ MarkForDispatch(r) \/ MarkFails(r) \/ Undo(r) \/ Send(r) \/ SendFails(r)
  \/ TranslatePayload(r) \/ TranslateStream(r)
  \/ StreamBytes(r) \/ \E class \in {"ok", "failed", "retryable", "refused"} : Outcome(r, class)
  \/ SearchRound(r) \/ SearchAnswers(r) \/ SearchFails(r) \/ BeginAgain(r) \/ SendAgain(r)
  \/ Dial(r) \/ DialFails(r) \/ StartSession(r) \/ SetupSession(r) \/ UpgradeFails(r)
  \/ ObserveFrame(r) \/ ObserveGeminiFrame(r)
  \/ ServeRealtime(r) \/ RelayLiveSession(r) \/ RelayGeminiLiveSession(r)
  \/ StoreTurn(r) \/ SettleAttempt(r) \/ SettleDeferred(r)
  \/ Publish(r) \/ FinalizeFailed(r) \/ Retry(r) \/ Reply(r)

-----------------------------------------------------------------------------
(* Everyone else. *)

\* retryDeferredSettlements, for one parked settlement that goes through. No
\* other writer closes an attempt before a restart, so ErrConflict cannot occur.
RetryDeferred(a) ==
  /\ up /\ a \in DOMAIN pending
  /\ Settle(a, pending[a].state, "unknown", Unknown, Unknown, pending[a].final)
  /\ pending' = [b \in DOMAIN pending \ {a} |-> pending[b]]
  /\ UNCHANGED <<pc, localVars, worldVars, lost, procVars>>

\* The minute ticker's repair. Age is abstracted: a request may be repaired as
\* soon as it has no open attempt, also under a handler that is still at work.
RepairRequest ==
  /\ up
  /\ \E S \in SUBSET Requests : RepairStaleRequests(S)
  /\ UNCHANGED <<pc, localVars, worldVars, parkVars, procVars>>

\* A connection that was upgraded (hijacked) does not end its request's context any more.
ClientGone(r) ==
  /\ At(r, pc[r]) /\ pc[r] \notin {"idle", "done"} /\ ~Upgraded(r) /\ ~gone[r]
  /\ gone' = [gone EXCEPT ![r] = TRUE]
  /\ UNCHANGED <<vars, pc, form, index, plan, result, committed, progress, worldVars, parkVars, procVars>>

\* Writers of a connection or a model take the dispatch lock exclusively.
ChangeConfig(c) ==
  /\ up /\ revision[c] < MaxRevision
  /\ ~\E r \in Requests : HoldsLock(r)
  /\ revision' = [revision EXCEPT ![c] = @ + 1]
  /\ UNCHANGED <<vars, pc, localVars, worldVars, parkVars, up, crashes>>

\* The process ends: handlers and parked settlements are gone.
Crash ==
  /\ up /\ crashes < MaxCrashes
  /\ up' = FALSE /\ crashes' = crashes + 1
  /\ Return({r \in Requests : pc[r] # "idle"})
  /\ pending' = << >>
  /\ UNCHANGED <<vars, worldVars, lost, revision>>

\* Start-up runs Recover before the gateway serves.
Restart ==
  /\ ~up /\ up' = TRUE
  /\ Recover(0)
  /\ lost' = {}
  /\ UNCHANGED <<pc, localVars, worldVars, pending, revision, crashes>>

\* Every request has been handled and nothing is left to close.
Quiet ==
  /\ up /\ \A r \in Requests : pc[r] = "done"
  /\ UNCHANGED allVars

ForwardNext ==
  \/ \E r \in Requests : Handler(r) \/ ClientGone(r)
  \/ \E a \in Attempts : RetryDeferred(a)
  \/ RepairRequest
  \/ \E c \in Connections : ChangeConfig(c)
  \/ Crash \/ Restart \/ Quiet

\* Handlers run to their end within the overall timeout or session limit, the worker's tickers
\* keep firing, transient database failures pass, and a stopped process is
\* started again. Clients, writers and crashes are not obliged to act.
ForwardFairness ==
  /\ \A r \in Requests : WF_allVars(Handler(r))
  /\ \A a \in Attempts : WF_allVars(RetryDeferred(a))
  /\ WF_allVars(RepairRequest)
  /\ WF_allVars(Restart)

ForwardSpec == ForwardInit /\ [][ForwardNext]_allVars /\ ForwardFairness

-----------------------------------------------------------------------------
(* Properties. *)

\* The client and the record agree, through deferred settlements, failed
\* publication, repair and restart: a request answered in full is not recorded
\* as failed, one answered with an error, a reported failure or a cut answer is
\* not recorded as succeeded, nor is a session that saw a provider error, and a
\* client that waited for a stored result finds it stored (forward.go,
\* publishAfterSettlement; realtime.go, serveRealtime).
AnswerAgreesWithRecord ==
  \A r \in Requests :
    /\ answer[r] = "ok" /\ Terminal(r) => rState[r] \in {"succeeded", "interrupted_unknown"}
    /\ answer[r] \in {"failed", "error", "partial"} => rState[r] # "succeeded"
    /\ pc[r] = "reply" /\ result[r] = "ok" /\ Stores(r) => r \in stored \/ gone[r]

\* What reached the provider is never treated as undispatched, so its
\* reservation is not handed back: not by the undo of a failed dispatch mark
\* and not by recovery (MarkDispatching before the request is written).
SentIsNeverReleased ==
  \A a \in sent : aState[a] \notin {"reserved", "cancelled_before_dispatch"}

\* Once a byte of an answer is out, no further attempt of the request is made
\* (the Committed test in retry), so answers are never spliced.
NoAttemptAfterBytes ==
  [][\A r \in Requests : committed[r] => \A a \in Attempts : aReq'[a] = r => aReq[a] = r]_allVars

\* A stored conversation turn belongs to a request that is not recorded as
\* failed, whatever happens between storing the turn and settling the attempt.
TurnsAreNotFailed ==
  \A r \in turns : Terminal(r) => rState[r] \in {"succeeded", "interrupted_unknown"}

\* However a provider spreads its searches over its answers, the input of all
\* calls of a file search stays within what was reserved once, at admission
\* (responseFileSearchInputReservation against the loop of
\* dispatchResponseFileSearch).
SearchWithinReservation == 
  \A r \in Requests : Searches(r) => progress[r].used <= InputReservation

\* A translated stream counts as an answer only when the provider's own came to
\* its end, and then it holds the provider's text and calls, each once and in the
\* order in which they began (stream.go, TranslateStream; the client is given
\* the terminal event with the last of them).
TranslatedIsFaithful ==
  [][\A r \in Requests :
       form[r] = "translated" /\ pc[r] = "wait" /\ result'[r] = "ok" =>
         /\ progress[r].completed /\ progress[r].terminalUsage
         /\ progress[r].items = progress[r].sent]_allVars

\* A request that was admitted is closed in the end, by its handler, a deferred
\* settlement, the repair or a restart. The exception is an attempt whose
\* closing write was dropped: a settlement beyond maxDeferredSettlements or a
\* failed CancelBeforeDispatch waits for the next start.
RequestsClose ==
  \A r \in Requests :
    rState[r] \in {"reserved", "in_progress"} ~>
      (Terminal(r) \/ \E a \in lost : aReq[a] = r)
=============================================================================
