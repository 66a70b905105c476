---------------------------- MODULE ForwardProofs ----------------------------
(***************************************************************************)
(* Proofs about Forward for every number of requests and attempts, every   *)
(* route, every limit of parked settlements, configuration writes and      *)
(* restarts.                                                               *)
(*                                                                         *)
(* ForwardInv is inductive. HoldsOK says what a handler between admission  *)
(* and settlement relies on: its attempt is open, its own, and not parked, *)
(* so that neither the worker nor the repair closes it underneath.         *)
(* RecordOK ties what the client was or will be given to what the record   *)
(* can still become, through parked settlements and restarts.              *)
(***************************************************************************)
EXTENDS Forward, TLAPS

Early == {"lock", "mark", "undo"}
Late == {"send", "setup", "session", "wait", "again", "resend", "turn", "settle"}
Outside == {"idle", "admit", "publish", "finalize", "retry", "reply", "done"}
FormNames == FormsAsked \cup FileSearches \cup Sessions
Ended == {"ok", "failed", "retryable", "refused", "interrupted", "unstored"}
Results == Ended \cup {None, "complete", "errored", "unsettled"}
Answers == {None, "ok", "failed", "error", "partial"}
Favourable == {"succeeded", "interrupted_unknown"}

ForwardTypeOK ==
  /\ aState \in [Attempts -> AttemptStates]
  /\ aReq \in [Attempts -> Requests \cup {Unknown}]
  /\ rState \in [Requests -> RequestStates]
  /\ pc \in [Requests -> Early \cup Late \cup Outside]
  /\ form \in [Requests -> FormNames \cup {None}]
  /\ index \in [Requests -> Nat]
  /\ result \in [Requests -> Results]
  /\ committed \in [Requests -> BOOLEAN]
  /\ gone \in [Requests -> BOOLEAN]
  /\ answer \in [Requests -> Answers]
  /\ turns \subseteq Requests /\ up \in BOOLEAN

\* Every index is one of the request's route.
IndexOK == \A r \in Requests : index[r] \in 1..Len(Targets[r])

\* A request has one open attempt at most, and is reserved while it has.
OpenOK ==
  /\ \A a \in Active : aReq[a] \in Requests /\ rState[aReq[a]] = "reserved" /\ aState[a] # "streaming"
  /\ \A a, b \in Active : aReq[a] = aReq[b] => a = b

\* What is parked is dispatched and open.
ParkedOK ==
  \A a \in DOMAIN pending :
    /\ a \in Attempts /\ aState[a] = "dispatching"
    /\ pending[a].final \in BOOLEAN /\ pending[a].state \in SettledStates

SentOK == \A a \in sent : a \in Attempts /\ aState[a] \in {"dispatching"} \cup SettledStates

StoppedOK == ~up => DOMAIN pending = {} /\ \A r \in Requests : pc[r] \in {"idle", "done"}

\* The record is not a success and cannot become one without the handler.
NotSuccess(r) ==
  /\ rState[r] # "succeeded"
  /\ \A a \in DOMAIN pending : aReq[a] = r /\ pending[a].final => pending[a].state # "succeeded"

\* The record is not a failure and cannot become one, whoever closes it.
NotFailure(r) ==
  /\ rState[r] \in {"reserved"} \cup Favourable
  /\ \A a \in DOMAIN pending : aReq[a] = r => pending[a].final /\ pending[a].state \in Favourable
  /\ \A a \in Attempts : aReq[a] = r => aState[a] # "reserved"

HoldsOK(r) ==
  /\ pc[r] \in Early \cup Late =>
       /\ aReq[Current(r)] = r /\ Current(r) \notin DOMAIN pending
       /\ aState[Current(r)] \in {"reserved", "dispatching"}
  /\ pc[r] \in {"lock", "mark"} => aState[Current(r)] = "reserved"
  /\ pc[r] \in Late => aState[Current(r)] = "dispatching"

ResultOK(r) ==
  /\ pc[r] \in Early \cup {"idle", "admit", "send", "setup", "wait", "again", "resend"} => result[r] = None
  /\ pc[r] = "session" => Session(r) /\ result[r] \in {None, "complete", "errored"}
  /\ pc[r] = "turn" => result[r] = "ok" /\ form[r] = "attached"
  /\ pc[r] = "settle" => result[r] \in Ended /\ (result[r] = "unstored" => form[r] = "attached")
  /\ pc[r] = "publish" => result[r] \in {"ok", "failed"} /\ Stores(r)
  /\ pc[r] = "finalize" => result[r] = "unstored"
  /\ pc[r] = "retry" => index[r] < Len(Targets[r])
  /\ pc[r] = "reply" /\ result[r] = "ok" /\ Stores(r) => r \in stored \/ gone[r]
  /\ committed[r] => pc[r] \in {"wait", "settle", "reply"} /\ form[r] \in {"stream", "translated"}

AnswerOK(r) ==
  /\ answer[r] # None =>
       \/ pc[r] = "done"
       \/ Session(r) /\ pc[r] \in {"session", "settle", "reply"} /\ answer[r] \in {"ok", "failed"}
  /\ pc[r] = "session" =>
       (answer[r] = "ok" <=> result[r] = "complete") /\ (answer[r] = "failed" <=> result[r] = "errored")
  /\ pc[r] \in {"settle", "reply"} /\ answer[r] = "ok" => result[r] \in {"ok", "interrupted"}
  /\ pc[r] \in {"settle", "reply"} /\ answer[r] = "failed" => result[r] = "failed"
  /\ r \in turns =>
       \/ pc[r] = "done"
       \/ pc[r] \in {"settle", "reply"} /\ result[r] = "ok" /\ form[r] = "attached"

OwesSuccess(r) == answer[r] = "ok" \/ r \in turns \/ (pc[r] = "reply" /\ result[r] \in {"ok", "interrupted"})
OwesNone(r) ==
  \/ pc[r] \notin {"reply", "done"}
  \/ pc[r] = "reply" /\ result[r] # "ok"
  \/ answer[r] \in {"failed", "error", "partial"}
RecordOK(r) == (OwesNone(r) => NotSuccess(r)) /\ (OwesSuccess(r) => NotFailure(r))

RequestOK(r) == HoldsOK(r) /\ ResultOK(r) /\ AnswerOK(r) /\ RecordOK(r)
DatabaseOK == OpenOK /\ ParkedOK /\ SentOK
ForwardInv == ForwardTypeOK /\ IndexOK /\ DatabaseOK /\ StoppedOK /\ \A r \in Requests : RequestOK(r)

-----------------------------------------------------------------------------
(* Frames. *)

\* The handler of s did not move.
SameHandler(s) ==
  /\ pc'[s] = pc[s] /\ form'[s] = form[s] /\ index'[s] = index[s] /\ result'[s] = result[s]
  /\ committed'[s] = committed[s] /\ gone'[s] = gone[s] /\ answer'[s] = answer[s]
  /\ (s \in turns' <=> s \in turns) /\ (s \in stored' <=> s \in stored)

\* The rows of request s and what is parked for it did not change.
SameRecord(s) ==
  /\ rState'[s] = rState[s]
  /\ \A a \in Attempts : (aReq[a] = s /\ aState[a] # "absent") \/ aReq'[a] = s =>
       /\ aReq'[a] = aReq[a] /\ aState'[a] = aState[a]
       /\ a \in DOMAIN pending' <=> a \in DOMAIN pending
       /\ a \in DOMAIN pending => pending'[a] = pending[a]

OthersSame(r) == \A s \in Requests \ {r} : SameHandler(s) /\ SameRecord(s)

LEMMA CurrentFact ==
  ASSUME IndexOK, NEW r \in Requests
  PROVE  Current(r) \in Attempts
<1>1. AttemptOf[r] \in Seq(Attempts) /\ index[r] \in 1..Len(AttemptOf[r])
  BY RouteAssumption DEF IndexOK
<1> QED BY <1>1 DEF Current

\* A request none of whose variables and rows change keeps its part.
LEMMA Frame ==
  ASSUME IndexOK, ParkedOK, ParkedOK', NEW s \in Requests, RequestOK(s), SameHandler(s), SameRecord(s)
  PROVE  RequestOK(s)'
<1>1. Current(s) \in Attempts /\ Current(s)' = Current(s)
  BY CurrentFact DEF SameHandler, Current
<1>2. HoldsOK(s)'
  <2> DEFINE a == Current(s)
  <2>1. aReq[a] = s /\ aState[a] # "absent" =>
                       /\ aReq'[a] = s /\ aState'[a] = aState[a]
                       /\ a \in DOMAIN pending' <=> a \in DOMAIN pending
    BY <1>1 DEF SameRecord
  <2>2. pc'[s] = pc[s]
    BY DEF SameHandler
  <2>3. Current(s)' = a
    BY <1>1
  <2> HIDE DEF a
  <2> QED BY <2>1, <2>2, <2>3, <1>1 DEF RequestOK, HoldsOK, Early, Late, a
<1>3. ResultOK(s)'
  BY DEF RequestOK, ResultOK, SameHandler, Stores, Session
<1>4. AnswerOK(s)'
  BY DEF RequestOK, AnswerOK, SameHandler, Session
<1>5. (NotSuccess(s) => NotSuccess(s)') /\ (NotFailure(s) => NotFailure(s)')
  BY DEF NotSuccess, NotFailure, SameRecord, ParkedOK
<1>6. RecordOK(s)'
  BY <1>5 DEF RequestOK, RecordOK, SameHandler, OwesSuccess, OwesNone
<1> QED BY <1>2, <1>3, <1>4, <1>6 DEF RequestOK

\* A step of one handler.
LEMMA OneStep ==
  ASSUME ForwardInv, NEW r \in Requests, OthersSame(r), up',
         ForwardTypeOK', IndexOK', DatabaseOK', RequestOK(r)'
  PROVE  ForwardInv'
<1>1. \A s \in Requests \ {r} : RequestOK(s)'
  BY Frame DEF ForwardInv, DatabaseOK, OthersSame
<1>2. \A s \in Requests : RequestOK(s)'
  BY <1>1
<1> QED BY <1>2 DEF ForwardInv, StoppedOK

\* A step that leaves the database and the parked settlements alone.
SameDatabase == UNCHANGED <<aState, rState, aReq, pending>>
LEMMA LocalStep ==
  ASSUME ForwardInv, NEW r \in Requests, up', SameDatabase,
         \A s \in Requests \ {r} : SameHandler(s),
         \A a \in sent' : a \in sent \/ (a \in Attempts /\ aState[a] = "dispatching"),
         ForwardTypeOK', IndexOK', RequestOK(r)'
  PROVE  ForwardInv'
<1>1. OthersSame(r)
  BY DEF OthersSame, SameRecord, SameDatabase
<1>2. Active' = Active
  BY DEF Active, SameDatabase
<1>3. DatabaseOK'
  BY <1>2 DEF ForwardInv, DatabaseOK, OpenOK, ParkedOK, SentOK, SameDatabase
<1> QED BY <1>1, <1>3, OneStep
-----------------------------------------------------------------------------
(* Steps of a handler that leave the database alone. *)

\* What such a step may change: where the handler is, what it knows, and what
\* the client has.
LocalChange(r) ==
  /\ up /\ up' = up /\ SameDatabase /\ index' = index
  /\ \E where \in Early \cup Late \cup Outside : pc' = [pc EXCEPT ![r] = where]
  /\ \E f \in FormNames : form' = [form EXCEPT ![r] = f] \/ form' = form
  /\ \E class \in Results : result' = [result EXCEPT ![r] = class] \/ result' = result
  /\ \E b \in BOOLEAN : committed' = [committed EXCEPT ![r] = b] \/ committed' = committed
  /\ \E b \in BOOLEAN : gone' = [gone EXCEPT ![r] = b] \/ gone' = gone
  /\ \E what \in Answers : answer' = [answer EXCEPT ![r] = what] \/ answer' = answer
  /\ turns' \in {turns, turns \cup {r}} /\ stored' = stored
  /\ \A a \in sent' : a \in sent \/ (a \in Attempts /\ aState[a] = "dispatching")

LEMMA LocalMove ==
  ASSUME ForwardInv, NEW r \in Requests, LocalChange(r), RequestOK(r)'
  PROVE  ForwardInv'
<1> USE DEF LocalChange, ForwardInv, ForwardTypeOK
<1>1. PICK where \in Early \cup Late \cup Outside : pc' = [pc EXCEPT ![r] = where]
  OBVIOUS
<1>2. pc' \in [Requests -> Early \cup Late \cup Outside] /\ \A s \in Requests \ {r} : pc'[s] = pc[s]
  BY <1>1
<1>3. form' \in [Requests -> FormNames \cup {None}] /\ \A s \in Requests \ {r} : form'[s] = form[s]
  <2>1. PICK f \in FormNames : form' = [form EXCEPT ![r] = f] \/ form' = form
    OBVIOUS
  <2> QED BY <2>1
<1>4. result' \in [Requests -> Results] /\ \A s \in Requests \ {r} : result'[s] = result[s]
  <2>1. PICK f \in Results : result' = [result EXCEPT ![r] = f] \/ result' = result
    OBVIOUS
  <2> QED BY <2>1
<1>5. committed' \in [Requests -> BOOLEAN] /\ \A s \in Requests \ {r} : committed'[s] = committed[s]
  <2>1. PICK f \in BOOLEAN : committed' = [committed EXCEPT ![r] = f] \/ committed' = committed
    OBVIOUS
  <2> QED BY <2>1
<1>6. gone' \in [Requests -> BOOLEAN] /\ \A s \in Requests \ {r} : gone'[s] = gone[s]
  <2>1. PICK f \in BOOLEAN : gone' = [gone EXCEPT ![r] = f] \/ gone' = gone
    OBVIOUS
  <2> QED BY <2>1
<1>7. answer' \in [Requests -> Answers] /\ \A s \in Requests \ {r} : answer'[s] = answer[s]
  <2>1. PICK f \in Answers : answer' = [answer EXCEPT ![r] = f] \/ answer' = answer
    OBVIOUS
  <2> QED BY <2>1
<1>8. ForwardTypeOK' /\ IndexOK' /\ up'
  BY <1>2, <1>3, <1>4, <1>5, <1>6, <1>7 DEF SameDatabase, IndexOK
<1>9. \A s \in Requests \ {r} : SameHandler(s)
  BY <1>2, <1>3, <1>4, <1>5, <1>6, <1>7 DEF SameHandler
<1> HIDE DEF ForwardInv, ForwardTypeOK, LocalChange
<1> QED BY <1>8, <1>9, LocalStep DEF LocalChange

LEMMA PlacesFact == None \in Results /\ None \in Answers /\ Early \cup Late \cup Outside =
    {"lock", "mark", "undo", "send", "setup", "session", "wait", "again", "resend", "turn", "settle",
     "idle", "admit", "publish", "finalize", "retry", "reply", "done"}
  BY DEF Results, Answers, Early, Late, Outside

\* Facts about the database carry over a step that leaves it alone.
LEMMA RecordKept ==
  ASSUME SameDatabase, NEW r \in Requests, index'[r] = index[r]
  PROVE  /\ NotSuccess(r) => NotSuccess(r)'
         /\ NotFailure(r) => NotFailure(r)'
         /\ Current(r)' = Current(r)
  BY DEF SameDatabase, NotSuccess, NotFailure, Current

\* An open dispatched attempt of a handler that has not settled it.
LEMMA HeldIsNotFailure ==
  ASSUME ForwardInv, NEW r \in Requests, pc[r] \in Late
  PROVE  NotFailure(r)
<1>1. Current(r) \in Attempts /\ aReq[Current(r)] = r /\ aState[Current(r)] = "dispatching"
      /\ Current(r) \notin DOMAIN pending
  BY CurrentFact DEF ForwardInv, RequestOK, HoldsOK
<1>2. Current(r) \in Active
  BY <1>1 DEF Active, ActiveStates
<1>3. rState[r] = "reserved"
  BY <1>1, <1>2 DEF ForwardInv, DatabaseOK, OpenOK
<1>4. \A a \in Active : aReq[a] = r => a = Current(r)
  BY <1>1, <1>2 DEF ForwardInv, DatabaseOK, OpenOK
<1>5. \A a \in DOMAIN pending : a \in Active
  BY DEF ForwardInv, DatabaseOK, ParkedOK, Active, ActiveStates
<1>6. \A a \in Attempts : aState[a] = "reserved" => a \in Active
  BY DEF Active, ActiveStates
<1> QED BY <1>1, <1>3, <1>4, <1>5, <1>6 DEF NotFailure

\* Places at which the handler has no result and the client no answer.
Open == Early \cup {"idle", "admit", "send", "setup", "wait", "again", "resend"}
LEMMA OpenFacts ==
  ASSUME NEW r, RequestOK(r), pc[r] \in Open
  PROVE  /\ result[r] = None /\ answer[r] = None /\ r \notin turns /\ NotSuccess(r)
         /\ committed[r] => pc[r] = "wait" /\ form[r] \in {"stream", "translated"}
<1>1. result[r] = None /\ (committed[r] => pc[r] = "wait" /\ form[r] \in {"stream", "translated"})
  BY DEF RequestOK, ResultOK, Open, Early
<1>2. answer[r] = None /\ r \notin turns
  BY DEF RequestOK, AnswerOK, Open, Early
<1>3. NotSuccess(r)
  BY DEF RequestOK, RecordOK, OwesNone, Open, Early
<1> QED BY <1>1, <1>2, <1>3

LEMMA OpenNext ==
  ASSUME NEW r, HoldsOK(r)', pc'[r] \in Open, result'[r] = None, answer'[r] = None, r \notin turns',
         NotSuccess(r)', committed'[r] => pc'[r] = "wait" /\ form'[r] \in {"stream", "translated"}
  PROVE  RequestOK(r)'
<1>1. ResultOK(r)'
  BY DEF ResultOK, Open, Early, None
<1>2. AnswerOK(r)'
  BY DEF AnswerOK, Open, Early, None
<1>3. RecordOK(r)'
  BY DEF RecordOK, OwesNone, OwesSuccess, Open, Early, None
<1> QED BY <1>1, <1>2, <1>3 DEF RequestOK

LEMMA BeginStep ==
  ASSUME ForwardInv, NEW r \in Requests, NEW f \in FormNames, Begin(r, f)
  PROVE  ForwardInv'
<1>1. /\ up /\ pc[r] = "idle" /\ form' = [form EXCEPT ![r] = f] /\ pc' = [pc EXCEPT ![r] = "admit"]
      /\ UNCHANGED <<vars, index, result, committed, gone, worldVars, parkVars, up>>
  BY DEF Begin, At, Goto, procVars
<1>2. LocalChange(r)
  BY <1>1, PlacesFact DEF LocalChange, SameDatabase, vars, lifeVars, worldVars, parkVars
<1>3. pc'[r] = "admit" /\ index'[r] = index[r] /\ result'[r] = result[r] /\ committed'[r] = committed[r]
      /\ answer'[r] = answer[r] /\ turns' = turns
  BY <1>1 DEF ForwardInv, ForwardTypeOK, worldVars
<1>4. RequestOK(r) /\ pc[r] \in Open /\ pc'[r] \in Open
  BY <1>1, <1>3 DEF ForwardInv, Open
<1>5. NotSuccess(r)'
  BY <1>2, <1>3, <1>4, OpenFacts, RecordKept DEF LocalChange
<1>6. HoldsOK(r)'
  BY <1>3 DEF HoldsOK, Early, Late
<1>7. RequestOK(r)'
  BY <1>1, <1>3, <1>4, <1>5, <1>6, OpenFacts, OpenNext
<1> QED BY <1>2, <1>7, LocalMove
\* A handler that holds a dispatched attempt goes on holding it.
LEMMA LateHolds ==
  ASSUME ForwardInv, NEW r \in Requests, pc[r] \in Late, LocalChange(r), pc'[r] \notin {"lock", "mark"}
  PROVE  HoldsOK(r)'
<1>1. aReq[Current(r)] = r /\ Current(r) \notin DOMAIN pending /\ aState[Current(r)] = "dispatching"
  BY DEF ForwardInv, RequestOK, HoldsOK
<1>2. Current(r)' = Current(r)
  BY RecordKept DEF LocalChange
<1> QED BY <1>1, <1>2 DEF HoldsOK, LocalChange, SameDatabase

LEMMA OpenMove ==
  ASSUME ForwardInv, NEW r \in Requests, LocalChange(r), pc[r] \in Open, pc'[r] \in Open,
         UNCHANGED <<result, answer, turns>>, HoldsOK(r)',
         committed'[r] => pc'[r] = "wait" /\ form'[r] \in {"stream", "translated"}
  PROVE  ForwardInv'
<1>1. RequestOK(r)
  BY DEF ForwardInv
<1>2. result'[r] = None /\ answer'[r] = None /\ r \notin turns' /\ NotSuccess(r)
  BY <1>1, OpenFacts
<1>3. NotSuccess(r)'
  BY <1>2, RecordKept DEF LocalChange
<1>4. RequestOK(r)'
  BY <1>2, <1>3, OpenNext
<1> QED BY <1>4, LocalMove

LEMMA BeginDispatchStep ==
  ASSUME ForwardInv, NEW r \in Requests, BeginDispatch(r)
  PROVE  ForwardInv'
<1>1. PICK where \in {"mark", "undo"} : pc' = [pc EXCEPT ![r] = where]
  BY DEF BeginDispatch, Goto
<1>2. up /\ pc[r] = "lock" /\ UNCHANGED <<vars, localVars, worldVars, parkVars, procVars>>
  BY DEF BeginDispatch, At
<1>3. LocalChange(r)
  BY <1>1, <1>2, PlacesFact
  DEF LocalChange, SameDatabase, vars, lifeVars, localVars, worldVars, parkVars, procVars, FormNames, FormsAsked
<1>4. pc'[r] = where /\ UNCHANGED <<result, answer, turns, committed, form>>
  BY <1>1, <1>2 DEF ForwardInv, ForwardTypeOK, localVars, worldVars
<1>5. RequestOK(r) /\ pc[r] \in Open /\ pc'[r] \in Open
  BY <1>2, <1>4 DEF ForwardInv, Open, Early
<1>6. aReq[Current(r)] = r /\ Current(r) \notin DOMAIN pending /\ aState[Current(r)] = "reserved"
  BY <1>2, <1>5 DEF RequestOK, HoldsOK, Early
<1>7. HoldsOK(r)'
  BY <1>3, <1>4, <1>6, RecordKept DEF HoldsOK, LocalChange, SameDatabase, Early, Late
<1>8. ~committed'[r]
  BY <1>2, <1>4, <1>5, OpenFacts
<1> QED BY <1>3, <1>4, <1>5, <1>7, <1>8, OpenMove

\* MarkDispatching failed and changed nothing.
LEMMA MarkFailsStill ==
  ASSUME ForwardInv, NEW r \in Requests, MarkFails(r), UNCHANGED vars
  PROVE  ForwardInv'
<1>2. /\ up /\ pc[r] = "mark" /\ pc' = [pc EXCEPT ![r] = "undo"]
      /\ UNCHANGED <<vars, localVars, worldVars, parkVars, procVars>>
  BY DEF MarkFails, At, Goto
<1>3. LocalChange(r)
  BY <1>2, PlacesFact
  DEF LocalChange, SameDatabase, vars, lifeVars, localVars, worldVars, parkVars, procVars, FormNames, FormsAsked
<1>4. pc'[r] = "undo" /\ UNCHANGED <<result, answer, turns, committed, form>>
  BY <1>2 DEF ForwardInv, ForwardTypeOK, localVars, worldVars
<1>5. RequestOK(r) /\ pc[r] \in Open /\ pc'[r] \in Open
  BY <1>2, <1>4 DEF ForwardInv, Open, Early
<1>6. aReq[Current(r)] = r /\ Current(r) \notin DOMAIN pending /\ aState[Current(r)] = "reserved"
  BY <1>2, <1>5 DEF RequestOK, HoldsOK, Early
<1>7. HoldsOK(r)'
  BY <1>3, <1>4, <1>6, RecordKept DEF HoldsOK, LocalChange, SameDatabase, Early, Late
<1>8. ~committed'[r]
  BY <1>2, <1>4, <1>5, OpenFacts
<1> QED BY <1>3, <1>4, <1>5, <1>7, <1>8, OpenMove

\* The request is written: from here on the attempt counts as sent.
LEMMA WrittenStep ==
  ASSUME ForwardInv, NEW r \in Requests, up, pc[r] \in {"send", "resend"}, Written(r)
  PROVE  ForwardInv'
<1>1. /\ sent' = sent \cup {Current(r)} /\ pc' = [pc EXCEPT ![r] = "wait"]
      /\ UNCHANGED <<vars, form, index, result, committed, gone, answer, stored, turns, parkVars, procVars>>
  BY DEF Written, Goto
<1>2. aState[Current(r)] = "dispatching" /\ Current(r) \in Attempts /\ pc[r] \in Late
  BY CurrentFact DEF ForwardInv, RequestOK, HoldsOK, Late
<1>3. LocalChange(r)
  BY <1>1, <1>2, PlacesFact
  DEF LocalChange, SameDatabase, vars, lifeVars, parkVars, procVars, FormNames, FormsAsked
<1>4. pc'[r] = "wait"
  BY <1>1 DEF ForwardInv, ForwardTypeOK
<1>5. RequestOK(r) /\ pc[r] \in Open /\ pc'[r] \in Open
  BY <1>4 DEF ForwardInv, Open, Early
<1>7. HoldsOK(r)'
  BY <1>2, <1>3, <1>4, LateHolds
<1>8. ~committed'[r]
  BY <1>1, <1>5, OpenFacts
<1> QED BY <1>1, <1>3, <1>4, <1>5, <1>7, <1>8, OpenMove

\* Steps from one place with a dispatched attempt to another one.
LEMMA WaitMove ==
  ASSUME ForwardInv, NEW r \in Requests, up, pc[r] \in {"wait", "again"},
         NEW where \in {"wait", "again", "resend"}, pc' = [pc EXCEPT ![r] = where],
         \/ committed' = committed
         \/ \E b \in BOOLEAN : committed' = [committed EXCEPT ![r] = b],
         UNCHANGED <<vars, form, index, result, gone, worldVars, parkVars, procVars>>,
         committed'[r] => where = "wait" /\ form[r] \in {"stream", "translated"}
  PROVE  ForwardInv'
<1>1. LocalChange(r)
  BY PlacesFact
  DEF LocalChange, SameDatabase, vars, lifeVars, worldVars, parkVars, procVars, FormNames, FormsAsked
<1>2. pc'[r] = where
  BY DEF ForwardInv, ForwardTypeOK
<1>3. pc[r] \in Open /\ pc'[r] \in Open /\ pc[r] \in Late
  BY <1>2 DEF ForwardInv, Open, Early, Late
<1>4. HoldsOK(r)'
  BY <1>1, <1>2, <1>3, LateHolds
<1> QED BY <1>1, <1>2, <1>3, <1>4, OpenMove DEF worldVars

LEMMA StreamBytesStep ==
  ASSUME ForwardInv, NEW r \in Requests, StreamBytes(r)
  PROVE  ForwardInv'
<1>1. pc' = [pc EXCEPT ![r] = "wait"]
  BY DEF StreamBytes, At, ForwardInv, ForwardTypeOK
<1>2. committed' = [committed EXCEPT ![r] = TRUE] /\ form[r] = "stream"
  BY DEF StreamBytes
<1> QED BY <1>1, <1>2, WaitMove DEF StreamBytes, At

LEMMA TranslatePayloadStep ==
  ASSUME ForwardInv, NEW r \in Requests, TranslatePayload(r)
  PROVE  ForwardInv'
<1>1. pc' = [pc EXCEPT ![r] = "wait"]
  BY DEF TranslatePayload, At, ForwardInv, ForwardTypeOK
<1>2. PICK delta : committed' = [committed EXCEPT ![r] = @ \/ Writes(Client, delta)]
  BY DEF TranslatePayload
<1>3. \E b \in BOOLEAN : committed' = [committed EXCEPT ![r] = b]
  <2> DEFINE b == committed[r] \/ Writes(Client, delta)
  <2>1. b \in BOOLEAN
    OBVIOUS
  <2>2. committed' = [committed EXCEPT ![r] = b]
    BY <1>2
  <2> QED BY <2>1, <2>2
<1> QED BY <1>1, <1>3, WaitMove DEF TranslatePayload, At

LEMMA SearchRoundStep ==
  ASSUME ForwardInv, NEW r \in Requests, SearchRound(r)
  PROVE  ForwardInv'
<1>1. pc' = [pc EXCEPT ![r] = "again"] /\ pc[r] = "wait" /\ Searches(r) /\ up
      /\ UNCHANGED <<vars, form, index, result, committed, gone, worldVars, parkVars, procVars>>
  BY DEF SearchRound, At, Goto
<1>2. ~committed'[r]
  BY <1>1, OpenFacts DEF ForwardInv, Searches, FileSearches, Open
<1> QED BY <1>1, <1>2, WaitMove
\* The dispatch has ended, and what the client has of it fits the result.
LEMMA EndsStep ==
  ASSUME ForwardInv, NEW r \in Requests, NEW class \in Ended \ {"unstored"}, up,
         pc[r] \in Late \ {"settle", "turn"}, Ends(r, class),
         answer[r] = "ok" => class \in {"ok", "interrupted"}, answer[r] = "failed" => class = "failed"
  PROVE  ForwardInv'
<1>1. /\ result' = [result EXCEPT ![r] = class] /\ pc' = [pc EXCEPT ![r] = "settle"]
      /\ UNCHANGED <<vars, form, index, committed, gone, worldVars, parkVars, procVars>>
  BY DEF Ends, Goto
<1>2. LocalChange(r)
  BY <1>1, PlacesFact
  DEF LocalChange, SameDatabase, vars, lifeVars, worldVars, parkVars, procVars, FormNames, FormsAsked, Results
<1>3. pc'[r] = "settle" /\ result'[r] = class
  BY <1>1 DEF ForwardInv, ForwardTypeOK
<1>4. HoldsOK(r)'
  BY <1>2, <1>3, LateHolds
<1>5. RequestOK(r)
  BY DEF ForwardInv
<1>6. committed[r] => form[r] \in {"stream", "translated"}
  BY <1>5 DEF RequestOK, ResultOK
<1>7. ResultOK(r)'
  BY <1>1, <1>3, <1>6 DEF ResultOK, Early
<1>8. r \notin turns /\ (answer[r] # None => Session(r) /\ answer[r] \in {"ok", "failed"})
  BY <1>5 DEF RequestOK, AnswerOK, Late
<1>9. AnswerOK(r)'
  BY <1>1, <1>3, <1>8 DEF AnswerOK, Session, worldVars
<1>10. NotSuccess(r)' /\ NotFailure(r)'
  <2>1. NotSuccess(r)
    BY <1>5 DEF RequestOK, RecordOK, OwesNone, Late
  <2> QED BY <1>2, <2>1, HeldIsNotFailure, RecordKept DEF LocalChange
<1>11. RecordOK(r)'
  BY <1>10 DEF RecordOK
<1> QED BY <1>2, <1>4, <1>7, <1>9, <1>11, LocalMove DEF RequestOK

\* The same from a place without an answer.
LEMMA OpenEnds ==
  ASSUME ForwardInv, NEW r \in Requests, NEW class \in Ended \ {"unstored"}, up,
         pc[r] \in {"send", "setup", "wait", "again", "resend"}, Ends(r, class)
  PROVE  ForwardInv'
<1>1. answer[r] = None /\ pc[r] \in Late \ {"settle", "turn"}
  BY OpenFacts DEF ForwardInv, Open, Late
<1> QED BY <1>1, EndsStep DEF None

LEMMA SearchSteps ==
  ASSUME ForwardInv, NEW r \in Requests,
         SearchRound(r) \/ SearchAnswers(r) \/ SearchFails(r) \/ BeginAgain(r) \/ SendAgain(r)
  PROVE  ForwardInv'
<1>1. CASE SearchRound(r)
  BY <1>1, SearchRoundStep
<1>2. CASE SearchAnswers(r) \/ SearchFails(r)
  BY <1>2, OpenEnds DEF SearchAnswers, SearchFails, At, Ended
<1>3. CASE BeginAgain(r)
  <2>1. up /\ pc[r] = "again"
    BY <1>3 DEF BeginAgain, At
  <2>2. CASE Ends(r, "refused")
    BY <2>1, <2>2, OpenEnds DEF Ended
  <2>3. CASE Goto(r, "resend") /\ UNCHANGED <<vars, localVars, worldVars, parkVars, procVars>>
    <3>1. pc' = [pc EXCEPT ![r] = "resend"]
          /\ UNCHANGED <<vars, form, index, result, committed, gone, worldVars, parkVars, procVars>>
      BY <2>3 DEF Goto, localVars
    <3>2. ~committed'[r]
      BY <2>1, <3>1, OpenFacts DEF ForwardInv, Open
    <3> QED BY <2>1, <3>1, <3>2, WaitMove
  <2> QED BY <1>3, <2>2, <2>3 DEF BeginAgain
<1>4. CASE SendAgain(r)
  BY <1>4, OpenEnds, WrittenStep DEF SendAgain, At, Ended
<1> QED BY <1>1, <1>2, <1>3, <1>4

LEMMA SendSteps ==
  ASSUME ForwardInv, NEW r \in Requests, Send(r) \/ SendFails(r) \/ DialFails(r)
  PROVE  ForwardInv'
<1>1. up /\ pc[r] = "send"
  BY DEF Send, SendFails, DialFails, At
<1>2. CASE Written(r)
  BY <1>1, <1>2, WrittenStep
<1>3. CASE \E class \in {"retryable", "refused"} : Ends(r, class)
  BY <1>1, <1>3, OpenEnds DEF Ended
<1> QED BY <1>2, <1>3 DEF Send, SendFails, DialFails

LEMMA TranslateStreamStep ==
  ASSUME ForwardInv, NEW r \in Requests, TranslateStream(r)
  PROVE  ForwardInv'
<1>1. Finished(progress[r]) \in {"ok", "retryable", "refused"}
  BY DEF Finished
<1>2. \E class \in {"ok", "retryable", "refused"} : Ends(r, class)
  BY <1>1 DEF TranslateStream
<1> QED BY <1>2, OpenEnds DEF TranslateStream, At, Ended

\* A session that begins has no result and its client no frame.
LEMMA SessionBegins ==
  ASSUME ForwardInv, NEW r \in Requests, up, pc[r] \in {"send", "setup"}, Session(r),
         pc' = [pc EXCEPT ![r] = "session"],
         UNCHANGED <<vars, localVars, answer, stored, turns, parkVars, procVars>>,
         sent' \in {sent, sent \cup {Current(r)}}
  PROVE  ForwardInv'
<1>1. aState[Current(r)] = "dispatching" /\ Current(r) \in Attempts /\ pc[r] \in Late
  BY CurrentFact DEF ForwardInv, RequestOK, HoldsOK, Late
<1>2. LocalChange(r)
  BY <1>1, PlacesFact
  DEF LocalChange, SameDatabase, vars, lifeVars, localVars, parkVars, procVars, FormNames, FormsAsked
<1>3. pc'[r] = "session"
  BY DEF ForwardInv, ForwardTypeOK
<1>4. HoldsOK(r)'
  BY <1>1, <1>2, <1>3, LateHolds
<1>5. result[r] = None /\ answer[r] = None /\ r \notin turns /\ ~committed[r] /\ NotSuccess(r)
  BY OpenFacts DEF ForwardInv, Open
<1>6. ResultOK(r)'
  BY <1>3, <1>5 DEF ResultOK, localVars, Session, Early
<1>7. AnswerOK(r)'
  BY <1>3, <1>5 DEF AnswerOK, localVars, None
<1>8. NotSuccess(r)' /\ NotFailure(r)'
  BY <1>1, <1>2, <1>5, HeldIsNotFailure, RecordKept DEF LocalChange
<1>9. RecordOK(r)'
  BY <1>8 DEF RecordOK
<1> QED BY <1>2, <1>4, <1>6, <1>7, <1>9, LocalMove DEF RequestOK

LEMMA DialStep ==
  ASSUME ForwardInv, NEW r \in Requests, Dial(r)
  PROVE  ForwardInv'
<1>1. /\ up /\ pc[r] = "send" /\ Session(r) /\ sent' = sent \cup {Current(r)}
      /\ UNCHANGED <<vars, localVars, answer, stored, turns, parkVars, procVars>>
  BY DEF Dial, At
<1>2. CASE pc' = [pc EXCEPT ![r] = "session"]
  BY <1>1, <1>2, SessionBegins
<1>3. CASE pc' = [pc EXCEPT ![r] = "setup"]
  <2>1. aState[Current(r)] = "dispatching" /\ Current(r) \in Attempts /\ pc[r] \in Late
    BY <1>1, CurrentFact DEF ForwardInv, RequestOK, HoldsOK, Late
  <2>2. LocalChange(r)
    BY <1>1, <1>3, <2>1, PlacesFact
    DEF LocalChange, SameDatabase, vars, lifeVars, localVars, parkVars, procVars, FormNames, FormsAsked
  <2>3. pc'[r] = "setup" /\ committed' = committed
    BY <1>1, <1>3 DEF ForwardInv, ForwardTypeOK, localVars
  <2>4. HoldsOK(r)'
    BY <2>1, <2>2, <2>3, LateHolds
  <2>5. RequestOK(r) /\ pc[r] \in Open /\ pc'[r] \in Open
    BY <1>1, <2>3 DEF ForwardInv, Open, Early
  <2>6. ~committed'[r]
    BY <1>1, <2>3, <2>5, OpenFacts
  <2> QED BY <1>1, <2>2, <2>4, <2>5, <2>6, OpenMove DEF localVars
<1> QED BY <1>2, <1>3 DEF Dial, Goto

LEMMA SetupSteps ==
  ASSUME ForwardInv, NEW r \in Requests, StartSession(r) \/ SetupSession(r)
  PROVE  ForwardInv'
<1>1. up /\ pc[r] = "setup" /\ Session(r) /\ FirstFrame(r)
  BY DEF StartSession, SetupSession, At, Session, Sessions
<1>2. CASE Ends(r, "refused")
  BY <1>1, <1>2, OpenEnds DEF Ended
<1>3. CASE Goto(r, "session") /\ UNCHANGED <<vars, localVars, worldVars, parkVars, procVars>>
  BY <1>1, <1>3, SessionBegins DEF Goto, worldVars
<1> QED BY <1>1, <1>2, <1>3 DEF FirstFrame

LEMMA SessionFacts ==
  ASSUME ForwardInv, NEW r \in Requests, pc[r] = "session"
  PROVE  /\ Session(r) /\ result[r] \in {None, "complete", "errored"}
         /\ (answer[r] = "ok" <=> result[r] = "complete") /\ (answer[r] = "failed" <=> result[r] = "errored")
         /\ ~committed[r] /\ r \notin turns /\ answer[r] \in {None, "ok", "failed"}
         /\ NotSuccess(r) /\ NotFailure(r)
<1>1. RequestOK(r)
  BY DEF ForwardInv
<1>2. /\ Session(r) /\ result[r] \in {None, "complete", "errored"} /\ ~committed[r]
  BY <1>1 DEF RequestOK, ResultOK
<1>3. /\ (answer[r] = "ok" <=> result[r] = "complete") /\ (answer[r] = "failed" <=> result[r] = "errored")
      /\ r \notin turns /\ answer[r] \in {None, "ok", "failed"}
  BY <1>1 DEF RequestOK, AnswerOK
<1>4. NotSuccess(r)
  BY <1>1 DEF RequestOK, RecordOK, OwesNone
<1>5. NotFailure(r)
  BY HeldIsNotFailure DEF Late
<1> QED BY <1>2, <1>3, <1>4, <1>5

LEMMA SessionEnds ==
  ASSUME ForwardInv, NEW r \in Requests,
         UpgradeFails(r) \/ ServeRealtime(r) \/ RelayLiveSession(r) \/ RelayGeminiLiveSession(r)
  PROVE  ForwardInv'
<1>1. up /\ pc[r] = "session" /\ pc[r] \in Late \ {"settle", "turn"}
  BY DEF UpgradeFails, ServeRealtime, RelayLiveSession, RelayGeminiLiveSession, RelayEnds, At, Late
<1>2. CASE result[r] = None /\ Ends(r, "refused")
  BY <1>1, <1>2, SessionFacts, EndsStep DEF Ended, None
<1>3. ASSUME NEW benign \in BOOLEAN, Ends(r, SessionEnd(r, benign)) PROVE ForwardInv'
  <2> DEFINE class == SessionEnd(r, benign)
  <2>1. /\ class \in {"ok", "failed", "interrupted"}
        /\ (result[r] = "complete" => class \in {"ok", "interrupted"})
        /\ (result[r] = "errored" => class = "failed")
    BY DEF SessionEnd
  <2>2. Ends(r, class)
    BY <1>3
  <2> HIDE DEF class
  <2> QED BY <1>1, <2>1, <2>2, SessionFacts, EndsStep DEF Ended
<1> QED BY <1>2, <1>3 DEF UpgradeFails, ServeRealtime, RelayLiveSession, RelayGeminiLiveSession, RelayEnds

LEMMA ObservedStep ==
  ASSUME ForwardInv, NEW r \in Requests, NEW class \in {"complete", "errored"}, Observed(r, class)
  PROVE  ForwardInv'
<1> DEFINE what == IF class = "errored" THEN "failed" ELSE "ok"
<1>1. /\ up /\ pc[r] = "session" /\ result' = [result EXCEPT ![r] = class]
      /\ answer' = [answer EXCEPT ![r] = what]
      /\ UNCHANGED <<vars, pc, form, index, committed, gone, sent, stored, turns, parkVars, procVars>>
  BY DEF Observed, At, Gives
<1>2. pc' = [pc EXCEPT ![r] = "session"]
  BY <1>1 DEF ForwardInv, ForwardTypeOK
<1>3. LocalChange(r)
  BY <1>1, <1>2, PlacesFact
  DEF LocalChange, SameDatabase, vars, lifeVars, parkVars, procVars, FormNames, FormsAsked, Results, Answers
<1>4. pc'[r] = "session" /\ result'[r] = class /\ answer'[r] = what
  BY <1>1 DEF ForwardInv, ForwardTypeOK
<1>5. HoldsOK(r)'
  BY <1>1, <1>3, <1>4, LateHolds DEF Late
<1>6. ResultOK(r)'
  BY <1>1, <1>4, SessionFacts DEF ResultOK, Session, Early
<1>7. AnswerOK(r)'
  BY <1>1, <1>4, SessionFacts DEF AnswerOK, Session
<1>8. NotSuccess(r)' /\ NotFailure(r)'
  BY <1>1, <1>3, SessionFacts, RecordKept DEF LocalChange
<1>9. RecordOK(r)'
  BY <1>8 DEF RecordOK
<1> QED BY <1>3, <1>5, <1>6, <1>7, <1>9, LocalMove DEF RequestOK

\* A dispatch that is neither a stream translated nor a search nor a session.
LEMMA OutcomeStep ==
  ASSUME ForwardInv, NEW r \in Requests, NEW class \in {"ok", "failed", "retryable", "refused"}, Outcome(r, class)
  PROVE  ForwardInv'
<1>1. /\ up /\ pc[r] = "wait" /\ result' = [result EXCEPT ![r] = class]
      /\ UNCHANGED <<vars, form, index, committed, gone, worldVars, parkVars, procVars>>
  BY DEF Outcome, At
<1>2. PICK where \in {"turn", "settle"} :
         pc' = [pc EXCEPT ![r] = where] /\ (where = "turn" => form[r] = "attached" /\ class = "ok")
  BY DEF Outcome, Goto
<1>3. LocalChange(r)
  BY <1>1, <1>2, PlacesFact
  DEF LocalChange, SameDatabase, vars, lifeVars, worldVars, parkVars, procVars, FormNames, FormsAsked, Results, Ended
<1>4. pc'[r] = where /\ result'[r] = class
  BY <1>1, <1>2 DEF ForwardInv, ForwardTypeOK
<1>5. HoldsOK(r)'
  BY <1>1, <1>3, <1>4, LateHolds DEF Late
<1>6. /\ answer[r] = None /\ r \notin turns /\ NotSuccess(r)
      /\ committed[r] => form[r] \in {"stream", "translated"}
  BY <1>1, OpenFacts DEF ForwardInv, Open
<1>7. ResultOK(r)'
  BY <1>1, <1>2, <1>4, <1>6 DEF ResultOK, Early, Ended
<1>8. AnswerOK(r)'
  BY <1>1, <1>2, <1>4, <1>6 DEF AnswerOK, worldVars, None
<1>9. NotSuccess(r)' /\ NotFailure(r)'
  BY <1>1, <1>3, <1>6, HeldIsNotFailure, RecordKept DEF LocalChange, Late
<1>10. RecordOK(r)'
  BY <1>9 DEF RecordOK
<1> QED BY <1>3, <1>5, <1>7, <1>8, <1>10, LocalMove DEF RequestOK

LEMMA StoreTurnStep ==
  ASSUME ForwardInv, NEW r \in Requests, StoreTurn(r)
  PROVE  ForwardInv'
<1>1. /\ up /\ pc[r] = "turn" /\ pc' = [pc EXCEPT ![r] = "settle"]
      /\ UNCHANGED <<vars, form, index, committed, gone, answer, sent, stored, parkVars, procVars>>
      /\ \/ turns' = turns \cup {r} /\ result' = result
         \/ turns' = turns /\ result' = [result EXCEPT ![r] = "unstored"]
  BY DEF StoreTurn, At, Goto
<1>2. LocalChange(r)
  BY <1>1, PlacesFact
  DEF LocalChange, SameDatabase, vars, lifeVars, parkVars, procVars, FormNames, FormsAsked, Results, Ended
<1>3. RequestOK(r)
  BY DEF ForwardInv
<1>4. result[r] = "ok" /\ form[r] = "attached" /\ ~committed[r]
  BY <1>1, <1>3 DEF RequestOK, ResultOK
<1>5. answer[r] = None /\ r \notin turns
  BY <1>1, <1>3 DEF RequestOK, AnswerOK
<1>6. /\ pc'[r] = "settle"
      /\ (result'[r] = "ok" \/ (result'[r] = "unstored" /\ r \notin turns'))
  BY <1>1, <1>4, <1>5 DEF ForwardInv, ForwardTypeOK
<1>7. HoldsOK(r)'
  BY <1>1, <1>2, <1>6, LateHolds DEF Late
<1>8. ResultOK(r)'
  BY <1>1, <1>4, <1>6 DEF ResultOK, Early, Ended
<1>9. AnswerOK(r)'
  BY <1>1, <1>4, <1>5, <1>6 DEF AnswerOK, None
<1>10. NotSuccess(r)' /\ NotFailure(r)'
  <2>1. NotSuccess(r)
    BY <1>1, <1>3 DEF RequestOK, RecordOK, OwesNone
  <2> QED BY <1>1, <1>2, <2>1, HeldIsNotFailure, RecordKept DEF LocalChange, Late
<1>11. RecordOK(r)'
  BY <1>10 DEF RecordOK
<1> QED BY <1>2, <1>7, <1>8, <1>9, <1>11, LocalMove DEF RequestOK

\* The context of a request ends, wherever its handler is.
LEMMA ClientGoneStep ==
  ASSUME ForwardInv, NEW r \in Requests, ClientGone(r)
  PROVE  ForwardInv'
<1>1. /\ up /\ gone' = [gone EXCEPT ![r] = TRUE]
      /\ UNCHANGED <<vars, pc, form, index, result, committed, worldVars, parkVars, procVars>>
  BY DEF ClientGone, At
<1>2. pc[r] \in Early \cup Late \cup Outside /\ pc' = [pc EXCEPT ![r] = pc[r]] /\ gone'[r] = TRUE
  BY <1>1 DEF ForwardInv, ForwardTypeOK
<1>3. LocalChange(r)
  BY <1>1, <1>2
  DEF LocalChange, SameDatabase, vars, lifeVars, worldVars, parkVars, procVars, FormNames, FormsAsked, Results, Answers
<1>4. RequestOK(r)
  BY DEF ForwardInv
<1>5. HoldsOK(r)'
  BY <1>1, <1>3, <1>4, RecordKept DEF RequestOK, HoldsOK, LocalChange, SameDatabase
<1>6. ResultOK(r)'
  BY <1>1, <1>2, <1>4 DEF RequestOK, ResultOK, Session, Stores, worldVars
<1>7. AnswerOK(r)'
  BY <1>1, <1>4 DEF RequestOK, AnswerOK, Session, worldVars
<1>8. RecordOK(r)'
  BY <1>1, <1>3, <1>4, RecordKept DEF RequestOK, RecordOK, OwesNone, OwesSuccess, LocalChange, worldVars
<1> QED BY <1>3, <1>5, <1>6, <1>7, <1>8, LocalMove DEF RequestOK
-----------------------------------------------------------------------------
(* Steps of a handler that write the database. *)

LEMMA ActiveFacts ==
  ASSUME ForwardInv
  PROVE  /\ \A a \in DOMAIN pending : a \in Active
         /\ \A a \in Active : a \in Attempts /\ aReq[a] \in Requests /\ rState[aReq[a]] = "reserved"
         /\ \A a, b \in Active : aReq[a] = aReq[b] => a = b
  BY DEF ForwardInv, DatabaseOK, OpenOK, ParkedOK, Active, ActiveStates

\* A request with no open attempt is closed.
LEMMA CloseRecord ==
  ASSUME ForwardInv, NEW r \in Requests, NEW state \in SettledStates, rState[r] = "in_progress",
         rState' = [rState EXCEPT ![r] = state], UNCHANGED <<aState, aReq, pending, sent>>
  PROVE  /\ rState' \in [Requests -> RequestStates]
         /\ DatabaseOK' /\ \A s \in Requests \ {r} : SameRecord(s)
         /\ state # "succeeded" => NotSuccess(r)'
         /\ state \in Favourable => NotFailure(r)'
<1>1. \A a \in Active : aReq[a] # r
  BY ActiveFacts
<1>2. Active' = Active /\ \A a \in DOMAIN pending : aReq[a] # r
  BY <1>1, ActiveFacts DEF Active
<1>3. rState' \in [Requests -> RequestStates] /\ rState'[r] = state /\ \A s \in Requests \ {r} : rState'[s] = rState[s]
  BY DEF ForwardInv, ForwardTypeOK, RequestStates
<1>4. OpenOK'
  BY <1>1, <1>2, <1>3 DEF ForwardInv, DatabaseOK, OpenOK
<1>5. ParkedOK' /\ SentOK'
  BY DEF ForwardInv, DatabaseOK, ParkedOK, SentOK
<1>6. \A s \in Requests \ {r} : SameRecord(s)
  BY <1>3 DEF SameRecord
<1>7. \A a \in Attempts : aReq[a] = r => aState[a] # "reserved"
  BY <1>1 DEF Active, ActiveStates
<1> QED BY <1>2, <1>3, <1>4, <1>5, <1>6, <1>7 DEF DatabaseOK, NotSuccess, NotFailure

\* An open attempt is closed, and with it its request or not.
LEMMA CloseAttempt ==
  ASSUME ForwardInv, NEW a \in Active, NEW r \in Requests, aReq[a] = r,
         NEW state \in AttemptStates \ ActiveStates, NEW outcome \in RequestStates,
         a \in sent => state \in SettledStates,
         aState' = [aState EXCEPT ![a] = state], rState' = [rState EXCEPT ![r] = outcome],
         UNCHANGED <<aReq, sent>>,
         DOMAIN pending' = DOMAIN pending \ {a}, \A b \in DOMAIN pending' : pending'[b] = pending[b]
  PROVE  /\ rState' \in [Requests -> RequestStates] /\ aState' \in [Attempts -> AttemptStates]
         /\ DatabaseOK' /\ \A s \in Requests \ {r} : SameRecord(s)
         /\ outcome # "succeeded" => NotSuccess(r)'
         /\ outcome \in Favourable => NotFailure(r)'
<1>1. a \in Attempts /\ \A b \in Active \ {a} : aReq[b] # r
  BY ActiveFacts
<1>2. aState' \in [Attempts -> AttemptStates] /\ aState'[a] = state /\ \A b \in Attempts \ {a} : aState'[b] = aState[b]
  BY <1>1 DEF ForwardInv, ForwardTypeOK
<1>3. rState' \in [Requests -> RequestStates] /\ rState'[r] = outcome /\ \A s \in Requests \ {r} : rState'[s] = rState[s]
  BY DEF ForwardInv, ForwardTypeOK
<1>4. Active' = Active \ {a}
  BY <1>1, <1>2 DEF Active
<1>5. OpenOK'
  <2>1. ASSUME NEW b \in Active' PROVE aReq'[b] \in Requests /\ rState'[aReq'[b]] = "reserved" /\ aState'[b] # "streaming"
    <3>1. b \in Active \ {a} /\ b \in Attempts \ {a}
      BY <1>4, <2>1, ActiveFacts
    <3>2. aReq[b] \in Requests \ {r} /\ rState[aReq[b]] = "reserved" /\ aState[b] # "streaming"
      BY <1>1, <3>1, ActiveFacts DEF ForwardInv, DatabaseOK, OpenOK
    <3> QED BY <1>2, <1>3, <3>1, <3>2
  <2> QED BY <1>4, <2>1, ActiveFacts DEF OpenOK
<1>6. ParkedOK'
  BY <1>2 DEF ForwardInv, DatabaseOK, ParkedOK
<1>7. SentOK'
  BY <1>2 DEF ForwardInv, DatabaseOK, SentOK
<1>8. \A s \in Requests \ {r} : SameRecord(s)
  BY <1>2, <1>3 DEF SameRecord
<1>9. /\ \A b \in DOMAIN pending' : aReq'[b] # r
      /\ \A b \in Attempts : aReq'[b] = r => aState'[b] # "reserved"
  <2>1. \A b \in DOMAIN pending' : b \in Active \ {a}
    BY ActiveFacts
  <2>2. \A b \in Attempts \ {a} : aReq[b] = r => b \notin Active
    BY <1>1
  <2>3. \A b \in Attempts \ {a} : aReq[b] = r => aState[b] # "reserved"
    BY <2>2 DEF Active, ActiveStates
  <2>4. state # "reserved"
    BY DEF ActiveStates
  <2> QED BY <1>1, <1>2, <2>1, <2>3, <2>4
<1> QED BY <1>2, <1>3, <1>5, <1>6, <1>7, <1>8, <1>9 DEF DatabaseOK, NotSuccess, NotFailure

\* A handler has returned.
LEMMA ReturnFacts ==
  ASSUME ForwardInv, NEW r \in Requests, Return({r})
  PROVE  /\ pc' \in [Requests -> Early \cup Late \cup Outside]
         /\ form' \in [Requests -> FormNames \cup {None}]
         /\ index' \in [Requests -> Nat] /\ IndexOK'
         /\ result' \in [Requests -> Results]
         /\ committed' \in [Requests -> BOOLEAN] /\ gone' \in [Requests -> BOOLEAN]
         /\ pc'[r] = "done" /\ ~committed'[r]
         /\ \A s \in Requests \ {r} :
              /\ pc'[s] = pc[s] /\ form'[s] = form[s] /\ index'[s] = index[s] /\ result'[s] = result[s]
              /\ committed'[s] = committed[s] /\ gone'[s] = gone[s]
<1> USE DEF ForwardInv, ForwardTypeOK, Return
<1>1. /\ pc' \in [Requests -> Early \cup Late \cup Outside] /\ form' \in [Requests -> FormNames \cup {None}]
      /\ result' \in [Requests -> Results]
  BY PlacesFact
<1>2. committed' \in [Requests -> BOOLEAN] /\ gone' \in [Requests -> BOOLEAN]
  OBVIOUS
<1>3. index' \in [Requests -> Nat] /\ \A s \in Requests : index'[s] = 1 \/ index'[s] = index[s]
  OBVIOUS
<1>4. IndexOK'
  <2>1. \A s \in Requests : 1 \in 1..Len(Targets[s])
    <3>1. ASSUME NEW s \in Requests PROVE 1 \in 1..Len(Targets[s])
      <4>1. AttemptOf[s] \in Seq(Attempts) /\ AttemptOf[s] # << >> /\ Len(AttemptOf[s]) = Len(Targets[s])
        BY <3>1, RouteAssumption
      <4> QED BY <4>1
    <3> QED BY <3>1
  <2> QED BY <1>3, <2>1 DEF IndexOK
<1> QED BY <1>1, <1>2, <1>3, <1>4

\* A request whose handler has returned.
LEMMA DoneNext ==
  ASSUME NEW r, pc'[r] = "done", ~committed'[r],
         answer'[r] \in {"failed", "error", "partial"} => NotSuccess(r)',
         answer'[r] = "ok" \/ r \in turns' => NotFailure(r)'
  PROVE  RequestOK(r)'
<1>1. HoldsOK(r)' /\ ResultOK(r)' /\ AnswerOK(r)'
  BY DEF HoldsOK, ResultOK, AnswerOK, Early, Late
<1>2. RecordOK(r)'
  BY DEF RecordOK, OwesNone, OwesSuccess
<1> QED BY <1>1, <1>2 DEF RequestOK

\* A handler returns, gives the client what or nothing, and may have written
\* its own rows.
LEMMA ReturnStep ==
  ASSUME ForwardInv, NEW r \in Requests, up, up' = up, Return({r}), NEW what \in Answers,
         answer' = [answer EXCEPT ![r] = what] \/ (what = answer[r] /\ answer' = answer),
         UNCHANGED <<turns, stored>>,
         aState' \in [Attempts -> AttemptStates], aReq' \in [Attempts -> Requests \cup {Unknown}],
         rState' \in [Requests -> RequestStates],
         DatabaseOK', \A s \in Requests \ {r} : SameRecord(s),
         what \in {"failed", "error", "partial"} => NotSuccess(r)',
         what = "ok" \/ r \in turns => NotFailure(r)'
  PROVE  ForwardInv'
<1>1. answer' \in [Requests -> Answers] /\ answer'[r] = what /\ \A s \in Requests \ {r} : answer'[s] = answer[s]
  BY DEF ForwardInv, ForwardTypeOK
<1>2. ForwardTypeOK' /\ IndexOK' /\ up'
  BY <1>1, ReturnFacts DEF ForwardInv, ForwardTypeOK
<1>3. OthersSame(r)
  BY <1>1, ReturnFacts DEF OthersSame, SameHandler
<1>4. RequestOK(r)'
  BY <1>1, ReturnFacts, DoneNext
<1> QED BY <1>2, <1>3, <1>4, OneStep

LEMMA Untouched ==
  ASSUME ForwardInv, SameDatabase, sent' = sent
  PROVE  /\ DatabaseOK' /\ \A s \in Requests : SameRecord(s)
         /\ aState' \in [Attempts -> AttemptStates] /\ aReq' \in [Attempts -> Requests \cup {Unknown}]
         /\ rState' \in [Requests -> RequestStates]
<1>1. Active' = Active
  BY DEF Active, SameDatabase
<1> QED BY <1>1 DEF ForwardInv, ForwardTypeOK, DatabaseOK, OpenOK, ParkedOK, SentOK, SameDatabase, SameRecord

LEMMA AdmitDeniedStep ==
  ASSUME ForwardInv, NEW r \in Requests, AdmitDenied(r)
  PROVE  ForwardInv'
<1>1. /\ up /\ pc[r] = "admit" /\ Return({r}) /\ answer' = [answer EXCEPT ![r] = "error"]
      /\ UNCHANGED <<sent, stored, turns, parkVars, up>>
      /\ CloseFailedRequest(r) \/ UNCHANGED vars
  BY DEF AdmitDenied, At, Gives, procVars
<1>2. NotSuccess(r) /\ r \notin turns
  BY <1>1, OpenFacts DEF ForwardInv, Open
<1>3. CASE CloseFailedRequest(r)
  <2>1. rState[r] = "in_progress" /\ rState' = [rState EXCEPT ![r] = "failed"] /\ UNCHANGED <<aState, aReq, pending>>
    BY <1>1, <1>3 DEF CloseFailedRequest, parkVars
  <2>2. /\ rState' \in [Requests -> RequestStates] /\ DatabaseOK' /\ NotSuccess(r)'
        /\ \A s \in Requests \ {r} : SameRecord(s)
    BY <1>1, <2>1, CloseRecord DEF SettledStates
  <2>3. aState' \in [Attempts -> AttemptStates] /\ aReq' \in [Attempts -> Requests \cup {Unknown}]
    BY <2>1 DEF ForwardInv, ForwardTypeOK
  <2> QED BY <1>1, <1>2, <2>2, <2>3, ReturnStep DEF Answers
<1>4. CASE UNCHANGED vars
  <2>1. SameDatabase
    BY <1>1, <1>4 DEF SameDatabase, vars, lifeVars, parkVars
  <2>2. NotSuccess(r)'
    BY <1>2, <2>1 DEF NotSuccess, SameDatabase
  <2> QED BY <1>1, <1>2, <2>1, <2>2, Untouched, ReturnStep DEF Answers
<1> QED BY <1>1, <1>3, <1>4
\* A handler writes its own rows and goes on.
LEMMA WriteMove ==
  ASSUME ForwardInv, NEW r \in Requests, up, up' = up,
         NEW where \in Early \cup Late \cup Outside, pc' = [pc EXCEPT ![r] = where],
         NEW class \in Results, result' = result \/ result' = [result EXCEPT ![r] = class],
         index' \in [Requests -> Nat], IndexOK', \A s \in Requests \ {r} : index'[s] = index[s],
         UNCHANGED <<form, committed, gone, answer, turns>>, stored' \in {stored, stored \cup {r}},
         aState' \in [Attempts -> AttemptStates], aReq' \in [Attempts -> Requests \cup {Unknown}],
         rState' \in [Requests -> RequestStates],
         DatabaseOK', \A s \in Requests \ {r} : SameRecord(s), RequestOK(r)'
  PROVE  ForwardInv'
<1>1. pc' \in [Requests -> Early \cup Late \cup Outside] /\ \A s \in Requests \ {r} : pc'[s] = pc[s]
  BY DEF ForwardInv, ForwardTypeOK
<1>2. result' \in [Requests -> Results] /\ \A s \in Requests \ {r} : result'[s] = result[s]
  BY DEF ForwardInv, ForwardTypeOK
<1>3. ForwardTypeOK' /\ up'
  BY <1>1, <1>2 DEF ForwardInv, ForwardTypeOK
<1>4. OthersSame(r)
  BY <1>1, <1>2 DEF OthersSame, SameHandler
<1> QED BY <1>3, <1>4, OneStep

\* The admission of the current attempt, by the columns the invariant reads.
LEMMA AdmitTargetStep ==
  ASSUME ForwardInv, NEW r \in Requests, AdmitTarget(r)
  PROVE  ForwardInv'
<1> DEFINE a == Current(r)
<1>1. /\ up /\ pc[r] = "admit" /\ pc' = [pc EXCEPT ![r] = "lock"]
      /\ UNCHANGED <<localVars, worldVars, parkVars, procVars>>
      /\ Admit(r, a, Key, Target(r), 1, 0, FALSE)
  BY DEF AdmitTarget, At, Goto
<1>2. /\ aState[a] = "absent" /\ rState[r] \in {"absent", "in_progress"}
      /\ rState' = [rState EXCEPT ![r] = "reserved"]
      /\ aState' = [aState EXCEPT ![a] = "reserved"]
      /\ aReq' = [aReq EXCEPT ![a] = r]
  BY <1>1 DEF Admit, Continues
<1>3. a \in Attempts
  BY CurrentFact DEF ForwardInv
<1>4. Current(r)' = a
  BY <1>1 DEF Current, localVars
<1> HIDE DEF a
<1>5. /\ aState' \in [Attempts -> AttemptStates] /\ aReq' \in [Attempts -> Requests \cup {Unknown}]
      /\ rState' \in [Requests -> RequestStates]
      /\ aState'[a] = "reserved" /\ aReq'[a] = r /\ rState'[r] = "reserved"
      /\ \A b \in Attempts \ {a} : aState'[b] = aState[b] /\ aReq'[b] = aReq[b]
      /\ \A s \in Requests \ {r} : rState'[s] = rState[s]
  BY <1>2, <1>3 DEF ForwardInv, ForwardTypeOK, AttemptStates, ActiveStates, RequestStates
<1>6. a \notin Active /\ a \notin DOMAIN pending /\ a \notin sent /\ \A b \in Active : aReq[b] # r
  BY <1>2, ActiveFacts DEF Active, ActiveStates, ForwardInv, DatabaseOK, SentOK, SettledStates
<1>7. Active' = Active \cup {a}
  BY <1>3, <1>5 DEF Active, ActiveStates
<1>8. UNCHANGED <<pending, sent, form, index, result, committed, gone, answer, turns, stored, up>>
  BY <1>1 DEF localVars, worldVars, parkVars, procVars
<1>9. OpenOK'
  <2>1. \A b \in Active : b \in Attempts \ {a} /\ aReq[b] \in Requests \ {r} /\ rState[aReq[b]] = "reserved"
           /\ aState[b] # "streaming"
    BY <1>6, ActiveFacts DEF ForwardInv, DatabaseOK, OpenOK
  <2>2. \A b \in Active' : aReq'[b] \in Requests /\ rState'[aReq'[b]] = "reserved" /\ aState'[b] # "streaming"
    BY <1>5, <1>7, <2>1
  <2>3. \A b, d \in Active' : aReq'[b] = aReq'[d] => b = d
    BY <1>5, <1>7, <2>1, ActiveFacts
  <2> QED BY <2>2, <2>3 DEF OpenOK
<1>10. ParkedOK' /\ SentOK'
  BY <1>5, <1>6, <1>8 DEF ForwardInv, DatabaseOK, ParkedOK, SentOK
<1>11. \A s \in Requests \ {r} : SameRecord(s)
  <2> SUFFICES ASSUME NEW s \in Requests \ {r} PROVE SameRecord(s)
    OBVIOUS
  <2>1. \A b \in Attempts : aReq'[b] = s => b # a
    BY <1>5
  <2> QED BY <1>2, <1>5, <1>8, <2>1 DEF SameRecord
<1>12. RequestOK(r)'
  <2>1. RequestOK(r) /\ pc[r] \in Open
    BY <1>1 DEF ForwardInv, Open
  <2>2. result[r] = None /\ answer[r] = None /\ r \notin turns /\ NotSuccess(r) /\ ~committed[r]
    BY <1>1, <2>1, OpenFacts
  <2>3. pc'[r] = "lock" /\ pc'[r] \in Open
    BY <1>1 DEF ForwardInv, ForwardTypeOK, Open, Early
  <2>4. HoldsOK(r)'
    BY <1>4, <1>5, <1>6, <1>8, <2>3 DEF HoldsOK, Late
  <2>5. NotSuccess(r)'
    <3>1. \A b \in DOMAIN pending : b \in Active
      BY ActiveFacts
    <3>2. \A b \in DOMAIN pending : aReq'[b] # r
      BY <1>5, <1>6, <3>1, ActiveFacts
    <3> QED BY <1>5, <1>8, <3>2 DEF NotSuccess
  <2> QED BY <1>8, <2>2, <2>3, <2>4, <2>5, OpenNext
<1>13. "lock" \in Early \cup Late \cup Outside /\ result[r] \in Results /\ IndexOK'
  BY <1>8, PlacesFact DEF ForwardInv, ForwardTypeOK, IndexOK
<1>14. index' \in [Requests -> Nat]
  BY <1>8 DEF ForwardInv, ForwardTypeOK
<1> QED BY <1>1, <1>5, <1>8, <1>9, <1>10, <1>11, <1>12, <1>13, <1>14, WriteMove DEF DatabaseOK
\* The dispatch mark, whether or not its caller learns of it.
LEMMA MarkStep ==
  ASSUME ForwardInv, NEW r \in Requests, MarkDispatching(Current(r)), At(r, "mark"),
         NEW where \in {"send", "undo"}, Goto(r, where), UNCHANGED <<localVars, worldVars, parkVars, procVars>>
  PROVE  ForwardInv'
<1> DEFINE a == Current(r)
<1>1. /\ up /\ pc[r] = "mark" /\ pc' = [pc EXCEPT ![r] = where]
      /\ UNCHANGED <<pending, sent, form, index, result, committed, gone, answer, turns, stored, up>>
  BY DEF At, Goto, localVars, worldVars, parkVars, procVars
<1>2. aState[a] = "reserved" /\ aState' = [aState EXCEPT ![a] = "dispatching"] /\ UNCHANGED <<rState, aReq>>
  BY DEF MarkDispatching
<1>3. a \in Attempts /\ Current(r)' = a
  BY <1>1, CurrentFact DEF ForwardInv, Current
<1>4. aReq[a] = r /\ a \notin DOMAIN pending
  BY <1>1 DEF ForwardInv, RequestOK, HoldsOK, Early
<1> HIDE DEF a
<1>5. /\ aState' \in [Attempts -> AttemptStates] /\ aState'[a] = "dispatching"
      /\ \A b \in Attempts \ {a} : aState'[b] = aState[b]
      /\ aReq' \in [Attempts -> Requests \cup {Unknown}] /\ rState' \in [Requests -> RequestStates]
  BY <1>2, <1>3 DEF ForwardInv, ForwardTypeOK, AttemptStates, ActiveStates
<1>6. Active' = Active
  BY <1>2, <1>3, <1>5 DEF Active, ActiveStates
<1>7. DatabaseOK'
  <2>1. \A b \in Active : aState[b] # "streaming" => aState'[b] # "streaming"
    BY <1>5, ActiveFacts
  <2>2. OpenOK'
    BY <1>2, <1>6, <2>1 DEF ForwardInv, DatabaseOK, OpenOK
  <2>3. ParkedOK'
    BY <1>1, <1>2, <1>5 DEF ForwardInv, DatabaseOK, ParkedOK
  <2>4. SentOK'
    BY <1>1, <1>2, <1>5 DEF ForwardInv, DatabaseOK, SentOK, SettledStates
  <2> QED BY <2>2, <2>3, <2>4 DEF DatabaseOK
<1>8. \A s \in Requests \ {r} : SameRecord(s)
  BY <1>1, <1>2, <1>4, <1>5 DEF SameRecord
<1>9. RequestOK(r)'
  <2>1. pc'[r] = where /\ pc'[r] \in Open /\ pc[r] \in Open /\ RequestOK(r)
    BY <1>1 DEF ForwardInv, ForwardTypeOK, Open, Early
  <2>2. result[r] = None /\ answer[r] = None /\ r \notin turns /\ NotSuccess(r) /\ ~committed[r]
    BY <1>1, <2>1, OpenFacts
  <2>3. HoldsOK(r)'
    BY <1>1, <1>2, <1>3, <1>4, <1>5, <2>1 DEF HoldsOK
  <2>4. NotSuccess(r)'
    BY <1>1, <1>2, <2>2 DEF NotSuccess
  <2> QED BY <1>1, <2>1, <2>2, <2>3, <2>4, OpenNext
<1>10. where \in Early \cup Late \cup Outside /\ result[r] \in Results /\ IndexOK' /\ index' \in [Requests -> Nat]
  BY <1>1, PlacesFact DEF ForwardInv, ForwardTypeOK, IndexOK
<1> QED BY <1>1, <1>5, <1>7, <1>8, <1>9, <1>10, WriteMove

LEMMA UndoStep ==
  ASSUME ForwardInv, NEW r \in Requests, Undo(r)
  PROVE  ForwardInv'
<1> DEFINE a == Current(r)
<1>1. /\ up /\ pc[r] = "undo" /\ Return({r}) /\ answer' = [answer EXCEPT ![r] = "error"]
      /\ UNCHANGED <<sent, stored, turns, pending, up>>
      /\ CancelBeforeDispatch(a) \/ UNCHANGED vars
  BY DEF Undo, At, Gives, procVars
<1>2. NotSuccess(r) /\ r \notin turns
  BY <1>1, OpenFacts DEF ForwardInv, Open, Early
<1>3. aReq[a] = r /\ a \notin DOMAIN pending /\ a \in Attempts
  BY <1>1, CurrentFact DEF ForwardInv, RequestOK, HoldsOK, Early
<1> HIDE DEF a
<1>4. CASE CancelBeforeDispatch(a)
  <2>1. /\ aState[a] = "reserved" /\ aState' = [aState EXCEPT ![a] = "cancelled_before_dispatch"]
        /\ rState' = [rState EXCEPT ![r] = "cancelled"] /\ UNCHANGED aReq
    BY <1>3, <1>4 DEF CancelBeforeDispatch
  <2>2. a \in Active /\ a \notin sent
    BY <1>3, <2>1 DEF Active, ActiveStates, ForwardInv, DatabaseOK, SentOK, SettledStates
  <2>3. "cancelled_before_dispatch" \in AttemptStates \ ActiveStates /\ "cancelled" \in RequestStates
    BY DEF AttemptStates, ActiveStates, RequestStates, SettledStates
  <2>4. DOMAIN pending' = DOMAIN pending \ {a} /\ \A b \in DOMAIN pending' : pending'[b] = pending[b]
    BY <1>1, <1>3
  <2>5. /\ rState' \in [Requests -> RequestStates] /\ aState' \in [Attempts -> AttemptStates]
        /\ DatabaseOK' /\ NotSuccess(r)' /\ \A s \in Requests \ {r} : SameRecord(s)
    BY <1>1, <1>3, <2>1, <2>2, <2>3, <2>4, CloseAttempt
  <2>6. aReq' \in [Attempts -> Requests \cup {Unknown}]
    BY <2>1 DEF ForwardInv, ForwardTypeOK
  <2> QED BY <1>1, <1>2, <2>5, <2>6, ReturnStep DEF Answers
<1>5. CASE UNCHANGED vars
  <2>1. SameDatabase
    BY <1>1, <1>5 DEF SameDatabase, vars, lifeVars
  <2>2. NotSuccess(r)'
    BY <1>2, <2>1 DEF NotSuccess, SameDatabase
  <2> QED BY <1>1, <1>2, <2>1, <2>2, Untouched, ReturnStep DEF Answers
<1> QED BY <1>1, <1>4, <1>5

LEMMA ReplyStep ==
  ASSUME ForwardInv, NEW r \in Requests, Reply(r)
  PROVE  ForwardInv'
<1> DEFINE what == IF answer[r] # None THEN answer[r]
                   ELSE IF result[r] \in {"ok", "failed"} THEN result[r]
                   ELSE IF committed[r] \/ result[r] = "interrupted" THEN "partial" ELSE "error"
<1>1. /\ up /\ pc[r] = "reply" /\ Return({r}) /\ answer' = [answer EXCEPT ![r] = what]
      /\ UNCHANGED <<vars, sent, stored, turns, pending, up>>
  BY DEF Reply, At, Gives, parkVars, procVars
<1>2. RequestOK(r)
  BY DEF ForwardInv
<1>3. answer[r] = "ok" => result[r] \in {"ok", "interrupted"}
  BY <1>1, <1>2 DEF RequestOK, AnswerOK
<1>4. answer[r] = "failed" => result[r] = "failed"
  BY <1>1, <1>2 DEF RequestOK, AnswerOK
<1>5. answer[r] \in {None, "ok", "failed"}
  BY <1>1, <1>2 DEF RequestOK, AnswerOK
<1>6. what \in Answers /\ (what \in {"failed", "error", "partial"} => result[r] # "ok")
      /\ (what = "ok" => result[r] \in {"ok", "interrupted"})
  BY <1>3, <1>4, <1>5 DEF Answers, None
<1> HIDE DEF what
<1>7. SameDatabase
  BY <1>1 DEF SameDatabase, vars, lifeVars
<1>8. (NotSuccess(r) => NotSuccess(r)') /\ (NotFailure(r) => NotFailure(r)')
  BY <1>7 DEF SameDatabase, NotSuccess, NotFailure
<1>9. what \in {"failed", "error", "partial"} => NotSuccess(r)'
  BY <1>1, <1>2, <1>6, <1>8 DEF RequestOK, RecordOK, OwesNone
<1>10. what = "ok" \/ r \in turns => NotFailure(r)'
  BY <1>1, <1>2, <1>6, <1>8 DEF RequestOK, RecordOK, OwesSuccess
<1>11. /\ DatabaseOK' /\ \A s \in Requests \ {r} : SameRecord(s)
       /\ aState' \in [Attempts -> AttemptStates] /\ aReq' \in [Attempts -> Requests \cup {Unknown}]
       /\ rState' \in [Requests -> RequestStates]
  BY <1>1, <1>7, Untouched
<1> QED BY <1>1, <1>6, <1>9, <1>10, <1>11, ReturnStep

LEMMA RetryStep ==
  ASSUME ForwardInv, NEW r \in Requests, Retry(r)
  PROVE  ForwardInv'
<1>1. up /\ pc[r] = "retry" /\ UNCHANGED <<answer, sent, stored, turns, pending, up>>
  BY DEF Retry, At, worldVars, parkVars, procVars
<1>2. RequestOK(r)
  BY DEF ForwardInv
<1>3. answer[r] = None /\ r \notin turns
  BY <1>1, <1>2 DEF RequestOK, AnswerOK
<1>4. NotSuccess(r)
  BY <1>1, <1>2 DEF RequestOK, RecordOK, OwesNone
<1>5. ~committed[r] /\ index[r] < Len(Targets[r])
  BY <1>1, <1>2 DEF RequestOK, ResultOK
<1>6. CASE Return({r}) /\ CloseFailedRequest(r)
  <2>1. rState[r] = "in_progress" /\ rState' = [rState EXCEPT ![r] = "failed"] /\ UNCHANGED <<aState, aReq>>
    BY <1>6 DEF CloseFailedRequest
  <2>2. /\ rState' \in [Requests -> RequestStates] /\ DatabaseOK'
        /\ \A s \in Requests \ {r} : SameRecord(s)
    BY <1>1, <2>1, CloseRecord DEF SettledStates
  <2>3. aState' \in [Attempts -> AttemptStates] /\ aReq' \in [Attempts -> Requests \cup {Unknown}]
    BY <2>1 DEF ForwardInv, ForwardTypeOK
  <2> QED BY <1>1, <1>3, <1>6, <2>2, <2>3, ReturnStep DEF Answers, None
<1>7. CASE Return({r}) /\ UNCHANGED vars
  <2>1. SameDatabase
    BY <1>1, <1>7 DEF SameDatabase, vars, lifeVars
  <2> QED BY <1>1, <1>3, <1>7, <2>1, Untouched, ReturnStep DEF Answers, None
<1>8. CASE /\ index' = [index EXCEPT ![r] = @ + 1] /\ result' = [result EXCEPT ![r] = None]
           /\ pc' = [pc EXCEPT ![r] = "admit"] /\ UNCHANGED <<vars, form, committed, gone>>
  <2>1. SameDatabase
    BY <1>1, <1>8 DEF SameDatabase, vars, lifeVars
  <2>2. index' \in [Requests -> Nat] /\ \A s \in Requests \ {r} : index'[s] = index[s]
    BY <1>8 DEF ForwardInv, ForwardTypeOK
  <2>3. IndexOK'
    <3>1. index'[r] = index[r] + 1 /\ index[r] \in Nat
      BY <1>8 DEF ForwardInv, ForwardTypeOK
    <3>2. Len(Targets[r]) \in Nat
      <4>1. AttemptOf[r] \in Seq(Attempts) /\ Len(AttemptOf[r]) = Len(Targets[r])
        BY RouteAssumption
      <4> QED BY <4>1
    <3>3. index'[r] \in 1..Len(Targets[r])
      BY <1>5, <3>1, <3>2
    <3> QED BY <2>2, <3>3 DEF ForwardInv, IndexOK
  <2>4. pc'[r] = "admit" /\ result'[r] = None /\ pc'[r] \in Open
    BY <1>8 DEF ForwardInv, ForwardTypeOK, Open
  <2>5. HoldsOK(r)'
    BY <2>4 DEF HoldsOK, Early, Late
  <2>6. NotSuccess(r)'
    BY <1>4, <2>1 DEF NotSuccess, SameDatabase
  <2>7. RequestOK(r)'
    BY <1>1, <1>3, <1>5, <1>8, <2>4, <2>5, <2>6, OpenNext
  <2>8. "admit" \in Early \cup Late \cup Outside /\ None \in Results
    BY PlacesFact
  <2> QED BY <1>1, <1>8, <2>1, <2>2, <2>3, <2>7, <2>8, Untouched, WriteMove
<1> QED BY <1>6, <1>7, <1>8 DEF Retry, Goto
-----------------------------------------------------------------------------
(* Settlement and publication. *)

\* What a handler decides from its result when it settles.
SettleOK(r) ==
  /\ StateOf(r) \in SettledStates /\ Final(r) \in BOOLEAN
  /\ AfterSettle(r) \in {"publish", "finalize", "retry", "reply"}
  /\ AfterSettle(r) = "reply" => Final(r) /\ (Stores(r) /\ result[r] = "ok" => gone[r])
  /\ AfterSettle(r) # "reply" => ~Final(r) /\ answer[r] = None /\ r \notin turns /\ ~committed[r]
  /\ AfterSettle(r) = "publish" => Publishes(r)
  /\ AfterSettle(r) = "finalize" => result[r] = "unstored"
  /\ AfterSettle(r) = "retry" => index[r] < Len(Targets[r])
  /\ Publishes(r) => AfterSettle(r) = "publish" /\ result[r] \in {"ok", "failed"} /\ Stores(r)
  /\ result[r] # "ok" /\ AfterSettle(r) = "reply" => StateOf(r) # "succeeded"
  /\ result[r] \in {"ok", "interrupted"} => StateOf(r) \in Favourable
  /\ result[r] # "unsettled"

LEMMA SettleFacts ==
  ASSUME ForwardInv, NEW r \in Requests, pc[r] = "settle"
  PROVE  SettleOK(r)
<1>1. RequestOK(r)
  BY DEF ForwardInv
<1>2. /\ result[r] \in Ended /\ (result[r] = "unstored" => form[r] = "attached")
      /\ committed[r] => form[r] \in {"stream", "translated"}
  BY <1>1 DEF RequestOK, ResultOK
<1>3. /\ answer[r] # None => Session(r) /\ answer[r] \in {"ok", "failed"}
      /\ answer[r] = "ok" => result[r] \in {"ok", "interrupted"}
      /\ answer[r] = "failed" => result[r] = "failed"
      /\ r \in turns => result[r] = "ok" /\ form[r] = "attached"
  BY <1>1 DEF RequestOK, AnswerOK
<1>4. Publishes(r) <=> Stores(r) /\ ~gone[r] /\ result[r] \in {"ok", "failed"}
  BY DEF Publishes
<1>5. Retrying(r) => result[r] = "retryable" /\ index[r] < Len(Targets[r]) /\ ~committed[r]
  BY DEF Retrying
<1>6. Publishes(r) => answer[r] = None /\ r \notin turns /\ ~committed[r]
  BY <1>2, <1>3, <1>4 DEF Stores, Session, Sessions
<1>7. result[r] = "unstored" => answer[r] = None /\ r \notin turns /\ ~committed[r]
  BY <1>2, <1>3 DEF Session, Sessions
<1>8. Retrying(r) => answer[r] = None /\ r \notin turns
  BY <1>3, <1>5
<1>9. Final(r) <=> ~Retrying(r) /\ result[r] # "unstored" /\ ~Publishes(r)
  BY DEF Final
<1>10. /\ StateOf(r) \in SettledStates
       /\ result[r] \in {"ok", "interrupted"} => StateOf(r) \in Favourable
       /\ StateOf(r) = "succeeded" => result[r] \in {"ok", "unstored"}
  BY DEF StateOf, SettledStates, Favourable
<1>11. AfterSettle(r) = IF Publishes(r) THEN "publish" ELSE IF result[r] = "unstored" THEN "finalize"
                        ELSE IF Retrying(r) THEN "retry" ELSE "reply"
  BY DEF AfterSettle
<1>12. AfterSettle(r) = "reply" => ~Publishes(r) /\ result[r] # "unstored" /\ ~Retrying(r)
  BY <1>11
<1>13. AfterSettle(r) # "reply" => Publishes(r) \/ result[r] = "unstored" \/ Retrying(r)
  BY <1>11
<1>14. Publishes(r) \in BOOLEAN /\ Retrying(r) \in BOOLEAN /\ gone[r] \in BOOLEAN
  BY DEF Publishes, Retrying, ForwardInv, ForwardTypeOK
<1>15. Final(r) \in BOOLEAN
  BY DEF Final
<1> QED BY <1>2, <1>4, <1>5, <1>6, <1>7, <1>8, <1>9, <1>10, <1>11, <1>12, <1>13, <1>15 DEF SettleOK, Ended

\* The handler goes on from a settlement that happened or was parked.
LEMMA AfterSettleNext ==
  ASSUME ForwardInv, NEW r \in Requests, pc[r] = "settle", SettleOK(r), pc'[r] = AfterSettle(r),
         UNCHANGED <<form, index, result, committed, gone, answer, turns, stored>>,
         AfterSettle(r) # "reply" => NotSuccess(r)',
         AfterSettle(r) = "reply" /\ result[r] # "ok" => NotSuccess(r)',
         AfterSettle(r) = "reply" /\ result[r] \in {"ok", "interrupted"} => NotFailure(r)'
  PROVE  RequestOK(r)'
<1>1. RequestOK(r)
  BY DEF ForwardInv
<1>2. committed[r] => form[r] \in {"stream", "translated"}
  BY <1>1 DEF RequestOK, ResultOK
<1>3. /\ answer[r] # None => Session(r) /\ answer[r] \in {"ok", "failed"}
      /\ answer[r] = "ok" => result[r] \in {"ok", "interrupted"}
      /\ answer[r] = "failed" => result[r] = "failed"
      /\ r \in turns => result[r] = "ok" /\ form[r] = "attached"
  BY <1>1 DEF RequestOK, AnswerOK
<1>4. HoldsOK(r)'
  BY DEF HoldsOK, SettleOK, Early, Late
<1>5. ResultOK(r)'
  BY <1>2 DEF ResultOK, SettleOK, Early, Stores
<1>6. AnswerOK(r)'
  BY <1>3 DEF AnswerOK, SettleOK, Session, None
<1>7. answer[r] \in {None, "ok", "failed"}
  BY <1>3
<1>8. RecordOK(r)'
  BY <1>3, <1>7 DEF RecordOK, OwesNone, OwesSuccess, SettleOK, None
<1> QED BY <1>4, <1>5, <1>6, <1>8 DEF RequestOK

\* What a settlement does to the columns the invariant reads.
LEMMA SettleDoes ==
  ASSUME ForwardInv, NEW a \in Active, NEW state, NEW final \in BOOLEAN,
         Settle(a, state, "unknown", Unknown, Unknown, final)
  PROVE  /\ aState' = [aState EXCEPT ![a] = state]
         /\ rState' = [rState EXCEPT ![aReq[a]] = IF final THEN state ELSE "in_progress"]
         /\ UNCHANGED aReq
  BY DEF Settle

LEMMA SettleAttemptStep ==
  ASSUME ForwardInv, NEW r \in Requests, SettleAttempt(r)
  PROVE  ForwardInv'
<1> DEFINE a == Current(r)
           outcome == IF Final(r) THEN StateOf(r) ELSE "in_progress"
<1>1. /\ up /\ pc[r] = "settle" /\ pc' = [pc EXCEPT ![r] = AfterSettle(r)]
      /\ UNCHANGED <<pending, sent, form, index, result, committed, gone, answer, turns, stored, up>>
      /\ Settle(a, StateOf(r), "unknown", Unknown, Unknown, Final(r))
  BY DEF SettleAttempt, At, Goto, localVars, worldVars, parkVars, procVars
<1>2. SettleOK(r)
  BY <1>1, SettleFacts
<1>3. a \in Attempts /\ aReq[a] = r /\ a \notin DOMAIN pending /\ aState[a] = "dispatching"
  BY <1>1, CurrentFact DEF ForwardInv, RequestOK, HoldsOK, Late
<1>4. a \in Active
  BY <1>3 DEF Active, ActiveStates
<1> HIDE DEF a
<1>5. /\ aState' = [aState EXCEPT ![a] = StateOf(r)] /\ rState' = [rState EXCEPT ![r] = outcome]
      /\ UNCHANGED aReq
  BY <1>1, <1>2, <1>3, <1>4, SettleDoes DEF SettleOK
<1>6. /\ outcome \in RequestStates /\ StateOf(r) \in AttemptStates \ ActiveStates /\ StateOf(r) \in SettledStates
      /\ outcome # "succeeded" \/ (Final(r) /\ StateOf(r) = "succeeded")
      /\ Final(r) => outcome = StateOf(r)
  BY <1>2 DEF SettleOK, RequestStates, AttemptStates, ActiveStates, SettledStates
<1> HIDE DEF outcome
<1>7. DOMAIN pending' = DOMAIN pending \ {a} /\ \A b \in DOMAIN pending' : pending'[b] = pending[b]
  BY <1>1, <1>3
<1>8. /\ rState' \in [Requests -> RequestStates] /\ aState' \in [Attempts -> AttemptStates]
      /\ DatabaseOK' /\ \A s \in Requests \ {r} : SameRecord(s)
      /\ outcome # "succeeded" => NotSuccess(r)'
      /\ outcome \in Favourable => NotFailure(r)'
  BY <1>1, <1>3, <1>4, <1>5, <1>6, <1>7, CloseAttempt
<1>9. pc'[r] = AfterSettle(r)
  BY <1>1 DEF ForwardInv, ForwardTypeOK
<1>10. /\ AfterSettle(r) # "reply" => NotSuccess(r)'
       /\ AfterSettle(r) = "reply" /\ result[r] # "ok" => NotSuccess(r)'
       /\ AfterSettle(r) = "reply" /\ result[r] \in {"ok", "interrupted"} => NotFailure(r)'
  BY <1>2, <1>6, <1>8 DEF SettleOK
<1>11. RequestOK(r)'
  BY <1>1, <1>2, <1>9, <1>10, AfterSettleNext
<1>12. /\ AfterSettle(r) \in Early \cup Late \cup Outside /\ result[r] \in Results
       /\ IndexOK' /\ index' \in [Requests -> Nat] /\ aReq' \in [Attempts -> Requests \cup {Unknown}]
  BY <1>1, <1>2, <1>5, PlacesFact DEF ForwardInv, ForwardTypeOK, IndexOK, SettleOK
<1> QED BY <1>1, <1>8, <1>11, <1>12, WriteMove

\* A settlement that is parked, or dropped for want of room.
LEMMA DeferFacts ==
  ASSUME ForwardInv, NEW r \in Requests, pc[r] = "settle", NEW final \in BOOLEAN, NEW state \in SettledStates,
         Defer(Current(r), [state |-> state, final |-> final]), UNCHANGED <<vars, sent>>
  PROVE  /\ DatabaseOK' /\ \A s \in Requests \ {r} : SameRecord(s)
         /\ ~final \/ state # "succeeded" => NotSuccess(r)'
         /\ final /\ state \in Favourable => NotFailure(r)'
<1> DEFINE a == Current(r)
<1>1. UNCHANGED <<aState, aReq, rState>>
  BY DEF vars, lifeVars
<1>2. a \in Attempts /\ aReq[a] = r /\ a \notin DOMAIN pending /\ aState[a] = "dispatching"
  BY CurrentFact DEF ForwardInv, RequestOK, HoldsOK, Late
<1>3. NotSuccess(r) /\ NotFailure(r)
  BY HeldIsNotFailure DEF ForwardInv, RequestOK, RecordOK, OwesNone, Late
<1>4. pending' \in {pending, [b \in DOMAIN pending \cup {a} |-> IF b = a THEN [state |-> state, final |-> final] ELSE pending[b]]}
  BY DEF Defer, a
<1> HIDE DEF a
<1>5. /\ DOMAIN pending' \in {DOMAIN pending, DOMAIN pending \cup {a}}
      /\ \A b \in DOMAIN pending' : \/ b \in DOMAIN pending /\ b # a /\ pending'[b] = pending[b]
                                    \/ b = a /\ pending'[b].state = state /\ pending'[b].final = final
  BY <1>2, <1>4
<1>6. OpenOK'
  <2>1. Active' = Active
    BY <1>1 DEF Active
  <2> QED BY <1>1, <2>1 DEF ForwardInv, DatabaseOK, OpenOK
<1>7. ParkedOK'
  BY <1>1, <1>2, <1>5 DEF ForwardInv, DatabaseOK, ParkedOK
<1>8. SentOK'
  BY <1>1 DEF ForwardInv, DatabaseOK, SentOK
<1>9. \A s \in Requests \ {r} : SameRecord(s)
  BY <1>1, <1>2, <1>5 DEF SameRecord
<1>10. ~final \/ state # "succeeded" => NotSuccess(r)'
  BY <1>1, <1>3, <1>5 DEF NotSuccess
<1>11. final /\ state \in Favourable => NotFailure(r)'
  BY <1>1, <1>3, <1>5 DEF NotFailure
<1> QED BY <1>6, <1>7, <1>8, <1>9, <1>10, <1>11 DEF DatabaseOK

LEMMA SettleDeferredStep ==
  ASSUME ForwardInv, NEW r \in Requests, SettleDeferred(r)
  PROVE  ForwardInv'
<1>1. /\ up /\ pc[r] = "settle" /\ Defer(Current(r), [state |-> StateOf(r), final |-> Final(r)])
      /\ UNCHANGED <<vars, sent, form, index, committed, gone, answer, turns, stored, up>>
      /\ \/ Publishes(r) /\ result' = [result EXCEPT ![r] = "unsettled"] /\ pc' = [pc EXCEPT ![r] = "reply"]
         \/ ~Publishes(r) /\ result' = result /\ pc' = [pc EXCEPT ![r] = AfterSettle(r)]
  BY DEF SettleDeferred, At, Goto, worldVars, procVars
<1>2. SettleOK(r)
  BY <1>1, SettleFacts
<1>3. /\ DatabaseOK' /\ \A s \in Requests \ {r} : SameRecord(s)
      /\ ~Final(r) \/ StateOf(r) # "succeeded" => NotSuccess(r)'
      /\ Final(r) /\ StateOf(r) \in Favourable => NotFailure(r)'
  BY <1>1, <1>2, DeferFacts DEF SettleOK
<1>4. /\ AfterSettle(r) \in Early \cup Late \cup Outside /\ "reply" \in Early \cup Late \cup Outside
      /\ "unsettled" \in Results /\ IndexOK' /\ index' \in [Requests -> Nat]
      /\ aState' \in [Attempts -> AttemptStates] /\ aReq' \in [Attempts -> Requests \cup {Unknown}]
      /\ rState' \in [Requests -> RequestStates]
  BY <1>1, <1>2, PlacesFact DEF ForwardInv, ForwardTypeOK, IndexOK, SettleOK, Results, vars, lifeVars
<1>5. CASE ~Publishes(r) /\ result' = result /\ pc' = [pc EXCEPT ![r] = AfterSettle(r)]
  <2>1. pc'[r] = AfterSettle(r)
    BY <1>5 DEF ForwardInv, ForwardTypeOK
  <2>2. /\ AfterSettle(r) # "reply" => NotSuccess(r)'
        /\ AfterSettle(r) = "reply" /\ result[r] # "ok" => NotSuccess(r)'
        /\ AfterSettle(r) = "reply" /\ result[r] \in {"ok", "interrupted"} => NotFailure(r)'
    BY <1>2, <1>3 DEF SettleOK
  <2>3. RequestOK(r)'
    BY <1>1, <1>2, <1>5, <2>1, <2>2, AfterSettleNext
  <2> QED BY <1>1, <1>3, <1>4, <1>5, <2>3, WriteMove
<1>6. CASE Publishes(r) /\ result' = [result EXCEPT ![r] = "unsettled"] /\ pc' = [pc EXCEPT ![r] = "reply"]
  <2>1. pc'[r] = "reply" /\ result'[r] = "unsettled"
    BY <1>6 DEF ForwardInv, ForwardTypeOK
  <2>2. ~Final(r) /\ answer[r] = None /\ r \notin turns /\ ~committed[r]
    BY <1>2, <1>6 DEF SettleOK
  <2>3. HoldsOK(r)' /\ ResultOK(r)'
    BY <1>1, <2>1, <2>2 DEF HoldsOK, ResultOK, Early, Late
  <2>4. AnswerOK(r)'
    BY <1>1, <2>1, <2>2 DEF AnswerOK, None
  <2>5. RecordOK(r)'
    BY <1>1, <1>3, <2>1, <2>2 DEF RecordOK, OwesSuccess, None
  <2> QED BY <1>1, <1>3, <1>4, <1>6, <2>3, <2>4, <2>5, WriteMove DEF RequestOK
<1> QED BY <1>1, <1>5, <1>6

LEMMA PublishStep ==
  ASSUME ForwardInv, NEW r \in Requests, Publish(r)
  PROVE  ForwardInv'
<1>1. /\ up /\ pc[r] = "publish"
      /\ UNCHANGED <<pending, sent, form, index, committed, gone, answer, turns, up>>
      /\ \/ /\ FinalizeRequest(r, IF result[r] = "ok" THEN "succeeded" ELSE "failed")
            /\ stored' = stored \cup {r} /\ pc' = [pc EXCEPT ![r] = "reply"] /\ result' = result
         \/ /\ UNCHANGED <<vars, stored>> /\ result' = [result EXCEPT ![r] = "unstored"]
            /\ pc' = [pc EXCEPT ![r] = "finalize"]
  BY DEF Publish, At, Goto, parkVars, procVars
<1>2. RequestOK(r)
  BY DEF ForwardInv
<1>3. result[r] \in {"ok", "failed"} /\ Stores(r) /\ ~committed[r]
  BY <1>1, <1>2 DEF RequestOK, ResultOK
<1>4. answer[r] = None /\ r \notin turns
  BY <1>1, <1>2 DEF RequestOK, AnswerOK
<1>5. NotSuccess(r)
  BY <1>1, <1>2 DEF RequestOK, RecordOK, OwesNone
<1>6. /\ {"reply", "finalize"} \subseteq Early \cup Late \cup Outside
      /\ "unstored" \in Results /\ IndexOK' /\ index' \in [Requests -> Nat]
  BY <1>1, PlacesFact DEF ForwardInv, ForwardTypeOK, IndexOK, Results, Ended
<1>7. CASE /\ FinalizeRequest(r, IF result[r] = "ok" THEN "succeeded" ELSE "failed")
           /\ stored' = stored \cup {r} /\ pc' = [pc EXCEPT ![r] = "reply"] /\ result' = result
  <2> DEFINE state == IF result[r] = "ok" THEN "succeeded" ELSE "failed"
  <2>1. rState[r] = "in_progress" /\ rState' = [rState EXCEPT ![r] = state] /\ UNCHANGED <<aState, aReq>>
    BY <1>7 DEF FinalizeRequest
  <2>2. /\ state \in SettledStates /\ (result[r] = "ok" => state \in Favourable)
        /\ (result[r] # "ok" => state # "succeeded")
    BY DEF SettledStates, Favourable
  <2> HIDE DEF state
  <2>3. /\ rState' \in [Requests -> RequestStates]
        /\ DatabaseOK' /\ \A s \in Requests \ {r} : SameRecord(s)
        /\ state # "succeeded" => NotSuccess(r)'
        /\ state \in Favourable => NotFailure(r)'
    BY <1>1, <2>1, <2>2, CloseRecord
  <2>4. pc'[r] = "reply"
    BY <1>7 DEF ForwardInv, ForwardTypeOK
  <2>5. HoldsOK(r)' /\ ResultOK(r)'
    BY <1>1, <1>3, <1>7, <2>4 DEF HoldsOK, ResultOK, Early, Late
  <2>6. AnswerOK(r)'
    BY <1>1, <1>4, <2>4 DEF AnswerOK, None
  <2>7. RecordOK(r)'
    BY <1>1, <1>3, <1>4, <1>7, <2>2, <2>3, <2>4 DEF RecordOK, OwesNone, OwesSuccess, None
  <2>8. aState' \in [Attempts -> AttemptStates] /\ aReq' \in [Attempts -> Requests \cup {Unknown}]
    BY <2>1 DEF ForwardInv, ForwardTypeOK
  <2> QED BY <1>1, <1>6, <1>7, <2>3, <2>5, <2>6, <2>7, <2>8, WriteMove DEF RequestOK
<1>8. CASE /\ UNCHANGED <<vars, stored>> /\ result' = [result EXCEPT ![r] = "unstored"]
           /\ pc' = [pc EXCEPT ![r] = "finalize"]
  <2>1. SameDatabase
    BY <1>1, <1>8 DEF SameDatabase, vars, lifeVars
  <2>2. pc'[r] = "finalize" /\ result'[r] = "unstored"
    BY <1>8 DEF ForwardInv, ForwardTypeOK
  <2>3. HoldsOK(r)' /\ ResultOK(r)'
    BY <1>1, <1>3, <2>2 DEF HoldsOK, ResultOK, Early, Late
  <2>4. AnswerOK(r)'
    BY <1>1, <1>4, <2>2 DEF AnswerOK, None
  <2>5. NotSuccess(r)'
    BY <1>5, <2>1 DEF NotSuccess, SameDatabase
  <2>6. RecordOK(r)'
    BY <1>1, <1>4, <2>2, <2>5 DEF RecordOK, OwesSuccess, None
  <2> QED BY <1>1, <1>6, <1>8, <2>1, <2>3, <2>4, <2>6, Untouched, WriteMove DEF RequestOK
<1> QED BY <1>1, <1>7, <1>8

LEMMA FinalizeFailedStep ==
  ASSUME ForwardInv, NEW r \in Requests, FinalizeFailed(r)
  PROVE  ForwardInv'
<1>1. /\ up /\ pc[r] = "finalize" /\ pc' = [pc EXCEPT ![r] = "reply"]
      /\ UNCHANGED <<pending, sent, form, index, result, committed, gone, answer, turns, stored, up>>
      /\ FinalizeRequest(r, "failed") \/ UNCHANGED vars
  BY DEF FinalizeFailed, At, Goto, localVars, worldVars, parkVars, procVars
<1>2. RequestOK(r)
  BY DEF ForwardInv
<1>3. result[r] = "unstored" /\ ~committed[r]
  BY <1>1, <1>2 DEF RequestOK, ResultOK
<1>4. answer[r] = None /\ r \notin turns
  BY <1>1, <1>2 DEF RequestOK, AnswerOK
<1>5. NotSuccess(r)
  BY <1>1, <1>2 DEF RequestOK, RecordOK, OwesNone
<1>6. /\ "reply" \in Early \cup Late \cup Outside /\ result[r] \in Results /\ IndexOK' /\ index' \in [Requests -> Nat]
  BY <1>1, PlacesFact DEF ForwardInv, ForwardTypeOK, IndexOK
<1>7. pc'[r] = "reply"
  BY <1>1 DEF ForwardInv, ForwardTypeOK
<1>8. HoldsOK(r)' /\ ResultOK(r)' /\ AnswerOK(r)'
  BY <1>1, <1>3, <1>4, <1>7 DEF HoldsOK, ResultOK, AnswerOK, Early, Late, None
<1>9. /\ NotSuccess(r)' /\ DatabaseOK' /\ \A s \in Requests \ {r} : SameRecord(s)
      /\ aState' \in [Attempts -> AttemptStates] /\ aReq' \in [Attempts -> Requests \cup {Unknown}]
      /\ rState' \in [Requests -> RequestStates]
  <2>1. CASE FinalizeRequest(r, "failed")
    <3>1. rState[r] = "in_progress" /\ rState' = [rState EXCEPT ![r] = "failed"] /\ UNCHANGED <<aState, aReq>>
      BY <2>1 DEF FinalizeRequest
    <3>2. /\ rState' \in [Requests -> RequestStates] /\ DatabaseOK' /\ NotSuccess(r)'
          /\ \A s \in Requests \ {r} : SameRecord(s)
      BY <1>1, <3>1, CloseRecord DEF SettledStates
    <3> QED BY <3>1, <3>2 DEF ForwardInv, ForwardTypeOK
  <2>2. CASE UNCHANGED vars
    <3>1. SameDatabase
      BY <1>1, <2>2 DEF SameDatabase, vars, lifeVars
    <3>2. NotSuccess(r)'
      BY <1>5, <3>1 DEF NotSuccess, SameDatabase
    <3> QED BY <1>1, <3>1, <3>2, Untouched
  <2> QED BY <1>1, <2>1, <2>2
<1>10. RecordOK(r)'
  BY <1>1, <1>3, <1>4, <1>7, <1>9 DEF RecordOK, OwesSuccess, None
<1> QED BY <1>1, <1>6, <1>8, <1>9, <1>10, WriteMove DEF RequestOK
-----------------------------------------------------------------------------
(* The worker, the repair, configuration writers and the end of the process. *)

\* A request at whose handler nobody moved keeps its part when its record does.
LEMMA QuietHandler ==
  ASSUME NEW r, RequestOK(r), SameHandler(r), HoldsOK(r)',
         NotSuccess(r) => NotSuccess(r)', OwesSuccess(r) => NotFailure(r)'
  PROVE  RequestOK(r)'
<1>1. ResultOK(r)'
  BY DEF RequestOK, ResultOK, SameHandler, Stores, Session
<1>2. AnswerOK(r)'
  BY DEF RequestOK, AnswerOK, SameHandler, Session
<1>3. RecordOK(r)'
  BY DEF RequestOK, RecordOK, SameHandler, OwesSuccess, OwesNone
<1> QED BY <1>1, <1>2, <1>3 DEF RequestOK

\* A handler that holds its attempt keeps the request reserved.
LEMMA HoldsReserved ==
  ASSUME ForwardInv, NEW r \in Requests, pc[r] \in Early \cup Late
  PROVE  Current(r) \in Active /\ aReq[Current(r)] = r /\ rState[r] = "reserved" /\ Current(r) \notin DOMAIN pending
<1>1. aReq[Current(r)] = r /\ Current(r) \in Active /\ Current(r) \notin DOMAIN pending
  BY CurrentFact DEF ForwardInv, RequestOK, HoldsOK, Active, ActiveStates
<1> QED BY <1>1, ActiveFacts

LEMMA RetryDeferredStep ==
  ASSUME ForwardInv, NEW a \in Attempts, RetryDeferred(a)
  PROVE  ForwardInv'
<1>0. a \in Active /\ aReq[a] \in Requests
  BY ActiveFacts DEF RetryDeferred
<1>01. PICK r \in Requests : r = aReq[a]
  BY <1>0
<1> DEFINE state == pending[a].state
           final == pending[a].final
           outcome == IF final THEN state ELSE "in_progress"
<1>1. /\ up /\ a \in DOMAIN pending /\ Settle(a, state, "unknown", Unknown, Unknown, final)
      /\ pending' = [b \in DOMAIN pending \ {a} |-> pending[b]]
      /\ UNCHANGED <<pc, form, index, result, committed, gone, answer, sent, stored, turns, up>>
  BY DEF RetryDeferred, localVars, worldVars, procVars
<1>2. state \in SettledStates /\ final \in BOOLEAN
  BY <1>1 DEF ForwardInv, DatabaseOK, ParkedOK
<1>3. a \in Active /\ r \in Requests /\ \A b \in Active : aReq[b] = r => b = a
  BY <1>0, <1>01, ActiveFacts
<1>4. /\ aState' = [aState EXCEPT ![a] = state] /\ rState' = [rState EXCEPT ![r] = outcome] /\ UNCHANGED aReq
  BY <1>01, <1>1, <1>2, <1>3, SettleDoes
<1>5. DOMAIN pending' = DOMAIN pending \ {a} /\ \A b \in DOMAIN pending' : pending'[b] = pending[b]
  BY <1>1
<1>6. NotSuccess(r) => outcome # "succeeded"
  BY <1>01, <1>1 DEF NotSuccess
<1>7. NotFailure(r) => outcome \in Favourable
  BY <1>01, <1>1 DEF NotFailure
<1>8. aReq[a] = r
  BY <1>01
<1>9. outcome \in RequestStates /\ state \in AttemptStates \ ActiveStates
  BY <1>2 DEF RequestStates, AttemptStates, ActiveStates, SettledStates
<1> HIDE DEF state, final, outcome
<1>10. /\ rState' \in [Requests -> RequestStates] /\ aState' \in [Attempts -> AttemptStates]
       /\ DatabaseOK' /\ \A s \in Requests \ {r} : SameRecord(s)
       /\ outcome # "succeeded" => NotSuccess(r)'
       /\ outcome \in Favourable => NotFailure(r)'
  BY <1>1, <1>2, <1>3, <1>4, <1>5, <1>8, <1>9, CloseAttempt
<1>11. \A s \in Requests : SameHandler(s)
  BY <1>1 DEF SameHandler
<1>12. RequestOK(r)'
  <2>1. RequestOK(r)
    BY <1>3 DEF ForwardInv
  <2>2. pc[r] \notin Early \cup Late
    BY <1>1, <1>3, HoldsReserved
  <2>3. HoldsOK(r)'
    BY <1>1, <2>2 DEF HoldsOK, Early, Late
  <2>4. OwesSuccess(r) => NotFailure(r)
    BY <2>1 DEF RequestOK, RecordOK
  <2> QED BY <1>3, <1>6, <1>7, <1>10, <1>11, <2>1, <2>3, <2>4, QuietHandler
<1>13. ForwardTypeOK' /\ IndexOK'
  BY <1>1, <1>4, <1>10 DEF ForwardInv, ForwardTypeOK, IndexOK
<1> QED BY <1>1, <1>3, <1>10, <1>11, <1>12, <1>13, OneStep DEF OthersSame

LEMMA RepairStep ==
  ASSUME ForwardInv, RepairRequest
  PROVE  ForwardInv'
<1>1. PICK S \in SUBSET Requests : RepairStaleRequests(S)
  BY DEF RepairRequest
<1>2. /\ \A r \in S : rState[r] = "in_progress"
      /\ rState' = [r \in Requests |-> IF r \in S THEN "failed" ELSE rState[r]] /\ UNCHANGED <<aState, aReq>>
  BY <1>1 DEF RepairStaleRequests
<1>3. UNCHANGED <<pc, form, index, result, committed, gone, answer, sent, stored, turns, pending, up>> /\ up
  BY DEF RepairRequest, localVars, worldVars, parkVars, procVars
<1>4. ForwardTypeOK' /\ IndexOK'
  BY <1>2, <1>3 DEF ForwardInv, ForwardTypeOK, IndexOK, RequestStates, SettledStates
<1>5. \A a \in Active : aReq[a] \in Requests \ S
  BY <1>2, ActiveFacts
<1>6. DatabaseOK'
  <2>1. Active' = Active
    BY <1>2 DEF Active
  <2>2. OpenOK'
    BY <1>2, <1>5, <2>1 DEF ForwardInv, DatabaseOK, OpenOK
  <2> QED BY <1>2, <1>3, <2>2 DEF ForwardInv, DatabaseOK, ParkedOK, SentOK
<1>7. \A r \in Requests : SameHandler(r)
  BY <1>3 DEF SameHandler
<1>8. ASSUME NEW r \in Requests \ S PROVE RequestOK(r)'
  <2>1. SameRecord(r)
    BY <1>2, <1>3 DEF SameRecord
  <2> QED BY <1>6, <1>7, <2>1, Frame DEF ForwardInv, DatabaseOK
<1>9. ASSUME NEW r \in S PROVE RequestOK(r)'
  <2>1. RequestOK(r)
    BY DEF ForwardInv
  <2>2. pc[r] \notin Early \cup Late
    BY <1>2, HoldsReserved
  <2>3. HoldsOK(r)'
    BY <1>3, <2>2 DEF HoldsOK, Early, Late
  <2>4. ~NotFailure(r)
    BY <1>2 DEF NotFailure, Favourable
  <2>5. ~OwesSuccess(r)
    BY <2>1, <2>4 DEF RequestOK, RecordOK
  <2>6. NotSuccess(r)'
    BY <1>2, <1>3, <1>5, ActiveFacts DEF NotSuccess
  <2> QED BY <1>7, <2>1, <2>3, <2>5, <2>6, QuietHandler
<1>10. \A r \in Requests : RequestOK(r)'
  BY <1>8, <1>9
<1> QED BY <1>3, <1>4, <1>6, <1>10 DEF ForwardInv, StoppedOK

LEMMA CrashStep ==
  ASSUME ForwardInv, Crash
  PROVE  ForwardInv'
<1> DEFINE S == {r \in Requests : pc[r] # "idle"}
<1>1. /\ up' = FALSE /\ Return(S) /\ pending' = << >>
      /\ UNCHANGED <<aState, rState, aReq, answer, sent, stored, turns>>
  BY DEF Crash, vars, lifeVars, worldVars
<1>2. DOMAIN pending' = {}
  BY <1>1
<1>3. /\ pc' = [r \in Requests |-> IF r \in S THEN "done" ELSE pc[r]]
      /\ index' = [r \in Requests |-> IF r \in S THEN 1 ELSE index[r]]
      /\ result' = [r \in Requests |-> IF r \in S THEN None ELSE result[r]]
      /\ committed' = [r \in Requests |-> r \notin S /\ committed[r]]
      /\ gone' = [r \in Requests |-> r \notin S /\ gone[r]]
      /\ form' = [r \in Requests |-> IF r \in S THEN None ELSE form[r]]
  BY <1>1 DEF Return
<1>4. ForwardTypeOK'
  BY <1>1, <1>3, PlacesFact DEF ForwardInv, ForwardTypeOK
<1>5. IndexOK'
  <2>1. \A s \in Requests : 1 \in 1..Len(Targets[s])
    <3>1. ASSUME NEW s \in Requests PROVE 1 \in 1..Len(Targets[s])
      <4>1. AttemptOf[s] \in Seq(Attempts) /\ AttemptOf[s] # << >> /\ Len(AttemptOf[s]) = Len(Targets[s])
        BY <3>1, RouteAssumption
      <4> QED BY <4>1
    <3> QED BY <3>1
  <2>2. \A s \in Requests : index'[s] = 1 \/ index'[s] = index[s]
    BY <1>3
  <2> QED BY <2>1, <2>2 DEF ForwardInv, IndexOK
<1>6. DatabaseOK'
  <2>1. Active' = Active
    BY <1>1 DEF Active
  <2> QED BY <1>1, <1>2, <2>1 DEF ForwardInv, DatabaseOK, OpenOK, ParkedOK, SentOK
<1>7. \A r \in Requests : pc'[r] \in {"idle", "done"} /\ (pc'[r] = "idle" => pc[r] = "idle")
  BY <1>3
<1>8. ASSUME NEW r \in Requests PROVE RequestOK(r)'
  <2>1. RequestOK(r)
    BY DEF ForwardInv
  <2>2. (NotSuccess(r) => NotSuccess(r)') /\ (NotFailure(r) => NotFailure(r)')
    BY <1>1, <1>2 DEF NotSuccess, NotFailure
  <2>3. CASE pc[r] = "idle"
    <3>1. pc'[r] = "idle" /\ result'[r] = result[r] /\ committed'[r] = committed[r]
      BY <1>3, <2>3 DEF ForwardInv, ForwardTypeOK
    <3>2. result[r] = None /\ answer[r] = None /\ r \notin turns /\ NotSuccess(r) /\ ~committed[r]
      BY <2>1, <2>3, OpenFacts DEF Open
    <3>3. HoldsOK(r)'
      BY <3>1 DEF HoldsOK, Early, Late
    <3> QED BY <1>1, <2>2, <3>1, <3>2, <3>3, OpenNext DEF Open
  <2>4. CASE pc[r] # "idle"
    <3>1. pc'[r] = "done" /\ ~committed'[r]
      BY <1>3, <2>4
    <3>2. answer[r] \in {"failed", "error", "partial"} => NotSuccess(r)
      BY <2>1 DEF RequestOK, RecordOK, OwesNone
    <3>3. answer[r] = "ok" \/ r \in turns => NotFailure(r)
      BY <2>1 DEF RequestOK, RecordOK, OwesSuccess
    <3> QED BY <1>1, <2>2, <3>1, <3>2, <3>3, DoneNext
  <2> QED BY <2>3, <2>4
<1> QED BY <1>1, <1>2, <1>4, <1>5, <1>6, <1>7, <1>8 DEF ForwardInv, StoppedOK

\* Start-up: no handler is at work and nothing is parked.
LEMMA RestartStep ==
  ASSUME ForwardInv, Restart
  PROVE  ForwardInv'
<1> DEFINE undispatched == {a \in Attempts : aState[a] = "reserved"}
           interrupted == Active \ undispatched
<1>1. /\ ~up /\ up' = TRUE /\ Recover(0)
      /\ UNCHANGED <<pc, form, index, result, committed, gone, answer, sent, stored, turns, pending>>
  BY DEF Restart, localVars, worldVars
<1>2. /\ aState' = [a \in Attempts |->
                      IF a \in undispatched THEN "cancelled_before_dispatch"
                      ELSE IF a \in interrupted THEN "interrupted_unknown" ELSE aState[a]]
      /\ rState' = [r \in Requests |->
                      IF \E a \in interrupted : aReq[a] = r THEN "interrupted_unknown"
                      ELSE IF \E a \in undispatched : aReq[a] = r THEN "cancelled"
                      ELSE IF rState[r] = "in_progress" THEN "failed" ELSE rState[r]]
      /\ UNCHANGED aReq
  BY <1>1 DEF Recover
<1>3. DOMAIN pending = {} /\ \A r \in Requests : pc[r] \in {"idle", "done"}
  BY <1>1 DEF ForwardInv, StoppedOK
<1>4. aState' \in [Attempts -> AttemptStates] /\ \A a \in Attempts : aState'[a] \notin ActiveStates
  BY <1>2 DEF ForwardInv, ForwardTypeOK, AttemptStates, ActiveStates, SettledStates, Active
<1>5. rState' \in [Requests -> RequestStates]
  BY <1>2 DEF ForwardInv, ForwardTypeOK, RequestStates, SettledStates
<1>6. ForwardTypeOK' /\ IndexOK'
  BY <1>1, <1>2, <1>4, <1>5 DEF ForwardInv, ForwardTypeOK, IndexOK
<1>7. DatabaseOK'
  <2>1. Active' = {}
    BY <1>4 DEF Active
  <2>2. OpenOK' /\ ParkedOK'
    BY <1>1, <1>3, <2>1 DEF OpenOK, ParkedOK
  <2>3. ASSUME NEW a \in sent PROVE a \in Attempts /\ aState'[a] \in {"dispatching"} \cup SettledStates
    <3>1. a \in Attempts /\ aState[a] \in {"dispatching"} \cup SettledStates
      BY <2>3 DEF ForwardInv, DatabaseOK, SentOK
    <3>2. aState[a] # "reserved"
      BY <3>1 DEF SettledStates
    <3> QED BY <1>2, <3>1, <3>2 DEF SettledStates
  <2> QED BY <1>1, <2>2, <2>3 DEF DatabaseOK, SentOK
<1>8. ASSUME NEW r \in Requests PROVE RequestOK(r)'
  <2>1. RequestOK(r) /\ SameHandler(r)
    BY <1>1 DEF ForwardInv, SameHandler
  <2>2. HoldsOK(r)'
    BY <1>1, <1>3 DEF HoldsOK, Early, Late
  <2>3. NotSuccess(r) => NotSuccess(r)'
    BY <1>1, <1>2, <1>3 DEF NotSuccess
  <2>4. NotFailure(r) => NotFailure(r)'
    <3>1. SUFFICES ASSUME NotFailure(r) PROVE NotFailure(r)'
      OBVIOUS
    <3>2. \A a \in undispatched : aReq[a] # r
      BY <3>1 DEF NotFailure
    <3>3. rState'[r] \in {"reserved"} \cup Favourable
      BY <1>2, <3>1, <3>2 DEF NotFailure, Favourable
    <3>4. \A a \in Attempts : aState'[a] # "reserved"
      BY <1>4 DEF ActiveStates
    <3> QED BY <1>1, <1>3, <3>3, <3>4 DEF NotFailure
  <2>5. OwesSuccess(r) => NotFailure(r)'
    BY <2>1, <2>4 DEF RequestOK, RecordOK
  <2> QED BY <2>1, <2>2, <2>3, <2>5, QuietHandler
<1> QED BY <1>1, <1>6, <1>7, <1>8 DEF ForwardInv, StoppedOK

\* Steps that touch nothing the invariant reads.
LEMMA StillStep ==
  ASSUME ForwardInv,
         UNCHANGED <<aState, aReq, rState, pc, form, index, result, committed, gone, answer, sent, stored, turns, pending, up>>
  PROVE  ForwardInv'
<1>1. SameDatabase /\ \A r \in Requests : SameHandler(r)
  BY DEF SameDatabase, SameHandler
<1>2. DatabaseOK' /\ \A r \in Requests : SameRecord(r)
  BY <1>1, Untouched
<1>3. \A r \in Requests : RequestOK(r)'
  BY <1>1, <1>2, Frame DEF ForwardInv, DatabaseOK
<1> QED BY <1>2, <1>3 DEF ForwardInv, ForwardTypeOK, IndexOK, StoppedOK

-----------------------------------------------------------------------------
(* The invariant. *)

LEMMA ForwardInitInv == ForwardInit => ForwardInv
<1> SUFFICES ASSUME ForwardInit PROVE ForwardInv
  OBVIOUS
<1>1. /\ aState = [a \in Attempts |-> "absent"] /\ aReq = [a \in Attempts |-> Unknown]
      /\ rState = [r \in Requests |-> "absent"]
  BY DEF ForwardInit, Init
<1>2. /\ pc = [r \in Requests |-> "idle"] /\ form = [r \in Requests |-> None]
      /\ index = [r \in Requests |-> 1] /\ result = [r \in Requests |-> None]
      /\ committed = [r \in Requests |-> FALSE] /\ gone = [r \in Requests |-> FALSE]
      /\ answer = [r \in Requests |-> None]
      /\ sent = {} /\ turns = {} /\ pending = << >> /\ up = TRUE
  BY DEF ForwardInit
<1>3. ForwardTypeOK
  BY <1>1, <1>2, PlacesFact DEF ForwardTypeOK, AttemptStates, RequestStates
<1>4. IndexOK
  <2>1. \A s \in Requests : 1 \in 1..Len(Targets[s])
    <3>1. ASSUME NEW s \in Requests PROVE 1 \in 1..Len(Targets[s])
      <4>1. AttemptOf[s] \in Seq(Attempts) /\ AttemptOf[s] # << >> /\ Len(AttemptOf[s]) = Len(Targets[s])
        BY <3>1, RouteAssumption
      <4> QED BY <4>1
    <3> QED BY <3>1
  <2> QED BY <1>2, <2>1 DEF IndexOK
<1>5. Active = {} /\ DOMAIN pending = {}
  BY <1>1, <1>2 DEF Active, ActiveStates
<1>6. DatabaseOK /\ StoppedOK
  BY <1>2, <1>5 DEF DatabaseOK, OpenOK, ParkedOK, SentOK, StoppedOK
<1>7. ASSUME NEW r \in Requests PROVE RequestOK(r)
  <2>1. HoldsOK(r) /\ ResultOK(r) /\ AnswerOK(r)
    BY <1>2 DEF HoldsOK, ResultOK, AnswerOK, Early, Late, None
  <2>2. RecordOK(r)
    BY <1>1, <1>2, <1>5 DEF RecordOK, NotSuccess, OwesSuccess, None
  <2> QED BY <2>1, <2>2 DEF RequestOK
<1> QED BY <1>3, <1>4, <1>6, <1>7 DEF ForwardInv

LEMMA HandlerStep ==
  ASSUME ForwardInv, NEW r \in Requests, Handler(r)
  PROVE  ForwardInv'
<1>1. CASE Start(r) \/ StartSearch(r) \/ StartRealtime(r) \/ StartLive(r) \/ StartGeminiLive(r)
  <2>1. \E f \in FormNames : Begin(r, f)
    BY <1>1 DEF Start, StartSearch, StartRealtime, StartLive, StartGeminiLive, FormNames, Sessions
  <2> QED BY <2>1, BeginStep
<1>2. CASE AdmitTarget(r) \/ AdmitDenied(r) \/ BeginDispatch(r)
  BY <1>2, AdmitTargetStep, AdmitDeniedStep, BeginDispatchStep
<1>3. CASE MarkForDispatch(r)
  BY <1>3, MarkStep DEF MarkForDispatch
<1>4. CASE MarkFails(r)
  BY <1>4, MarkStep, MarkFailsStill DEF MarkFails
<1>5. CASE Undo(r) \/ Reply(r) \/ Retry(r)
  BY <1>5, UndoStep, ReplyStep, RetryStep
<1>6. CASE Send(r) \/ SendFails(r) \/ DialFails(r) \/ Dial(r)
  BY <1>6, SendSteps, DialStep
<1>7. CASE TranslatePayload(r) \/ TranslateStream(r) \/ StreamBytes(r)
  BY <1>7, TranslatePayloadStep, TranslateStreamStep, StreamBytesStep
<1>8. CASE \E class \in {"ok", "failed", "retryable", "refused"} : Outcome(r, class)
  BY <1>8, OutcomeStep
<1>9. CASE SearchRound(r) \/ SearchAnswers(r) \/ SearchFails(r) \/ BeginAgain(r) \/ SendAgain(r)
  BY <1>9, SearchSteps
<1>10. CASE StartSession(r) \/ SetupSession(r)
  BY <1>10, SetupSteps
<1>11. CASE UpgradeFails(r) \/ ServeRealtime(r) \/ RelayLiveSession(r) \/ RelayGeminiLiveSession(r)
  BY <1>11, SessionEnds
<1>12. CASE ObserveFrame(r) \/ ObserveGeminiFrame(r)
  BY <1>12, ObservedStep DEF ObserveFrame, ObserveGeminiFrame
<1>13. CASE StoreTurn(r) \/ SettleAttempt(r) \/ SettleDeferred(r) \/ Publish(r) \/ FinalizeFailed(r)
  BY <1>13, StoreTurnStep, SettleAttemptStep, SettleDeferredStep, PublishStep, FinalizeFailedStep
<1> QED BY <1>1, <1>2, <1>3, <1>4, <1>5, <1>6, <1>7, <1>8, <1>9, <1>10, <1>11, <1>12, <1>13 DEF Handler

LEMMA ForwardStep == ForwardInv /\ [ForwardNext]_allVars => ForwardInv'
<1> SUFFICES ASSUME ForwardInv, [ForwardNext]_allVars PROVE ForwardInv'
  OBVIOUS
<1>1. CASE \E r \in Requests : Handler(r) \/ ClientGone(r)
  BY <1>1, HandlerStep, ClientGoneStep
<1>2. CASE \E a \in Attempts : RetryDeferred(a)
  BY <1>2, RetryDeferredStep
<1>3. CASE RepairRequest
  BY <1>3, RepairStep
<1>4. CASE \E c \in Connections : ChangeConfig(c)
  BY <1>4, StillStep DEF ChangeConfig, vars, lifeVars, localVars, worldVars, parkVars
<1>5. CASE Crash
  BY <1>5, CrashStep
<1>6. CASE Restart
  BY <1>6, RestartStep
<1>7. CASE Quiet \/ UNCHANGED allVars
  BY <1>7, StillStep DEF Quiet, allVars, vars, lifeVars, localVars, worldVars, parkVars, procVars
<1> QED BY <1>1, <1>2, <1>3, <1>4, <1>5, <1>6, <1>7 DEF ForwardNext

LEMMA ForwardInvariant == ForwardSpec => []ForwardInv
  BY ForwardInitInv, ForwardStep, PTL DEF ForwardSpec

\* What reached a provider keeps its reservation: no undo of a failed dispatch
\* mark and no recovery hands it back, whatever handler, worker and restart do
\* in between (forward.go, dispatch; usage, CancelBeforeDispatch and Recover).
THEOREM SentStaysCharged == ForwardSpec => []SentIsNeverReleased
<1>1. ForwardInv => SentIsNeverReleased
  BY DEF ForwardInv, DatabaseOK, SentOK, SentIsNeverReleased, SettledStates
<1> QED BY <1>1, ForwardInvariant, PTL

\* The answer a client got and the record of its request never contradict each
\* other, through parked settlements, failed publication, repair and restarts
\* (forward.go, publishAfterSettlement; realtime.go, serveRealtime).
THEOREM AnswersMatchRecords == ForwardSpec => []AnswerAgreesWithRecord
<1>1. ASSUME ForwardInv, NEW r \in Requests
      PROVE  /\ answer[r] = "ok" /\ Terminal(r) => rState[r] \in {"succeeded", "interrupted_unknown"}
             /\ answer[r] \in {"failed", "error", "partial"} => rState[r] # "succeeded"
             /\ pc[r] = "reply" /\ result[r] = "ok" /\ Stores(r) => r \in stored \/ gone[r]
  <2>1. RequestOK(r)
    BY <1>1 DEF ForwardInv
  <2>2. answer[r] = "ok" => NotFailure(r)
    BY <2>1 DEF RequestOK, RecordOK, OwesSuccess
  <2>3. answer[r] \in {"failed", "error", "partial"} => NotSuccess(r)
    BY <2>1 DEF RequestOK, RecordOK, OwesNone
  <2>4. pc[r] = "reply" /\ result[r] = "ok" /\ Stores(r) => r \in stored \/ gone[r]
    BY <2>1 DEF RequestOK, ResultOK
  <2> QED BY <2>2, <2>3, <2>4 DEF NotFailure, NotSuccess, Terminal, SettledStates, Favourable
<1>2. ForwardInv => AnswerAgreesWithRecord
  BY <1>1 DEF AnswerAgreesWithRecord
<1> QED BY <1>2, ForwardInvariant, PTL

\* A conversation whose turn is stored never shows a request recorded as
\* failed, whatever comes between storing and settling (storeConversationTurn).
THEOREM TurnsKeepTheirRequest == ForwardSpec => []TurnsAreNotFailed
<1>1. ASSUME ForwardInv, NEW r \in turns, Terminal(r)
      PROVE  rState[r] \in {"succeeded", "interrupted_unknown"}
  <2>1. NotFailure(r) /\ r \in Requests
    BY <1>1 DEF ForwardInv, ForwardTypeOK, RequestOK, RecordOK, OwesSuccess
  <2> QED BY <1>1, <2>1 DEF NotFailure, Terminal, SettledStates, Favourable
<1>2. ForwardInv => TurnsAreNotFailed
  BY <1>1 DEF TurnsAreNotFailed
<1> QED BY <1>2, ForwardInvariant, PTL
-----------------------------------------------------------------------------
(* Attempts after the first byte. *)

\* The one step that gives an attempt to a request is its admission.
LEMMA OnlyAdmissionAssigns ==
  ASSUME ForwardInv, [ForwardNext]_allVars
  PROVE  aReq' = aReq \/ \E r \in Requests : AdmitTarget(r)
<1>1. ASSUME NEW a, NEW state, NEW final, Settle(a, state, "unknown", Unknown, Unknown, final) PROVE aReq' = aReq
  BY <1>1 DEF Settle
<1>2. ASSUME NEW r, NEW state, FinalizeRequest(r, state) PROVE aReq' = aReq
  BY <1>2 DEF FinalizeRequest
<1>3. ASSUME NEW r, CloseFailedRequest(r) PROVE aReq' = aReq
  BY <1>3 DEF CloseFailedRequest
<1>4. ASSUME NEW a, MarkDispatching(a) \/ CancelBeforeDispatch(a) PROVE aReq' = aReq
  BY <1>4 DEF MarkDispatching, CancelBeforeDispatch
<1>5. ASSUME UNCHANGED vars PROVE aReq' = aReq
  BY <1>5 DEF vars, lifeVars
<1>6. ASSUME NEW r, NEW class, Ends(r, class) PROVE aReq' = aReq
  BY <1>5, <1>6 DEF Ends
<1>7. ASSUME NEW r, Written(r) PROVE aReq' = aReq
  BY <1>5, <1>7 DEF Written
<1>8. ASSUME NEW r \in Requests, Handler(r), ~AdmitTarget(r) PROVE aReq' = aReq
  <2>1. CASE Start(r) \/ StartSearch(r) \/ StartRealtime(r) \/ StartLive(r) \/ StartGeminiLive(r)
    BY <1>5, <2>1 DEF Start, StartSearch, StartRealtime, StartLive, StartGeminiLive, Begin
  <2>2. CASE AdmitDenied(r) \/ BeginDispatch(r) \/ MarkForDispatch(r) \/ MarkFails(r) \/ Undo(r)
    BY <1>3, <1>4, <1>5, <2>2 DEF AdmitDenied, BeginDispatch, MarkForDispatch, MarkFails, Undo
  <2>3. CASE Send(r) \/ SendFails(r) \/ DialFails(r) \/ Dial(r) \/ StartSession(r) \/ SetupSession(r)
    BY <1>5, <1>6, <1>7, <2>3 DEF Send, SendFails, DialFails, Dial, StartSession, SetupSession, FirstFrame
  <2>4. CASE TranslatePayload(r) \/ TranslateStream(r) \/ StreamBytes(r)
    BY <1>5, <1>6, <2>4 DEF TranslatePayload, TranslateStream, StreamBytes
  <2>5. CASE \E class \in {"ok", "failed", "retryable", "refused"} : Outcome(r, class)
    BY <1>5, <2>5 DEF Outcome
  <2>6. CASE SearchRound(r) \/ SearchAnswers(r) \/ SearchFails(r) \/ BeginAgain(r) \/ SendAgain(r)
    BY <1>5, <1>6, <1>7, <2>6 DEF SearchRound, SearchAnswers, SearchFails, BeginAgain, SendAgain
  <2>7. CASE UpgradeFails(r) \/ ServeRealtime(r) \/ RelayLiveSession(r) \/ RelayGeminiLiveSession(r)
    BY <1>6, <2>7 DEF UpgradeFails, ServeRealtime, RelayLiveSession, RelayGeminiLiveSession, RelayEnds
  <2>8. CASE ObserveFrame(r) \/ ObserveGeminiFrame(r) \/ StoreTurn(r) \/ Reply(r)
    BY <1>5, <2>8 DEF ObserveFrame, ObserveGeminiFrame, Observed, StoreTurn, Reply
  <2>9. CASE SettleAttempt(r) \/ SettleDeferred(r) \/ Publish(r) \/ FinalizeFailed(r) \/ Retry(r)
    BY <1>1, <1>2, <1>3, <1>5, <2>9 DEF SettleAttempt, SettleDeferred, Publish, FinalizeFailed, Retry
  <2> QED BY <1>8, <2>1, <2>2, <2>3, <2>4, <2>5, <2>6, <2>7, <2>8, <2>9 DEF Handler
<1>9. CASE \E r \in Requests : ClientGone(r)
  BY <1>5, <1>9 DEF ClientGone
<1>10. CASE \/ \E a \in Attempts : RetryDeferred(a)
            \/ \E c \in Connections : ChangeConfig(c)
            \/ Crash \/ Quiet \/ UNCHANGED allVars
  BY <1>1, <1>5, <1>10 DEF RetryDeferred, ChangeConfig, Crash, Quiet, allVars
<1>11. CASE RepairRequest \/ Restart
  BY <1>11 DEF RepairRequest, RepairStaleRequests, Restart, Recover
<1> QED BY <1>8, <1>9, <1>10, <1>11 DEF ForwardNext

\* Once bytes of an answer are out the request gets no further attempt, so two
\* providers' answers are never spliced (the Committed test in retry).
THEOREM AnswersAreNotSpliced == ForwardSpec => NoAttemptAfterBytes
<1>1. ASSUME ForwardInv, [ForwardNext]_allVars, NEW r \in Requests, committed[r], NEW a \in Attempts, aReq'[a] = r
      PROVE  aReq[a] = r
  <2>1. CASE aReq' = aReq
    BY <1>1, <2>1
  <2>2. ASSUME NEW s \in Requests, AdmitTarget(s) PROVE aReq[a] = r
    <3>1. pc[s] = "admit" /\ aReq' = [aReq EXCEPT ![Current(s)] = s]
      BY <2>2 DEF AdmitTarget, At, Admit
    <3>2. ~committed[s]
      <4>1. RequestOK(s) /\ pc[s] \in Open /\ pc[s] # "wait"
        BY <2>2, <3>1, <1>1 DEF ForwardInv, Open
      <4> QED BY <4>1, OpenFacts
    <3>3. Current(s) \in Attempts /\ s # r
      BY <1>1, <3>2, CurrentFact DEF ForwardInv
    <3> QED BY <1>1, <3>1, <3>3 DEF ForwardInv, ForwardTypeOK
  <2> QED BY <1>1, <2>1, <2>2, OnlyAdmissionAssigns
<1>2. ForwardInv /\ [ForwardNext]_allVars =>
        [\A r \in Requests : committed[r] => \A a \in Attempts : aReq'[a] = r => aReq[a] = r]_allVars
  BY <1>1
<1> QED BY <1>2, ForwardInvariant, PTL DEF ForwardSpec, NoAttemptAfterBytes

-----------------------------------------------------------------------------
(* The reservation of a file search. *)

\* Twice the most that k provider calls can have cost in input.
Spent(k) == 2 * (k * SearchInput) + (k * (k - 1)) * (SearchResult + SearchOutput)

SearchRow == [calls : Nat, left : Nat, context : Nat, used : Nat]

\* The search within its limits, sends provider calls made at most.
Within(s, sends) ==
  /\ s \in SearchRow
  /\ s.calls <= SearchCalls /\ s.left <= SearchOutput
  /\ s.context <= SearchInput + (SearchOutput - s.left) + s.calls * SearchResult
  /\ s.calls = 0 => s.context = SearchInput
  /\ 2 * s.used <= Spent(sends)

LEMMA MulMonotone ==
  ASSUME NEW a \in Nat, NEW b \in Nat, NEW c \in Nat, a <= b
  PROVE  a * c <= b * c
<1>1. PICK d \in Nat : b = a + d
  <2>1. b - a \in Nat /\ b = a + (b - a)
    OBVIOUS
  <2> QED BY <2>1
<1>2. b * c = a * c + d * c
  BY <1>1
<1>3. d * c \in Nat /\ a * c \in Nat
  OBVIOUS
<1> QED BY <1>2, <1>3

LEMMA SpentStep ==
  ASSUME NEW k \in Nat
  PROVE  /\ Spent(k) \in Int
         /\ Spent(k + 1) = Spent(k) + 2 * SearchInput + 2 * (k * (SearchResult + SearchOutput))
<1> DEFINE W == SearchResult + SearchOutput
<1>1. W \in Nat /\ SearchInput \in Nat
  BY SearchAssumption
<1> HIDE DEF W
<1>2. k * (k - 1) \in Int /\ (k + 1) * k = k * (k - 1) + 2 * k
  OBVIOUS
<1>3. ((k + 1) * k) * W = (k * (k - 1)) * W + 2 * (k * W)
  BY <1>1, <1>2
<1>4. (k + 1) * SearchInput = k * SearchInput + SearchInput
  BY <1>1
<1>5. (k + 1) - 1 = k
  OBVIOUS
<1>6. (k * (k - 1)) * W \in Int /\ k * SearchInput \in Int /\ k * W \in Int
  BY <1>1, <1>2
<1>7. Spent(k + 1) = 2 * ((k + 1) * SearchInput) + ((k + 1) * k) * W
  BY <1>5 DEF Spent, W
<1>8. Spent(k) = 2 * (k * SearchInput) + (k * (k - 1)) * W
  BY DEF Spent, W
<1> QED BY <1>1, <1>3, <1>4, <1>6, <1>7, <1>8 DEF W

LEMMA SpentMonotone ==
  ASSUME NEW k \in Nat, NEW m \in Nat, k <= m
  PROVE  Spent(k) <= Spent(m)
<1> DEFINE W == SearchResult + SearchOutput
<1>1. W \in Nat /\ SearchInput \in Nat
  BY SearchAssumption
<1> HIDE DEF W
<1>2. k * SearchInput <= m * SearchInput
  BY <1>1, MulMonotone
<1>3. k * (k - 1) \in Nat /\ m * (m - 1) \in Nat /\ k * (k - 1) <= m * (m - 1)
  <2>1. CASE k = 0
    <3>1. k * (k - 1) = 0
      BY <2>1
    <3>2. m * (m - 1) \in Nat
      <4>1. CASE m = 0
        BY <4>1
      <4>2. CASE m # 0
        <5>1. m - 1 \in Nat
          BY <4>2
        <5> QED BY <5>1
      <4> QED BY <4>1, <4>2
    <3> QED BY <3>1, <3>2
  <2>2. CASE k # 0
    <3>1. k - 1 \in Nat /\ m - 1 \in Nat /\ k - 1 <= m - 1
      BY <2>2
    <3>2. k * (k - 1) <= m * (k - 1)
      BY <3>1, MulMonotone
    <3>3. (k - 1) * m <= (m - 1) * m
      BY <3>1, MulMonotone
    <3>4. (k - 1) * m = m * (k - 1) /\ (m - 1) * m = m * (m - 1)
      BY <3>1
    <3>5. k * (k - 1) \in Nat /\ m * (m - 1) \in Nat /\ m * (k - 1) \in Nat
      BY <3>1
    <3> QED BY <3>2, <3>3, <3>4, <3>5
  <2> QED BY <2>1, <2>2
<1>4. (k * (k - 1)) * W <= (m * (m - 1)) * W
  BY <1>1, <1>3, MulMonotone
<1>5. /\ Spent(k) = 2 * (k * SearchInput) + (k * (k - 1)) * W
      /\ Spent(m) = 2 * (m * SearchInput) + (m * (m - 1)) * W
  BY DEF Spent, W
<1>6. /\ k * SearchInput \in Int /\ m * SearchInput \in Int
      /\ (k * (k - 1)) * W \in Int /\ (m * (m - 1)) * W \in Int
  BY <1>1, <1>3
<1> QED BY <1>2, <1>4, <1>5, <1>6

\* One of two successive numbers is even.
LEMMA EvenProduct ==
  ASSUME NEW n \in Nat
  PROVE  2 * ((n * (n + 1)) \div 2) = n * (n + 1)
<1>1. PICK h \in Nat : n = 2 * h \/ n = 2 * h + 1
  <2>1. n \div 2 \in Nat /\ (n % 2 = 0 \/ n % 2 = 1) /\ n = 2 * (n \div 2) + (n % 2)
    OBVIOUS
  <2> QED BY <2>1
<1>2. PICK q \in Nat : n * (n + 1) = 2 * q
  <2>1. CASE n = 2 * h
    <3>1. n * (n + 1) = 2 * (h * (n + 1)) /\ h * (n + 1) \in Nat
      BY <2>1
    <3> QED BY <3>1
  <2>2. CASE n = 2 * h + 1
    <3>1. n + 1 = 2 * (h + 1)
      BY <2>2
    <3>2. n * (n + 1) = 2 * (n * (h + 1)) /\ n * (h + 1) \in Nat
      BY <3>1
    <3> QED BY <3>2
  <2> QED BY <1>1, <2>1, <2>2
<1>3. (2 * q) \div 2 = q
  OBVIOUS
<1> QED BY <1>2, <1>3
\* Where a search is between its provider calls.
Searching == {"wait", "again", "resend"}
\* The provider calls made once the handler is where it is.
Sends(r) == IF pc[r] = "wait" THEN progress[r].calls + 1 ELSE progress[r].calls

SearchOK(r) ==
  /\ ~Searches(r) /\ form[r] # "translated" => progress[r] = NoSearch
  /\ pc[r] \notin Searching => progress[r] = NoSearch
  /\ pc[r] \in {"again", "resend"} => Searches(r)
  /\ Searches(r) => Within(progress[r], Sends(r))
SearchInv == DOMAIN progress = Requests /\ \A r \in Requests : SearchOK(r)

\* What the invariant reads of the handler of s.
SameSearch(s) == pc'[s] = pc[s] /\ form'[s] = form[s] /\ progress'[s] = progress[s]

LEMMA NoSearchWithin == Within(NoSearch, 0)
<1>1. Spent(0) = 0
  BY SearchAssumption DEF Spent
<1> QED BY <1>1, SearchAssumption DEF Within, NoSearch, SearchRow

LEMMA SearchFrame ==
  ASSUME NEW s, SearchOK(s), SameSearch(s)
  PROVE  SearchOK(s)'
BY DEF SearchOK, SameSearch, Searches, Sends, Within, SearchRow, NoSearch, Spent

LEMMA SearchReset ==
  ASSUME NEW s, progress'[s] = NoSearch, pc'[s] \notin Searching
  PROVE  SearchOK(s)'
<1>1. Sends(s)' = 0
  BY DEF Sends, Searching, NoSearch
<1>2. Within(progress[s], Sends(s))'
  BY <1>1, NoSearchWithin DEF Within, SearchRow, NoSearch, Spent
<1> QED BY <1>2 DEF SearchOK, Searching, NoSearch

\* A step of the handler of r.
LEMMA SearchOne ==
  ASSUME SearchInv, NEW r \in Requests, DOMAIN progress' = Requests, SearchOK(r)',
         \A s \in Requests \ {r} : SameSearch(s)
  PROVE  SearchInv'
<1>1. \A s \in Requests \ {r} : SearchOK(s)'
  BY SearchFrame DEF SearchInv
<1> QED BY <1>1 DEF SearchInv

\* A provider call: what is left of the output bounds what the answers so far
\* can have added to the input, what was searched the rest.
LEMMA CallWithin ==
  ASSUME NEW s, NEW k, k = s.calls, Within(s, k)
  PROVE  Within([s EXCEPT !.used = @ + s.context], k + 1)
<1> DEFINE t == [s EXCEPT !.used = @ + s.context]
<1>1. /\ s \in SearchRow /\ k \in Nat /\ s.left \in Nat /\ s.context \in Nat /\ s.used \in Nat
      /\ s.context <= SearchInput + (SearchOutput - s.left) + k * SearchResult
      /\ k = 0 => s.context = SearchInput
      /\ 2 * s.used <= Spent(k)
  BY DEF Within, SearchRow
<1>2. /\ t \in SearchRow /\ t.calls = s.calls /\ t.left = s.left /\ t.context = s.context
      /\ t.used = s.used + s.context
  BY <1>1 DEF SearchRow
<1>3. /\ Spent(k) \in Int
      /\ Spent(k + 1) = Spent(k) + 2 * SearchInput + 2 * (k * (SearchResult + SearchOutput))
  BY <1>1, SpentStep
<1>4. s.context <= SearchInput + k * (SearchResult + SearchOutput)
  <2> DEFINE kR == k * SearchResult
             kO == k * SearchOutput
  <2>1. SearchResult \in Nat /\ SearchOutput \in Nat /\ SearchInput \in Nat
    BY SearchAssumption
  <2>2. kR \in Nat /\ kO \in Nat /\ k * (SearchResult + SearchOutput) = kR + kO
    BY <1>1, <2>1
  <2>3. CASE k = 0
    BY <1>1, <2>1, <2>2, <2>3
  <2>4. CASE k # 0
    <3>1. 1 <= k /\ 1 * SearchOutput = SearchOutput
      BY <1>1, <2>1, <2>4
    <3>2. 1 * SearchOutput <= k * SearchOutput
      BY <1>1, <2>1, <3>1, MulMonotone
    <3>3. SearchOutput <= kO
      BY <3>1, <3>2
    <3>4. s.context <= SearchInput + (SearchOutput - s.left) + kR
      BY <1>1
    <3> HIDE DEF kR, kO
    <3> QED BY <1>1, <2>1, <2>2, <3>3, <3>4
  <2> QED BY <2>3, <2>4
<1>5. 2 * t.used <= Spent(k + 1)
  <2> DEFINE m == k * (SearchResult + SearchOutput)
  <2>1. m \in Nat /\ SearchInput \in Nat
    BY <1>1, SearchAssumption
  <2> HIDE DEF m, t
  <2> QED BY <1>1, <1>2, <1>3, <1>4, <2>1 DEF m
<1>6. k + 1 \in Nat
  BY <1>1
<1> HIDE DEF t
<1>7. Within(t, k + 1)
  BY <1>1, <1>2, <1>5 DEF Within
<1> QED BY <1>7 DEF t

\* A round of searches: what it adds to the input it takes from the limits.
LEMMA RoundWithin ==
  ASSUME NEW s, NEW n \in CallsAsked, NEW o \in OutputReported, Within(s, s.calls + 1),
         o <= s.left, s.calls + n <= SearchCalls
  PROVE  Within(Continued(s, n, o), Continued(s, n, o).calls)
<1> DEFINE t == Continued(s, n, o)
<1>1. /\ s \in SearchRow /\ s.calls \in Nat /\ s.left \in Nat /\ s.context \in Nat /\ s.used \in Nat
      /\ s.left <= SearchOutput
      /\ s.context <= SearchInput + (SearchOutput - s.left) + s.calls * SearchResult
      /\ 2 * s.used <= Spent(s.calls + 1)
  BY DEF Within, SearchRow
<1>2. /\ SearchResult \in Nat /\ SearchOutput \in Nat /\ SearchInput \in Nat /\ SearchCalls \in Nat
      /\ n \in Nat /\ 1 <= n /\ o \in Nat
  BY SearchAssumption DEF CallsAsked, OutputReported
<1>3. n * SearchResult \in Nat /\ s.calls * SearchResult \in Nat
      /\ (s.calls + n) * SearchResult = s.calls * SearchResult + n * SearchResult
  BY <1>1, <1>2
<1>4. /\ t.calls = s.calls + n /\ t.left = s.left - o /\ t.used = s.used
      /\ t.context = s.context + o + n * SearchResult
      /\ t = [calls |-> t.calls, left |-> t.left, context |-> t.context, used |-> t.used]
  <2> DEFINE added == n * SearchResult
             c == s.calls + n
             l == s.left - o
             x == s.context + o + added
  <2>1. t = [s EXCEPT !.calls = c, !.left = l, !.context = x]
    BY DEF Continued
  <2> HIDE DEF t, c, l, x
  <2>2. t = [calls |-> c, left |-> l, context |-> x, used |-> s.used]
    BY <1>1, <2>1 DEF SearchRow
  <2> QED BY <2>2 DEF c, l, x
<1> HIDE DEF t
<1>5. t \in SearchRow
  <2>1. t.calls \in Nat /\ t.left \in Nat /\ t.context \in Nat /\ t.used \in Nat
    BY <1>1, <1>2, <1>3, <1>4
  <2> QED BY <1>4, <2>1 DEF SearchRow
<1>6. t.context <= SearchInput + (SearchOutput - t.left) + t.calls * SearchResult
  <2>1. t.calls * SearchResult = s.calls * SearchResult + n * SearchResult
    BY <1>3, <1>4
  <2> QED BY <1>1, <1>2, <1>3, <1>4, <2>1
<1>7. 2 * t.used <= Spent(t.calls)
  <2>1. s.calls + 1 \in Nat /\ t.calls \in Nat /\ s.calls + 1 <= t.calls
    BY <1>1, <1>2, <1>4
  <2>2. Spent(s.calls + 1) <= Spent(t.calls)
    BY <2>1, SpentMonotone
  <2>3. Spent(t.calls) \in Int /\ Spent(s.calls + 1) \in Int
    BY <2>1, SpentStep
  <2> QED BY <1>1, <1>4, <2>2, <2>3
<1>8. t.calls <= SearchCalls /\ t.left <= SearchOutput /\ t.calls # 0
  BY <1>1, <1>2, <1>4
<1>9. Within(t, t.calls)
  BY <1>5, <1>6, <1>7, <1>8 DEF Within
<1> QED BY <1>9 DEF t
\* Steps that change no search.
LEMMA SearchMove ==
  ASSUME ForwardInv, SearchInv, NEW r \in Requests, NEW place, NEW f,
         pc' = [pc EXCEPT ![r] = place], pc[r] \notin Searching, place \notin Searching,
         form' = [form EXCEPT ![r] = f] \/ form' = form, progress' = progress
  PROVE  SearchInv'
<1>1. pc'[r] = place /\ progress'[r] = NoSearch
  BY DEF ForwardInv, ForwardTypeOK, SearchInv, SearchOK
<1>2. SearchOK(r)'
  BY <1>1, SearchReset
<1>3. \A s \in Requests \ {r} : SameSearch(s)
  BY DEF ForwardInv, ForwardTypeOK, SameSearch
<1>4. DOMAIN progress' = Requests
  BY DEF SearchInv
<1> QED BY <1>2, <1>3, <1>4, SearchOne

LEMMA SearchStill ==
  ASSUME SearchInv, UNCHANGED <<pc, form, progress>>
  PROVE  SearchInv'
<1>1. \A s \in Requests : SearchOK(s)'
  BY SearchFrame DEF SearchInv, SameSearch
<1> QED BY <1>1 DEF SearchInv

\* The handlers of S return.
LEMMA SearchReturn ==
  ASSUME SearchInv, NEW S, Return(S)
  PROVE  SearchInv'
<1>1. ASSUME NEW s \in Requests PROVE SearchOK(s)'
  <2>1. CASE s \in S
    <3>1. progress'[s] = NoSearch /\ pc'[s] = "done"
      BY <2>1 DEF Return
    <3> QED BY <3>1, SearchReset DEF Searching
  <2>2. CASE s \notin S
    <3>1. SameSearch(s)
      BY <2>2 DEF Return, SameSearch
    <3> QED BY <3>1, SearchFrame DEF SearchInv
  <2> QED BY <2>1, <2>2
<1>2. DOMAIN progress' = Requests
  BY DEF Return
<1> QED BY <1>1, <1>2 DEF SearchInv

LEMMA SearchEnds ==
  ASSUME ForwardInv, SearchInv, NEW r \in Requests, NEW class, Ends(r, class)
  PROVE  SearchInv'
<1>1. progress' = [progress EXCEPT ![r] = NoSearch] /\ pc' = [pc EXCEPT ![r] = "settle"] /\ form' = form
  BY DEF Ends, Goto
<1>2. progress'[r] = NoSearch /\ pc'[r] = "settle" /\ DOMAIN progress' = Requests
  BY <1>1 DEF ForwardInv, ForwardTypeOK, SearchInv
<1>3. SearchOK(r)'
  BY <1>2, SearchReset DEF Searching
<1>4. \A s \in Requests \ {r} : SameSearch(s)
  BY <1>1 DEF ForwardInv, ForwardTypeOK, SearchInv, SameSearch
<1> QED BY <1>2, <1>3, <1>4, SearchOne

LEMMA SearchWritten ==
  ASSUME ForwardInv, SearchInv, NEW r \in Requests, pc[r] \in {"send", "resend"}, Written(r)
  PROVE  SearchInv'
<1>1. /\ pc' = [pc EXCEPT ![r] = "wait"] /\ form' = form
      /\ \E awaited \in Awaits(r) : progress' = [progress EXCEPT ![r] = awaited]
  BY DEF Written, Goto
<1>2. pc'[r] = "wait" /\ form'[r] = form[r] /\ progress'[r] \in Awaits(r) /\ DOMAIN progress' = Requests
  BY <1>1 DEF ForwardInv, ForwardTypeOK, SearchInv
<1>3. SearchOK(r)
  BY DEF SearchInv
<1>4. ASSUME Searches(r) PROVE SearchOK(r)'
  <2> DEFINE s == progress[r]
  <2>1. Sends(r) = s.calls
    BY DEF Sends
  <2>2. Within(s, s.calls)
    BY <1>3, <1>4, <2>1 DEF SearchOK
  <2>3. Awaits(r) = {[s EXCEPT !.used = @ + s.context]}
    BY <1>4 DEF Awaits
  <2>4. progress'[r] = [s EXCEPT !.used = @ + s.context]
    BY <1>2, <2>3
  <2>5. Within([s EXCEPT !.used = @ + s.context], s.calls + 1)
    <3>1. PICK t : t = s
      OBVIOUS
    <3>2. Within(t, t.calls)
      BY <2>2, <3>1
    <3>3. Within([t EXCEPT !.used = @ + t.context], t.calls + 1)
      BY <3>2, CallWithin
    <3> QED BY <3>1, <3>3
  <2>6. progress'[r].calls = s.calls
    BY <2>4
  <2>7. Sends(r)' = s.calls + 1
    BY <1>2, <2>6 DEF Sends
  <2>8. Within(progress[r], Sends(r))'
    BY <2>4, <2>5, <2>7 DEF Within, SearchRow, Spent
  <2>9. Searches(r)'
    BY <1>2, <1>4 DEF Searches
  <2> QED BY <1>2, <2>8, <2>9 DEF SearchOK, Searching
<1>5. ASSUME ~Searches(r) PROVE SearchOK(r)'
  <2>1. form[r] # "translated" => progress'[r] = NoSearch
    BY <1>2, <1>3, <1>5 DEF Awaits, SearchOK
  <2> QED BY <1>2, <1>5, <2>1 DEF SearchOK, Searches, Searching, NoSearch
<1>6. SearchOK(r)'
  BY <1>4, <1>5
<1>7. \A s \in Requests \ {r} : SameSearch(s)
  BY <1>1 DEF ForwardInv, ForwardTypeOK, SearchInv, SameSearch
<1> QED BY <1>2, <1>6, <1>7, SearchOne

LEMMA SearchRoundKeeps ==
  ASSUME ForwardInv, SearchInv, NEW r \in Requests, SearchRound(r)
  PROVE  SearchInv'
<1>1. PICK n \in CallsAsked, o \in OutputReported :
        MaySearch(r, n, o) /\ progress' = [progress EXCEPT ![r] = Continued(progress[r], n, o)]
  BY DEF SearchRound
<1>2. pc[r] = "wait" /\ Searches(r) /\ pc' = [pc EXCEPT ![r] = "again"] /\ form' = form
  BY DEF SearchRound, At, Goto
<1>3. /\ progress'[r] = Continued(progress[r], n, o) /\ DOMAIN progress' = Requests
      /\ pc'[r] = "again" /\ form'[r] = form[r]
  BY <1>1, <1>2 DEF ForwardInv, ForwardTypeOK, SearchInv
<1>4. Within(progress[r], progress[r].calls + 1)
  BY <1>2 DEF SearchInv, SearchOK, Sends
<1>5. Within(Continued(progress[r], n, o), Continued(progress[r], n, o).calls)
  <2>1. PICK s : s = progress[r]
    OBVIOUS
  <2>2. Within(s, s.calls + 1) /\ o <= s.left /\ s.calls + n <= SearchCalls
    BY <1>1, <1>4, <2>1 DEF MaySearch
  <2>3. Within(Continued(s, n, o), Continued(s, n, o).calls)
    BY <2>2, RoundWithin
  <2> QED BY <2>1, <2>3
<1>6. Sends(r)' = progress'[r].calls
  BY <1>3 DEF Sends
<1>7. Within(progress[r], Sends(r))'
  BY <1>3, <1>5, <1>6 DEF Within, SearchRow, Spent
<1>8. SearchOK(r)'
  BY <1>2, <1>3, <1>7 DEF SearchOK, Searches, Searching
<1>9. \A s \in Requests \ {r} : SameSearch(s)
  BY <1>1, <1>2 DEF ForwardInv, ForwardTypeOK, SearchInv, SameSearch
<1> QED BY <1>3, <1>8, <1>9, SearchOne

\* The one step between two provider calls.
LEMMA SearchBeginAgain ==
  ASSUME ForwardInv, SearchInv, NEW r \in Requests, BeginAgain(r)
  PROVE  SearchInv'
<1>1. CASE Ends(r, "refused")
  BY <1>1, SearchEnds
<1>2. CASE Goto(r, "resend") /\ UNCHANGED localVars
  <2>1. pc[r] = "again" /\ pc' = [pc EXCEPT ![r] = "resend"] /\ form' = form /\ progress' = progress
    BY <1>2 DEF BeginAgain, At, Goto, localVars
  <2>2. pc'[r] = "resend"
    BY <2>1 DEF ForwardInv, ForwardTypeOK
  <2>3. SearchOK(r)
    BY DEF SearchInv
  <2>4. SearchOK(r)'
    BY <2>1, <2>2, <2>3 DEF SearchOK, Searches, Sends, Searching, Within, SearchRow, Spent
  <2>5. \A s \in Requests \ {r} : SameSearch(s)
    BY <2>1 DEF ForwardInv, ForwardTypeOK, SameSearch
  <2>6. DOMAIN progress' = Requests
    BY <2>1 DEF SearchInv
  <2> QED BY <2>4, <2>5, <2>6, SearchOne
<1> QED BY <1>1, <1>2 DEF BeginAgain

\* Payloads touch the progress of a translated stream only.
LEMMA SearchPayload ==
  ASSUME ForwardInv, SearchInv, NEW r \in Requests, TranslatePayload(r)
  PROVE  SearchInv'
<1>1. /\ pc[r] = "wait" /\ form[r] = "translated" /\ UNCHANGED <<pc, form>>
      /\ \E delta \in Payloads(progress[r].dialect) : progress' = [progress EXCEPT ![r] = Consume(progress[r], delta)]
  BY DEF TranslatePayload, At
<1>2. PICK c : progress' = [progress EXCEPT ![r] = c]
  BY <1>1
<1>3. SearchOK(r)'
  BY <1>1 DEF SearchOK, Searches, FileSearches, Searching
<1>4. (\A s \in Requests \ {r} : SameSearch(s)) /\ DOMAIN progress' = Requests
  BY <1>1, <1>2 DEF SearchInv, SameSearch
<1> QED BY <1>3, <1>4, SearchOne

LEMMA SearchOutcome ==
  ASSUME ForwardInv, SearchInv, NEW r \in Requests, NEW class, Outcome(r, class)
  PROVE  SearchInv'
<1>1. /\ ~Searches(r) /\ form[r] # "translated" /\ UNCHANGED <<form, progress>>
      /\ pc' = [pc EXCEPT ![r] = IF form[r] = "attached" /\ class = "ok" THEN "turn" ELSE "settle"]
  BY DEF Outcome, Goto
<1>2. pc'[r] \in {"turn", "settle"}
  BY <1>1 DEF ForwardInv, ForwardTypeOK
<1>3. progress'[r] = NoSearch /\ DOMAIN progress' = Requests
  BY <1>1 DEF SearchInv, SearchOK
<1>4. SearchOK(r)'
  BY <1>2, <1>3, SearchReset DEF Searching
<1>5. \A s \in Requests \ {r} : SameSearch(s)
  BY <1>1 DEF ForwardInv, ForwardTypeOK, SameSearch
<1> QED BY <1>3, <1>4, <1>5, SearchOne

LEMMA SearchHandler ==
  ASSUME ForwardInv, SearchInv, NEW r \in Requests, Handler(r)
  PROVE  SearchInv'
<1>1. CASE Start(r) \/ StartSearch(r) \/ StartRealtime(r) \/ StartLive(r) \/ StartGeminiLive(r)
  <2>1. PICK f : Begin(r, f)
    BY <1>1 DEF Start, StartSearch, StartRealtime, StartLive, StartGeminiLive
  <2> QED BY <2>1, SearchMove DEF Begin, At, Goto, Searching
<1>2. CASE AdmitTarget(r) \/ BeginDispatch(r) \/ MarkForDispatch(r) \/ MarkFails(r)
  <2>1. pc[r] \in {"admit", "lock", "mark"} /\ UNCHANGED <<form, progress>>
        /\ \E place \in {"lock", "mark", "undo", "send"} : pc' = [pc EXCEPT ![r] = place]
    BY <1>2 DEF AdmitTarget, BeginDispatch, MarkForDispatch, MarkFails, At, Goto, localVars
  <2>2. PICK place \in {"lock", "mark", "undo", "send"} : pc' = [pc EXCEPT ![r] = place]
    BY <2>1
  <2>3. place \notin Searching /\ pc[r] \notin Searching
    BY <2>1 DEF Searching
  <2> QED BY <2>1, <2>2, <2>3, SearchMove
<1>3. CASE AdmitDenied(r) \/ Undo(r) \/ Reply(r)
  BY <1>3, SearchReturn DEF AdmitDenied, Undo, Reply
<1>4. CASE Send(r) \/ SendAgain(r)
  BY <1>4, SearchWritten, SearchEnds DEF Send, SendAgain, At
<1>5. CASE \/ SendFails(r) \/ DialFails(r) \/ TranslateStream(r) \/ SearchAnswers(r) \/ SearchFails(r)
           \/ UpgradeFails(r) \/ ServeRealtime(r) \/ RelayLiveSession(r) \/ RelayGeminiLiveSession(r)
  <2>1. \E class : Ends(r, class)
    BY <1>5
    DEF SendFails, DialFails, TranslateStream, SearchAnswers, SearchFails, UpgradeFails, ServeRealtime,
        RelayLiveSession, RelayGeminiLiveSession, RelayEnds
  <2> QED BY <2>1, SearchEnds
<1>6. CASE Dial(r) \/ StartSession(r) \/ SetupSession(r)
  <2>1. \/ \E class : Ends(r, class)
        \/ /\ pc[r] \in {"send", "setup"} /\ UNCHANGED <<form, progress>>
           /\ \E place \in {"setup", "session"} : pc' = [pc EXCEPT ![r] = place]
    BY <1>6 DEF Dial, StartSession, SetupSession, FirstFrame, At, Goto, localVars
  <2>2. CASE \E class : Ends(r, class)
    BY <2>2, SearchEnds
  <2>3. ASSUME NEW place \in {"setup", "session"}, pc[r] \in {"send", "setup"},
               UNCHANGED <<form, progress>>, pc' = [pc EXCEPT ![r] = place]
        PROVE  SearchInv'
    <3>1. place \notin Searching /\ pc[r] \notin Searching
      BY <2>3 DEF Searching
    <3> QED BY <2>3, <3>1, SearchMove
  <2> QED BY <2>1, <2>2, <2>3
<1>7. CASE TranslatePayload(r) \/ (\E class \in {"ok", "failed", "retryable", "refused"} : Outcome(r, class))
           \/ SearchRound(r) \/ BeginAgain(r)
  BY <1>7, SearchPayload, SearchOutcome, SearchRoundKeeps, SearchBeginAgain
<1>8. CASE StreamBytes(r) \/ ObserveFrame(r) \/ ObserveGeminiFrame(r)
  BY <1>8, SearchStill DEF StreamBytes, ObserveFrame, ObserveGeminiFrame, Observed
<1>9. CASE StoreTurn(r) \/ SettleAttempt(r) \/ SettleDeferred(r) \/ Publish(r) \/ FinalizeFailed(r)
  <2>1. /\ pc[r] \in {"turn", "settle", "publish", "finalize"} /\ UNCHANGED <<form, progress>>
        /\ \E place \in {"settle", "publish", "finalize", "retry", "reply"} : pc' = [pc EXCEPT ![r] = place]
    BY <1>9 DEF StoreTurn, SettleAttempt, SettleDeferred, Publish, FinalizeFailed, AfterSettle, At, Goto, localVars
  <2>2. PICK place \in {"settle", "publish", "finalize", "retry", "reply"} : pc' = [pc EXCEPT ![r] = place]
    BY <2>1
  <2>3. place \notin Searching /\ pc[r] \notin Searching
    BY <2>1 DEF Searching
  <2> QED BY <2>1, <2>2, <2>3, SearchMove
<1>10. CASE Retry(r)
  <2>1. \/ Return({r})
        \/ pc[r] = "retry" /\ pc' = [pc EXCEPT ![r] = "admit"] /\ UNCHANGED <<form, progress>>
    BY <1>10 DEF Retry, At, Goto
  <2> QED BY <2>1, SearchReturn, SearchMove DEF Searching
<1> QED BY <1>1, <1>2, <1>3, <1>4, <1>5, <1>6, <1>7, <1>8, <1>9, <1>10 DEF Handler

LEMMA SearchStep == ForwardInv /\ SearchInv /\ [ForwardNext]_allVars => SearchInv'
<1> SUFFICES ASSUME ForwardInv, SearchInv, [ForwardNext]_allVars PROVE SearchInv'
  OBVIOUS
<1>1. CASE \E r \in Requests : Handler(r)
  BY <1>1, SearchHandler
<1>2. CASE Crash
  BY <1>2, SearchReturn DEF Crash
<1>3. CASE \/ \E r \in Requests : ClientGone(r)
           \/ \E a \in Attempts : RetryDeferred(a)
           \/ \E c \in Connections : ChangeConfig(c)
           \/ RepairRequest \/ Restart \/ Quiet \/ UNCHANGED allVars
  BY <1>3, SearchStill DEF ClientGone, RetryDeferred, ChangeConfig, RepairRequest, Restart, Quiet, allVars, localVars
<1> QED BY <1>1, <1>2, <1>3 DEF ForwardNext

LEMMA SearchInvariant == ForwardSpec => []SearchInv
<1>1. ForwardInit => SearchInv
  <2>1. ASSUME ForwardInit, NEW r \in Requests PROVE SearchOK(r)
    <3>1. progress[r] = NoSearch /\ pc[r] = "idle" /\ form[r] = None
      BY <2>1 DEF ForwardInit
    <3> QED BY <3>1 DEF SearchOK, Searches, FileSearches, Searching, None
  <2> QED BY <2>1 DEF ForwardInit, SearchInv
<1> QED BY <1>1, SearchStep, ForwardInvariant, PTL DEF ForwardSpec

\* However a provider spreads its searches over its answers, what all calls of a
\* file search cost in input stays within what was reserved once, at admission
\* (responseFileSearchInputReservation against dispatchResponseFileSearch).
THEOREM SearchStaysReserved == ForwardSpec => []SearchWithinReservation
<1>1. ASSUME SearchInv, NEW r \in Requests, Searches(r) PROVE progress[r].used <= InputReservation
  <2> DEFINE W == SearchResult + SearchOutput
             s == progress[r]
  <2>1. SearchOK(r) /\ Within(s, Sends(r))
    BY <1>1 DEF SearchInv, SearchOK
  <2>2. s.used \in Nat /\ s.calls \in Nat /\ s.calls <= SearchCalls /\ 2 * s.used <= Spent(Sends(r))
    BY <2>1 DEF Within, SearchRow
  <2>3. SearchCalls \in Nat /\ SearchInput \in Nat /\ W \in Nat
    BY SearchAssumption
  <2>4. Sends(r) \in Nat /\ Sends(r) <= SearchCalls + 1 /\ SearchCalls + 1 \in Nat
    BY <2>2, <2>3 DEF Sends
  <2>5. /\ Spent(Sends(r)) <= Spent(SearchCalls + 1)
        /\ Spent(Sends(r)) \in Int /\ Spent(SearchCalls + 1) \in Int
    BY <2>4, SpentMonotone, SpentStep
  <2>6. 2 * s.used <= Spent(SearchCalls + 1)
    <3> HIDE DEF s
    <3> QED BY <2>2, <2>5
  <2>7. PICK h \in Int : h = (SearchCalls * (SearchCalls + 1)) \div 2
    <3>1. SearchCalls * (SearchCalls + 1) \in Nat
      BY <2>3
    <3> QED BY <3>1
  <2>8. 2 * h = SearchCalls * (SearchCalls + 1)
    BY <2>3, <2>7, EvenProduct
  <2>9. Spent(SearchCalls + 1) = 2 * ((SearchCalls + 1) * SearchInput) + ((SearchCalls + 1) * SearchCalls) * W
    <3>1. (SearchCalls + 1) - 1 = SearchCalls
      BY <2>3
    <3> QED BY <3>1 DEF Spent
  <2>10. InputReservation = (SearchCalls + 1) * SearchInput + h * W
    BY <2>7 DEF InputReservation
  <2> HIDE DEF W, s
  <2>11. (SearchCalls + 1) * SearchCalls = 2 * h
    BY <2>3, <2>8
  <2>12. (2 * h) * W = 2 * (h * W)
    BY <2>3
  <2>13. Spent(SearchCalls + 1) = 2 * InputReservation
    <3>1. (SearchCalls + 1) * SearchInput \in Int /\ h * W \in Int
      BY <2>3
    <3> QED BY <2>9, <2>10, <2>11, <2>12, <3>1
  <2>14. InputReservation \in Int
    BY <2>3, <2>10
  <2>15. s.used <= InputReservation
    BY <2>2, <2>6, <2>13, <2>14
  <2> QED BY <2>15 DEF s
<1>2. SearchInv => SearchWithinReservation
  BY <1>1 DEF SearchWithinReservation
<1> QED BY <1>2, SearchInvariant, PTL
=============================================================================
