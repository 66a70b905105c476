------------------------------ MODULE Identity ------------------------------
(***************************************************************************)
(* Users, their sessions, passwords and codes, and the API keys they own.  *)
(* Every management operation is one transaction that reads its actor      *)
(* again; what takes a password is several steps of an HTTP handler: what  *)
(* it reads first, the hash, which needs one of a few slots for password   *)
(* work, and the transaction, which checks again what may have changed.    *)
(*                                                                         *)
(* A stale revision refuses an edit, so the edits below are those that     *)
(* carry the current one.  A password is named by the authentication       *)
(* revision that set it; 0 is the placeholder no password matches.  A      *)
(* user keeps one email address, which login_throttles is keyed by: a new  *)
(* address is modelled by what else it changes.                            *)
(***************************************************************************)
EXTENDS Naturals, FiniteSets

CONSTANTS
  Users, Keys,
  Scopes,       \* what an inference grant may name: scopes, models, connections
  Handlers,     \* requests that work on passwords, one handler each
  Slots,        \* capacity of passwordSlots
  MaxFailures,  \* maxLoginFailures
  MaxRevisions, \* bound on the authentication revisions of all users together
  MaxCodes,     \* bound on the codes issued after the first, to all users together
  None

ASSUME IdentityAssumption ==
  /\ MaxFailures \in Nat \ {0} /\ MaxRevisions \in Nat \ {0} /\ MaxCodes \in Nat \ {0} /\ Slots \in Nat \ {0}
  /\ None \notin Users /\ None \notin Nat /\ None \notin {"active", "suspended"}
  /\ IsFiniteSet(Users) /\ IsFiniteSet(Handlers)

VARIABLES
  users,     \* users: role, status, auth_revision, password, grants
  codes,     \* activation_tokens, at most one per user
  sessions,  \* user_sessions: the user, its revision and the password used
  work,      \* what each handler is doing and what it has read
  throttle,  \* login_throttles by email
  keys       \* api_keys and the number of their secrets that are not revoked

vars == <<users, codes, sessions, work, throttle, keys>>

Roles == {"owner", "admin", "member"}
NoUser == [role |-> "member", status |-> "absent", auth |-> 0, password |-> 0, grants |-> {}]
NoCode == [purpose |-> "none", serial |-> 0]
NoKey == [owner |-> None, state |-> "absent", grants |-> {}, secrets |-> 0]
Waiting == [kind |-> "waiting", user |-> None, auth |-> 0, password |-> 0]
Over == [Waiting EXCEPT !.kind = "over"]

Init ==
  /\ users = [u \in Users |-> NoUser]
  /\ codes = [u \in Users |-> NoCode]
  /\ sessions = {}
  /\ work = [h \in Handlers |-> Waiting]
  /\ throttle = [u \in Users |-> [failures |-> 0, blocked |-> FALSE]]
  /\ keys = [k \in Keys |-> NoKey]

-----------------------------------------------------------------------------
Active(u) == users[u].status = "active"
ActiveOwners == {u \in Users : Active(u) /\ users[u].role = "owner"}
SetupRequired == ActiveOwners = {}
Pending(u) == users[u].status = "suspended" /\ codes[u].purpose = "activation"
CanManageAnyone(a, u) == users[a].role \in {"owner", "admin"}
CanManage(a, u) == users[a].role = "owner" \/ (users[a].role = "admin" /\ users[u].role = "member")
\* canGrant and allowedForUser: the owner has no ceiling.
Covers(u, grants) == users[u].role = "owner" \/ grants \subseteq users[u].grants
\* The bound on revisions leaves room for n more.
Bumps(n) == Cardinality({r \in Users \X (1..MaxRevisions) : r[2] <= users[r[1]].auth}) + n <= MaxRevisions
SessionsOf(u) == {s \in sessions : s.user = u}
\* SessionInfo
Valid(s) == Active(s.user) /\ s.auth = users[s.user].auth
NewSession(u, auth, password) == [user |-> u, auth |-> auth, password |-> password]

\* A new code takes the place of every other of the user.
Code(u, purpose, serial) == [codes EXCEPT ![u] = [purpose |-> purpose, serial |-> serial]]
Issue(u, purpose) ==
  /\ Cardinality({c \in Users \X (1..MaxCodes) : c[2] <= codes[c[1]].serial}) < MaxCodes
  /\ codes' = Code(u, purpose, codes[u].serial + 1)
Withdrawn(u) == [codes[u] EXCEPT !.purpose = "none"]

ClampedActive(u, ceiling) ==
  [k \in Keys |-> IF keys[k].owner = u /\ keys[k].state = "active"
                  THEN [keys[k] EXCEPT !.grants = @ \cap ceiling] ELSE keys[k]]
Clamped(u, ceiling) ==
  [k \in Keys |-> IF keys[k].owner = u THEN [keys[k] EXCEPT !.grants = @ \cap ceiling] ELSE keys[k]]

\* A handler takes a password slot or is refused (ErrTooManyAttempts).
Busy == {h \in Handlers : work[h].kind \notin {"waiting", "attempt", "over"}}
Start(h, job) == Cardinality(Busy) < Slots /\ work' = [work EXCEPT ![h] = job]
Done(h) == work' = [work EXCEPT ![h] = Over]

-----------------------------------------------------------------------------
(* Setup, and users managing users. *)

\* Two first visitors may both find the setup open; the transaction of the
\* second finds an owner.
ClaimRead(h, u) ==
  /\ work[h] = Waiting /\ users[u].status = "absent" /\ SetupRequired
  /\ \A g \in Handlers : work[g].user # u
  /\ Start(h, [kind |-> "claim", user |-> u, auth |-> 0, password |-> 0])
  /\ UNCHANGED <<users, codes, sessions, throttle, keys>>
ClaimCommit(h) ==
  LET u == work[h].user
  IN  /\ work[h].kind = "claim" /\ SetupRequired /\ Done(h)
      /\ users' = [users EXCEPT ![u] = [role |-> "owner", status |-> "active", auth |-> 1, password |-> 1, grants |-> {}]]
      /\ sessions' = sessions \cup {NewSession(u, 1, 1)}
      /\ UNCHANGED <<codes, throttle, keys>>

Create(a, u, role, grants) ==
  /\ users[u].status = "absent" /\ Active(a) /\ \A h \in Handlers : work[h].user # u
  /\ \/ users[a].role = "owner" /\ role \in {"admin", "member"}
     \/ users[a].role = "admin" /\ role = "member"
  /\ Covers(a, grants)
  /\ users' = [users EXCEPT ![u] = [role |-> role, status |-> "suspended", auth |-> 1, password |-> 0, grants |-> grants]]
  /\ codes' = Code(u, "activation", 0)
  /\ UNCHANGED <<sessions, work, throttle, keys>>

UpdateGrants(a, u, grants) ==
  /\ Active(a) /\ users[u].status # "absent" /\ CanManage(a, u) /\ Covers(a, grants) /\ Bumps(1)
  /\ users' = [users EXCEPT ![u].grants = grants, ![u].auth = @ + 1]
  /\ keys' = Clamped(u, grants)
  /\ sessions' = sessions \ SessionsOf(u)
  /\ UNCHANGED <<codes, work, throttle>>

\* A new status, or (None) a new email address.
Update(a, u, status) ==
  /\ a # u /\ Active(a) /\ users[u].status # "absent" /\ CanManage(a, u) /\ Bumps(1)
  /\ Pending(u) => status # "active"
  /\ LET changed == status # users[u].status
         newStatus == IF status = None THEN users[u].status ELSE status
     IN  /\ users' = IF changed THEN [users EXCEPT ![u].status = newStatus, ![u].auth = @ + 1] ELSE users
         /\ sessions' = IF changed THEN sessions \ SessionsOf(u) ELSE sessions
  /\ codes' = IF status = "suspended" THEN [codes EXCEPT ![u] = Withdrawn(u)] ELSE codes
  /\ UNCHANGED <<work, throttle, keys>>

IssueActivation(a, u) ==
  /\ Active(a) /\ CanManage(a, u) /\ Pending(u) /\ Issue(u, "activation")
  /\ UNCHANGED <<users, sessions, work, throttle, keys>>

\* Recovery ends every session, and so does the recovery of the owner that the
\* command line prepares.
Recovering(u) ==
  /\ Active(u) /\ Bumps(1) /\ Issue(u, "recovery")
  /\ users' = [users EXCEPT ![u].auth = @ + 1]
  /\ sessions' = sessions \ SessionsOf(u)
  /\ UNCHANGED <<work, throttle, keys>>
IssueRecovery(a, u) == Active(a) /\ CanManage(a, u) /\ Recovering(u)
PrepareOwnerRecovery(u) == u \in ActiveOwners /\ Recovering(u)

\* What the old owner keeps: the role of an admin and no grants.
Demoted(u) == [users[u] EXCEPT !.role = "admin", !.grants = {}, !.auth = @ + 1]

TransferOwner(a, u) ==
  /\ a # u /\ Active(a) /\ users[a].role = "owner"
  /\ Active(u) /\ users[u].role = "admin" /\ Bumps(2)
  /\ users' = [users EXCEPT ![a] = Demoted(a), ![u].role = "owner", ![u].auth = @ + 1]
  /\ sessions' = sessions \ (SessionsOf(a) \cup SessionsOf(u))
  /\ codes' = [codes EXCEPT ![a] = Withdrawn(a), ![u] = Withdrawn(u)]
  /\ keys' = Clamped(a, {})
  /\ UNCHANGED <<work, throttle>>

-----------------------------------------------------------------------------
(* Passwords, codes and sessions. *)

\* Login reads the throttle, and then the user and its hash.  An address that
\* is not an active user's is checked against a hash nothing matches (None).
LoginRead(h, u) ==
  /\ work[h] = Waiting /\ users[u].status # "absent" /\ ~throttle[u].blocked
  /\ work' = [work EXCEPT ![h] = [kind |-> "attempt", user |-> u, auth |-> 0, password |-> 0]]
  /\ UNCHANGED <<users, codes, sessions, throttle, keys>>
LoginVerify(h) ==
  LET u == work[h].user
  IN  /\ work[h].kind = "attempt"
      /\ Start(h, [kind |-> "login", user |-> u, auth |-> users[u].auth,
                   password |-> IF Active(u) THEN users[u].password ELSE None])
      /\ UNCHANGED <<users, codes, sessions, throttle, keys>>

\* The password matches the hash that was read: the session opens only if
\* nothing about the user's authentication has changed since.
MayOpenActive(job) == Active(job.user)
MayOpen(job) == Active(job.user) /\ users[job.user].auth = job.auth
Quiet == [failures |-> 0, blocked |-> FALSE]
LoginMatches(h) ==
  LET u == work[h].user
  IN  /\ work[h].kind = "login" /\ work[h].password \notin {0, None}
      /\ throttle' = [throttle EXCEPT ![u] = Quiet]
      /\ sessions' = IF MayOpen(work[h])
                     THEN sessions \cup {NewSession(u, users[u].auth, work[h].password)}
                     ELSE sessions
      /\ Done(h)
      /\ UNCHANGED <<users, codes, keys>>

\* recordLoginFailure for the email.  It replaces the block as well: a failure
\* that arrives after the end of the window opens a new one.
Recorded(row) == [failures |-> row.failures + 1, blocked |-> row.failures + 1 >= MaxFailures]
LoginFails(h) ==
  LET u == work[h].user
  IN  /\ work[h].kind = "login" /\ work[h].password # 0
      /\ throttle' = [throttle EXCEPT ![u] = Recorded(@)]
      /\ Done(h)
      /\ UNCHANGED <<users, codes, sessions, keys>>

\* The window counts from its first failure and the block from the last, so the
\* window ends first.
WindowLapses(u) ==
  /\ throttle[u].failures > 0
  /\ throttle' = [throttle EXCEPT ![u].failures = 0]
  /\ UNCHANGED <<users, codes, sessions, work, keys>>
BlockLapses(u) ==
  /\ throttle[u].blocked /\ throttle[u].failures = 0
  /\ throttle' = [throttle EXCEPT ![u].blocked = FALSE]
  /\ UNCHANGED <<users, codes, sessions, work, keys>>

\* Activate looks the code up before it takes a slot and again, with all its
\* conditions, inside the transaction.  A code that expired still marks its user
\* as pending; it differs only in that nobody activates with it any more.
Eligible(u) ==
  \/ codes[u].purpose = "recovery" /\ Active(u)
  \/ codes[u].purpose = "activation" /\ users[u].status = "suspended"
ActivateRead(h, u) ==
  /\ work[h] = Waiting /\ Eligible(u)
  /\ Start(h, [kind |-> "activate", user |-> u, auth |-> codes[u].serial, password |-> 0])
  /\ UNCHANGED <<users, codes, sessions, throttle, keys>>
ActivateCommit(h) ==
  LET u == work[h].user
      auth == users[u].auth + 1
  IN  /\ work[h].kind = "activate" /\ Done(h)
      /\ Eligible(u) /\ codes[u].serial = work[h].auth /\ Bumps(1)
      /\ users' = [users EXCEPT ![u].status = "active", ![u].auth = auth, ![u].password = auth]
      /\ sessions' = (sessions \ SessionsOf(u)) \cup {NewSession(u, auth, auth)}
      /\ codes' = [codes EXCEPT ![u] = Withdrawn(u)]
      /\ UNCHANGED <<throttle, keys>>

\* ChangePassword and, for a new email address, UpdateProfile: the caller's
\* session was valid when it was read, and its revision guards the update.
ChangeRead(h, session, kind) ==
  /\ work[h] = Waiting /\ session \in sessions /\ Valid(session)
  /\ Start(h, [kind |-> kind, user |-> session.user, auth |-> session.auth, password |-> 0])
  /\ UNCHANGED <<users, codes, sessions, throttle, keys>>

\* ChangePassword replaces the password; UpdateProfile keeps it.
ChangeCommit(h) ==
  LET u == work[h].user
      auth == users[u].auth + 1
      password == IF work[h].kind = "password" THEN auth ELSE users[u].password
  IN  /\ work[h].kind \in {"password", "profile"} /\ Done(h)
      /\ users[u].auth = work[h].auth /\ Active(u) /\ Bumps(1)
      /\ users' = [users EXCEPT ![u].auth = auth, ![u].password = password]
      /\ sessions' = (sessions \ SessionsOf(u)) \cup {NewSession(u, auth, password)}
      /\ UNCHANGED <<codes, throttle, keys>>

\* A refused, mistaken or outdated request, or one whose client left: it ends
\* without a trace.
Abandon(h) ==
  /\ work[h] \notin {Waiting, Over} /\ Done(h)
  /\ UNCHANGED <<users, codes, sessions, throttle, keys>>

\* Logout, RevokeSession, or the session's own expiry.
EndSession(session) ==
  /\ session \in sessions
  /\ sessions' = sessions \ {session}
  /\ UNCHANGED <<users, codes, work, throttle, keys>>

-----------------------------------------------------------------------------
(* API keys. *)

CreateKey(u, k, grants) ==
  /\ keys[k].state = "absent" /\ Active(u) /\ Covers(u, grants)
  /\ keys' = [keys EXCEPT ![k] = [owner |-> u, state |-> "active", grants |-> grants, secrets |-> 1]]
  /\ UNCHANGED <<users, codes, sessions, work, throttle>>

UpdateKey(u, k, grants, state) ==
  /\ keys[k].owner = u /\ keys[k].state # "revoked" /\ Active(u) /\ Covers(u, grants)
  /\ keys' = [keys EXCEPT ![k].grants = grants, ![k].state = state]
  /\ UNCHANGED <<users, codes, sessions, work, throttle>>

RevokeKey(u, k) ==
  /\ keys[k].owner = u /\ keys[k].state \in {"active", "disabled"}
  /\ keys' = [keys EXCEPT ![k].state = "revoked", ![k].secrets = 0]
  /\ UNCHANGED <<users, codes, sessions, work, throttle>>

\* A rotation revokes every secret and adds one, so their number stays; it is
\* refused for an expired key.
RotateKey(u, k) ==
  /\ keys[k].owner = u /\ keys[k].state = "active"
  /\ keys' = [keys EXCEPT ![k].secrets = 1]
  /\ UNCHANGED <<users, codes, sessions, work, throttle>>

-----------------------------------------------------------------------------
Manage ==
  \E a, u \in Users :
    \/ IssueActivation(a, u) \/ IssueRecovery(a, u) \/ TransferOwner(a, u)
    \/ \E grants \in SUBSET Scopes : UpdateGrants(a, u, grants) \/ \E role \in Roles : Create(a, u, role, grants)
    \/ \E status \in {"active", "suspended", None} : Update(a, u, status)

Authenticate ==
  \/ \E u \in Users : PrepareOwnerRecovery(u) \/ WindowLapses(u) \/ BlockLapses(u)
  \/ \E session \in sessions : EndSession(session)
  \/ \E h \in Handlers :
       \/ ClaimCommit(h) \/ LoginVerify(h) \/ LoginMatches(h) \/ LoginFails(h)
       \/ ActivateCommit(h) \/ ChangeCommit(h) \/ Abandon(h)
       \/ \E u \in Users : ClaimRead(h, u) \/ LoginRead(h, u) \/ ActivateRead(h, u)
       \/ \E session \in sessions, kind \in {"password", "profile"} : ChangeRead(h, session, kind)

ManageKeys ==
  \E u \in Users, k \in Keys :
    \/ RevokeKey(u, k) \/ RotateKey(u, k)
    \/ \E grants \in SUBSET Scopes :
         CreateKey(u, k, grants) \/ \E state \in {"active", "disabled"} : UpdateKey(u, k, grants, state)

Next == Manage \/ Authenticate \/ ManageKeys

Spec == Init /\ [][Next]_vars

-----------------------------------------------------------------------------
\* Claim, TransferOwner, Update: from the first claim on there is exactly one
\* active owner, however claims race and whoever suspends or promotes whom.  A
\* moment without one would open the setup to the next visitor.
OneOwner == (\E u \in Users : users[u].status # "absent") => \E o \in Users : ActiveOwners = {o}

\* Login, ChangePassword, Activate: a session that is accepted was opened with
\* the password its user has now, although the password was checked before the
\* session was written.
SessionsAreCurrent == \A s \in sessions : Valid(s) => s.password = users[s.user].password

\* clampKeys, allowedForUser: a stored key never holds more than its user, so
\* that grants which are taken away and given back do not return to old keys.
KeysWithinCeiling == \A k \in Keys : keys[k].state # "absent" => Covers(keys[k].owner, keys[k].grants)
=============================================================================
