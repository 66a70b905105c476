---------------------------- MODULE IdentityProofs ----------------------------
(***************************************************************************)
(* Proofs about Identity for every number of users, keys, handlers, slots  *)
(* and revisions.                                                          *)
(*                                                                         *)
(* IdentityInv is inductive.  A moment without an owner is excluded by     *)
(* Ownership: the owner's role never leaves an active user, so a claim     *)
(* that finds no active owner finds no user at all.  Revisions says what   *)
(* auth_revision is for: whoever remembers the current revision of a user, *)
(* a session or a login that has yet to commit, remembers the current      *)
(* password as well.                                                       *)
(***************************************************************************)
EXTENDS Identity, TLAPS

Kinds == {"waiting", "over", "claim", "attempt", "login", "activate", "password", "profile"}

UserRow == [role : Roles, status : {"absent", "suspended", "active"}, auth : Nat, password : Nat,
            grants : SUBSET Scopes]
CodeRow == [purpose : {"none", "activation", "recovery"}, serial : Nat]
Session == [user : Users, auth : Nat, password : Nat]
Job == [kind : Kinds, user : Users \cup {None}, auth : Nat, password : Nat \cup {None}]
KeyRow == [owner : Users \cup {None}, state : {"absent", "active", "disabled", "revoked"},
           grants : SUBSET Scopes, secrets : Nat]

IdentityTypeOK ==
  /\ users \in [Users -> UserRow]
  /\ codes \in [Users -> CodeRow]
  /\ sessions \subseteq Session
  /\ work \in [Handlers -> Job]
  /\ throttle \in [Users -> [failures : Nat, blocked : BOOLEAN]]
  /\ keys \in [Keys -> KeyRow]

Present(u) == users[u].status # "absent"
Working(h) == work[h].kind \notin {"waiting", "over"}

\* A claim works for an address nobody else has; every other handler works for
\* a user that exists.
JobsHaveUsers ==
  /\ \A h \in Handlers : Working(h) => work[h].user \in Users
  /\ \A h \in Handlers : ~Working(h) => work[h].user = None
  /\ \A h \in Handlers : Working(h) => (Present(work[h].user) <=> work[h].kind # "claim")
  /\ \A h, g \in Handlers : work[h].kind = "claim" /\ work[h].user = work[g].user => h = g

\* The role of the owner belongs to one user, who is active, as soon as there
\* is a user.
Ownership ==
  /\ \A u \in Users : users[u].role = "owner" => Active(u)
  /\ \A u, v \in Users : users[u].role = "owner" /\ users[v].role = "owner" => u = v
  /\ \A u \in Users : Present(u) => \E o \in Users : users[o].role = "owner"

\* Who remembers the current revision remembers the current password.
Remembers(m) ==
  /\ m.auth <= users[m.user].auth
  /\ m.auth = users[m.user].auth => m.password = users[m.user].password

Revisions ==
  /\ \A s \in sessions : Present(s.user) /\ Remembers(s)
  /\ \A h \in Handlers : work[h].kind = "login" /\ work[h].password \notin {0, None} => Remembers(work[h])

KeysHaveOwners ==
  \A k \in Keys : /\ keys[k].state # "absent" => keys[k].owner \in Users /\ Present(keys[k].owner)
                  /\ keys[k].state = "absent" => keys[k].owner = None

IdentityInv ==
  /\ IdentityTypeOK /\ JobsHaveUsers /\ Ownership /\ Revisions
  /\ KeysHaveOwners /\ KeysWithinCeiling

\* The empty database satisfies the invariant.
LEMMA InitIdentity == Init => IdentityInv
  BY IdentityAssumption
     DEF Init, IdentityInv, IdentityTypeOK, UserRow, CodeRow, Job, KeyRow, Roles, Kinds, NoUser, NoCode, NoKey, Waiting,
         JobsHaveUsers, Ownership, Revisions, KeysHaveOwners, KeysWithinCeiling, Present, Working, Active

\* None is no user, no revision and no status.
LEMMA NoneFact == None \notin Users /\ None \notin Nat /\ None \notin {"active", "suspended"}
  BY IdentityAssumption

-----------------------------------------------------------------------------
(* What several operations have in common. *)

\* A row whose revision is raised is a row.
LEMMA RevisedRow ==
  ASSUME NEW row \in UserRow
  PROVE  [row EXCEPT !.auth = @ + 1] \in UserRow
  BY DEF UserRow

\* A handler that ends keeps the jobs of the others.
LEMMA DoneFact ==
  ASSUME IdentityInv, NEW h \in Handlers, Done(h)
  PROVE  /\ work' \in [Handlers -> Job]
         /\ \A g \in Handlers : work'[g] = work[g] \/ work'[g] = Over
  BY NoneFact DEF IdentityInv, IdentityTypeOK, Job, Kinds, Done, Over, Waiting

\* While the users stay as they are, jobs only end and sessions only end, the
\* invariants about them hold.
LEMMA UsersKept ==
  ASSUME IdentityInv, UNCHANGED users, sessions' \subseteq sessions,
         \A h \in Handlers : work'[h] = work[h] \/ work'[h] = Over
  PROVE  JobsHaveUsers' /\ Ownership' /\ Revisions'
<1>0. \A u \in Users : Present(u)' <=> Present(u)
  BY DEF Present
<1>1. JobsHaveUsers'
  BY <1>0, NoneFact DEF IdentityInv, JobsHaveUsers, Working, Over, Waiting
<1>2. Ownership'
  BY DEF IdentityInv, Ownership, Present, Active
<1>3. Revisions'
  BY DEF IdentityInv, Revisions, Remembers, Present, Over, Waiting
<1> QED BY <1>1, <1>2, <1>3

\* The keys do not change and neither does what decides over their ceiling.
LEMMA KeysKept ==
  ASSUME IdentityInv, UNCHANGED keys,
         \A u \in Users : /\ Present(u) => Present(u)'
                          /\ Present(u) => users'[u].role = users[u].role /\ users'[u].grants = users[u].grants
  PROVE  KeysHaveOwners' /\ KeysWithinCeiling'
  BY DEF IdentityInv, KeysHaveOwners, KeysWithinCeiling, Covers

\* Every change of an existing user raises its revision and ends its sessions;
\* at most one new session opens, with the revision and the password that result.
\* This is what Revisions rests on.
LEMMA UserRevised ==
  ASSUME IdentityInv, NEW u \in Users, Present(u),
         users' \in [Users -> UserRow],
         \A v \in Users \ {u} : users'[v] = users[v],
         users'[u].role = users[u].role, users'[u].auth = users[u].auth + 1,
         users'[u].status # "absent", users[u].role = "owner" => users'[u].status = "active",
         sessions' \subseteq (sessions \ SessionsOf(u)) \cup {NewSession(u, users'[u].auth, users'[u].password)},
         \A h \in Handlers : work'[h] = work[h] \/ work'[h] = Over
  PROVE  sessions' \subseteq Session /\ JobsHaveUsers' /\ Ownership' /\ Revisions'
<1>1. users[u] \in UserRow /\ users'[u] \in UserRow
  BY DEF IdentityInv, IdentityTypeOK
<1>2. users[u].auth \in Nat /\ users'[u].auth \in Nat /\ users'[u].password \in Nat
  BY <1>1 DEF UserRow
<1>3. \A v \in Users : /\ Present(v)' <=> Present(v)
                       /\ users'[v].role = users[v].role
  BY DEF Present
<1>4. \A s \in sessions' : (s \in sessions /\ s.user # u) \/ s = NewSession(u, users'[u].auth, users'[u].password)
  BY DEF SessionsOf
<1>5. sessions' \subseteq Session
  BY <1>2, <1>4 DEF IdentityInv, IdentityTypeOK, Session, NewSession
<1>6. JobsHaveUsers'
  BY <1>3, NoneFact DEF IdentityInv, JobsHaveUsers, Working, Over, Waiting
<1>7. Ownership'
  BY <1>3 DEF IdentityInv, Ownership, Active
<1>8. \A s \in sessions' : Present(s.user)' /\ Remembers(s)'
  <2> SUFFICES ASSUME NEW s \in sessions' PROVE Present(s.user)' /\ Remembers(s)'
    OBVIOUS
  <2>1. CASE s \in sessions /\ s.user # u
    <3>1. s.user \in Users \ {u} /\ Present(s.user) /\ Remembers(s)
      BY <2>1 DEF IdentityInv, IdentityTypeOK, Session, Revisions
    <3> QED BY <3>1, <1>3 DEF Remembers
  <2>2. CASE s = NewSession(u, users'[u].auth, users'[u].password)
    BY <2>2, <1>2, <1>3 DEF NewSession, Remembers
  <2> QED BY <1>4, <2>1, <2>2
<1>9. ASSUME NEW h \in Handlers, work'[h].kind = "login", work'[h].password \notin {0, None}
      PROVE  Remembers(work[h])'
  <2>1. work'[h] = work[h] /\ work[h].user \in Users
    BY <1>9 DEF IdentityInv, JobsHaveUsers, Working, Over, Waiting
  <2>2. Remembers(work[h]) /\ work[h].auth \in Nat
    BY <1>9, <2>1 DEF IdentityInv, Revisions, IdentityTypeOK, Job
  <2> QED BY <1>2, <2>1, <2>2 DEF Remembers
<1> QED BY <1>5, <1>6, <1>7, <1>8, <1>9 DEF Revisions

\* A handler takes up a job for a user: a claim for an address nobody has, or
\* anything else for a user that exists.
LEMMA JobTaken ==
  ASSUME IdentityInv, NEW h \in Handlers, NEW job \in Job, work' = [work EXCEPT ![h] = job],
         job.kind \notin {"waiting", "over"}, job.user \in Users,
         Present(job.user) <=> job.kind # "claim",
         job.kind = "claim" => \A g \in Handlers : work[g].user # job.user,
         job.kind = "login" /\ job.password \notin {0, None} => Remembers(job),
         UNCHANGED <<users, codes, sessions, throttle, keys>>
  PROVE  IdentityInv'
<1>1. IdentityTypeOK'
  BY DEF IdentityInv, IdentityTypeOK
<1>2. \A g \in Handlers : work'[g] = IF g = h THEN job ELSE work[g]
  BY DEF IdentityInv, IdentityTypeOK
<1>3. JobsHaveUsers'
  BY <1>2 DEF IdentityInv, JobsHaveUsers, Working, Present
<1>4. Ownership'
  BY DEF IdentityInv, Ownership, Present, Active
<1>5. Revisions'
  BY <1>2 DEF IdentityInv, Revisions, Remembers, Present
<1>6. KeysHaveOwners' /\ KeysWithinCeiling'
  BY KeysKept DEF Present
<1> QED BY <1>1, <1>3, <1>4, <1>5, <1>6 DEF IdentityInv

-----------------------------------------------------------------------------
(* The operations on users. *)

\* Claim: the transaction that finds no owner finds no user, so the claimant
\* becomes the first and only one.
LEMMA ClaimCommitInv ==
  ASSUME IdentityInv, NEW h \in Handlers, ClaimCommit(h)
  PROVE  IdentityInv'
<1> DEFINE u == work[h].user
           row == [role |-> "owner", status |-> "active", auth |-> 1, password |-> 1, grants |-> {}]
<1>1. u \in Users /\ ~Present(u) /\ \A v \in Users : ~Present(v) /\ users[v].role # "owner"
  BY DEF ClaimCommit, IdentityInv, JobsHaveUsers, Working, Ownership, SetupRequired, ActiveOwners, Active
<1>2. /\ \A v \in Users : users'[v] = IF v = u THEN row ELSE users[v]
      /\ sessions' = {NewSession(u, 1, 1)}
  <2>1. sessions = {}
    BY <1>1 DEF IdentityInv, IdentityTypeOK, Session, Revisions
  <2> QED BY <1>1, <2>1 DEF ClaimCommit, IdentityInv, IdentityTypeOK
<1>3. \A g \in Handlers : work'[g] = IF g = h THEN Over ELSE work[g]
  BY DEF ClaimCommit, Done, IdentityInv, IdentityTypeOK
<1>4. IdentityTypeOK'
  <2>1. row \in UserRow
    BY DEF UserRow, Roles
  <2>2. users' \in [Users -> UserRow]
    BY <1>1, <2>1 DEF ClaimCommit, IdentityInv, IdentityTypeOK
  <2>3. sessions' \subseteq Session
    BY <1>1, <1>2 DEF Session, NewSession
  <2> QED BY <2>2, <2>3, DoneFact DEF ClaimCommit, IdentityInv, IdentityTypeOK
<1>5. JobsHaveUsers'
  BY <1>1, <1>2, <1>3, NoneFact DEF ClaimCommit, IdentityInv, JobsHaveUsers, Working, Over, Waiting, Present
<1>6. Ownership'
  BY <1>1, <1>2 DEF Ownership, Active
<1>7. Revisions'
  <2>1. \A g \in Handlers : work'[g].kind # "login"
    BY <1>1, <1>3 DEF IdentityInv, JobsHaveUsers, Working, Over, Waiting
  <2> QED BY <1>1, <1>2, <2>1 DEF Revisions, Remembers, NewSession, Present
<1>8. KeysHaveOwners' /\ KeysWithinCeiling'
  <2>1. \A k \in Keys : keys'[k].state = "absent" /\ keys'[k].owner = None
    BY <1>1 DEF ClaimCommit, IdentityInv, IdentityTypeOK, KeyRow, KeysHaveOwners
  <2> QED BY <2>1 DEF KeysHaveOwners, KeysWithinCeiling
<1> QED BY <1>4, <1>5, <1>6, <1>7, <1>8 DEF IdentityInv

\* Create adds a user that is nobody's job, has no session and is no owner.
LEMMA CreateInv ==
  ASSUME IdentityInv, NEW a \in Users, NEW u \in Users, NEW role \in Roles, NEW grants \in SUBSET Scopes,
         Create(a, u, role, grants)
  PROVE  IdentityInv'
<1> DEFINE row == [role |-> role, status |-> "suspended", auth |-> 1, password |-> 0, grants |-> grants]
<1>1. /\ \A v \in Users : users'[v] = IF v = u THEN row ELSE users[v]
      /\ ~Present(u) /\ Present(a) /\ role # "owner" /\ \A h \in Handlers : work[h].user # u
      /\ UNCHANGED <<sessions, work, throttle, keys>>
  BY DEF Create, IdentityInv, IdentityTypeOK, Present, Active
<1>2. IdentityTypeOK'
  <2>1. row \in UserRow
    BY DEF UserRow
  <2>2. users' \in [Users -> UserRow] /\ codes' \in [Users -> CodeRow]
    BY <2>1 DEF Create, Code, IdentityInv, IdentityTypeOK, CodeRow
  <2> QED BY <1>1, <2>2 DEF IdentityInv, IdentityTypeOK
<1>3. JobsHaveUsers'
  BY <1>1 DEF IdentityInv, JobsHaveUsers, Working, Present
<1>4. Ownership'
  BY <1>1 DEF IdentityInv, Ownership, Present, Active
<1>5. Revisions'
  <2>1. \A s \in sessions : s.user \in Users /\ s.user # u
    BY <1>1 DEF IdentityInv, IdentityTypeOK, Session, Revisions
  <2>2. \A h \in Handlers : work[h].kind = "login" => work[h].user \in Users /\ work[h].user # u
    BY <1>1 DEF IdentityInv, JobsHaveUsers, Working
  <2> QED BY <1>1, <2>1, <2>2 DEF IdentityInv, Revisions, Remembers, Present
<1>6. KeysHaveOwners' /\ KeysWithinCeiling'
  BY <1>1, KeysKept DEF Present
<1> QED BY <1>2, <1>3, <1>4, <1>5, <1>6 DEF IdentityInv

\* The keys of a user that is revised: cut to the new grants.
LEMMA UpdateGrantsInv ==
  ASSUME IdentityInv, NEW a \in Users, NEW u \in Users, NEW grants \in SUBSET Scopes, UpdateGrants(a, u, grants)
  PROVE  IdentityInv'
<1> DEFINE row == [users[u] EXCEPT !.grants = grants, !.auth = @ + 1]
<1>1. users[u] \in UserRow /\ row \in UserRow
  <2>1. users[u] \in UserRow
    BY DEF IdentityInv, IdentityTypeOK
  <2>2. [users[u] EXCEPT !.grants = grants] \in UserRow
    BY <2>1 DEF UserRow
  <2> QED BY <2>1, <2>2, RevisedRow
<1>2. users' = [users EXCEPT ![u] = row] /\ Present(u) /\ sessions' = sessions \ SessionsOf(u)
  BY DEF UpdateGrants, Present, IdentityInv, IdentityTypeOK
<1>3. /\ users' \in [Users -> UserRow]
      /\ \A v \in Users \ {u} : users'[v] = users[v]
      /\ users'[u].role = users[u].role /\ users'[u].status = users[u].status
      /\ users'[u].grants = grants /\ users'[u].auth = users[u].auth + 1
  BY <1>1, <1>2 DEF IdentityInv, IdentityTypeOK, UserRow
<1>4. /\ sessions' \subseteq Session
      /\ JobsHaveUsers' /\ Ownership' /\ Revisions'
  <2>1. users[u].role = "owner" => users[u].status = "active"
    BY DEF IdentityInv, Ownership, Active
  <2> QED BY <1>2, <1>3, <2>1, UserRevised DEF UpdateGrants, Present
<1>5. \A k \in Keys : /\ keys'[k] \in KeyRow
                      /\ keys'[k].owner = keys[k].owner /\ keys'[k].state = keys[k].state
                      /\ keys'[k].grants \subseteq keys[k].grants
                      /\ keys[k].owner = u => keys'[k].grants \subseteq grants
  BY DEF UpdateGrants, Clamped, IdentityInv, IdentityTypeOK, KeyRow
<1>6. IdentityTypeOK'
  <2>1. keys' \in [Keys -> KeyRow]
    BY <1>5 DEF UpdateGrants, Clamped
  <2> QED BY <1>3, <1>4, <2>1 DEF UpdateGrants, IdentityInv, IdentityTypeOK
<1>7. KeysHaveOwners'
  BY <1>2, <1>3, <1>5 DEF IdentityInv, KeysHaveOwners, Present
<1>8. KeysWithinCeiling'
  BY <1>3, <1>5 DEF IdentityInv, KeysHaveOwners, KeysWithinCeiling, Covers
<1> QED BY <1>4, <1>6, <1>7, <1>8 DEF IdentityInv

\* Update never reaches the owner: the actor is somebody else, and only the
\* owner may manage an owner.
LEMMA UpdateInv ==
  ASSUME IdentityInv, NEW a \in Users, NEW u \in Users, NEW status \in {"active", "suspended", None},
         Update(a, u, status)
  PROVE  IdentityInv'
<1>1. users[u] \in UserRow /\ codes[u] \in CodeRow /\ Present(u)
  BY DEF Update, IdentityInv, IdentityTypeOK, Present
<1>2. users[u].role # "owner"
  BY DEF Update, CanManage, IdentityInv, Ownership
<1>3. codes' \in [Users -> CodeRow] /\ UNCHANGED <<work, throttle, keys>>
  BY <1>1 DEF Update, Withdrawn, IdentityInv, IdentityTypeOK, CodeRow
<1>4. CASE status = users[u].status
  <2>1. UNCHANGED <<users, sessions>>
    BY <1>4 DEF Update
  <2>2. IdentityTypeOK'
    BY <1>3, <2>1 DEF IdentityInv, IdentityTypeOK
  <2>3. JobsHaveUsers' /\ Ownership' /\ Revisions'
    BY <1>3, <2>1, UsersKept
  <2>4. KeysHaveOwners' /\ KeysWithinCeiling'
    BY <1>3, <2>1, KeysKept DEF Present
  <2> QED BY <2>2, <2>3, <2>4 DEF IdentityInv
<1>5. CASE status # users[u].status
  <2> DEFINE newStatus == IF status = None THEN users[u].status ELSE status
             row == [users[u] EXCEPT !.status = newStatus, !.auth = @ + 1]
  <2>1. newStatus \in {"active", "suspended"}
    BY <1>1, NoneFact DEF UserRow, Present
  <2>2. row \in UserRow
    <3>1. [users[u] EXCEPT !.status = newStatus] \in UserRow
      BY <1>1, <2>1 DEF UserRow
    <3> QED BY <3>1, RevisedRow
  <2>3. users' = [users EXCEPT ![u] = row] /\ sessions' = sessions \ SessionsOf(u)
    BY <1>5 DEF Update, IdentityInv, IdentityTypeOK
  <2>4. /\ users' \in [Users -> UserRow]
        /\ \A v \in Users \ {u} : users'[v] = users[v]
        /\ users'[u].role = users[u].role /\ users'[u].status = newStatus
        /\ users'[u].grants = users[u].grants /\ users'[u].auth = users[u].auth + 1
    BY <1>1, <2>2, <2>3 DEF IdentityInv, IdentityTypeOK, UserRow
  <2>5. sessions' \subseteq Session /\ JobsHaveUsers' /\ Ownership' /\ Revisions'
    BY <1>1, <1>2, <1>3, <2>1, <2>3, <2>4, UserRevised
  <2>6. IdentityTypeOK'
    BY <1>3, <2>4, <2>5 DEF IdentityInv, IdentityTypeOK
  <2>7. KeysHaveOwners' /\ KeysWithinCeiling'
    <3>1. \A v \in Users : Present(v) => Present(v)' /\ users'[v].role = users[v].role /\ users'[v].grants = users[v].grants
      BY <2>1, <2>4 DEF Present
    <3> QED BY <1>3, <3>1, KeysKept
  <2> QED BY <2>5, <2>6, <2>7 DEF IdentityInv
<1> QED BY <1>4, <1>5

\* IssueActivation replaces a code and nothing else.
LEMMA IssueActivationInv ==
  ASSUME IdentityInv, NEW a \in Users, NEW u \in Users, IssueActivation(a, u)
  PROVE  IdentityInv'
<1>1. codes[u] \in CodeRow /\ UNCHANGED <<users, sessions, work, throttle, keys>>
  BY DEF IssueActivation, IdentityInv, IdentityTypeOK
<1>2. IdentityTypeOK'
  BY <1>1 DEF IssueActivation, Issue, Code, IdentityInv, IdentityTypeOK, CodeRow
<1>3. JobsHaveUsers' /\ Ownership' /\ Revisions'
  BY <1>1, UsersKept
<1>4. KeysHaveOwners' /\ KeysWithinCeiling'
  BY <1>1, KeysKept DEF Present
<1> QED BY <1>2, <1>3, <1>4 DEF IdentityInv

\* IssueRecovery and PrepareOwnerRecovery end the sessions before the new
\* password is known.
LEMMA RecoveringInv ==
  ASSUME IdentityInv, NEW u \in Users, Recovering(u)
  PROVE  IdentityInv'
<1> DEFINE row == [users[u] EXCEPT !.auth = @ + 1]
<1>1. users[u] \in UserRow /\ codes[u] \in CodeRow /\ row \in UserRow
  BY RevisedRow DEF IdentityInv, IdentityTypeOK
<1>2. /\ users' = [users EXCEPT ![u] = row] /\ users[u].status = "active"
      /\ sessions' = sessions \ SessionsOf(u) /\ UNCHANGED <<work, throttle, keys>>
  BY DEF Recovering, Active, IdentityInv, IdentityTypeOK
<1>3. /\ users' \in [Users -> UserRow]
      /\ \A v \in Users \ {u} : users'[v] = users[v]
      /\ users'[u].role = users[u].role /\ users'[u].status = "active"
      /\ users'[u].grants = users[u].grants /\ users'[u].auth = users[u].auth + 1
  BY <1>1, <1>2 DEF IdentityInv, IdentityTypeOK, UserRow
<1>4. sessions' \subseteq Session /\ JobsHaveUsers' /\ Ownership' /\ Revisions'
  BY <1>2, <1>3, UserRevised DEF Present
<1>5. IdentityTypeOK'
  <2>1. codes' \in [Users -> CodeRow]
    BY <1>1 DEF Recovering, Issue, Code, IdentityInv, IdentityTypeOK, CodeRow
  <2> QED BY <1>2, <1>3, <1>4, <2>1 DEF IdentityInv, IdentityTypeOK
<1>6. KeysHaveOwners' /\ KeysWithinCeiling'
  <2>1. \A v \in Users : Present(v) => Present(v)' /\ users'[v].role = users[v].role /\ users'[v].grants = users[v].grants
    BY <1>2, <1>3 DEF Present
  <2> QED BY <1>2, <2>1, KeysKept
<1> QED BY <1>4, <1>5, <1>6 DEF IdentityInv

\* TransferOwner revises two users at once: the old owner keeps no grant and no
\* key keeps one, the new owner has no ceiling.
LEMMA TransferOwnerInv ==
  ASSUME IdentityInv, NEW a \in Users, NEW u \in Users, TransferOwner(a, u)
  PROVE  IdentityInv'
<1>1. users[a] \in UserRow /\ users[u] \in UserRow /\ codes[a] \in CodeRow /\ codes[u] \in CodeRow
  BY DEF IdentityInv, IdentityTypeOK
<1> DEFINE row == [users[u] EXCEPT !.role = "owner", !.auth = @ + 1]
<1>2. Demoted(a) \in UserRow /\ row \in UserRow
  <2>1. [users[a] EXCEPT !.role = "admin"] \in UserRow
    BY <1>1 DEF UserRow, Roles
  <2>2. [users[a] EXCEPT !.role = "admin", !.grants = {}] \in UserRow
    BY <2>1 DEF UserRow
  <2>3. [users[u] EXCEPT !.role = "owner"] \in UserRow
    BY <1>1 DEF UserRow, Roles
  <2> QED BY <2>2, <2>3, RevisedRow DEF Demoted
<1>3. /\ a # u /\ users[a].role = "owner" /\ users[a].status = "active" /\ users[u].status = "active"
      /\ users' = [users EXCEPT ![a] = Demoted(a), ![u] = row]
      /\ sessions' = sessions \ (SessionsOf(a) \cup SessionsOf(u)) /\ UNCHANGED <<work, throttle>>
  BY DEF TransferOwner, Active, IdentityInv, IdentityTypeOK
<1>4. /\ users' \in [Users -> UserRow]
      /\ \A v \in Users \ {a, u} : users'[v] = users[v]
      /\ users'[a].role = "admin" /\ users'[a].status = "active" /\ users'[a].auth = users[a].auth + 1
      /\ users'[u].role = "owner" /\ users'[u].status = "active" /\ users'[u].auth = users[u].auth + 1
  BY <1>1, <1>2, <1>3 DEF Demoted, IdentityInv, IdentityTypeOK, UserRow
<1>5. \A v \in Users : Present(v)' <=> Present(v)
  BY <1>3, <1>4 DEF Present
<1>6. \A k \in Keys : /\ keys'[k] \in KeyRow
                      /\ keys'[k].owner = keys[k].owner /\ keys'[k].state = keys[k].state
                      /\ keys'[k].grants \subseteq keys[k].grants
                      /\ keys[k].owner = a => keys'[k].grants = {}
  BY DEF TransferOwner, Clamped, IdentityInv, IdentityTypeOK, KeyRow
<1>7. IdentityTypeOK'
  <2>1. keys' \in [Keys -> KeyRow]
    BY <1>6 DEF TransferOwner, Clamped
  <2>2. codes' \in [Users -> CodeRow]
    BY <1>1 DEF TransferOwner, Withdrawn, IdentityInv, IdentityTypeOK, CodeRow
  <2> QED BY <1>3, <1>4, <2>1, <2>2 DEF IdentityInv, IdentityTypeOK
<1>8. JobsHaveUsers'
  BY <1>3, <1>5 DEF IdentityInv, JobsHaveUsers, Working
<1>9. Ownership'
  BY <1>3, <1>4 DEF IdentityInv, Ownership, Active
<1>10. Revisions'
  <2>1. ASSUME NEW s \in sessions' PROVE Present(s.user)' /\ Remembers(s)'
    <3>1. s \in sessions /\ s.user \in Users \ {a, u}
      BY <1>3, <2>1 DEF SessionsOf, IdentityInv, IdentityTypeOK, Session
    <3> QED BY <1>4, <1>5, <3>1 DEF IdentityInv, Revisions, Remembers
  <2>2. ASSUME NEW h \in Handlers, work[h].kind = "login", work[h].password \notin {0, None}
        PROVE  Remembers(work[h])'
    <3>1. work[h].user \in Users /\ Remembers(work[h]) /\ work[h].auth \in Nat
      BY <2>2 DEF IdentityInv, JobsHaveUsers, Working, Revisions, IdentityTypeOK, Job
    <3>2. users[a].auth \in Nat /\ users[u].auth \in Nat
      BY <1>1 DEF UserRow
    <3> QED BY <1>3, <1>4, <3>1, <3>2 DEF Remembers
  <2> QED BY <1>3, <2>1, <2>2 DEF Revisions
<1>11. KeysHaveOwners'
  BY <1>5, <1>6 DEF IdentityInv, KeysHaveOwners
<1>12. KeysWithinCeiling'
  BY <1>4, <1>6 DEF IdentityInv, KeysHaveOwners, KeysWithinCeiling, Covers
<1> QED BY <1>7, <1>8, <1>9, <1>10, <1>11, <1>12 DEF IdentityInv

-----------------------------------------------------------------------------
(* The operations on passwords, codes and sessions. *)

\* The first steps of the handlers.
LEMMA ReadInv ==
  ASSUME IdentityInv, NEW h \in Handlers,
         \/ \E u \in Users : ClaimRead(h, u) \/ LoginRead(h, u) \/ ActivateRead(h, u)
         \/ \E session \in sessions, kind \in {"password", "profile"} : ChangeRead(h, session, kind)
         \/ LoginVerify(h)
  PROVE  IdentityInv'
<1>1. ASSUME NEW u \in Users, ClaimRead(h, u) PROVE IdentityInv'
  <2>1. [kind |-> "claim", user |-> u, auth |-> 0, password |-> 0] \in Job
    BY DEF Job, Kinds
  <2> QED BY <1>1, <2>1, JobTaken DEF ClaimRead, Start, Present
<1>2. ASSUME NEW u \in Users, LoginRead(h, u) PROVE IdentityInv'
  <2>1. [kind |-> "attempt", user |-> u, auth |-> 0, password |-> 0] \in Job
    BY DEF Job, Kinds
  <2> QED BY <1>2, <2>1, JobTaken DEF LoginRead, Present
<1>3. ASSUME NEW u \in Users, ActivateRead(h, u) PROVE IdentityInv'
  <2>1. [kind |-> "activate", user |-> u, auth |-> codes[u].serial, password |-> 0] \in Job
    BY DEF Job, Kinds, IdentityInv, IdentityTypeOK, CodeRow
  <2>2. Present(u)
    BY <1>3 DEF ActivateRead, Eligible, Present, Active
  <2> QED BY <1>3, <2>1, <2>2, JobTaken DEF ActivateRead, Start
<1>4. ASSUME NEW session \in sessions, NEW kind \in {"password", "profile"}, ChangeRead(h, session, kind)
      PROVE  IdentityInv'
  <2>1. session \in Session /\ Present(session.user)
    BY DEF IdentityInv, IdentityTypeOK, Revisions
  <2>2. [kind |-> kind, user |-> session.user, auth |-> session.auth, password |-> 0] \in Job
    BY <2>1 DEF Job, Kinds, Session
  <2> QED BY <1>4, <2>1, <2>2, JobTaken DEF ChangeRead, Start, Session
<1>5. ASSUME LoginVerify(h) PROVE IdentityInv'
  <2> DEFINE u == work[h].user
             job == [kind |-> "login", user |-> u, auth |-> users[u].auth,
                     password |-> IF Active(u) THEN users[u].password ELSE None]
  <2>1. u \in Users /\ Present(u) /\ users[u] \in UserRow
    BY <1>5 DEF LoginVerify, IdentityInv, IdentityTypeOK, JobsHaveUsers, Working
  <2>2. job \in Job
    BY <2>1 DEF Job, Kinds, UserRow
  <2>3. job.password \notin {0, None} => Remembers(job)
    BY <2>1 DEF Remembers, UserRow
  <2>4. work' = [work EXCEPT ![h] = job] /\ UNCHANGED <<users, codes, sessions, throttle, keys>>
    BY <1>5 DEF LoginVerify, Start
  <2> QED BY <2>1, <2>2, <2>3, <2>4, JobTaken
<1> QED BY <1>1, <1>2, <1>3, <1>4, <1>5

\* Login opens a session only if the revision is still the one whose password
\* was checked.
LEMMA LoginMatchesInv ==
  ASSUME IdentityInv, NEW h \in Handlers, LoginMatches(h)
  PROVE  IdentityInv'
<1> DEFINE u == work[h].user
           new == NewSession(u, users[u].auth, work[h].password)
<1>1. /\ u \in Users /\ Present(u) /\ users[u] \in UserRow /\ work[h] \in Job
      /\ work[h].kind = "login" /\ work[h].password \notin {0, None} /\ Remembers(work[h])
  BY DEF LoginMatches, IdentityInv, IdentityTypeOK, JobsHaveUsers, Working, Revisions
<1>2. UNCHANGED <<users, codes, keys>> /\ Done(h) /\ throttle' = [throttle EXCEPT ![u] = Quiet]
  BY DEF LoginMatches
<1>3. \A s \in sessions' : s \in sessions \/ (MayOpen(work[h]) /\ s = new)
  <2>1. CASE MayOpen(work[h])
    BY <2>1 DEF LoginMatches
  <2>2. CASE ~MayOpen(work[h])
    BY <2>2 DEF LoginMatches
  <2> QED BY <2>1, <2>2
<1>4. new \in Session
  BY <1>1 DEF NewSession, Session, UserRow, Job
<1>5. IdentityTypeOK'
  <2>1. sessions' \subseteq Session
    BY <1>3, <1>4 DEF IdentityInv, IdentityTypeOK
  <2>2. throttle' \in [Users -> [failures : Nat, blocked : BOOLEAN]]
    BY <1>1, <1>2 DEF Quiet, IdentityInv, IdentityTypeOK
  <2> QED BY <1>2, <2>1, <2>2, DoneFact DEF IdentityInv, IdentityTypeOK
<1>6. JobsHaveUsers' /\ Ownership'
  <2>1. \A v \in Users : Present(v)' <=> Present(v)
    BY <1>2 DEF Present
  <2>2. JobsHaveUsers'
    BY <1>2, <2>1, DoneFact, NoneFact DEF IdentityInv, JobsHaveUsers, Working, Over, Waiting
  <2>3. Ownership'
    BY <1>2 DEF IdentityInv, Ownership, Present, Active
  <2> QED BY <2>2, <2>3
<1>7. Revisions'
  <2>1. MayOpen(work[h]) => Present(new.user) /\ Remembers(new)
    BY <1>1 DEF MayOpen, NewSession, Remembers, UserRow
  <2>2. \A s \in sessions' : Present(s.user)' /\ Remembers(s)'
    BY <1>2, <1>3, <2>1 DEF IdentityInv, Revisions, Remembers, Present
  <2>3. \A g \in Handlers : work'[g].kind = "login" /\ work'[g].password \notin {0, None} => Remembers(work[g])'
    BY <1>2, DoneFact DEF IdentityInv, Revisions, Remembers, Over, Waiting
  <2> QED BY <2>2, <2>3 DEF Revisions
<1>8. KeysHaveOwners' /\ KeysWithinCeiling'
  BY <1>2, KeysKept DEF Present
<1> QED BY <1>5, <1>6, <1>7, <1>8 DEF IdentityInv

\* Activate and ChangePassword set the new password with a new revision, and a
\* session for both.
LEMMA CommitInv ==
  ASSUME IdentityInv, NEW h \in Handlers, ActivateCommit(h) \/ ChangeCommit(h)
  PROVE  IdentityInv'
<1> DEFINE u == work[h].user
<1>1. u \in Users /\ Present(u) /\ users[u] \in UserRow /\ codes[u] \in CodeRow
  BY DEF ActivateCommit, ChangeCommit, IdentityInv, IdentityTypeOK, JobsHaveUsers, Working
<1>2. PICK password \in Nat :
        /\ users' = [users EXCEPT ![u].status = "active", ![u].auth = users[u].auth + 1, ![u].password = password]
        /\ sessions' = (sessions \ SessionsOf(u)) \cup {NewSession(u, users[u].auth + 1, password)}
  <2>1. users[u].auth + 1 \in Nat /\ users[u].password \in Nat
    BY <1>1 DEF UserRow
  <2>2. CASE ActivateCommit(h)
    BY <2>1, <2>2 DEF ActivateCommit
  <2>3. CASE ChangeCommit(h)
    <3>1. users[u].status = "active"
      BY <2>3 DEF ChangeCommit, Active
    <3> DEFINE auth == users[u].auth + 1
               new == IF work[h].kind = "password" THEN auth ELSE users[u].password
    <3>2. users' = [users EXCEPT ![u].auth = auth, ![u].password = new]
      BY <2>3 DEF ChangeCommit
    <3>3. [users EXCEPT ![u].auth = auth, ![u].password = new]
            = [users EXCEPT ![u].status = "active", ![u].auth = auth, ![u].password = new]
      BY <1>1, <3>1 DEF IdentityInv, IdentityTypeOK, UserRow
    <3> QED BY <2>1, <2>3, <3>2, <3>3 DEF ChangeCommit
  <2> QED BY <2>2, <2>3
<1> DEFINE row == [users[u] EXCEPT !.status = "active", !.auth = users[u].auth + 1, !.password = password]
<1>3. row \in UserRow
  <2>1. [users[u] EXCEPT !.status = "active"] \in UserRow
    BY <1>1 DEF UserRow
  <2>2. \A n \in Nat, r \in UserRow : [r EXCEPT !.auth = n] \in UserRow
    BY DEF UserRow
  <2>3. users[u].auth + 1 \in Nat
    BY <1>1 DEF UserRow
  <2>4. [users[u] EXCEPT !.status = "active", !.auth = users[u].auth + 1] \in UserRow
    BY <2>1, <2>2, <2>3
  <2> QED BY <2>4 DEF UserRow
<1>4. users' = [users EXCEPT ![u] = row]
  BY <1>1, <1>2 DEF IdentityInv, IdentityTypeOK
<1>5. /\ users' \in [Users -> UserRow]
      /\ \A v \in Users \ {u} : users'[v] = users[v]
      /\ users'[u].role = users[u].role /\ users'[u].status = "active" /\ users'[u].password = password
      /\ users'[u].grants = users[u].grants /\ users'[u].auth = users[u].auth + 1
  BY <1>1, <1>3, <1>4 DEF IdentityInv, IdentityTypeOK, UserRow
<1>6. Done(h) /\ UNCHANGED <<throttle, keys>>
  BY DEF ActivateCommit, ChangeCommit
<1>7. sessions' \subseteq Session /\ JobsHaveUsers' /\ Ownership' /\ Revisions'
  BY <1>1, <1>2, <1>5, <1>6, DoneFact, UserRevised
<1>8. IdentityTypeOK'
  <2>1. codes' \in [Users -> CodeRow]
    <3>1. Withdrawn(u) \in CodeRow
      BY <1>1 DEF Withdrawn, CodeRow
    <3>2. codes' = codes \/ codes' = [codes EXCEPT ![u] = Withdrawn(u)]
      BY DEF ActivateCommit, ChangeCommit
    <3> QED BY <1>1, <3>1, <3>2 DEF IdentityInv, IdentityTypeOK
  <2> QED BY <1>5, <1>6, <1>7, <2>1, DoneFact DEF IdentityInv, IdentityTypeOK
<1>9. KeysHaveOwners' /\ KeysWithinCeiling'
  <2>1. \A v \in Users : Present(v) => Present(v)' /\ users'[v].role = users[v].role /\ users'[v].grants = users[v].grants
    BY <1>5 DEF Present
  <2> QED BY <1>6, <2>1, KeysKept
<1> QED BY <1>7, <1>8, <1>9 DEF IdentityInv

\* What only ends a handler or a session, or counts failures.
LEMMA EndsInv ==
  ASSUME IdentityInv,
         \/ \E h \in Handlers : LoginFails(h) \/ Abandon(h)
         \/ \E u \in Users : WindowLapses(u) \/ BlockLapses(u)
         \/ \E session \in sessions : EndSession(session)
  PROVE  IdentityInv'
<1>1. /\ UNCHANGED <<users, codes, keys>> /\ sessions' \subseteq sessions
      /\ work' \in [Handlers -> Job] /\ \A h \in Handlers : work'[h] = work[h] \/ work'[h] = Over
  <2>1. CASE \E h \in Handlers : LoginFails(h) \/ Abandon(h)
    BY <2>1, DoneFact DEF LoginFails, Abandon
  <2>2. CASE \E u \in Users : WindowLapses(u) \/ BlockLapses(u)
    BY <2>2 DEF WindowLapses, BlockLapses, IdentityInv, IdentityTypeOK
  <2>3. CASE \E session \in sessions : EndSession(session)
    BY <2>3 DEF EndSession, IdentityInv, IdentityTypeOK
  <2> QED BY <2>1, <2>2, <2>3
<1>2. throttle' \in [Users -> [failures : Nat, blocked : BOOLEAN]]
  <2>1. CASE \E h \in Handlers : LoginFails(h) \/ Abandon(h)
    <3>1. PICK h \in Handlers : LoginFails(h) \/ Abandon(h)
      BY <2>1
    <3>2. CASE LoginFails(h)
      <4>1. work[h].user \in Users
        BY <3>2 DEF LoginFails, IdentityInv, JobsHaveUsers, Working
      <4>2. \A row \in [failures : Nat, blocked : BOOLEAN] : Recorded(row) \in [failures : Nat, blocked : BOOLEAN]
        BY DEF Recorded
      <4> QED BY <3>2, <4>1, <4>2 DEF LoginFails, IdentityInv, IdentityTypeOK
    <3>3. CASE Abandon(h)
      BY <3>3 DEF Abandon, IdentityInv, IdentityTypeOK
    <3> QED BY <3>1, <3>2, <3>3
  <2>2. CASE \E u \in Users : WindowLapses(u) \/ BlockLapses(u)
    <3>1. PICK u \in Users : \/ throttle' = [throttle EXCEPT ![u].failures = 0]
                             \/ throttle' = [throttle EXCEPT ![u].blocked = FALSE]
      BY <2>2 DEF WindowLapses, BlockLapses
    <3>2. CASE throttle' = [throttle EXCEPT ![u].failures = 0]
      BY <3>2 DEF IdentityInv, IdentityTypeOK
    <3>3. CASE throttle' = [throttle EXCEPT ![u].blocked = FALSE]
      BY <3>3 DEF IdentityInv, IdentityTypeOK
    <3> QED BY <3>1, <3>2, <3>3
  <2>3. CASE \E session \in sessions : EndSession(session)
    BY <2>3 DEF EndSession, IdentityInv, IdentityTypeOK
  <2> QED BY <2>1, <2>2, <2>3
<1>3. IdentityTypeOK'
  BY <1>1, <1>2 DEF IdentityInv, IdentityTypeOK
<1>4. JobsHaveUsers' /\ Ownership' /\ Revisions'
  BY <1>1, UsersKept
<1>5. KeysHaveOwners' /\ KeysWithinCeiling'
  BY <1>1, KeysKept DEF Present
<1> QED BY <1>3, <1>4, <1>5 DEF IdentityInv

-----------------------------------------------------------------------------
(* The operations on keys. *)

\* A key operation changes one key, which belongs to a user that exists and
\* holds at most what that user holds.
LEMMA ManageKeysInv ==
  ASSUME IdentityInv, ManageKeys
  PROVE  IdentityInv'
<1>1. PICK u \in Users, k \in Keys :
        \/ RevokeKey(u, k) \/ RotateKey(u, k)
        \/ \E grants \in SUBSET Scopes :
             CreateKey(u, k, grants) \/ \E state \in {"active", "disabled"} : UpdateKey(u, k, grants, state)
  BY DEF ManageKeys
<1>2. UNCHANGED <<users, codes, sessions, work, throttle>> /\ keys[k] \in KeyRow
  BY <1>1 DEF RevokeKey, RotateKey, CreateKey, UpdateKey, IdentityInv, IdentityTypeOK
<1> DEFINE Becomes(row) == /\ keys' = [keys EXCEPT ![k] = row] /\ row.owner = u /\ row.state # "absent"
                           /\ Present(u) /\ Covers(u, row.grants)
<1>3. \E row \in KeyRow : Becomes(row)
  <2>1. CASE RevokeKey(u, k)
    <3> DEFINE row == [keys[k] EXCEPT !.state = "revoked", !.secrets = 0]
    <3>1. [keys[k] EXCEPT !.state = "revoked"] \in KeyRow
      BY <1>2 DEF KeyRow
    <3>2. row \in KeyRow /\ row.owner = u /\ row.state = "revoked" /\ row.grants = keys[k].grants
      BY <1>2, <2>1, <3>1 DEF KeyRow, RevokeKey
    <3>3. keys' = [keys EXCEPT ![k] = row]
      BY <2>1 DEF RevokeKey, IdentityInv, IdentityTypeOK
    <3>4. Present(u) /\ Covers(u, keys[k].grants)
      BY <2>1 DEF RevokeKey, IdentityInv, KeysHaveOwners, KeysWithinCeiling
    <3> QED BY <3>2, <3>3, <3>4
  <2>2. CASE RotateKey(u, k)
    <3> DEFINE row == [keys[k] EXCEPT !.secrets = 1]
    <3>1. row \in KeyRow /\ row.owner = u /\ row.state = "active" /\ row.grants = keys[k].grants
      BY <1>2, <2>2 DEF KeyRow, RotateKey
    <3>2. keys' = [keys EXCEPT ![k] = row]
      BY <2>2 DEF RotateKey, IdentityInv, IdentityTypeOK
    <3>3. Present(u) /\ Covers(u, keys[k].grants)
      BY <2>2 DEF RotateKey, IdentityInv, KeysHaveOwners, KeysWithinCeiling
    <3> QED BY <3>1, <3>2, <3>3
  <2>3. ASSUME NEW grants \in SUBSET Scopes, CreateKey(u, k, grants) PROVE \E row \in KeyRow : Becomes(row)
    <3> DEFINE row == [owner |-> u, state |-> "active", grants |-> grants, secrets |-> 1]
    <3>1. row \in KeyRow
      BY DEF KeyRow
    <3>2. Becomes(row)
      BY <2>3 DEF CreateKey, Present, Active
    <3> QED BY <3>1, <3>2
  <2>4. ASSUME NEW grants \in SUBSET Scopes, NEW state \in {"active", "disabled"}, UpdateKey(u, k, grants, state)
        PROVE  \E row \in KeyRow : Becomes(row)
    <3> DEFINE row == [keys[k] EXCEPT !.grants = grants, !.state = state]
    <3>1. [keys[k] EXCEPT !.grants = grants] \in KeyRow
      BY <1>2 DEF KeyRow
    <3>2. row \in KeyRow /\ row.owner = u /\ row.state = state /\ row.grants = grants
      BY <1>2, <2>4, <3>1 DEF KeyRow, UpdateKey
    <3>3. keys' = [keys EXCEPT ![k] = row] /\ Present(u) /\ Covers(u, grants)
      BY <2>4 DEF UpdateKey, IdentityInv, IdentityTypeOK, Present, Active
    <3> QED BY <3>2, <3>3
  <2> QED BY <1>1, <2>1, <2>2, <2>3, <2>4
<1>4. PICK row \in KeyRow : Becomes(row)
  BY <1>3
<1>5. keys' \in [Keys -> KeyRow] /\ \A j \in Keys : keys'[j] = IF j = k THEN row ELSE keys[j]
  BY <1>4 DEF IdentityInv, IdentityTypeOK
<1>6. IdentityTypeOK'
  BY <1>2, <1>5 DEF IdentityInv, IdentityTypeOK
<1>7. JobsHaveUsers' /\ Ownership' /\ Revisions'
  BY <1>2, UsersKept
<1>8. KeysHaveOwners'
  BY <1>2, <1>4, <1>5 DEF IdentityInv, KeysHaveOwners, Present
<1>9. KeysWithinCeiling'
  BY <1>2, <1>4, <1>5 DEF IdentityInv, KeysWithinCeiling, Covers
<1> QED BY <1>6, <1>7, <1>8, <1>9 DEF IdentityInv

-----------------------------------------------------------------------------
\* Every step keeps the invariant.
LEMMA NextIdentity == IdentityInv /\ [Next]_vars => IdentityInv'
<1> SUFFICES ASSUME IdentityInv, [Next]_vars PROVE IdentityInv'
  OBVIOUS
<1>1. CASE Manage
  BY <1>1, IssueActivationInv, RecoveringInv, TransferOwnerInv, UpdateGrantsInv, CreateInv, UpdateInv
     DEF Manage, IssueRecovery
<1>2. CASE Authenticate
  <2>1. ASSUME NEW u \in Users, PrepareOwnerRecovery(u) PROVE IdentityInv'
    BY <2>1, RecoveringInv DEF PrepareOwnerRecovery
  <2>2. ASSUME NEW h \in Handlers, ActivateCommit(h) \/ ChangeCommit(h) PROVE IdentityInv'
    BY <2>2, CommitInv
  <2> QED BY <1>2, <2>1, <2>2, EndsInv, ReadInv, ClaimCommitInv, LoginMatchesInv DEF Authenticate
<1>3. CASE ManageKeys
  BY <1>3, ManageKeysInv
<1>4. CASE UNCHANGED vars
  <2>1. IdentityTypeOK'
    BY <1>4 DEF vars, IdentityInv, IdentityTypeOK
  <2>2. JobsHaveUsers' /\ Ownership' /\ Revisions'
    BY <1>4, UsersKept DEF vars
  <2>3. KeysHaveOwners' /\ KeysWithinCeiling'
    BY <1>4, KeysKept DEF vars, Present
  <2> QED BY <2>1, <2>2, <2>3 DEF IdentityInv
<1> QED BY <1>1, <1>2, <1>3, <1>4 DEF Next

\* What the invariant says of the properties the runs check.
LEMMA IdentityInvImplies == IdentityInv => OneOwner /\ SessionsAreCurrent /\ KeysWithinCeiling
<1> SUFFICES ASSUME IdentityInv PROVE OneOwner /\ SessionsAreCurrent
  BY DEF IdentityInv
<1>1. OneOwner
  <2>1. ASSUME NEW u \in Users, Present(u) PROVE \E o \in Users : ActiveOwners = {o}
    <3>1. PICK o \in Users : users[o].role = "owner"
      BY <2>1 DEF IdentityInv, Ownership
    <3>2. ActiveOwners = {o}
      BY <3>1 DEF IdentityInv, Ownership, ActiveOwners
    <3> QED BY <3>2
  <2> QED BY <2>1 DEF OneOwner, Present
<1>2. SessionsAreCurrent
  BY DEF IdentityInv, Revisions, Remembers, SessionsAreCurrent, Valid
<1> QED BY <1>1, <1>2

\* Claim, TransferOwner, Update, Activate: however claims race and whoever
\* suspends, promotes or recovers whom, there is exactly one active owner from
\* the first user on, for any number of users and of concurrent handlers.
THEOREM OneOwnerAlways == Spec => []OneOwner
<1>1. Spec => []IdentityInv
  BY InitIdentity, NextIdentity, PTL DEF Spec
<1> QED BY <1>1, IdentityInvImplies, PTL

\* Login, ChangePassword, Activate: an accepted session was opened with the
\* password its user has now, although the hash was compared outside the
\* transaction that wrote the session.
THEOREM SessionsStayCurrent == Spec => []SessionsAreCurrent
<1>1. Spec => []IdentityInv
  BY InitIdentity, NextIdentity, PTL DEF Spec
<1> QED BY <1>1, IdentityInvImplies, PTL

\* clampKeys, allowedForUser: no stored key ever holds more than its user,
\* through every change of grants and every transfer of the ownership.
THEOREM KeysStayWithinCeiling == Spec => []KeysWithinCeiling
<1>1. Spec => []IdentityInv
  BY InitIdentity, NextIdentity, PTL DEF Spec
<1> QED BY <1>1, IdentityInvImplies, PTL
=============================================================================
