------------------------------ MODULE MCForward ------------------------------
(* Instance of Forward for TLC. *)
EXTENDS Forward

CONSTANTS r1, a1, a2, k1, c1, c2, u1

McForms == [r \in Requests |-> FormsAsked \cup Sessions \cup FileSearches]
\* A route with a fallback to another connection.
McTargets == [r \in Requests |-> <<c1, c2>>]
McAttemptOf == [r \in Requests |-> <<a1, a2>>]
McOwner == [k \in Keys |-> u1]
NoPolicy == [p \in Policies |-> 0]
AllGranted == {Keys \X Connections}
=============================================================================
