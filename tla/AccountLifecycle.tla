--------------------------- MODULE AccountLifecycle ---------------------------
(***************************************************************************)
(* What the auth half promises about accounts and role requests, with no   *)
(* sessions, rows or tokens: every operation is one step that checks the   *)
(* state it changes and announces what it did.  Who may act is not said    *)
(* here (Accounts!AuthorityHasOrigin says it).  Accounts implements this   *)
(* as long as its requests do not overlap.                                 *)
(***************************************************************************)
EXTENDS Naturals, Sequences, AuthDomain

CONSTANTS Ids, Emails, RequestIds, None, InitialUsers

VARIABLES users, requests, outbox

vars == <<users, requests, outbox>>

Init ==
    /\ users = InitialUsers
    /\ requests = [q \in RequestIds |-> None]
    /\ outbox = <<>>

Tell(e) == outbox' = Append(outbox, e)

Register(u, email) ==
    /\ users[u] = None
    /\ \A v \in Ids : users[v] # None => users[v].email # email
    /\ users' = [users EXCEPT ![u] = Registered(u, email)]
    /\ Tell(Event("UserRegistered", u, u, "BASIC_USER"))
    /\ UNCHANGED requests

Move(u, a, verb) ==
    /\ users[u] # None
    /\ users[u].state = Transition[verb].from
    /\ users' = [users EXCEPT ![u].state = Transition[verb].to]
    /\ Tell(Event(Transition[verb].event, u, a, None))
    /\ UNCHANGED requests

ChangeRole(u, a, role) ==
    /\ users[u] # None
    /\ users' = [users EXCEPT ![u].role = role]
    /\ Tell(Event("RoleGranted", u, a, role))
    /\ UNCHANGED requests

Ask(q, u, role) ==
    /\ requests[q] = None
    /\ users[u] # None
    /\ CanRequest(users[u].role, role)
    /\ requests' = [requests EXCEPT ![q] =
                      [id |-> q, user |-> u, role |-> role,
                       status |-> "PENDING", by |-> None]]
    /\ Tell(Event("RoleRequested", u, u, role))
    /\ UNCHANGED users

Decide(q, a, status) ==
    /\ requests[q] # None
    /\ requests[q].status = "PENDING"
    /\ status = "APPROVED" => users[requests[q].user].role = requests[q].role
    /\ requests' = [requests EXCEPT ![q].status = status, ![q].by = a]
    /\ UNCHANGED <<users, outbox>>

Next ==
    \/ \E u \in Ids, email \in Emails : Register(u, email)
    \/ \E u, a \in Ids, verb \in DOMAIN Transition : Move(u, a, verb)
    \/ \E u, a \in Ids, role \in Roles : ChangeRole(u, a, role)
    \/ \E q \in RequestIds, u \in Ids, role \in Roles : Ask(q, u, role)
    \/ \E q \in RequestIds, a \in Ids, status \in {"APPROVED", "REJECTED"} :
          Decide(q, a, status)

Spec == Init /\ [][Next]_vars
=============================================================================
