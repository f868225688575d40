------------------------------- MODULE Accounts -------------------------------
(***************************************************************************)
(* Registration, roles, role requests and bans, as the requests that       *)
(* change them really run: each is a coroutine with one database session,  *)
(* and everything between two of its awaits is one action here.            *)
(*                                                                         *)
(* An update is three steps in READ COMMITTED:                             *)
(*   read    get_by_id builds a domain object from the row, and the use    *)
(*           case runs its guards and changes the object;                  *)
(*   load    save() reads the row again: the session's identity map holds  *)
(*           rows weakly and the first one is already gone;                *)
(*   commit  the flush writes the COLUMNS in which the object differs from *)
(*           the row just loaded, in one transaction with the outbox rows. *)
(* Nothing locks the row before the flush and no version is compared, so   *)
(* other requests may commit between any two steps.  Any step may also be  *)
(* the last: a lost connection, a cancelled request or a crash rolls back. *)
(*                                                                         *)
(* Left out: password, display name, timestamps and decision notes, which  *)
(* no guard reads; requests that fail their guards, which change nothing.  *)
(***************************************************************************)
EXTENDS Naturals, Sequences, AuthDomain

CONSTANTS
    Ids,        \* user ids (uuid4 values)
    Admin,      \* the id of the seeded super-admin
    Leftover,   \* ids of accounts an earlier version left in PENDING
    Spellings,  \* email addresses as people type them
    Normal,     \* Spellings -> Emails: .lower().strip()
    Emails,     \* normalised addresses
    HomeEmail,  \* the address of each account that exists at the start
    RequestIds, \* ids of role requests
    Workers,    \* requests being served at once, over all replicas
    MaxEvents,  \* bound: no request starts once this many events exist,
    MaxDecided, \* but for a decision on a role request, which has this bound
    None        \* Python's None

ASSUME ConstantsOK ==
    /\ Admin \in Ids
    /\ Leftover \subseteq Ids \ {Admin}
    /\ Normal \in [Spellings -> Emails]
    /\ HomeEmail \in [Leftover \cup {Admin} -> Emails]
    /\ \A u, v \in Leftover \cup {Admin} : HomeEmail[u] = HomeEmail[v] => u = v
    /\ MaxEvents \in Nat /\ MaxDecided \in Nat

UserRow == [id: Ids, email: Emails, role: Roles, state: States]
RequestRow == [id: RequestIds, user: Ids, role: Roles,
               status: RequestStatuses, by: Ids \cup {None}]
Events == [type: EventTypes, user: Ids, by: Ids, role: Roles \cup {None}]

ASSUME NoneIsNew ==
    None \notin Ids \cup Emails \cup UserRow \cup RequestRow \cup Events

VARIABLES
    users,    \* table users: id -> row, None where there is none
    requests, \* table role_requests, likewise
    outbox,   \* table outbox: the events, in the order they were committed
    held,     \* history: the roles an id has had while it could sign in, so
              \* the roles an access token in its hands may carry
    pc,       \* where each worker's coroutine stands
    user,     \* its User object (None: it has not built one)
    event,    \* the event the object has raised
    row,      \* the users row save() has loaded
    ask,      \* its RoleRequest object
    askRow    \* the role_requests row save_role_request() has loaded

db == <<users, requests, outbox, held>>
session == <<user, event, row, ask, askRow>>
vars == <<users, requests, outbox, held, pc, user, event, row, ask, askRow>>

-----------------------------------------------------------------------------

Exists(u) == users[u] # None

(* The roles an access token now in a's hands may carry. A role changes in *)
(* the table at once and in the token only when the next one is issued.    *)
MayCallAs(a, roles) == held[a] \cap roles # {}

(* `held` after the table has become table. *)
HeldAfter(table) ==
    [u \in Ids |-> IF table[u] # None /\ CanLogin(table[u])
                   THEN held[u] \cup {table[u].role} ELSE held[u]]

InitialRow(u) ==
    IF u = Admin THEN SuperAdmin(u, HomeEmail[u])
    ELSE [Registered(u, HomeEmail[u]) EXCEPT !.state = "PENDING"]

InitialUsers ==
    [u \in Ids |-> IF u \in Leftover \cup {Admin} THEN InitialRow(u) ELSE None]

Init ==
    /\ users = InitialUsers
    /\ requests = [q \in RequestIds |-> None]
    /\ outbox = <<>>
    /\ held = [u \in Ids |-> IF u = Admin THEN {"ADMIN"} ELSE {}]
    /\ pc = [w \in Workers |-> "idle"]
    /\ user = [w \in Workers |-> None]
    /\ event = [w \in Workers |-> None]
    /\ row = [w \in Workers |-> None]
    /\ ask = [w \in Workers |-> None]
    /\ askRow = [w \in Workers |-> None]

-----------------------------------------------------------------------------
(* Steps shared by the use cases. *)

Starts(w) == pc[w] = "idle" /\ Len(outbox) < MaxEvents

GoTo(w, label) == pc' = [pc EXCEPT ![w] = label]

(* The worker holds object u, which has raised event e. *)
Holds(w, u, e) ==
    /\ user' = [user EXCEPT ![w] = u]
    /\ event' = [event EXCEPT ![w] = e]

(* The end of a request, normal or not: its session is closed. *)
Finish(w) ==
    /\ GoTo(w, "idle")
    /\ Holds(w, None, None)
    /\ row' = [row EXCEPT ![w] = None]
    /\ ask' = [ask EXCEPT ![w] = None]
    /\ askRow' = [askRow EXCEPT ![w] = None]

(* What the unit of work writes: the columns of object that differ from    *)
(* the row loaded, over whatever the row holds by now.                     *)
MergeUser(object, loaded, current) ==
    [current EXCEPT
        !.role = IF object.role # loaded.role THEN object.role ELSE @,
        !.state = IF object.state # loaded.state THEN object.state ELSE @]

MergeRequest(object, loaded, current) ==
    [current EXCEPT
        !.status = IF object.status # loaded.status THEN object.status ELSE @,
        !.by = IF object.by # loaded.by THEN object.by ELSE @]

-----------------------------------------------------------------------------
(* Registration *)

(* get_by_email finds nobody; the password is hashed in a thread. *)
RegisterUser(w) ==
    \E s \in Spellings, u \in Ids :
        /\ Starts(w)
        /\ \A v \in Ids : Exists(v) => users[v].email # Normal[s]
        /\ ~Exists(u)
        /\ \A x \in Workers : user[x] # None => user[x].id # u
        /\ LET new == Registered(u, Normal[s])
           IN  Holds(w, new, Event("UserRegistered", u, u, new.role))
        /\ GoTo(w, "insertUser")
        /\ UNCHANGED <<db, row, ask, askRow>>

(* save() of a new user: the unique index on email refuses the second of   *)
(* two, and the transaction fails with its outbox row.                     *)
EmailFree(email) == \A v \in Ids : Exists(v) => users[v].email # email

(* Faulty variant: no unique index behind the check of RegisterUser.       *)
InsertUserUnindexed(w) ==
    /\ pc[w] = "insertUser"
    /\ users' = [users EXCEPT ![user[w].id] = user[w]]
    /\ held' = HeldAfter(users')
    /\ outbox' = Append(outbox, event[w])
    /\ Finish(w)
    /\ UNCHANGED requests

InsertUser(w) ==
    /\ pc[w] = "insertUser"
    /\ EmailFree(user[w].email)
    /\ users' = [users EXCEPT ![user[w].id] = user[w]]
    /\ held' = HeldAfter(users')
    /\ outbox' = Append(outbox, event[w])
    /\ Finish(w)
    /\ UNCHANGED requests

InsertUserConflict(w) ==
    /\ pc[w] = "insertUser"
    /\ ~EmailFree(user[w].email)
    /\ Finish(w)
    /\ UNCHANGED db

-----------------------------------------------------------------------------
(* Requests that read one user, change it and save it *)

ChangesUser(w, object, e) ==
    /\ Holds(w, object, e)
    /\ GoTo(w, "loadUser")
    /\ UNCHANGED <<db, row, ask, askRow>>

(* Faulty variant: any signed-in account may grant. *)
GrantRoleUnchecked(w) ==
    \E a, u \in Ids, r \in Roles :
        /\ Starts(w) /\ MayCallAs(a, Roles) /\ Exists(u)
        /\ ChangesUser(w, [users[u] EXCEPT !.role = r],
                       Event("RoleGranted", u, a, r))

(* GrantRoleUseCase: any role, whatever the account's state. *)
GrantRole(w) ==
    \E a, u \in Ids, r \in Roles :
        /\ Starts(w) /\ MayCallAs(a, Granters) /\ Exists(u)
        /\ ChangesUser(w, [users[u] EXCEPT !.role = r],
                       Event("RoleGranted", u, a, r))

(* A moderator's transition of account u, guarded by the state read.       *)
Moderate(w, verb) ==
    \E a, u \in Ids :
        /\ Starts(w) /\ MayCallAs(a, Moderators) /\ Exists(u)
        /\ users[u].state = Transition[verb].from
        /\ ChangesUser(w, [users[u] EXCEPT !.state = Transition[verb].to],
                       Event(Transition[verb].event, u, a, None))

BanUser(w) == Moderate(w, "ban")
UnbanUser(w) == Moderate(w, "unban")
ApproveRegistration(w) == Moderate(w, "approve_registration")
RejectRegistration(w) == Moderate(w, "reject_registration")

(* save() of an existing user: session.get, then flush and commit.         *)
LoadUser(w) ==
    /\ pc[w] = "loadUser"
    /\ row' = [row EXCEPT ![w] = users[user[w].id]]
    /\ GoTo(w, "commitUser")
    /\ UNCHANGED <<db, user, event, ask, askRow>>

(* Faulty variant: the events are left to a transaction that never comes.  *)
CommitUserSilently(w) ==
    LET u == user[w].id IN
    /\ pc[w] = "commitUser"
    /\ users' = [users EXCEPT ![u] = MergeUser(user[w], row[w], @)]
    /\ held' = HeldAfter(users')
    /\ UNCHANGED <<requests, outbox>>
    /\ IF ask[w] = None THEN Finish(w)
       ELSE /\ GoTo(w, "loadAsk")
            /\ Holds(w, None, None)
            /\ row' = [row EXCEPT ![w] = None]
            /\ UNCHANGED <<ask, askRow>>

CommitUser(w) ==
    LET u == user[w].id IN
    /\ pc[w] = "commitUser"
    /\ users' = [users EXCEPT ![u] = MergeUser(user[w], row[w], @)]
    /\ held' = HeldAfter(users')
    /\ outbox' = Append(outbox, event[w])
    /\ UNCHANGED requests
    /\ IF ask[w] = None THEN Finish(w)
       ELSE /\ GoTo(w, "loadAsk")
            /\ Holds(w, None, None)
            /\ row' = [row EXCEPT ![w] = None]
            /\ UNCHANGED <<ask, askRow>>

-----------------------------------------------------------------------------
(* Role requests *)

(* RequestRoleUseCase: the role in the table decides, not the token's.     *)
RequestRole(w) ==
    \E u \in Ids, r \in Roles, q \in RequestIds :
        /\ Starts(w) /\ MayCallAs(u, Roles) /\ Exists(u)
        /\ CanRequest(users[u].role, r)
        /\ requests[q] = None
        /\ \A x \in Workers : ask[x] # None => ask[x].id # q
        /\ ask' = [ask EXCEPT ![w] =
                     [id |-> q, user |-> u, role |-> r,
                      status |-> "PENDING", by |-> None]]
        /\ Holds(w, None, Event("RoleRequested", u, u, r))
        /\ GoTo(w, "insertAsk")
        /\ UNCHANGED <<db, row, askRow>>

InsertRequest(w) ==
    /\ pc[w] = "insertAsk"
    /\ requests' = [requests EXCEPT ![ask[w].id] = ask[w]]
    /\ outbox' = Append(outbox, event[w])
    /\ Finish(w)
    /\ UNCHANGED <<users, held>>

(* DecideRoleRequestUseCase reads the request and decides the object.      *)
DecideRequest(w, status, next) ==
    \E a \in Ids, q \in RequestIds :
        /\ pc[w] = "idle" /\ Len(outbox) < MaxDecided
        /\ MayCallAs(a, Moderators)
        /\ requests[q] # None /\ requests[q].status = "PENDING"
        /\ ask' = [ask EXCEPT ![w] =
                     [requests[q] EXCEPT !.status = status, !.by = a]]
        /\ GoTo(w, next)
        /\ UNCHANGED <<db, user, event, row, askRow>>

(* Faulty variant: the decision is saved, the role left for later. *)
ApproveRequestOnly(w) == DecideRequest(w, "APPROVED", "loadAsk")

ApproveRequest(w) == DecideRequest(w, "APPROVED", "readGrantee")
RejectRequest(w) == DecideRequest(w, "REJECTED", "loadAsk")

(* Faulty variant: the role goes to who decides. *)
ReadDecider(w) ==
    LET u == ask[w].by
        r == ask[w].role
    IN  /\ pc[w] = "readGrantee"
        /\ ChangesUser(w, [users[u] EXCEPT !.role = r],
                       Event("RoleGranted", u, ask[w].by, r))

(* An approval reads the requester after it has decided the request, and   *)
(* saves it (LoadUser, CommitUser) before it saves the request.            *)
ReadGrantee(w) ==
    LET u == ask[w].user
        r == ask[w].role
    IN  /\ pc[w] = "readGrantee"
        /\ ChangesUser(w, [users[u] EXCEPT !.role = r],
                       Event("RoleGranted", u, ask[w].by, r))

LoadRequest(w) ==
    /\ pc[w] = "loadAsk"
    /\ askRow' = [askRow EXCEPT ![w] = requests[ask[w].id]]
    /\ GoTo(w, "commitAsk")
    /\ UNCHANGED <<db, user, event, row, ask>>

CommitRequest(w) ==
    /\ pc[w] = "commitAsk"
    /\ requests' = [requests EXCEPT ![ask[w].id] =
                      MergeRequest(ask[w], askRow[w], @)]
    /\ Finish(w)
    /\ UNCHANGED <<users, outbox, held>>

-----------------------------------------------------------------------------

(* The request dies at one of its awaits: what it committed stays.         *)
Abort(w) ==
    /\ pc[w] # "idle"
    /\ Finish(w)
    /\ UNCHANGED db

Step(w) ==
    \/ RegisterUser(w) \/ InsertUser(w) \/ InsertUserConflict(w)
    \/ GrantRole(w) \/ BanUser(w) \/ UnbanUser(w)
    \/ ApproveRegistration(w) \/ RejectRegistration(w)
    \/ LoadUser(w) \/ CommitUser(w)
    \/ RequestRole(w) \/ InsertRequest(w)
    \/ ApproveRequest(w) \/ RejectRequest(w) \/ ReadGrantee(w)
    \/ LoadRequest(w) \/ CommitRequest(w)
    \/ Abort(w)

Next == \E w \in Workers : Step(w)

Spec == Init /\ [][Next]_vars
-----------------------------------------------------------------------------
(* What holds however requests overlap and wherever they die *)

PCs == {"idle", "insertUser", "loadUser", "commitUser", "insertAsk",
        "readGrantee", "loadAsk", "commitAsk"}

DbTypeOK ==
    /\ users \in [Ids -> UserRow \cup {None}]
    /\ \A u \in Ids : Exists(u) => users[u].id = u
    /\ requests \in [RequestIds -> RequestRow \cup {None}]
    /\ \A q \in RequestIds : requests[q] # None => requests[q].id = q
    /\ outbox \in Seq(Events)
    /\ held \in [Ids -> SUBSET Roles]

SessionTypeOK ==
    /\ pc \in [Workers -> PCs]
    /\ user \in [Workers -> UserRow \cup {None}]
    /\ event \in [Workers -> Events \cup {None}]
    /\ row \in [Workers -> UserRow \cup {None}]
    /\ ask \in [Workers -> RequestRow \cup {None}]
    /\ askRow \in [Workers -> RequestRow \cup {None}]

(* Every variable has its type, and a row is stored under its own id. *)
TypeOK == DbTypeOK /\ SessionTypeOK

(* Two registrations of one address may both find it free and hash their   *)
(* passwords; still no two accounts share an address (register_user.py     *)
(* checks, the unique index of user_model.py decides).                     *)
EmailUnique ==
    \A u, v \in Ids :
        Exists(u) /\ Exists(v) /\ users[u].email = users[v].email => u = v

(* Only an account that was already PENDING can be PENDING or REJECTED: no *)
(* race writes an undecided state over an account registered since (the    *)
(* promise of user.py's register and of README "registration no longer     *)
(* produces one").                                                         *)
OnlyLeftoversUndecided ==
    \A u \in Ids :
        Exists(u) /\ users[u].state \in {"PENDING", "REJECTED"} => u \in Leftover

(* Each account's role and state, as the table has them, were announced on *)
(* user-events or were there from the start: a commit that loses another's *)
(* update may bring back an old value, never one nobody was told of.       *)
RoleTold(u, r) ==
    \/ u \in Leftover \cup {Admin} /\ r = InitialRow(u).role
    \/ \E i \in 1..Len(outbox) :
         /\ outbox[i].user = u /\ outbox[i].role = r
         /\ outbox[i].type \in {"UserRegistered", "RoleGranted"}

StateTold(u, s) ==
    \/ u \in Leftover \cup {Admin} /\ s = InitialRow(u).state
    \/ \E i \in 1..Len(outbox) : outbox[i].user = u /\ Announces(outbox[i], s)

EverythingTold ==
    \A u \in Ids :
        Exists(u) => RoleTold(u, users[u].role) /\ StateTold(u, users[u].state)

(* In the first n events, a was granted one of roles. *)
Granted(a, roles, n) ==
    \E i \in 1..n : /\ outbox[i].type = "RoleGranted"
                    /\ outbox[i].user = a /\ outbox[i].role \in roles

NeedsModerator ==
    {"RoleGranted", "UserBanned", "UserUnbanned",
     "RegistrationApproved", "RegistrationRejected"}

(* Authority has an origin: whoever is recorded as having granted, banned  *)
(* or decided is the seeded administrator or had been granted SUPPORT or   *)
(* ADMIN by an event committed earlier, although the role is read from a   *)
(* token that outlives it (security_deps.py, role_policy.py).              *)
AuthorityHasOrigin ==
    \A n \in 1..Len(outbox) :
        outbox[n].type \in NeedsModerator =>
            outbox[n].by = Admin \/ Granted(outbox[n].by, Moderators, n - 1)

(* A moderator who was never an administrator grants only what the account *)
(* asked for: the role and the account of one of its requests              *)
(* (decide_role_request.py against grant_role.py).                         *)
SupportGrantsWhatWasAsked ==
    \A n \in 1..Len(outbox) :
        /\ outbox[n].type = "RoleGranted"
        /\ outbox[n].by # Admin
        /\ ~Granted(outbox[n].by, Granters, n - 1)
        => \E q \in RequestIds :
              /\ requests[q] # None
              /\ requests[q].user = outbox[n].user
              /\ requests[q].role = outbox[n].role

(* A request that reads APPROVED has had its role granted, though the      *)
(* grant and the decision are two commits and the process may die between  *)
(* them (decide_role_request.py:20-31).                                    *)
ApprovedMeansGranted ==
    \A q \in RequestIds :
        requests[q] # None /\ requests[q].status = "APPROVED" =>
            \E i \in 1..Len(outbox) :
                /\ outbox[i].type = "RoleGranted"
                /\ outbox[i].user = requests[q].user
                /\ outbox[i].role = requests[q].role

-----------------------------------------------------------------------------
(* What holds while requests for one account or role request do not        *)
(* overlap, and is lost when they do                                       *)

(* A banned account becomes ACTIVE again only because somebody unbans it.  *)
OnlyUnbanReactivates ==
    [][\A u \in Ids :
          Exists(u) /\ users[u].state = "BANNED" /\ users'[u].state = "ACTIVE" =>
              \E a \in Ids :
                  outbox' = Append(outbox, Event("UserUnbanned", u, a, None))]_vars

(* Whoever replays user-events in order knows the role and the state of    *)
(* every account: the last event that tells one is what the table has.     *)
LastTold(u, Tells(_)) ==
    LET told == {i \in 1..Len(outbox) : outbox[i].user = u /\ Tells(outbox[i])}
    IN  IF told = {} THEN 0 ELSE CHOOSE i \in told : \A j \in told : j <= i

TellsRole(e) == e.type \in {"UserRegistered", "RoleGranted"}
TellsState(e) == \E s \in States : Announces(e, s)

ReplayIsTable ==
    \A u \in Ids : Exists(u) =>
        LET r == LastTold(u, TellsRole)
            s == LastTold(u, TellsState)
        IN  /\ IF r = 0 THEN users[u].role = InitialRow(u).role
               ELSE outbox[r].role = users[u].role
            /\ IF s = 0 THEN users[u].state = InitialRow(u).state
               ELSE Announces(outbox[s], users[u].state)

(* Served one at a time, the requests are the atomic operations of         *)
(* AccountLifecycle.                                                       *)
Lifecycle == INSTANCE AccountLifecycle
LifecycleSpec == Lifecycle!Spec
=============================================================================
