------------------------------- MODULE Sessions -------------------------------
(***************************************************************************)
(* Signing in, refreshing and signing out, while the account may be banned *)
(* or given another role.  A request is a coroutine and everything between *)
(* two of its awaits is one action.                                        *)
(*                                                                         *)
(*   login    reads the account, verifies the password in a thread,        *)
(*            commits an audit row, then mints a pair from what it read.   *)
(*   refresh  decodes the token, asks Redis whether its jti is revoked,    *)
(*            reads the account, then mints an access token.               *)
(*   logout   decodes the token and sets its jti in Redis, to expire after *)
(*            the WHOLE seconds the token has left.                        *)
(*                                                                         *)
(* Time is counted in ticks, Second of them to a second: a token's exp is  *)
(* a whole second (PyJWT drops the rest), the clock that checks it is not. *)
(* Redis keeps a key until it expires; it may be out of reach.             *)
(*                                                                         *)
(* Left out: unknown addresses and unusable tokens, which change nothing;  *)
(* the audit rows of refused sign-ins, which nothing reads; scopes, issuer *)
(* and audience.                                                           *)
(***************************************************************************)
EXTENDS Naturals, FiniteSets, AuthDomain

CONSTANTS
    Ids,         \* accounts
    Rows,        \* what is saved of an account: its role and state
    Jtis,        \* refresh tokens, by their jti
    Workers,     \* requests being served at once
    Second,      \* ticks in a second
    RefreshTTL,  \* settings.refresh_token_ttl_days, in seconds
    MaxNow,      \* bound: the clock stops here
    MaxAudits,   \* bound: successful sign-ins of one account
    Faults,      \* what may go wrong: "abort", "redis"
    None

ASSUME ConstantsOK ==
    /\ Rows \subseteq [role: Roles, state: States]
    /\ Second \in Nat \ {0} /\ RefreshTTL \in Nat \ {0}
    /\ MaxNow \in Nat /\ MaxAudits \in Nat
    /\ Faults \subseteq {"abort", "redis"}
    /\ None \notin Ids /\ None \notin Rows /\ None \notin Jtis /\ None \notin Roles
    /\ None \notin [user: Ids, exp: Nat]

VARIABLES
    account,   \* table users: role and state of each account
    now,       \* the clock, in ticks
    refresh,   \* refresh tokens minted: jti -> [user, exp], or None
    revoked,   \* Redis: jti -> when its key expires, 0 if there is none
    redisUp,   \* whether Redis can be reached
    audit,     \* table login_audit: successful sign-ins of each account
    signedOut, \* history: the jtis a logout has revoked
    pc,        \* where each worker's coroutine stands
    who,       \* the account its request is about
    read,      \* the row it has read of that account
    token,     \* the jti of the token it was sent
    ttl,       \* the seconds a logout has computed
    answer,    \* the role claim of the access token it answers with
    seen,      \* history: the rows the account has had since the request began
    late       \* history: its token had been revoked when the request began

stores == <<account, now, refresh, revoked, redisUp, audit, signedOut>>
work == <<who, read, token, ttl, answer, seen, late>>
vars == <<account, now, refresh, revoked, redisUp, audit, signedOut,
          pc, who, read, token, ttl, answer, seen, late>>

Init ==
    /\ account \in [Ids -> Rows]
    /\ now = 0
    /\ refresh = [j \in Jtis |-> None]
    /\ revoked = [j \in Jtis |-> 0]
    /\ redisUp = TRUE
    /\ audit = [u \in Ids |-> 0]
    /\ signedOut = {}
    /\ pc = [w \in Workers |-> "idle"]
    /\ who = [w \in Workers |-> None]
    /\ read = [w \in Workers |-> None]
    /\ token = [w \in Workers |-> None]
    /\ ttl = [w \in Workers |-> 0]
    /\ answer = [w \in Workers |-> None]
    /\ seen = [w \in Workers |-> {}]
    /\ late = [w \in Workers |-> FALSE]

-----------------------------------------------------------------------------

GoTo(w, label) == pc' = [pc EXCEPT ![w] = label]

(* jwt.decode: exp has not come, in the checker's fractional seconds.      *)
Usable(j) == refresh[j] # None /\ now < refresh[j].exp

(* RedisTokenBlacklist.is_revoked *)
Revoked(j) == now < revoked[j]

Begin(w, u) ==
    /\ pc[w] = "idle"
    /\ who' = [who EXCEPT ![w] = u]
    /\ seen' = [seen EXCEPT ![w] = {account[u]}]

(* A request that carries a refresh token. *)
BeginWith(w, j) ==
    /\ Usable(j)
    /\ Begin(w, refresh[j].user)
    /\ token' = [token EXCEPT ![w] = j]
    /\ late' = [late EXCEPT ![w] = j \in signedOut]

Read(w) == read' = [read EXCEPT ![w] = account[who[w]]]

(* The end of a request. *)
Finish(w) ==
    /\ GoTo(w, "idle")
    /\ who' = [who EXCEPT ![w] = None]
    /\ read' = [read EXCEPT ![w] = None]
    /\ token' = [token EXCEPT ![w] = None]
    /\ ttl' = [ttl EXCEPT ![w] = 0]
    /\ answer' = [answer EXCEPT ![w] = None]
    /\ seen' = [seen EXCEPT ![w] = {}]
    /\ late' = [late EXCEPT ![w] = FALSE]

Answer(w, role) ==
    /\ answer' = [answer EXCEPT ![w] = role]
    /\ GoTo(w, "answered")
    /\ UNCHANGED <<who, read, token, ttl, seen, late>>

-----------------------------------------------------------------------------
(* Login *)

(* get_by_email *)
LoginRead(w) ==
    \E u \in Ids :
        /\ audit[u] < MaxAudits
        /\ Begin(w, u)
        /\ read' = [read EXCEPT ![w] = account[u]]
        /\ GoTo(w, "verify")
        /\ UNCHANGED <<stores, token, ttl, answer, late>>

(* The password is wrong, or the row read cannot sign in. *)
LoginRefused(w) ==
    /\ pc[w] = "verify"
    /\ Finish(w)
    /\ UNCHANGED stores

(* Faulty variant: the sign-in is audited after the tokens are handed out. *)
LoginUnaudited(w) ==
    /\ pc[w] = "verify"
    /\ CanLogin(read[w])
    /\ audit[who[w]] < MaxAudits
    /\ GoTo(w, "mintPair")
    /\ UNCHANGED <<stores, work>>

(* The password is right: record_login_audit commits before any token. *)
LoginAudited(w) ==
    /\ pc[w] = "verify"
    /\ CanLogin(read[w])
    /\ audit[who[w]] < MaxAudits
    /\ audit' = [audit EXCEPT ![who[w]] = @ + 1]
    /\ GoTo(w, "mintPair")
    /\ UNCHANGED <<account, now, refresh, revoked, redisUp, signedOut, work>>

(* create_access_token and create_refresh_token, from the row read. *)
LoginMint(w) ==
    \E j \in Jtis :
        /\ pc[w] = "mintPair"
        /\ refresh[j] = None
        /\ refresh' = [refresh EXCEPT ![j] =
              [user |-> who[w], exp |-> ((now \div Second) + RefreshTTL) * Second]]
        /\ Answer(w, read[w].role)
        /\ UNCHANGED <<account, now, revoked, redisUp, audit, signedOut>>

-----------------------------------------------------------------------------
(* Refresh *)

RefreshBegin(w) ==
    \E j \in Jtis :
        /\ BeginWith(w, j)
        /\ GoTo(w, "checkRevoked")
        /\ UNCHANGED <<stores, read, ttl, answer>>

RefreshNotRevoked(w) ==
    /\ pc[w] = "checkRevoked"
    /\ redisUp /\ ~Revoked(token[w])
    /\ GoTo(w, "readUser")
    /\ UNCHANGED <<stores, work>>

RefreshRevoked(w) ==
    /\ pc[w] = "checkRevoked"
    /\ redisUp /\ Revoked(token[w])
    /\ Finish(w)
    /\ UNCHANGED stores

(* is_revoked raises, nothing catches it, and the answer is a 500. *)
RefreshWithoutRedis(w) ==
    /\ pc[w] = "checkRevoked"
    /\ ~redisUp
    /\ Finish(w)
    /\ UNCHANGED stores

(* Faulty variant: the account's state is not looked at. *)
RefreshReadUnchecked(w) ==
    /\ pc[w] = "readUser"
    /\ Read(w)
    /\ GoTo(w, "mintAccess")
    /\ UNCHANGED <<stores, who, token, ttl, answer, seen, late>>

RefreshRead(w) ==
    /\ pc[w] = "readUser"
    /\ CanLogin(account[who[w]])
    /\ Read(w)
    /\ GoTo(w, "mintAccess")
    /\ UNCHANGED <<stores, who, token, ttl, answer, seen, late>>

RefreshRefused(w) ==
    /\ pc[w] = "readUser"
    /\ ~CanLogin(account[who[w]])
    /\ Finish(w)
    /\ UNCHANGED stores

RefreshMint(w) ==
    /\ pc[w] = "mintAccess"
    /\ Answer(w, read[w].role)
    /\ UNCHANGED stores

-----------------------------------------------------------------------------
(* Logout *)

(* Faulty variant: no time to live for the last second.                    *)
SecondsLeftNone(j) ==
    LET left == (refresh[j].exp - now) \div Second
    IN  IF left > 1 THEN left ELSE None

(* Faulty variant: min for max. *)
SecondsLeftAtMostOne(j) ==
    LET left == (refresh[j].exp - now) \div Second
    IN  IF left < 1 THEN left ELSE 1

(* max(int(exp - time.time()), 1) *)
SecondsLeft(j) ==
    LET left == (refresh[j].exp - now) \div Second
    IN  IF left > 1 THEN left ELSE 1

LogoutBegin(w) ==
    \E j \in Jtis :
        /\ BeginWith(w, j)
        /\ ttl' = [ttl EXCEPT ![w] = SecondsLeft(j)]
        /\ GoTo(w, "revoke")
        /\ UNCHANGED <<stores, read, answer>>

(* SET key 1 EX ttl, over a key that may be there already. *)
LogoutRevoke(w) ==
    /\ pc[w] = "revoke"
    /\ redisUp
    /\ revoked' = [revoked EXCEPT ![token[w]] = now + ttl[w] * Second]
    /\ signedOut' = signedOut \cup {token[w]}
    /\ Finish(w)
    /\ UNCHANGED <<account, now, refresh, redisUp, audit>>

LogoutWithoutRedis(w) ==
    /\ pc[w] = "revoke"
    /\ ~redisUp
    /\ Finish(w)
    /\ UNCHANGED stores

-----------------------------------------------------------------------------

Answered(w) ==
    /\ pc[w] = "answered"
    /\ Finish(w)
    /\ UNCHANGED stores

(* The process dies, the client leaves or the database fails. *)
Abort(w) ==
    /\ "abort" \in Faults
    /\ pc[w] # "idle"
    /\ Finish(w)
    /\ UNCHANGED stores

(* Another request's save() of the account commits (Accounts). *)
SaveAccount(u) ==
    \E a \in Rows \ {account[u]} :
        /\ account' = [account EXCEPT ![u] = a]
        /\ seen' = [w \in Workers |->
                      IF who[w] = u THEN seen[w] \cup {a} ELSE seen[w]]
        /\ UNCHANGED <<now, refresh, revoked, redisUp, audit, signedOut,
                       pc, who, read, token, ttl, answer, late>>

RedisToggles ==
    /\ "redis" \in Faults
    /\ redisUp' = ~redisUp
    /\ UNCHANGED <<account, now, refresh, revoked, audit, signedOut, pc, work>>

Tick ==
    /\ now < MaxNow
    /\ now' = now + 1
    /\ UNCHANGED <<account, refresh, revoked, redisUp, audit, signedOut, pc, work>>

Step(w) ==
    \/ LoginRead(w) \/ LoginRefused(w) \/ LoginAudited(w) \/ LoginMint(w)
    \/ RefreshBegin(w) \/ RefreshNotRevoked(w) \/ RefreshRevoked(w)
    \/ RefreshWithoutRedis(w) \/ RefreshRead(w) \/ RefreshRefused(w)
    \/ RefreshMint(w)
    \/ LogoutBegin(w) \/ LogoutRevoke(w) \/ LogoutWithoutRedis(w)
    \/ Answered(w) \/ Abort(w)

Next ==
    \/ \E w \in Workers : Step(w)
    \/ \E u \in Ids : SaveAccount(u)
    \/ RedisToggles \/ Tick

Spec == Init /\ [][Next]_vars

-----------------------------------------------------------------------------

Tokens == [user: Ids, exp: Nat]

PCs == {"idle", "verify", "mintPair", "checkRevoked", "readUser",
        "mintAccess", "revoke", "answered"}

(* Every variable has its type. *)
TypeOK ==
    /\ account \in [Ids -> Rows]
    /\ now \in Nat
    /\ refresh \in [Jtis -> Tokens \cup {None}]
    /\ revoked \in [Jtis -> Nat]
    /\ redisUp \in BOOLEAN
    /\ audit \in [Ids -> Nat]
    /\ signedOut \subseteq Jtis
    /\ pc \in [Workers -> PCs]
    /\ who \in [Workers -> Ids \cup {None}]
    /\ read \in [Workers -> Rows \cup {None}]
    /\ token \in [Workers -> Jtis \cup {None}]
    /\ ttl \in [Workers -> Nat]
    /\ answer \in [Workers -> Roles \cup {None}]
    /\ seen \in [Workers -> SUBSET Rows]
    /\ late \in [Workers -> BOOLEAN]

(* An access token carries a role its owner really had, in an account that *)
(* could sign in, at some moment between the start of the request and the  *)
(* answer: a ban or a demotion is missed only by the requests it overtakes *)
(* (login.py checks the row it read before the password was verified;      *)
(* jwt_provider.py keeps the role out of the refresh token for this).      *)
AnswersAreCurrent ==
    \A w \in Workers : answer[w] # None =>
        \E a \in seen[w] : CanLogin(a) /\ a.role = answer[w]

(* Nobody holds a refresh token whose sign-in is not on record, wherever   *)
(* the request that minted it died (login.py:39-42).                       *)
MintedBy(u) == {j \in Jtis : refresh[j] # None /\ refresh[j].user = u}

EverySessionAudited ==
    \A u \in Ids : Cardinality(MintedBy(u)) <= audit[u]

(* A refresh that begins after its token was revoked gets past the check   *)
(* of the blacklist no sooner than in the token's last second, however     *)
(* often and however slowly it is revoked again (logout.py:17).            *)
LogoutHoldsToTheLastSecond ==
    [][\A w \in Workers :
          /\ late[w]
          /\ pc[w] = "checkRevoked" /\ pc'[w] = "readUser"
          => now + Second > refresh[token[w]].exp]_vars

=============================================================================
