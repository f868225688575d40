---------------------------- MODULE SessionsProofs ----------------------------
(***************************************************************************)
(* Theorems about Sessions for any accounts, tokens and overlapping        *)
(* requests, any lifetime and any length of a second.                      *)
(***************************************************************************)
EXTENDS Sessions, FiniteSetTheorems, TLAPS

USE ConstantsOK

(* What a request in flight carries: the row it has read, the role it      *)
(* answers with and the state its account has now are among those seen     *)
(* since it began; a logout's time to live, from whenever it is written,   *)
(* reaches into the last second of the token.                              *)
SessionOf(w) ==
    /\ pc[w] = "idle" => read[w] = None
    /\ pc[w] # "idle" => who[w] \in Ids /\ account[who[w]] \in seen[w]
    /\ read[w] # None => read[w] \in seen[w]
    /\ pc[w] \in {"verify", "mintPair", "mintAccess"} => read[w] # None
    /\ pc[w] \in {"mintPair", "mintAccess"} => CanLogin(read[w])
    /\ answer[w] # None =>
          /\ pc[w] = "answered"
          /\ \E a \in seen[w] : CanLogin(a) /\ a.role = answer[w]
    /\ pc[w] \in {"checkRevoked", "revoke"} =>
          token[w] \in Jtis /\ refresh[token[w]] # None
    /\ late[w] => token[w] \in signedOut
    /\ pc[w] = "revoke" => refresh[token[w]].exp < now + (ttl[w] + 1) * Second

RevokedLong ==
    \A j \in signedOut :
        refresh[j] # None /\ refresh[j].exp < revoked[j] + Second

Inv == TypeOK /\ RevokedLong /\ \A w \in Workers : SessionOf(w)

-----------------------------------------------------------------------------
(* Whole seconds *)

(* The seconds a logout asks Redis for are at least one, and fall short of *)
(* what the token has left by less than one.                               *)
LEMMA SecondsLeftReach ==
    ASSUME now \in Nat, NEW j \in Jtis, refresh[j] \in Tokens, now < refresh[j].exp
    PROVE  /\ SecondsLeft(j) \in Nat
           /\ refresh[j].exp < now + (SecondsLeft(j) + 1) * Second
  <1> DEFINE d == refresh[j].exp - now
             q == d \div Second
             s == SecondsLeft(j)
  <1>1. refresh[j].exp \in Nat /\ d \in Nat /\ d > 0
    BY DEF Tokens
  <1>2. q \in Nat /\ d < (q + 1) * Second
    BY <1>1
  <1>3. s = IF q > 1 THEN q ELSE 1
    BY DEF SecondsLeft
  <1> HIDE DEF q, s
  <1>4. s \in Nat /\ s >= q
    BY <1>2, <1>3
  <1>5. (q + 1) * Second <= (s + 1) * Second
    BY <1>2, <1>4
  <1>6. d < (s + 1) * Second
    BY <1>1, <1>2, <1>4, <1>5
  <1>7. (s + 1) * Second \in Nat
    BY <1>4
  <1> QED
    BY <1>1, <1>4, <1>6, <1>7 DEF s

-----------------------------------------------------------------------------
(* The invariant at the start and after every step. *)

LEMMA InitInv == Init => Inv
  <1> SUFFICES ASSUME Init PROVE Inv
    OBVIOUS
  <1>1. TypeOK
    BY DEF Init, TypeOK, PCs
  <1> QED
    BY <1>1 DEF Init, Inv, RevokedLong, SessionOf

(* What a step of w leaves to the other requests: their sessions, the      *)
(* tokens they carry, what was revoked and the clock.                      *)
Frame(w) ==
    /\ \A x \in Workers \ {w} :
          /\ pc'[x] = pc[x] /\ who'[x] = who[x] /\ read'[x] = read[x]
          /\ token'[x] = token[x] /\ ttl'[x] = ttl[x] /\ answer'[x] = answer[x]
          /\ seen'[x] = seen[x] /\ late'[x] = late[x]
    /\ \A j \in Jtis : refresh[j] # None => refresh'[j] = refresh[j]
    /\ signedOut \subseteq signedOut'
    /\ UNCHANGED <<account, now>>

LEMMA FrameKeeps ==
    ASSUME Inv, NEW w \in Workers, Frame(w), NEW x \in Workers \ {w}
    PROVE  SessionOf(x)'
  <1>1. SessionOf(x) /\ now' = now /\ account' = account
    BY DEF Inv, Frame
  <1>2. /\ pc'[x] = pc[x] /\ who'[x] = who[x] /\ read'[x] = read[x]
        /\ token'[x] = token[x] /\ ttl'[x] = ttl[x] /\ answer'[x] = answer[x]
        /\ seen'[x] = seen[x] /\ late'[x] = late[x]
    BY DEF Frame
  <1>3. pc[x] \in {"checkRevoked", "revoke"} => refresh'[token[x]] = refresh[token[x]]
    BY <1>1 DEF Frame, SessionOf
  <1>4. late[x] => token[x] \in signedOut'
    BY <1>1 DEF Frame, SessionOf
  <1> QED
    BY <1>1, <1>2, <1>3, <1>4 DEF SessionOf

LEMMA FinishKeeps ==
    ASSUME Inv, NEW w \in Workers, Finish(w), UNCHANGED stores
    PROVE  Inv'
  <1>1. TypeOK'
    BY DEF Inv, TypeOK, Finish, GoTo, stores, PCs
  <1>2. Frame(w)
    BY DEF Inv, TypeOK, Finish, GoTo, stores, Frame
  <1>3. SessionOf(w)'
    BY DEF Inv, TypeOK, Finish, GoTo, SessionOf
  <1>4. RevokedLong'
    BY DEF Inv, RevokedLong, stores
  <1> QED
    BY <1>1, <1>2, <1>3, <1>4, FrameKeeps DEF Inv

LEMMA BeginWithKeeps ==
    ASSUME Inv, NEW w \in Workers, NEW j \in Jtis, BeginWith(w, j),
           UNCHANGED <<stores, read, answer>>,
           \/ GoTo(w, "checkRevoked") /\ UNCHANGED ttl
           \/ GoTo(w, "revoke") /\ ttl' = [ttl EXCEPT ![w] = SecondsLeft(j)]
    PROVE  Inv'
  <1>1. /\ refresh[j] \in Tokens /\ now < refresh[j].exp /\ pc[w] = "idle"
        /\ refresh[j].user \in Ids /\ refresh[j] # None
    BY DEF Inv, TypeOK, BeginWith, Begin, Usable, Tokens
  <1>2. /\ SecondsLeft(j) \in Nat
        /\ refresh[j].exp < now + (SecondsLeft(j) + 1) * Second
    BY <1>1, SecondsLeftReach DEF Inv, TypeOK
  <1>3. TypeOK'
    <2>1. late' \in [Workers -> BOOLEAN]
      <3>1. (j \in signedOut) \in BOOLEAN
        OBVIOUS
      <3> QED
        BY <3>1 DEF Inv, TypeOK, BeginWith
    <2>2. pc' \in [Workers -> PCs]
      BY DEF Inv, TypeOK, GoTo, PCs
    <2>3. ttl' \in [Workers -> Nat]
      BY <1>2 DEF Inv, TypeOK
    <2>4. /\ who' \in [Workers -> Ids \cup {None}] /\ seen' \in [Workers -> SUBSET Rows]
          /\ token' \in [Workers -> Jtis \cup {None}]
      BY <1>1 DEF Inv, TypeOK, BeginWith, Begin
    <2> QED
      BY <2>1, <2>2, <2>3, <2>4 DEF Inv, TypeOK, stores
  <1>4. Frame(w)
    BY DEF Inv, TypeOK, BeginWith, Begin, GoTo, stores, Frame
  <1>5. SessionOf(w)'
    <2>1. /\ who'[w] = refresh[j].user /\ seen'[w] = {account[refresh[j].user]}
          /\ token'[w] = j /\ late'[w] = (j \in signedOut) /\ read'[w] = read[w]
          /\ answer'[w] = answer[w] /\ UNCHANGED <<account, now, refresh, signedOut>>
      BY DEF Inv, TypeOK, BeginWith, Begin, stores
    <2>2. \/ pc'[w] = "checkRevoked"
          \/ pc'[w] = "revoke" /\ ttl'[w] = SecondsLeft(j)
      BY DEF Inv, TypeOK, GoTo
    <2>3. read[w] = None /\ answer[w] = None
      BY <1>1 DEF Inv, SessionOf
    <2> HIDE DEF SecondsLeft
    <2> QED
      BY <1>1, <1>2, <2>1, <2>2, <2>3 DEF SessionOf
  <1>6. RevokedLong'
    BY DEF Inv, RevokedLong, stores
  <1> QED
    BY <1>3, <1>4, <1>5, <1>6, FrameKeeps DEF Inv

LEMMA AnswerKeeps ==
    ASSUME Inv, NEW w \in Workers, pc[w] \in {"mintPair", "mintAccess"},
           Answer(w, read[w].role), UNCHANGED <<account, now, revoked, redisUp, audit, signedOut>>,
           refresh' \in [Jtis -> Tokens \cup {None}],
           \A j \in Jtis : refresh[j] # None => refresh'[j] = refresh[j]
    PROVE  Inv'
  <1>1. read[w] \in Rows /\ read[w] \in seen[w] /\ CanLogin(read[w]) /\ read[w].role \in Roles
    BY DEF Inv, TypeOK, SessionOf
  <1>2. TypeOK'
    BY <1>1 DEF Inv, TypeOK, Answer, GoTo, PCs
  <1>3. Frame(w)
    BY DEF Inv, TypeOK, Answer, GoTo, Frame
  <1>4. SessionOf(w)'
    BY <1>1 DEF Inv, TypeOK, Answer, GoTo, SessionOf
  <1>5. RevokedLong'
    BY DEF Inv, TypeOK, RevokedLong
  <1> QED
    BY <1>2, <1>3, <1>4, <1>5, FrameKeeps DEF Inv

LEMMA MintedExp ==
    ASSUME now \in Nat
    PROVE  ((now \div Second) + RefreshTTL) * Second \in Nat
  <1>1. now \div Second \in Nat
    OBVIOUS
  <1> QED
    BY <1>1

LEMMA StepInv ==
    ASSUME Inv, NEW w \in Workers, Step(w)
    PROVE  Inv'
  <1>1. CASE LoginRead(w)
    <2>1. PICK u \in Ids :
            /\ Begin(w, u) /\ read' = [read EXCEPT ![w] = account[u]]
            /\ GoTo(w, "verify") /\ UNCHANGED <<stores, token, ttl, answer, late>>
      BY <1>1 DEF LoginRead
    <2>2. TypeOK'
      BY <2>1 DEF Inv, TypeOK, Begin, GoTo, stores, PCs
    <2>3. Frame(w)
      BY <2>1 DEF Inv, TypeOK, Begin, GoTo, stores, Frame
    <2>4. SessionOf(w)'
      BY <2>1 DEF Inv, TypeOK, Begin, GoTo, stores, SessionOf
    <2>5. RevokedLong'
      BY <2>1 DEF Inv, RevokedLong, stores
    <2> QED
      BY <2>2, <2>3, <2>4, <2>5, FrameKeeps DEF Inv
  <1>2. CASE LoginAudited(w)
    <2>1. TypeOK'
      <3>1. who[w] \in Ids
        BY <1>2 DEF Inv, LoginAudited, SessionOf
      <3>2. audit' \in [Ids -> Nat]
        BY <1>2, <3>1 DEF Inv, TypeOK, LoginAudited
      <3> QED
        BY <1>2, <3>2 DEF Inv, TypeOK, LoginAudited, GoTo, work, PCs
    <2>2. Frame(w)
      BY <1>2 DEF Inv, TypeOK, LoginAudited, GoTo, work, Frame
    <2>3. SessionOf(w)'
      BY <1>2 DEF Inv, TypeOK, LoginAudited, GoTo, work, SessionOf
    <2>4. RevokedLong'
      BY <1>2 DEF Inv, RevokedLong, LoginAudited
    <2> QED
      BY <2>1, <2>2, <2>3, <2>4, FrameKeeps DEF Inv
  <1>3. CASE LoginMint(w)
    <2> DEFINE exp == ((now \div Second) + RefreshTTL) * Second
    <2>1. PICK j \in Jtis :
            /\ pc[w] = "mintPair" /\ refresh[j] = None
            /\ refresh' = [refresh EXCEPT ![j] = [user |-> who[w], exp |-> exp]]
            /\ Answer(w, read[w].role)
            /\ UNCHANGED <<account, now, revoked, redisUp, audit, signedOut>>
      BY <1>3 DEF LoginMint
    <2>2. exp \in Nat /\ who[w] \in Ids
      BY <2>1, MintedExp DEF Inv, TypeOK, SessionOf
    <2> HIDE DEF exp
    <2>3. /\ refresh' \in [Jtis -> Tokens \cup {None}]
          /\ \A i \in Jtis : refresh[i] # None => refresh'[i] = refresh[i]
      BY <2>1, <2>2 DEF Inv, TypeOK, Tokens
    <2> QED
      BY <2>1, <2>3, AnswerKeeps
  <1>4. CASE RefreshBegin(w) \/ LogoutBegin(w)
    BY <1>4, BeginWithKeeps DEF RefreshBegin, LogoutBegin
  <1>5. CASE RefreshNotRevoked(w)
    <2>1. TypeOK'
      BY <1>5 DEF Inv, TypeOK, RefreshNotRevoked, GoTo, stores, work, PCs
    <2>2. Frame(w)
      BY <1>5 DEF Inv, TypeOK, RefreshNotRevoked, GoTo, stores, work, Frame
    <2>3. SessionOf(w)'
      BY <1>5 DEF Inv, TypeOK, RefreshNotRevoked, GoTo, stores, work, SessionOf
    <2>4. RevokedLong'
      BY <1>5 DEF Inv, RevokedLong, RefreshNotRevoked, stores
    <2> QED
      BY <2>1, <2>2, <2>3, <2>4, FrameKeeps DEF Inv
  <1>6. CASE RefreshRead(w)
    <2>1. who[w] \in Ids /\ account[who[w]] \in Rows /\ account[who[w]] \in seen[w]
      BY <1>6 DEF Inv, TypeOK, RefreshRead, SessionOf
    <2>2. TypeOK'
      BY <1>6, <2>1 DEF Inv, TypeOK, RefreshRead, Read, GoTo, stores, PCs
    <2>3. Frame(w)
      BY <1>6 DEF Inv, TypeOK, RefreshRead, Read, GoTo, stores, Frame
    <2>4. SessionOf(w)'
      BY <1>6, <2>1 DEF Inv, TypeOK, RefreshRead, Read, GoTo, stores, SessionOf
    <2>5. RevokedLong'
      BY <1>6 DEF Inv, RevokedLong, RefreshRead, stores
    <2> QED
      BY <2>2, <2>3, <2>4, <2>5, FrameKeeps DEF Inv
  <1>7. CASE RefreshMint(w)
    BY <1>7, AnswerKeeps DEF RefreshMint, stores, Inv, TypeOK
  <1>8. CASE LogoutRevoke(w)
    <2>1. /\ token[w] \in Jtis /\ refresh[token[w]] # None
          /\ refresh[token[w]].exp < now + (ttl[w] + 1) * Second
      BY <1>8 DEF Inv, LogoutRevoke, SessionOf
    <2>2. now + ttl[w] * Second \in Nat
      <3>1. now \in Nat /\ ttl[w] \in Nat /\ Second \in Nat
        BY DEF Inv, TypeOK
      <3> QED
        BY <3>1
    <2>3. TypeOK'
      BY <1>8, <2>1, <2>2 DEF Inv, TypeOK, LogoutRevoke, Finish, GoTo, PCs
    <2>4. Frame(w)
      BY <1>8 DEF Inv, TypeOK, LogoutRevoke, Finish, GoTo, Frame
    <2>5. SessionOf(w)'
      BY <1>8 DEF Inv, TypeOK, LogoutRevoke, Finish, GoTo, SessionOf
    <2>6. RevokedLong'
      <3>1. now + (ttl[w] + 1) * Second = (now + ttl[w] * Second) + Second
        BY DEF Inv, TypeOK
      <3> QED
        BY <1>8, <2>1, <3>1 DEF Inv, TypeOK, LogoutRevoke, RevokedLong
    <2> QED
      BY <2>3, <2>4, <2>5, <2>6, FrameKeeps DEF Inv
  <1>9. CASE \/ LoginRefused(w) \/ RefreshRevoked(w) \/ RefreshWithoutRedis(w)
             \/ RefreshRefused(w) \/ LogoutWithoutRedis(w) \/ Answered(w) \/ Abort(w)
    BY <1>9, FinishKeeps
       DEF LoginRefused, RefreshRevoked, RefreshWithoutRedis, RefreshRefused,
           LogoutWithoutRedis, Answered, Abort
  <1> QED
    BY <1>1, <1>2, <1>3, <1>4, <1>5, <1>6, <1>7, <1>8, <1>9 DEF Step

LEMMA SaveInv ==
    ASSUME Inv, NEW u \in Ids, SaveAccount(u)
    PROVE  Inv'
  <1>1. PICK a \in Rows :
          /\ account' = [account EXCEPT ![u] = a]
          /\ seen' = [w \in Workers |-> IF who[w] = u THEN seen[w] \cup {a} ELSE seen[w]]
          /\ UNCHANGED <<now, refresh, revoked, redisUp, audit, signedOut,
                         pc, who, read, token, ttl, answer, late>>
    BY DEF SaveAccount
  <1>2. TypeOK'
    BY <1>1 DEF Inv, TypeOK
  <1>3. ASSUME NEW w \in Workers PROVE SessionOf(w)'
    <2>1. SessionOf(w) /\ seen[w] \subseteq seen'[w]
      BY <1>1 DEF Inv
    <2>2. pc[w] # "idle" => account'[who[w]] \in seen'[w]
      BY <1>1, <2>1 DEF SessionOf, Inv, TypeOK
    <2> QED
      BY <1>1, <2>1, <2>2 DEF SessionOf
  <1>4. RevokedLong'
    BY <1>1 DEF Inv, RevokedLong
  <1> QED
    BY <1>2, <1>3, <1>4 DEF Inv

LEMMA TickInv ==
    ASSUME Inv, Tick
    PROVE  Inv'
  <1>1. TypeOK'
    BY DEF Inv, TypeOK, Tick, work
  <1>2. ASSUME NEW w \in Workers PROVE SessionOf(w)'
    <2>1. SessionOf(w) /\ (ttl[w] + 1) * Second \in Nat /\ now' = now + 1 /\ now \in Nat
      BY DEF Inv, TypeOK, Tick
    <2>2. pc[w] = "revoke" => refresh[token[w]].exp \in Nat
      BY <2>1 DEF Inv, TypeOK, SessionOf, Tokens
    <2>3. pc[w] = "revoke" => refresh[token[w]].exp < now' + (ttl[w] + 1) * Second
      BY <2>1, <2>2 DEF SessionOf
    <2> QED
      BY <2>1, <2>3 DEF SessionOf, Tick, work
  <1>3. RevokedLong'
    BY DEF Inv, RevokedLong, Tick
  <1> QED
    BY <1>1, <1>2, <1>3 DEF Inv

LEMMA StillInv ==
    ASSUME Inv, RedisToggles \/ UNCHANGED vars
    PROVE  Inv'
  <1>1. TypeOK'
    BY DEF Inv, TypeOK, RedisToggles, work, vars
  <1>2. UNCHANGED <<account, now, refresh, revoked, signedOut, pc, work>>
    BY DEF RedisToggles, vars, work
  <1>3. RevokedLong'
    BY <1>2 DEF Inv, RevokedLong
  <1>4. ASSUME NEW w \in Workers PROVE SessionOf(w)'
    BY <1>2 DEF Inv, SessionOf, work
  <1> QED
    BY <1>1, <1>3, <1>4 DEF Inv

LEMMA NextInv == Inv /\ [Next]_vars => Inv'
  BY StepInv, SaveInv, TickInv, StillInv DEF Next

LEMMA InvAlways == Spec => []Inv
  BY InitInv, NextInv, PTL DEF Spec

(* Every variable of Sessions keeps its type. *)
THEOREM TypeCorrect == Spec => []TypeOK
  <1>1. Inv => TypeOK
    BY DEF Inv
  <1> QED
    BY <1>1, InvAlways, PTL

(* The role an access token carries is one its owner had, in an account    *)
(* that could sign in, since the request for it began: what login and      *)
(* refresh mint is what they read, and they read it after they began.      *)
THEOREM AnswersStayCurrent == Spec => []AnswersAreCurrent
  <1>1. Inv => AnswersAreCurrent
    BY DEF Inv, SessionOf, AnswersAreCurrent
  <1> QED
    BY <1>1, InvAlways, PTL

(* A revoked refresh token is refused until its last second, whatever the  *)
(* length of a second and however late and often logout writes the key.    *)
THEOREM LogoutHolds == Spec => LogoutHoldsToTheLastSecond
  <1>1. Inv /\ [Next]_vars =>
          [\A w \in Workers :
             /\ late[w]
             /\ pc[w] = "checkRevoked" /\ pc'[w] = "readUser"
             => now + Second > refresh[token[w]].exp]_vars
    <2> SUFFICES ASSUME Inv, Next, NEW w \in Workers, late[w],
                        pc[w] = "checkRevoked", pc'[w] = "readUser"
                 PROVE  now + Second > refresh[token[w]].exp
      BY DEF vars
    <2>1. RefreshNotRevoked(w)
      <3>1. ASSUME NEW x \in Workers, Step(x) PROVE RefreshNotRevoked(w)
        <4>1. x = w
          BY <3>1 DEF Inv, TypeOK, Step, LoginRead, LoginRefused, LoginAudited, LoginMint,
             RefreshBegin, RefreshNotRevoked, RefreshRevoked, RefreshWithoutRedis, RefreshRead,
             RefreshRefused, RefreshMint, LogoutBegin, LogoutRevoke, LogoutWithoutRedis,
             Answered, Abort, Finish, Answer, GoTo
        <4> QED
          BY <3>1, <4>1 DEF Inv, TypeOK, Step, LoginRead, LoginRefused, LoginAudited, LoginMint,
             RefreshBegin, RefreshRevoked, RefreshWithoutRedis, RefreshRead,
             RefreshRefused, RefreshMint, LogoutBegin, LogoutRevoke, LogoutWithoutRedis,
             BeginWith, Begin, Answered, Abort, Finish, Answer, GoTo
      <3> QED
        BY <3>1 DEF Next, SaveAccount, RedisToggles, Tick
    <2>2. /\ token[w] \in Jtis /\ token[w] \in signedOut /\ refresh[token[w]] \in Tokens
          /\ refresh[token[w]].exp < revoked[token[w]] + Second
      BY DEF Inv, TypeOK, SessionOf, RevokedLong
    <2>3. ~(now < revoked[token[w]])
      BY <2>1 DEF RefreshNotRevoked, Revoked
    <2>4. now \in Nat /\ revoked[token[w]] \in Nat /\ refresh[token[w]].exp \in Nat
      BY <2>2 DEF Inv, TypeOK, Tokens
    <2> QED
      BY <2>2, <2>3, <2>4
  <1> QED
    BY <1>1, InitInv, NextInv, PTL DEF Spec, LogoutHoldsToTheLastSecond

-----------------------------------------------------------------------------
(* The audit row is counted before the token. *)

(* The sign-ins of u that are on record and have no token yet. *)
Paying(u) == {w \in Workers : pc[w] = "mintPair" /\ who[w] = u}

(* The finiteness of the two sets is part of the invariant, so the number  *)
(* of requests and of tokens there can ever be is not assumed finite.      *)
AuditedOf(u) ==
    /\ IsFiniteSet(MintedBy(u)) /\ IsFiniteSet(Paying(u))
    /\ Cardinality(MintedBy(u)) + Cardinality(Paying(u)) <= audit[u]

Audited == Inv /\ \A u \in Ids : AuditedOf(u)

LEMMA InitAudited == Init => Audited
  <1> SUFFICES ASSUME Init, NEW u \in Ids PROVE AuditedOf(u)
    BY InitInv DEF Audited
  <1>1. MintedBy(u) = {} /\ Paying(u) = {} /\ audit[u] = 0
    BY DEF Init, MintedBy, Paying
  <1> QED
    BY <1>1, FS_EmptySet DEF AuditedOf

(* Fewer sign-ins wait for a token, and nothing else counts. *)
LEMMA LessPaying ==
    ASSUME NEW u \in Ids, AuditedOf(u), audit \in [Ids -> Nat],
           MintedBy(u)' = MintedBy(u), Paying(u)' \subseteq Paying(u), audit'[u] = audit[u]
    PROVE  AuditedOf(u)'
  <1>1. /\ IsFiniteSet(Paying(u)') /\ Cardinality(Paying(u)') <= Cardinality(Paying(u))
        /\ Cardinality(Paying(u)') \in Nat /\ Cardinality(Paying(u)) \in Nat
        /\ Cardinality(MintedBy(u)) \in Nat /\ audit[u] \in Nat
    BY FS_Subset, FS_CardinalityType DEF AuditedOf
  <1> HIDE DEF MintedBy, Paying
  <1> QED
    BY <1>1 DEF AuditedOf

LEMMA AuditKeeps ==
    ASSUME Audited, NEW w \in Workers, LoginAudited(w), NEW u \in Ids
    PROVE  AuditedOf(u)'
  <1>1. /\ AuditedOf(u) /\ who[w] \in Ids /\ pc[w] = "verify" /\ pc'[w] = "mintPair"
        /\ audit \in [Ids -> Nat] /\ audit' = [audit EXCEPT ![who[w]] = @ + 1]
        /\ refresh' = refresh /\ who' = who
        /\ \A x \in Workers \ {w} : pc'[x] = pc[x]
    BY DEF Audited, Inv, TypeOK, SessionOf, LoginAudited, GoTo, work
  <1>2. MintedBy(u)' = MintedBy(u)
    BY <1>1 DEF MintedBy
  <1>3. CASE who[w] = u
    <2>1. Paying(u)' = Paying(u) \cup {w} /\ w \notin Paying(u)
      BY <1>1, <1>3 DEF Paying
    <2>2. audit'[u] = audit[u] + 1 /\ audit[u] \in Nat
      BY <1>1, <1>3
    <2>3. /\ IsFiniteSet(Paying(u) \cup {w})
          /\ Cardinality(Paying(u) \cup {w}) = Cardinality(Paying(u)) + 1
          /\ Cardinality(Paying(u)) \in Nat /\ Cardinality(MintedBy(u)) \in Nat
      BY <1>1, <2>1, FS_AddElement, FS_CardinalityType DEF AuditedOf
    <2> QED
      BY <1>1, <1>2, <2>1, <2>2, <2>3 DEF AuditedOf
  <1>4. CASE who[w] # u
    <2>1. Paying(u)' \subseteq Paying(u) /\ audit'[u] = audit[u]
      BY <1>1, <1>4 DEF Paying
    <2> QED
      BY <1>1, <1>2, <2>1, LessPaying
  <1> QED
    BY <1>3, <1>4

LEMMA MintKeeps ==
    ASSUME Audited, NEW w \in Workers, LoginMint(w), NEW u \in Ids
    PROVE  AuditedOf(u)'
  <1>1. PICK j \in Jtis :
          /\ pc[w] = "mintPair" /\ refresh[j] = None /\ pc'[w] = "answered"
          /\ refresh'[j] # None /\ refresh'[j].user = who[w]
          /\ \A i \in Jtis \ {j} : refresh'[i] = refresh[i]
          /\ \A x \in Workers \ {w} : pc'[x] = pc[x]
          /\ audit' = audit /\ who' = who
    <2> PICK j \in Jtis :
          /\ pc[w] = "mintPair" /\ refresh[j] = None
          /\ refresh' = [refresh EXCEPT ![j] =
                [user |-> who[w], exp |-> ((now \div Second) + RefreshTTL) * Second]]
          /\ Answer(w, read[w].role) /\ UNCHANGED audit
      BY DEF LoginMint
    <2> DEFINE minted == [user |-> who[w], exp |-> ((now \div Second) + RefreshTTL) * Second]
    <2>1. minted.user = who[w] /\ minted # None
      <3>1. minted.exp \in Nat /\ who[w] \in Ids
        BY MintedExp DEF Audited, Inv, TypeOK, SessionOf
      <3> QED
        BY <3>1
    <2>2. refresh' = [refresh EXCEPT ![j] = minted]
      OBVIOUS
    <2> HIDE DEF minted
    <2> QED
      BY <2>1, <2>2 DEF Audited, Inv, TypeOK, Answer, GoTo
  <1>2. /\ AuditedOf(u) /\ audit[u] \in Nat /\ audit \in [Ids -> Nat]
    BY DEF Audited, Inv, TypeOK
  <1>3. CASE who[w] = u
    <2>1. MintedBy(u)' = MintedBy(u) \cup {j} /\ j \notin MintedBy(u)
      BY <1>1, <1>3 DEF MintedBy
    <2>2. Paying(u)' = Paying(u) \ {w} /\ w \in Paying(u)
      BY <1>1, <1>3 DEF Paying
    <2>3. /\ IsFiniteSet(MintedBy(u) \cup {j}) /\ IsFiniteSet(Paying(u) \ {w})
          /\ Cardinality(MintedBy(u) \cup {j}) = Cardinality(MintedBy(u)) + 1
          /\ Cardinality(Paying(u) \ {w}) = Cardinality(Paying(u)) - 1
          /\ Cardinality(Paying(u)) \in Nat /\ Cardinality(MintedBy(u)) \in Nat
      BY <1>2, <2>1, <2>2, FS_AddElement, FS_RemoveElement, FS_CardinalityType DEF AuditedOf
    <2> QED
      BY <1>1, <1>2, <2>1, <2>2, <2>3 DEF AuditedOf
  <1>4. CASE who[w] # u
    <2>1. MintedBy(u)' = MintedBy(u)
      BY <1>1, <1>4 DEF MintedBy
    <2>2. Paying(u)' \subseteq Paying(u)
      BY <1>1, <1>4 DEF Paying
    <2> QED
      BY <1>1, <1>2, <2>1, <2>2, LessPaying
  <1> QED
    BY <1>3, <1>4

(* No other step mints a token, or lets a request wait for one. *)
LEMMA OthersPayNothing ==
    ASSUME Audited, [Next]_vars,
           \A w \in Workers : ~LoginAudited(w) /\ ~LoginMint(w)
    PROVE  /\ refresh' = refresh /\ audit' = audit
           /\ \A x \in Workers : pc'[x] = "mintPair" => pc[x] = "mintPair" /\ who'[x] = who[x]
  <1>1. CASE UNCHANGED vars
    BY <1>1 DEF vars
  <1>2. ASSUME NEW w \in Workers, Step(w)
        PROVE  /\ refresh' = refresh /\ audit' = audit
               /\ \A x \in Workers : pc'[x] = "mintPair" => pc[x] = "mintPair" /\ who'[x] = who[x]
    <2>1. pc \in [Workers -> PCs] /\ who \in [Workers -> Ids \cup {None}]
      BY DEF Audited, Inv, TypeOK
    <2>2. CASE LoginRead(w)
      BY <2>1, <2>2 DEF LoginRead, Begin, GoTo, stores
    <2>3. CASE RefreshBegin(w) \/ LogoutBegin(w)
      BY <2>1, <2>3 DEF RefreshBegin, LogoutBegin, BeginWith, Begin, GoTo, stores
    <2>4. CASE RefreshNotRevoked(w) \/ RefreshRead(w)
      BY <2>1, <2>4 DEF RefreshNotRevoked, RefreshRead, Read, GoTo, stores, work
    <2>5. CASE RefreshMint(w)
      BY <2>1, <2>5 DEF RefreshMint, Answer, GoTo, stores
    <2>6. CASE \/ LoginRefused(w) \/ RefreshRevoked(w) \/ RefreshWithoutRedis(w)
               \/ RefreshRefused(w) \/ LogoutWithoutRedis(w) \/ Answered(w) \/ Abort(w)
               \/ LogoutRevoke(w)
      BY <2>1, <2>6 DEF LoginRefused, RefreshRevoked, RefreshWithoutRedis, RefreshRefused,
         LogoutWithoutRedis, Answered, Abort, LogoutRevoke, Finish, GoTo, stores
    <2> QED
      BY <1>2, <2>2, <2>3, <2>4, <2>5, <2>6 DEF Step
  <1>3. CASE (\E u \in Ids : SaveAccount(u)) \/ RedisToggles \/ Tick
    BY <1>3 DEF SaveAccount, RedisToggles, Tick, work
  <1> QED
    BY <1>1, <1>2, <1>3 DEF Next

LEMMA NextAudited == Audited /\ [Next]_vars => Audited'
  <1> SUFFICES ASSUME Audited, [Next]_vars, NEW u \in Ids PROVE AuditedOf(u)'
    BY NextInv DEF Audited
  <1>1. CASE \E w \in Workers : LoginAudited(w)
    BY <1>1, AuditKeeps
  <1>2. CASE \E w \in Workers : LoginMint(w)
    BY <1>2, MintKeeps
  <1>3. CASE \A w \in Workers : ~LoginAudited(w) /\ ~LoginMint(w)
    <2>1. /\ refresh' = refresh /\ audit' = audit
          /\ \A x \in Workers : pc'[x] = "mintPair" => pc[x] = "mintPair" /\ who'[x] = who[x]
      BY <1>3, OthersPayNothing
    <2>2. MintedBy(u)' = MintedBy(u) /\ Paying(u)' \subseteq Paying(u)
      BY <2>1 DEF MintedBy, Paying
    <2> QED
      BY <2>1, <2>2, LessPaying DEF Audited, Inv, TypeOK
  <1> QED
    BY <1>1, <1>2, <1>3

(* Every refresh token of an account answers to an audit row of its own:   *)
(* record_login_audit commits before the pair is minted, so a request that *)
(* dies in between leaves a row too many, never one too few.               *)
THEOREM SessionsAreAudited == Spec => []EverySessionAudited
  <1>1. Audited => EverySessionAudited
    <2> SUFFICES ASSUME Audited, NEW u \in Ids
                 PROVE  Cardinality(MintedBy(u)) <= audit[u]
      BY DEF EverySessionAudited
    <2>1. /\ Cardinality(MintedBy(u)) \in Nat /\ Cardinality(Paying(u)) \in Nat
          /\ audit[u] \in Nat /\ AuditedOf(u)
      BY FS_CardinalityType DEF Audited, AuditedOf, Inv, TypeOK
    <2> QED
      BY <2>1 DEF AuditedOf
  <1> QED
    BY <1>1, InitAudited, NextAudited, PTL DEF Spec

=============================================================================
