# Verification of auth-profile-service

TLA+ models of the service's own logic, model-checked with TLC, and theorems
about them checked by TLAPS. The source is the reference: every definition that
stands for code names its lines in `PROJECT.json` ("map"); paths below are under
`src/app/`.

## 1. The system

One FastAPI process, any number of replicas, one PostgreSQL database in READ
COMMITTED, Redis, Kafka. Every request and every background loop is a coroutine;
between two awaits it runs alone in its process, and at each await anything may
happen: another request, another replica, a cancelled client, a crash.

| Component | State | Operations | Talks to |
|---|---|---|---|
| auth domain (`domain/auth`) | an account's state and role, a role request's status | register, approve, reject, ban, unban, change role; create, approve, reject a role request; who may do what | raises events |
| account and role use cases (`application/use_cases/auth`) | a database session per request, the objects built from it | RegisterUser, ApproveRegistration, BanUser, GrantRole, RequestRole, DecideRoleRequest | user repository |
| user repository (`infrastructure/db`) | `users`, `role_requests`, `login_audit`, `outbox` | save, save_role_request, record_login_audit, the queries | PostgreSQL; writes state and outbox in one transaction |
| outbox dispatcher (`infrastructure/messaging/outbox_dispatcher.py`) | a batch of rows per replica; `outbox.status` | poll, publish, mark | outbox table to Kafka |
| consumer loop (`kafka_consumer_base.py`, `envelope.py`) | group offset, position, attempt | fetch, handle with retries, give up, commit | Kafka to projectors |
| read models (`use_cases/profile/*_projector.py`, `profile_repository.py`) | `profiles`, `owned_games`, `owned_items`, `top_posts` | grant, revoke, hide, unhide; add item; upsert post; create profile | database |
| sessions (`login`, `refresh_token`, `logout`, `jwt_provider`, `redis_token_blacklist`) | tokens in clients' hands, Redis keys that expire, the audit table | login, refresh, logout | database, Redis |
| presence (`presence_ws_controller`, `update_presence`, `redis_presence_store`) | sockets, a 30 s Redis key per account | heartbeat, timeout, publish PresenceChanged | Redis, Kafka |
| recipients (`find_recipient`, `suggest_recipients`) | none | exact and prefix search over active accounts | database |
| life cycle (`main.py`, `bootstrap.py`, `topics.py`) | which loops run, whether the database is seeded | start, seed, readiness, shutdown | everything |
| listings, controllers, DTOs, middleware, metrics, configuration | none that outlives a call | | |

### What is hard, and what makes each part correct

* **Accounts.** Guards are evaluated on an object read in one statement and
  written back after other awaits, with no lock and no version. Correct means: no
  two accounts per address; only moderators moderate, and their authority has an
  origin although it is read from a token that may be stale; the table never has
  a role or state that no event told of; an approved request has had its role
  granted across two commits; and, while requests do not overlap, the state
  machine of `enums.py`.
* **Outbox.** Several replicas publish the same rows with no lock, any publish or
  update may fail, a process may die between a publish and its mark. Correct
  means: what is published was committed, what is marked was published,
  everything committed is marked in the end, copies are bounded and an
  account's first copies come in order.
* **Consumers.** At-least-once delivery, rebalances that overtake a running
  handler, retries, giving up. Correct means: nothing committed that was not
  handled, nothing applied twice, nothing at the head that blocks the rest.
* **Sessions.** A token and its blacklist key expire by two different clocks'
  arithmetic; an account may change between the read and the answer. Correct
  means: an answer speaks of an account that was entitled to it during the
  request; every session has its audit row; a signed-out token is refused.
* **Profiles.** An account's profile row is created by whichever of four consumer
  groups (accounts, purchases, trades, reactions) is first, and only the first of
  them is told a name for it. Items are inserted without
  a check. Correct means: a row's name is decided once, by an event that really
  was there, and its owner's picture is kept; every registered account gets its
  row; no item is missing, and none is too many without a fault to account for it.
* **Recipients.** What people type becomes a `LIKE` pattern. Correct means: the
  accounts suggested are those whose address or name begins so, and an address
  that is picked from the list finds that account.
* **Presence.** Several tabs of one account share one Redis key and know nothing
  of each other. Correct means: online as long as one answered tab lives,
  offline in the end when none does, announced no more often than tabs see it
  offline.
* **Start and stop.** Replicas start on one database at once and may die at any
  step. Correct means: one schema, one administrator, and a lost race or an
  outage costs one start, never the service.

All hazards, at their lines, are in `PROJECT.json` ("hazards").

## 2. The modules

| Module | Models | Composes |
|---|---|---|
| `AuthDomain` | enums, role policy, `User`'s transitions, events | |
| `AccountLifecycle` | abstract: accounts and role requests as atomic operations that announce what they do | `AuthDomain` |
| `Accounts` | the six use cases and the repository, split at their awaits | `AuthDomain`, `INSTANCE AccountLifecycle` |
| `Recipients` | suggestions and lookup, over the accounts of `Accounts` | `Accounts` |
| `AccountsProofs` | theorems about `Accounts` and `Recipients` | |
| `Relay` | abstract: what an outbox promises | |
| `Outbox` | writers, dispatchers of several replicas, the topic | `INSTANCE Relay` |
| `OutboxProofs` | theorems about `Outbox`, and about `Lifespan`, the processes that run its dispatchers | |
| `Sessions` | login, refresh, logout, the blacklist, time | `AuthDomain` |
| `SessionsProofs` | theorems about `Sessions` | |
| `ConsumerLoop` | a topic's consumer group and the loops of its members, as operators on a record | |
| `ConsumerLoopProofs` | what each of those operators keeps | |
| `Library` | `LibraryProjector`, hiding, what a profile shows, `UserSyncProjector` | `ConsumerLoop` |
| `LibraryProofs` | theorems about `Library` | `ConsumerLoopProofs` |
| `Profiles` | `UserSyncProjector` behind the outbox, `InventoryProjector`, `set_avatar` | `ConsumerLoop` twice, `INSTANCE Relay` |
| `ProfilesProofs` | theorems about `Profiles` | `ConsumerLoopProofs` |
| `TopPosts` | `TopPostsProjector`, `upsert_top_post`; the aggregate's `upsert_top_posts` as the reference | `ConsumerLoop` |
| `TopPostsProofs` | theorems about `TopPosts` | `ConsumerLoopProofs` |
| `Presence` | the WebSocket handlers of one account's tabs, `UpdatePresenceUseCase`, the key, time | |
| `PresenceProofs` | theorems about `Presence` | |
| `Lifespan` | `lifespan`, the seed, the adapters' start and stop, readiness, outages | |
| `MC*` | constants for TLC | one each of the above |

An operator whose comment begins "Faulty variant" is no part of a model: it is
what the definition after it would be with a plausible bug, and exists to show
that a property notices.

### Accounts

`users`, `requests` and `outbox` are the tables; `pc`, `user`, `event`, `row`,
`ask` and `askRow` are what a request's coroutine holds. An update is three
steps. *Read*: the use case builds a domain object and runs its guards. *Load*:
`save()` calls `session.get` again. The session's identity map holds rows weakly
and the row behind the domain object is already unreferenced, so this is a second
SELECT, which may see another request's commit. *Commit*: the unit of work
writes the columns in which the object differs from the row *just loaded*
(`MergeUser`), with the outbox rows. An approval of a role request (`ReadGrantee`)
runs those three steps on the account and then two on the request, in a second
transaction. Any step may be the last (`Abort`).

`held` is a history variable: the roles an account has had while it could sign
in. It over-approximates the unexpired access tokens in its hands: a token
carries a role of its past, whatever the table says now (`security_deps.py`
reads the claim and no row). `Sessions` justifies it: a login or refresh that
overlaps a change may still mint the old role.

Fresh ids (uuid4) are chosen outside the table and outside every running request.

### Outbox

A row is `open` in a writer's transaction with the stamp of its insert, and
becomes PENDING at the commit. (The unit of work flushes the outbox INSERT
before the UPDATE of `users`, so the row lock of the account does not order the
stamps; `MaxOpen = 1` is the case where an account's transactions do not
overlap.) A dispatcher's `Poll` selects the first `BatchSize` undispatched rows
by stamp, without locking. It then publishes and marks row by row, each mark
being its own commit. A failed publish or update rolls back. That ends the
batch if no row of it has been committed yet, because the rollback expires every
object and the next attribute access raises. Otherwise the loop goes on with the
next row, because there was no transaction left to roll back. `Relay`'s
`Publish` and `MarkDispatched` are the only things a consumer and the table can
see.

### Sessions

Time advances in fractions (`Second` ticks per second). A token's `exp` is whole
seconds (`int(timestamp)` in PyJWT) and is compared with the fractional clock; the
blacklist key lives for `int(exp - time.time())` seconds. A login reads the
account, checks the password in a thread, writes the audit row and mints; a
refresh looks up the blacklist, reads the account and mints; a logout computes
the lifetime and writes the key. Redis may be away at any moment; a key already
written stays until it expires.

### Recipients

A text is a sequence of characters, because `%`, `_` and `!` mean something in the
pattern that is made of it: `LikeFragment` escapes them in the order of the code,
and `ILike` is what PostgreSQL does with the result. Which accounts a query is to
find is stated without a pattern (`StartsWith`). Both requests are one SELECT
over the committed table, so they are operators of the state of `Accounts`, read in
every state that its requests lead to: accounts that are pending, banned or
have just come back are part of the question. The database's collation is a
constant (`Place`), and ties may be listed in any order.

### ConsumerLoop

A module that reads a topic keeps one record per topic: the committed `offset`,
the `member` that has the partition, and of every replica where its loop stands
(`pc`), the message in its hands (`at`), the `attempt` and whether it still has the
partition it fetched from (`mine`). `done` and `givenUp` are history. The
operators are the transitions of `KafkaConsumerBase`: `Fetched`, `Handled`, `Raised`
(another attempt, or `GivenUp` at `MaxRetries`), `Committed`, `CommitRaised` (the commit
of an offset raising, whether the group has it or not: `_run_loop` ends), `Crashed`.
`Assigned` is the coordinator: it gives the partition to any live replica at any
time, from the committed offset, and the replica that loses it is not
interrupted. A commit of a replica that has lost the partition sends nothing.

A replica whose loop has ended leaves the group in time (aiokafka's
`max_poll_interval_ms`), which is modelled as at once. A message that is not JSON
ends the loop in the same way, in the deserializer, and is not modelled separately.
Message types that nobody routes only move the offset and are left out.

### Library

`log` is the one partition of `game-events`; the catalog alternates grants and
revocations of a key and may publish a malformed message. The handler of a
grant is `HandleGranted` (profile row), `OwnsGame` (check), `AddOwnedGame`
(insert), each its own transaction. Any step may raise before it commits
(`HandlerFails`) or after, when the answer is lost (`Answered`). `Shown` is what
`GET /profile/{id}` answers to the owner and to anybody else.

### Profiles

`user-events` is filled by the outbox of `Relay`, so a registration may be
published late, repeatedly, and again after others; `trade-events` belongs to the
marketplace and holds any sequence of messages from the start. Each topic has its own
group, so nothing orders the two. The handler of a trade message is two
transactions: `HandleTrade` creates the row under no name if it is missing, and
`AddOwnedItem` inserts. A message without an item is noticed between them
(`TradeWithoutItem`), one without a user before (`TradeWithoutUser`). Of an item
the model keeps which message it came with. `SetAvatar` reads the row and writes it
back in one request; the unit of work writes the columns that differ, and no
other request of another account touches that row. `Blank` names the empty text.

### TopPosts

The topic holds its messages from the start (every sequence of them is an initial
state) and never changes. The handler is the profile row, the lookup, the upsert
and its commit, the read of the shelf, the trim and its commit. `own` and `seen`
are what the session remembers: `expire_on_commit` is off, so after the first
commit the row the lookup found still has the rank it was read with, and the unit of
work writes only what differs from that. An UPDATE whose row another handler has
deleted raises (StaleDataError), and after a rebalance the lookup may find two
rows and raise (MultipleResultsFound). A reaction that lacks a field raises at every
attempt, before or after the profile row, and is given up: it is a message whose
handler fails each time (`HandlerFails`), so no malformed message is written out.
The run has one such failure, the theorems any number, and `LikeTheAggregate` says
nothing once a message has been given up. `Upserted` is the aggregate's own method,
which the service does not call; `LikeTheAggregate` compares the two.

### Presence

A tick is about ten seconds. `waited` is how long a handler has been in a
`wait_for` or an `execute()`. `Tick` waits for what asyncio does at once (take up
a frame, fire a timer, notice a closed connection), for calls, which take at most
`Delay`, and for the heartbeat of a tab that is alive, which is due every
`Interval`. `Interval + Delay < TTL` is an assumption about clients and the network: the
heartbeat after the last reaches the key in time. `Delay + Delay < TTL` is one about
calls: a heartbeat that came in while the handler was still busy with the one before
is set only after that call and its own. (Without it TLC finds an answered, living
tab offline, with a key of 4 ticks, a heartbeat in each and calls of 2.) The code
names 10 s (`HEARTBEAT_EXPECTED_INTERVAL`) and 30 s. Nothing in the
repository makes a client, or Redis, keep them. Redis is taken to keep its keys until they expire.

### Lifespan

A `stage` is a statement of `lifespan` that awaits something. (The module's names
are its own, `LifespanSpec` and not `Spec`, so that one module can state theorems
about it and about `Outbox`.) `create_all`
looks and creates in one transaction, and PostgreSQL's catalog makes the slower of
two creators fail. A failing step ends the process (`Exits`), and the orchestrator
may start it again at any time (`Boot`). `ended` are consumers whose loop an
exception has ended (`ConsumerLoop!CommitRaised`): `stop()` awaits their task and
raises, so the shutdown ends there. `Stored` is the configured address in the
form in which the account is stored.

## 3. What the runs show

| Run | Question | Answer | Bounds |
|---|---|---|---|
| `accounts_races` | What survives any overlap of two requests and any death? | `TypeOK`, `EverythingTold`, `AuthorityHasOrigin`, `SupportGrantsWhatWasAsked`, `ApprovedMeansGranted`, `EmailUnique`, `OnlyLeftoversUndecided` | the administrator, one leftover PENDING account, two accounts to be registered with one address typed two ways, one role request, 2 workers; no request starts after 3 events (`MaxEvents`), except the decision of a role request, which still starts after the third (`MaxDecided = 4`) |
| `accounts_serial` | Do requests served one at a time implement the atomic specification? | Yes: refinement of `AccountLifecycle` (`LifecycleSpec`); a replay of the outbox is the table (`ReplayIsTable`); and in each of those tables suggestions and lookup find what they promise (`SuggestionsHold`) | 1 worker, dying anywhere; 4 events; queries with every special character, lists of at most 1 |
| `accounts_lost_ban` | Is a ban kept when requests overlap? | **No** (section 5) | 2 workers |
| `outbox_replicas` | Two dispatchers, overlapping transactions, one fault of any kind? | `TypeOK`, `CopiesBounded`, `Relay` is implemented (`PromiseSpec`), everything is dispatched (`EverythingDispatched`), and until something fails only transactions that flush and commit in different orders are read out of order (`OrderKept`) | 3 rows of 2 accounts, batches of 2 |
| `outbox_reorder` | Is an account's order kept without the "until something fails"? | **No** | 1 dispatcher, no overlap, 1 fault |
| `sessions_races` | Two overlapping calls by one account that is banned, reinstated and given roles meanwhile, with deaths and Redis coming and going? | `TypeOK`, `AnswersAreCurrent`, `EverySessionAudited`, `LogoutHoldsToTheLastSecond` | tokens of 2 half seconds, 5 ticks: expiry, issue and revocation each fall inside a second |
| `library_group` | Two replicas, a rebalance that overtakes a handler, one fault, malformed messages? | `TypeOK`, `AtLeastOnce`, `CatchesUp`; and while no rebalance takes the partition from a live replica `RedeliveryAddsNothing`, `FollowsCatalog`, `HiddenStays` | 3 messages of one game |
| `library_duplicate` | Is a game in the library once, after such a rebalance? | **No** | 1 rebalance, no fault |
| `topposts_group` | Two replicas, any three reactions to three posts with two scores on a shelf of two, and one crash, failing call or commit, lost answer or rebalance? | `TypeOK`; and while no rebalance takes the partition from a live replica `OnceOnShelf`, and `LikeTheAggregate` unless a message was given up | 2 attempts instead of 3, one fault or rebalance; posts and replicas symmetric |
| `profiles_naming` | An account that registers, any two trade messages, whole or lacking something, two replicas, and one crash, failing call or commit, lost answer or rebalance? | `TypeOK`, `ItemsAccountedFor`, `FirstWordNames`, `EveryoneGetsAProfile` | 1 account, 2 attempts, 2 publishes of a registration |
| `presence_tabs` | Two tabs that come, fall silent, go and come back, with one failing call? | `TypeOK`, `StaysOnline`, `AnnouncementsBounded`, `SilentGoesOffline` | key 3 ticks, heartbeat 1, a call 1 |
| `lifespan_starts` | Two full replicas and a bare one start at once on an empty database? | `LifespanTypeOK`, `ReadyIsSeeded`, `AdaptersUsable`, `EveryReplicaServes` | 2 crashes, redeployments, ended loops or outages; the configured address is in lower case |

*Why the bounds are enough.* Every race found in the code is between two actors:
two workers, two dispatchers, two consumers are the smallest number that shows
them, and the theorems of section 4 remove the bound for every safety
property. Three events are enough for an account to be changed by a moderator
whose role was itself granted. A decision has a bound of its own because it needs
one event more: an account is registered or approved, is made SUPPORT, a role
request is stored, and only then does this SUPPORT decide it, with a RoleGranted
as the fourth. Three outbox rows of two accounts fill a batch of
two and leave one behind. Three messages are grant, revoke and grant again of a
game, or a malformed one among them. A second game adds nothing: a message
touches the rows of its own game only. In `Profiles` one account is enough for the
same reason, and two trade messages let one be committed while the other is
redelivered; with three attempts and two faults one message was checked. The lists of
`Recipients` are cut at one account, so that the cut happens with three; the code
cuts at 8. `MaxRetries` is the code's 3, and 2 in `TopPosts` and `Profiles`, where
one fault and the handler's own exceptions already reach the giving up. A shelf
of two places has a first, a last and one that falls out.

*Deadlock.* Checking it is switched off: a bounded service with no request left
to serve stops, and a service that is up has nothing more to start. `Presence`
checks it: there time always passes.

*Fairness.* Only where a loop of the code runs by itself. `Outbox!Fairness`: a
dispatcher's loop always goes on (`_run_loop` catches everything and polls
again) and faults are finitely many; nothing is assumed of writers, which may
stay open for ever. `Library!FairSpec`: a running loop goes on, and the
coordinator gives a partition that nobody has to a live consumer; nothing is
assumed of the catalog, of owners or of rebalances. `Profiles!FairSpec`: the same
of both topics, and the first publish of a registered account, which is what
`Outbox!EverythingDispatched` shows of the dispatcher. `Presence!LiveSpec`: the event
loop runs every handler that can go on, time passes, and a tab that is alive sends
its heartbeat before time passes it by. `Lifespan!LifespanLiveSpec`: `lifespan` runs on, and
the orchestrator starts what is down; that the database and the broker are up in
the end is a premise of the property. The other modules have safety properties
only.

## 4. What is proved

| Theorem | Says | Argument |
|---|---|---|
| `AccountsProofs!TypeCorrect` | `TypeOK` of `Accounts`, for any number of accounts, requests and workers | Inductive with `Control`: what a worker holds at each `pc`. |
| `AccountsProofs!AddressesUnique` | `EmailUnique` | Inductive with types: a merge keeps the address, an insert finds it free in the same step. |
| `AccountsProofs!AuthorityTraced` | `AuthorityHasOrigin` | Every role in `held` above BASIC was told by an event or is the administrator's; the actor in a worker's pending event or decision is one of those, and the outbox only grows. |
| `AccountsProofs!RegisteredStayDecided` | `OnlyLeftoversUndecided` | The same must hold of every object and loaded row of every worker, since `MergeUser` writes a column of one over another. |
| `AccountsProofs!TableIsTold` | `EverythingTold` | Of every object: its role and state were told, or are what its pending event will tell; of every loaded row: told. A merge then writes only told values. |
| `AccountsProofs!ApprovedIsGranted` | `ApprovedMeansGranted` | `Decisions`: a worker between the two commits of an approval has its grant in the outbox, or in the event it is about to commit, for the account and role of the request it holds. |
| `AccountsProofs!SupportGrantsRequests` | `SupportGrantsWhatWasAsked` | `Grants`: the pending RoleGranted of one who was never an administrator is that of a stored request, and a stored request never changes its account or role. |
| `AccountsProofs!SerialImplementsLifecycle` | With one worker, `Accounts` implements `AccountLifecycle` | `Serial`: what the one worker holds is what the table has, so each commit is an atomic operation and every other step a stutter. |
| `AccountsProofs!SerialReplayIsTable` | With one worker, `ReplayIsTable` | Of the atomic operations: each that changes a role or a state appends the event that says so, and no other appends one about it. |
| `AccountsProofs!SerialOnlyUnban` | With one worker, `OnlyUnbanReactivates` | From the refinement: of the atomic operations only `unban` leaves BANNED. Section 5 shows it false for two workers. |
| `AccountsProofs!SuggestionsResolve` | `SuggestionsHold` of `Recipients`, for any texts and any length of the list | Escaping is followed character by character: in what the three `replace` leave (`FragmentEscapes`) each character of the query has a place, after a `!` if it is special. Of any such pattern, from each of those places, `ILIKE` fits exactly where the text goes on as the rest of the query does (`SpelledFits`). Uniqueness of addresses gives the lookup. |
| `OutboxProofs!TypeCorrect` | `TypeOK` of `Outbox` | With the shape of a dispatcher's batch. |
| `OutboxProofs!KeepsPromise` | `Outbox` implements `Relay` | A row in a batch has been committed and, where the dispatcher is about to mark, published. |
| `OutboxProofs!CopiesAreBounded` | `CopiesBounded` | `Budget`: the copies of a row and the dispatchers that may still publish it are together no more than dispatchers and faults; a mark takes the row from every later batch, and only a fault gives a dispatcher a second try. |
| `OutboxProofs!OrderIsKept` | `OrderKept` | `Known` and `Ordered`: until a fault, what a batch lacks of the older committed rows of an aggregate has been published, because `ORDER BY` and `LIMIT` took the first. |
| `SessionsProofs!TypeCorrect` | `TypeOK` of `Sessions` | With `SessionOf`: what a call holds at each `pc`. |
| `SessionsProofs!AnswersStayCurrent` | `AnswersAreCurrent` | `SessionOf`: the row a call holds is among those its account has had since the call began, and what it answers is made from it. |
| `SessionsProofs!LogoutHolds` | `LogoutHoldsToTheLastSecond` | `RevokedLong`: a signed-out token's key reaches into the token's last second. It is written from a lifetime computed earlier, and time only moves its end later, so every key that replaces it reaches there too. |
| `SessionsProofs!SessionsAreAudited` | `EverySessionAudited` | The tokens of an account and the calls that have an audit row and no token yet are together no more than the rows; a call mints from its own row. |
| `LibraryProofs!TypeCorrect` | `TypeOK` of `Library` | Inductive with `LoopInv` and with what each handler's `pc` says of its message. |
| `LibraryProofs!CommittedIsHandled` | `AtLeastOnce` | A conjunct of `LoopInv`. |
| `LibraryProofs!GrantedOnce`, `CatalogFollowed` | `RedeliveryAddsNothing`, `FollowsCatalog` | `Calm`: with `moves = 0` one handler runs at a time and holds the message after the offset; so a game that was looked up as missing still is at the insert, and the table is what the catalog had said before that message or after it, and after it at the commit. |
| `LibraryProofs!HiddenIsKept` | `HiddenStays` | From `Calm`: no insert touches a game that has a row. |
| `ProfilesProofs!TypeCorrect` | `TypeOK` of `Profiles` | With `LoopInv` of both topics, and that only registered accounts are on `user-events`. |
| `ProfilesProofs!ItemsArrive` | `NoItemMissing`: the half of `ItemsAccountedFor` that needs no counting | A handler before its insert has its profile row; a message that some handler returned from has its item; rows are never deleted. |
| `ProfilesProofs!InventoryAddsUp` | `ItemsAccountedFor` | `CountInv` adds to the rows of a message those its handlers may still insert and the delivery that is due. A fault or a rebalance makes that sum exceed one for at most one message more, since only the message after the committed offset is delivered again. |
| `ProfilesProofs!NameIsKept` | `FirstWordNames` | From the same invariant: only an absent row is created, and only by a handler that holds its event. |
| `OutboxProofs!LifespanTypeCorrect` | `LifespanTypeOK` | Inductive with `ReplicaShape`: what a replica may rely on at each step. |
| `OutboxProofs!SeededWhenReady` | `ReadyIsSeeded` | A migrating replica past the seed has tables and one administrator; both only ever come to be, so no other replica takes them away. |
| `OutboxProofs!AdaptersStayUsable` | `AdaptersUsable` | The dispatcher is started after the producer and every exit drops both; consumers are a prefix of the list, started after the topics or after their failure. |
| `TopPostsProofs!TypeCorrect` | `TypeOK` of `TopPosts`, for any number of posts, replicas and messages | Inductive with `LoopInv` and `Sessions`: a session has a row only once its lookup is made, and it is a row its lookup could have found. |
| `TopPostsProofs!OncePerPost` | `OnceOnShelf` | `Calm`: with `moves = 0` one handler runs at a time, so what its lookup found is still so at the upsert; and there is one row for each post. |
| `TopPostsProofs!FollowsAggregate` | `LikeTheAggregate` | `Progress`: between two commits of the offset the table is a shelf the aggregate may have had before the next message (`Clean`), or holds some of what that message leaves to choose from, the best of it among them (`Kept`). The upsert leads to `Kept` from either, the trim from `Kept` to the next `Clean`; so a death between the two transactions and a redelivery end where one delivery would. |
| `PresenceProofs!TypeCorrect` | `TypeOK` of `Presence` | With `Timers`: what bounds the wait of a handler at each `pc`. |
| `PresenceProofs!AlwaysOnline` | `StaysOnline` | `Refreshed`: of every answered living tab, what is left of the key is at least what may pass until its next set: the rest of the interval and of the call, or of the call in progress and the one after it. |
| `PresenceProofs!AnnouncedOncePerTab` | `AnnouncementsBounded` | The announcements made and the handlers that have read the account as offline are together no more than the tabs, once it is online. |

`LoopInv` (`ConsumerLoopProofs`) is why nothing is skipped. That the committed offset is
covered by `done` is not inductive: it says nothing of what a replica is about to
commit. `LoopInv` adds that a replica which has had the partition since its fetch
holds the message right after the committed one, is the only such replica, and
stands at its commit with that message done. Each operator has a lemma, which
the modules with a topic cite; they prove only what their own tables add. `Alone`
is the same for groups whose partition was never taken from a live replica.

Assumptions are the modules' `ConstantsOK`, `LifespanConstantsOK`, `LoopConstantsOK`,
`NoneIsNew`, `NoneIsNoRow` and `TextsOK`: the constants have their types, the seeded
accounts have distinct addresses, a message has at least one attempt, `None` is no
value, what is counted is finite (rows, dispatchers, tabs, replicas, accounts); and of
texts, that `lower()` neither makes nor changes a blank or a character `LIKE` knows,
and that an address has an `@`, no blank and no capitals, which is how a registration
stores it. TLC evaluates them in every run. The theorems named `Serial...` assume
besides that there is one worker, and section 5 says why.

`EverythingTold` is the strengthening that makes lost updates bearable: it is
not inductive without saying what every *held object* may contain, because
`save()` may write any of them at any later time.

*Recursion.* `FlattenSeq`, the match of `ILike` and `TopPosts!Shelves` are functions
defined by recursion. What they compute is proved for every input from one fact,
that a set of numbers has a least one (`LeastNumber`, from the library's
well-founded orders): a function with the defining
equation exists, because there is no least bound up to which it does not
(`JoinsExists`, `FitsExists`, `FollowsExists`), and then there is no first place where
it is not what is claimed.

*Model-checked only*: liveness everywhere, since TLAPS has no fairness or ENABLED:
`EverythingDispatched`, `CatchesUp`, `EveryoneGetsAProfile`, `SilentGoesOffline`,
`EveryReplicaServes`. Every safety invariant, action property and refinement that
a passing run checks is a theorem.

## 5. Where the code and its documentation disagree

Three are runs that TLC refutes; quotations are in `PROJECT.json` ("findings").

* **A ban undone by a lost update** (`accounts_lost_ban`): a role grant that read
  the account before a ban, and saves it after, writes ACTIVE back and announces
  only the role. By the same `save()`, of two moderators who both read a leftover
  account as PENDING the later turns REJECTED into ACTIVE.
* **Order of events** (`outbox_reorder`): a failed publish lets the account's next
  event overtake. `OrderKept` names the other way: `created_at` is stamped before
  the row lock, so overlapping transactions may commit in the other order.
* **Duplicate games around a rebalance** (`library_duplicate`): the check and the
  insert are two transactions, and no unique index helps; in the same way a row
  may be inserted after the revocation that should have removed it.

The models contain more, each as behaviour of an action and the reason for a
condition in a property, without a run of its own:

* A broker that is away at boot ends the start (`Lifespan!NoBroker`): `ensure_topics`
  swallows the failure so that the service comes up without Kafka (`topics.py:56`),
  but the producer before it raises (`main.py:73`).
* Of two moderators who decide one role request at once, the later decision
  replaces the earlier: with two workers `LifecycleSpec` does not hold, and a request
  may end as rejected although its role was granted.
* A refresh that passed the blacklist before a sign-out of the same token answers
  with an access token after it (`late` in `LogoutHoldsToTheLastSecond`).
* A signed-out token is accepted again in its last fraction of a second: its
  key's lifetime is cut to whole seconds (`LogoutHoldsToTheLastSecond`).
* `is_revoked()` raises when Redis is away, so every refresh answers 500
  (`Sessions!RefreshWithoutRedis`), where `main.py:219-222` says that losing Redis
  leaves only a logged-out token valid.
* A `commit()` of an offset that raises ends the loop (`ConsumerLoop!CommitRaised`), and
  later the shutdown, at the first such loop: dispatcher and producer are not stopped
  (`Lifespan!StopConsumer`).
* A profile that a purchase or a trade creates before its registration is handled
  keeps an empty name (`CreateIfMissing`), and a trade message that lacks its item
  leaves such a profile behind (`Profiles!TradeWithoutItem`).
* A redelivered trade message inserts its item again: `ItemsAccountedFor` allows one
  row too many for each fault.
* A message on a topic that is not JSON raises outside the retry
  (`kafka_consumer_base.py:38`): the loop ends, and again at every later start.
* An account whose display name has surrounding blanks or an `@` in it is found by no
  exact name, since what is typed is stripped and an `@` makes it an address
  (`Recipients!FindRecipient`, `find_recipient.py:36-46`); its address still finds it.
* After a rebalance a post may be on the shelf twice, every later reaction to it
  is given up, and the shelf may stay too long (`moves = 0` in `OnceOnShelf`).
* A heartbeat that arrives as the key expires finds it, and sets it again after
  the expiry: the account was offline for a moment and is not announced
  (`Presence!SetOnline`). Going offline is announced by nobody.
* With a configured address that is not in the stored form the second start of the
  service finds no administrator, inserts one and fails on the unique index, and
  so does every later one (`Lifespan!LookForAdmin`, `Stored # AdminEmail`).

## 6. What is not modelled, and the plan

Not modelled because nothing in it can go wrong over several steps: listings,
controllers, DTOs, errors, observability, configuration. The consumer of
`wallet-events` reads an account and writes a log line; its loop is
`ConsumerLoop`'s. Signatures, password hashes and UUIDs are taken as sound. Rate
limits are metrics only.

Worth doing next: the leads-to properties as proofs, when the prover has fairness;
and a `Profiles` in which `user-events` is read from `Outbox` itself instead of its
abstraction `Relay`, which would be a run of its own.
