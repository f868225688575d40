-------------------------------- MODULE Library --------------------------------
(***************************************************************************)
(* The game library of the profile read model: the catalog's ownership     *)
(* events, as the consumers of all replicas project them, and the owner's  *)
(* hiding of games.                                                        *)
(*                                                                         *)
(* game-events is read by the loops of ConsumerLoop.                       *)
(*                                                                         *)
(* The handler of a grant is three transactions: the profile row, the      *)
(* check that the game is not there yet, the insert.  No unique index      *)
(* backs the check.                                                        *)
(*                                                                         *)
(* A key is an owner and a game.  Other event types are routed to nobody   *)
(* and only move the offset; they are left out.                            *)
(***************************************************************************)
EXTENDS ConsumerLoop, Sequences, FiniteSets

CONSTANTS
    Keys,        \* (owner, game) pairs
    Owners,      \* accounts
    OwnerOf,     \* Keys -> Owners: payload["owner_id"]
    MaxLog,      \* bound: messages on game-events
    MaxFaults,   \* bound: failing handlers, failing commits and crashes
    MaxMoves,    \* bound: rebalances that move the partition
    MaxRows      \* bound: ids of library rows

ASSUME ConstantsOK ==
    /\ OwnerOf \in [Keys -> Owners]
    /\ MaxLog \in Nat /\ MaxFaults \in Nat /\ MaxMoves \in Nat /\ MaxRows \in Nat
    /\ None \notin Keys

ASSUME NoneIsNoRow == None \notin [key: Keys, hidden: BOOLEAN]

VARIABLES
    log,        \* the partition of game-events
    group,      \* its consumer group
    games,      \* table owned_games: row id -> [key, hidden], or None
    profiles,   \* table profiles: the name an owner's row has, or None
    synced,     \* owners whose UserRegistered has been handled
    faults,     \* how many faults there have been
    moves       \* how many rebalances took the partition from a live replica

vars == <<log, group, games, profiles, synced, faults, moves>>

tables == <<games, profiles, synced>>

Messages == [type: {"OwnershipGranted", "OwnershipRevoked", "Malformed"},
             key: Keys \cup {None}]

Init ==
    /\ log = <<>>
    /\ group = Subscribed(None)
    /\ games = [i \in 1..MaxRows |-> None]
    /\ profiles = [u \in Owners |-> None]
    /\ synced = {}
    /\ faults = 0 /\ moves = 0

-----------------------------------------------------------------------------
(* What the catalog has said *)

(* Whether key is owned after the first n messages. *)
OwnedAfter(key, n) ==
    \E i \in 1..n :
        /\ log[i] = [type |-> "OwnershipGranted", key |-> key]
        /\ \A j \in (i + 1)..n :
              log[j] # [type |-> "OwnershipRevoked", key |-> key]

(* The catalog grants what is not owned and revokes what is, and one of    *)
(* its messages may lack its owner or its game.                            *)
Produce ==
    /\ Len(log) < MaxLog
    /\ \/ \E k \in Keys :
            log' = Append(log,
                [type |-> IF OwnedAfter(k, Len(log)) THEN "OwnershipRevoked"
                          ELSE "OwnershipGranted",
                 key |-> k])
       \/ log' = Append(log, [type |-> "Malformed", key |-> None])
    /\ UNCHANGED <<group, tables, faults, moves>>

-----------------------------------------------------------------------------
(* The consumer group *)

Fault == faults < MaxFaults /\ faults' = faults + 1

Assign(c) ==
    /\ CanTake(group, c)
    /\ \/ group.member = None /\ UNCHANGED moves
       \/ group.member # None /\ moves < MaxMoves /\ moves' = moves + 1
    /\ group' = Assigned(group, c)
    /\ UNCHANGED <<log, tables, faults>>

Fetch(c) ==
    /\ CanFetch(group, c, Len(log))
    /\ group' = Fetched(group, c)
    /\ UNCHANGED <<log, tables, faults, moves>>

Commit(c) ==
    /\ group.pc[c] = "commit"
    /\ group' = Committed(group, c)
    /\ UNCHANGED <<log, tables, faults, moves>>

CommitRaises(c) ==
    /\ group.pc[c] = "commit"
    /\ Fault
    /\ group' \in CommitRaised(group, c)
    /\ UNCHANGED <<log, tables, moves>>

Crash(c) ==
    /\ Fault
    /\ group' = Crashed(group, c)
    /\ UNCHANGED <<log, tables, moves>>

(* A transaction has committed: its answer arrives, or is lost on the way. *)
Answered(c) ==
    \/ group' = Handled(group, c) /\ UNCHANGED faults
    \/ Fault /\ group' = Raised(group, c)

HandlerFails(c) ==
    /\ Handling(group, c)
    /\ Fault
    /\ group' = Raised(group, c)
    /\ UNCHANGED <<log, tables, moves>>

-----------------------------------------------------------------------------
(* LibraryProjector *)

At(c, label) == group.pc[c] = label
Message(c) == log[group.at[c]]
RowsOf(key) == {i \in 1..MaxRows : games[i] # None /\ games[i].key = key}

(* create_if_missing: INSERT ... ON CONFLICT DO NOTHING, committed. *)
CreateIfMissing(u, name) ==
    profiles' = IF profiles[u] = None THEN [profiles EXCEPT ![u] = name] ELSE profiles

HandleMalformed(c) ==
    /\ At(c, "handle") /\ Message(c).type = "Malformed"
    /\ group' = Raised(group, c)
    /\ UNCHANGED <<log, tables, faults, moves>>

HandleGranted(c) ==
    /\ At(c, "handle") /\ Message(c).type = "OwnershipGranted"
    /\ CreateIfMissing(OwnerOf[Message(c).key], "")
    /\ group' = GoesTo(group, c, "look")
    /\ UNCHANGED <<log, games, synced, faults, moves>>

(* Faulty variant: the insert is not preceded by a check. *)
OwnsGameUnasked(c) ==
    /\ At(c, "look")
    /\ group' = GoesTo(group, c, "insert")
    /\ UNCHANGED <<log, tables, faults, moves>>

(* Faulty variant: an upsert, which sets every column of the row. *)
OwnsGameUpsert(c) ==
    LET rows == RowsOf(Message(c).key) IN
    /\ At(c, "look")
    /\ \/ rows = {} /\ group' = GoesTo(group, c, "insert") /\ UNCHANGED games
       \/ /\ rows # {}
          /\ games' = [i \in 1..MaxRows |->
                          IF i \in rows THEN [games[i] EXCEPT !.hidden = FALSE]
                          ELSE games[i]]
          /\ group' = Handled(group, c)
    /\ UNCHANGED <<log, profiles, synced, faults, moves>>

(* owns_game: one row ends the handler, two make scalar_one_or_none raise. *)
OwnsGame(c) ==
    LET found == Cardinality(RowsOf(Message(c).key)) IN
    /\ At(c, "look")
    /\ group' = CASE found = 0 -> GoesTo(group, c, "insert")
                  [] found = 1 -> Handled(group, c)
                  [] OTHER -> Raised(group, c)
    /\ UNCHANGED <<log, tables, faults, moves>>

(* The id of the row is a fresh uuid4: any free one, so the first. *)
AddOwnedGame(c) ==
    \E i \in 1..MaxRows :
        /\ At(c, "insert")
        /\ games[i] = None /\ \A j \in 1..(i - 1) : games[j] # None
        /\ games' = [games EXCEPT ![i] = [key |-> Message(c).key, hidden |-> FALSE]]
        /\ Answered(c)
        /\ UNCHANGED <<log, profiles, synced, moves>>

(* Faulty variant: the projector only ever adds. *)
HandleRevokedIgnored(c) ==
    /\ At(c, "handle") /\ Message(c).type = "OwnershipRevoked"
    /\ group' = Handled(group, c)
    /\ UNCHANGED <<log, tables, faults, moves>>

(* remove_owned_game deletes every row of the key. *)
HandleRevoked(c) ==
    /\ At(c, "handle") /\ Message(c).type = "OwnershipRevoked"
    /\ games' = [i \in 1..MaxRows |->
                    IF i \in RowsOf(Message(c).key) THEN None ELSE games[i]]
    /\ Answered(c)
    /\ UNCHANGED <<log, profiles, synced, moves>>

-----------------------------------------------------------------------------
(* The other writers of these tables *)

(* set_hidden, by the owner: the only row of the game, or nothing. *)
SetHidden(key, hidden) ==
    \E i \in RowsOf(key) :
        /\ RowsOf(key) = {i}
        /\ games[i].hidden # hidden
        /\ games' = [games EXCEPT ![i].hidden = hidden]
        /\ UNCHANGED <<log, group, profiles, synced, faults, moves>>

HideGame(key) == SetHidden(key, TRUE)
UnhideGame(key) == SetHidden(key, FALSE)

(* UserSyncProjector, in its own consumer group, with the name the account *)
(* was registered with.                                                    *)
SyncUser(u) ==
    /\ u \notin synced
    /\ synced' = synced \cup {u}
    /\ CreateIfMissing(u, "registered")
    /\ UNCHANGED <<log, group, games, faults, moves>>

-----------------------------------------------------------------------------

Consume(c) ==
    \/ Fetch(c) \/ Commit(c)
    \/ HandleMalformed(c) \/ HandleGranted(c) \/ OwnsGame(c)
    \/ AddOwnedGame(c) \/ HandleRevoked(c)

Next ==
    \/ Produce
    \/ \E c \in Replicas :
         Consume(c) \/ Assign(c) \/ CommitRaises(c) \/ Crash(c) \/ HandlerFails(c)
    \/ \E k \in Keys : HideGame(k) \/ UnhideGame(k)
    \/ \E u \in Owners : SyncUser(u)

Spec == Init /\ [][Next]_vars

(* A loop that runs goes on, and the coordinator gives a partition nobody  *)
(* has to a consumer that is still there. Nothing is asked of the others.  *)
FairSpec ==
    /\ Spec
    /\ \A c \in Replicas : WF_vars(Consume(c))
    /\ WF_vars(group.member = None /\ \E c \in Replicas : Assign(c))

-----------------------------------------------------------------------------

TablesTypeOK ==
    /\ games \in [1..MaxRows -> [key: Keys, hidden: BOOLEAN] \cup {None}]
    /\ profiles \in [Owners -> {None, "", "registered"}]
    /\ synced \subseteq Owners

(* Every variable has its type. *)
TypeOK ==
    /\ log \in Seq(Messages)
    /\ GroupTypeOK(group, Len(log), {"look", "insert"})
    /\ TablesTypeOK
    /\ faults \in 0..MaxFaults /\ moves \in 0..MaxMoves

(* At least once: a message the group has committed was handled to the end *)
(* or given up by some replica, through every crash and rebalance ("manual *)
(* commit AFTER successful handling", kafka_consumer_base.py:39).          *)
AtLeastOnce == NothingSkipped(group)

(* One row per game an account owns (library_projector.py:9-11).           *)
NoDuplicates == \A k \in Keys : Cardinality(RowsOf(k)) <= 1

(* ... however often a message is redelivered, as long as no rebalance     *)
(* takes the partition from a replica that is alive.                       *)
RedeliveryAddsNothing == moves = 0 => NoDuplicates

(* With no such rebalance, the library is what the catalog had said at     *)
(* some point between the last committed message and the one after it: a   *)
(* redelivered message changes nothing, none is missed unless given up.    *)
FollowsCatalog ==
    /\ moves = 0
    /\ group.givenUp \subseteq {n \in 1..Len(log) : log[n].type = "Malformed"}
    => \E n \in {group.offset, group.offset + 1} :
          /\ n <= Len(log)
          /\ \A k \in Keys : RowsOf(k) # {} <=> OwnedAfter(k, n)

(* GET /profile/{owner} as viewer asks for it, who may be nobody.          *)
Shown(owner, viewer) ==
    {i \in 1..MaxRows : /\ games[i] # None /\ OwnerOf[games[i].key] = owner
                        /\ viewer = owner \/ ~games[i].hidden}

(* A game its owner has hidden is on her own screen and on nobody else's   *)
(* until she unhides it or the catalog takes it away: no redelivery brings *)
(* it back, and none leaves her without the row to unhide                  *)
(* (profile_controller.py:40-49).                                          *)
HiddenBy(k) == RowsOf(k) # {} /\ \A i \in RowsOf(k) : games[i].hidden

OnlyHers(k) ==
    \A viewer \in Owners \cup {None} :
        IF viewer = OwnerOf[k] THEN RowsOf(k) \subseteq Shown(OwnerOf[k], viewer)
        ELSE RowsOf(k) \cap Shown(OwnerOf[k], viewer) = {}

HiddenStays ==
    [][\A k \in Keys : HiddenBy(k) /\ moves = 0 =>
          /\ OnlyHers(k)
          /\ HiddenBy(k)' \/ RowsOf(k)' = {} \/ UnhideGame(k)]_vars

(* Nothing at the head of the topic stops the rest: whatever is published  *)
(* is committed in the end, the messages every attempt fails on included,  *)
(* as long as a replica is left whose loop has not ended.                  *)
CatchesUp == \A n \in 1..MaxLog : Len(log) >= n ~> group.offset >= n

=============================================================================
