------------------------------- MODULE Profiles --------------------------------
(***************************************************************************)
(* How an account gets its profile row and its items: the outbox relays    *)
(* UserRegistered to user-events, where UserSyncProjector creates the row  *)
(* under the account's name, and the marketplace writes to trade-events,   *)
(* where InventoryProjector creates the row under no name if it is first,  *)
(* and adds an item.  The two topics have their own consumer groups, so    *)
(* nothing orders them; a process that dies takes its consumers of both    *)
(* with it.                                                                *)
(*                                                                         *)
(* The handler of a trade message is two transactions: the profile row,    *)
(* and the item, which is inserted without a check.  A message may lack    *)
(* its item, which is noticed between the two, or its user.                *)
(*                                                                         *)
(* Of an item, all that is kept here is the message it came with.  Events  *)
(* that are routed to nobody only move the offset and are left out.        *)
(***************************************************************************)
EXTENDS ConsumerLoop, Sequences, FiniteSets

CONSTANTS
    Users,
    Avatars,     \* what owners set as their picture, after strip()
    MaxTrades,   \* bound: messages on trade-events
    MaxEvents,   \* bound: messages on user-events, duplicates included
    MaxTrouble   \* bound: faults and rebalances

ASSUME ConstantsOK ==
    /\ MaxTrades \in Nat /\ MaxEvents \in Nat /\ MaxTrouble \in Nat
    /\ None \notin Users
    /\ IsFiniteSet(Replicas)

(* The text of a column that holds none. *)
Blank == ""

VARIABLES
    registered,  \* accounts whose registration has committed
    userEvents,  \* topic user-events: whose UserRegistered it is
    relayed,     \* accounts whose outbox row is dispatched
    trades,      \* topic trade-events, which does not change
    group,       \* the consumer groups of the two topics
    profiles,    \* table profiles: user -> [name, avatar], or None
    items,       \* table owned_items: how many rows a trade message has
    faults,      \* failing and unanswered calls, failing commits, crashes
    moves        \* rebalances that took a partition from a live consumer

vars == <<registered, userEvents, relayed, trades, group, profiles, items, faults, moves>>

topics == <<registered, userEvents, relayed, trades>>
tables == <<profiles, items>>

Topics == {"user-events", "trade-events"}

(* ItemGranted and TradeMatched have one handler. *)
Trades == [user: Users, item: BOOLEAN] \cup {[user |-> None, item |-> FALSE]}

Rows == [name: {Blank, "registered"}, avatar: Avatars \cup {Blank}]

ASSUME NoneIsNoRow == None \notin Rows

(* Only what may be published is asked of the outbox. *)
Outbox == INSTANCE Relay WITH Rows <- Users, committed <- registered,
                              log <- userEvents, dispatched <- relayed

Init ==
    /\ Outbox!Init
    /\ trades \in [1..MaxTrades -> Trades]
    /\ group = [t \in Topics |-> Subscribed(None)]
    /\ profiles = [u \in Users |-> None]
    /\ items = [n \in 1..MaxTrades |-> 0]
    /\ faults = 0 /\ moves = 0

-----------------------------------------------------------------------------
(* What writes to user-events *)

Published(u) == \E i \in DOMAIN userEvents : userEvents[i] = u

(* Copies are bounded so that there is room for the first of each.         *)
Room(u) ==
    \/ ~Published(u)
    \/ Len(userEvents) + Cardinality({v \in Users : ~Published(v)}) < MaxEvents

Register(u) == Outbox!Commit(u) /\ UNCHANGED <<trades, group, tables, faults, moves>>

Publish(u) ==
    /\ Room(u) /\ u \notin relayed
    /\ Outbox!Publish(u)
    /\ UNCHANGED <<trades, group, tables, faults, moves>>

MarkDispatched(u) ==
    Outbox!MarkDispatched(u) /\ UNCHANGED <<trades, group, tables, faults, moves>>

-----------------------------------------------------------------------------
(* The consumer groups *)

Length(t) == IF t = "user-events" THEN Len(userEvents) ELSE MaxTrades

Becomes(t, g) == group' = [group EXCEPT ![t] = g]

Fault == faults + moves < MaxTrouble /\ faults' = faults + 1

Fetch(t, c) ==
    /\ CanFetch(group[t], c, Length(t))
    /\ Becomes(t, Fetched(group[t], c))
    /\ UNCHANGED <<topics, tables, faults, moves>>

Commit(t, c) ==
    /\ group[t].pc[c] = "commit"
    /\ Becomes(t, Committed(group[t], c))
    /\ UNCHANGED <<topics, tables, faults, moves>>

CommitRaises(t, c) ==
    /\ group[t].pc[c] = "commit"
    /\ Fault
    /\ \E g \in CommitRaised(group[t], c) : Becomes(t, g)
    /\ UNCHANGED <<topics, tables, moves>>

(* A call of the handler fails, and its transaction with it. *)
HandlerFails(t, c) ==
    /\ Handling(group[t], c)
    /\ Fault
    /\ Becomes(t, Raised(group[t], c))
    /\ UNCHANGED <<topics, tables, moves>>

(* A transaction has committed: its answer arrives and the handler goes on *)
(* as g, or it is lost.                                                    *)
Answered(t, c, g) ==
    \/ Becomes(t, g) /\ UNCHANGED faults
    \/ Fault /\ Becomes(t, Raised(group[t], c))

(* A process dies and is started again. *)
Crash(c) ==
    /\ Fault
    /\ group' = [t \in Topics |-> Crashed(group[t], c)]
    /\ UNCHANGED <<topics, tables, moves>>

Assign(t, c) ==
    /\ CanTake(group[t], c)
    /\ \/ group[t].member = None /\ UNCHANGED moves
       \/ group[t].member # None /\ faults + moves < MaxTrouble /\ moves' = moves + 1
    /\ Becomes(t, Assigned(group[t], c))
    /\ UNCHANGED <<topics, tables, faults>>

-----------------------------------------------------------------------------
(* The projectors *)

(* Faulty variant: an upsert. *)
CreateOrReplace(u, name) ==
    profiles' = [profiles EXCEPT ![u] = [name |-> name, avatar |-> Blank]]

(* INSERT ... ON CONFLICT DO NOTHING. *)
CreateIfMissing(u, name) ==
    profiles' = IF profiles[u] = None
                THEN [profiles EXCEPT ![u] = [name |-> name, avatar |-> Blank]]
                ELSE profiles

SyncUser(c) ==
    LET g == group["user-events"] IN
    /\ g.pc[c] = "handle"
    /\ CreateIfMissing(userEvents[g.at[c]], "registered")
    /\ Answered("user-events", c, Handled(g, c))
    /\ UNCHANGED <<topics, items, moves>>

Trade(c) == trades[group["trade-events"].at[c]]

TradeWithoutUser(c) ==
    LET g == group["trade-events"] IN
    /\ g.pc[c] = "handle" /\ Trade(c).user = None
    /\ Becomes("trade-events", Raised(g, c))
    /\ UNCHANGED <<topics, tables, faults, moves>>

HandleTrade(c) ==
    LET g == group["trade-events"] IN
    /\ g.pc[c] = "handle" /\ Trade(c).user # None
    /\ CreateIfMissing(Trade(c).user, Blank)
    /\ Becomes("trade-events", GoesTo(g, c, "insert"))
    /\ UNCHANGED <<topics, items, faults, moves>>

TradeWithoutItem(c) ==
    LET g == group["trade-events"] IN
    /\ g.pc[c] = "insert" /\ ~Trade(c).item
    /\ Becomes("trade-events", Raised(g, c))
    /\ UNCHANGED <<topics, tables, faults, moves>>

(* A row with a fresh id; nothing asks whether the message has one. *)
AddOwnedItem(c) ==
    LET g == group["trade-events"] IN
    /\ g.pc[c] = "insert" /\ Trade(c).item
    /\ profiles[Trade(c).user] # None
    /\ items' = [items EXCEPT ![g.at[c]] = @ + 1]
    /\ Answered("trade-events", c, Handled(g, c))
    /\ UNCHANGED <<topics, profiles, moves>>

Consume(t, c) ==
    \/ Fetch(t, c) \/ Commit(t, c)
    \/ t = "user-events" /\ SyncUser(c)
    \/ /\ t = "trade-events"
       /\ TradeWithoutUser(c) \/ HandleTrade(c) \/ TradeWithoutItem(c) \/ AddOwnedItem(c)

(* The owner sets her picture: the row is read and written back in one     *)
(* request.  It writes the columns that differ, and no other request       *)
(* writes a row of hers.                                                   *)
SetAvatar(u, avatar) ==
    /\ profiles[u] # None
    /\ profiles' = [profiles EXCEPT ![u].avatar = avatar]
    /\ UNCHANGED <<topics, group, items, faults, moves>>

-----------------------------------------------------------------------------

Next ==
    \/ \E u \in Users :
         \/ Register(u) \/ Publish(u) \/ MarkDispatched(u)
         \/ \E a \in Avatars : SetAvatar(u, a)
    \/ \E c \in Replicas :
         \/ Crash(c)
         \/ \E t \in Topics :
              Consume(t, c) \/ CommitRaises(t, c) \/ HandlerFails(t, c) \/ Assign(t, c)

Spec == Init /\ [][Next]_vars

(* What is registered is published in the end (Outbox!EverythingDispatched)*)
(* a loop that runs goes on, and the coordinator gives a partition nobody  *)
(* has to a consumer that is still there.                                  *)
FairSpec ==
    /\ Spec
    /\ \A u \in Users : WF_vars(~Published(u) /\ Publish(u))
    /\ \A t \in Topics :
         /\ \A c \in Replicas : WF_vars(Consume(t, c))
         /\ WF_vars(group[t].member = None /\ \E c \in Replicas : Assign(t, c))

-----------------------------------------------------------------------------

(* Every variable has its type. *)
TypeOK ==
    /\ registered \subseteq Users /\ relayed \subseteq registered
    /\ userEvents \in Seq(Users)
    /\ trades \in [1..MaxTrades -> Trades]
    /\ group = [t \in Topics |-> group[t]]
    /\ GroupTypeOK(group["user-events"], Len(userEvents), {})
    /\ GroupTypeOK(group["trade-events"], MaxTrades, {"insert"})
    /\ profiles \in [Users -> Rows \cup {None}]
    /\ items \in [1..MaxTrades -> Nat]
    /\ faults \in Nat /\ moves \in Nat /\ faults + moves <= MaxTrouble

(* No item that was granted is missing once its message is committed,      *)
(* unless the message was given up, and no row is without its profile.     *)
NoItemMissing ==
    \A n \in 1..MaxTrades :
        /\ n <= group["trade-events"].offset /\ n \notin group["trade-events"].givenUp
              => items[n] > 0
        /\ items[n] > 0 => profiles[trades[n].user] # None

(* The rows an item has beyond its first. *)
Surplus == UNION {{n} \X (2..items[n]) : n \in 1..MaxTrades}

(* Nothing is taken from the marketplace twice but by a redelivery, and    *)
(* each of those has its crash, lost answer, failed commit or rebalance:   *)
(* the inventory is short of nothing and over by no more than went wrong   *)
(* ("at-least-once", kafka_consumer_base.py:39; inventory_projector.py has *)
(* no check of its own).                                                   *)
ItemsAccountedFor ==
    /\ NoItemMissing
    /\ Cardinality(Surplus) <= faults + moves

(* Whoever creates a profile first decides its name for ever: the          *)
(* registration, which has then committed, or a trade message that some    *)
(* handler holds.  Redelivery and the other group change neither the name  *)
(* nor the picture its owner has chosen (profile_repository.py:95-108).    *)
FirstWordNames ==
    [][\A u \in Users : profiles'[u] # profiles[u] =>
         \/ \E a \in Avatars : SetAvatar(u, a)
         \/ /\ profiles[u] = None /\ profiles'[u].avatar = Blank
            /\ profiles'[u].name = "registered" => u \in registered
            /\ profiles'[u].name = Blank =>
                 \E c \in Replicas :
                    group["trade-events"].pc[c] = "handle" /\ Trade(c).user = u]_vars

Live(t) == \E c \in Replicas : group[t].pc[c] # "dead"

(* An account that is registered gets its profile: through the outbox and  *)
(* its duplicates, a rebalance, and as many faults as a message has        *)
(* attempts to spare, as long as a consumer's loop is left                 *)
(* (profile_event_consumers.py:46-49).                                     *)
EveryoneGetsAProfile ==
    \A u \in Users :
        u \in registered ~>
            profiles[u] # None \/ faults >= MaxRetries \/ ~Live("user-events")

=============================================================================
