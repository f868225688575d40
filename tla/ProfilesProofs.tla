---------------------------- MODULE ProfilesProofs ----------------------------
(***************************************************************************)
(* For any number of accounts, replicas, messages, faults and rebalances:  *)
(* every variable of Profiles keeps its type, an item that was granted is  *)
(* in the inventory once its message is committed, unless the message was  *)
(* given up, and no oftener than faults and rebalances account for; no     *)
(* item is without its profile, and a profile's name is decided when the   *)
(* row is created.                                                         *)
(*                                                                         *)
(* The invariant says of every handler that stands before the insert that  *)
(* its user has a profile row, and of every message a handler has returned *)
(* from that its item is there; what the loops add is ConsumerLoopProofs'. *)
(* To count, CountInv adds to the rows of a message those its handlers may *)
(* still insert and the delivery that is due.                              *)
(***************************************************************************)
EXTENDS Profiles, FiniteSetTheorems, ConsumerLoopProofs

USE ConstantsOK

UserGroup == group["user-events"]
TradeGroup == group["trade-events"]
Insert == {"insert"}

EventsOK ==
    /\ registered \subseteq Users /\ relayed \subseteq registered
    /\ userEvents \in Seq(Users)
    /\ \A i \in 1..Len(userEvents) : userEvents[i] \in registered

GroupsOK ==
    /\ group = [t \in Topics |-> group[t]]
    /\ LoopInv(UserGroup, Len(userEvents), {})
    /\ LoopInv(TradeGroup, MaxTrades, Insert)

TablesOK ==
    /\ trades \in [1..MaxTrades -> Trades]
    /\ profiles \in [Users -> Rows \cup {None}]
    /\ items \in [1..MaxTrades -> Nat]

InsertOK ==
    \A c \in Replicas : TradeGroup.pc[c] = "insert" =>
        Trade(c).user \in Users /\ profiles[Trade(c).user] # None

ItemsOK ==
    \A n \in 1..MaxTrades :
        /\ n \in Finished(TradeGroup) => items[n] > 0
        /\ items[n] > 0 => trades[n].user \in Users /\ profiles[trades[n].user] # None

BoundsOK == faults \in Nat /\ moves \in Nat /\ faults + moves <= MaxTrouble

ProfilesInv ==
    EventsOK /\ GroupsOK /\ TablesOK /\ InsertOK /\ ItemsOK /\ BoundsOK

LEMMA BlankIsNoName == Blank # "registered"
  BY DEF Blank

LEMMA InitInv == Init => ProfilesInv
  <1> SUFFICES ASSUME Init PROVE ProfilesInv
    OBVIOUS
  <1>1. EventsOK /\ TablesOK /\ BoundsOK /\ Len(userEvents) \in Nat
    BY DEF Init, Outbox!Init, EventsOK, TablesOK, BoundsOK
  <1>2. UserGroup = Subscribed(None) /\ TradeGroup = Subscribed(None)
        /\ group = [t \in Topics |-> group[t]]
    BY DEF Init, UserGroup, TradeGroup, Topics
  <1>3. GroupsOK
    BY <1>1, <1>2, SubscribedInv DEF GroupsOK
  <1>4. InsertOK /\ ItemsOK
    BY <1>2 DEF Init, InsertOK, ItemsOK, Subscribed, Finished
  <1> QED
    BY <1>1, <1>3, <1>4 DEF ProfilesInv

LEMMA FaultInv ==
    ASSUME ProfilesInv, Fault \/ UNCHANGED faults, UNCHANGED moves
    PROVE  BoundsOK'
  BY DEF ProfilesInv, BoundsOK, Fault

LEMMA BecomesFields ==
    ASSUME GroupsOK, NEW t \in Topics, NEW g, Becomes(t, g)
    PROVE  /\ group' = [s \in Topics |-> group'[s]]
           /\ group'[t] = g
           /\ \A s \in Topics \ {t} : group'[s] = group[s]
  BY DEF GroupsOK, Becomes

(* Rows are only ever added to table profiles. *)
Growing ==
    /\ profiles' \in [Users -> Rows \cup {None}]
    /\ \A u \in Users : profiles[u] # None => profiles'[u] # None

LEMMA CreateGrows ==
    ASSUME TablesOK, NEW u \in Users, NEW name \in {Blank, "registered"},
           CreateIfMissing(u, name)
    PROVE  Growing /\ profiles'[u] # None
  <1>1. [name |-> name, avatar |-> Blank] \in Rows
    BY DEF Rows
  <1>2. None # [name |-> name, avatar |-> Blank]
    BY <1>1, NoneIsNoRow
  <1> QED
    BY <1>1, <1>2 DEF CreateIfMissing, TablesOK, Growing

-----------------------------------------------------------------------------
(* What a step of one group's loop has to show *)

LEMMA UserSide ==
    ASSUME ProfilesInv, NEW g, Becomes("user-events", g),
           LoopInv(g, Len(userEvents), {}),
           UNCHANGED <<topics, items>>, Growing, BoundsOK'
    PROVE  ProfilesInv'
  <1>1. /\ group' = [s \in Topics |-> group'[s]]
        /\ UserGroup' = g /\ TradeGroup' = TradeGroup
    BY BecomesFields DEF ProfilesInv, Topics, UserGroup, TradeGroup
  <1>2. UNCHANGED <<registered, userEvents, relayed, trades, items>>
    BY DEF topics
  <1>3. EventsOK' /\ GroupsOK' /\ TablesOK'
    BY <1>1, <1>2 DEF ProfilesInv, EventsOK, GroupsOK, TablesOK, Growing
  <1>4. InsertOK'
    BY <1>1, <1>2 DEF ProfilesInv, InsertOK, Growing, Trade, TradeGroup
  <1>5. ItemsOK'
    BY <1>1, <1>2 DEF ProfilesInv, ItemsOK, Growing
  <1> QED
    BY <1>3, <1>4, <1>5 DEF ProfilesInv

LEMMA TradeSide ==
    ASSUME ProfilesInv, NEW c \in Replicas, NEW g, Becomes("trade-events", g),
           LoopInv(g, MaxTrades, Insert), Only(c, TradeGroup, g),
           g.pc[c] = "insert" =>
              trades[g.at[c]].user \in Users /\ profiles'[trades[g.at[c]].user] # None,
           items' \in [1..MaxTrades -> Nat],
           \A n \in 1..MaxTrades :
              /\ n \in Finished(g) => items'[n] > 0
              /\ items'[n] > 0 => trades[n].user \in Users /\ profiles'[trades[n].user] # None,
           UNCHANGED topics, Growing, BoundsOK'
    PROVE  ProfilesInv'
  <1>1. /\ group' = [s \in Topics |-> group'[s]]
        /\ UserGroup' = UserGroup /\ TradeGroup' = g
    BY BecomesFields DEF ProfilesInv, Topics, UserGroup, TradeGroup
  <1>2. UNCHANGED <<registered, userEvents, relayed, trades>>
    BY DEF topics
  <1>3. EventsOK' /\ GroupsOK' /\ TablesOK'
    BY <1>1, <1>2 DEF ProfilesInv, EventsOK, GroupsOK, TablesOK, Growing
  <1>4. InsertOK'
    <2> SUFFICES ASSUME NEW d \in Replicas, g.pc[d] = "insert"
                 PROVE  trades[g.at[d]].user \in Users
                        /\ profiles'[trades[g.at[d]].user] # None
      BY <1>1, <1>2 DEF InsertOK, Trade, TradeGroup
    <2>1. CASE d = c
      BY <2>1
    <2>2. CASE d # c
      BY <2>2 DEF Only, ProfilesInv, InsertOK, Trade, Growing, TradeGroup
    <2> QED
      BY <2>1, <2>2
  <1>5. ItemsOK'
    BY <1>1, <1>2 DEF ItemsOK
  <1> QED
    BY <1>3, <1>4, <1>5 DEF ProfilesInv

(* A step that leaves the tables alone and finishes no message. *)
LEMMA QuietTradeSide ==
    ASSUME ProfilesInv, NEW c \in Replicas, NEW g, Becomes("trade-events", g),
           LoopInv(g, MaxTrades, Insert), Only(c, TradeGroup, g), g.pc[c] \in Own,
           Finished(g) \subseteq Finished(TradeGroup),
           UNCHANGED <<topics, tables>>, BoundsOK'
    PROVE  ProfilesInv'
  <1>1. UNCHANGED <<trades, profiles, items>>
    BY DEF topics, tables
  <1>2. Growing /\ items' \in [1..MaxTrades -> Nat]
    BY <1>1 DEF ProfilesInv, TablesOK, Growing
  <1>3. g.pc[c] # "insert"
    BY DEF Own
  <1>4. \A n \in 1..MaxTrades :
          /\ n \in Finished(g) => items'[n] > 0
          /\ items'[n] > 0 => trades[n].user \in Users /\ profiles'[trades[n].user] # None
    BY <1>1 DEF ProfilesInv, ItemsOK
  <1> QED
    BY <1>2, <1>3, <1>4, TradeSide

LEMMA QuietUserSide ==
    ASSUME ProfilesInv, NEW g, Becomes("user-events", g),
           LoopInv(g, Len(userEvents), {}), UNCHANGED <<topics, tables>>, BoundsOK'
    PROVE  ProfilesInv'
  <1>1. Growing /\ UNCHANGED items
    BY DEF ProfilesInv, TablesOK, Growing, tables
  <1> QED
    BY <1>1, UserSide

LEMMA Loops ==
    ProfilesInv => /\ Len(userEvents) \in Nat
                   /\ LoopInv(UserGroup, Len(userEvents), {})
                   /\ LoopInv(TradeGroup, MaxTrades, Insert)
  BY DEF ProfilesInv, EventsOK, GroupsOK

-----------------------------------------------------------------------------
(* The steps *)

LEMMA UserLoopInv ==
    ASSUME ProfilesInv, NEW c \in Replicas, NEW t \in Topics, t = "user-events",
           Fetch(t, c) \/ Commit(t, c) \/ CommitRaises(t, c)
             \/ HandlerFails(t, c) \/ Assign(t, c)
    PROVE  ProfilesInv'
  <1>1. Len(userEvents) \in Nat /\ LoopInv(UserGroup, Len(userEvents), {})
    BY Loops
  <1>2. BoundsOK' /\ UNCHANGED <<topics, tables>>
    BY DEF Fetch, Commit, CommitRaises, HandlerFails, Assign, Fault, ProfilesInv, BoundsOK
  <1>3. CASE Fetch(t, c)
    BY <1>1, <1>2, <1>3, FetchedInv, QuietUserSide DEF Fetch, Length, UserGroup
  <1>4. CASE Commit(t, c)
    BY <1>1, <1>2, <1>4, CommittedInv, QuietUserSide DEF Commit, UserGroup
  <1>5. CASE CommitRaises(t, c)
    BY <1>1, <1>2, <1>5, CommitRaisedInv, QuietUserSide DEF CommitRaises, UserGroup
  <1>6. CASE HandlerFails(t, c)
    BY <1>1, <1>2, <1>6, RaisedInv, QuietUserSide DEF HandlerFails, UserGroup
  <1>7. CASE Assign(t, c)
    BY <1>1, <1>2, <1>7, AssignedInv, QuietUserSide DEF Assign, UserGroup
  <1> QED
    BY <1>3, <1>4, <1>5, <1>6, <1>7

LEMMA TradeLoopInv ==
    ASSUME ProfilesInv, NEW c \in Replicas, NEW t \in Topics, t = "trade-events",
           Fetch(t, c) \/ Commit(t, c) \/ CommitRaises(t, c) \/ HandlerFails(t, c)
    PROVE  ProfilesInv'
  <1>1. MaxTrades \in Nat /\ LoopInv(TradeGroup, MaxTrades, Insert)
    BY Loops
  <1>2. BoundsOK' /\ UNCHANGED <<topics, tables>>
    BY DEF Fetch, Commit, CommitRaises, HandlerFails, Fault, ProfilesInv, BoundsOK
  <1>3. CASE Fetch(t, c)
    BY <1>1, <1>2, <1>3, FetchedInv, QuietTradeSide DEF Fetch, Length, TradeGroup
  <1>4. CASE Commit(t, c)
    BY <1>1, <1>2, <1>4, CommittedInv, QuietTradeSide DEF Commit, TradeGroup
  <1>5. CASE CommitRaises(t, c)
    BY <1>1, <1>2, <1>5, CommitRaisedInv, QuietTradeSide DEF CommitRaises, TradeGroup
  <1>6. CASE HandlerFails(t, c)
    BY <1>1, <1>2, <1>6, RaisedInv, QuietTradeSide DEF HandlerFails, TradeGroup
  <1> QED
    BY <1>3, <1>4, <1>5, <1>6

(* The partition moves: every handler stays where it is. *)
LEMMA TradeAssignInv ==
    ASSUME ProfilesInv, NEW c \in Replicas, Assign("trade-events", c)
    PROVE  ProfilesInv'
  <1> DEFINE g == Assigned(TradeGroup, c)
  <1>1. LoopInv(g, MaxTrades, Insert) /\ g.pc = TradeGroup.pc /\ g.at = TradeGroup.at
        /\ Finished(g) = Finished(TradeGroup)
    BY Loops, AssignedInv
  <1>2. Becomes("trade-events", g) /\ UNCHANGED <<topics, tables>> /\ BoundsOK'
    BY DEF Assign, ProfilesInv, BoundsOK, TradeGroup
  <1> HIDE DEF g
  <1>3. /\ group' = [s \in Topics |-> group'[s]]
        /\ UserGroup' = UserGroup /\ TradeGroup' = g
    BY <1>2, BecomesFields DEF ProfilesInv, Topics, UserGroup, TradeGroup
  <1>4. UNCHANGED <<registered, userEvents, relayed, trades, profiles, items>>
    BY <1>2 DEF topics, tables
  <1>5. EventsOK' /\ GroupsOK' /\ TablesOK'
    BY <1>1, <1>3, <1>4 DEF ProfilesInv, EventsOK, GroupsOK, TablesOK
  <1>6. InsertOK'
    BY <1>1, <1>3, <1>4 DEF ProfilesInv, InsertOK, Trade, TradeGroup
  <1>7. ItemsOK'
    BY <1>1, <1>3, <1>4 DEF ProfilesInv, ItemsOK
  <1> QED
    BY <1>2, <1>5, <1>6, <1>7 DEF ProfilesInv

LEMMA CrashInv ==
    ASSUME ProfilesInv, NEW c \in Replicas, Crash(c)
    PROVE  ProfilesInv'
  <1> DEFINE g == Crashed(TradeGroup, c)
             h == Crashed(UserGroup, c)
  <1>1. /\ LoopInv(g, MaxTrades, Insert) /\ Only(c, TradeGroup, g) /\ g.pc[c] \in Own
        /\ Finished(g) = Finished(TradeGroup)
    BY Loops, CrashedInv
  <1>2. LoopInv(h, Len(userEvents), {})
    BY Loops, CrashedInv
  <1>3. /\ group' = [s \in Topics |-> group'[s]]
        /\ UserGroup' = h /\ TradeGroup' = g
    BY DEF Crash, Topics, UserGroup, TradeGroup
  <1>4. UNCHANGED <<registered, userEvents, relayed, trades, profiles, items>> /\ BoundsOK'
    BY DEF Crash, Fault, ProfilesInv, BoundsOK, topics, tables
  <1> HIDE DEF g, h
  <1>5. EventsOK' /\ GroupsOK' /\ TablesOK'
    BY <1>1, <1>2, <1>3, <1>4 DEF ProfilesInv, EventsOK, GroupsOK, TablesOK
  <1>6. InsertOK'
    <2> SUFFICES ASSUME NEW d \in Replicas, g.pc[d] = "insert"
                 PROVE  trades[g.at[d]].user \in Users
                        /\ profiles[trades[g.at[d]].user] # None
      BY <1>3, <1>4 DEF InsertOK, Trade, TradeGroup
    <2>1. d # c
      BY <1>1 DEF Own
    <2> QED
      BY <1>1, <2>1 DEF Only, ProfilesInv, InsertOK, Trade, TradeGroup
  <1>7. ItemsOK'
    BY <1>1, <1>3, <1>4 DEF ProfilesInv, ItemsOK
  <1> QED
    BY <1>4, <1>5, <1>6, <1>7 DEF ProfilesInv

LEMMA SyncUserInv ==
    ASSUME ProfilesInv, NEW c \in Replicas, SyncUser(c)
    PROVE  ProfilesInv'
  <1> DEFINE u == userEvents[UserGroup.at[c]]
  <1>1. Len(userEvents) \in Nat /\ LoopInv(UserGroup, Len(userEvents), {})
    BY Loops
  <1>2. /\ Handling(UserGroup, c) /\ CreateIfMissing(u, "registered")
        /\ UNCHANGED <<topics, items, moves>>
    BY DEF SyncUser, UserGroup, Handling
  <1>3. \/ Becomes("user-events", Handled(UserGroup, c))
        \/ Becomes("user-events", Raised(UserGroup, c))
    BY DEF SyncUser, Answered, UserGroup
  <1>4. BoundsOK'
    BY DEF SyncUser, Answered, Fault, ProfilesInv, BoundsOK
  <1>5. u \in Users
    <2>1. UserGroup.at[c] \in 1..Len(userEvents)
      BY <1>1, <1>2 DEF LoopInv, Holds, Handling, Idle
    <2> QED
      BY <2>1 DEF ProfilesInv, EventsOK
  <1> HIDE DEF u
  <1>6. Growing
    BY <1>2, <1>5, CreateGrows DEF ProfilesInv
  <1>7. CASE Becomes("user-events", Handled(UserGroup, c))
    BY <1>1, <1>2, <1>4, <1>6, <1>7, HandledInv, UserSide
  <1>8. CASE Becomes("user-events", Raised(UserGroup, c))
    BY <1>1, <1>2, <1>4, <1>6, <1>8, RaisedInv, UserSide
  <1> QED
    BY <1>3, <1>7, <1>8

LEMMA RefusedInv ==
    ASSUME ProfilesInv, NEW c \in Replicas, TradeWithoutUser(c) \/ TradeWithoutItem(c)
    PROVE  ProfilesInv'
  <1>1. /\ Handling(TradeGroup, c) /\ Becomes("trade-events", Raised(TradeGroup, c))
        /\ UNCHANGED <<topics, tables>> /\ BoundsOK'
    BY DEF TradeWithoutUser, TradeWithoutItem, TradeGroup, Handling, ProfilesInv, BoundsOK
  <1> QED
    BY <1>1, Loops, RaisedInv, QuietTradeSide

(* What a handler of a trade message holds. *)
LEMMA TradeHeld ==
    ASSUME ProfilesInv, NEW c \in Replicas, Handling(TradeGroup, c)
    PROVE  TradeGroup.at[c] \in 1..MaxTrades /\ Trade(c) = trades[TradeGroup.at[c]]
           /\ (Trade(c).user # None => Trade(c).user \in Users)
  <1>1. TradeGroup.at[c] \in 1..MaxTrades /\ Trade(c) = trades[TradeGroup.at[c]]
    BY Loops DEF LoopInv, Holds, Handling, Idle, Trade, TradeGroup
  <1> QED
    BY <1>1 DEF ProfilesInv, TablesOK, Trades

LEMMA HandleTradeInv ==
    ASSUME ProfilesInv, NEW c \in Replicas, HandleTrade(c)
    PROVE  ProfilesInv'
  <1> DEFINE u == Trade(c).user
             g == GoesTo(TradeGroup, c, "insert")
  <1>1. /\ Handling(TradeGroup, c) /\ u # None /\ CreateIfMissing(u, Blank)
        /\ Becomes("trade-events", g)
        /\ UNCHANGED <<topics, items, faults, moves>>
    BY DEF HandleTrade, TradeGroup, Handling
  <1>2. u \in Users /\ u = trades[TradeGroup.at[c]].user
    BY <1>1, TradeHeld
  <1>3. Growing /\ profiles'[u] # None
    BY <1>1, <1>2, CreateGrows DEF ProfilesInv
  <1>4. /\ LoopInv(g, MaxTrades, Insert) /\ Only(c, TradeGroup, g)
        /\ Finished(g) = Finished(TradeGroup) /\ g.at[c] = TradeGroup.at[c]
    <2>1. "insert" \in Insert /\ "insert" \notin Idle \cup {"commit"}
      BY DEF Insert, Idle
    <2>2. LoopInv(TradeGroup, MaxTrades, Insert) /\ Handling(TradeGroup, c)
      BY <1>1, Loops
    <2> QED
      BY <2>1, <2>2, GoesToInv
  <1> HIDE DEF u, g
  <1>5. BoundsOK' /\ UNCHANGED <<trades, items>>
    BY <1>1 DEF ProfilesInv, BoundsOK, topics
  <1>6. items' \in [1..MaxTrades -> Nat]
    BY <1>5 DEF ProfilesInv, TablesOK
  <1>7. \A n \in 1..MaxTrades :
          /\ n \in Finished(g) => items'[n] > 0
          /\ items'[n] > 0 => trades[n].user \in Users /\ profiles'[trades[n].user] # None
    BY <1>3, <1>4, <1>5 DEF ProfilesInv, ItemsOK, Growing
  <1> QED
    BY <1>1, <1>2, <1>3, <1>4, <1>5, <1>6, <1>7, TradeSide

LEMMA AddOwnedItemInv ==
    ASSUME ProfilesInv, NEW c \in Replicas, AddOwnedItem(c)
    PROVE  ProfilesInv'
  <1> DEFINE k == TradeGroup.at[c]
  <1>1. /\ Handling(TradeGroup, c) /\ TradeGroup.pc[c] = "insert"
        /\ items' = [items EXCEPT ![k] = @ + 1]
        /\ UNCHANGED <<topics, profiles, moves>>
    BY DEF AddOwnedItem, TradeGroup, Handling
  <1>2. PICK g : /\ g = Handled(TradeGroup, c) \/ g = Raised(TradeGroup, c)
                 /\ Becomes("trade-events", g)
    BY DEF AddOwnedItem, Answered, TradeGroup
  <1>3. k \in 1..MaxTrades
    BY <1>1, TradeHeld
  <1>4. trades[k].user \in Users /\ profiles[trades[k].user] # None
    BY <1>1 DEF ProfilesInv, InsertOK, Trade, TradeGroup
  <1>5. /\ LoopInv(g, MaxTrades, Insert) /\ Only(c, TradeGroup, g) /\ g.pc[c] \in Own
        /\ Finished(g) \subseteq Finished(TradeGroup) \cup {k}
    <2>1. CASE g = Handled(TradeGroup, c)
      BY <1>1, <2>1, Loops, HandledInv
    <2>2. CASE g = Raised(TradeGroup, c)
      BY <1>1, <2>2, Loops, RaisedInv
    <2> QED
      BY <1>2, <2>1, <2>2
  <1>6. BoundsOK'
    BY DEF AddOwnedItem, Answered, Fault, ProfilesInv, BoundsOK
  <1> HIDE DEF k
  <1>7. /\ items \in [1..MaxTrades -> Nat] /\ items' \in [1..MaxTrades -> Nat]
        /\ items'[k] > 0 /\ \A n \in (1..MaxTrades) \ {k} : items'[n] = items[n]
    BY <1>1, <1>3 DEF ProfilesInv, TablesOK
  <1>8. UNCHANGED <<trades, profiles>> /\ Growing
    BY <1>1 DEF ProfilesInv, TablesOK, Growing, topics
  <1>9. ASSUME NEW n \in 1..MaxTrades
        PROVE  /\ n \in Finished(g) => items'[n] > 0
               /\ items'[n] > 0 => trades[n].user \in Users /\ profiles'[trades[n].user] # None
    <2>1. CASE n = k
      BY <1>4, <1>7, <1>8, <2>1
    <2>2. CASE n # k
      BY <1>5, <1>7, <1>8, <2>2 DEF ProfilesInv, ItemsOK
    <2> QED
      BY <2>1, <2>2
  <1>10. g.pc[c] # "insert"
    BY <1>5 DEF Own
  <1> QED
    BY <1>1, <1>2, <1>5, <1>6, <1>7, <1>8, <1>9, <1>10, TradeSide

(* What writes to user-events, and the owner. *)
LEMMA OthersInv ==
    ASSUME ProfilesInv, NEW u \in Users,
           \/ Register(u) \/ Publish(u) \/ MarkDispatched(u)
           \/ \E a \in Avatars : SetAvatar(u, a)
    PROVE  ProfilesInv'
  <1>1. UNCHANGED <<trades, group, items, faults, moves>>
    BY DEF Register, Publish, MarkDispatched, SetAvatar, topics, tables
  <1>2. Growing
    <2>1. CASE UNCHANGED profiles
      BY <2>1 DEF Growing, ProfilesInv, TablesOK
    <2>2. ASSUME NEW a \in Avatars, SetAvatar(u, a) PROVE Growing
      <3>1. profiles[u] \in Rows /\ profiles' = [profiles EXCEPT ![u].avatar = a]
        BY <2>2 DEF SetAvatar, ProfilesInv, TablesOK
      <3>2. [profiles[u] EXCEPT !.avatar = a] \in Rows
        BY <3>1 DEF Rows
      <3>3. [profiles[u] EXCEPT !.avatar = a] # None
        BY <3>2, NoneIsNoRow
      <3> QED
        BY <3>1, <3>2, <3>3 DEF Growing, ProfilesInv, TablesOK
    <2> QED
      BY <2>1, <2>2 DEF Register, Publish, MarkDispatched, tables
  <1>3. /\ Len(userEvents) \in Nat /\ Len(userEvents') \in Nat
        /\ Len(userEvents) <= Len(userEvents') /\ EventsOK'
    <2> USE DEF ProfilesInv, EventsOK
    <2>1. CASE Register(u)
      BY <2>1 DEF Register, Outbox!Commit
    <2>2. CASE Publish(u)
      <3>1. u \in registered /\ userEvents' = Append(userEvents, u)
            /\ UNCHANGED <<registered, relayed>>
        BY <2>2 DEF Publish, Outbox!Publish
      <3>2. userEvents' \in Seq(Users) /\ Len(userEvents') = Len(userEvents) + 1
            /\ \A i \in 1..Len(userEvents) : userEvents'[i] = userEvents[i]
            /\ userEvents'[Len(userEvents) + 1] = u
        BY <3>1
      <3> QED
        BY <3>1, <3>2
    <2>3. CASE MarkDispatched(u)
      BY <2>3 DEF MarkDispatched, Outbox!MarkDispatched
    <2>4. CASE \E a \in Avatars : SetAvatar(u, a)
      BY <2>4 DEF SetAvatar, topics
    <2> QED
      BY <2>1, <2>2, <2>3, <2>4
  <1>4. GroupsOK' /\ UserGroup' = UserGroup /\ TradeGroup' = TradeGroup
    BY <1>1, <1>3, GrowsInv DEF ProfilesInv, GroupsOK, UserGroup, TradeGroup
  <1>5. TablesOK' /\ BoundsOK' /\ ItemsOK' /\ InsertOK'
    BY <1>1, <1>2, <1>4
       DEF ProfilesInv, TablesOK, BoundsOK, ItemsOK, InsertOK, Growing, Trade, TradeGroup
  <1> QED
    BY <1>3, <1>4, <1>5 DEF ProfilesInv

LEMMA NextInv == ProfilesInv /\ [Next]_vars => ProfilesInv'
  <1> SUFFICES ASSUME ProfilesInv, [Next]_vars PROVE ProfilesInv'
    OBVIOUS
  <1>1. CASE UNCHANGED vars
    BY <1>1 DEF vars, ProfilesInv, EventsOK, GroupsOK, TablesOK, InsertOK, ItemsOK,
                BoundsOK, Trade, UserGroup, TradeGroup
  <1>2. ASSUME NEW c \in Replicas, NEW t \in Topics,
               Consume(t, c) \/ CommitRaises(t, c) \/ HandlerFails(t, c) \/ Assign(t, c)
        PROVE  ProfilesInv'
    <2>1. CASE t = "user-events"
      BY <1>2, <2>1, UserLoopInv, SyncUserInv DEF Consume
    <2>2. CASE t = "trade-events"
      BY <1>2, <2>2, TradeLoopInv, TradeAssignInv, RefusedInv, HandleTradeInv,
         AddOwnedItemInv DEF Consume
    <2> QED
      BY <2>1, <2>2 DEF Topics
  <1> QED
    BY <1>1, <1>2, CrashInv, OthersInv DEF Next

LEMMA Invariance == Spec => []ProfilesInv
  BY InitInv, NextInv, PTL DEF Spec

-----------------------------------------------------------------------------

(* Every variable of the two groups and of the tables they write keeps its *)
(* type (KafkaConsumerBase, UserSyncProjector, InventoryProjector).        *)
THEOREM TypeCorrect == Spec => []TypeOK
  <1>1. ProfilesInv => TypeOK
    BY DEF ProfilesInv, EventsOK, GroupsOK, TablesOK, BoundsOK, LoopInv, TypeOK,
           UserGroup, TradeGroup, Insert
  <1> QED
    BY <1>1, Invariance, PTL

(* Whatever dies, fails or is moved, an item whose message is committed is *)
(* in the inventory unless its message was given up, and its owner has a   *)
(* profile (inventory_projector.py:11-22, kafka_consumer_base.py:59-88).   *)
THEOREM ItemsArrive == Spec => []NoItemMissing
  <1>1. ProfilesInv => NoItemMissing
    <2> SUFFICES ASSUME ProfilesInv PROVE NoItemMissing
      OBVIOUS
    <2>1. NothingSkipped(TradeGroup) /\ TradeGroup.offset \in 0..MaxTrades
      BY Loops DEF LoopInv, GroupTypeOK, Groups
    <2> QED
      BY <2>1 DEF ProfilesInv, ItemsOK, NoItemMissing, NothingSkipped, Finished, TradeGroup
  <1> QED
    BY <1>1, Invariance, PTL

(* A profile's name is decided when its row is created; afterwards only   *)
(* its owner changes it, and only the picture (profile_repository.py:95-108).*)
THEOREM NameIsKept == Spec => FirstWordNames
  <1> DEFINE Decided(u) ==
        \/ \E a \in Avatars : SetAvatar(u, a)
        \/ /\ profiles[u] = None /\ profiles'[u].avatar = Blank
           /\ profiles'[u].name = "registered" => u \in registered
           /\ profiles'[u].name = Blank =>
                \E c \in Replicas :
                   group["trade-events"].pc[c] = "handle" /\ Trade(c).user = u
  <1>1. ASSUME ProfilesInv, Next, NEW u \in Users, profiles'[u] # profiles[u]
        PROVE  Decided(u)
    <2>1. ASSUME NEW v \in Users, NEW a \in Avatars, SetAvatar(v, a)
          PROVE  Decided(u)
      <3>1. u = v
        BY <1>1, <2>1 DEF SetAvatar, ProfilesInv, TablesOK
      <3> QED
        BY <2>1, <3>1
    <2>2. ASSUME NEW c \in Replicas, SyncUser(c)
          PROVE  Decided(u)
      <3> DEFINE v == userEvents[UserGroup.at[c]]
      <3>1. CreateIfMissing(v, "registered") /\ Handling(UserGroup, c)
        BY <2>2 DEF SyncUser, UserGroup, Handling
      <3>2. UserGroup.at[c] \in 1..Len(userEvents)
        BY <1>1, <3>1, Loops DEF LoopInv, Holds, Handling, Idle
      <3>3. v \in registered
        BY <1>1, <3>2 DEF ProfilesInv, EventsOK
      <3> HIDE DEF v
      <3>4. u = v /\ profiles[u] = None
            /\ profiles'[u] = [name |-> "registered", avatar |-> Blank]
        BY <1>1, <3>1 DEF CreateIfMissing, ProfilesInv, TablesOK
      <3>5. profiles'[u].avatar = Blank /\ profiles'[u].name = "registered"
        BY <3>4
      <3> QED
        BY <3>3, <3>4, <3>5, BlankIsNoName
    <2>3. ASSUME NEW c \in Replicas, HandleTrade(c)
          PROVE  Decided(u)
      <3> DEFINE v == Trade(c).user
      <3>1. CreateIfMissing(v, Blank) /\ group["trade-events"].pc[c] = "handle"
        BY <2>3 DEF HandleTrade
      <3> HIDE DEF v
      <3>2. u = v /\ profiles[u] = None
            /\ profiles'[u] = [name |-> Blank, avatar |-> Blank]
        BY <1>1, <3>1 DEF CreateIfMissing, ProfilesInv, TablesOK
      <3>3. profiles'[u].avatar = Blank /\ profiles'[u].name = Blank
        BY <3>2
      <3>4. Trade(c).user = u
        BY <3>2 DEF v
      <3> QED
        BY <3>1, <3>2, <3>3, <3>4, BlankIsNoName
    <2>4. CASE UNCHANGED profiles
      BY <1>1, <2>4
    <2>5. \/ UNCHANGED profiles
          \/ \E v \in Users, a \in Avatars : SetAvatar(v, a)
          \/ \E c \in Replicas : SyncUser(c) \/ HandleTrade(c)
      BY <1>1 DEF Next, Consume, Register, Publish, MarkDispatched, Crash, Fetch, Commit,
         CommitRaises, HandlerFails, Assign, TradeWithoutUser, TradeWithoutItem,
         AddOwnedItem, tables
    <2> QED
      BY <2>1, <2>2, <2>3, <2>4, <2>5
  <1>2. ProfilesInv /\ [Next]_vars
          => [\A u \in Users : profiles'[u] # profiles[u] => Decided(u)]_vars
    BY <1>1
  <1>3. Spec => [][\A u \in Users : profiles'[u] # profiles[u] => Decided(u)]_vars
    BY <1>2, Invariance, PTL DEF Spec
  <1> QED
    BY <1>3 DEF FirstWordNames

-----------------------------------------------------------------------------
(* Redeliveries and what they cost *)

(* The handlers that have message n in their hands, and whether it will be *)
(* delivered once more without another fault: nobody has had the partition *)
(* since a fetch, and n is next.                                           *)
Handlers(g, n) == {c \in Replicas : Handling(g, c) /\ g.at[c] = n}

Due(g, n) == IF n = g.offset + 1 /\ \A c \in Replicas : ~g.mine[c] THEN 1 ELSE 0

(* How many rows each message has or may yet get without another fault.    *)
Ahead(g, f) ==
    [n \in 1..MaxTrades |-> f[n] + Cardinality(Handlers(g, n)) + Due(g, n)]

Counts == [1..MaxTrades -> Nat]

(* What a count has beyond one row a message. *)
Over(a) == UNION {{n} \X (2..a[n]) : n \in 1..MaxTrades}

(* From a to b only m may grow beyond one row, and by one. *)
Rises(a, b, m) ==
    \A n \in 1..MaxTrades :
        b[n] <= a[n] \/ b[n] <= 1 \/ (n = m /\ b[n] <= a[n] + 1)

LEMMA NoMore ==
    ASSUME NEW a \in Counts, NEW b \in Counts, IsFiniteSet(Over(a)),
           Rises(a, b, 0)
    PROVE  IsFiniteSet(Over(b)) /\ Cardinality(Over(b)) <= Cardinality(Over(a))
  <1>1. Over(b) \subseteq Over(a)
    <2> SUFFICES ASSUME NEW n \in 1..MaxTrades, NEW k \in 2..b[n]
                 PROVE  <<n, k>> \in Over(a)
      BY DEF Over
    <2>1. a[n] \in Nat /\ b[n] \in Nat
      BY DEF Counts
    <2>2. k \in 2..a[n]
      BY <2>1 DEF Rises
    <2> QED
      BY <2>2 DEF Over
  <1> HIDE DEF Over
  <1> QED
    BY <1>1, FS_Subset

LEMMA OneMore ==
    ASSUME NEW a \in Counts, NEW b \in Counts, IsFiniteSet(Over(a)),
           NEW m \in 1..MaxTrades, Rises(a, b, m)
    PROVE  /\ IsFiniteSet(Over(b)) /\ Cardinality(Over(b)) \in Nat
           /\ Cardinality(Over(b)) <= Cardinality(Over(a)) + 1
  <1> DEFINE S == Over(a) \cup {<<m, a[m] + 1>>}
  <1>1. Over(b) \subseteq S
    <2> SUFFICES ASSUME NEW n \in 1..MaxTrades, NEW k \in 2..b[n]
                 PROVE  <<n, k>> \in S
      BY DEF Over
    <2>1. a[n] \in Nat /\ b[n] \in Nat
      BY DEF Counts
    <2>2. k \in 2..a[n] \/ (n = m /\ k = a[n] + 1)
      BY <2>1 DEF Rises
    <2> QED
      BY <2>2 DEF Over
  <1>2. /\ IsFiniteSet(S)
        /\ Cardinality(S) = Cardinality(Over(a)) \/ Cardinality(S) = Cardinality(Over(a)) + 1
    <2> HIDE DEF Over
    <2> QED
      BY FS_AddElement
  <1> HIDE DEF S, Over
  <1>3. IsFiniteSet(Over(b)) /\ Cardinality(Over(b)) <= Cardinality(S)
    BY <1>1, <1>2, FS_Subset
  <1>4. Cardinality(Over(a)) \in Nat /\ Cardinality(Over(b)) \in Nat
    BY <1>3, FS_CardinalityType
  <1> QED
    BY <1>2, <1>3, <1>4

LEMMA HandlersCount ==
    ASSUME NEW g, NEW n
    PROVE  IsFiniteSet(Handlers(g, n)) /\ Cardinality(Handlers(g, n)) \in Nat
  <1>1. Handlers(g, n) \subseteq Replicas
    BY DEF Handlers
  <1> HIDE DEF Handlers
  <1> QED
    BY <1>1, FS_Subset, FS_CardinalityType

LEMMA AheadCounts ==
    ASSUME NEW g, NEW f \in Counts
    PROVE  /\ Ahead(g, f) \in Counts
           /\ \A n \in 1..MaxTrades :
                 Ahead(g, f)[n] = f[n] + Cardinality(Handlers(g, n)) + Due(g, n)
  <1>1. \A n \in 1..MaxTrades :
          Cardinality(Handlers(g, n)) \in Nat /\ f[n] \in Nat /\ Due(g, n) \in Nat
    BY HandlersCount DEF Counts, Due
  <1> HIDE DEF Handlers, Due
  <1> QED
    BY <1>1 DEF Ahead, Counts

(* A handler goes on with its message, or is done with it. *)
LEMMA MovedHandlers ==
    ASSUME NEW g \in Groups(MaxTrades, Insert), NEW h, NEW c \in Replicas,
           NEW label \in {"handle", "insert", "commit"},
           Handling(g, c), Moved(c, g, h, label), NEW n \in 1..MaxTrades
    PROVE  /\ Due(h, n) = Due(g, n)
           /\ label # "commit" =>
                 Cardinality(Handlers(h, n)) = Cardinality(Handlers(g, n))
           /\ label = "commit" =>
                 Cardinality(Handlers(h, n)) =
                    Cardinality(Handlers(g, n)) - (IF n = g.at[c] THEN 1 ELSE 0)
  <1>1. Due(h, n) = Due(g, n)
    BY DEF Due, Moved
  <1>2. CASE label # "commit"
    <2>1. Handlers(h, n) = Handlers(g, n)
      BY <1>2 DEF Handlers, Handling, Moved, Groups
    <2> QED
      BY <1>1, <1>2, <2>1
  <1>3. CASE label = "commit"
    <2>1. Handlers(h, n) = Handlers(g, n) \ {c} /\ (c \in Handlers(g, n) <=> n = g.at[c])
      BY <1>3 DEF Handlers, Handling, Moved, Groups
    <2> HIDE DEF Handlers
    <2>2. Cardinality(Handlers(h, n)) =
            IF c \in Handlers(g, n) THEN Cardinality(Handlers(g, n)) - 1
                                    ELSE Cardinality(Handlers(g, n))
      BY <2>1, HandlersCount, FS_RemoveElement
    <2> QED
      BY <1>1, <1>3, <2>1, <2>2, HandlersCount
  <1> QED
    BY <1>2, <1>3

(* A message is fetched: what was due is in somebody's hands. *)
LEMMA FetchedHandlers ==
    ASSUME NEW g, LoopInv(g, MaxTrades, Insert), NEW c \in Replicas,
           CanFetch(g, c, MaxTrades), NEW n \in 1..MaxTrades
    PROVE  LET h == Fetched(g, c)
           IN  Cardinality(Handlers(h, n)) + Due(h, n) =
                  Cardinality(Handlers(g, n)) + Due(g, n)
  <1> DEFINE h == Fetched(g, c)
  <1>1. g \in Groups(MaxTrades, Insert) /\ MaxTrades \in Nat
    BY DEF LoopInv, GroupTypeOK
  <1>2. IsPut(g, h, c, "handle", g.offset + 1, 1, TRUE)
    BY <1>1, PutFields DEF Fetched
  <1> HIDE DEF h
  <1>3. \A d \in Replicas : ~g.mine[d]
    BY DEF LoopInv, Holds, CanFetch, Idle
  <1>4. h.mine[c] /\ h.offset = g.offset
    BY <1>1, <1>2 DEF IsPut, Groups
  <1>5. Due(h, n) = 0
    BY <1>4 DEF Due
  <1>6. Due(g, n) = IF n = g.offset + 1 THEN 1 ELSE 0
    BY <1>3 DEF Due
  <1>7. c \notin Handlers(g, n)
    BY DEF Handlers, Handling, CanFetch
  <1>8. Handlers(h, n) = IF n = g.offset + 1 THEN Handlers(g, n) \cup {c} ELSE Handlers(g, n)
    BY <1>1, <1>2, <1>7 DEF Handlers, Handling, IsPut, Groups, CanFetch
  <1> HIDE DEF Handlers, Due
  <1>9. Cardinality(Handlers(g, n) \cup {c}) = Cardinality(Handlers(g, n)) + 1
    BY <1>7, HandlersCount, FS_AddElement
  <1> QED
    BY <1>5, <1>6, <1>8, <1>9, HandlersCount DEF h

(* A loop is back at its start, or has ended. *)
LEMMA EndsHandlers ==
    ASSUME NEW g \in Groups(MaxTrades, Insert), NEW h, NEW c \in Replicas,
           NEW label \in Idle, Ends(c, g, h, label), NEW n \in 1..MaxTrades
    PROVE  Cardinality(Handlers(h, n)) <= Cardinality(Handlers(g, n))
  <1>1. Handlers(h, n) \subseteq Handlers(g, n)
    BY DEF Handlers, Handling, Ends, Groups, Idle
  <1> HIDE DEF Handlers
  <1> QED
    BY <1>1, HandlersCount, FS_Subset

(* Nobody handles a message beyond the next, and none beyond it has a row. *)
InOrder(g, f) ==
    /\ \A c \in Replicas : Handling(g, c) => g.at[c] <= g.offset + 1
    /\ \A n \in 1..MaxTrades : f[n] > 0 => n <= g.offset + 1

Counted(g, f, cost) ==
    /\ InOrder(g, f)
    /\ IsFiniteSet(Over(Ahead(g, f)))
    /\ Cardinality(Over(Ahead(g, f))) <= cost

CountInv == Counted(TradeGroup, items, faults + moves)

(* What a step has to show: only one message may get ahead, and the step   *)
(* is then a fault or a rebalance.                                         *)
LEMMA CountedStep ==
    ASSUME NEW g, NEW h, NEW f \in Counts, NEW e \in Counts, NEW m,
           NEW cost \in Nat, NEW price \in Nat, cost <= price,
           Counted(g, f, cost), InOrder(h, e),
           \/ m = 0
           \/ m \in 1..MaxTrades /\ cost < price,
           Rises(Ahead(g, f), Ahead(h, e), m)
    PROVE  Counted(h, e, price)
  <1> DEFINE a == Ahead(g, f)
             b == Ahead(h, e)
  <1>1. a \in Counts /\ b \in Counts
    BY AheadCounts
  <1>2. IsFiniteSet(Over(a)) /\ Cardinality(Over(a)) <= cost /\ Rises(a, b, m)
    BY DEF Counted
  <1> HIDE DEF a, b
  <1>3. Cardinality(Over(a)) \in Nat
    BY <1>2, FS_CardinalityType
  <1>4. IsFiniteSet(Over(b)) /\ Cardinality(Over(b)) <= price
    <2>1. CASE m = 0
      <3>1. IsFiniteSet(Over(b)) /\ Cardinality(Over(b)) <= Cardinality(Over(a))
        BY <1>1, <1>2, <2>1, NoMore
      <3>2. Cardinality(Over(b)) \in Nat
        BY <3>1, FS_CardinalityType
      <3> QED
        BY <1>2, <1>3, <3>1, <3>2
    <2>2. CASE m \in 1..MaxTrades /\ cost < price
      <3>1. /\ IsFiniteSet(Over(b)) /\ Cardinality(Over(b)) \in Nat
            /\ Cardinality(Over(b)) <= Cardinality(Over(a)) + 1
        BY <1>1, <1>2, <2>2, OneMore
      <3> QED
        BY <1>2, <1>3, <2>2, <3>1
    <2> QED
      BY <2>1, <2>2
  <1> QED
    BY <1>4 DEF Counted, b

(* The handler of c goes on, returns or raises and inserts nothing. *)
LEMMA MovedCounted ==
    ASSUME NEW g, LoopInv(g, MaxTrades, Insert), NEW h, NEW c \in Replicas,
           NEW label \in {"handle", "insert", "commit"}, Handling(g, c),
           Moved(c, g, h, label), NEW f \in Counts,
           NEW cost \in Nat, NEW price \in Nat, cost <= price, Counted(g, f, cost)
    PROVE  Counted(h, f, price)
  <1>1. g \in Groups(MaxTrades, Insert)
    BY DEF LoopInv, GroupTypeOK
  <1>2. InOrder(h, f)
    BY <1>1 DEF Counted, InOrder, Moved, Groups, Handling
  <1>3. ASSUME NEW n \in 1..MaxTrades PROVE Ahead(h, f)[n] <= Ahead(g, f)[n]
    <2>1. /\ Due(h, n) = Due(g, n)
          /\ Cardinality(Handlers(h, n)) <= Cardinality(Handlers(g, n))
      BY <1>1, MovedHandlers, HandlersCount
    <2>2. Due(g, n) \in Nat /\ f[n] \in Nat
      BY DEF Due, Counts
    <2> HIDE DEF Due, Handlers
    <2> QED
      BY <2>1, <2>2, AheadCounts, HandlersCount
  <1>4. Rises(Ahead(g, f), Ahead(h, f), 0)
    BY <1>3 DEF Rises
  <1> QED
    BY <1>2, <1>4, CountedStep

(* A row is inserted: one more, and one handler less that has its message, *)
(* unless the answer was lost.                                             *)
LEMMA InsertedCounted ==
    ASSUME NEW g, LoopInv(g, MaxTrades, Insert), NEW h, NEW c \in Replicas,
           NEW label \in {"handle", "commit"}, Handling(g, c),
           Moved(c, g, h, label), NEW f \in Counts, NEW e \in Counts,
           \A n \in 1..MaxTrades : e[n] = f[n] + (IF n = g.at[c] THEN 1 ELSE 0),
           NEW cost \in Nat, NEW price \in Nat, cost <= price,
           label = "commit" \/ cost < price, Counted(g, f, cost)
    PROVE  Counted(h, e, price)
  <1>1. g \in Groups(MaxTrades, Insert) /\ g.at[c] \in 1..MaxTrades
    BY DEF LoopInv, GroupTypeOK, Holds, Handling, Idle
  <1>2. InOrder(h, e)
    <2>1. g.at[c] <= g.offset + 1
      BY DEF Counted, InOrder
    <2>2. \A n \in 1..MaxTrades : e[n] > 0 => n <= h.offset + 1
      BY <2>1 DEF Counted, InOrder, Counts, Moved
    <2>3. \A d \in Replicas : Handling(h, d) => h.at[d] <= h.offset + 1
      BY <1>1, <2>1 DEF Counted, InOrder, Moved, Groups, Handling
    <2> QED
      BY <2>2, <2>3 DEF InOrder
  <1>3. ASSUME NEW n \in 1..MaxTrades
        PROVE  /\ label = "commit" => Ahead(h, e)[n] = Ahead(g, f)[n]
               /\ n # g.at[c] => Ahead(h, e)[n] = Ahead(g, f)[n]
               /\ Ahead(h, e)[n] <= Ahead(g, f)[n] + 1
    <2>1. /\ Due(h, n) = Due(g, n)
          /\ label # "commit" => Cardinality(Handlers(h, n)) = Cardinality(Handlers(g, n))
          /\ label = "commit" =>
                Cardinality(Handlers(h, n)) =
                   Cardinality(Handlers(g, n)) - (IF n = g.at[c] THEN 1 ELSE 0)
      BY <1>1, MovedHandlers
    <2>2. Due(g, n) \in Nat /\ f[n] \in Nat /\ e[n] \in Nat
          /\ e[n] = f[n] + (IF n = g.at[c] THEN 1 ELSE 0)
          /\ Cardinality(Handlers(g, n)) \in Nat
      BY HandlersCount DEF Due, Counts
    <2>3. /\ Ahead(h, e)[n] = e[n] + Cardinality(Handlers(h, n)) + Due(h, n)
          /\ Ahead(g, f)[n] = f[n] + Cardinality(Handlers(g, n)) + Due(g, n)
      BY AheadCounts
    <2> HIDE DEF Due, Handlers, Ahead
    <2> QED
      BY <2>1, <2>2, <2>3
  <1>4. Ahead(g, f) \in Counts /\ Ahead(h, e) \in Counts
    BY AheadCounts
  <1> HIDE DEF Ahead
  <1>5. CASE label = "commit"
    <2>1. Rises(Ahead(g, f), Ahead(h, e), 0)
      BY <1>3, <1>4, <1>5 DEF Rises, Counts
    <2> QED
      BY <1>2, <2>1, CountedStep
  <1>6. CASE cost < price
    <2>1. Rises(Ahead(g, f), Ahead(h, e), g.at[c])
      BY <1>3, <1>4 DEF Rises, Counts
    <2> QED
      BY <1>1, <1>2, <1>6, <2>1, CountedStep
  <1> QED
    BY <1>5, <1>6

LEMMA FetchedCounted ==
    ASSUME NEW g, LoopInv(g, MaxTrades, Insert), NEW c \in Replicas,
           CanFetch(g, c, MaxTrades), NEW f \in Counts, NEW cost \in Nat,
           Counted(g, f, cost)
    PROVE  Counted(Fetched(g, c), f, cost)
  <1> DEFINE h == Fetched(g, c)
  <1>1. g \in Groups(MaxTrades, Insert) /\ MaxTrades \in Nat
    BY DEF LoopInv, GroupTypeOK
  <1>2. IsPut(g, h, c, "handle", g.offset + 1, 1, TRUE)
    BY <1>1, PutFields DEF Fetched
  <1>3. ASSUME NEW n \in 1..MaxTrades PROVE Ahead(h, f)[n] = Ahead(g, f)[n]
    <2>1. Cardinality(Handlers(h, n)) + Due(h, n) = Cardinality(Handlers(g, n)) + Due(g, n)
      BY FetchedHandlers
    <2>2. /\ Due(g, n) \in Nat /\ Due(h, n) \in Nat /\ f[n] \in Nat
          /\ Cardinality(Handlers(g, n)) \in Nat /\ Cardinality(Handlers(h, n)) \in Nat
      BY HandlersCount DEF Due, Counts
    <2>3. /\ Ahead(h, f)[n] = f[n] + Cardinality(Handlers(h, n)) + Due(h, n)
          /\ Ahead(g, f)[n] = f[n] + Cardinality(Handlers(g, n)) + Due(g, n)
      BY AheadCounts
    <2> HIDE DEF h, Due, Handlers, Ahead
    <2> QED
      BY <2>1, <2>2, <2>3
  <1> HIDE DEF h
  <1>4. InOrder(h, f)
    BY <1>1, <1>2 DEF Counted, InOrder, IsPut, Groups, Handling
  <1>5. Rises(Ahead(g, f), Ahead(h, f), 0)
    <2>1. Ahead(g, f) \in Counts
      BY AheadCounts
    <2> HIDE DEF Ahead
    <2> QED
      BY <1>3, <2>1 DEF Rises, Counts
  <1> QED
    BY <1>4, <1>5, CountedStep DEF h

(* Nobody has a message beyond the next, or a row of it. *)
LEMMA NoneAhead ==
    ASSUME NEW g, NEW f \in Counts, InOrder(g, f), g.offset \in Nat,
           \A d \in Replicas : g.at[d] \in Nat,
           NEW n \in 1..MaxTrades, n > g.offset + 1
    PROVE  f[n] = 0 /\ Cardinality(Handlers(g, n)) = 0
  <1>1. f[n] = 0
    BY DEF InOrder, Counts
  <1>2. Handlers(g, n) = {}
    BY DEF Handlers, InOrder
  <1> HIDE DEF Handlers
  <1> QED
    BY <1>1, <1>2, FS_EmptySet

LEMMA EndsInOrder ==
    ASSUME NEW g, LoopInv(g, MaxTrades, Insert), NEW h, NEW c \in Replicas,
           NEW label \in Idle, Ends(c, g, h, label), NEW f \in Counts, InOrder(g, f)
    PROVE  /\ InOrder(h, f) /\ g.offset \in Nat /\ h.offset \in {g.offset, g.offset + 1}
           /\ \A d \in Replicas : g.at[d] \in Nat
           /\ g.mine[c] /\ h.offset = Position(g, c) => h.offset = g.offset + 1
           /\ ~g.mine[c] => h.offset = g.offset /\ h.mine = g.mine
  <1>1. /\ g \in Groups(MaxTrades, Insert) /\ Holds(g, MaxTrades, c)
        /\ g.mine \in [Replicas -> BOOLEAN]
    BY DEF LoopInv, GroupTypeOK, Groups
  <1>2. /\ g.offset \in Nat /\ h.offset \in {g.offset, g.offset + 1}
        /\ \A d \in Replicas : g.at[d] \in Nat
        /\ g.mine[c] /\ h.offset = Position(g, c) => h.offset = g.offset + 1
        /\ ~g.mine[c] => h.offset = g.offset
    BY <1>1 DEF Ends, Position, Holds, Groups
  <1>3. ~g.mine[c] => h.mine = g.mine
    <2>1. ~g.mine[c] => g.mine[c] = FALSE
      <3>1. g.mine[c] \in BOOLEAN
        BY <1>1
      <3> QED
        BY <3>1
    <2>2. h.mine = [g.mine EXCEPT ![c] = FALSE]
      BY DEF Ends
    <2> QED
      BY <1>1, <2>1, <2>2
  <1>4. ASSUME NEW d \in Replicas, Handling(h, d) PROVE h.at[d] <= h.offset + 1
    <2>1. d # c /\ Handling(g, d) /\ h.at[d] = g.at[d]
      BY <1>1, <1>4 DEF Ends, Handling, Idle, Groups
    <2>2. g.at[d] <= g.offset + 1 /\ g.at[d] \in Nat
      BY <1>2, <2>1 DEF InOrder
    <2> QED
      BY <1>2, <2>1, <2>2
  <1>5. \A n \in 1..MaxTrades : f[n] > 0 => n <= h.offset + 1
    BY <1>2 DEF InOrder
  <1> QED
    BY <1>2, <1>3, <1>4, <1>5 DEF InOrder

(* The offset moves over the message that was handled, or stays where it   *)
(* is for nothing: what becomes due is new.                                *)
LEMMA CommittedCounted ==
    ASSUME NEW g, LoopInv(g, MaxTrades, Insert), NEW h, NEW c \in Replicas,
           NEW label \in Idle, Ends(c, g, h, label), h.offset = Position(g, c),
           NEW f \in Counts, NEW cost \in Nat, NEW price \in Nat, cost <= price,
           Counted(g, f, cost)
    PROVE  Counted(h, f, price)
  <1>1. g \in Groups(MaxTrades, Insert) /\ InOrder(g, f)
    BY DEF LoopInv, GroupTypeOK, Counted
  <1>2. /\ InOrder(h, f) /\ g.offset \in Nat /\ \A d \in Replicas : g.at[d] \in Nat
        /\ g.mine[c] => h.offset = g.offset + 1
        /\ ~g.mine[c] => h.offset = g.offset /\ h.mine = g.mine
    BY <1>1, EndsInOrder
  <1>3. ASSUME NEW n \in 1..MaxTrades
        PROVE  Ahead(h, f)[n] <= Ahead(g, f)[n] \/ Ahead(h, f)[n] <= 1
    <2>1. /\ Cardinality(Handlers(h, n)) <= Cardinality(Handlers(g, n))
          /\ Cardinality(Handlers(h, n)) \in Nat /\ Cardinality(Handlers(g, n)) \in Nat
      BY <1>1, EndsHandlers, HandlersCount
    <2>2. Due(h, n) \in {0, 1} /\ Due(g, n) \in {0, 1} /\ f[n] \in Nat
      BY DEF Due, Counts
    <2>3. /\ Ahead(h, f)[n] = f[n] + Cardinality(Handlers(h, n)) + Due(h, n)
          /\ Ahead(g, f)[n] = f[n] + Cardinality(Handlers(g, n)) + Due(g, n)
      BY AheadCounts
    <2>4. CASE g.mine[c] /\ n = h.offset + 1
      <3>1. f[n] = 0 /\ Cardinality(Handlers(g, n)) = 0
        BY <1>1, <1>2, <2>4, NoneAhead
      <3> HIDE DEF Due, Handlers, Ahead
      <3> QED
        BY <2>1, <2>2, <2>3, <3>1
    <2>5. CASE ~(g.mine[c] /\ n = h.offset + 1)
      <3>1. Due(h, n) <= Due(g, n)
        BY <1>2, <2>5 DEF Due
      <3> HIDE DEF Due, Handlers, Ahead
      <3> QED
        BY <2>1, <2>2, <2>3, <3>1
    <2> QED
      BY <2>4, <2>5
  <1>4. Rises(Ahead(g, f), Ahead(h, f), 0)
    BY <1>3 DEF Rises
  <1> QED
    BY <1>2, <1>4, CountedStep

(* The next message may have become due although it has rows or handlers.  *)
LEMMA NextIsDue ==
    ASSUME NEW g, NEW h, NEW f \in Counts, NEW cost \in Nat, NEW price \in Nat,
           cost < price, Counted(g, f, cost), InOrder(h, f),
           g.offset \in Nat, h.offset = g.offset,
           \A n \in 1..MaxTrades :
              Cardinality(Handlers(h, n)) <= Cardinality(Handlers(g, n))
    PROVE  Counted(h, f, price)
  <1>1. ASSUME NEW n \in 1..MaxTrades
        PROVE  IF n = g.offset + 1 THEN Ahead(h, f)[n] <= Ahead(g, f)[n] + 1
                                   ELSE Ahead(h, f)[n] <= Ahead(g, f)[n]
    <2>1. /\ Cardinality(Handlers(h, n)) <= Cardinality(Handlers(g, n))
          /\ Cardinality(Handlers(h, n)) \in Nat /\ Cardinality(Handlers(g, n)) \in Nat
      BY HandlersCount
    <2>2. /\ Due(h, n) \in {0, 1} /\ Due(g, n) \in {0, 1} /\ f[n] \in Nat
          /\ n # g.offset + 1 => Due(h, n) = 0
      BY DEF Due, Counts
    <2>3. /\ Ahead(h, f)[n] = f[n] + Cardinality(Handlers(h, n)) + Due(h, n)
          /\ Ahead(g, f)[n] = f[n] + Cardinality(Handlers(g, n)) + Due(g, n)
      BY AheadCounts
    <2> HIDE DEF Due, Handlers, Ahead
    <2> QED
      BY <2>1, <2>2, <2>3
  <1> DEFINE m == IF g.offset + 1 \in 1..MaxTrades THEN g.offset + 1 ELSE 0
  <1>2. Rises(Ahead(g, f), Ahead(h, f), m)
    BY <1>1 DEF Rises
  <1>3. m = 0 \/ m \in 1..MaxTrades
    OBVIOUS
  <1> HIDE DEF m
  <1> QED
    BY <1>2, <1>3, CountedStep

LEMMA EndsCounted ==
    ASSUME NEW g, LoopInv(g, MaxTrades, Insert), NEW h, NEW c \in Replicas,
           NEW label \in Idle, Ends(c, g, h, label),
           NEW f \in Counts, NEW cost \in Nat, NEW price \in Nat, cost < price,
           Counted(g, f, cost)
    PROVE  Counted(h, f, price)
  <1>1. g \in Groups(MaxTrades, Insert) /\ InOrder(g, f)
    BY DEF LoopInv, GroupTypeOK, Counted
  <1>2. InOrder(h, f) /\ g.offset \in Nat
    BY <1>1, EndsInOrder
  <1>3. CASE h.offset = Position(g, c)
    BY <1>3, CommittedCounted
  <1>4. CASE h.offset = g.offset
    <2>1. \A n \in 1..MaxTrades :
            Cardinality(Handlers(h, n)) <= Cardinality(Handlers(g, n))
      BY <1>1, EndsHandlers
    <2> QED
      BY <1>2, <1>4, <2>1, NextIsDue
  <1> QED
    BY <1>3, <1>4 DEF Ends

LEMMA AssignedCounted ==
    ASSUME NEW g, LoopInv(g, MaxTrades, Insert), NEW c \in Replicas,
           NEW f \in Counts, NEW cost \in Nat, NEW price \in Nat, cost <= price,
           g.member = None \/ cost < price, Counted(g, f, cost)
    PROVE  Counted(Assigned(g, c), f, price)
  <1> DEFINE h == Assigned(g, c)
  <1>1. g \in Groups(MaxTrades, Insert) /\ g.offset \in Nat
    BY DEF LoopInv, GroupTypeOK, Groups
  <1>2. /\ h.offset = g.offset /\ h.pc = g.pc /\ h.at = g.at
        /\ h.mine = [d \in Replicas |-> FALSE]
    BY <1>1 DEF Assigned, Groups
  <1> HIDE DEF h
  <1>3. InOrder(h, f) /\ \A n \in 1..MaxTrades : Handlers(h, n) = Handlers(g, n)
    BY <1>2 DEF Counted, InOrder, Handlers, Handling
  <1>4. CASE cost < price
    <2>1. \A n \in 1..MaxTrades :
            Cardinality(Handlers(h, n)) <= Cardinality(Handlers(g, n))
      BY <1>3, HandlersCount
    <2> QED
      BY <1>1, <1>2, <1>3, <1>4, <2>1, NextIsDue DEF h
  <1>5. CASE g.member = None
    <2>1. \A d \in Replicas : ~g.mine[d] /\ ~h.mine[d]
      BY <1>2, <1>5, LoopConstantsOK DEF LoopInv, Holds
    <2>2. \A n \in 1..MaxTrades : Due(h, n) = Due(g, n)
      BY <1>2, <2>1 DEF Due
    <2>3. Ahead(h, f) = Ahead(g, f)
      <3> HIDE DEF Due, Handlers
      <3> QED
        BY <1>3, <2>2 DEF Ahead
    <2>4. Rises(Ahead(g, f), Ahead(h, f), 0)
      <3>1. Ahead(g, f) \in Counts
        BY AheadCounts
      <3> HIDE DEF Ahead
      <3> QED
        BY <2>3, <3>1 DEF Rises, Counts
    <2> QED
      BY <1>3, <2>4, CountedStep DEF h
  <1> QED
    BY <1>4, <1>5

-----------------------------------------------------------------------------

LEMMA NatBounds ==
    ASSUME ProfilesInv
    PROVE  /\ items \in Counts /\ faults + moves \in Nat
           /\ faults \in Nat /\ moves \in Nat
           /\ LoopInv(TradeGroup, MaxTrades, Insert) /\ TradeGroup \in Groups(MaxTrades, Insert)
  BY Loops DEF ProfilesInv, TablesOK, BoundsOK, Counts, LoopInv, GroupTypeOK

LEMMA CountInit == Init => CountInv
  <1> SUFFICES ASSUME Init PROVE CountInv
    OBVIOUS
  <1>1. ProfilesInv /\ TradeGroup = Subscribed(None) /\ faults + moves = 0
    BY InitInv DEF Init, TradeGroup, Topics
  <1>2. InOrder(TradeGroup, items)
    BY <1>1 DEF Init, InOrder, Subscribed, Handling
  <1> DEFINE g == TradeGroup
             a == Ahead(g, items)
  <1>3. \A n \in 1..MaxTrades : a[n] = IF n = 1 THEN 1 ELSE 0
    <2> TAKE n \in 1..MaxTrades
    <2>1. Handlers(g, n) = {}
      BY <1>1 DEF Handlers, Handling, Subscribed
    <2>2. Cardinality(Handlers(g, n)) = 0
      BY <2>1, FS_EmptySet
    <2>3. Due(g, n) = IF n = 1 THEN 1 ELSE 0
      BY <1>1 DEF Due, Subscribed
    <2>4. items[n] = 0
      BY DEF Init
    <2> HIDE DEF g, Due, Handlers
    <2> QED
      BY <2>2, <2>3, <2>4 DEF Ahead
  <1> HIDE DEF a
  <1>4. Over(a) = {}
    BY <1>3 DEF Over
  <1> QED
    BY <1>1, <1>2, <1>4, FS_EmptySet DEF CountInv, Counted, a

(* A step that leaves trade-events and its items alone. *)
LEMMA Elsewhere ==
    ASSUME CountInv, ProfilesInv, ProfilesInv', TradeGroup' = TradeGroup, UNCHANGED items,
           faults + moves <= (faults + moves)'
    PROVE  CountInv'
  <1>1. Counted(TradeGroup, items, faults + moves)
    BY DEF CountInv
  <1>2. faults + moves \in Nat /\ (faults + moves)' \in Nat
    <2>1. faults' \in Nat /\ moves' \in Nat
      BY DEF ProfilesInv, BoundsOK
    <2>2. ASSUME NEW i \in Nat, NEW j \in Nat PROVE i + j \in Nat
      OBVIOUS
    <2>3. (faults + moves)' \in Nat
      BY <2>1, <2>2
    <2> QED
      BY <2>3, NatBounds
  <1>3. Cardinality(Over(Ahead(TradeGroup, items))) \in Nat
    BY <1>1, FS_CardinalityType DEF Counted
  <1>4. Counted(TradeGroup, items, (faults + moves)')
    <2> HIDE DEF Over, Ahead, InOrder
    <2> DEFINE k == (faults + moves)'
    <2>1. k \in Nat /\ faults + moves <= k
      BY <1>2
    <2> HIDE DEF k
    <2> QED
      BY <1>1, <1>2, <1>3, <2>1 DEF Counted, k
  <1> QED
    BY <1>4 DEF CountInv

LEMMA TradeMoves ==
    ASSUME ProfilesInv, NEW g, Becomes("trade-events", g)
    PROVE  TradeGroup' = g
  BY BecomesFields DEF ProfilesInv, Topics, TradeGroup

LEMMA UserMoves ==
    ASSUME ProfilesInv, NEW g, Becomes("user-events", g)
    PROVE  TradeGroup' = TradeGroup
  BY BecomesFields DEF ProfilesInv, Topics, TradeGroup

LEMMA UserCount ==
    ASSUME CountInv, ProfilesInv, ProfilesInv', NEW c \in Replicas,
           \/ SyncUser(c)
           \/ \E t \in Topics : /\ t = "user-events"
                                /\ \/ Fetch(t, c) \/ Commit(t, c) \/ CommitRaises(t, c)
                                   \/ HandlerFails(t, c) \/ Assign(t, c)
    PROVE  CountInv'
  <1>1. \E g : Becomes("user-events", g)
    BY DEF SyncUser, Answered, Fetch, Commit, CommitRaises, HandlerFails, Assign
  <1>2. TradeGroup' = TradeGroup
    BY <1>1, UserMoves
  <1>3. UNCHANGED items
    BY DEF SyncUser, Fetch, Commit, CommitRaises, HandlerFails, Assign, tables
  <1>4. faults + moves <= faults' + moves'
    BY NatBounds DEF SyncUser, Answered, Fetch, Commit, CommitRaises, HandlerFails, Assign, Fault
  <1> QED
    BY <1>2, <1>3, <1>4, Elsewhere

LEMMA TradeCount ==
    ASSUME CountInv, ProfilesInv, NEW c \in Replicas, NEW t \in Topics, t = "trade-events",
           \/ Fetch(t, c) \/ Commit(t, c) \/ CommitRaises(t, c) \/ HandlerFails(t, c)
           \/ Assign(t, c) \/ TradeWithoutUser(c) \/ TradeWithoutItem(c) \/ HandleTrade(c)
    PROVE  CountInv'
  <1> DEFINE cost == faults + moves
             price == faults' + moves'
  <1>0. /\ Counted(TradeGroup, items, cost) /\ UNCHANGED items
        /\ items \in Counts /\ cost \in Nat /\ faults \in Nat /\ moves \in Nat
        /\ LoopInv(TradeGroup, MaxTrades, Insert) /\ TradeGroup \in Groups(MaxTrades, Insert)
    BY NatBounds DEF CountInv, Fetch, Commit, CommitRaises, HandlerFails, Assign, TradeWithoutUser,
       TradeWithoutItem, HandleTrade, tables
  <1> SUFFICES Counted(TradeGroup', items, price)
    BY <1>0 DEF CountInv
  <1>1. CASE Fetch(t, c)
    <2>1. TradeGroup' = Fetched(TradeGroup, c) /\ CanFetch(TradeGroup, c, MaxTrades)
      BY <1>1, TradeMoves DEF Fetch, Length, TradeGroup
    <2>2. price = cost
      BY <1>1 DEF Fetch
    <2> HIDE DEF cost, price
    <2> QED
      BY <1>0, <2>1, <2>2, FetchedCounted
  <1>2. CASE Commit(t, c)
    <2>1. TradeGroup' = Committed(TradeGroup, c) /\ TradeGroup.pc[c] = "commit"
      BY <1>2, TradeMoves DEF Commit, TradeGroup
    <2>2. Ends(c, TradeGroup, TradeGroup', "fetch") /\ TradeGroup'.offset = Position(TradeGroup, c)
      BY <1>0, <2>1, CommittedEnds
    <2>3. price = cost
      BY <1>2 DEF Commit
    <2> HIDE DEF cost, price
    <2> QED
      BY <1>0, <2>2, <2>3, CommittedCounted DEF Idle
  <1>3. CASE CommitRaises(t, c)
    <2>1. PICK h \in CommitRaised(TradeGroup, c) : TradeGroup' = h
      BY <1>3, TradeMoves DEF CommitRaises, TradeGroup
    <2>2. Ends(c, TradeGroup, TradeGroup', "dead")
      BY <1>0, <1>3, <2>1, CommitRaisedEnds DEF CommitRaises, TradeGroup
    <2>3. price \in Nat /\ cost < price
      BY <1>0, <1>3 DEF CommitRaises, Fault
    <2> HIDE DEF cost, price
    <2> QED
      BY <1>0, <2>2, <2>3, EndsCounted DEF Idle
  <1>4. CASE HandlerFails(t, c) \/ TradeWithoutUser(c) \/ TradeWithoutItem(c)
    <2>1. TradeGroup' = Raised(TradeGroup, c) /\ Handling(TradeGroup, c)
      BY <1>4, TradeMoves DEF HandlerFails, TradeWithoutUser, TradeWithoutItem, TradeGroup, Handling
    <2>2. \E label \in {"handle", "commit"} : Moved(c, TradeGroup, TradeGroup', label)
      BY <1>0, <2>1, RaisedMoved
    <2>3. price \in Nat /\ cost <= price
      BY <1>0, <1>4 DEF HandlerFails, TradeWithoutUser, TradeWithoutItem, Fault
    <2> HIDE DEF cost, price
    <2> QED
      BY <1>0, <2>1, <2>2, <2>3, MovedCounted
  <1>5. CASE HandleTrade(c)
    <2>1. TradeGroup' = GoesTo(TradeGroup, c, "insert") /\ Handling(TradeGroup, c)
      BY <1>5, TradeMoves DEF HandleTrade, TradeGroup, Handling
    <2>2. Moved(c, TradeGroup, TradeGroup', "insert")
      BY <1>0, <2>1, GoesToMoved
    <2>3. price = cost
      BY <1>5 DEF HandleTrade
    <2> HIDE DEF cost, price
    <2> QED
      BY <1>0, <2>1, <2>2, <2>3, MovedCounted
  <1>6. CASE Assign(t, c)
    <2>1. TradeGroup' = Assigned(TradeGroup, c)
      BY <1>6, TradeMoves DEF Assign, TradeGroup
    <2>2. price \in Nat /\ cost <= price /\ (TradeGroup.member = None \/ cost < price)
      BY <1>0, <1>6 DEF Assign, TradeGroup
    <2> HIDE DEF cost, price
    <2> QED
      BY <1>0, <2>1, <2>2, AssignedCounted
  <1> QED
    BY <1>1, <1>2, <1>3, <1>4, <1>5, <1>6

LEMMA AddOwnedItemCount ==
    ASSUME CountInv, ProfilesInv, NEW c \in Replicas, AddOwnedItem(c)
    PROVE  CountInv'
  <1> DEFINE cost == faults + moves
             price == faults' + moves'
  <1>1. /\ Counted(TradeGroup, items, cost) /\ items \in Counts
        /\ cost \in Nat /\ faults \in Nat /\ moves \in Nat
        /\ LoopInv(TradeGroup, MaxTrades, Insert) /\ TradeGroup \in Groups(MaxTrades, Insert)
    BY NatBounds DEF CountInv
  <1>2. /\ Handling(TradeGroup, c)
        /\ items' = [items EXCEPT ![TradeGroup.at[c]] = items[TradeGroup.at[c]] + 1]
        /\ moves' = moves
    BY DEF AddOwnedItem, TradeGroup, Handling
  <1>3. TradeGroup.at[c] \in 1..MaxTrades
    BY <1>2, TradeHeld
  <1>4. /\ items' \in Counts
        /\ \A n \in 1..MaxTrades :
              items'[n] = items[n] + (IF n = TradeGroup.at[c] THEN 1 ELSE 0)
    BY <1>1, <1>2, <1>3 DEF Counts
  <1>5. \/ TradeGroup' = Handled(TradeGroup, c) /\ faults' = faults
        \/ TradeGroup' = Raised(TradeGroup, c) /\ faults' = faults + 1
    BY TradeMoves DEF AddOwnedItem, Answered, Fault, TradeGroup
  <1>6. /\ price \in Nat /\ cost <= price
        /\ \E label \in {"handle", "commit"} :
              Moved(c, TradeGroup, TradeGroup', label) /\ (label = "commit" \/ cost < price)
    <2>1. price \in Nat /\ cost <= price /\ (faults' = faults + 1 => cost < price)
      BY <1>1, <1>2, <1>5
    <2> HIDE DEF cost, price
    <2>2. CASE TradeGroup' = Handled(TradeGroup, c)
      BY <1>1, <2>1, <2>2, HandledMoved
    <2>3. CASE TradeGroup' = Raised(TradeGroup, c) /\ faults' = faults + 1
      BY <1>1, <2>1, <2>3, RaisedMoved
    <2> QED
      BY <1>5, <2>1, <2>2, <2>3
  <1> HIDE DEF cost, price
  <1>7. Counted(TradeGroup', items', price)
    <2>1. PICK label \in {"handle", "commit"} :
            Moved(c, TradeGroup, TradeGroup', label) /\ (label = "commit" \/ cost < price)
      BY <1>6
    <2> DEFINE h == TradeGroup'
               e == items'
    <2>2. /\ e \in Counts /\ Moved(c, TradeGroup, h, label)
          /\ \A n \in 1..MaxTrades :
                e[n] = items[n] + (IF n = TradeGroup.at[c] THEN 1 ELSE 0)
      BY <1>4, <2>1
    <2> HIDE DEF h, e
    <2>3. Counted(h, e, price)
      BY <1>1, <1>2, <1>6, <2>1, <2>2, InsertedCounted
    <2> QED
      BY <2>3 DEF h, e
  <1> QED
    BY <1>7 DEF CountInv, price

LEMMA CrashCount ==
    ASSUME CountInv, ProfilesInv, NEW c \in Replicas, Crash(c)
    PROVE  CountInv'
  <1> DEFINE cost == faults + moves
             price == faults' + moves'
  <1>1. /\ Counted(TradeGroup, items, cost) /\ items \in Counts
        /\ cost \in Nat /\ faults \in Nat /\ moves \in Nat
        /\ LoopInv(TradeGroup, MaxTrades, Insert) /\ TradeGroup \in Groups(MaxTrades, Insert)
    BY NatBounds DEF CountInv
  <1>2. TradeGroup' = Crashed(TradeGroup, c) /\ UNCHANGED items
    BY DEF Crash, TradeGroup, Topics, tables
  <1>3. Ends(c, TradeGroup, TradeGroup', "fetch")
    BY <1>1, <1>2, GoneFields DEF Crashed, Idle
  <1>4. price \in Nat /\ cost < price
    BY <1>1 DEF Crash, Fault
  <1> HIDE DEF cost, price
  <1>5. Counted(TradeGroup', items, price)
    BY <1>1, <1>3, <1>4, EndsCounted DEF Idle
  <1> QED
    BY <1>2, <1>5 DEF CountInv, price

LEMMA CountNext == ProfilesInv /\ ProfilesInv' /\ CountInv /\ [Next]_vars => CountInv'
  <1> SUFFICES ASSUME ProfilesInv, ProfilesInv', CountInv, [Next]_vars PROVE CountInv'
    OBVIOUS
  <1>1. CASE UNCHANGED vars
    BY <1>1, Elsewhere, NatBounds DEF vars, TradeGroup
  <1>2. ASSUME NEW c \in Replicas, NEW t \in Topics,
               Consume(t, c) \/ CommitRaises(t, c) \/ HandlerFails(t, c) \/ Assign(t, c)
        PROVE  CountInv'
    <2>1. CASE t = "user-events"
      BY <1>2, <2>1, UserCount DEF Consume
    <2>2. CASE t = "trade-events"
      BY <1>2, <2>2, TradeCount, AddOwnedItemCount DEF Consume
    <2> QED
      BY <2>1, <2>2 DEF Topics
  <1>3. ASSUME NEW u \in Users,
               \/ Register(u) \/ Publish(u) \/ MarkDispatched(u)
               \/ \E a \in Avatars : SetAvatar(u, a)
        PROVE  CountInv'
    <2>1. UNCHANGED <<group, items, faults, moves>>
      BY <1>3 DEF Register, Publish, MarkDispatched, SetAvatar, tables
    <2> QED
      BY <2>1, Elsewhere, NatBounds DEF TradeGroup
  <1> QED
    BY <1>1, <1>2, <1>3, CrashCount DEF Next

LEMMA CountAlways == Spec => []CountInv
  BY CountInit, CountNext, Invariance, PTL DEF Spec

(* No item that was granted is missing, and none is there more often than  *)
(* faults and rebalances account for, over all messages together: each     *)
(* brings at most one message to its insert once more, since only the one  *)
(* after the committed offset can be delivered again                       *)
(* (inventory_projector.py:11-22, kafka_consumer_base.py:59-88).           *)
THEOREM InventoryAddsUp == Spec => []ItemsAccountedFor
  <1>1. ProfilesInv /\ CountInv /\ NoItemMissing => ItemsAccountedFor
    <2> SUFFICES ASSUME ProfilesInv, CountInv PROVE Cardinality(Surplus) <= faults + moves
      BY DEF ItemsAccountedFor
    <2> DEFINE a == Ahead(TradeGroup, items)
    <2>1. items \in Counts /\ a \in Counts /\ faults + moves \in Nat
      BY NatBounds, AheadCounts
    <2>2. IsFiniteSet(Over(a)) /\ Cardinality(Over(a)) <= faults + moves
      BY DEF CountInv, Counted
    <2>3. \A n \in 1..MaxTrades : items[n] <= a[n]
      <3> TAKE n \in 1..MaxTrades
      <3>1. items[n] \in Nat /\ Due(TradeGroup, n) \in Nat
            /\ Cardinality(Handlers(TradeGroup, n)) \in Nat
        BY <2>1, HandlersCount DEF Counts, Due
      <3>2. a[n] = items[n] + Cardinality(Handlers(TradeGroup, n)) + Due(TradeGroup, n)
        BY <2>1, AheadCounts
      <3> HIDE DEF a, Due, Handlers
      <3> QED
        BY <3>1, <3>2
    <2> HIDE DEF a
    <2>4. Rises(a, items, 0)
      BY <2>1, <2>3 DEF Rises, Counts
    <2>5. Surplus = Over(items)
      BY DEF Surplus, Over
    <2>6. IsFiniteSet(Surplus) /\ Cardinality(Surplus) <= Cardinality(Over(a))
      BY <2>1, <2>2, <2>4, <2>5, NoMore
    <2>7. Cardinality(Surplus) \in Nat /\ Cardinality(Over(a)) \in Nat
      BY <2>2, <2>6, FS_CardinalityType
    <2> HIDE DEF Surplus, Over
    <2> QED
      BY <2>1, <2>2, <2>6, <2>7
  <1> QED
    BY <1>1, Invariance, CountAlways, ItemsArrive, PTL

=============================================================================
