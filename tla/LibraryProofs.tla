----------------------------- MODULE LibraryProofs -----------------------------
(***************************************************************************)
(* For any number of replicas, messages, faults and rebalances: every      *)
(* variable of Library keeps its type, and no message is committed that no *)
(* handler has finished or given up.  While no rebalance takes the         *)
(* partition from a live replica the library follows the catalog, holds a  *)
(* game once, and keeps hidden what its owner has hidden.                  *)
(*                                                                         *)
(* What the loops do to the group is ConsumerLoopProofs'.  Here is what    *)
(* the handlers add: a message that has an owner and a game names a key,   *)
(* and only a grant is ever looked up and inserted.                        *)
(***************************************************************************)
EXTENDS Library, FiniteSetTheorems, ConsumerLoopProofs

USE ConstantsOK

Labels == {"look", "insert"}

LogOK ==
    /\ log \in Seq(Messages)
    /\ \A i \in 1..Len(log) : log[i].type # "Malformed" => log[i].key \in Keys

BoundsOK == faults \in 0..MaxFaults /\ moves \in 0..MaxMoves

OnlyGrants ==
    \A c \in Replicas :
        group.pc[c] \in Labels => log[group.at[c]].type = "OwnershipGranted"

ConsumerInv ==
    LogOK /\ LoopInv(group, Len(log), Labels) /\ OnlyGrants /\ TablesTypeOK /\ BoundsOK

LEMMA LengthIsNat == LogOK => Len(log) \in Nat
  BY DEF LogOK

LEMMA InitInv == Init => ConsumerInv
  <1> SUFFICES ASSUME Init PROVE ConsumerInv
    OBVIOUS
  <1>1. LogOK /\ TablesTypeOK /\ BoundsOK
    BY DEF Init, LogOK, TablesTypeOK, BoundsOK
  <1>2. LoopInv(group, Len(log), Labels)
    BY <1>1, LengthIsNat, SubscribedInv DEF Init
  <1>3. OnlyGrants
    BY DEF Init, OnlyGrants, Subscribed, Labels
  <1> QED
    BY <1>1, <1>2, <1>3 DEF ConsumerInv

(* A message that is appended changes none that is there. *)
LEMMA ProduceInv ==
    ASSUME ConsumerInv, Produce
    PROVE  ConsumerInv'
  <1> USE DEF ConsumerInv
  <1>1. PICK m \in Messages : /\ log' = Append(log, m)
                              /\ m.type # "Malformed" => m.key \in Keys
    <2>1. CASE log' = Append(log, [type |-> "Malformed", key |-> None])
      <3>1. [type |-> "Malformed", key |-> None] \in Messages
        BY DEF Messages
      <3> QED
        BY <2>1, <3>1
    <2>2. ASSUME NEW k \in Keys, NEW t \in {"OwnershipGranted", "OwnershipRevoked"},
                 log' = Append(log, [type |-> t, key |-> k])
          PROVE  \E m \in Messages : /\ log' = Append(log, m)
                                     /\ m.type # "Malformed" => m.key \in Keys
      <3>1. [type |-> t, key |-> k] \in Messages
        BY DEF Messages
      <3> QED
        BY <2>2, <3>1
    <2> QED
      BY <2>1, <2>2 DEF Produce
  <1>2. /\ Len(log) \in Nat /\ Len(log') \in Nat /\ Len(log') = Len(log) + 1
        /\ log' \in Seq(Messages)
        /\ \A i \in 1..Len(log) : log'[i] = log[i]
        /\ log'[Len(log) + 1] = m
    <2>1. log \in Seq(Messages)
      BY DEF LogOK
    <2> QED
      BY <1>1, <2>1
  <1>3. UNCHANGED <<group, games, profiles, synced, faults, moves>>
    BY DEF Produce, tables
  <1>4. LogOK'
    <2> SUFFICES ASSUME NEW i \in 1..Len(log')
                 PROVE  log'[i].type # "Malformed" => log'[i].key \in Keys
      BY <1>2 DEF LogOK
    <2>1. CASE i = Len(log) + 1
      BY <1>1, <1>2, <2>1
    <2>2. CASE i \in 1..Len(log)
      BY <1>2, <2>2 DEF LogOK
    <2> QED
      BY <1>2, <2>1, <2>2
  <1>5. LoopInv(group, Len(log'), Labels)
    BY <1>2, GrowsInv
  <1>6. OnlyGrants'
    <2> SUFFICES ASSUME NEW c \in Replicas, group.pc[c] \in Labels
                 PROVE  log'[group.at[c]].type = "OwnershipGranted"
      BY <1>3 DEF OnlyGrants
    <2>1. group.at[c] \in 1..Len(log)
      BY DEF LoopInv, Holds, Idle, Labels
    <2> QED
      BY <1>2, <2>1 DEF OnlyGrants
  <1> QED
    BY <1>3, <1>4, <1>5, <1>6 DEF TablesTypeOK, BoundsOK

(* A step of replica c's loop, or of its handler. *)
LEMMA LoopStepInv ==
    ASSUME ConsumerInv, NEW c \in Replicas,
           LoopInv(group', Len(log), Labels), Only(c, group, group'),
           group'.pc[c] \in Labels =>
              group'.at[c] = group.at[c] /\ Message(c).type = "OwnershipGranted",
           UNCHANGED log, TablesTypeOK', BoundsOK'
    PROVE  ConsumerInv'
  <1>1. LogOK'
    BY DEF ConsumerInv, LogOK
  <1>2. OnlyGrants'
    <2> SUFFICES ASSUME NEW d \in Replicas, group'.pc[d] \in Labels
                 PROVE  log[group'.at[d]].type = "OwnershipGranted"
      BY DEF OnlyGrants
    <2>1. CASE d = c
      BY <2>1 DEF Message
    <2>2. CASE d # c
      BY <2>2 DEF Only, ConsumerInv, OnlyGrants
    <2> QED
      BY <2>1, <2>2
  <1> QED
    BY <1>1, <1>2 DEF ConsumerInv

LEMMA OwnIsNoLabel == \A x \in Own : x \notin Labels
  BY DEF Own, Labels

LEMMA FaultInv == ConsumerInv /\ (Fault \/ UNCHANGED faults) /\ UNCHANGED moves => BoundsOK'
  BY DEF ConsumerInv, BoundsOK, Fault

(* The loop itself: no table changes. *)
LEMMA LoopInvKept ==
    ASSUME ConsumerInv, NEW c \in Replicas,
           Fetch(c) \/ Commit(c) \/ CommitRaises(c) \/ Crash(c)
    PROVE  ConsumerInv'
  <1>1. UNCHANGED <<log, games, profiles, synced, moves>> /\ (Fault \/ UNCHANGED faults)
    BY DEF Fetch, Commit, CommitRaises, Crash, tables
  <1>2. TablesTypeOK' /\ BoundsOK'
    BY <1>1, FaultInv DEF ConsumerInv, TablesTypeOK
  <1>3. Len(log) \in Nat /\ LoopInv(group, Len(log), Labels)
    BY LengthIsNat DEF ConsumerInv
  <1>4. /\ LoopInv(group', Len(log), Labels) /\ Only(c, group, group')
        /\ group'.pc[c] \in Own
    <2>1. CASE Fetch(c)
      BY <1>3, <2>1, FetchedInv DEF Fetch
    <2>2. CASE Commit(c)
      BY <1>3, <2>2, CommittedInv DEF Commit
    <2>3. CASE CommitRaises(c)
      BY <1>3, <2>3, CommitRaisedInv DEF CommitRaises
    <2>4. CASE Crash(c)
      BY <1>3, <2>4, CrashedInv DEF Crash
    <2> QED
      BY <2>1, <2>2, <2>3, <2>4
  <1> QED
    BY <1>1, <1>2, <1>4, OwnIsNoLabel, LoopStepInv

LEMMA AssignInv ==
    ASSUME ConsumerInv, NEW c \in Replicas, Assign(c)
    PROVE  ConsumerInv'
  <1>1. /\ UNCHANGED <<log, games, profiles, synced, faults>>
        /\ group' = Assigned(group, c)
        /\ moves' = moves \/ (moves < MaxMoves /\ moves' = moves + 1)
    BY DEF Assign, tables
  <1>2. Len(log) \in Nat /\ LoopInv(group, Len(log), Labels)
    BY LengthIsNat DEF ConsumerInv
  <1>3. LoopInv(group', Len(log), Labels) /\ group'.pc = group.pc /\ group'.at = group.at
    BY <1>1, <1>2, AssignedInv
  <1>4. OnlyGrants' /\ LogOK' /\ TablesTypeOK'
    BY <1>1, <1>3 DEF ConsumerInv, OnlyGrants, LogOK, TablesTypeOK
  <1>5. BoundsOK'
    BY <1>1 DEF ConsumerInv, BoundsOK
  <1> QED
    BY <1>1, <1>3, <1>4, <1>5 DEF ConsumerInv

(* A handler that returns or raises, its transaction committed or not. *)
LEMMA HandlerEndsInv ==
    ASSUME ConsumerInv, NEW c \in Replicas, Handling(group, c),
           group' = Handled(group, c) \/ group' = Raised(group, c),
           UNCHANGED log, TablesTypeOK', BoundsOK'
    PROVE  ConsumerInv'
  <1>1. Len(log) \in Nat /\ LoopInv(group, Len(log), Labels)
    BY LengthIsNat DEF ConsumerInv
  <1>2. /\ LoopInv(group', Len(log), Labels) /\ Only(c, group, group')
        /\ group'.pc[c] \in Own
    <2>1. CASE group' = Handled(group, c)
      BY <1>1, <2>1, HandledInv
    <2>2. CASE group' = Raised(group, c)
      BY <1>1, <2>2, RaisedInv
    <2> QED
      BY <2>1, <2>2
  <1> QED
    BY <1>2, OwnIsNoLabel, LoopStepInv

(* A handler of a grant that goes on to its next step. *)
LEMMA HandlerGoesOnInv ==
    ASSUME ConsumerInv, NEW c \in Replicas, Handling(group, c),
           NEW label \in Labels, group' = GoesTo(group, c, label),
           Message(c).type = "OwnershipGranted",
           UNCHANGED log, TablesTypeOK', BoundsOK'
    PROVE  ConsumerInv'
  <1>1. Len(log) \in Nat /\ LoopInv(group, Len(log), Labels)
    BY LengthIsNat DEF ConsumerInv
  <1>2. label \notin Idle \cup {"commit"}
    BY DEF Labels, Idle
  <1>3. LoopInv(group', Len(log), Labels) /\ Only(c, group, group')
    BY <1>1, <1>2, GoesToInv
  <1>4. group'.at[c] = group.at[c]
    BY <1>1 DEF GoesTo, LoopInv, GroupTypeOK, Groups
  <1> QED
    BY <1>3, <1>4, LoopStepInv

LEMMA FailInv ==
    ASSUME ConsumerInv, NEW c \in Replicas, HandlerFails(c) \/ HandleMalformed(c)
    PROVE  ConsumerInv'
  <1>1. /\ Handling(group, c) /\ group' = Raised(group, c)
        /\ UNCHANGED <<log, games, profiles, synced, moves>>
        /\ Fault \/ UNCHANGED faults
    BY DEF HandlerFails, HandleMalformed, Handling, At, tables
  <1>2. TablesTypeOK' /\ BoundsOK'
    BY <1>1, FaultInv DEF ConsumerInv, TablesTypeOK
  <1> QED
    BY <1>1, <1>2, HandlerEndsInv

LEMMA GrantedInv ==
    ASSUME ConsumerInv, NEW c \in Replicas, HandleGranted(c)
    PROVE  ConsumerInv'
  <1> DEFINE u == OwnerOf[Message(c).key]
  <1>1. /\ Handling(group, c) /\ Message(c).type = "OwnershipGranted"
        /\ group' = GoesTo(group, c, "look") /\ "look" \in Labels
        /\ UNCHANGED <<log, games, synced, faults, moves>>
    BY DEF HandleGranted, At, Handling, Labels
  <1>2. TablesTypeOK'
    <2>1. profiles' = IF profiles[u] = None
                      THEN [profiles EXCEPT ![u] = ""] ELSE profiles
      BY DEF HandleGranted, CreateIfMissing
    <2> HIDE DEF u
    <2> QED
      BY <1>1, <2>1 DEF ConsumerInv, TablesTypeOK
  <1>3. BoundsOK'
    BY <1>1, FaultInv
  <1> QED
    BY <1>1, <1>2, <1>3, HandlerGoesOnInv

LEMMA OwnsGameInv ==
    ASSUME ConsumerInv, NEW c \in Replicas, OwnsGame(c)
    PROVE  ConsumerInv'
  <1>1. /\ Handling(group, c) /\ "insert" \in Labels
        /\ Message(c).type = "OwnershipGranted"
        /\ \/ group' = GoesTo(group, c, "insert")
           \/ group' = Handled(group, c) \/ group' = Raised(group, c)
        /\ UNCHANGED <<log, games, profiles, synced, faults, moves>>
    BY DEF OwnsGame, At, Handling, Labels, ConsumerInv, OnlyGrants, Message, tables
  <1>2. TablesTypeOK' /\ BoundsOK'
    BY <1>1, FaultInv DEF ConsumerInv, TablesTypeOK
  <1> QED
    BY <1>1, <1>2, HandlerGoesOnInv, HandlerEndsInv

LEMMA AddOwnedGameInv ==
    ASSUME ConsumerInv, NEW c \in Replicas, AddOwnedGame(c)
    PROVE  ConsumerInv'
  <1>1. /\ Handling(group, c) /\ group.pc[c] \in Labels
        /\ group' = Handled(group, c) \/ group' = Raised(group, c)
        /\ Fault \/ UNCHANGED faults
        /\ UNCHANGED <<log, profiles, synced, moves>>
    BY DEF AddOwnedGame, At, Answered, Handling, Labels
  <1>2. Message(c).key \in Keys
    <2>1. group.at[c] \in 1..Len(log) /\ Message(c).type = "OwnershipGranted"
      BY <1>1 DEF ConsumerInv, LoopInv, Holds, Idle, Labels, OnlyGrants, Message
    <2> QED
      BY <2>1 DEF ConsumerInv, LogOK, Message
  <1>3. TablesTypeOK'
    <2>1. PICK i \in 1..MaxRows :
            games' = [games EXCEPT ![i] = [key |-> Message(c).key, hidden |-> FALSE]]
      BY DEF AddOwnedGame
    <2>2. [key |-> Message(c).key, hidden |-> FALSE]
            \in [key: Keys, hidden: BOOLEAN] \cup {None}
      BY <1>2
    <2>3. games \in [1..MaxRows -> [key: Keys, hidden: BOOLEAN] \cup {None}]
      BY DEF ConsumerInv, TablesTypeOK
    <2>4. games' \in [1..MaxRows -> [key: Keys, hidden: BOOLEAN] \cup {None}]
      BY <2>1, <2>2, <2>3
    <2> QED
      BY <1>1, <2>4 DEF ConsumerInv, TablesTypeOK
  <1>4. BoundsOK'
    BY <1>1, FaultInv
  <1> QED
    BY <1>1, <1>3, <1>4, HandlerEndsInv

LEMMA RevokedInv ==
    ASSUME ConsumerInv, NEW c \in Replicas, HandleRevoked(c)
    PROVE  ConsumerInv'
  <1>1. /\ Handling(group, c)
        /\ group' = Handled(group, c) \/ group' = Raised(group, c)
        /\ Fault \/ UNCHANGED faults
        /\ UNCHANGED <<log, profiles, synced, moves>>
    BY DEF HandleRevoked, At, Answered, Handling
  <1>2. TablesTypeOK'
    BY <1>1 DEF HandleRevoked, ConsumerInv, TablesTypeOK
  <1>3. BoundsOK'
    BY <1>1, FaultInv
  <1> QED
    BY <1>1, <1>2, <1>3, HandlerEndsInv

(* The owner and the other projector only write tables. *)
LEMMA OthersInv ==
    ASSUME ConsumerInv,
           \/ \E k \in Keys : HideGame(k) \/ UnhideGame(k)
           \/ \E u \in Owners : SyncUser(u)
           \/ UNCHANGED vars
    PROVE  ConsumerInv'
  <1> USE DEF ConsumerInv
  <1>1. UNCHANGED <<log, group, faults, moves>>
    BY DEF HideGame, UnhideGame, SetHidden, SyncUser, vars
  <1>2. TablesTypeOK'
    <2>1. CASE \E k \in Keys : HideGame(k) \/ UnhideGame(k)
      <3>1. PICK k \in Keys, h \in BOOLEAN : SetHidden(k, h)
        BY <2>1 DEF HideGame, UnhideGame
      <3>2. PICK i \in RowsOf(k) : /\ games' = [games EXCEPT ![i].hidden = h]
                                   /\ UNCHANGED <<profiles, synced>>
        BY <3>1 DEF SetHidden
      <3>3. i \in 1..MaxRows /\ games[i] \in [key: Keys, hidden: BOOLEAN]
        BY <3>2 DEF RowsOf, TablesTypeOK
      <3> QED
        BY <3>2, <3>3 DEF TablesTypeOK
    <2>2. CASE \E u \in Owners : SyncUser(u)
      BY <2>2 DEF SyncUser, CreateIfMissing, TablesTypeOK
    <2>3. CASE UNCHANGED vars
      BY <2>3 DEF vars, TablesTypeOK
    <2> QED
      BY <2>1, <2>2, <2>3
  <1>3. LogOK' /\ LoopInv(group, Len(log), Labels)' /\ OnlyGrants' /\ BoundsOK'
    BY <1>1 DEF LogOK, OnlyGrants, BoundsOK
  <1> QED
    BY <1>2, <1>3

LEMMA NextInv == ConsumerInv /\ [Next]_vars => ConsumerInv'
  <1> SUFFICES ASSUME ConsumerInv, [Next]_vars PROVE ConsumerInv'
    OBVIOUS
  <1>1. CASE Produce
    BY <1>1, ProduceInv
  <1>2. ASSUME NEW c \in Replicas,
               Consume(c) \/ Assign(c) \/ CommitRaises(c) \/ Crash(c) \/ HandlerFails(c)
        PROVE  ConsumerInv'
    <2>1. CASE Consume(c)
      BY <2>1, LoopInvKept, FailInv, GrantedInv, OwnsGameInv,
         AddOwnedGameInv, RevokedInv DEF Consume
    <2> QED
      BY <1>2, <2>1, AssignInv, LoopInvKept, FailInv
  <1> QED
    BY <1>1, <1>2, OthersInv DEF Next

LEMMA Invariance == Spec => []ConsumerInv
  BY InitInv, NextInv, PTL DEF Spec

(* Every variable of the consumers and of the tables they write keeps its  *)
(* type (KafkaConsumerBase, LibraryProjector).                             *)
THEOREM TypeCorrect == Spec => []TypeOK
  <1>1. ConsumerInv => TypeOK
    BY DEF ConsumerInv, TypeOK, LoopInv, LogOK, BoundsOK, Labels
  <1> QED
    BY <1>1, Invariance, PTL

(* However the partition moves and whatever fails, a committed message was *)
(* handled to the end or given up (kafka_consumer_base.py:39, 59-88).      *)
THEOREM CommittedIsHandled == Spec => []AtLeastOnce
  <1>1. ConsumerInv => AtLeastOnce
    BY DEF ConsumerInv, LoopInv, AtLeastOnce
  <1> QED
    BY <1>1, Invariance, PTL

-----------------------------------------------------------------------------
(* While no rebalance takes the partition from a live replica, one handler *)
(* runs at a time, and it holds the message after the committed one.  So   *)
(* what a handler has looked up still holds when it inserts, and the       *)
(* library is as that message found it or as it leaves it.                 *)
(*                                                                         *)
(* t and u are library tables, l is a topic, g and h are groups.           *)

Rows(t, k) == {i \in 1..MaxRows : t[i] # None /\ t[i].key = k}

Granted(k) == [type |-> "OwnershipGranted", key |-> k]
Revoked(k) == [type |-> "OwnershipRevoked", key |-> k]

Owned(l, k, n) ==
    \E i \in 1..n : l[i] = Granted(k) /\ \A j \in (i + 1)..n : l[j] # Revoked(k)

OneRow(t) == \A k \in Keys : \A i, j \in Rows(t, k) : i = j

(* The library is what the catalog had said after n messages. *)
Is(t, l, n) == \A k \in Keys : Rows(t, k) # {} <=> Owned(l, k, n)

LookedUp(t, l, g) ==
    \A c \in Replicas : g.pc[c] = "insert" => Rows(t, l[g.at[c]].key) = {}

OnlyMalformed(l, g) == g.givenUp \subseteq {n \in 1..Len(l) : l[n].type = "Malformed"}

Handed(t, l, g) == \A c \in Replicas : g.pc[c] = "commit" => Is(t, l, g.at[c])

Between(t, l, g) ==
    Is(t, l, g.offset) \/ (g.offset < Len(l) /\ Is(t, l, g.offset + 1))

Calm(t, l, g) ==
    /\ Alone(g) /\ OneRow(t) /\ LookedUp(t, l, g)
    /\ OnlyMalformed(l, g) => Handed(t, l, g) /\ Between(t, l, g)

CalmInv == moves = 0 => Calm(games, log, group)

Sound(l, g) ==
    /\ l \in Seq(Messages)
    /\ \A i \in 1..Len(l) : l[i].type # "Malformed" => l[i].key \in Keys
    /\ LoopInv(g, Len(l), Labels)

LEMMA IsSound == ConsumerInv => Sound(log, group)
  BY DEF ConsumerInv, LogOK, Sound

(* What a replica holds that is alone. *)
LEMMA HoldsNext ==
    ASSUME NEW l, NEW g, Sound(l, g), Alone(g),
           NEW c \in Replicas, g.pc[c] \notin Idle
    PROVE  /\ g.at[c] = g.offset + 1 /\ g.at[c] \in 1..Len(l)
           /\ g.offset \in Nat /\ g.offset < Len(l) /\ Len(l) \in Nat
           /\ l[g.at[c]] \in Messages
           /\ l[g.at[c]].type # "Malformed" => l[g.at[c]].key \in Keys
           /\ \A d \in Replicas \ {c} : g.pc[d] \in Idle
  <1>1. Len(l) \in Nat /\ l \in Seq(Messages)
    BY DEF Sound
  <1>2. g.at[c] = g.offset + 1 /\ g.at[c] \in 1..Len(l)
    BY DEF Sound, LoopInv, Holds, Alone
  <1>3. g.offset \in 0..Len(l)
    BY DEF Sound, LoopInv, GroupTypeOK, Groups
  <1>4. \A d \in Replicas \ {c} : g.pc[d] \in Idle
    BY DEF Alone
  <1>5. l[g.at[c]] \in Messages
    BY <1>1, <1>2
  <1>6. l[g.at[c]].type # "Malformed" => l[g.at[c]].key \in Keys
    BY <1>2 DEF Sound
  <1> QED
    BY <1>1, <1>2, <1>3, <1>4, <1>5, <1>6

(* One message more: what it grants or revokes, and all else as before.    *)
LEMMA OwnedStep ==
    ASSUME NEW l, NEW k, NEW n \in Nat
    PROVE  Owned(l, k, n + 1) <=>
              \/ l[n + 1] = Granted(k)
              \/ Owned(l, k, n) /\ l[n + 1] # Revoked(k)
  <1> DEFINE G(i) == l[i] = Granted(k)
             R(i) == l[i] = Revoked(k)
  <1>1. \A m \in Nat : Owned(l, k, m) <=> \E i \in 1..m : G(i) /\ \A j \in (i + 1)..m : ~R(j)
    BY DEF Owned
  <1>2. \A i : ~(G(i) /\ R(i))
    BY DEF Granted, Revoked
  <1> HIDE DEF G, R
  <1>3. ASSUME Owned(l, k, n + 1) PROVE G(n + 1) \/ (Owned(l, k, n) /\ ~R(n + 1))
    <2>1. PICK i \in 1..(n + 1) : G(i) /\ \A j \in (i + 1)..(n + 1) : ~R(j)
      BY <1>1, <1>3
    <2>2. CASE i = n + 1
      BY <2>1, <2>2
    <2>3. CASE i \in 1..n
      <3>1. ~R(n + 1) /\ \A j \in (i + 1)..n : ~R(j)
        BY <2>1, <2>3
      <3> QED
        BY <1>1, <2>1, <2>3, <3>1
    <2> QED
      BY <2>2, <2>3
  <1>4. ASSUME G(n + 1) PROVE Owned(l, k, n + 1)
    <2>1. n + 1 \in 1..(n + 1) /\ \A j \in (n + 1 + 1)..(n + 1) : ~R(j)
      OBVIOUS
    <2> QED
      BY <1>1, <1>4, <2>1
  <1>5. ASSUME Owned(l, k, n), ~R(n + 1) PROVE Owned(l, k, n + 1)
    <2>1. PICK i \in 1..n : G(i) /\ \A j \in (i + 1)..n : ~R(j)
      BY <1>1, <1>5
    <2>2. i \in 1..(n + 1) /\ \A j \in (i + 1)..(n + 1) : ~R(j)
      <3> SUFFICES ASSUME NEW j \in (i + 1)..(n + 1) PROVE ~R(j)
        OBVIOUS
      <3>1. j \in (i + 1)..n \/ j = n + 1
        OBVIOUS
      <3> QED
        BY <1>5, <2>1, <3>1
    <2> QED
      BY <1>1, <2>1, <2>2
  <1>6. Owned(l, k, n + 1) <=> (G(n + 1) \/ (Owned(l, k, n) /\ ~R(n + 1)))
    BY <1>3, <1>4, <1>5
  <1> QED
    BY <1>6 DEF G, R

(* What a message changes, seen from a table that fits what was before it, *)
(* or what is after it.                                                    *)
LEMMA AfterMessage ==
    ASSUME NEW t, NEW u, NEW l, NEW n \in Nat,
           Is(t, l, n) \/ Is(t, l, n + 1),
           NEW key, NEW there \in BOOLEAN, Rows(u, key) # {} <=> there,
           \A k \in Keys \ {key} : Rows(u, k) = Rows(t, k),
           l[n + 1] = IF there THEN Granted(key) ELSE Revoked(key)
    PROVE  Is(u, l, n + 1)
  <1> SUFFICES ASSUME NEW k \in Keys PROVE Rows(u, k) # {} <=> Owned(l, k, n + 1)
    BY DEF Is
  <1>1. Owned(l, k, n + 1) <=>
              \/ l[n + 1] = Granted(k)
              \/ Owned(l, k, n) /\ l[n + 1] # Revoked(k)
    BY OwnedStep
  <1>2. CASE k = key
    BY <1>1, <1>2 DEF Granted, Revoked
  <1>3. CASE k # key
    <2>1. Owned(l, k, n + 1) <=> Owned(l, k, n)
      BY <1>1, <1>3 DEF Granted, Revoked
    <2> QED
      BY <1>3, <2>1 DEF Is
  <1> QED
    BY <1>2, <1>3

(* A malformed message changes nothing. *)
LEMMA AfterMalformed ==
    ASSUME NEW t, NEW l, NEW n \in Nat,
           Is(t, l, n) \/ Is(t, l, n + 1), l[n + 1].type = "Malformed"
    PROVE  Is(t, l, n + 1)
  <1>1. \A k \in Keys : l[n + 1] # Granted(k) /\ l[n + 1] # Revoked(k)
    BY DEF Granted, Revoked
  <1>2. \A k \in Keys : Owned(l, k, n + 1) <=> Owned(l, k, n)
    BY <1>1, OwnedStep
  <1> QED
    BY <1>2 DEF Is

-----------------------------------------------------------------------------
(* What the loop does *)

LEMMA EndsCalm ==
    ASSUME NEW t, NEW l, NEW g, NEW h, Sound(l, g), Calm(t, l, g),
           NEW c \in Replicas, NEW label \in Idle, Ends(c, g, h, label)
    PROVE  Calm(t, l, h)
  <1>1. g \in Groups(Len(l), Labels) /\ Len(l) \in Nat
    BY DEF Sound, LoopInv, GroupTypeOK
  <1>2. Alone(h)
    BY <1>1, EndsAlone DEF Calm
  <1>3. \A d \in Replicas : h.pc[d] \in {"insert", "commit"} =>
            h.pc[d] = g.pc[d] /\ h.at[d] = g.at[d]
    BY <1>1 DEF Ends, Idle, Groups
  <1>4. LookedUp(t, l, h)
    BY <1>3 DEF Calm, LookedUp
  <1>5. ASSUME OnlyMalformed(l, h) PROVE Handed(t, l, h) /\ Between(t, l, h)
    <2>1. OnlyMalformed(l, g)
      BY <1>5 DEF OnlyMalformed, Ends
    <2>2. Handed(t, l, g) /\ Between(t, l, g)
      BY <2>1 DEF Calm
    <2>3. Handed(t, l, h)
      BY <1>3, <2>2 DEF Handed
    <2>4. CASE h.offset = g.offset
      BY <2>2, <2>3, <2>4 DEF Between
    <2>5. CASE h.offset # g.offset
      <3>1. g.pc[c] = "commit" /\ h.offset = Position(g, c)
        BY <2>5 DEF Ends
      <3>2. g.mine[c]
        BY <3>1 DEF Calm, Alone, Idle
      <3>3. h.offset = g.at[c]
        BY <3>1, <3>2 DEF Position
      <3>4. Is(t, l, g.at[c])
        BY <2>2, <3>1 DEF Handed
      <3> QED
        BY <2>3, <3>3, <3>4 DEF Between
    <2> QED
      BY <2>3, <2>4, <2>5
  <1> QED
    BY <1>2, <1>4, <1>5 DEF Calm

LEMMA FetchedCalm ==
    ASSUME NEW t, NEW l, NEW g, Sound(l, g), Calm(t, l, g),
           NEW c \in Replicas, CanFetch(g, c, Len(l))
    PROVE  Calm(t, l, Fetched(g, c))
  <1> DEFINE h == Fetched(g, c)
  <1>1. g \in Groups(Len(l), Labels) /\ Len(l) \in Nat
    BY DEF Sound, LoopInv, GroupTypeOK
  <1>2. /\ Alone(h) /\ h.pc = [g.pc EXCEPT ![c] = "handle"]
        /\ h.offset = g.offset /\ h.givenUp = g.givenUp
    BY <1>1, FetchedAlone DEF Calm
  <1>3. Only(c, g, h)
    BY <1>1, FetchedInv DEF Sound
  <1> HIDE DEF h
  <1>4. \A d \in Replicas : h.pc[d] \in {"insert", "commit"} =>
            h.pc[d] = g.pc[d] /\ h.at[d] = g.at[d]
    BY <1>1, <1>2, <1>3 DEF Only, Groups
  <1>5. OnlyMalformed(l, h) => OnlyMalformed(l, g)
    BY <1>2 DEF OnlyMalformed
  <1>6. LookedUp(t, l, h) /\ (Handed(t, l, g) => Handed(t, l, h))
    BY <1>4 DEF Calm, LookedUp, Handed
  <1>7. Between(t, l, g) => Between(t, l, h)
    BY <1>2 DEF Between
  <1>8. Calm(t, l, h)
    BY <1>2, <1>5, <1>6, <1>7 DEF Calm
  <1> QED
    BY <1>8 DEF h

LEMMA AssignedCalm ==
    ASSUME NEW t, NEW l, NEW g, Sound(l, g), Calm(t, l, g),
           NEW c \in Replicas, g.member = None
    PROVE  Calm(t, l, Assigned(g, c))
  <1> DEFINE h == Assigned(g, c)
  <1>1. g \in Groups(Len(l), Labels) /\ Len(l) \in Nat
    BY DEF Sound, LoopInv, GroupTypeOK
  <1>2. /\ Alone(h) /\ h.pc = g.pc /\ h.at = g.at
        /\ h.offset = g.offset /\ h.givenUp = g.givenUp
    BY <1>1, AssignedAlone DEF Calm
  <1> HIDE DEF h
  <1>3. Calm(t, l, h)
    BY <1>2 DEF Calm, LookedUp, OnlyMalformed, Handed, Between
  <1> QED
    BY <1>3 DEF h

(* The handler of c goes on in its message, with table t become u.         *)
LEMMA MovedCalm ==
    ASSUME NEW t, NEW u, NEW l, NEW g, NEW h, Sound(l, g), Calm(t, l, g),
           NEW c \in Replicas, NEW label, Handling(g, c), Moved(c, g, h, label),
           OneRow(u), label = "insert" => Rows(u, l[g.at[c]].key) = {},
           OnlyMalformed(l, h) =>
              /\ Is(u, l, g.offset) \/ Is(u, l, g.offset + 1)
              /\ label = "commit" => Is(u, l, g.offset + 1)
    PROVE  Calm(u, l, h)
  <1>1. g \in Groups(Len(l), Labels) /\ Len(l) \in Nat /\ g.pc[c] \notin Idle
    BY DEF Sound, LoopInv, GroupTypeOK, Handling, Idle
  <1>2. Alone(h)
    BY <1>1, MovedAlone DEF Calm
  <1>3. /\ g.at[c] = g.offset + 1 /\ g.offset < Len(l)
        /\ \A d \in Replicas \ {c} : g.pc[d] \in Idle
    BY <1>1, HoldsNext DEF Calm
  <1>4. /\ h.pc[c] = label /\ h.at = g.at /\ h.offset = g.offset
        /\ \A d \in Replicas \ {c} : h.pc[d] \in Idle
    BY <1>1, <1>3 DEF Moved, Groups
  <1>5. LookedUp(u, l, h)
    BY <1>4 DEF LookedUp, Idle
  <1>6. OnlyMalformed(l, h) => Handed(u, l, h) /\ Between(u, l, h)
    BY <1>3, <1>4 DEF Handed, Between, Idle
  <1> QED
    BY <1>2, <1>5, <1>6 DEF Calm

(* It raises: if it is given up, nothing more is said unless its message   *)
(* was malformed.                                                          *)
LEMMA RaisedCalm ==
    ASSUME NEW t, NEW u, NEW l, NEW g, Sound(l, g), Calm(t, l, g),
           NEW c \in Replicas, Handling(g, c), OneRow(u),
           OnlyMalformed(l, g) => Is(u, l, g.offset) \/ Is(u, l, g.offset + 1)
    PROVE  Calm(u, l, Raised(g, c))
  <1> DEFINE h == Raised(g, c)
  <1>1. g \in Groups(Len(l), Labels) /\ Len(l) \in Nat /\ g.pc[c] \notin Idle
    BY DEF Sound, LoopInv, GroupTypeOK, Handling, Idle
  <1>2. \/ Moved(c, g, h, "handle") /\ h.givenUp = g.givenUp
        \/ Moved(c, g, h, "commit") /\ h.givenUp = g.givenUp \cup {g.at[c]}
    BY <1>1, RaisedMoved
  <1> HIDE DEF h
  <1>3. g.at[c] = g.offset + 1 /\ g.offset \in Nat
    BY <1>1, HoldsNext DEF Calm
  <1>4. CASE Moved(c, g, h, "handle") /\ h.givenUp = g.givenUp
    <2>1. OnlyMalformed(l, h) => OnlyMalformed(l, g)
      BY <1>4 DEF OnlyMalformed
    <2>2. Calm(u, l, h)
      BY <1>4, <2>1, MovedCalm
    <2> QED
      BY <2>2 DEF h
  <1>5. CASE Moved(c, g, h, "commit") /\ h.givenUp = g.givenUp \cup {g.at[c]}
    <2>1. ASSUME OnlyMalformed(l, h)
          PROVE  Is(u, l, g.offset + 1)
      <3>1. OnlyMalformed(l, g) /\ l[g.offset + 1].type = "Malformed"
        BY <1>3, <1>5, <2>1 DEF OnlyMalformed
      <3> QED
        BY <1>3, <3>1, AfterMalformed
    <2>2. Calm(u, l, h)
      BY <1>5, <2>1, MovedCalm
    <2> QED
      BY <2>2 DEF h
  <1> QED
    BY <1>2, <1>4, <1>5

(* It returns, with the table as its message leaves it.                    *)
LEMMA HandledCalm ==
    ASSUME NEW t, NEW u, NEW l, NEW g, Sound(l, g), Calm(t, l, g),
           NEW c \in Replicas, Handling(g, c), OneRow(u),
           OnlyMalformed(l, g) => Is(u, l, g.offset + 1)
    PROVE  Calm(u, l, Handled(g, c))
  <1> DEFINE h == Handled(g, c)
  <1>1. g \in Groups(Len(l), Labels) /\ Len(l) \in Nat
    BY DEF Sound, LoopInv, GroupTypeOK
  <1>2. Moved(c, g, h, "commit") /\ h.givenUp = g.givenUp
    BY <1>1, HandledMoved
  <1> HIDE DEF h
  <1>3. OnlyMalformed(l, h) => OnlyMalformed(l, g)
    BY <1>2 DEF OnlyMalformed
  <1>4. Calm(u, l, h)
    BY <1>2, <1>3, MovedCalm
  <1> QED
    BY <1>4 DEF h

(* It goes on to its next step. *)
LEMMA GoesToCalm ==
    ASSUME NEW t, NEW l, NEW g, Sound(l, g), Calm(t, l, g),
           NEW c \in Replicas, Handling(g, c), NEW label, label # "commit",
           label = "insert" => Rows(t, l[g.at[c]].key) = {}
    PROVE  Calm(t, l, GoesTo(g, c, label))
  <1> DEFINE h == GoesTo(g, c, label)
  <1>1. g \in Groups(Len(l), Labels) /\ Len(l) \in Nat
    BY DEF Sound, LoopInv, GroupTypeOK
  <1>2. Moved(c, g, h, label) /\ h.givenUp = g.givenUp
    BY <1>1, GoesToMoved
  <1> HIDE DEF h
  <1>3. OnlyMalformed(l, h) => Is(t, l, g.offset) \/ Is(t, l, g.offset + 1)
    BY <1>2 DEF OnlyMalformed, Calm, Between
  <1>4. OneRow(t)
    BY DEF Calm
  <1>5. Calm(t, l, h)
    BY <1>2, <1>3, <1>4, MovedCalm
  <1> QED
    BY <1>5 DEF h

-----------------------------------------------------------------------------
(* What the handlers do *)

LEMMA RowsAre == \A k \in Keys : RowsOf(k) = Rows(games, k)
  BY DEF RowsOf, Rows

LEMMA HandlerFailsCalm ==
    ASSUME ConsumerInv, Calm(games, log, group), NEW c \in Replicas,
           HandlerFails(c) \/ HandleMalformed(c)
    PROVE  Calm(games, log, Raised(group, c))
  <1>1. Sound(log, group) /\ Handling(group, c)
    BY IsSound DEF HandlerFails, HandleMalformed, At, Handling
  <1>2. OneRow(games)
        /\ (OnlyMalformed(log, group) =>
              Is(games, log, group.offset) \/ Is(games, log, group.offset + 1))
    BY DEF Calm, Between
  <1> QED
    BY <1>1, <1>2, RaisedCalm

LEMMA GrantedCalm ==
    ASSUME ConsumerInv, Calm(games, log, group), NEW c \in Replicas, HandleGranted(c)
    PROVE  Calm(games, log, GoesTo(group, c, "look"))
  <1>1. Sound(log, group) /\ Handling(group, c)
    BY IsSound DEF HandleGranted, At, Handling
  <1> QED
    BY <1>1, GoesToCalm

(* The message of c, as a grant or a revocation. *)
LEMMA MessageIs ==
    ASSUME ConsumerInv, Calm(games, log, group), NEW c \in Replicas,
           group.pc[c] \notin Idle, Message(c).type # "Malformed"
    PROVE  /\ group.offset \in Nat /\ group.at[c] = group.offset + 1
           /\ Message(c).key \in Keys
           /\ Message(c).type = "OwnershipGranted"
                 => log[group.offset + 1] = Granted(Message(c).key)
           /\ Message(c).type = "OwnershipRevoked"
                 => log[group.offset + 1] = Revoked(Message(c).key)
  <1>1. Sound(log, group) /\ Alone(group)
    BY IsSound DEF Calm
  <1>2. /\ group.at[c] = group.offset + 1 /\ group.offset \in Nat
        /\ log[group.at[c]] \in Messages
        /\ Message(c).type # "Malformed" => Message(c).key \in Keys
    BY <1>1, HoldsNext DEF Message
  <1>3. Message(c) = [type |-> Message(c).type, key |-> Message(c).key]
    BY <1>2 DEF Message, Messages
  <1> QED
    BY <1>2, <1>3 DEF Message, Granted, Revoked

LEMMA OwnsGameCalm ==
    ASSUME ConsumerInv, Calm(games, log, group), NEW c \in Replicas, OwnsGame(c)
    PROVE  Calm(games, log, group')
  <1> DEFINE key == Message(c).key
             found == RowsOf(key)
  <1>1. /\ Sound(log, group) /\ Handling(group, c) /\ group.pc[c] \notin Idle
        /\ Message(c).type = "OwnershipGranted"
    BY IsSound DEF OwnsGame, At, Handling, Idle, Labels, ConsumerInv, OnlyGrants, Message
  <1>2. /\ key \in Keys /\ group.offset \in Nat
        /\ log[group.offset + 1] = Granted(key)
    BY <1>1, MessageIs
  <1>3. Cardinality(found) = 0 <=> found = {}
    <2>1. IsFiniteSet(1..MaxRows) /\ found \subseteq 1..MaxRows
      BY FS_Interval DEF RowsOf
    <2> QED
      BY <2>1, FS_Subset, FS_EmptySet
  <1>4. found = Rows(games, log[group.at[c]].key)
    BY <1>2, RowsAre DEF Message
  <1>5. OneRow(games)
        /\ (OnlyMalformed(log, group) =>
              Is(games, log, group.offset) \/ Is(games, log, group.offset + 1))
    BY DEF Calm, Between
  <1>6. CASE Cardinality(found) = 0
    <2>1. group' = GoesTo(group, c, "insert")
      BY <1>6 DEF OwnsGame
    <2> QED
      BY <1>1, <1>3, <1>4, <1>6, <2>1, GoesToCalm
  <1>7. CASE Cardinality(found) = 1
    <2>1. group' = Handled(group, c)
      BY <1>7 DEF OwnsGame
    <2>2. Rows(games, key) # {}
      BY <1>2, <1>3, <1>7, RowsAre
    <2> HIDE DEF key, found
    <2>3. OnlyMalformed(log, group) => Is(games, log, group.offset + 1)
      BY <1>2, <1>5, <2>2, AfterMessage
    <2> QED
      BY <1>1, <1>5, <2>1, <2>3, HandledCalm
  <1>8. CASE Cardinality(found) # 0 /\ Cardinality(found) # 1
    <2>1. group' = Raised(group, c)
      BY <1>8 DEF OwnsGame
    <2> QED
      BY <1>1, <1>5, <2>1, RaisedCalm
  <1> QED
    BY <1>6, <1>7, <1>8

(* A transaction has changed the table as the message wants it: its answer *)
(* arrives or is lost.                                                     *)
LEMMA AnsweredCalm ==
    ASSUME ConsumerInv, Calm(games, log, group), NEW c \in Replicas, NEW u,
           Handling(group, c), OneRow(u),
           OnlyMalformed(log, group) => Is(u, log, group.offset + 1),
           group' = Handled(group, c) \/ group' = Raised(group, c)
    PROVE  Calm(u, log, group')
  <1>1. Sound(log, group)
    BY IsSound
  <1>2. CASE group' = Handled(group, c)
    BY <1>1, <1>2, HandledCalm
  <1>3. CASE group' = Raised(group, c)
    BY <1>1, <1>3, RaisedCalm
  <1> QED
    BY <1>2, <1>3

(* What the insert does to the rows of each game. *)
LEMMA InsertRows ==
    ASSUME ConsumerInv, NEW c \in Replicas, AddOwnedGame(c)
    PROVE  \E i \in 1..MaxRows :
              /\ Rows(games', Message(c).key) = Rows(games, Message(c).key) \cup {i}
              /\ \A k \in Keys \ {Message(c).key} : Rows(games', k) = Rows(games, k)
  <1> DEFINE key == Message(c).key
             new == [key |-> key, hidden |-> FALSE]
  <1>1. PICK i \in 1..MaxRows : games[i] = None /\ games' = [games EXCEPT ![i] = new]
    BY DEF AddOwnedGame
  <1>2. key \in Keys
    <2>1. group.at[c] \in 1..Len(log) /\ Message(c).type = "OwnershipGranted"
      BY DEF AddOwnedGame, At, ConsumerInv, LoopInv, Holds, Idle, Labels, OnlyGrants, Message
    <2> QED
      BY <2>1 DEF ConsumerInv, LogOK, Message
  <1>3. /\ games \in [1..MaxRows -> [key: Keys, hidden: BOOLEAN] \cup {None}]
        /\ games' \in [1..MaxRows -> [key: Keys, hidden: BOOLEAN] \cup {None}]
    BY AddOwnedGameInv DEF ConsumerInv, TablesTypeOK
  <1>4. games'[i] = new /\ \A j \in 1..MaxRows \ {i} : games'[j] = games[j]
    BY <1>1, <1>3
  <1>5. new.key = key /\ new # None
    <2>1. new \in [key: Keys, hidden: BOOLEAN]
      BY <1>2
    <2> QED
      BY <2>1, NoneIsNoRow
  <1> HIDE DEF key, new
  <1>6. Rows(games', key) = Rows(games, key) \cup {i}
    BY <1>1, <1>4, <1>5 DEF Rows
  <1>7. ASSUME NEW k \in Keys \ {key} PROVE Rows(games', k) = Rows(games, k)
    BY <1>1, <1>4, <1>5, <1>7 DEF Rows
  <1> QED
    BY <1>6, <1>7 DEF key

LEMMA AddOwnedGameCalm ==
    ASSUME ConsumerInv, Calm(games, log, group), NEW c \in Replicas, AddOwnedGame(c)
    PROVE  Calm(games', log, group')
  <1> DEFINE key == Message(c).key
  <1>1. /\ Handling(group, c) /\ group.pc[c] \notin Idle /\ group.pc[c] = "insert"
        /\ Message(c).type = "OwnershipGranted"
        /\ group' = Handled(group, c) \/ group' = Raised(group, c)
    BY DEF AddOwnedGame, Answered, At, Handling, Idle, Labels, ConsumerInv,
           OnlyGrants, Message
  <1>2. /\ key \in Keys /\ group.offset \in Nat
        /\ log[group.offset + 1] = Granted(key)
    BY <1>1, MessageIs
  <1>3. Rows(games, key) = {}
    BY <1>1 DEF Calm, LookedUp, Message
  <1>4. PICK i \in 1..MaxRows :
              /\ Rows(games', key) = {i}
              /\ \A k \in Keys \ {key} : Rows(games', k) = Rows(games, k)
    BY <1>3, InsertRows
  <1> HIDE DEF key
  <1>5. OneRow(games')
    BY <1>4 DEF Calm, OneRow
  <1>6. OnlyMalformed(log, group) => Is(games', log, group.offset + 1)
    <2>1. Rows(games', key) # {}
      BY <1>4
    <2> QED
      BY <1>2, <1>4, <2>1, AfterMessage DEF Calm, Between
  <1> QED
    BY <1>1, <1>5, <1>6, AnsweredCalm

(* What the deletion does to them. *)
LEMMA DeleteRows ==
    ASSUME ConsumerInv, NEW c \in Replicas, HandleRevoked(c), Message(c).key \in Keys
    PROVE  /\ Rows(games', Message(c).key) = {}
           /\ \A k \in Keys \ {Message(c).key} : Rows(games', k) = Rows(games, k)
  <1> DEFINE key == Message(c).key
  <1>1. \A i \in 1..MaxRows :
          games'[i] = IF i \in Rows(games, key) THEN None ELSE games[i]
    BY RowsAre DEF HandleRevoked
  <1> HIDE DEF key
  <1>2. Rows(games', key) = {} /\ \A k \in Keys \ {key} : Rows(games', k) = Rows(games, k)
    BY <1>1 DEF Rows
  <1> QED
    BY <1>2 DEF key

LEMMA RevokedCalm ==
    ASSUME ConsumerInv, Calm(games, log, group), NEW c \in Replicas, HandleRevoked(c)
    PROVE  Calm(games', log, group')
  <1> DEFINE key == Message(c).key
  <1>1. /\ Handling(group, c) /\ group.pc[c] \notin Idle
        /\ Message(c).type = "OwnershipRevoked"
        /\ group' = Handled(group, c) \/ group' = Raised(group, c)
    BY DEF HandleRevoked, Answered, At, Handling, Idle
  <1>2. /\ key \in Keys /\ group.offset \in Nat
        /\ log[group.offset + 1] = Revoked(key)
    BY <1>1, MessageIs
  <1>3. /\ Rows(games', key) = {}
        /\ \A k \in Keys \ {key} : Rows(games', k) = Rows(games, k)
    BY <1>2, DeleteRows
  <1> HIDE DEF key
  <1>4. OneRow(games')
    BY <1>3 DEF Calm, OneRow
  <1>5. OnlyMalformed(log, group) => Is(games', log, group.offset + 1)
    BY <1>2, <1>3, AfterMessage DEF Calm, Between
  <1> QED
    BY <1>1, <1>4, <1>5, AnsweredCalm

-----------------------------------------------------------------------------
(* The others, and the invariant *)

LEMMA ProduceCalm ==
    ASSUME ConsumerInv, Calm(games, log, group), NEW l, NEW m,
           l = Append(log, m)
    PROVE  Calm(games, l, group)
  <1>1. Sound(log, group)
    BY IsSound
  <1>2. /\ Len(log) \in Nat /\ Len(l) = Len(log) + 1
        /\ \A i \in 1..Len(log) : l[i] = log[i]
    BY <1>1 DEF Sound
  <1>3. ASSUME NEW k, NEW n \in 0..Len(log) PROVE Owned(l, k, n) <=> Owned(log, k, n)
    <2>1. \A i \in 1..n : l[i] = log[i]
      BY <1>2
    <2>2. \A i \in 1..n : \A j \in (i + 1)..n : l[j] = log[j]
      BY <2>1
    <2> QED
      BY <2>1, <2>2 DEF Owned
  <1>4. \A n \in 0..Len(log) : Is(games, log, n) => Is(games, l, n)
    BY <1>3 DEF Is
  <1>5. group.offset \in 0..Len(log) /\ group.givenUp \subseteq 1..Len(log)
    BY <1>1 DEF Sound, LoopInv, GroupTypeOK, Groups
  <1>6. \A c \in Replicas : group.pc[c] \in {"insert", "commit"} =>
            group.at[c] \in 1..Len(log)
    BY <1>1, HoldsNext DEF Calm, Idle
  <1>7. LookedUp(games, l, group)
    BY <1>2, <1>6 DEF Calm, LookedUp
  <1>8. ASSUME OnlyMalformed(l, group)
        PROVE  Handed(games, l, group) /\ Between(games, l, group)
    <2>1. OnlyMalformed(log, group)
      BY <1>2, <1>5, <1>8 DEF OnlyMalformed
    <2>2. Handed(games, log, group) /\ Between(games, log, group)
      BY <2>1 DEF Calm
    <2>3. Handed(games, l, group)
      BY <1>2, <1>4, <1>6, <2>2 DEF Handed
    <2>4. Between(games, l, group)
      BY <1>2, <1>4, <1>5, <2>2 DEF Between
    <2> QED
      BY <2>3, <2>4
  <1> QED
    BY <1>7, <1>8 DEF Calm

(* Hiding moves no row. *)
LEMMA SameRows ==
    ASSUME NEW t, NEW u, NEW l, NEW g, Sound(l, g), Calm(t, l, g),
           \A k : Rows(u, k) = Rows(t, k)
    PROVE  Calm(u, l, g)
  <1>1. OneRow(u)
    BY DEF Calm, OneRow
  <1>2. \A n : Is(t, l, n) => Is(u, l, n)
    BY DEF Is
  <1>3. LookedUp(u, l, g)
    BY DEF Calm, LookedUp
  <1>4. OnlyMalformed(l, g) => Handed(u, l, g) /\ Between(u, l, g)
    BY <1>2 DEF Calm, Handed, Between
  <1> QED
    BY <1>1, <1>3, <1>4 DEF Calm

LEMMA HideRows ==
    ASSUME ConsumerInv, NEW key \in Keys, NEW hidden \in BOOLEAN, SetHidden(key, hidden)
    PROVE  /\ \A k : Rows(games', k) = Rows(games, k)
           /\ \A k \in Keys \ {key} : \A i \in Rows(games, k) : games'[i] = games[i]
           /\ \A i \in Rows(games, key) : games'[i].hidden = hidden
  <1>1. PICK i \in Rows(games, key) :
            /\ Rows(games, key) = {i}
            /\ games' = [games EXCEPT ![i] = [games[i] EXCEPT !.hidden = hidden]]
    BY RowsAre DEF SetHidden
  <1>2. games \in [1..MaxRows -> [key: Keys, hidden: BOOLEAN] \cup {None}]
    BY DEF ConsumerInv, TablesTypeOK
  <1>3. i \in 1..MaxRows /\ games[i] \in [key: Keys, hidden: BOOLEAN] /\ games[i].key = key
    BY <1>1, <1>2 DEF Rows
  <1>4. /\ games'[i] \in [key: Keys, hidden: BOOLEAN]
        /\ games'[i].key = key /\ games'[i].hidden = hidden
        /\ \A j \in 1..MaxRows \ {i} : games'[j] = games[j]
    BY <1>1, <1>2, <1>3
  <1>5. games'[i] # None
    BY <1>4, NoneIsNoRow
  <1>6. \A k : Rows(games', k) = Rows(games, k)
    BY <1>1, <1>3, <1>4, <1>5 DEF Rows
  <1>7. \A k \in Keys \ {key} : \A j \in Rows(games, k) : games'[j] = games[j]
    BY <1>3, <1>4 DEF Rows
  <1> QED
    BY <1>1, <1>4, <1>6, <1>7

LEMMA CalmInit == Init => CalmInv
  <1> SUFFICES ASSUME Init PROVE Calm(games, log, group)
    BY DEF CalmInv
  <1>1. /\ \A c \in Replicas : group.pc[c] = "fetch"
        /\ group.offset = 0 /\ group.givenUp = {} /\ Len(log) = 0
    BY DEF Init, Subscribed
  <1>2. \A k \in Keys : Rows(games, k) = {} /\ ~Owned(log, k, 0)
    BY DEF Init, Rows, Owned
  <1> QED
    BY <1>1, <1>2 DEF Calm, Alone, Idle, OneRow, LookedUp, Handed, Between, Is

LEMMA CalmStep ==
    ASSUME ConsumerInv, CalmInv, [Next]_vars
    PROVE  CalmInv'
  <1> SUFFICES ASSUME moves' = 0 PROVE Calm(games', log', group')
    BY DEF CalmInv
  <1>1. Sound(log, group) /\ Len(log) \in Nat /\ moves \in Nat
    BY IsSound, LengthIsNat DEF ConsumerInv, BoundsOK
  <1>2. ASSUME moves = 0 PROVE Calm(games, log, group)
    BY <1>2 DEF CalmInv
  <1>3. ASSUME NEW c \in Replicas, Fetch(c) PROVE Calm(games', log', group')
    <2>1. UNCHANGED <<games, log, moves>> /\ CanFetch(group, c, Len(log))
          /\ group' = Fetched(group, c)
      BY <1>3 DEF Fetch, tables
    <2> QED
      BY <1>1, <1>2, <2>1, FetchedCalm
  <1>4. ASSUME NEW c \in Replicas, Commit(c) \/ CommitRaises(c) \/ Crash(c)
        PROVE  Calm(games', log', group')
    <2>1. UNCHANGED <<games, log, moves>>
      BY <1>4 DEF Commit, CommitRaises, Crash, tables
    <2>2. group \in Groups(Len(log), Labels) /\ LoopInv(group, Len(log), Labels)
      BY <1>1 DEF Sound, LoopInv, GroupTypeOK
    <2>3. \E label \in Idle : Ends(c, group, group', label)
      <3>1. CASE Commit(c)
        BY <1>1, <2>2, <3>1, CommittedEnds DEF Commit, Idle
      <3>2. CASE CommitRaises(c)
        BY <1>1, <2>2, <3>2, CommitRaisedEnds DEF CommitRaises, Idle
      <3>3. CASE Crash(c)
        BY <1>1, <2>2, <3>3, GoneFields DEF Crash, Crashed, Idle
      <3> QED
        BY <1>4, <3>1, <3>2, <3>3
    <2> QED
      BY <1>1, <1>2, <2>1, <2>3, EndsCalm
  <1>5. ASSUME NEW c \in Replicas, Assign(c) PROVE Calm(games', log', group')
    <2>1. /\ UNCHANGED <<games, log>> /\ group' = Assigned(group, c)
          /\ group.member = None /\ moves = 0
      BY <1>1, <1>5 DEF Assign, tables
    <2> QED
      BY <1>1, <1>2, <2>1, AssignedCalm
  <1>6. ASSUME NEW c \in Replicas, HandlerFails(c) \/ HandleMalformed(c)
        PROVE  Calm(games', log', group')
    <2>1. UNCHANGED <<games, log, moves>> /\ group' = Raised(group, c)
      BY <1>6 DEF HandlerFails, HandleMalformed, tables
    <2> QED
      BY <1>2, <1>6, <2>1, HandlerFailsCalm
  <1>7. ASSUME NEW c \in Replicas, HandleGranted(c) PROVE Calm(games', log', group')
    <2>1. UNCHANGED <<games, log, moves>> /\ group' = GoesTo(group, c, "look")
      BY <1>7 DEF HandleGranted
    <2> QED
      BY <1>2, <1>7, <2>1, GrantedCalm
  <1>8. ASSUME NEW c \in Replicas, OwnsGame(c) PROVE Calm(games', log', group')
    <2>1. UNCHANGED <<games, log, moves>>
      BY <1>8 DEF OwnsGame, tables
    <2> QED
      BY <1>2, <1>8, <2>1, OwnsGameCalm
  <1>9. ASSUME NEW c \in Replicas, AddOwnedGame(c) \/ HandleRevoked(c)
        PROVE  Calm(games', log', group')
    <2>1. UNCHANGED <<log, moves>>
      BY <1>9 DEF AddOwnedGame, HandleRevoked
    <2> QED
      BY <1>2, <1>9, <2>1, AddOwnedGameCalm, RevokedCalm
  <1>10. CASE Produce
    <2>1. UNCHANGED <<games, group, moves>> /\ \E m : log' = Append(log, m)
      BY <1>10 DEF Produce, tables
    <2> QED
      BY <1>2, <2>1, ProduceCalm
  <1>11. ASSUME NEW k \in Keys, HideGame(k) \/ UnhideGame(k)
         PROVE  Calm(games', log', group')
    <2>1. PICK hidden \in BOOLEAN : SetHidden(k, hidden)
      BY <1>11 DEF HideGame, UnhideGame
    <2>2. UNCHANGED <<log, group, moves>>
      BY <2>1 DEF SetHidden
    <2> QED
      BY <1>1, <1>2, <2>1, <2>2, HideRows, SameRows
  <1>12. CASE (\E u \in Owners : SyncUser(u)) \/ UNCHANGED vars
    <2>1. UNCHANGED <<games, log, group, moves>>
      BY <1>12 DEF SyncUser, vars
    <2> QED
      BY <1>2, <2>1
  <1> QED
    BY <1>3, <1>4, <1>5, <1>6, <1>7, <1>8, <1>9, <1>10, <1>11, <1>12 DEF Next, Consume

LEMMA CalmAlways == Spec => []CalmInv
  BY CalmInit, CalmStep, Invariance, PTL DEF Spec

(* Without such a rebalance a game is in the library once, however often   *)
(* its grant is redelivered (library_projector.py:9-11).                   *)
THEOREM GrantedOnce == Spec => []RedeliveryAddsNothing
  <1>1. ASSUME CalmInv, moves = 0, NEW k \in Keys PROVE Cardinality(RowsOf(k)) <= 1
    <2>1. \A i, j \in RowsOf(k) : i = j
      BY <1>1, RowsAre DEF CalmInv, Calm, OneRow
    <2>2. CASE RowsOf(k) = {}
      BY <2>2, FS_EmptySet
    <2>3. CASE RowsOf(k) # {}
      <3>1. PICK i \in RowsOf(k) : TRUE
        BY <2>3
      <3>2. RowsOf(k) = {i}
        BY <2>1, <3>1
      <3>3. Cardinality({i}) = 1
        BY FS_Singleton
      <3> QED
        BY <3>2, <3>3
    <2> QED
      BY <2>2, <2>3
  <1>2. CalmInv => RedeliveryAddsNothing
    BY <1>1 DEF RedeliveryAddsNothing, NoDuplicates
  <1> QED
    BY <1>2, CalmAlways, PTL

(* ... and the library is what the catalog had said at the last committed  *)
(* message or the one after it, if no message but malformed ones was given *)
(* up (library_projector.py:32-61).                                        *)
THEOREM CatalogFollowed == Spec => []FollowsCatalog
  <1>1. ASSUME ConsumerInv, CalmInv, moves = 0, OnlyMalformed(log, group)
        PROVE  \E n \in {group.offset, group.offset + 1} :
                  /\ n <= Len(log)
                  /\ \A k \in Keys : RowsOf(k) # {} <=> OwnedAfter(k, n)
    <2>1. Between(games, log, group)
      BY <1>1 DEF CalmInv, Calm
    <2>2. group.offset \in 0..Len(log) /\ Len(log) \in Nat
      BY <1>1, LengthIsNat DEF ConsumerInv, LoopInv, GroupTypeOK, Groups
    <2>3. \A n : Is(games, log, n) => \A k \in Keys : RowsOf(k) # {} <=> OwnedAfter(k, n)
      BY RowsAre DEF Is, Owned, OwnedAfter, Granted, Revoked
    <2> QED
      BY <2>1, <2>2, <2>3 DEF Between
  <1>2. ConsumerInv /\ CalmInv => FollowsCatalog
    BY <1>1 DEF FollowsCatalog, OnlyMalformed
  <1> QED
    BY <1>2, Invariance, CalmAlways, PTL

(* A step that leaves the rows of a hidden game hidden, if they stay.      *)
LEMMA StillHidden ==
    ASSUME NEW k \in Keys, HiddenBy(k),
           Rows(games', k) = Rows(games, k),
           \A i \in Rows(games, k) : games'[i].hidden
    PROVE  HiddenBy(k)'
  BY DEF HiddenBy, RowsOf, Rows

(* ... and a game its owner has hidden is hers alone to see until she      *)
(* unhides it or the catalog takes it away (profile_repository.py:195,     *)
(* profile_controller.py:40-49).                                           *)
THEOREM HiddenIsKept == Spec => HiddenStays
  <1>1. ASSUME ConsumerInv, CalmInv, [Next]_vars, NEW k \in Keys,
               HiddenBy(k), moves = 0
        PROVE  OnlyHers(k) /\ (HiddenBy(k)' \/ RowsOf(k)' = {} \/ UnhideGame(k))
    <2>1. OnlyHers(k)
      BY <1>1 DEF OnlyHers, HiddenBy, Shown, RowsOf
    <2>2. /\ RowsOf(k) = Rows(games, k) /\ RowsOf(k)' = Rows(games', k)
          /\ \A i \in Rows(games, k) : games[i].hidden
          /\ Rows(games, k) # {} /\ Rows(games, k) \subseteq 1..MaxRows
      BY <1>1 DEF RowsOf, Rows, HiddenBy
    <2>3. ASSUME UNCHANGED games PROVE HiddenBy(k)'
      <3>1. Rows(games', k) = Rows(games, k)
        BY <2>3
      <3> QED
        BY <1>1, <2>2, <2>3, <3>1, StillHidden
    <2>4. ASSUME NEW c \in Replicas, AddOwnedGame(c) PROVE HiddenBy(k)'
      <3>1. Rows(games, Message(c).key) = {}
        BY <1>1, <2>4 DEF CalmInv, Calm, LookedUp, AddOwnedGame, At, Message
      <3>2. PICK i \in 1..MaxRows :
              /\ games[i] = None
              /\ games' = [games EXCEPT ![i] = [key |-> Message(c).key, hidden |-> FALSE]]
        BY <2>4 DEF AddOwnedGame
      <3>3. Rows(games', k) = Rows(games, k)
        BY <1>1, <2>2, <2>4, <3>1, InsertRows
      <3>4. \A j \in Rows(games, k) : games'[j] = games[j]
        BY <1>1, <3>2 DEF Rows, ConsumerInv, TablesTypeOK
      <3> QED
        BY <1>1, <2>2, <3>3, <3>4, StillHidden
    <2>5. ASSUME NEW c \in Replicas, HandleRevoked(c)
          PROVE  HiddenBy(k)' \/ RowsOf(k)' = {}
      <3>1. \A i \in 1..MaxRows :
              games'[i] = IF i \in RowsOf(Message(c).key) THEN None ELSE games[i]
        BY <2>5 DEF HandleRevoked
      <3>2. CASE k = Message(c).key
        BY <3>1, <3>2 DEF RowsOf
      <3>3. CASE k # Message(c).key
        <4>1. \A i \in Rows(games, k) : games'[i] = games[i]
          BY <3>1, <3>3 DEF Rows, RowsOf
        <4>2. Rows(games', k) = Rows(games, k)
          BY <3>1, <3>3 DEF Rows, RowsOf
        <4> QED
          BY <1>1, <2>2, <4>1, <4>2, StillHidden
      <3> QED
        BY <3>2, <3>3
    <2>6. ASSUME NEW key \in Keys, HideGame(key) PROVE HiddenBy(k)'
      <3>1. SetHidden(key, TRUE)
        BY <2>6 DEF HideGame
      <3>2. /\ Rows(games', k) = Rows(games, k)
            /\ k # key => \A i \in Rows(games, k) : games'[i] = games[i]
            /\ k = key => \A i \in Rows(games, k) : games'[i].hidden
        BY <1>1, <3>1, HideRows
      <3> QED
        BY <1>1, <2>2, <3>2, StillHidden
    <2>7. ASSUME NEW key \in Keys, UnhideGame(key) PROVE HiddenBy(k)' \/ UnhideGame(k)
      <3>1. SetHidden(key, FALSE)
        BY <2>7 DEF UnhideGame
      <3>2. CASE k = key
        BY <2>7, <3>2
      <3>3. CASE k # key
        <4>1. /\ Rows(games', k) = Rows(games, k)
              /\ \A i \in Rows(games, k) : games'[i] = games[i]
          BY <1>1, <3>1, <3>3, HideRows
        <4> QED
          BY <1>1, <2>2, <4>1, StillHidden
      <3> QED
        BY <3>2, <3>3
    <2>8. \/ UNCHANGED games
          \/ \E c \in Replicas : AddOwnedGame(c) \/ HandleRevoked(c)
          \/ \E key \in Keys : HideGame(key) \/ UnhideGame(key)
      BY <1>1 DEF Next, Consume, Produce, Fetch, Commit, CommitRaises, Crash, Assign,
                  HandlerFails, HandleMalformed, HandleGranted, OwnsGame, SyncUser,
                  tables, vars
    <2> QED
      BY <2>1, <2>3, <2>4, <2>5, <2>6, <2>7, <2>8
  <1>2. ConsumerInv /\ CalmInv /\ [Next]_vars =>
            [\A k \in Keys : HiddenBy(k) /\ moves = 0 =>
                /\ OnlyHers(k)
                /\ HiddenBy(k)' \/ RowsOf(k)' = {} \/ UnhideGame(k)]_vars
    BY <1>1
  <1> QED
    BY <1>2, Invariance, CalmAlways, PTL DEF Spec, HiddenStays

=============================================================================
