----------------------------- MODULE PresenceProofs -----------------------------
(***************************************************************************)
(* Theorems about Presence for any finite set of tabs, any time to live,   *)
(* heartbeat interval and duration of a call that ConstantsOK admits.      *)
(***************************************************************************)
EXTENDS Presence, FiniteSetTheorems, TLAPS

USE ConstantsOK

(* The longest a heartbeat is old when it is taken up: it was sent when it *)
(* was due, or while the one before it was being handled.                  *)
Longest == IF Interval > Delay THEN Interval ELSE Delay

(* The timers of one socket, and what its last heartbeat left of the key.  *)
Timers(s) ==
    /\ pc[s] = "closed" => waited[s] = 0 /\ ~acked[s] /\ tab[s] = "gone"
    /\ pc[s] = "closed" => frames[s] = 0 /\ quiet[s] = 0
    /\ pc[s] = "auth" => waited[s] <= AuthTimeout /\ ~acked[s]
    /\ pc[s] \in Busy => waited[s] <= Delay

Refreshed(s) ==
    /\ pc[s] \in {"publish", "reply"} =>
          /\ key + waited[s] >= TTL
          /\ tab[s] = "alive" /\ frames[s] = 0 => key + quiet[s] >= TTL
    /\ acked[s] /\ tab[s] = "alive" =>
          /\ pc[s] = "wait" =>
                IF frames[s] = 0 THEN key + quiet[s] >= TTL ELSE key + Longest >= TTL
          /\ pc[s] \in {"exists", "set"} => key + (Longest + waited[s]) >= TTL

SocketOf(s) == Timers(s) /\ Refreshed(s) /\ (pc[s] = "publish" => ~found[s])

(* The tabs that have found the account offline and have still to say so.  *)
Announcers == {s \in Sockets : pc[s] \in {"set", "publish"} /\ ~found[s]}

Announced ==
    /\ key = 0 => told = 0
    /\ told + Cardinality(Announcers) <= Cardinality(Sockets)

Inv == TypeOK /\ Announced /\ \A s \in Sockets : SocketOf(s)

-----------------------------------------------------------------------------
(* Counting the tabs that are about to announce *)

LEMMA AnnouncersFinite ==
    /\ IsFiniteSet(Announcers) /\ Cardinality(Announcers) \in Nat
    /\ Cardinality(Sockets) \in Nat
    /\ Cardinality(Announcers) <= Cardinality(Sockets)
  <1>1. IsFiniteSet(Sockets) /\ Announcers \subseteq Sockets
    BY DEF Announcers
  <1> HIDE DEF Announcers
  <1> QED
    BY <1>1, FS_Subset, FS_CardinalityType

(* Fewer that are about to announce, nothing new announced. *)
LEMMA FewerAnnouncers ==
    ASSUME TypeOK, Announced, NEW S, S \subseteq Announcers, NEW n \in Nat, n <= told
    PROVE  n + Cardinality(S) <= Cardinality(Sockets)
  <1> HIDE DEF Announcers
  <1>1. Cardinality(S) \in Nat /\ Cardinality(S) <= Cardinality(Announcers)
    BY AnnouncersFinite, FS_Subset, FS_CardinalityType
  <1> QED
    BY <1>1, AnnouncersFinite DEF TypeOK, Announced

(* One announcement more by one that was about to make it. *)
LEMMA OneAnnounces ==
    ASSUME TypeOK, Announced, NEW s \in Announcers, NEW S, S \subseteq Announcers \ {s}
    PROVE  /\ told + 1 + Cardinality(S) <= Cardinality(Sockets)
           /\ told < Cardinality(Sockets)
  <1> HIDE DEF Announcers
  <1> DEFINE R == Announcers \ {s}
  <1>1. IsFiniteSet(R) /\ Cardinality(R) = Cardinality(Announcers) - 1
    BY AnnouncersFinite, FS_RemoveElement
  <1> HIDE DEF R
  <1>2. S \subseteq R
    BY DEF R
  <1>3. Cardinality(S) \in Nat /\ Cardinality(S) <= Cardinality(R)
    BY <1>1, <1>2, FS_Subset, FS_CardinalityType
  <1> QED
    BY <1>1, <1>3, AnnouncersFinite DEF TypeOK, Announced

-----------------------------------------------------------------------------
(* The invariant at the start and after every step *)

LEMMA InitInv == Init => Inv
  <1> SUFFICES ASSUME Init PROVE Inv
    OBVIOUS
  <1>1. TypeOK
    BY AnnouncersFinite DEF Init, TypeOK, Open, Busy
  <1>2. Announced
    BY AnnouncersFinite DEF Init, Announced
  <1>3. \A s \in Sockets : SocketOf(s)
    BY DEF Init, SocketOf, Timers, Refreshed, Busy
  <1> QED
    BY <1>1, <1>2, <1>3 DEF Inv

(* A step of s touches no other socket and at most renews the key. *)
Frame(s) ==
    /\ \A x \in Sockets \ {s} :
          /\ pc'[x] = pc[x] /\ waited'[x] = waited[x] /\ found'[x] = found[x]
          /\ acked'[x] = acked[x] /\ frames'[x] = frames[x]
          /\ quiet'[x] = quiet[x] /\ tab'[x] = tab[x]
    /\ key' \in {key, TTL}

(* A key that has longer to live outlasts what a shorter one outlasts. *)
LEMMA MoreIsEnough ==
    ASSUME NEW k \in Nat, NEW m \in Nat, k <= m, NEW n \in Nat, k + n >= TTL
    PROVE  m + n >= TTL
  OBVIOUS

LEMMA FrameKeeps ==
    ASSUME Inv, NEW s \in Sockets, Frame(s), NEW x \in Sockets \ {s}
    PROVE  SocketOf(x)'
  <1>1. /\ SocketOf(x) /\ TypeOK
        /\ waited[x] \in Nat /\ quiet[x] \in Nat /\ Longest \in Nat
        /\ frames[x] \in Nat
    BY DEF Inv, TypeOK, Longest
  <1>2. key' \in Nat /\ key \in Nat /\ key <= key'
    BY <1>1 DEF TypeOK, Frame
  <1>3. /\ pc'[x] = pc[x] /\ waited'[x] = waited[x] /\ found'[x] = found[x]
        /\ acked'[x] = acked[x] /\ frames'[x] = frames[x]
        /\ quiet'[x] = quiet[x] /\ tab'[x] = tab[x]
    BY DEF Frame
  <1>6. Longest' = Longest
    BY DEF Longest
  <1> HIDE DEF Longest
  <1>4. Timers(x)' /\ (pc'[x] = "publish" => ~found'[x])
    BY <1>1, <1>3 DEF SocketOf, Timers
  <1>5. Refreshed(x)'
    <2>1. acked'[x] => acked[x]
      BY <1>3
    <2>2. Refreshed(x)
      BY <1>1 DEF SocketOf
    <2>3. /\ key + waited[x] >= TTL => key' + waited[x] >= TTL
          /\ key + quiet[x] >= TTL => key' + quiet[x] >= TTL
          /\ key + Longest >= TTL => key' + Longest >= TTL
      BY <1>1, <1>2, MoreIsEnough
    <2>4. Longest + waited[x] \in Nat
      BY <1>1
    <2>5. key + (Longest + waited[x]) >= TTL => key' + (Longest + waited[x]) >= TTL
      BY <1>2, <2>4, MoreIsEnough
    <2> QED
      BY <1>1, <1>3, <1>6, <2>1, <2>2, <2>3, <2>5 DEF Refreshed
  <1> QED
    BY <1>4, <1>5 DEF SocketOf

(* A step of s keeps the invariant if it keeps the types, the part of s    *)
(* and the count.                                                          *)
LEMMA StepOfKeeps ==
    ASSUME Inv, NEW s \in Sockets, Frame(s), TypeOK', SocketOf(s)', Announced'
    PROVE  Inv'
  BY FrameKeeps DEF Inv

(* A step that makes no tab an announcer, and leaves the key and what has  *)
(* been told.                                                              *)
LEMMA QuietStep ==
    ASSUME Inv, UNCHANGED <<key, told>>, Announcers' \subseteq Announcers
    PROVE  Announced'
  <1>1. TypeOK /\ Announced /\ told \in Nat
    BY DEF Inv, TypeOK
  <1> HIDE DEF Announcers
  <1> QED
    BY <1>1, FewerAnnouncers DEF Announced

(* A key that is set keeps a tab that has been answered online. *)
LEMMA KeyIsThere ==
    ASSUME Inv, NEW s \in Sockets,
           \/ pc[s] \in {"publish", "reply"}
           \/ pc[s] \in Open /\ acked[s] /\ tab[s] = "alive"
    PROVE  key > 0
  <1>1. /\ key \in Nat /\ waited[s] \in Nat /\ quiet[s] \in Nat /\ quiet[s] <= Interval
        /\ Timers(s) /\ Refreshed(s) /\ frames[s] \in Nat
    BY DEF Inv, TypeOK, SocketOf
  <1>2. CASE pc[s] \in {"publish", "reply"}
    BY <1>1, <1>2 DEF Timers, Refreshed, Busy
  <1>3. CASE pc[s] \in {"exists", "set"} /\ acked[s] /\ tab[s] = "alive"
    <2>1. waited[s] <= Delay /\ key + (Longest + waited[s]) >= TTL
      BY <1>1, <1>3 DEF Timers, Refreshed, Busy
    <2> QED
      BY <1>1, <2>1 DEF Longest
  <1>4. CASE pc[s] = "wait" /\ acked[s] /\ tab[s] = "alive"
    <2>1. key + quiet[s] >= TTL \/ key + Longest >= TTL
      BY <1>1, <1>4 DEF Refreshed
    <2> QED
      BY <1>1, <2>1 DEF Longest
  <1>5. CASE pc[s] = "auth"
    BY <1>1, <1>5 DEF Timers
  <1> QED
    BY <1>2, <1>3, <1>4, <1>5 DEF Open, Busy

-----------------------------------------------------------------------------
(* The steps of one socket *)

LEMMA CloseKeeps ==
    ASSUME Inv, NEW s \in Sockets, Close(s), key' \in {key, TTL}, Announced',
           told' \in 0..(Cardinality(Sockets) + 1), faults' \in 0..MaxFaults
    PROVE  Inv'
  <1>1. TypeOK'
    <2>1. key' \in 0..TTL
      BY DEF Inv, TypeOK
    <2> QED
      BY <2>1 DEF Inv, TypeOK, Close, GoTo
  <1>2. Frame(s)
    BY DEF Inv, TypeOK, Close, GoTo, Frame
  <1>3. SocketOf(s)'
    <2>1. /\ pc'[s] = "closed" /\ waited'[s] = 0 /\ acked'[s] = FALSE
          /\ tab'[s] = "gone" /\ frames'[s] = 0 /\ quiet'[s] = 0
      BY DEF Inv, TypeOK, Close, GoTo
    <2> QED
      BY <2>1 DEF SocketOf, Timers, Refreshed, Busy
  <1> QED
    BY <1>1, <1>2, <1>3, StepOfKeeps

LEMMA ConnectKeeps ==
    ASSUME Inv, NEW s \in Sockets, Connect(s)
    PROVE  Inv'
  <1>1. TypeOK'
    BY DEF Inv, TypeOK, Connect, GoTo, Open
  <1>2. Frame(s)
    BY DEF Inv, TypeOK, Connect, GoTo, Frame
  <1>3. SocketOf(s)'
    <2>1. /\ pc[s] = "closed" /\ pc'[s] = "auth" /\ UNCHANGED <<waited, acked>>
      BY DEF Inv, TypeOK, Connect, GoTo
    <2>2. waited[s] = 0 /\ ~acked[s]
      BY <2>1 DEF Inv, SocketOf, Timers
    <2> QED
      BY <2>1, <2>2 DEF SocketOf, Timers, Refreshed, Busy
  <1>4. Announced'
    <2>1. Announcers' \subseteq Announcers
      BY DEF Inv, TypeOK, Connect, GoTo, Announcers
    <2> QED
      BY <2>1, QuietStep DEF Connect
  <1> QED
    BY <1>1, <1>2, <1>3, <1>4, StepOfKeeps

LEMMA SendFrameKeeps ==
    ASSUME Inv, NEW s \in Sockets, SendFrame(s)
    PROVE  Inv'
  <1>1. TypeOK'
    BY DEF Inv, TypeOK, SendFrame
  <1>2. Frame(s)
    BY DEF Inv, TypeOK, SendFrame, Frame
  <1>3. SocketOf(s)'
    <2>1. /\ pc[s] \in Open /\ frames'[s] = frames[s] + 1 /\ frames[s] \in Nat
          /\ quiet[s] \in Nat /\ quiet[s] <= Interval /\ key \in Nat
          /\ UNCHANGED <<key, pc, waited, found, acked, tab>>
      BY DEF Inv, TypeOK, SendFrame
    <2>2. Timers(s) /\ Refreshed(s) /\ (pc[s] = "publish" => ~found[s])
      BY DEF Inv, SocketOf
    <2>3. key + quiet[s] >= TTL => key + Longest >= TTL
      BY <2>1 DEF Longest
    <2>4. frames'[s] # 0
      BY <2>1
    <2>5. Longest' = Longest
      BY DEF Longest
    <2> HIDE DEF Longest
    <2>6. Timers(s)'
      BY <2>1, <2>2 DEF Timers, Open, Busy
    <2> QED
      BY <2>1, <2>2, <2>3, <2>4, <2>5, <2>6 DEF SocketOf, Refreshed
  <1>4. Announced'
    <2>1. Announcers' = Announcers
      BY DEF SendFrame, Announcers
    <2> QED
      BY <2>1, QuietStep DEF SendFrame
  <1> QED
    BY <1>1, <1>2, <1>3, <1>4, StepOfKeeps

LEMMA LeaveKeeps ==
    ASSUME Inv, NEW s \in Sockets, Leave(s)
    PROVE  Inv'
  <1>1. TypeOK'
    BY DEF Inv, TypeOK, Leave
  <1>2. Frame(s)
    BY DEF Inv, TypeOK, Leave, Frame
  <1>3. SocketOf(s)'
    <2>1. /\ pc[s] \in Open /\ pc[s] # "closed" /\ tab'[s] # "alive"
          /\ UNCHANGED <<key, pc, waited, found, acked, frames, quiet>>
      BY DEF Inv, TypeOK, Leave, Open, Busy
    <2>2. Timers(s) /\ Refreshed(s) /\ (pc[s] = "publish" => ~found[s])
      BY DEF Inv, SocketOf
    <2> QED
      BY <2>1, <2>2 DEF SocketOf, Timers, Refreshed
  <1>4. Announced'
    <2>1. Announcers' = Announcers
      BY DEF Leave, Announcers
    <2> QED
      BY <2>1, QuietStep DEF Leave
  <1> QED
    BY <1>1, <1>2, <1>3, <1>4, StepOfKeeps

LEMMA ReceivedKeeps ==
    ASSUME Inv, NEW s \in Sockets, pc[s] \in {"auth", "wait"}, Received(s),
           UNCHANGED <<key, told, faults>>
    PROVE  Inv'
  <1>1. TypeOK'
    BY DEF Inv, TypeOK, Received, GoTo, Open, Busy
  <1>2. Frame(s)
    BY DEF Inv, TypeOK, Received, GoTo, Frame
  <1>3. SocketOf(s)'
    <2>1. /\ pc'[s] = "exists" /\ waited'[s] = 0 /\ frames[s] # 0
          /\ key \in Nat /\ UNCHANGED <<key, acked, tab>>
      BY DEF Inv, TypeOK, Received, GoTo
    <2>2. acked[s] /\ tab[s] = "alive" => key + Longest >= TTL
      BY <2>1 DEF Inv, SocketOf, Timers, Refreshed
    <2>3. Longest \in Nat /\ Longest' = Longest /\ Longest + 0 = Longest
      BY DEF Longest
    <2> HIDE DEF Longest
    <2> QED
      BY <2>1, <2>2, <2>3 DEF SocketOf, Timers, Refreshed, Busy
  <1>4. Announced'
    <2>1. Announcers' \subseteq Announcers
      BY DEF Inv, TypeOK, Received, GoTo, Announcers
    <2> QED
      BY <2>1, QuietStep
  <1> QED
    BY <1>1, <1>2, <1>3, <1>4, StepOfKeeps

(* A handler that ends without having touched the key. *)
LEMMA EndsKeeps ==
    ASSUME Inv, NEW s \in Sockets, Close(s), UNCHANGED <<key, told, faults>>
    PROVE  Inv'
  <1>1. Announced'
    <2>1. Announcers' \subseteq Announcers
      BY DEF Inv, TypeOK, Close, GoTo, Announcers
    <2> QED
      BY <2>1, QuietStep
  <1>2. /\ key' \in {key, TTL} /\ told' \in 0..(Cardinality(Sockets) + 1)
        /\ faults' \in 0..MaxFaults
    BY DEF Inv, TypeOK
  <1> QED
    BY <1>1, <1>2, CloseKeeps

LEMMA ReplyKeeps ==
    ASSUME Inv, NEW s \in Sockets, Reply(s)
    PROVE  Inv'
  <1>1. CASE Close(s)
    BY <1>1, EndsKeeps DEF Reply
  <1>2. CASE /\ GoTo(s, "wait")
             /\ waited' = [waited EXCEPT ![s] = 0]
             /\ acked' = [acked EXCEPT ![s] = TRUE]
             /\ UNCHANGED <<found, client>>
    <2> USE <1>2
    <2>0. pc[s] = "reply" /\ UNCHANGED <<key, told, faults, frames, quiet, tab>>
      BY DEF Reply, client
    <2>1. TypeOK'
      BY <2>0 DEF Inv, TypeOK, GoTo, Open
    <2>2. Frame(s)
      BY <2>0 DEF Inv, TypeOK, GoTo, Frame
    <2>3. SocketOf(s)'
      <3>1. /\ pc'[s] = "wait" /\ waited'[s] = 0 /\ acked'[s] = TRUE
            /\ key \in Nat /\ waited[s] \in Nat
        BY <2>0 DEF Inv, TypeOK, GoTo
      <3>2. /\ key + waited[s] >= TTL /\ waited[s] <= Delay
            /\ tab[s] = "alive" /\ frames[s] = 0 => key + quiet[s] >= TTL
        BY <2>0 DEF Inv, SocketOf, Timers, Refreshed, Busy
      <3>3. key + Longest >= TTL
        BY <3>1, <3>2 DEF Longest
      <3>4. Longest' = Longest
        BY DEF Longest
      <3> HIDE DEF Longest
      <3> QED
        BY <2>0, <3>1, <3>2, <3>3, <3>4 DEF SocketOf, Timers, Refreshed, Busy
    <2>4. Announced'
      <3>1. Announcers' \subseteq Announcers
        BY <2>0 DEF Inv, TypeOK, GoTo, Announcers
      <3> QED
        BY <2>0, <3>1, QuietStep
    <2> QED
      BY <2>1, <2>2, <2>3, <2>4, StepOfKeeps
  <1> QED
    BY <1>1, <1>2 DEF Reply

LEMMA IsOnlineKeeps ==
    ASSUME Inv, NEW s \in Sockets, IsOnline(s)
    PROVE  Inv'
  <1>1. /\ pc[s] = "exists" /\ pc'[s] = "set" /\ found'[s] = Online
        /\ found' = [found EXCEPT ![s] = Online]
        /\ pc' = [pc EXCEPT ![s] = "set"]
        /\ UNCHANGED <<key, waited, acked, frames, quiet, tab, told, faults>>
    BY DEF Inv, TypeOK, IsOnline, GoTo, client
  <1>2. TypeOK'
    <2>1. Online \in BOOLEAN
      BY DEF Online
    <2>2. found' \in [Sockets -> BOOLEAN]
      BY <1>1, <2>1 DEF Inv, TypeOK
    <2> QED
      BY <1>1, <2>2 DEF Inv, TypeOK, Open, Busy
  <1>3. Frame(s)
    BY <1>1 DEF Inv, TypeOK, Frame
  <1>4. SocketOf(s)'
    <2>1. Longest' = Longest
      BY DEF Longest
    <2>2. Timers(s) /\ Refreshed(s)
      BY DEF Inv, SocketOf
    <2> HIDE DEF Longest
    <2> QED
      BY <1>1, <2>1, <2>2 DEF SocketOf, Timers, Refreshed, Busy
  <1>5. Announced'
    <2>1. CASE key = 0
      <3>1. told = 0 /\ told' = 0
        BY <1>1, <2>1 DEF Inv, Announced
      <3>2. Announcers' \subseteq Sockets
        BY DEF Announcers
      <3>3. /\ Cardinality(Announcers') <= Cardinality(Sockets)
            /\ Cardinality(Announcers') \in Nat
        <4> DEFINE S == Announcers'
        <4>1. S \subseteq Sockets
          BY <3>2
        <4> HIDE DEF S
        <4>2. Cardinality(S) <= Cardinality(Sockets) /\ Cardinality(S) \in Nat
          BY <4>1, FS_Subset, FS_CardinalityType
        <4> QED
          BY <4>2 DEF S
      <3> QED
        BY <3>1, <3>3 DEF Announced
    <2>2. CASE key # 0
      <3>3. Online
        BY <2>2 DEF Online, Inv, TypeOK
      <3>1. found'[s]
        BY <1>1, <3>3
      <3>2. Announcers' \subseteq Announcers
        BY <1>1, <3>1 DEF Inv, TypeOK, Announcers
      <3> QED
        BY <1>1, <3>2, QuietStep
    <2> QED
      BY <2>1, <2>2
  <1> QED
    BY <1>2, <1>3, <1>4, <1>5, StepOfKeeps

LEMMA SetOnlineKeeps ==
    ASSUME Inv, NEW s \in Sockets, SetOnline(s)
    PROVE  Inv'
  <1>1. /\ pc[s] = "set" /\ key' = TTL
        /\ pc' = [pc EXCEPT ![s] = IF found[s] THEN "reply" ELSE "publish"]
        /\ UNCHANGED <<waited, found, acked, frames, quiet, tab, told, faults>>
    BY DEF SetOnline, GoTo, client
  <1>2. TypeOK'
    BY <1>1 DEF Inv, TypeOK, Open, Busy
  <1>3. Frame(s)
    BY <1>1 DEF Inv, TypeOK, Frame
  <1>4. SocketOf(s)'
    <2>1. /\ pc'[s] \in {"publish", "reply"} /\ (pc'[s] = "publish" => ~found[s])
          /\ waited[s] \in Nat /\ quiet[s] \in Nat
      BY <1>1 DEF Inv, TypeOK
    <2>2. waited[s] <= Delay
      BY <1>1 DEF Inv, SocketOf, Timers, Busy
    <2>3. TTL + waited[s] >= TTL /\ TTL + quiet[s] >= TTL
      BY <2>1
    <2> QED
      BY <1>1, <2>1, <2>2, <2>3 DEF SocketOf, Timers, Refreshed, Busy
  <1>5. Announced'
    <2>1. Announcers' \subseteq Announcers /\ told \in Nat /\ TypeOK /\ Announced
      BY <1>1 DEF Inv, TypeOK, Announcers
    <2>2. key' # 0 /\ told' = told
      BY <1>1
    <2> HIDE DEF Announcers
    <2> QED
      BY <2>1, <2>2, FewerAnnouncers DEF Announced
  <1> QED
    BY <1>2, <1>3, <1>4, <1>5, StepOfKeeps

LEMMA PublishKeeps ==
    ASSUME Inv, NEW s \in Sockets, Publish(s)
    PROVE  Inv'
  <1>1. /\ pc[s] = "publish" /\ pc' = [pc EXCEPT ![s] = "reply"]
        /\ told' = IF told > Cardinality(Sockets) THEN told ELSE told + 1
        /\ UNCHANGED <<key, waited, found, acked, frames, quiet, tab, faults>>
    BY DEF Publish, GoTo, client
  <1>2. s \in Announcers
    BY <1>1 DEF Inv, SocketOf, Announcers
  <1>3. Announcers' \subseteq Announcers \ {s}
    BY <1>1 DEF Inv, TypeOK, Announcers
  <1>4. told \in Nat /\ Cardinality(Sockets) \in Nat
    BY AnnouncersFinite DEF Inv, TypeOK
  <1>5. /\ told + 1 + Cardinality(Announcers') <= Cardinality(Sockets)
        /\ told < Cardinality(Sockets)
    <2> HIDE DEF Announcers
    <2> QED
      BY <1>2, <1>3, OneAnnounces DEF Inv
  <1>6. told' = told + 1
    BY <1>1, <1>4, <1>5
  <1>7. TypeOK'
    BY <1>1, <1>4, <1>5, <1>6 DEF Inv, TypeOK, Open, Busy
  <1>8. Frame(s)
    BY <1>1 DEF Inv, TypeOK, Frame
  <1>9. SocketOf(s)'
    <2>1. pc'[s] = "reply"
      BY <1>1 DEF Inv, TypeOK
    <2> QED
      BY <1>1, <2>1 DEF Inv, SocketOf, Timers, Refreshed, Busy
  <1>10. Announced'
    <2>1. key # 0
      BY <1>1, KeyIsThere
    <2> QED
      BY <1>1, <1>5, <1>6, <2>1 DEF Announced
  <1> QED
    BY <1>7, <1>8, <1>9, <1>10, StepOfKeeps

LEMMA FailsKeeps ==
    ASSUME Inv, NEW s \in Sockets, Fails(s)
    PROVE  Inv'
  <1>1. /\ pc[s] \in Busy /\ faults' \in 0..MaxFaults /\ Close(s)
        /\ key' \in {key, TTL} /\ TypeOK /\ Announced /\ told \in Nat
        /\ Cardinality(Sockets) \in Nat
    BY AnnouncersFinite DEF Inv, TypeOK, Fails
  <1>2. Announcers' \subseteq Announcers \ {s}
    BY <1>1 DEF Close, GoTo, TypeOK, Announcers
  <1>3. CASE told' = told
    <2>1. Announced'
      <3>1. key' = 0 => key = 0
        BY <1>1
      <3>2. Announcers' \subseteq Announcers
        BY <1>2
      <3> HIDE DEF Announcers
      <3> QED
        BY <1>1, <1>3, <3>1, <3>2, FewerAnnouncers DEF Announced
    <2>2. told' \in 0..(Cardinality(Sockets) + 1)
      BY <1>1, <1>3 DEF TypeOK
    <2> QED
      BY <1>1, <2>1, <2>2, CloseKeeps
  <1>4. CASE pc[s] = "publish" /\ told' = told + 1
    <2>1. s \in Announcers
      BY <1>4 DEF Inv, SocketOf, Announcers
    <2>2. /\ told + 1 + Cardinality(Announcers') <= Cardinality(Sockets)
          /\ told < Cardinality(Sockets)
      <3> HIDE DEF Announcers
      <3> QED
        BY <1>1, <1>2, <2>1, OneAnnounces
    <2>3. key' # 0
      BY <1>1, <1>4, KeyIsThere
    <2>4. Announced'
      BY <1>4, <2>2, <2>3 DEF Announced
    <2>5. told' \in 0..(Cardinality(Sockets) + 1)
      BY <1>1, <1>4, <2>2
    <2> QED
      BY <1>1, <2>4, <2>5, CloseKeeps
  <1>5. told' = told \/ (pc[s] = "publish" /\ told' = told + 1)
    BY DEF Fails
  <1> QED
    BY <1>3, <1>4, <1>5

-----------------------------------------------------------------------------
(* A tick *)

(* What is left of the key shrinks by no more than the time that passes. *)
LEMMA TickOfKey ==
    ASSUME NEW k \in Nat, NEW n \in Nat, NEW b \in Nat, k + n >= b
    PROVE  (IF k = 0 THEN 0 ELSE k - 1) + (n + 1) >= b
  OBVIOUS

LEMMA TickOfSocket ==
    ASSUME Inv, Tick, NEW s \in Sockets
    PROVE  waited'[s] \in 0..TTL /\ quiet'[s] \in 0..Interval /\ SocketOf(s)'
  <1>1. /\ key \in Nat /\ waited[s] \in Nat /\ quiet[s] \in Nat /\ frames[s] \in Nat
        /\ waited[s] <= TTL /\ quiet[s] <= Interval
        /\ Timers(s) /\ Refreshed(s) /\ (pc[s] = "publish" => ~found[s])
        /\ pc[s] \in {"closed"} \cup Open
    BY DEF Inv, TypeOK, SocketOf
  <1>2. /\ waited'[s] = IF pc[s] \in Open THEN waited[s] + 1 ELSE 0
        /\ quiet'[s] = IF pc[s] \in Open /\ tab[s] = "alive"
                       THEN quiet[s] + 1 ELSE quiet[s]
        /\ key' = IF key = 0 THEN 0 ELSE key - 1
        /\ UNCHANGED <<pc, found, acked, frames, tab>>
    BY DEF Tick
  <1>3. pc[s] \in Open =>
          /\ tab[s] = "alive" => quiet[s] < Interval
          /\ pc[s] \in Busy => waited[s] < Delay
          /\ pc[s] = "auth" => waited[s] < AuthTimeout
          /\ pc[s] = "wait" => waited[s] < TTL /\ frames[s] = 0
    BY <1>1 DEF Tick, Punctual, Prompt, Expires
  <1>4. CASE pc[s] = "closed"
    <2>1. waited'[s] = 0 /\ quiet'[s] = 0 /\ pc'[s] = "closed"
      BY <1>1, <1>2, <1>4 DEF Timers, Open, Busy
    <2>2. Timers(s)
      BY <1>1
    <2> QED
      BY <1>2, <1>4, <2>1, <2>2 DEF SocketOf, Timers, Refreshed, Busy
  <1>5. CASE pc[s] \in Open
    <2>1. waited'[s] = waited[s] + 1 /\ waited[s] + 1 \in Nat
      BY <1>1, <1>2, <1>5
    <2>2. waited[s] + 1 <= TTL
      BY <1>1, <1>3, <1>5 DEF Open, Busy
    <2>3. quiet'[s] \in 0..Interval
      BY <1>1, <1>2, <1>3, <1>5
    <2>4. Timers(s)'
      BY <1>1, <1>2, <1>3, <1>5, <2>1 DEF Timers, Open, Busy
    <2>5. Refreshed(s)'
      <3>1. key + waited[s] >= TTL => key' + waited'[s] >= TTL
        BY <1>1, <1>2, <2>1, TickOfKey
      <3>2. tab[s] = "alive" /\ key + quiet[s] >= TTL => key' + quiet'[s] >= TTL
        BY <1>1, <1>2, <1>5, TickOfKey
      <3>3. /\ Longest \in Nat /\ Longest' = Longest
            /\ Longest + waited[s] \in Nat
            /\ Longest + (waited[s] + 1) = (Longest + waited[s]) + 1
        BY <1>1 DEF Longest
      <3> HIDE DEF Longest
      <3>4. key + (Longest + waited[s]) >= TTL => key' + (Longest + waited'[s]) >= TTL
        BY <1>1, <1>2, <2>1, <3>3, TickOfKey
      <3>5. pc[s] = "wait" => frames[s] = 0
        BY <1>3, <1>5
      <3> QED
        BY <1>1, <1>2, <3>1, <3>2, <3>3, <3>4, <3>5 DEF Refreshed
    <2> QED
      BY <1>1, <1>2, <2>1, <2>2, <2>3, <2>4, <2>5 DEF SocketOf
  <1> QED
    BY <1>1, <1>4, <1>5

LEMMA TickKeeps ==
    ASSUME Inv, Tick
    PROVE  Inv'
  <1>1. \A s \in Sockets :
           waited'[s] \in 0..TTL /\ quiet'[s] \in 0..Interval /\ SocketOf(s)'
    BY TickOfSocket
  <1>2. TypeOK'
    <2>1. /\ key \in 0..TTL /\ told \in 0..(Cardinality(Sockets) + 1)
          /\ Cardinality(Sockets) \in Nat
      BY AnnouncersFinite DEF Inv, TypeOK
    <2>2. key' \in 0..TTL /\ told' \in 0..(Cardinality(Sockets) + 1)
      BY <2>1 DEF Tick
    <2>3. waited' \in [Sockets -> 0..TTL] /\ quiet' \in [Sockets -> 0..Interval]
      <3>1. waited' = [s \in Sockets |-> waited'[s]] /\ quiet' = [s \in Sockets |-> quiet'[s]]
        BY DEF Tick
      <3> QED
        BY <1>1, <3>1
    <2> QED
      BY <2>2, <2>3 DEF Inv, TypeOK, Tick
  <1>3. Announced'
    <2>1. /\ told \in Nat /\ told' \in Nat /\ told' <= told /\ (key' = 0 => told' = 0)
          /\ TypeOK /\ Announced
      BY DEF Inv, TypeOK, Tick
    <2>2. Announcers' \subseteq Announcers
      BY DEF Tick, Announcers
    <2> HIDE DEF Announcers
    <2> QED
      BY <2>1, <2>2, FewerAnnouncers DEF Announced
  <1> QED
    BY <1>1, <1>2, <1>3 DEF Inv

-----------------------------------------------------------------------------
(* The theorems *)

LEMMA StepInv == Inv /\ [Next]_vars => Inv'
  <1> SUFFICES ASSUME Inv, [Next]_vars PROVE Inv'
    OBVIOUS
  <1>1. ASSUME NEW s \in Sockets, Serve(s) PROVE Inv'
    <2>1. CASE Authenticate(s)
      <3>1. CASE Received(s)
        BY <2>1, <3>1, ReceivedKeeps DEF Authenticate
      <3>2. CASE Close(s)
        BY <2>1, <3>2, EndsKeeps DEF Authenticate
      <3> QED
        BY <2>1, <3>1, <3>2 DEF Authenticate
    <2>2. CASE Heartbeat(s)
      BY <2>2, ReceivedKeeps DEF Heartbeat
    <2>3. CASE Timeout(s)
      BY <2>3, EndsKeeps DEF Timeout
    <2>4. CASE Disconnect(s)
      BY <2>4, EndsKeeps DEF Disconnect
    <2> QED
      BY <1>1, <2>1, <2>2, <2>3, <2>4, ReplyKeeps, IsOnlineKeeps, SetOnlineKeeps,
         PublishKeeps DEF Serve
  <1>2. CASE UNCHANGED vars
    <2>1. /\ UNCHANGED <<key, pc, waited, found, acked, frames, quiet, tab, told, faults>>
          /\ TypeOK /\ Announced /\ \A s \in Sockets : SocketOf(s)
      BY <1>2 DEF vars, Inv
    <2>2. TypeOK' /\ Announced'
      BY <2>1 DEF TypeOK, Announced, Announcers
    <2>3. \A s \in Sockets : SocketOf(s)'
      BY <2>1 DEF SocketOf, Timers, Refreshed
    <2> QED
      BY <2>2, <2>3 DEF Inv
  <1> QED
    BY <1>1, <1>2, ConnectKeeps, SendFrameKeeps, LeaveKeeps, FailsKeeps, TickKeeps DEF Next

(* The invariant holds throughout. *)
LEMMA InvAlways == Spec => []Inv
  BY InitInv, StepInv, PTL DEF Spec

(* No timer runs past its end and no heartbeat is later than its interval: *)
(* what the handler's timeouts are set to bounds every wait.               *)
THEOREM TypeCorrect == Spec => []TypeOK
  <1>1. Inv => TypeOK
    BY DEF Inv
  <1> QED
    BY <1>1, InvAlways, PTL

(* An account with an answered, open and living tab has its key, whatever  *)
(* its other tabs, the failing calls and the replicas do                   *)
(* (update_presence.py:18, presence_ws_controller.py:31).                  *)
THEOREM AlwaysOnline == Spec => []StaysOnline
  <1>1. Inv => StaysOnline
    BY KeyIsThere DEF StaysOnline, Online
  <1> QED
    BY <1>1, InvAlways, PTL

(* Between two times offline each tab announces the account at most once,  *)
(* however the reads of the key and its writes interleave.                 *)
THEOREM AnnouncedOncePerTab == Spec => []AnnouncementsBounded
  <1>1. Inv => AnnouncementsBounded
    <2> SUFFICES ASSUME Inv PROVE AnnouncementsBounded
      OBVIOUS
    <2> HIDE DEF Announcers
    <2> QED
      BY AnnouncersFinite DEF Inv, TypeOK, Announced, AnnouncementsBounded
  <1> QED
    BY <1>1, InvAlways, PTL

=============================================================================
