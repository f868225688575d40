-------------------------------- MODULE Presence --------------------------------
(***************************************************************************)
(* The online mark of one account: its open tabs, each a WebSocket with a  *)
(* handler of its own on some replica, and the one Redis key they share.   *)
(*                                                                         *)
(* A handler waits AuthTimeout for the frame with the token, then up to    *)
(* TTL for each heartbeat.  Every frame is one execute(): look whether the *)
(* key exists, set it to live for TTL, announce the account if the key was *)
(* not there, answer.  The awaits between them are where other tabs, the   *)
(* clock and failures come in.  Nothing ever deletes the key.              *)
(*                                                                         *)
(* Time is counted in ticks.  A frame is taken up, and a timer fires,      *)
(* before the next tick; one execute() takes at most Delay ticks; a tab    *)
(* that is alive sends a frame at least every Interval ticks.  Redis keeps *)
(* a key until it expires.                                                 *)
(***************************************************************************)
EXTENDS Naturals, FiniteSets

CONSTANTS
    Sockets,      \* the account's tabs
    TTL,          \* PRESENCE_TTL_SECONDS
    AuthTimeout,  \* AUTH_FRAME_TIMEOUT_SECONDS
    Interval,     \* HEARTBEAT_EXPECTED_INTERVAL
    Delay,        \* how long the calls of one execute() take
    MaxFrames,    \* bound: frames on their way to a handler
    MaxFaults     \* bound: failing calls

ASSUME ConstantsOK ==
    /\ AuthTimeout \in Nat \ {0} /\ Interval \in Nat \ {0} /\ Delay \in Nat
    /\ TTL \in Nat /\ AuthTimeout <= TTL
    /\ Interval + Delay < TTL  \* a heartbeat that was sent when it was due
    /\ Delay + Delay < TTL     \* one that came in while another was handled
    /\ MaxFrames \in Nat \ {0} /\ MaxFaults \in Nat
    /\ IsFiniteSet(Sockets)

VARIABLES
    key,       \* what is left of the key's lifetime, 0 if there is no key
    pc,        \* of a socket: where its handler stands
    waited,    \* how long the handler has been in its current state, in ticks
    found,     \* was_online, as execute() has read it
    acked,     \* whether the tab has had an answer
    frames,    \* frames it has sent that the handler has not received
    quiet,     \* ticks since it last sent one
    tab,       \* the tab itself: alive, silent (suspended, network gone) or gone
    told,      \* history: announcements since the account was last offline
    faults

vars == <<key, pc, waited, found, acked, frames, quiet, tab, told, faults>>

client == <<frames, quiet, tab>>

Busy == {"exists", "set", "publish", "reply"}
Open == {"auth", "wait"} \cup Busy

Init ==
    /\ key = 0
    /\ pc = [s \in Sockets |-> "closed"]
    /\ waited = [s \in Sockets |-> 0]
    /\ found = [s \in Sockets |-> FALSE]
    /\ acked = [s \in Sockets |-> FALSE]
    /\ frames = [s \in Sockets |-> 0]
    /\ quiet = [s \in Sockets |-> 0]
    /\ tab = [s \in Sockets |-> "gone"]
    /\ told = 0
    /\ faults = 0

Online == key > 0

GoTo(s, label) == pc' = [pc EXCEPT ![s] = label]

-----------------------------------------------------------------------------
(* The tabs *)

(* A tab connects; websocket.accept(). *)
Connect(s) ==
    /\ pc[s] = "closed"
    /\ GoTo(s, "auth")
    /\ tab' = [tab EXCEPT ![s] = "alive"]
    /\ UNCHANGED <<key, waited, found, acked, frames, quiet, told, faults>>

SendFrame(s) ==
    /\ tab[s] = "alive" /\ pc[s] \in Open
    /\ frames[s] < MaxFrames
    /\ frames' = [frames EXCEPT ![s] = @ + 1]
    /\ quiet' = [quiet EXCEPT ![s] = 0]
    /\ UNCHANGED <<key, pc, waited, found, acked, tab, told, faults>>

(* It stops sending without closing the connection, or closes it. *)
Leave(s) ==
    /\ pc[s] \in Open
    /\ \/ tab[s] = "alive" /\ tab' = [tab EXCEPT ![s] = "silent"]
       \/ tab[s] # "gone" /\ tab' = [tab EXCEPT ![s] = "gone"]
    /\ UNCHANGED <<key, pc, waited, found, acked, frames, quiet, told, faults>>

-----------------------------------------------------------------------------
(* presence_heartbeat *)

(* The handler ends, and with it the connection and all that was on it. *)
Close(s) ==
    /\ GoTo(s, "closed")
    /\ waited' = [waited EXCEPT ![s] = 0]
    /\ found' = [found EXCEPT ![s] = FALSE]
    /\ acked' = [acked EXCEPT ![s] = FALSE]
    /\ frames' = [frames EXCEPT ![s] = 0]
    /\ quiet' = [quiet EXCEPT ![s] = 0]
    /\ tab' = [tab EXCEPT ![s] = "gone"]

(* receive_text returns a frame, and execute() begins. *)
Received(s) ==
    /\ frames[s] > 0
    /\ frames' = [frames EXCEPT ![s] = @ - 1]
    /\ waited' = [waited EXCEPT ![s] = 0]
    /\ GoTo(s, "exists")
    /\ UNCHANGED <<found, acked, quiet, tab>>

(* The first frame: its token is good or it is not. *)
Authenticate(s) ==
    /\ pc[s] = "auth"
    /\ frames[s] > 0
    /\ Received(s) \/ Close(s)
    /\ UNCHANGED <<key, told, faults>>

Heartbeat(s) ==
    /\ pc[s] = "wait"
    /\ Received(s)
    /\ UNCHANGED <<key, told, faults>>

(* Faulty variant: the timers run a tick too long. *)
ExpiresLate(s) ==
    \/ pc[s] = "auth" /\ waited[s] > AuthTimeout
    \/ pc[s] = "wait" /\ waited[s] > TTL

(* Nothing arrives in time. *)
Expires(s) ==
    \/ pc[s] = "auth" /\ waited[s] >= AuthTimeout
    \/ pc[s] = "wait" /\ waited[s] >= TTL

(* Faulty variant: running into the timeout is as good as a heartbeat. *)
TimeoutRefreshes(s) ==
    /\ Expires(s)
    /\ \/ /\ pc[s] = "wait"
          /\ GoTo(s, "exists")
          /\ waited' = [waited EXCEPT ![s] = 0]
          /\ UNCHANGED <<found, acked, client>>
       \/ pc[s] = "auth" /\ Close(s)
    /\ UNCHANGED <<key, told, faults>>

Timeout(s) ==
    /\ Expires(s)
    /\ Close(s)
    /\ UNCHANGED <<key, told, faults>>

(* Faulty variant: a tab that is closed takes the account offline. *)
DisconnectDeletes(s) ==
    /\ pc[s] \in {"auth", "wait"}
    /\ tab[s] = "gone" /\ frames[s] = 0
    /\ Close(s)
    /\ key' = 0 /\ told' = 0
    /\ UNCHANGED faults

(* receive_text raises WebSocketDisconnect once the frames are read. *)
Disconnect(s) ==
    /\ pc[s] \in {"auth", "wait"}
    /\ tab[s] = "gone" /\ frames[s] = 0
    /\ Close(s)
    /\ UNCHANGED <<key, told, faults>>

(* "ok" or "pong"; to a tab that has gone, sending raises. *)
Reply(s) ==
    /\ pc[s] = "reply"
    /\ \/ tab[s] = "gone" /\ Close(s)
       \/ /\ GoTo(s, "wait")
          /\ waited' = [waited EXCEPT ![s] = 0]
          /\ acked' = [acked EXCEPT ![s] = TRUE]
          /\ UNCHANGED <<found, client>>
    /\ UNCHANGED <<key, told, faults>>

-----------------------------------------------------------------------------
(* UpdatePresenceUseCase.execute *)

IsOnline(s) ==
    /\ pc[s] = "exists"
    /\ found' = [found EXCEPT ![s] = Online]
    /\ GoTo(s, "set")
    /\ UNCHANGED <<key, waited, acked, client, told, faults>>

(* Faulty variant: every heartbeat is announced. *)
SetOnlineAnnounced(s) ==
    /\ pc[s] = "set"
    /\ key' = TTL
    /\ GoTo(s, "publish")
    /\ UNCHANGED <<waited, found, acked, client, told, faults>>

SetOnline(s) ==
    /\ pc[s] = "set"
    /\ key' = TTL
    /\ GoTo(s, IF found[s] THEN "reply" ELSE "publish")
    /\ UNCHANGED <<waited, found, acked, client, told, faults>>

Publish(s) ==
    /\ pc[s] = "publish"
    /\ told' = IF told > Cardinality(Sockets) THEN told ELSE told + 1
    /\ GoTo(s, "reply")
    /\ UNCHANGED <<key, waited, found, acked, client, faults>>

(* A call fails, done or not: nothing catches it, the connection is closed.*)
(* So it is when the replica dies.                                         *)
Fails(s) ==
    /\ pc[s] \in Busy
    /\ faults < MaxFaults
    /\ faults' = faults + 1
    /\ key' \in {key, IF pc[s] = "set" THEN TTL ELSE key}
    /\ told' \in {told, IF pc[s] = "publish" /\ told <= Cardinality(Sockets)
                        THEN told + 1 ELSE told}
    /\ Close(s)

-----------------------------------------------------------------------------
(* Time *)

Punctual(s) == tab[s] = "alive" => quiet[s] < Interval

(* A frame that has arrived, a timer that is over and a closed connection  *)
(* are seen at once; a running execute() ends within Delay.                *)
Prompt(s) ==
    /\ pc[s] \in Busy => waited[s] < Delay
    /\ pc[s] \in {"auth", "wait"} =>
          ~Expires(s) /\ frames[s] = 0 /\ tab[s] # "gone"

Tick ==
    /\ \A s \in Sockets : pc[s] \in Open => Punctual(s) /\ Prompt(s)
    /\ key' = IF key = 0 THEN 0 ELSE key - 1
    /\ told' = IF key' = 0 THEN 0 ELSE told
    /\ waited' = [s \in Sockets |-> IF pc[s] \in Open THEN waited[s] + 1 ELSE 0]
    /\ quiet' = [s \in Sockets |->
                    IF pc[s] \in Open /\ tab[s] = "alive" THEN quiet[s] + 1 ELSE quiet[s]]
    /\ UNCHANGED <<pc, found, acked, frames, tab, faults>>

-----------------------------------------------------------------------------

Serve(s) ==
    \/ Authenticate(s) \/ Heartbeat(s) \/ Timeout(s) \/ Disconnect(s) \/ Reply(s)
    \/ IsOnline(s) \/ SetOnline(s) \/ Publish(s)

Next ==
    \/ \E s \in Sockets :
         Connect(s) \/ SendFrame(s) \/ Leave(s) \/ Serve(s) \/ Fails(s)
    \/ Tick

Spec == Init /\ [][Next]_vars

(* The event loop runs every handler that can go on, time passes, and a    *)
(* tab that is alive sends its heartbeat when it is due.                   *)
Fairness ==
    /\ \A s \in Sockets : WF_vars(Serve(s)) /\ WF_vars(SendFrame(s) /\ ~Punctual(s))
    /\ WF_vars(Tick)

LiveSpec == Spec /\ Fairness

-----------------------------------------------------------------------------

TypeOK ==
    /\ key \in 0..TTL
    /\ pc \in [Sockets -> {"closed"} \cup Open]
    /\ waited \in [Sockets -> 0..TTL]
    /\ found \in [Sockets -> BOOLEAN]
    /\ acked \in [Sockets -> BOOLEAN]
    /\ frames \in [Sockets -> 0..MaxFrames]
    /\ quiet \in [Sockets -> 0..Interval]
    /\ tab \in [Sockets -> {"alive", "silent", "gone"}]
    /\ told \in 0..(Cardinality(Sockets) + 1)
    /\ faults \in 0..MaxFaults

(* "Keep a person marked online for as long as they have a tab open"       *)
(* (presence_ws_controller.py:31): while a tab that has been answered is   *)
(* open and alive, its owner is online, whatever the other tabs do.        *)
StaysOnline ==
    \A s \in Sockets : pc[s] \in Open /\ acked[s] /\ tab[s] = "alive" => Online

(* Tabs that find the account offline at once each announce it, and no     *)
(* more than once: an online account is announced at most once by each     *)
(* (update_presence.py:18).                                                *)
AnnouncementsBounded == told <= Cardinality(Sockets)

(* "letting go is the whole of went offline" (presence_ws_controller.py:   *)
(* 74): when every tab has stopped sending for good, the account is        *)
(* offline in the end and no handler is left waiting.                      *)
SilentGoesOffline ==
    <>[](\A s \in Sockets : pc[s] \in Open => tab[s] # "alive")
        => <>[](key = 0 /\ \A s \in Sockets : pc[s] = "closed")

=============================================================================
