-------------------------------- MODULE Relay ---------------------------------
(***************************************************************************)
(* What the transactional outbox promises: an event is published only if   *)
(* its transaction committed, it counts as dispatched only once it is on   *)
(* the topic, and every committed event gets there, at least once.  No     *)
(* order and no bound on duplicates are promised here.                     *)
(***************************************************************************)
EXTENDS Sequences

CONSTANT Rows

VARIABLES
    committed,   \* rows whose transaction committed
    log,         \* the topic's partition
    dispatched   \* rows nobody needs to publish any more

vars == <<committed, log, dispatched>>

Init == committed = {} /\ log = <<>> /\ dispatched = {}

Commit(r) ==
    /\ r \notin committed
    /\ committed' = committed \cup {r}
    /\ UNCHANGED <<log, dispatched>>

Publish(r) ==
    /\ r \in committed
    /\ log' = Append(log, r)
    /\ UNCHANGED <<committed, dispatched>>

MarkDispatched(r) ==
    /\ \E i \in DOMAIN log : log[i] = r
    /\ dispatched' = dispatched \cup {r}
    /\ UNCHANGED <<committed, log>>

Next == \E r \in Rows : Commit(r) \/ Publish(r) \/ MarkDispatched(r)

Spec == Init /\ [][Next]_vars
=============================================================================
