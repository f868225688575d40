-------------------------------- MODULE Outbox --------------------------------
(***************************************************************************)
(* The outbox table and its dispatchers, one per replica.                  *)
(*                                                                         *)
(* A row gets its created_at when the flush inserts it, before the UPDATE  *)
(* that locks the user's row, and becomes visible when its transaction     *)
(* commits.  A dispatcher selects a batch of visible undispatched rows,    *)
(* oldest created_at first and without locking them, and publishes and     *)
(* marks them one by one.                                                  *)
(*                                                                         *)
(* What an error does to the rest of the batch depends on the session: the *)
(* SELECT leaves a transaction open, so a rollback expires every row       *)
(* object, and the next row.topic raises again, inside the handler too,    *)
(* which ends the batch.  After a row has been committed no transaction is *)
(* open, the rollback does nothing, and the loop goes on to the next row.  *)
(*                                                                         *)
(* created_at is modelled as the order of the flushes (one clock).  Faults *)
(* and crashes together are bounded by MaxFaults.                          *)
(***************************************************************************)
EXTENDS Naturals, Sequences, FiniteSets

CONSTANTS
    Rows,          \* ids of outbox rows (and event_ids)
    AggregateOf,   \* Rows -> aggregate ids: the key of the message
    Dispatchers,   \* replicas that run an OutboxDispatcher
    BatchSize,     \* settings.outbox_batch_size
    MaxOpen,       \* bound: transactions of one aggregate open at once
    MaxFaults      \* bound: failed publishes and updates, and crashes

ASSUME ConstantsOK ==
    /\ IsFiniteSet(Rows) /\ IsFiniteSet(Dispatchers)
    /\ DOMAIN AggregateOf = Rows
    /\ BatchSize \in Nat \ {0}
    /\ MaxOpen \in Nat /\ MaxFaults \in Nat

VARIABLES
    status,    \* of a row: new, open (flushed), committed, dispatched, gone
    stamp,     \* its created_at, 0 until it is flushed
    clock,     \* the last created_at given
    commits,   \* history: rows in the order they committed
    log,       \* the partition of user-events
    pc,        \* of a dispatcher: idle, publish, mark
    batch,     \* the rows of its batch it has not come to
    inTxn,     \* whether its session has a transaction open
    faults     \* how many faults there have been

writers == <<status, stamp, clock, commits>>
vars == <<status, stamp, clock, commits, log, pc, batch, inTxn, faults>>

Init ==
    /\ status = [r \in Rows |-> "new"]
    /\ stamp = [r \in Rows |-> 0]
    /\ clock = 0
    /\ commits = <<>>
    /\ log = <<>>
    /\ pc = [d \in Dispatchers |-> "idle"]
    /\ batch = [d \in Dispatchers |-> {}]
    /\ inTxn = [d \in Dispatchers |-> FALSE]
    /\ faults = 0

SetStatus(r, s) == status' = [status EXCEPT ![r] = s]

-----------------------------------------------------------------------------
(* The requests that write events *)

OpenOf(r) == {s \in Rows : status[s] = "open" /\ AggregateOf[s] = AggregateOf[r]}

Flush(r) ==
    /\ status[r] = "new"
    /\ Cardinality(OpenOf(r)) < MaxOpen
    /\ SetStatus(r, "open")
    /\ clock' = clock + 1
    /\ stamp' = [stamp EXCEPT ![r] = clock']
    /\ UNCHANGED <<commits, log, pc, batch, inTxn, faults>>

Commit(r) ==
    /\ status[r] = "open"
    /\ SetStatus(r, "committed")
    /\ commits' = Append(commits, r)
    /\ UNCHANGED <<stamp, clock, log, pc, batch, inTxn, faults>>

Rollback(r) ==
    /\ status[r] = "open"
    /\ SetStatus(r, "gone")
    /\ UNCHANGED <<stamp, clock, commits, log, pc, batch, inTxn, faults>>

-----------------------------------------------------------------------------
(* The dispatcher *)

(* Faulty variant: rows of open transactions are seen, too. *)
UndispatchedDirty == {r \in Rows : status[r] \in {"open", "committed"}}

Undispatched == {r \in Rows : status[r] = "committed"}

(* ORDER BY created_at LIMIT BatchSize *)
Oldest(rows) ==
    {r \in rows : Cardinality({s \in rows : stamp[s] <= stamp[r]}) <= BatchSize}

(* Faulty variant: no ORDER BY. *)
HeadsUnordered(d) == batch[d]

(* The row the loop has come to. *)
Heads(d) == {r \in batch[d] : \A s \in batch[d] : stamp[r] <= stamp[s]}

Poll(d) ==
    /\ pc[d] = "idle"
    /\ Undispatched # {}
    /\ batch' = [batch EXCEPT ![d] = Oldest(Undispatched)]
    /\ inTxn' = [inTxn EXCEPT ![d] = TRUE]
    /\ pc' = [pc EXCEPT ![d] = "publish"]
    /\ UNCHANGED <<writers, log, faults>>

PublishRow(d) ==
    \E r \in Heads(d) :
        /\ pc[d] = "publish"
        /\ log' = Append(log, r)
        /\ pc' = [pc EXCEPT ![d] = "mark"]
        /\ UNCHANGED <<writers, batch, inTxn, faults>>

(* Faulty variant: what ends a batch ends the loop. *)
GoOnOrStop(d, left) ==
    /\ batch' = [batch EXCEPT ![d] = left]
    /\ inTxn' = [inTxn EXCEPT ![d] = FALSE]
    /\ pc' = [pc EXCEPT ![d] = IF left = {} THEN "stopped" ELSE "publish"]

(* On to the rows left, or back to sleep. *)
GoOn(d, left) ==
    /\ batch' = [batch EXCEPT ![d] = left]
    /\ inTxn' = [inTxn EXCEPT ![d] = FALSE]
    /\ pc' = [pc EXCEPT ![d] = IF left = {} THEN "idle" ELSE "publish"]

(* Faulty variant: the update is never committed. *)
MarkRowUncommitted(d) ==
    \E r \in Heads(d) :
        /\ pc[d] = "mark"
        /\ GoOn(d, batch[d] \ {r})
        /\ UNCHANGED <<writers, log, faults>>

(* UPDATE ... WHERE id = row.id, then commit: whatever the row holds now.  *)
MarkRow(d) ==
    \E r \in Heads(d) :
        /\ pc[d] = "mark"
        /\ SetStatus(r, "dispatched")
        /\ GoOn(d, batch[d] \ {r})
        /\ UNCHANGED <<stamp, clock, commits, log, faults>>

Fault == faults < MaxFaults /\ faults' = faults + 1

(* The publish raises; the broker may have the message all the same.       *)
PublishFails(d) ==
    \E r \in Heads(d) :
        /\ pc[d] = "publish"
        /\ Fault
        /\ log' \in {log, Append(log, r)}
        /\ GoOn(d, IF inTxn[d] THEN {} ELSE batch[d] \ {r})
        /\ UNCHANGED writers

(* The update or its commit raises; the commit may have happened.          *)
MarkFails(d) ==
    \E r \in Heads(d) :
        /\ pc[d] = "mark"
        /\ Fault
        /\ status' \in {status, [status EXCEPT ![r] = "dispatched"]}
        /\ GoOn(d, {})
        /\ UNCHANGED <<stamp, clock, commits, log>>

(* stop() cancels the task, or the process dies: the batch is forgotten,   *)
(* a message being sent may still arrive. A new dispatcher takes over.     *)
Crash(d) ==
    /\ pc[d] # "idle"
    /\ Fault
    /\ \/ log' = log
       \/ pc[d] = "publish" /\ \E r \in Heads(d) : log' = Append(log, r)
    /\ GoOn(d, {})
    /\ UNCHANGED writers

Dispatch(d) ==
    \/ Poll(d) \/ PublishRow(d) \/ MarkRow(d)
    \/ PublishFails(d) \/ MarkFails(d) \/ Crash(d)

Next ==
    \/ \E r \in Rows : Flush(r) \/ Commit(r) \/ Rollback(r)
    \/ \E d \in Dispatchers : Dispatch(d)

(* The run loop always comes back (_run_loop catches what a batch raises,  *)
(* then sleeps), and a coroutine whose await has completed is resumed.     *)
(* Nothing is assumed of the writers.                                      *)
Fairness ==
    \A d \in Dispatchers :
        WF_vars(Poll(d)) /\ WF_vars(PublishRow(d)) /\ WF_vars(MarkRow(d))

Spec == Init /\ [][Next]_vars /\ Fairness

-----------------------------------------------------------------------------

TypeOK ==
    /\ status \in [Rows -> {"new", "open", "committed", "dispatched", "gone"}]
    /\ stamp \in [Rows -> Nat]
    /\ clock \in Nat
    /\ commits \in Seq(Rows)
    /\ log \in Seq(Rows)
    /\ pc \in [Dispatchers -> {"idle", "publish", "mark"}]
    /\ batch \in [Dispatchers -> SUBSET Rows]
    /\ inTxn \in [Dispatchers -> BOOLEAN]
    /\ faults \in Nat

(* Position of a row's first appearance; only for rows that appear. *)
FirstIn(seq, r) ==
    CHOOSE i \in DOMAIN seq : seq[i] = r /\ \A j \in 1..(i - 1) : seq[j] # r

Appears(seq, r) == \E i \in DOMAIN seq : seq[i] = r

(* r was committed before s, of the same aggregate, yet a consumer that    *)
(* drops the event_ids it has seen reads s first.                          *)
Overtaken(r, s) ==
    /\ AggregateOf[r] = AggregateOf[s]
    /\ Appears(log, s) /\ Appears(commits, r)
    /\ FirstIn(commits, r) < FirstIn(commits, s)
    /\ ~Appears(log, r) \/ FirstIn(log, s) < FirstIn(log, r)

(* The events of one aggregate are read in the order their transactions    *)
(* committed (topics.py: "Ordering per aggregate is what matters here").   *)
FirstInOrder == \A r, s \in Rows : ~Overtaken(r, s)

(* As long as nothing fails, with any number of dispatchers on the same    *)
(* rows, only transactions that flushed in one order and committed in the  *)
(* other can have their events read out of order.                          *)
OrderKept ==
    faults = 0 => \A r, s \in Rows : Overtaken(r, s) => stamp[s] < stamp[r]

(* How often a row can be published: once by each dispatcher that had it   *)
(* in a batch before it was marked, and once more per fault.               *)
CopiesBounded ==
    \A r \in Rows :
        Cardinality({i \in DOMAIN log : log[i] = r}) <= Cardinality(Dispatchers) + faults

(* At least once: whatever committed is dispatched in the end, although    *)
(* publishes fail, updates fail and dispatchers die.                       *)
EverythingDispatched ==
    \A r \in Rows : status[r] = "committed" ~> status[r] = "dispatched"

(* The outbox implements Relay. *)
Committed == {r \in Rows : status[r] \in {"committed", "dispatched"}}
Dispatched == {r \in Rows : status[r] = "dispatched"}
Promise == INSTANCE Relay WITH committed <- Committed, dispatched <- Dispatched
PromiseSpec == Promise!Spec
=============================================================================
