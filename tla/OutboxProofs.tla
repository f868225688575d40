----------------------------- MODULE OutboxProofs -----------------------------
(***************************************************************************)
(* For any number of rows, replicas and faults: the outbox keeps the       *)
(* promise of Relay, the copies of a row are bounded, and until something  *)
(* fails an aggregate's events are first read in the order they were       *)
(* stamped.  Of the processes the dispatchers run in, for any number of    *)
(* starts, failures and deaths and any outages: one that reports itself    *)
(* ready is seeded, and what runs has what it needs.                       *)
(*                                                                         *)
(* The hard case of the promise is marking: a row may be marked only if it *)
(* is on the topic, and what the dispatcher has published is the head of   *)
(* its batch, which is one row only because no two rows share a stamp.  A  *)
(* copy costs a dispatcher that had the row in its batch, or a fault.      *)
(* Order rests on what a batch leaves out: a row older than one it has is  *)
(* either in it, or on the topic already, or was not committed in time.    *)
(***************************************************************************)
EXTENDS Outbox, Lifespan, FiniteSetTheorems, TLAPS

USE ConstantsOK

Flushed == {r \in Rows : status[r] # "new"}

StampsDiffer ==
    /\ \A r \in Rows : stamp[r] <= clock
    /\ \A r, s \in Flushed : r # s => stamp[r] # stamp[s]

BatchesCommitted == \A d \in Dispatchers : batch[d] \subseteq Committed

MarkedIsPublished ==
    \A d \in Dispatchers :
        pc[d] = "mark" => \A r \in Heads(d) : Appears(log, r)

DispatchInv ==
    TypeOK /\ StampsDiffer /\ BatchesCommitted /\ MarkedIsPublished

LEMMA InitInv == Init => DispatchInv
  <1> SUFFICES ASSUME Init PROVE DispatchInv
    OBVIOUS
  <1>1. TypeOK
    BY DEF Init, TypeOK
  <1>2. StampsDiffer /\ BatchesCommitted /\ MarkedIsPublished
    BY DEF Init, StampsDiffer, Flushed, BatchesCommitted, MarkedIsPublished
  <1> QED
    BY <1>1, <1>2 DEF DispatchInv

(* Appending to the topic takes nothing off it. *)
LEMMA AppendAppears ==
    ASSUME log \in Seq(Rows), NEW r \in Rows, log' = Append(log, r)
    PROVE  /\ Appears(log, r)'
           /\ \A s : Appears(log, s) => Appears(log, s)'
           /\ log' \in Seq(Rows)
  <1>1. /\ DOMAIN log' = 1..(Len(log) + 1) /\ Len(log) \in Nat
        /\ \A i \in 1..Len(log) : log'[i] = log[i]
        /\ log'[Len(log) + 1] = r /\ DOMAIN log = 1..Len(log)
        /\ log' \in Seq(Rows)
    OBVIOUS
  <1> QED
    BY <1>1 DEF Appears

LEMMA WriterInv ==
    ASSUME DispatchInv, NEW r \in Rows, Flush(r) \/ Commit(r) \/ Rollback(r)
    PROVE  DispatchInv'
  <1> USE DEF DispatchInv, TypeOK
  <1>1. CASE Flush(r)
    <2>1. /\ status' = [status EXCEPT ![r] = "open"] /\ status[r] = "new"
          /\ clock' = clock + 1 /\ stamp' = [stamp EXCEPT ![r] = clock + 1]
          /\ UNCHANGED <<commits, log, pc, batch, inTxn, faults>>
      BY <1>1 DEF Flush, SetStatus
    <2>2. TypeOK'
      BY <2>1
    <2>3. StampsDiffer'
      BY <2>1 DEF StampsDiffer, Flushed
    <2>4. BatchesCommitted'
      BY <2>1 DEF BatchesCommitted, Committed
    <2>5. MarkedIsPublished'
      <3>1. \A d \in Dispatchers : r \notin batch[d]
        BY <2>1 DEF BatchesCommitted, Committed
      <3>2. \A d \in Dispatchers : Heads(d)' = Heads(d)
        BY <2>1, <3>1 DEF Heads
      <3> QED
        BY <2>1, <3>2 DEF MarkedIsPublished, Appears
    <2> QED
      BY <2>2, <2>3, <2>4, <2>5
  <1>2. CASE Commit(r) \/ Rollback(r)
    <2>0. PICK x \in {"committed", "gone"} : status' = [status EXCEPT ![r] = x]
      BY <1>2 DEF Commit, Rollback, SetStatus
    <2>1. /\ status[r] = "open" /\ commits' \in Seq(Rows)
          /\ UNCHANGED <<stamp, clock, log, pc, batch, inTxn, faults>>
      <3>1. CASE Commit(r)
        BY <3>1 DEF Commit, SetStatus
      <3>2. CASE Rollback(r)
        BY <3>2 DEF Rollback, SetStatus
      <3> QED
        BY <1>2, <3>1, <3>2
    <2>2. TypeOK'
      <3>1. status' \in [Rows -> {"new", "open", "committed", "dispatched", "gone"}]
        BY <2>0
      <3> QED
        BY <2>1, <3>1
    <2>4. StampsDiffer'
      <3>1. Flushed' = Flushed
        BY <2>0, <2>1 DEF Flushed
      <3> QED
        BY <2>1, <3>1 DEF StampsDiffer
    <2>5. BatchesCommitted'
      <3>1. Committed \subseteq Committed'
        BY <2>0, <2>1 DEF Committed
      <3> QED
        BY <2>1, <3>1 DEF BatchesCommitted
    <2>3. MarkedIsPublished'
      BY <2>1 DEF MarkedIsPublished, Heads, Appears
    <2> QED
      BY <2>2, <2>3, <2>4, <2>5
  <1> QED
    BY <1>1, <1>2

(* Two heads of a batch are one. *)
LEMMA OneHead ==
    ASSUME DispatchInv, NEW d \in Dispatchers, NEW r \in Heads(d), NEW s \in Heads(d)
    PROVE  r = s
  <1>1. r \in Flushed /\ s \in Flushed /\ stamp[r] <= stamp[s] /\ stamp[s] <= stamp[r]
    BY DEF DispatchInv, BatchesCommitted, Committed, Flushed, Heads
  <1>2. stamp[r] = stamp[s]
    BY <1>1 DEF DispatchInv, TypeOK, Flushed
  <1> QED
    BY <1>1, <1>2 DEF DispatchInv, StampsDiffer

(* What every dispatcher step leaves alone or does only in the right way.  *)
DispatchFrame(d) ==
    /\ UNCHANGED <<stamp, clock, commits>>
    /\ log' = log \/ \E r \in Heads(d) : log' = Append(log, r)
    /\ \/ status' = status
       \/ pc[d] = "mark" /\ \E r \in Heads(d) : status' = [status EXCEPT ![r] = "dispatched"]
    /\ \A e \in Dispatchers \ {d} : pc'[e] = pc[e] /\ batch'[e] = batch[e]
    /\ pc \in [Dispatchers -> {"idle", "publish", "mark"}] =>
          pc' \in [Dispatchers -> {"idle", "publish", "mark"}]
    /\ batch' \in [Dispatchers -> SUBSET Rows]
    /\ batch'[d] \subseteq batch[d] \cup Undispatched
    /\ inTxn' \in [Dispatchers -> BOOLEAN]
    /\ faults' \in Nat
    /\ pc'[d] = "mark" =>
          batch'[d] = batch[d] /\ \E r \in Heads(d) : log' = Append(log, r)

LEMMA DispatchHasFrame ==
    ASSUME DispatchInv, NEW d \in Dispatchers, Dispatch(d)
    PROVE  DispatchFrame(d)
  <1> USE DEF DispatchInv, TypeOK
  <1>1. CASE Poll(d)
    <2>1. Oldest(Undispatched) \subseteq Undispatched /\ Undispatched \subseteq Rows
      BY DEF Oldest, Undispatched
    <2>2. /\ UNCHANGED <<status, stamp, clock, commits, log, faults>>
          /\ batch' = [batch EXCEPT ![d] = Oldest(Undispatched)]
          /\ inTxn' = [inTxn EXCEPT ![d] = TRUE] /\ pc' = [pc EXCEPT ![d] = "publish"]
      BY <1>1 DEF Poll, writers
    <2> HIDE DEF Oldest, Undispatched
    <2> QED
      BY <2>1, <2>2 DEF DispatchFrame
  <1>2. CASE PublishRow(d)
    BY <1>2 DEF PublishRow, DispatchFrame, writers
  <1>3. CASE MarkRow(d)
    <2>1. PICK r \in Heads(d) :
            /\ pc[d] = "mark" /\ status' = [status EXCEPT ![r] = "dispatched"]
            /\ batch' = [batch EXCEPT ![d] = batch[d] \ {r}]
            /\ inTxn' = [inTxn EXCEPT ![d] = FALSE]
            /\ pc' = [pc EXCEPT ![d] = IF batch[d] \ {r} = {} THEN "idle" ELSE "publish"]
            /\ UNCHANGED <<stamp, clock, commits, log, faults>>
      BY <1>3 DEF MarkRow, GoOn, SetStatus
    <2> QED
      BY <2>1 DEF DispatchFrame
  <1>4. CASE PublishFails(d)
    BY <1>4 DEF PublishFails, DispatchFrame, GoOn, Fault, writers
  <1>5. CASE MarkFails(d)
    BY <1>5 DEF MarkFails, DispatchFrame, GoOn, Fault
  <1>6. CASE Crash(d)
    BY <1>6 DEF Crash, DispatchFrame, GoOn, Fault, writers
  <1> QED
    BY <1>1, <1>2, <1>3, <1>4, <1>5, <1>6 DEF Dispatch

LEMMA DispatchKeepsInv ==
    ASSUME DispatchInv, NEW d \in Dispatchers, Dispatch(d)
    PROVE  DispatchInv'
  <1>1. DispatchFrame(d)
    BY DispatchHasFrame
  <1>2. /\ \A r : Appears(log, r) => Appears(log, r)'
        /\ log' \in Seq(Rows)
        /\ \A r \in Heads(d) : log' = Append(log, r) => Appears(log, r)'
    <2>1. CASE log' = log
      BY <2>1, AppendAppears DEF DispatchInv, TypeOK, Appears, Heads
    <2>2. CASE \E r \in Heads(d) : log' = Append(log, r)
      BY <2>2, AppendAppears DEF DispatchInv, TypeOK, Heads
    <2> QED
      BY <1>1, <2>1, <2>2 DEF DispatchFrame
  <1>3. /\ status' \in [Rows -> {"new", "open", "committed", "dispatched", "gone"}]
        /\ Flushed' = Flushed /\ Committed' = Committed
    <2>1. CASE status' = status
      BY <2>1 DEF DispatchInv, TypeOK, Flushed, Committed
    <2>2. CASE \E r \in Heads(d) : status' = [status EXCEPT ![r] = "dispatched"]
      <3>1. Heads(d) \subseteq Committed
        BY DEF Heads, DispatchInv, BatchesCommitted
      <3> QED
        BY <2>2, <3>1 DEF DispatchInv, TypeOK, Flushed, Committed
    <2> QED
      BY <1>1, <2>1, <2>2 DEF DispatchFrame
  <1>4. pc' \in [Dispatchers -> {"idle", "publish", "mark"}]
    BY <1>1 DEF DispatchFrame, DispatchInv, TypeOK
  <1>5. TypeOK'
    BY <1>1, <1>2, <1>3, <1>4 DEF DispatchFrame, DispatchInv, TypeOK
  <1>6. StampsDiffer'
    BY <1>1, <1>3 DEF DispatchFrame, DispatchInv, StampsDiffer
  <1>7. BatchesCommitted'
    BY <1>1, <1>3 DEF DispatchFrame, DispatchInv, BatchesCommitted, Committed, Undispatched
  <1>8. MarkedIsPublished'
    <2> SUFFICES ASSUME NEW e \in Dispatchers, pc'[e] = "mark", NEW r \in Heads(e)'
                 PROVE  Appears(log, r)'
      BY DEF MarkedIsPublished
    <2>1. CASE e # d
      <3>1. r \in Heads(e) /\ pc[e] = "mark"
        BY <1>1, <2>1 DEF DispatchFrame, Heads
      <3> QED
        BY <1>2, <3>1 DEF DispatchInv, MarkedIsPublished
    <2>2. CASE e = d
      <3>1. PICK s \in Heads(d) : log' = Append(log, s)
        BY <1>1, <2>2 DEF DispatchFrame
      <3>2. r \in Heads(d)
        BY <1>1, <2>2 DEF DispatchFrame, Heads
      <3>3. r = s
        BY <3>2, OneHead
      <3> QED
        BY <1>2, <3>1, <3>2, <3>3
    <2> QED
      BY <2>1, <2>2
  <1> QED
    BY <1>5, <1>6, <1>7, <1>8 DEF DispatchInv

LEMMA NextInv == DispatchInv /\ [Next]_vars => DispatchInv'
  <1> SUFFICES ASSUME DispatchInv, [Next]_vars PROVE DispatchInv'
    OBVIOUS
  <1>1. CASE UNCHANGED vars
    BY <1>1 DEF vars, DispatchInv, TypeOK, StampsDiffer, Flushed, BatchesCommitted,
                Committed, MarkedIsPublished, Heads, Appears
  <1> QED
    BY <1>1, WriterInv, DispatchKeepsInv DEF Next

LEMMA InvAlways == Spec => []DispatchInv
  BY InitInv, NextInv, PTL DEF Spec

(* Every variable of Outbox keeps its type. *)
THEOREM TypeCorrect == Spec => []TypeOK
  <1>1. DispatchInv => TypeOK
    BY DEF DispatchInv
  <1> QED
    BY <1>1, InvAlways, PTL

(* A step of the outbox is a step of Relay, or none. *)
LEMMA StepKeepsPromise ==
    DispatchInv /\ [Next]_vars => [Promise!Next]_(Promise!vars)
  <1> SUFFICES ASSUME DispatchInv, [Next]_vars
               PROVE  Promise!Next \/ UNCHANGED <<Committed, log, Dispatched>>
    BY DEF Promise!vars
  <1> USE DEF DispatchInv, TypeOK
  <1>1. CASE UNCHANGED vars
    BY <1>1 DEF vars, Committed, Dispatched
  <1>2. ASSUME NEW r \in Rows, Flush(r) \/ Rollback(r)
        PROVE  UNCHANGED <<Committed, log, Dispatched>>
    BY <1>2 DEF Flush, Rollback, SetStatus, Committed, Dispatched
  <1>3. ASSUME NEW r \in Rows, Commit(r)
        PROVE  Promise!Commit(r)
    BY <1>3 DEF Commit, SetStatus, Committed, Dispatched, Promise!Commit
  <1>4. ASSUME NEW d \in Dispatchers, Dispatch(d)
        PROVE  Promise!Next \/ UNCHANGED <<Committed, log, Dispatched>>
    <2>1. DispatchFrame(d) /\ Heads(d) \subseteq Committed /\ Heads(d) \subseteq Rows
      BY <1>4, DispatchHasFrame DEF Heads, BatchesCommitted
    <2>2. CASE PublishRow(d) \/ PublishFails(d) \/ Poll(d) \/ (Crash(d) /\ status' = status)
      <3>1. status' = status
        BY <2>2 DEF PublishRow, PublishFails, Poll, writers
      <3>2. Committed' = Committed /\ Dispatched' = Dispatched
        BY <3>1 DEF Committed, Dispatched
      <3>3. CASE log' = log
        BY <3>2, <3>3
      <3>4. ASSUME NEW r \in Heads(d), log' = Append(log, r)
            PROVE  Promise!Publish(r)
        BY <2>1, <3>2, <3>4 DEF Promise!Publish
      <3> QED
        BY <2>1, <3>3, <3>4 DEF DispatchFrame, Promise!Next
    <2>3. CASE MarkRow(d) \/ MarkFails(d)
      <3>1. PICK r \in Heads(d) :
              /\ pc[d] = "mark" /\ log' = log
              /\ status' = status \/ status' = [status EXCEPT ![r] = "dispatched"]
        BY <2>3 DEF MarkRow, MarkFails, SetStatus
      <3>2. Appears(log, r) /\ r \in Committed /\ r \in Rows
        BY <2>1, <3>1 DEF MarkedIsPublished
      <3>3. CASE status' = status
        BY <3>1, <3>3 DEF Committed, Dispatched
      <3>4. CASE status' = [status EXCEPT ![r] = "dispatched"]
        <4>1. Committed' = Committed /\ Dispatched' = Dispatched \cup {r}
          BY <3>2, <3>4 DEF Committed, Dispatched
        <4>2. Promise!MarkDispatched(r)
          BY <3>1, <3>2, <4>1 DEF Promise!MarkDispatched, Appears
        <4> QED
          BY <3>2, <4>2 DEF Promise!Next
      <3> QED
        BY <3>1, <3>3, <3>4
    <2>4. Crash(d) => status' = status
      BY DEF Crash, writers
    <2> QED
      BY <1>4, <2>2, <2>3, <2>4 DEF Dispatch
  <1> QED
    BY <1>1, <1>2, <1>3, <1>4 DEF Next, Promise!Next

(* The outbox keeps its promise: only committed events are published and   *)
(* only published ones are marked, for any number of replicas and faults.  *)
THEOREM KeepsPromise == Spec => PromiseSpec
  <1>1. Init => Promise!Init
    BY DEF Init, Promise!Init, Committed, Dispatched
  <1> QED
    BY <1>1, InvAlways, StepKeepsPromise, PTL DEF Spec, PromiseSpec, Promise!Spec

-----------------------------------------------------------------------------
(* Copies of a row are paid for: by the dispatchers, once each, and by the *)
(* faults. *)

Copies(r) == {i \in DOMAIN log : log[i] = r}

Published(d, r) == pc[d] = "mark" /\ r \in Heads(d)

(* The dispatchers that may yet publish r although nothing fails again:    *)
(* one that has done so marks it next, and what is marked is published     *)
(* only by those that have it in a batch already.                          *)
MayPublish(r) ==
    {d \in Dispatchers :
        ~Published(d, r) /\ (status[r] = "dispatched" => r \in batch[d])}

CopiesPaid(r) ==
    /\ IsFiniteSet(Copies(r))
    /\ Cardinality(Copies(r)) + Cardinality(MayPublish(r))
          <= Cardinality(Dispatchers) + faults

Budget == DispatchInv /\ \A r \in Rows : CopiesPaid(r)

LEMMA MayPublishFinite ==
    ASSUME NEW r \in Rows
    PROVE  /\ IsFiniteSet(MayPublish(r)) /\ Cardinality(MayPublish(r)) \in Nat
           /\ Cardinality(MayPublish(r)) <= Cardinality(Dispatchers)
           /\ Cardinality(Dispatchers) \in Nat
  <1>1. MayPublish(r) \in SUBSET Dispatchers
    BY DEF MayPublish
  <1> HIDE DEF MayPublish
  <1> QED
    BY <1>1, FS_Subset, FS_CardinalityType

LEMMA CopiesAppended ==
    ASSUME log \in Seq(Rows), NEW r \in Rows, NEW s \in Rows, log' = Append(log, s),
           IsFiniteSet(Copies(r))
    PROVE  /\ IsFiniteSet(Copies(r)') /\ Cardinality(Copies(r)) \in Nat
           /\ Cardinality(Copies(r)') =
                IF r = s THEN Cardinality(Copies(r)) + 1 ELSE Cardinality(Copies(r))
  <1>1. /\ DOMAIN log' = 1..(Len(log) + 1) /\ Len(log) \in Nat /\ DOMAIN log = 1..Len(log)
        /\ \A i \in 1..Len(log) : log'[i] = log[i]
        /\ log'[Len(log) + 1] = s
    OBVIOUS
  <1>2. CASE r = s
    <2>1. Copies(r)' = Copies(r) \cup {Len(log) + 1} /\ Len(log) + 1 \notin Copies(r)
      BY <1>1, <1>2 DEF Copies
    <2>2. LET more == Copies(r) \cup {Len(log) + 1}
          IN  IsFiniteSet(more) /\ Cardinality(more) = Cardinality(Copies(r)) + 1
      BY <2>1, FS_AddElement
    <2> QED
      BY <1>2, <2>1, <2>2, FS_CardinalityType
  <1>3. CASE r # s
    <2>1. Copies(r)' = Copies(r)
      BY <1>1, <1>3 DEF Copies
    <2> QED
      BY <1>3, <2>1, FS_CardinalityType
  <1> QED
    BY <1>2, <1>3

(* The three ways a step may pay. *)
LEMMA PaidKept ==
    ASSUME NEW r \in Rows, CopiesPaid(r), log' = log, faults' = faults, faults \in Nat,
           MayPublish(r)' \subseteq MayPublish(r)
    PROVE  CopiesPaid(r)'
  <1>1. /\ Copies(r)' = Copies(r) /\ Cardinality(Copies(r)) \in Nat
    BY FS_CardinalityType DEF CopiesPaid, Copies
  <1>2. /\ Cardinality(MayPublish(r)') <= Cardinality(MayPublish(r))
        /\ Cardinality(MayPublish(r)') \in Nat /\ Cardinality(MayPublish(r)) \in Nat
        /\ Cardinality(Dispatchers) \in Nat
    BY MayPublishFinite, FS_Subset, FS_CardinalityType
  <1> HIDE DEF Copies, MayPublish
  <1> QED
    BY <1>1, <1>2 DEF CopiesPaid

LEMMA PaidByDispatcher ==
    ASSUME DispatchInv, NEW r \in Rows, CopiesPaid(r), log' = Append(log, r), faults' = faults,
           NEW d \in MayPublish(r), MayPublish(r)' \subseteq MayPublish(r) \ {d}
    PROVE  CopiesPaid(r)'
  <1>1. /\ IsFiniteSet(Copies(r)') /\ Cardinality(Copies(r)) \in Nat /\ faults \in Nat
        /\ Cardinality(Copies(r)') = Cardinality(Copies(r)) + 1
    BY CopiesAppended DEF CopiesPaid, DispatchInv, TypeOK
  <1>2. /\ IsFiniteSet(MayPublish(r) \ {d})
        /\ Cardinality(MayPublish(r) \ {d}) = Cardinality(MayPublish(r)) - 1
    BY MayPublishFinite, FS_RemoveElement
  <1>3. /\ Cardinality(MayPublish(r)') <= Cardinality(MayPublish(r) \ {d})
        /\ Cardinality(MayPublish(r)') \in Nat /\ Cardinality(MayPublish(r)) \in Nat
        /\ Cardinality(Dispatchers) \in Nat
    BY <1>2, MayPublishFinite, FS_Subset, FS_CardinalityType
  <1> HIDE DEF Copies, MayPublish
  <1> QED
    BY <1>1, <1>2, <1>3 DEF CopiesPaid

LEMMA PaidByFault ==
    ASSUME DispatchInv, NEW r \in Rows, CopiesPaid(r), faults' = faults + 1,
           NEW d \in Dispatchers,
           \/ log' = log /\ MayPublish(r)' \subseteq MayPublish(r) \cup {d}
           \/ /\ \E s \in Rows : log' = Append(log, s)
              /\ MayPublish(r)' \subseteq MayPublish(r)
    PROVE  CopiesPaid(r)'
  <1>1. Cardinality(Copies(r)) \in Nat /\ IsFiniteSet(Copies(r)) /\ faults \in Nat
    BY FS_CardinalityType DEF CopiesPaid, DispatchInv, TypeOK
  <1>2. /\ Cardinality(MayPublish(r)) \in Nat /\ Cardinality(Dispatchers) \in Nat
        /\ IsFiniteSet(MayPublish(r))
    BY MayPublishFinite
  <1>3. CASE log' = log /\ MayPublish(r)' \subseteq MayPublish(r) \cup {d}
    <2>1. /\ IsFiniteSet(MayPublish(r) \cup {d})
          /\ Cardinality(MayPublish(r) \cup {d}) <= Cardinality(MayPublish(r)) + 1
          /\ Cardinality(MayPublish(r) \cup {d}) \in Nat
      <3>1. /\ IsFiniteSet(MayPublish(r) \cup {d})
            /\ Cardinality(MayPublish(r) \cup {d}) =
                 IF d \in MayPublish(r) THEN Cardinality(MayPublish(r))
                 ELSE Cardinality(MayPublish(r)) + 1
        BY <1>2, FS_AddElement
      <3> QED
        BY <1>2, <3>1
    <2>2. /\ Cardinality(MayPublish(r)') <= Cardinality(MayPublish(r) \cup {d})
          /\ Cardinality(MayPublish(r)') \in Nat
      BY <1>3, <2>1, FS_Subset, FS_CardinalityType
    <2>3. Copies(r)' = Copies(r)
      BY <1>3 DEF Copies
    <2> HIDE DEF Copies, MayPublish
    <2> QED
      BY <1>1, <1>2, <2>1, <2>2, <2>3 DEF CopiesPaid
  <1>4. CASE /\ \E s \in Rows : log' = Append(log, s)
             /\ MayPublish(r)' \subseteq MayPublish(r)
    <2>1. /\ IsFiniteSet(Copies(r)') /\ Cardinality(Copies(r)') <= Cardinality(Copies(r)) + 1
          /\ Cardinality(Copies(r)') \in Nat
      <3> PICK s \in Rows : log' = Append(log, s)
        BY <1>4
      <3>1. log \in Seq(Rows)
        BY DEF DispatchInv, TypeOK
      <3> HIDE DEF Copies
      <3> QED
        BY <1>1, <3>1, CopiesAppended
    <2>2. /\ Cardinality(MayPublish(r)') <= Cardinality(MayPublish(r))
          /\ Cardinality(MayPublish(r)') \in Nat
      BY <1>2, <1>4, FS_Subset, FS_CardinalityType
    <2> HIDE DEF Copies, MayPublish
    <2> QED
      BY <1>1, <1>2, <2>1, <2>2 DEF CopiesPaid
  <1> QED
    BY <1>3, <1>4

LEMMA WriterPays ==
    ASSUME Budget, NEW s \in Rows, Flush(s) \/ Commit(s) \/ Rollback(s), NEW r \in Rows
    PROVE  CopiesPaid(r)'
  <1>1. /\ log' = log /\ faults' = faults /\ faults \in Nat
        /\ UNCHANGED <<pc, batch>> /\ CopiesPaid(r)
    BY DEF Budget, DispatchInv, TypeOK, Flush, Commit, Rollback
  <1>2. /\ status'[r] = "dispatched" => status[r] = "dispatched"
        /\ \A t \in Rows : t = s \/ stamp'[t] = stamp[t]
        /\ status[s] = "open" => stamp' = stamp
        /\ status[s] \in {"new", "open"}
    BY DEF Budget, DispatchInv, TypeOK, Flush, Commit, Rollback, SetStatus
  <1>3. ASSUME NEW d \in Dispatchers PROVE Heads(d)' = Heads(d)
    <2>1. s \notin batch[d] /\ batch[d] \subseteq Rows
      BY <1>2 DEF Budget, DispatchInv, TypeOK, BatchesCommitted, Committed
    <2> QED
      BY <1>1, <1>2, <2>1 DEF Heads
  <1>4. ASSUME NEW d \in MayPublish(r)' PROVE d \in MayPublish(r)
    <2>1. d \in Dispatchers /\ Heads(d)' = Heads(d) /\ pc'[d] = pc[d] /\ batch'[d] = batch[d]
      BY <1>1, <1>3 DEF MayPublish
    <2>2. status[r] = "dispatched" => status'[r] = "dispatched"
      BY <1>2 DEF Budget, DispatchInv, TypeOK, Flush, Commit, Rollback, SetStatus
    <2> QED
      BY <2>1, <2>2 DEF MayPublish, Published
  <1> QED
    BY <1>1, <1>4, PaidKept

LEMMA DispatchPays ==
    ASSUME Budget, NEW d \in Dispatchers, Dispatch(d), NEW r \in Rows
    PROVE  CopiesPaid(r)'
  <1> USE DEF DispatchInv, TypeOK
  <1>1. /\ DispatchInv /\ DispatchFrame(d) /\ CopiesPaid(r) /\ faults \in Nat
        /\ \A h \in Heads(d) : h \in Rows /\ h \in batch[d]
    BY DispatchHasFrame DEF Budget, Heads
  <1>2. ASSUME NEW e \in MayPublish(r)', e # d
        PROVE  e \in MayPublish(r)
    <2>1. pc'[e] = pc[e] /\ batch'[e] = batch[e] /\ Heads(e)' = Heads(e) /\ e \in Dispatchers
      BY <1>1, <1>2 DEF DispatchFrame, Heads, MayPublish
    <2>2. status[r] = "dispatched" => status'[r] = "dispatched"
      BY <1>1 DEF DispatchFrame
    <2> QED
      BY <1>2, <2>1, <2>2 DEF MayPublish, Published
  <1>3. CASE Poll(d)
    <2>1. /\ log' = log /\ faults' = faults /\ status' = status /\ pc[d] = "idle"
          /\ batch'[d] \subseteq Undispatched
      <3>1. Oldest(Undispatched) \subseteq Undispatched
        BY DEF Oldest
      <3> HIDE DEF Oldest, Undispatched
      <3> QED
        BY <1>1, <1>3, <3>1 DEF Poll, writers
    <2>2. d \in MayPublish(r)' => d \in MayPublish(r)
      BY <2>1 DEF MayPublish, Published, Undispatched
    <2> QED
      BY <1>1, <1>2, <2>1, <2>2, PaidKept
  <1>4. CASE PublishRow(d)
    <2> PICK h \in Heads(d) :
          /\ pc[d] = "publish" /\ log' = Append(log, h)
          /\ pc' = [pc EXCEPT ![d] = "mark"]
          /\ UNCHANGED <<status, stamp, batch, faults>>
      BY <1>4 DEF PublishRow, writers
    <2>1. pc'[d] = "mark" /\ Heads(d)' = Heads(d)
      BY <1>1 DEF Heads
    <2>2. CASE r = h
      <3>1. d \in MayPublish(r)
        BY <1>1, <2>2 DEF MayPublish, Published
      <3>2. d \notin MayPublish(r)'
        BY <2>1, <2>2 DEF MayPublish, Published
      <3>3. MayPublish(r)' \subseteq MayPublish(r) \ {d}
        BY <1>2, <3>2
      <3> QED
        BY <1>1, <2>2, <3>1, <3>3, PaidByDispatcher
    <2>3. CASE r # h
      <3>1. d \in MayPublish(r)' => d \in MayPublish(r)
        BY DEF MayPublish, Published
      <3>2. MayPublish(r)' \subseteq MayPublish(r)
        BY <1>2, <3>1
      <3>3. /\ IsFiniteSet(Copies(r)') /\ Cardinality(Copies(r)') = Cardinality(Copies(r))
            /\ Cardinality(Copies(r)) \in Nat
        BY <1>1, <2>3, CopiesAppended DEF CopiesPaid
      <3>4. /\ Cardinality(MayPublish(r)') <= Cardinality(MayPublish(r))
            /\ Cardinality(MayPublish(r)') \in Nat /\ Cardinality(MayPublish(r)) \in Nat
            /\ Cardinality(Dispatchers) \in Nat
        BY <3>2, MayPublishFinite, FS_Subset, FS_CardinalityType
      <3> HIDE DEF Copies, MayPublish
      <3> QED
        BY <1>1, <3>3, <3>4 DEF CopiesPaid
    <2> QED
      BY <2>2, <2>3
  <1>5. CASE MarkRow(d)
    <2> PICK h \in Heads(d) :
          /\ pc[d] = "mark" /\ status' = [status EXCEPT ![h] = "dispatched"]
          /\ batch' = [batch EXCEPT ![d] = batch[d] \ {h}]
          /\ pc'[d] # "mark"
          /\ UNCHANGED <<log, faults>>
      BY <1>1, <1>5 DEF MarkRow, GoOn, SetStatus
    <2>1. \A g \in Heads(d) : g = h
      BY <1>1, OneHead
    <2>2. d \in MayPublish(r)' => d \in MayPublish(r)
      <3>1. CASE r = h
        BY <1>1, <3>1 DEF MayPublish
      <3>2. CASE r # h
        BY <1>1, <2>1, <3>2 DEF MayPublish, Published
      <3> QED
        BY <3>1, <3>2
    <2> QED
      BY <1>1, <1>2, <2>2, PaidKept
  <1>6. CASE PublishFails(d) \/ MarkFails(d) \/ Crash(d)
    <2>1. /\ faults' = faults + 1
          /\ \/ log' = log
             \/ pc[d] = "publish" /\ \E s \in Rows : log' = Append(log, s)
      <3>1. CASE PublishFails(d)
        BY <1>1, <3>1 DEF PublishFails, Fault
      <3>2. CASE MarkFails(d)
        BY <3>2 DEF MarkFails, Fault
      <3>3. CASE Crash(d)
        BY <1>1, <3>3 DEF Crash, Fault
      <3> QED
        BY <1>6, <3>1, <3>2, <3>3
    <2>2. CASE log' = log
      <3>1. MayPublish(r)' \subseteq MayPublish(r) \cup {d}
        BY <1>2
      <3> QED
        BY <1>1, <2>1, <2>2, <3>1, PaidByFault
    <2>3. CASE pc[d] = "publish" /\ \E s \in Rows : log' = Append(log, s)
      <3>1. status' = status /\ batch'[d] \subseteq batch[d]
        BY <1>1, <1>6, <2>3 DEF PublishFails, MarkFails, Crash, GoOn, writers
      <3>2. d \in MayPublish(r)' => d \in MayPublish(r)
        BY <2>3, <3>1 DEF MayPublish, Published
      <3>3. MayPublish(r)' \subseteq MayPublish(r)
        BY <1>2, <3>2
      <3> QED
        BY <1>1, <2>1, <2>3, <3>3, PaidByFault
    <2> QED
      BY <2>1, <2>2, <2>3
  <1> QED
    BY <1>3, <1>4, <1>5, <1>6 DEF Dispatch

(* A row is on the topic no oftener than there are dispatchers to have had *)
(* it in a batch before it was marked, and faults to have lost the mark.   *)
THEOREM CopiesAreBounded == Spec => []CopiesBounded
  <1>1. Init => Budget
    <2> SUFFICES ASSUME Init, NEW r \in Rows PROVE CopiesPaid(r)
      BY InitInv DEF Budget
    <2>1. Copies(r) = {} /\ faults = 0
      BY DEF Init, Copies
    <2> QED
      BY <2>1, MayPublishFinite, FS_EmptySet DEF CopiesPaid
  <1>2. Budget /\ [Next]_vars => Budget'
    <2> SUFFICES ASSUME Budget, [Next]_vars, NEW r \in Rows PROVE CopiesPaid(r)'
      BY NextInv DEF Budget
    <2>1. CASE UNCHANGED vars
      <3>1. /\ log' = log /\ faults' = faults /\ faults \in Nat /\ CopiesPaid(r)
            /\ UNCHANGED <<status, stamp, pc, batch>>
        BY <2>1 DEF vars, Budget, DispatchInv, TypeOK
      <3>2. MayPublish(r)' = MayPublish(r)
        BY <3>1 DEF MayPublish, Published, Heads
      <3> QED
        BY <3>1, <3>2, PaidKept
    <2> QED
      BY <2>1, WriterPays, DispatchPays DEF Next
  <1>3. Budget => CopiesBounded
    <2> SUFFICES ASSUME Budget, NEW r \in Rows
                 PROVE  Cardinality(Copies(r)) <= Cardinality(Dispatchers) + faults
      BY DEF CopiesBounded, Copies
    <2>1. /\ Cardinality(Copies(r)) \in Nat /\ Cardinality(MayPublish(r)) \in Nat
          /\ Cardinality(Dispatchers) \in Nat /\ faults \in Nat /\ CopiesPaid(r)
      BY MayPublishFinite, FS_CardinalityType DEF Budget, CopiesPaid, DispatchInv, TypeOK
    <2> QED
      BY <2>1 DEF CopiesPaid
  <1> QED
    BY <1>1, <1>2, <1>3, PTL DEF Spec

-----------------------------------------------------------------------------
(* As long as nothing fails, a row that is older and was committed earlier *)
(* is read earlier. *)

IsFirst(seq, r, i) ==
    i \in DOMAIN seq /\ seq[i] = r /\ \A j \in 1..(i - 1) : seq[j] # r

Precedes(seq, r, s) ==
    \E i, j \in DOMAIN seq : IsFirst(seq, r, i) /\ IsFirst(seq, s, j) /\ i < j

HasFirsts(seq) ==
    \A r \in Rows : Appears(seq, r) => \E i \in DOMAIN seq : IsFirst(seq, r, i)

Before(r, s) == stamp[r] < stamp[s] /\ Precedes(commits, r, s)

(* That what appears appears a first time is part of the invariant, for it *)
(* would take an induction to prove it of every sequence.                  *)
Known ==
    /\ HasFirsts(log) /\ HasFirsts(commits)
    /\ \A r \in Rows : r \in Committed <=> Appears(commits, r)
    /\ \A r \in Rows : Appears(log, r) => r \in Committed
    /\ \A r \in Dispatched : Appears(log, r)

(* A batch that has a row has the rows before it, or they are published.   *)
OrderOf(r, s) ==
    /\ \A d \in Dispatchers : s \in batch[d] => r \in batch[d] \/ Appears(log, r)
    /\ Appears(log, s) => Precedes(log, r, s)

Ordered == faults = 0 => \A r, s \in Rows : Before(r, s) => OrderOf(r, s)

OrderInv == DispatchInv /\ Known /\ Ordered

(* A row appended appears for the first time unless it was there, and the  *)
(* others keep their place.                                                *)
LEMMA AppendFirsts ==
    ASSUME NEW seq \in Seq(Rows), NEW t \in Rows, NEW r \in Rows
    PROVE  /\ \A i : IsFirst(seq, r, i) => IsFirst(Append(seq, t), r, i)
           /\ r = t /\ ~Appears(seq, r) => IsFirst(Append(seq, t), r, Len(seq) + 1)
           /\ \A i : IsFirst(Append(seq, t), r, i) =>
                IsFirst(seq, r, i) \/ (i = Len(seq) + 1 /\ r = t /\ ~Appears(seq, r))
           /\ Appears(Append(seq, t), r) <=> Appears(seq, r) \/ r = t
           /\ Len(seq) \in Nat /\ DOMAIN seq = 1..Len(seq)
  <1>1. /\ DOMAIN Append(seq, t) = 1..(Len(seq) + 1) /\ Len(seq) \in Nat
        /\ \A i \in 1..Len(seq) : Append(seq, t)[i] = seq[i]
        /\ Append(seq, t)[Len(seq) + 1] = t /\ DOMAIN seq = 1..Len(seq)
    OBVIOUS
  <1> DEFINE longer == Append(seq, t)
  <1> HIDE DEF longer
  <1>2. ASSUME NEW i, IsFirst(seq, r, i) PROVE IsFirst(longer, r, i)
    BY <1>1, <1>2 DEF IsFirst, longer
  <1>3. r = t /\ ~Appears(seq, r) => IsFirst(longer, r, Len(seq) + 1)
    BY <1>1 DEF IsFirst, Appears, longer
  <1>4. ASSUME NEW i, IsFirst(longer, r, i)
        PROVE  IsFirst(seq, r, i) \/ (i = Len(seq) + 1 /\ r = t /\ ~Appears(seq, r))
    BY <1>1, <1>4 DEF IsFirst, Appears, longer
  <1>5. Appears(longer, r) <=> Appears(seq, r) \/ r = t
    BY <1>1 DEF Appears, longer
  <1> QED
    BY <1>1, <1>2, <1>3, <1>4, <1>5 DEF longer

(* A row has one first place, and it is the one CHOOSE finds. *)
LEMMA OneFirst ==
    ASSUME NEW seq \in Seq(Rows), NEW r, NEW i, IsFirst(seq, r, i)
    PROVE  FirstIn(seq, r) = i /\ \A j : IsFirst(seq, r, j) => j = i
  <1>1. Len(seq) \in Nat /\ DOMAIN seq = 1..Len(seq)
    OBVIOUS
  <1>2. \A j : IsFirst(seq, r, j) => j = i
    BY <1>1 DEF IsFirst
  <1>3. IsFirst(seq, r, FirstIn(seq, r))
    BY DEF IsFirst, FirstIn
  <1> QED
    BY <1>2, <1>3

LEMMA FirstsAppended ==
    ASSUME NEW seq \in Seq(Rows), NEW t \in Rows, HasFirsts(seq)
    PROVE  /\ HasFirsts(Append(seq, t))
           /\ \A r, s \in Rows : Precedes(seq, r, s) => Precedes(Append(seq, t), r, s)
           /\ \A r, s \in Rows : Precedes(Append(seq, t), r, s) =>
                \/ Precedes(seq, r, s)
                \/ s = t /\ Appears(seq, r) /\ ~Appears(seq, s)
           /\ \A r \in Rows : Appears(seq, r) /\ ~Appears(seq, t) =>
                Precedes(Append(seq, t), r, t)
  <1> DEFINE longer == Append(seq, t)
  <1>1. /\ DOMAIN longer = 1..(Len(seq) + 1) /\ Len(seq) \in Nat /\ DOMAIN seq = 1..Len(seq)
    OBVIOUS
  <1>2. ASSUME NEW r \in Rows
        PROVE  /\ \A i : IsFirst(seq, r, i) => IsFirst(longer, r, i)
               /\ r = t /\ ~Appears(seq, r) => IsFirst(longer, r, Len(seq) + 1)
               /\ \A i : IsFirst(longer, r, i) =>
                    IsFirst(seq, r, i) \/ (i = Len(seq) + 1 /\ r = t /\ ~Appears(seq, r))
               /\ Appears(longer, r) <=> Appears(seq, r) \/ r = t
    BY AppendFirsts
  <1> HIDE DEF longer
  <1>3. \A r, i : IsFirst(seq, r, i) => i \in DOMAIN seq /\ Appears(seq, r)
    BY DEF IsFirst, Appears
  <1>4. HasFirsts(longer)
    BY <1>1, <1>2 DEF HasFirsts
  <1>5. ASSUME NEW r \in Rows, NEW s \in Rows, Precedes(seq, r, s)
        PROVE  Precedes(longer, r, s)
    BY <1>1, <1>2, <1>5 DEF Precedes
  <1>6. ASSUME NEW r \in Rows, NEW s \in Rows, Precedes(longer, r, s)
        PROVE  Precedes(seq, r, s) \/ (s = t /\ Appears(seq, r) /\ ~Appears(seq, s))
    <2> PICK i \in DOMAIN longer, j \in DOMAIN longer :
          IsFirst(longer, r, i) /\ IsFirst(longer, s, j) /\ i < j
      BY <1>6 DEF Precedes
    <2>1. IsFirst(seq, r, i)
      BY <1>1, <1>2
    <2>2. IsFirst(seq, s, j) \/ (s = t /\ ~Appears(seq, s))
      BY <1>2
    <2> QED
      BY <1>3, <2>1, <2>2 DEF Precedes
  <1>7. ASSUME NEW r \in Rows, Appears(seq, r), ~Appears(seq, t)
        PROVE  Precedes(longer, r, t)
    <2> PICK i \in DOMAIN seq : IsFirst(seq, r, i)
      BY <1>7 DEF HasFirsts
    <2>1. IsFirst(longer, r, i) /\ IsFirst(longer, t, Len(seq) + 1)
      BY <1>2, <1>7
    <2> QED
      BY <1>1, <2>1 DEF Precedes
  <1> QED
    BY <1>4, <1>5, <1>6, <1>7 DEF longer

(* LIMIT takes no row without the older ones. *)
LEMMA OldestFirst ==
    ASSUME NEW R \in SUBSET Rows, stamp \in [Rows -> Nat],
           NEW r \in R, NEW s \in Oldest(R), stamp[r] < stamp[s]
    PROVE  r \in Oldest(R)
  <1> DEFINE Upto(x) == {y \in R : stamp[y] <= stamp[x]}
  <1>1. /\ s \in R /\ Cardinality(Upto(s)) <= BatchSize
        /\ r \in Oldest(R) <=> Cardinality(Upto(r)) <= BatchSize
    BY DEF Oldest
  <1>2. Upto(r) \in SUBSET Upto(s) /\ Upto(s) \in SUBSET Rows
    BY <1>1
  <1> HIDE DEF Upto
  <1>3. IsFiniteSet(Upto(s))
    BY <1>2, FS_Subset
  <1>4. /\ Cardinality(Upto(r)) <= Cardinality(Upto(s))
        /\ Cardinality(Upto(s)) \in Nat /\ Cardinality(Upto(r)) \in Nat
    BY <1>2, <1>3, FS_Subset, FS_CardinalityType
  <1> QED
    BY <1>1, <1>4

LEMMA WriterOrder ==
    ASSUME OrderInv, NEW t \in Rows, Flush(t) \/ Commit(t) \/ Rollback(t)
    PROVE  Known' /\ Ordered'
  <1> USE DEF OrderInv, DispatchInv, TypeOK
  <1>1. /\ UNCHANGED <<log, batch, faults>> /\ stamp \in [Rows -> Nat]
        /\ commits \in Seq(Rows) /\ Known /\ status \in [Rows -> {"new", "open", "committed", "dispatched", "gone"}]
    BY DEF Flush, Commit, Rollback
  <1>2. CASE Flush(t) \/ Rollback(t)
    <2>1. /\ commits' = commits /\ Committed' = Committed /\ Dispatched' = Dispatched
          /\ t \notin Committed
          /\ \A r \in Rows \ {t} : stamp'[r] = stamp[r]
      BY <1>1, <1>2 DEF Flush, Rollback, SetStatus, Committed, Dispatched
    <2>2. Known'
      BY <1>1, <2>1 DEF Known, HasFirsts, IsFirst, Appears
    <2>3. \A r, s \in Rows : Before(r, s)' => Before(r, s)
      <3> SUFFICES ASSUME NEW r \in Rows, NEW s \in Rows, Before(r, s)' PROVE Before(r, s)
        OBVIOUS
      <3>1. Precedes(commits, r, s)
        BY <2>1 DEF Before, Precedes, IsFirst
      <3>2. Appears(commits, r) /\ Appears(commits, s)
        BY <3>1 DEF Precedes, IsFirst, Appears
      <3>3. r # t /\ s # t
        BY <1>1, <2>1, <3>2 DEF Known
      <3> QED
        BY <2>1, <3>1, <3>3 DEF Before
    <2>4. Ordered'
      BY <1>1, <2>3 DEF Ordered, OrderOf
    <2> QED
      BY <2>2, <2>4
  <1>3. CASE Commit(t)
    <2>1. /\ commits' = Append(commits, t) /\ Committed' = Committed \cup {t}
          /\ Dispatched' = Dispatched /\ t \notin Committed /\ stamp' = stamp
      BY <1>1, <1>3 DEF Commit, SetStatus, Committed, Dispatched
    <2>2. ~Appears(commits, t)
      BY <1>1, <2>1 DEF Known
    <2>3. HasFirsts(commits)' /\ \A r \in Rows : Appears(commits, r)' <=> Appears(commits, r) \/ r = t
      BY <1>1, <2>1, FirstsAppended, AppendFirsts DEF Known
    <2>4. HasFirsts(log)' /\ \A r : Appears(log, r)' <=> Appears(log, r)
      BY <1>1 DEF Known, HasFirsts, IsFirst, Appears
    <2>5. Known'
      BY <1>1, <2>1, <2>3, <2>4 DEF Known
    <2>6. ASSUME NEW r \in Rows, NEW s \in Rows, Before(r, s)', faults' = 0
          PROVE  OrderOf(r, s)'
      <3>1. stamp[r] < stamp[s] /\ Precedes(Append(commits, t), r, s)
        BY <2>1, <2>6 DEF Before, Precedes, IsFirst
      <3>2. CASE Precedes(commits, r, s)
        BY <1>1, <2>6, <3>1, <3>2 DEF Before, Ordered, OrderOf
      <3>3. CASE s = t /\ ~Appears(commits, s)
        <4>1. ~Appears(log, t) /\ \A d \in Dispatchers : t \notin batch[d]
          BY <1>1, <2>1 DEF Known, BatchesCommitted
        <4> QED
          BY <1>1, <2>4, <3>3, <4>1 DEF OrderOf
      <3> QED
        BY <1>1, <3>1, <3>2, <3>3, FirstsAppended DEF Known
    <2> QED
      BY <2>5, <2>6 DEF Ordered
  <1> QED
    BY <1>2, <1>3

LEMMA DispatchKnown ==
    ASSUME OrderInv, NEW d \in Dispatchers, Dispatch(d)
    PROVE  Known'
  <1> USE DEF OrderInv, DispatchInv, TypeOK
  <1>1. /\ DispatchFrame(d) /\ DispatchInv' /\ Known /\ log \in Seq(Rows)
        /\ Heads(d) \subseteq Committed /\ Heads(d) \subseteq Rows /\ commits' = commits
    BY DispatchHasFrame, DispatchKeepsInv DEF Heads, BatchesCommitted, DispatchFrame
  <1>2. HasFirsts(commits)' /\ \A r : Appears(commits, r)' <=> Appears(commits, r)
    BY <1>1 DEF Known, HasFirsts, IsFirst, Appears
  <1>3. Committed' = Committed
    BY <1>1 DEF DispatchFrame, Committed
  <1>4. /\ HasFirsts(log)'
        /\ \A r \in Rows : Appears(log, r)' => r \in Committed
        /\ \A r \in Rows : Appears(log, r) => Appears(log, r)'
    <2>1. CASE log' = log
      BY <1>1, <2>1 DEF Known, HasFirsts, IsFirst, Appears
    <2>2. ASSUME NEW h \in Heads(d), log' = Append(log, h)
          PROVE  /\ HasFirsts(log)'
                 /\ \A r \in Rows : Appears(log, r)' => r \in Committed
                 /\ \A r \in Rows : Appears(log, r) => Appears(log, r)'
      <3>1. h \in Rows /\ h \in Committed /\ HasFirsts(log)
        BY <1>1 DEF Known
      <3>2. HasFirsts(Append(log, h)) /\ \A r \in Rows : Appears(Append(log, h), r) <=> Appears(log, r) \/ r = h
        BY <1>1, <3>1, FirstsAppended, AppendFirsts
      <3> QED
        BY <1>1, <2>2, <3>1, <3>2 DEF Known
    <2> QED
      BY <1>1, <2>1, <2>2 DEF DispatchFrame
  <1>5. \A r \in Dispatched' : Appears(log, r)'
    <2> SUFFICES ASSUME NEW r \in Dispatched' PROVE Appears(log, r)'
      OBVIOUS
    <2>1. r \in Rows /\ (r \in Dispatched \/ (pc[d] = "mark" /\ r \in Heads(d)))
      BY <1>1 DEF DispatchFrame, Dispatched
    <2> QED
      BY <1>1, <1>4, <2>1 DEF Known, MarkedIsPublished
  <1> QED
    BY <1>1, <1>2, <1>3, <1>4, <1>5 DEF Known

LEMMA DispatchOrder ==
    ASSUME OrderInv, NEW d \in Dispatchers, Dispatch(d)
    PROVE  Ordered'
  <1> SUFFICES ASSUME faults' = 0, NEW r \in Rows, NEW s \in Rows, Before(r, s)'
               PROVE  OrderOf(r, s)'
    BY DEF Ordered
  <1> USE DEF OrderInv, DispatchInv, TypeOK
  <1>1. /\ DispatchFrame(d) /\ Known /\ log \in Seq(Rows) /\ faults \in Nat
        /\ Heads(d) \subseteq Committed /\ Heads(d) \subseteq Rows
        /\ commits' = commits /\ stamp' = stamp
    BY DispatchHasFrame DEF Heads, BatchesCommitted, DispatchFrame
  <1>2. faults = 0 /\ (Poll(d) \/ PublishRow(d) \/ MarkRow(d))
    <2>1. ~Fault
      BY <1>1 DEF Fault
    <2>2. Poll(d) \/ PublishRow(d) \/ MarkRow(d)
      BY <2>1 DEF Dispatch, PublishFails, MarkFails, Crash
    <2> QED
      BY <2>2 DEF Poll, PublishRow, MarkRow
  <1>3. Before(r, s)
    BY <1>1 DEF Before, Precedes, IsFirst
  <1>4. OrderOf(r, s) /\ stamp[r] < stamp[s]
    BY <1>2, <1>3 DEF Ordered, Before
  <1>5. r \in Committed
    <2>1. Appears(commits, r)
      BY <1>3 DEF Before, Precedes, IsFirst, Appears
    <2> QED
      BY <1>1, <2>1 DEF Known
  <1>6. CASE Poll(d)
    <2>1. /\ log' = log /\ batch' = [batch EXCEPT ![d] = Oldest(Undispatched)]
      BY <1>6 DEF Poll
    <2>2. s \in Oldest(Undispatched) => r \in Oldest(Undispatched) \/ Appears(log, r)
      <3>1. r \in Undispatched \/ Appears(log, r)
        BY <1>1, <1>5 DEF Known, Undispatched, Committed, Dispatched
      <3>2. Undispatched \in SUBSET Rows
        BY DEF Undispatched
      <3> QED
        BY <1>4, <3>1, <3>2, OldestFirst
    <2> HIDE DEF Oldest, Undispatched
    <2>3. \A e \in Dispatchers : s \in batch'[e] => r \in batch'[e] \/ Appears(log, r)
      BY <1>4, <2>1, <2>2 DEF OrderOf
    <2> QED
      BY <1>4, <2>1, <2>3 DEF OrderOf, Appears, Precedes, IsFirst
  <1>7. CASE PublishRow(d)
    <2> PICK h \in Heads(d) : log' = Append(log, h) /\ batch' = batch
      BY <1>7 DEF PublishRow
    <2>1. h \in Rows /\ h \in batch[d] /\ HasFirsts(log)
      BY <1>1 DEF Known, Heads
    <2>2. /\ \A x \in Rows : Appears(log, x) => Appears(Append(log, h), x)
          /\ Appears(Append(log, h), s) => Appears(log, s) \/ s = h
      BY <1>1, <2>1, AppendFirsts
    <2>3. s = h => Appears(log, r)
      <3>1. s = h => r \notin batch[d]
        BY <1>4 DEF Heads
      <3> QED
        BY <1>4, <2>1, <3>1 DEF OrderOf
    <2>4. Appears(Append(log, h), s) => Precedes(Append(log, h), r, s)
      <3>1. Appears(log, s) => Precedes(Append(log, h), r, s)
        BY <1>1, <1>4, <2>1, FirstsAppended DEF OrderOf
      <3>2. s = h /\ ~Appears(log, s) => Precedes(Append(log, h), r, s)
        BY <1>1, <2>1, <2>3, FirstsAppended
      <3> QED
        BY <2>2, <3>1, <3>2
    <2>5. /\ Appears(log, r) => Appears(log, r)'
          /\ Appears(log, s)' => Precedes(log, r, s)'
      BY <2>2, <2>4 DEF Appears, Precedes, IsFirst
    <2> QED
      BY <1>4, <2>5 DEF OrderOf
  <1>8. CASE MarkRow(d)
    <2> PICK h \in Heads(d) :
          pc[d] = "mark" /\ log' = log /\ batch' = [batch EXCEPT ![d] = batch[d] \ {h}]
      BY <1>8 DEF MarkRow, GoOn
    <2>1. Appears(log, h)
      BY DEF MarkedIsPublished
    <2>2. \A e \in Dispatchers : s \in batch'[e] => r \in batch'[e] \/ Appears(log, r)
      BY <1>4, <2>1 DEF OrderOf
    <2> QED
      BY <1>4, <2>2 DEF OrderOf, Appears, Precedes, IsFirst
  <1> QED
    BY <1>2, <1>6, <1>7, <1>8

LEMMA NextOrder == OrderInv /\ [Next]_vars => OrderInv'
  <1> SUFFICES ASSUME OrderInv, [Next]_vars PROVE OrderInv'
    OBVIOUS
  <1>1. DispatchInv'
    BY NextInv DEF OrderInv
  <1>2. CASE UNCHANGED vars
    BY <1>1, <1>2 DEF vars, OrderInv, Known, HasFirsts, Ordered, OrderOf, Before, Precedes,
       IsFirst, Appears, Committed, Dispatched
  <1> QED
    BY <1>1, <1>2, WriterOrder, DispatchKnown, DispatchOrder DEF Next, OrderInv

LEMMA InitOrder == Init => OrderInv
  <1> SUFFICES ASSUME Init PROVE OrderInv
    OBVIOUS
  <1>1. DispatchInv
    BY InitInv
  <1>2. \A r : ~Appears(log, r) /\ ~Appears(commits, r)
    BY DEF Init, Appears
  <1>3. Known
    BY <1>2 DEF Init, Known, HasFirsts, Committed, Dispatched
  <1>4. Ordered
    BY <1>2 DEF Init, Ordered, OrderOf
  <1> QED
    BY <1>1, <1>3, <1>4 DEF OrderInv

(* With any number of replicas, and until something fails, the events of   *)
(* an aggregate are first read in the order of their commits, but for      *)
(* transactions that flushed in the other order: ORDER BY created_at and   *)
(* LIMIT never take a row and leave an older one that is not published.    *)
THEOREM OrderIsKept == Spec => []OrderKept
  <1>1. OrderInv => OrderKept
    <2> SUFFICES ASSUME OrderInv, faults = 0, NEW r \in Rows, NEW s \in Rows, Overtaken(r, s)
                 PROVE  stamp[s] < stamp[r]
      BY DEF OrderKept
    <2>1. /\ log \in Seq(Rows) /\ commits \in Seq(Rows) /\ stamp[r] \in Nat /\ stamp[s] \in Nat
          /\ Known
      BY DEF OrderInv, DispatchInv, TypeOK
    <2>2. /\ Appears(log, s) /\ Appears(commits, r) /\ Appears(commits, s)
          /\ r \in Committed /\ s \in Committed
      BY <2>1 DEF Overtaken, Known
    <2> PICK i \in DOMAIN commits, j \in DOMAIN commits :
          IsFirst(commits, r, i) /\ IsFirst(commits, s, j)
      BY <2>1, <2>2 DEF Known, HasFirsts
    <2>3. FirstIn(commits, r) = i /\ FirstIn(commits, s) = j
      BY <2>1, OneFirst
    <2>4. i < j /\ Precedes(commits, r, s)
      BY <2>3 DEF Overtaken, Precedes
    <2>5. stamp[r] # stamp[s]
      <3>1. r # s
        BY <2>1, <2>4, OneFirst
      <3> QED
        BY <2>2, <3>1 DEF OrderInv, DispatchInv, StampsDiffer, Flushed, Committed
    <2>6. CASE stamp[r] < stamp[s]
      <3>1. Precedes(log, r, s)
        BY <2>2, <2>4, <2>6 DEF Before, OrderInv, Ordered, OrderOf
      <3> PICK k \in DOMAIN log, l \in DOMAIN log :
            IsFirst(log, r, k) /\ IsFirst(log, s, l) /\ k < l
        BY <3>1 DEF Precedes
      <3>2. FirstIn(log, r) = k /\ FirstIn(log, s) = l /\ Appears(log, r)
        BY <2>1, OneFirst DEF IsFirst, Appears
      <3>3. k \in Nat /\ l \in Nat
        BY <2>1
      <3> QED
        BY <3>2, <3>3 DEF Overtaken
    <2> QED
      BY <2>1, <2>5, <2>6
  <1> QED
    BY <1>1, InitOrder, NextOrder, PTL DEF Spec

-----------------------------------------------------------------------------
(* The processes that run the dispatchers                                  *)

(* The invariant says what a replica may rely on at each step of its       *)
(* lifespan.  Others cannot take it away: the schema, the administrator    *)
(* and the topics only ever come to be.                                    *)

USE LifespanConstantsOK

(* Past the seed. *)
PastSeed ==
    {"producer", "dispatcher", "topics", "consumers", "serving"} \cup Stopping

BeforeConsumers ==
    {"down", "inspect", "create", "look", "insert", "producer", "dispatcher", "topics"}

ReplicaShape(r) ==
    /\ stage[r] \in {"look", "insert"} => tables
    /\ r \in Migrating /\ stage[r] \in PastSeed => tables /\ admins = 1
    /\ stage[r] \in BeforeConsumers => consumers[r] = {}
    /\ stage[r] = "consumers" => \E n \in 0..4 : consumers[r] = 1..n
    /\ stage[r] = "dispatcher" \/ dispatcher[r] => producer[r]
    /\ stage[r] = "consumers" \/ consumers[r] # {} =>
          swallowed[r] \/ TopicsToCreate \subseteq topics

LifespanInv ==
    /\ LifespanTypeOK /\ admins <= 1
    /\ \A r \in Replicas : ReplicaShape(r)

LEMMA FiveTopics == Len(Subscriptions) = 5 /\ DOMAIN Subscriptions = 1..5
  BY DEF Subscriptions

LEMMA StartInv == LifespanInit => LifespanInv
  <1> SUFFICES ASSUME LifespanInit PROVE LifespanInv
    OBVIOUS
  <1>1. LifespanTypeOK
    <2>1. tables \in BOOLEAN /\ postgres \in BOOLEAN /\ broker \in BOOLEAN
      BY Zenon DEF LifespanInit
    <2>2. /\ inspected \in [Replicas -> BOOLEAN] /\ producer \in [Replicas -> BOOLEAN]
          /\ dispatcher \in [Replicas -> BOOLEAN] /\ swallowed \in [Replicas -> BOOLEAN]
      BY DEF LifespanInit
    <2> QED
      BY <2>1, <2>2 DEF LifespanInit, LifespanTypeOK
  <1>2. ASSUME NEW r \in Replicas PROVE ReplicaShape(r)
    BY DEF LifespanInit, ReplicaShape, PastSeed, Stopping
  <1> QED
    BY <1>1, <1>2 DEF LifespanInit, LifespanInv

-----------------------------------------------------------------------------

(* Nothing of another replica has changed. *)
SameReplica(q) ==
    /\ stage'[q] = stage[q] /\ producer'[q] = producer[q]
    /\ dispatcher'[q] = dispatcher[q]
    /\ consumers'[q] = consumers[q] /\ swallowed'[q] = swallowed[q]

(* What is there stays. *)
SetUpGrows ==
    /\ tables => tables'
    /\ admins <= admins' /\ admins' <= 1
    /\ topics \subseteq topics'

LEMMA SameReplicaShape ==
    ASSUME LifespanInv, LifespanTypeOK', SetUpGrows,
           NEW q \in Replicas, SameReplica(q)
    PROVE  ReplicaShape(q)'
  <1>1. ReplicaShape(q) /\ admins \in Nat /\ admins' \in Nat
    BY DEF LifespanInv, LifespanTypeOK
  <1> QED
    BY <1>1 DEF ReplicaShape, SameReplica, SetUpGrows

LEMMA ReplicaStepInv ==
    ASSUME LifespanInv, NEW r \in Replicas,
           LifespanTypeOK', SetUpGrows, ReplicaShape(r)',
           \A q \in Replicas \ {r} : SameReplica(q)
    PROVE  LifespanInv'
  <1>1. \A q \in Replicas : ReplicaShape(q)'
    BY SameReplicaShape
  <1>2. admins' <= 1
    BY DEF SetUpGrows
  <1> QED
    BY <1>1, <1>2 DEF LifespanInv

LEMMA ExitsInv ==
    ASSUME LifespanInv, NEW r \in Replicas, Exits(r), SetUpGrows,
           tables' \in BOOLEAN, admins' \in Nat, topics' \subseteq TopicsToCreate,
           postgres' \in BOOLEAN, broker' \in BOOLEAN, mishaps' \in 0..MaxMishaps
    PROVE  LifespanInv'
  <1>1. LifespanTypeOK'
    BY DEF LifespanInv, LifespanTypeOK, Exits, GoTo
  <1>2. \A q \in Replicas \ {r} : SameReplica(q)
    BY DEF LifespanInv, LifespanTypeOK, Exits, GoTo, SameReplica
  <1>3. /\ stage'[r] = "down" /\ ~producer'[r] /\ ~dispatcher'[r]
        /\ consumers'[r] = {} /\ ~swallowed'[r]
    BY DEF LifespanInv, LifespanTypeOK, Exits, GoTo
  <1>4. ReplicaShape(r)'
    BY <1>3 DEF ReplicaShape, PastSeed, BeforeConsumers, Stopping
  <1> QED
    BY <1>1, <1>2, <1>4, ReplicaStepInv

-----------------------------------------------------------------------------
(* Starting *)

LEMMA BootInv ==
    ASSUME LifespanInv, NEW r \in Replicas, Boot(r)
    PROVE  LifespanInv'
  <1> USE DEF Boot, GoTo, database, outside, adapters
  <1>1. LifespanTypeOK'
    BY DEF LifespanInv, LifespanTypeOK, Steps
  <1>2. ReplicaShape(r)'
    BY DEF LifespanInv, LifespanTypeOK, ReplicaShape, PastSeed,
       BeforeConsumers, Stopping
  <1>3. SetUpGrows /\ \A q \in Replicas \ {r} : SameReplica(q)
    BY DEF LifespanInv, LifespanTypeOK, SetUpGrows, SameReplica
  <1> QED
    BY <1>1, <1>2, <1>3, ReplicaStepInv

LEMMA InspectInv ==
    ASSUME LifespanInv, NEW r \in Replicas, Inspect(r)
    PROVE  LifespanInv'
  <1> USE DEF Inspect, GoTo, database, outside, adapters
  <1>1. LifespanTypeOK'
    BY DEF LifespanInv, LifespanTypeOK, Steps
  <1>2. ReplicaShape(r)'
    BY DEF LifespanInv, LifespanTypeOK, ReplicaShape, PastSeed,
       BeforeConsumers, Stopping
  <1>3. SetUpGrows /\ \A q \in Replicas \ {r} : SameReplica(q)
    BY DEF LifespanInv, LifespanTypeOK, SetUpGrows, SameReplica
  <1> QED
    BY <1>1, <1>2, <1>3, ReplicaStepInv

LEMMA CreateAllInv ==
    ASSUME LifespanInv, NEW r \in Replicas, CreateAll(r)
    PROVE  LifespanInv'
  <1>1. CASE inspected[r] # tables
    <2>1. Exits(r) /\ tables' = tables
      BY <1>1 DEF CreateAll
    <2> QED
      BY <2>1, ExitsInv DEF CreateAll, outside, LifespanInv, LifespanTypeOK,
         SetUpGrows
  <1>2. CASE inspected[r] = tables
    <2> USE DEF CreateAll, GoTo, outside, adapters
    <2>1. stage[r] = "create" /\ tables' = TRUE /\ stage' = [stage EXCEPT ![r] = "look"]
          /\ UNCHANGED <<admins, topics, postgres, broker, mishaps, inspected, producer,
                         dispatcher, consumers, ended, swallowed>>
      BY <1>2
    <2> HIDE DEF CreateAll
    <2>2. LifespanTypeOK'
      BY <2>1 DEF LifespanInv, LifespanTypeOK, Steps
    <2>3. ReplicaShape(r)'
      BY <2>1 DEF LifespanInv, LifespanTypeOK, ReplicaShape, PastSeed,
         BeforeConsumers, Stopping
    <2>4. SetUpGrows /\ \A q \in Replicas \ {r} : SameReplica(q)
      BY <2>1 DEF LifespanInv, LifespanTypeOK, SetUpGrows, SameReplica
    <2> QED
      BY <2>2, <2>3, <2>4, ReplicaStepInv
  <1> QED
    BY <1>1, <1>2

LEMMA LookForAdminInv ==
    ASSUME LifespanInv, NEW r \in Replicas, LookForAdmin(r)
    PROVE  LifespanInv'
  <1> USE DEF LookForAdmin, GoTo, database, outside, adapters
  <1>1. LifespanTypeOK'
    BY DEF LifespanInv, LifespanTypeOK, Steps
  <1>2. ReplicaShape(r)'
    BY DEF LifespanInv, LifespanTypeOK, ReplicaShape, PastSeed,
       BeforeConsumers, Stopping
  <1>3. SetUpGrows /\ \A q \in Replicas \ {r} : SameReplica(q)
    BY DEF LifespanInv, LifespanTypeOK, SetUpGrows, SameReplica
  <1> QED
    BY <1>1, <1>2, <1>3, ReplicaStepInv

LEMMA InsertAdminInv ==
    ASSUME LifespanInv, NEW r \in Replicas, InsertAdmin(r)
    PROVE  LifespanInv'
  <1>1. CASE admins > 0
    <2>1. Exits(r) /\ admins' = admins
      BY <1>1 DEF InsertAdmin
    <2> QED
      BY <2>1, ExitsInv DEF InsertAdmin, outside, LifespanInv, LifespanTypeOK,
         SetUpGrows
  <1>2. CASE admins = 0
    <2>1. /\ stage[r] = "insert" /\ admins' = 1 /\ stage' = [stage EXCEPT ![r] = "producer"]
          /\ UNCHANGED <<tables, topics, postgres, broker, mishaps, inspected, producer,
                         dispatcher, consumers, ended, swallowed>>
      BY <1>2 DEF InsertAdmin, GoTo, outside, adapters
    <2>2. LifespanTypeOK'
      BY <2>1 DEF LifespanInv, LifespanTypeOK, Steps
    <2>3. ReplicaShape(r)'
      BY <2>1 DEF LifespanInv, LifespanTypeOK, ReplicaShape, PastSeed,
         BeforeConsumers, Stopping
    <2>4. SetUpGrows /\ \A q \in Replicas \ {r} : SameReplica(q)
      BY <1>2, <2>1 DEF LifespanInv, LifespanTypeOK, SetUpGrows, SameReplica
    <2> QED
      BY <2>2, <2>3, <2>4, ReplicaStepInv
  <1> QED
    BY <1>1, <1>2 DEF LifespanInv, LifespanTypeOK

LEMMA NoDatabaseInv ==
    ASSUME LifespanInv, NEW r \in Replicas, NoDatabase(r)
    PROVE  LifespanInv'
  BY ExitsInv DEF NoDatabase, outside, database, LifespanInv, LifespanTypeOK,
     SetUpGrows

LEMMA StartProducerInv ==
    ASSUME LifespanInv, NEW r \in Replicas, StartProducer(r)
    PROVE  LifespanInv'
  <1> USE DEF StartProducer, GoTo, database, outside, adapters
  <1>1. LifespanTypeOK'
    BY DEF LifespanInv, LifespanTypeOK, Steps
  <1>2. ReplicaShape(r)'
    BY DEF LifespanInv, LifespanTypeOK, ReplicaShape, PastSeed,
       BeforeConsumers, Stopping
  <1>3. SetUpGrows /\ \A q \in Replicas \ {r} : SameReplica(q)
    BY DEF LifespanInv, LifespanTypeOK, SetUpGrows, SameReplica
  <1> QED
    BY <1>1, <1>2, <1>3, ReplicaStepInv

LEMMA StartDispatcherInv ==
    ASSUME LifespanInv, NEW r \in Replicas, StartDispatcher(r)
    PROVE  LifespanInv'
  <1> USE DEF StartDispatcher, GoTo, database, outside, adapters
  <1>1. LifespanTypeOK'
    BY DEF LifespanInv, LifespanTypeOK, Steps
  <1>2. ReplicaShape(r)'
    BY DEF LifespanInv, LifespanTypeOK, ReplicaShape, PastSeed,
       BeforeConsumers, Stopping
  <1>3. SetUpGrows /\ \A q \in Replicas \ {r} : SameReplica(q)
    BY DEF LifespanInv, LifespanTypeOK, SetUpGrows, SameReplica
  <1> QED
    BY <1>1, <1>2, <1>3, ReplicaStepInv

LEMMA EnsureTopicsInv ==
    ASSUME LifespanInv, NEW r \in Replicas, EnsureTopics(r)
    PROVE  LifespanInv'
  <1> USE DEF EnsureTopics, GoTo, database, outside, adapters
  <1>1. LifespanTypeOK'
    BY DEF LifespanInv, LifespanTypeOK, Steps
  <1>2. ReplicaShape(r)'
    BY DEF LifespanInv, LifespanTypeOK, ReplicaShape, PastSeed,
       BeforeConsumers, Stopping
  <1>3. SetUpGrows /\ \A q \in Replicas \ {r} : SameReplica(q)
    BY DEF LifespanInv, LifespanTypeOK, SetUpGrows, SameReplica
  <1> QED
    BY <1>1, <1>2, <1>3, ReplicaStepInv

(* The consumers started so far are the first n, and n is not all of them. *)
LEMMA StartConsumerInv ==
    ASSUME LifespanInv, NEW r \in Replicas, StartConsumer(r)
    PROVE  LifespanInv'
  <1>1. PICK n \in 0..4 : consumers[r] = 1..n
    BY DEF LifespanInv, ReplicaShape, StartConsumer
  <1>2. Cardinality(consumers[r]) = n
    <2>1. 1 \in Int /\ n \in Int /\ (IF 1 > n THEN 0 ELSE n - 1 + 1) = n
      OBVIOUS
    <2>2. Cardinality(1..n) = n
      BY <2>1, FS_Interval
    <2> QED
      BY <1>1, <2>2
  <1>3. consumers' = [consumers EXCEPT ![r] = 1..(n + 1)]
    <2>1. consumers' = [consumers EXCEPT ![r] = @ \cup {n + 1}]
      BY <1>2, Zenon DEF StartConsumer
    <2>2. 1..n \cup {n + 1} = 1..(n + 1)
      OBVIOUS
    <2> QED
      BY <1>1, <2>1, <2>2
  <1>4. stage' = [stage EXCEPT ![r] = IF n + 1 = 5 THEN "serving" ELSE "consumers"]
    BY <1>2, FiveTopics DEF StartConsumer, GoTo
  <1>5. stage[r] = "consumers" /\ UNCHANGED <<tables, admins, topics, postgres, broker,
            inspected, producer, dispatcher, ended, swallowed, mishaps>>
    BY DEF StartConsumer, database, outside
  <1>6. LifespanTypeOK'
    <2>1. 1..(n + 1) \in SUBSET DOMAIN Subscriptions
      BY FiveTopics
    <2> QED
      BY <1>3, <1>4, <1>5, <2>1 DEF LifespanInv, LifespanTypeOK, Steps
  <1>7. ReplicaShape(r)'
    <2>1. consumers'[r] = 1..(n + 1) /\ stage'[r] \in {"serving", "consumers"}
          /\ (stage'[r] = "consumers" => n + 1 \in 0..4)
      BY <1>3, <1>4 DEF LifespanInv, LifespanTypeOK
    <2> QED
      BY <1>5, <2>1 DEF LifespanInv, ReplicaShape, PastSeed, BeforeConsumers,
         Stopping
  <1>8. SetUpGrows /\ \A q \in Replicas \ {r} : SameReplica(q)
    BY <1>3, <1>4, <1>5 DEF LifespanInv, LifespanTypeOK, SetUpGrows, SameReplica
  <1> QED
    BY <1>6, <1>7, <1>8, ReplicaStepInv

LEMMA NoBrokerInv ==
    ASSUME LifespanInv, NEW r \in Replicas, NoBroker(r)
    PROVE  LifespanInv'
  BY ExitsInv DEF NoBroker, outside, database, LifespanInv, LifespanTypeOK,
     SetUpGrows

-----------------------------------------------------------------------------
(* Going down *)

LEMMA StopInv ==
    ASSUME LifespanInv, NEW r \in Replicas, Stop(r)
    PROVE  LifespanInv'
  <1> USE DEF Stop, GoTo, database, outside, adapters, Mishap
  <1>1. LifespanTypeOK'
    BY DEF LifespanInv, LifespanTypeOK, Stopping
  <1>2. ReplicaShape(r)'
    BY DEF LifespanInv, LifespanTypeOK, ReplicaShape, PastSeed,
       BeforeConsumers, Stopping
  <1>3. SetUpGrows /\ \A q \in Replicas \ {r} : SameReplica(q)
    BY DEF LifespanInv, LifespanTypeOK, SetUpGrows, SameReplica
  <1> QED
    BY <1>1, <1>2, <1>3, ReplicaStepInv

LEMMA LoopEndsInv ==
    ASSUME LifespanInv, NEW r \in Replicas, LoopEnds(r)
    PROVE  LifespanInv'
  <1> USE DEF LoopEnds, Mishap, database, outside
  <1>1. PICK n \in consumers[r] : ended' = [ended EXCEPT ![r] = @ \cup {n}]
    BY Zenon
  <1>2. LifespanTypeOK'
    BY <1>1 DEF LifespanInv, LifespanTypeOK
  <1>3. ReplicaShape(r)'
    BY DEF LifespanInv, ReplicaShape
  <1>4. SetUpGrows /\ \A q \in Replicas \ {r} : SameReplica(q)
    BY DEF LifespanInv, LifespanTypeOK, SetUpGrows, SameReplica
  <1> QED
    BY <1>2, <1>3, <1>4, ReplicaStepInv

LEMMA StopConsumerInv ==
    ASSUME LifespanInv, NEW r \in Replicas, StopConsumer(r)
    PROVE  LifespanInv'
  <1>0. UNCHANGED <<tables, admins, topics, postgres, broker, mishaps>>
    BY DEF StopConsumer, database, outside
  <1>1. CASE Exits(r)
    BY <1>0, <1>1, ExitsInv DEF LifespanInv, LifespanTypeOK, SetUpGrows
  <1>2. CASE ~Exits(r)
    <2>1. PICK n \in consumers[r] : consumers' = [consumers EXCEPT ![r] = @ \ {n}]
      BY <1>2 DEF StopConsumer
    <2>2. stage[r] = "stopConsumers"
          /\ UNCHANGED <<stage, inspected, producer, dispatcher, ended, swallowed>>
      BY <1>2 DEF StopConsumer
    <2>3. LifespanTypeOK'
      BY <1>0, <2>1, <2>2 DEF LifespanInv, LifespanTypeOK
    <2>4. ReplicaShape(r)'
      BY <1>0, <2>1, <2>2 DEF LifespanInv, LifespanTypeOK, ReplicaShape,
         PastSeed, BeforeConsumers, Stopping
    <2>5. SetUpGrows /\ \A q \in Replicas \ {r} : SameReplica(q)
      BY <1>0, <2>1, <2>2 DEF LifespanInv, LifespanTypeOK, SetUpGrows,
         SameReplica
    <2> QED
      BY <2>3, <2>4, <2>5, ReplicaStepInv
  <1> QED
    BY <1>1, <1>2

LEMMA ConsumersStoppedInv ==
    ASSUME LifespanInv, NEW r \in Replicas, ConsumersStopped(r)
    PROVE  LifespanInv'
  <1> USE DEF ConsumersStopped, GoTo, database, outside, adapters
  <1>1. LifespanTypeOK'
    BY DEF LifespanInv, LifespanTypeOK, Stopping
  <1>2. ReplicaShape(r)'
    BY DEF LifespanInv, LifespanTypeOK, ReplicaShape, PastSeed,
       BeforeConsumers, Stopping
  <1>3. SetUpGrows /\ \A q \in Replicas \ {r} : SameReplica(q)
    BY DEF LifespanInv, LifespanTypeOK, SetUpGrows, SameReplica
  <1> QED
    BY <1>1, <1>2, <1>3, ReplicaStepInv

LEMMA StopDispatcherInv ==
    ASSUME LifespanInv, NEW r \in Replicas, StopDispatcher(r)
    PROVE  LifespanInv'
  <1> USE DEF StopDispatcher, GoTo, database, outside, adapters
  <1>1. LifespanTypeOK'
    BY DEF LifespanInv, LifespanTypeOK, Stopping
  <1>2. ReplicaShape(r)'
    BY DEF LifespanInv, LifespanTypeOK, ReplicaShape, PastSeed,
       BeforeConsumers, Stopping
  <1>3. SetUpGrows /\ \A q \in Replicas \ {r} : SameReplica(q)
    BY DEF LifespanInv, LifespanTypeOK, SetUpGrows, SameReplica
  <1> QED
    BY <1>1, <1>2, <1>3, ReplicaStepInv

LEMMA StopProducerInv ==
    ASSUME LifespanInv, NEW r \in Replicas, StopProducer(r)
    PROVE  LifespanInv'
  BY ExitsInv DEF StopProducer, outside, database, LifespanInv,
     LifespanTypeOK, SetUpGrows

LEMMA DieInv ==
    ASSUME LifespanInv, NEW r \in Replicas, Die(r)
    PROVE  LifespanInv'
  BY ExitsInv DEF Die, outside, database, LifespanInv, LifespanTypeOK,
     SetUpGrows, Mishap

(* What happens outside touches no replica. *)
LEMMA OutsideInv ==
    ASSUME LifespanInv, Outage \/ Recovery \/ UNCHANGED lifespanVars
    PROVE  LifespanInv'
  <1>1. UNCHANGED <<tables, admins, topics, stage, inspected, producer, dispatcher,
                    consumers, ended, swallowed>>
    BY DEF Outage, Recovery, database, adapters, lifespanVars
  <1>2. postgres' \in BOOLEAN /\ broker' \in BOOLEAN
    BY Zenon DEF Outage, Recovery, lifespanVars, LifespanInv, LifespanTypeOK
  <1>3. mishaps' \in 0..MaxMishaps
    BY DEF Outage, Recovery, Mishap, lifespanVars, LifespanInv, LifespanTypeOK
  <1>4. LifespanTypeOK'
    BY <1>1, <1>2, <1>3 DEF LifespanInv, LifespanTypeOK
  <1>5. ASSUME NEW r \in Replicas PROVE ReplicaShape(r)'
    BY <1>1 DEF LifespanInv, ReplicaShape
  <1> QED
    BY <1>1, <1>4, <1>5 DEF LifespanInv

LEMMA ReplicasInv == LifespanInv /\ [LifespanNext]_lifespanVars => LifespanInv'
  <1> SUFFICES ASSUME LifespanInv, [LifespanNext]_lifespanVars PROVE LifespanInv'
    OBVIOUS
  <1>1. ASSUME NEW r \in Replicas, Starts(r) PROVE LifespanInv'
    BY <1>1, BootInv, InspectInv, CreateAllInv, LookForAdminInv, InsertAdminInv,
       NoDatabaseInv, StartProducerInv, StartDispatcherInv, EnsureTopicsInv,
       StartConsumerInv, NoBrokerInv DEF Starts
  <1>2. ASSUME NEW r \in Replicas, Stops(r) PROVE LifespanInv'
    BY <1>2, StopConsumerInv, ConsumersStoppedInv, StopDispatcherInv,
       StopProducerInv DEF Stops
  <1>3. ASSUME NEW r \in Replicas, Stop(r) \/ LoopEnds(r) \/ Die(r)
        PROVE  LifespanInv'
    BY <1>3, StopInv, LoopEndsInv, DieInv
  <1> QED
    BY <1>1, <1>2, <1>3, OutsideInv DEF LifespanNext

LEMMA LifespanAlways == LifespanSpec => []LifespanInv
  BY StartInv, ReplicasInv, PTL DEF LifespanSpec

(* Every variable of Lifespan keeps its type. *)
THEOREM LifespanTypeCorrect == LifespanSpec => []LifespanTypeOK
  <1>1. LifespanInv => LifespanTypeOK
    BY DEF LifespanInv
  <1> QED
    BY <1>1, LifespanAlways, PTL

(* Whoever else is starting, failing or dying: a replica that migrates and *)
(* reports itself ready has its tables and the one administrator           *)
(* (main.py:65, bootstrap.py:16).                                          *)
THEOREM SeededWhenReady == LifespanSpec => []ReadyIsSeeded
  <1>1. LifespanInv => ReadyIsSeeded
    BY DEF LifespanInv, ReplicaShape, ReadyIsSeeded, Ready, PastSeed
  <1> QED
    BY <1>1, LifespanAlways, PTL

(* A dispatcher has a started producer and a consumer its topic, through   *)
(* failed starts and shutdown (main.py:73-142).                            *)
THEOREM AdaptersStayUsable == LifespanSpec => []AdaptersUsable
  <1>1. LifespanInv => AdaptersUsable
    BY DEF LifespanInv, ReplicaShape, AdaptersUsable
  <1> QED
    BY <1>1, LifespanAlways, PTL

=============================================================================
