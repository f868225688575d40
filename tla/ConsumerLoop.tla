----------------------------- MODULE ConsumerLoop -----------------------------
(***************************************************************************)
(* The consumers of one topic, in all replicas of the service: one group   *)
(* and one partition.  A module that has a topic keeps the state of the    *)
(* group in a record and changes it with these operators:                  *)
(*                                                                         *)
(*   offset   the group's committed offset                                 *)
(*   member   the replica the partition is assigned to, or None            *)
(*   mine     of a replica: it has had the partition since it fetched      *)
(*   pc       where its loop stands                                        *)
(*   at       the message it handles, by its place on the topic            *)
(*   attempt  which attempt it is                                          *)
(*   done     history: messages somebody's handler has finished or given up*)
(*   givenUp  history: messages given up                                   *)
(*                                                                         *)
(* The coordinator gives the partition to one replica at a time.  A        *)
(* rebalance (a replica joins, dies or is slow) moves it at once, from the *)
(* committed offset, and does not wait for the handler that is running:    *)
(* for a while two replicas handle messages.  A loop fetches a message,    *)
(* handles it, up to MaxRetries times if the handler raises, and commits   *)
(* its position, whatever came of it.  A commit that raises ends the loop: *)
(* nothing catches it and nobody starts it again before the process is.    *)
(*                                                                         *)
(* A handler begins at "handle" and may have further labels of its own.    *)
(***************************************************************************)
EXTENDS Naturals

CONSTANTS
    Replicas,    \* processes of the service
    MaxRetries,  \* KafkaConsumerBase: max_retries
    None

ASSUME LoopConstantsOK ==
    /\ MaxRetries \in Nat \ {0}
    /\ None \notin Replicas

(* A group that has read nothing, with the partition assigned to m. *)
Subscribed(m) ==
    [offset |-> 0, member |-> m,
     mine |-> [c \in Replicas |-> FALSE],
     pc |-> [c \in Replicas |-> "fetch"],
     at |-> [c \in Replicas |-> 0],
     attempt |-> [c \in Replicas |-> 0],
     done |-> {}, givenUp |-> {}]

-----------------------------------------------------------------------------
(* The loop of replica c *)

(* The topic has n messages, and c is to read the next of them. *)
CanFetch(g, c, n) == g.pc[c] = "fetch" /\ g.member = c /\ g.offset < n

(* Its loop stands at label, with message n and attempt k.                 *)
Put(g, c, label, n, k, held) ==
    [g EXCEPT !.pc[c] = label, !.at[c] = n, !.attempt[c] = k, !.mine[c] = held]

(* Faulty variant: the position is committed as soon as it is fetched.     *)
FetchedAndCommitted(g, c) ==
    [Put(g, c, "handle", g.offset + 1, 1, TRUE) EXCEPT !.offset = @ + 1]

Fetched(g, c) == Put(g, c, "handle", g.offset + 1, 1, TRUE)

Handling(g, c) == g.pc[c] \notin {"fetch", "commit", "dead"}

(* The handler goes on to another of its steps. *)
GoesTo(g, c, label) == [g EXCEPT !.pc[c] = label]

(* The handler returns. *)
Handled(g, c) == [g EXCEPT !.pc[c] = "commit", !.done = @ \cup {g.at[c]}]

GivenUp(g, c) ==
    [g EXCEPT !.pc[c] = "commit", !.done = @ \cup {g.at[c]},
              !.givenUp = @ \cup {g.at[c]}]

TriedAgain(g, c) == [g EXCEPT !.pc[c] = "handle", !.attempt[c] = @ + 1]

(* Faulty variant: one attempt too many. *)
RaisedOnceMore(g, c) ==
    IF g.attempt[c] <= MaxRetries THEN TriedAgain(g, c) ELSE GivenUp(g, c)

(* Faulty variant: a message is tried until it succeeds. *)
RaisedForEver(g, c) == GoesTo(g, c, "handle")

(* Faulty variant: a message is tried once. *)
RaisedAndGone(g, c) == GivenUp(g, c)

(* The handler raises: again, or never more. *)
Raised(g, c) ==
    IF g.attempt[c] < MaxRetries THEN TriedAgain(g, c) ELSE GivenUp(g, c)

(* The loop is back at its start, or has ended. *)
Back(g, c, label) == Put(g, c, label, 0, 0, FALSE)

(* What commit() sends: a consumer that has lost the partition sends       *)
(* nothing, and one that has got it back starts from the committed offset. *)
Position(g, c) == IF g.mine[c] THEN g.at[c] ELSE g.offset

Committed(g, c) == [Back(g, c, "fetch") EXCEPT !.offset = Position(g, c)]

(* The loop is gone, and the group notices. *)
Gone(g, c, label) ==
    [Back(g, c, label) EXCEPT !.member = IF @ = c THEN None ELSE @]

(* commit() raises, whether or not the group has the offset: _run_loop     *)
(* ends with the exception in a task nobody awaits.                        *)
CommitRaised(g, c) ==
    {[Gone(g, c, "dead") EXCEPT !.offset = o] : o \in {g.offset, Position(g, c)}}

(* The process dies and another is started in its place. *)
Crashed(g, c) == Gone(g, c, "fetch")

-----------------------------------------------------------------------------
(* The coordinator *)

CanTake(g, c) == g.member # c /\ g.pc[c] # "dead"

(* The partition goes to c, which reads on from what is committed. *)
Assigned(g, c) ==
    [g EXCEPT !.member = c, !.mine = [d \in Replicas |-> FALSE]]

-----------------------------------------------------------------------------
(* What the loop keeps true of a topic with n messages *)

Groups(n, labels) ==
    [offset: 0..n, member: Replicas \cup {None},
     mine: [Replicas -> BOOLEAN],
     pc: [Replicas -> {"fetch", "handle", "commit", "dead"} \cup labels],
     at: [Replicas -> 0..n], attempt: [Replicas -> 0..MaxRetries],
     done: SUBSET (1..n), givenUp: SUBSET (1..n)]

GroupTypeOK(g, n, labels) == g \in Groups(n, labels) /\ g.givenUp \subseteq g.done

(* A message the group has committed was handled to the end or given up.   *)
NothingSkipped(g) == 1..g.offset \subseteq g.done

=============================================================================
