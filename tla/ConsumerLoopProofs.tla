-------------------------- MODULE ConsumerLoopProofs --------------------------
(***************************************************************************)
(* What every operator of ConsumerLoop keeps of a group, for any number of *)
(* replicas and messages: the lemmas a module with a topic needs to prove  *)
(* that its consumers skip nothing.                                        *)
(*                                                                         *)
(* That nothing the group has committed is unhandled says nothing of what  *)
(* a replica is about to commit.  LoopInv adds it: a replica that has had  *)
(* the partition since it fetched holds the message after the committed    *)
(* one, is the only one that does, and stands at its commit with the       *)
(* message done.                                                           *)
(***************************************************************************)
EXTENDS ConsumerLoop, TLAPS

USE LoopConstantsOK

Idle == {"fetch", "dead"}

Holds(g, n, c) ==
    /\ g.pc[c] \notin Idle => g.at[c] \in 1..n /\ g.attempt[c] \in 1..MaxRetries
    /\ g.pc[c] = "commit" => g.at[c] \in g.done
    /\ g.mine[c] => g.member = c /\ g.pc[c] \notin Idle /\ g.at[c] = g.offset + 1

LoopInv(g, n, labels) ==
    /\ GroupTypeOK(g, n, labels)
    /\ \A c \in Replicas : Holds(g, n, c)
    /\ NothingSkipped(g)

(* From g to h only replica c has moved. *)
Only(c, g, h) ==
    \A d \in Replicas \ {c} : h.pc[d] = g.pc[d] /\ h.at[d] = g.at[d]

(* Messages some handler has returned from, and nobody has given up. *)
Finished(g) == g.done \ g.givenUp

Own == {"fetch", "handle", "commit", "dead"}

LEMMA SubscribedInv ==
    ASSUME NEW m \in Replicas \cup {None}, NEW n \in Nat, NEW labels
    PROVE  LoopInv(Subscribed(m), n, labels)
  BY DEF Subscribed, LoopInv, GroupTypeOK, Groups, Holds, Idle, NothingSkipped

(* The topic may grow at any time. *)
LEMMA GrowsInv ==
    ASSUME NEW g, NEW n \in Nat, NEW m \in Nat, n <= m, NEW labels,
           LoopInv(g, n, labels)
    PROVE  LoopInv(g, m, labels)
  <1>1. 0..n \subseteq 0..m /\ 1..n \subseteq 1..m
    OBVIOUS
  <1>2. GroupTypeOK(g, m, labels)
    BY <1>1 DEF LoopInv, GroupTypeOK, Groups
  <1> QED
    BY <1>1, <1>2 DEF LoopInv, Holds

-----------------------------------------------------------------------------
(* What the record is after each change *)

IsPut(g, h, c, label, m, k, held) ==
    /\ h.pc = [g.pc EXCEPT ![c] = label]
    /\ h.at = [g.at EXCEPT ![c] = m]
    /\ h.attempt = [g.attempt EXCEPT ![c] = k]
    /\ h.mine = [g.mine EXCEPT ![c] = held]
    /\ h.offset = g.offset /\ h.member = g.member
    /\ h.done = g.done /\ h.givenUp = g.givenUp

LEMMA PutFields ==
    ASSUME NEW g, NEW n \in Nat, NEW labels, g \in Groups(n, labels),
           NEW c, NEW label, NEW m, NEW k, NEW held
    PROVE  IsPut(g, Put(g, c, label, m, k, held), c, label, m, k, held)
  BY DEF Put, Groups, IsPut

LEMMA PutType ==
    ASSUME NEW g, NEW n \in Nat, NEW labels, g \in Groups(n, labels),
           NEW c \in Replicas, NEW label \in Own \cup labels,
           NEW m \in 0..n, NEW k \in 0..MaxRetries, NEW held \in BOOLEAN
    PROVE  Put(g, c, label, m, k, held) \in Groups(n, labels)
  <1> DEFINE pc == [g.pc EXCEPT ![c] = label]
             at == [g.at EXCEPT ![c] = m]
             attempt == [g.attempt EXCEPT ![c] = k]
             mine == [g.mine EXCEPT ![c] = held]
  <1>1. /\ pc \in [Replicas -> Own \cup labels]
        /\ at \in [Replicas -> 0..n]
        /\ attempt \in [Replicas -> 0..MaxRetries]
        /\ mine \in [Replicas -> BOOLEAN]
    BY DEF Groups, Own
  <1>2. Put(g, c, label, m, k, held) =
          [[[[g EXCEPT !.pc = pc] EXCEPT !.at = at]
                EXCEPT !.attempt = attempt] EXCEPT !.mine = mine]
    BY DEF Put, Groups
  <1> HIDE DEF pc, at, attempt, mine
  <1>3. [g EXCEPT !.pc = pc] \in Groups(n, labels)
    BY <1>1 DEF Groups, Own
  <1>4. \A h \in Groups(n, labels) : [h EXCEPT !.at = at] \in Groups(n, labels)
    BY <1>1 DEF Groups
  <1>5. \A h \in Groups(n, labels) :
          [h EXCEPT !.attempt = attempt] \in Groups(n, labels)
    BY <1>1 DEF Groups
  <1>6. \A h \in Groups(n, labels) : [h EXCEPT !.mine = mine] \in Groups(n, labels)
    BY <1>1 DEF Groups
  <1> QED
    BY <1>2, <1>3, <1>4, <1>5, <1>6

-----------------------------------------------------------------------------
(* The loop *)

LEMMA FetchedInv ==
    ASSUME NEW g, NEW n \in Nat, NEW labels, NEW c \in Replicas,
           LoopInv(g, n, labels), CanFetch(g, c, n)
    PROVE  /\ LoopInv(Fetched(g, c), n, labels)
           /\ Only(c, g, Fetched(g, c)) /\ Fetched(g, c).pc[c] \in Own
           /\ Finished(Fetched(g, c)) = Finished(g)
  <1> DEFINE h == Fetched(g, c)
  <1>1. /\ g \in Groups(n, labels) /\ g.givenUp \subseteq g.done
        /\ g.pc[c] = "fetch" /\ g.member = c /\ g.offset + 1 \in 1..n
        /\ 1 \in 0..MaxRetries /\ 1 \in 1..MaxRetries
    BY DEF LoopInv, GroupTypeOK, CanFetch, Groups
  <1>2. h \in Groups(n, labels)
    <2>1. "handle" \in Own \cup labels /\ TRUE \in BOOLEAN /\ g.offset + 1 \in 0..n
      BY <1>1 DEF Own
    <2> QED
      BY <1>1, <2>1, PutType DEF Fetched
  <1>3. IsPut(g, h, c, "handle", g.offset + 1, 1, TRUE)
    BY <1>1, PutFields DEF Fetched
  <1> HIDE DEF h
  <1>4. ASSUME NEW d \in Replicas PROVE Holds(h, n, d)
    <2>1. Holds(g, n, d)
      BY DEF LoopInv
    <2>2. CASE d = c
      BY <1>1, <1>3, <2>2 DEF Holds, Idle, Groups, IsPut
    <2>3. CASE d # c
      BY <1>1, <1>3, <2>1, <2>3 DEF Holds, Groups, IsPut
    <2> QED
      BY <2>2, <2>3
  <1>5. NothingSkipped(h)
    BY <1>3 DEF LoopInv, NothingSkipped, IsPut
  <1>6. Only(c, g, h) /\ h.pc[c] \in Own
    BY <1>1, <1>3 DEF Only, Own, Groups, IsPut
  <1>7. GroupTypeOK(h, n, labels)
    BY <1>1, <1>2, <1>3 DEF GroupTypeOK, IsPut
  <1>8. Finished(h) = Finished(g)
    BY <1>3 DEF Finished, IsPut
  <1> QED
    BY <1>4, <1>5, <1>6, <1>7, <1>8 DEF LoopInv, h

(* The handler of c goes on or ends: a step that leaves the offset, the    *)
(* assignment and the message where they are.                              *)
Step(c, g, h, n) ==
    /\ h.offset = g.offset /\ h.member = g.member /\ h.mine = g.mine /\ h.at = g.at
    /\ h.pc[c] \notin Idle /\ h.attempt[c] \in 1..MaxRetries
    /\ \A d \in Replicas \ {c} : h.pc[d] = g.pc[d] /\ h.attempt[d] = g.attempt[d]
    /\ g.done \subseteq h.done
    /\ h.pc[c] = "commit" => g.at[c] \in h.done

LEMMA StepInv ==
    ASSUME NEW g, NEW h, NEW n \in Nat, NEW labels, NEW c \in Replicas,
           LoopInv(g, n, labels), Handling(g, c),
           GroupTypeOK(h, n, labels), Step(c, g, h, n)
    PROVE  LoopInv(h, n, labels) /\ Only(c, g, h)
  <1>1. ASSUME NEW d \in Replicas PROVE Holds(h, n, d)
    <2>1. Holds(g, n, d)
      BY DEF LoopInv
    <2>2. CASE d = c
      BY <2>1, <2>2 DEF Holds, Idle, Handling, Step
    <2>3. CASE d # c
      BY <2>1, <2>3 DEF Holds, Step
    <2> QED
      BY <2>2, <2>3
  <1>2. NothingSkipped(h)
    BY DEF LoopInv, NothingSkipped, Step
  <1> QED
    BY <1>1, <1>2 DEF LoopInv, Only, Step

LEMMA GoesToInv ==
    ASSUME NEW g, NEW n \in Nat, NEW labels, NEW c \in Replicas,
           LoopInv(g, n, labels), Handling(g, c),
           NEW label \in labels, label \notin Idle \cup {"commit"}
    PROVE  LET h == GoesTo(g, c, label)
           IN  /\ LoopInv(h, n, labels) /\ Only(c, g, h) /\ Finished(h) = Finished(g)
               /\ h.pc[c] = label /\ h.at[c] = g.at[c]
  <1> DEFINE h == GoesTo(g, c, label)
  <1>1. g \in Groups(n, labels) /\ g.givenUp \subseteq g.done
        /\ g.attempt[c] \in 1..MaxRetries
    BY DEF LoopInv, GroupTypeOK, Holds, Handling, Idle
  <1>2. GroupTypeOK(h, n, labels)
    BY <1>1 DEF GoesTo, GroupTypeOK, Groups
  <1>3. /\ h.pc = [g.pc EXCEPT ![c] = label] /\ h.offset = g.offset
        /\ h.member = g.member /\ h.mine = g.mine /\ h.at = g.at
        /\ h.attempt = g.attempt /\ h.done = g.done /\ h.givenUp = g.givenUp
    BY <1>1 DEF GoesTo, Groups
  <1>4. /\ Step(c, g, h, n) /\ h.pc[c] = label /\ h.at[c] = g.at[c]
        /\ Finished(h) = Finished(g)
    BY <1>1, <1>3 DEF Step, Idle, Groups, Finished
  <1> QED
    BY <1>2, <1>4, StepInv

LEMMA HandledInv ==
    ASSUME NEW g, NEW n \in Nat, NEW labels, NEW c \in Replicas,
           LoopInv(g, n, labels), Handling(g, c)
    PROVE  LET h == Handled(g, c)
           IN  /\ LoopInv(h, n, labels) /\ Only(c, g, h) /\ h.pc[c] \in Own
               /\ Finished(h) \subseteq Finished(g) \cup {g.at[c]}
  <1> DEFINE h == Handled(g, c)
  <1>1. g \in Groups(n, labels) /\ g.givenUp \subseteq g.done
        /\ g.attempt[c] \in 1..MaxRetries /\ g.at[c] \in 1..n
    BY DEF LoopInv, GroupTypeOK, Holds, Handling, Idle
  <1>2. GroupTypeOK(h, n, labels)
    BY <1>1 DEF Handled, GroupTypeOK, Groups
  <1>3. /\ h.pc = [g.pc EXCEPT ![c] = "commit"] /\ h.offset = g.offset
        /\ h.member = g.member /\ h.mine = g.mine /\ h.at = g.at
        /\ h.attempt = g.attempt /\ h.done = g.done \cup {g.at[c]}
        /\ h.givenUp = g.givenUp
    BY <1>1 DEF Handled, Groups
  <1>4. /\ Step(c, g, h, n) /\ h.pc[c] \in Own
        /\ Finished(h) \subseteq Finished(g) \cup {g.at[c]}
    BY <1>1, <1>3 DEF Step, Idle, Own, Groups, Finished
  <1> QED
    BY <1>2, <1>4, StepInv

LEMMA RaisedInv ==
    ASSUME NEW g, NEW n \in Nat, NEW labels, NEW c \in Replicas,
           LoopInv(g, n, labels), Handling(g, c)
    PROVE  LET h == Raised(g, c)
           IN  /\ LoopInv(h, n, labels) /\ Only(c, g, h) /\ h.pc[c] \in Own
               /\ Finished(h) \subseteq Finished(g)
  <1>1. g \in Groups(n, labels) /\ g.givenUp \subseteq g.done
        /\ g.attempt[c] \in 1..MaxRetries /\ g.at[c] \in 1..n
    BY DEF LoopInv, GroupTypeOK, Holds, Handling, Idle
  <1>2. CASE g.attempt[c] < MaxRetries
    <2> DEFINE h == TriedAgain(g, c)
    <2>1. g.attempt[c] + 1 \in 1..MaxRetries /\ g.attempt[c] + 1 \in 0..MaxRetries
      BY <1>1, <1>2
    <2>2. GroupTypeOK(h, n, labels)
      BY <1>1, <2>1 DEF TriedAgain, GroupTypeOK, Groups
    <2>3. /\ h.pc = [g.pc EXCEPT ![c] = "handle"] /\ h.offset = g.offset
          /\ h.member = g.member /\ h.mine = g.mine /\ h.at = g.at
          /\ h.attempt = [g.attempt EXCEPT ![c] = g.attempt[c] + 1]
          /\ h.done = g.done /\ h.givenUp = g.givenUp
      BY <1>1 DEF TriedAgain, Groups
    <2>4. Raised(g, c) = h
      BY <1>2 DEF Raised
    <2>5. g.attempt \in [Replicas -> 0..MaxRetries]
      BY <1>1 DEF Groups
    <2>6. h.attempt[c] \in 1..MaxRetries
          /\ \A d \in Replicas \ {c} : h.attempt[d] = g.attempt[d]
      BY <2>1, <2>3, <2>5
    <2>7. /\ Step(c, g, h, n) /\ h.pc[c] \in Own
          /\ Finished(h) \subseteq Finished(g)
      BY <1>1, <2>3, <2>6 DEF Step, Idle, Own, Groups, Finished
    <2> QED
      BY <2>2, <2>4, <2>7, StepInv
  <1>3. CASE ~(g.attempt[c] < MaxRetries)
    <2> DEFINE h == GivenUp(g, c)
    <2>1. GroupTypeOK(h, n, labels)
      BY <1>1 DEF GivenUp, GroupTypeOK, Groups
    <2>2. /\ h.pc = [g.pc EXCEPT ![c] = "commit"] /\ h.offset = g.offset
          /\ h.member = g.member /\ h.mine = g.mine /\ h.at = g.at
          /\ h.attempt = g.attempt /\ h.done = g.done \cup {g.at[c]}
          /\ h.givenUp = g.givenUp \cup {g.at[c]}
      BY <1>1 DEF GivenUp, Groups
    <2>3. Raised(g, c) = h
      BY <1>3 DEF Raised
    <2>4. /\ Step(c, g, h, n) /\ h.pc[c] \in Own
          /\ Finished(h) \subseteq Finished(g)
      BY <1>1, <2>2 DEF Step, Idle, Own, Groups, Finished
    <2> QED
      BY <2>1, <2>3, <2>4, StepInv
  <1> QED
    BY <1>2, <1>3

(* The loop of c is back at its start, or has ended: what it had in hand   *)
(* is forgotten, and the offset moves only over a message it has done.     *)
Ends(c, g, h, label) ==
    /\ h.pc = [g.pc EXCEPT ![c] = label]
    /\ h.at = [g.at EXCEPT ![c] = 0]
    /\ h.attempt = [g.attempt EXCEPT ![c] = 0]
    /\ h.mine = [g.mine EXCEPT ![c] = FALSE]
    /\ h.offset = g.offset \/ (g.pc[c] = "commit" /\ h.offset = Position(g, c))
    /\ h.member = g.member \/ (g.member = c /\ h.member = None)
    /\ h.done = g.done /\ h.givenUp = g.givenUp

LEMMA EndsInv ==
    ASSUME NEW g, NEW h, NEW n \in Nat, NEW labels, NEW c \in Replicas,
           NEW label \in Idle, LoopInv(g, n, labels),
           h \in Groups(n, labels), Ends(c, g, h, label)
    PROVE  /\ LoopInv(h, n, labels) /\ Only(c, g, h) /\ h.pc[c] \in Own
           /\ Finished(h) = Finished(g)
  <1>1. g \in Groups(n, labels) /\ g.givenUp \subseteq g.done /\ Holds(g, n, c)
    BY DEF LoopInv, GroupTypeOK
  <1>2. /\ h.offset = g.offset \/ h.offset = g.offset + 1
        /\ h.offset # g.offset => g.mine[c] /\ g.offset + 1 \in g.done
    BY <1>1 DEF Ends, Position, Holds, Groups
  <1>3. ASSUME NEW d \in Replicas PROVE Holds(h, n, d)
    <2>1. Holds(g, n, d)
      BY DEF LoopInv
    <2>2. CASE d = c
      BY <1>1, <2>2 DEF Holds, Idle, Ends, Groups
    <2>3. CASE d # c
      <3>1. g.mine[d] => h.offset = g.offset /\ h.member = g.member
        BY <1>1, <1>2, <2>1, <2>3 DEF Holds, Ends
      <3>2. /\ h.pc[d] = g.pc[d] /\ h.at[d] = g.at[d] /\ h.attempt[d] = g.attempt[d]
            /\ h.mine[d] = g.mine[d] /\ h.done = g.done
        BY <1>1, <2>3 DEF Ends, Groups
      <3> QED
        BY <2>1, <3>1, <3>2 DEF Holds
    <2> QED
      BY <2>2, <2>3
  <1>4. NothingSkipped(h)
    <2>1. g.offset \in Nat /\ 1..g.offset \subseteq g.done
      BY <1>1 DEF LoopInv, NothingSkipped, Groups
    <2> QED
      BY <1>2, <2>1 DEF NothingSkipped, Ends
  <1>5. Only(c, g, h) /\ h.pc[c] \in Own
    BY <1>1 DEF Only, Own, Idle, Ends, Groups
  <1>6. GroupTypeOK(h, n, labels) /\ Finished(h) = Finished(g)
    BY <1>1 DEF GroupTypeOK, Ends, Finished
  <1> QED
    BY <1>3, <1>4, <1>5, <1>6 DEF LoopInv

LEMMA BackFields ==
    ASSUME NEW g, NEW n \in Nat, NEW labels, g \in Groups(n, labels),
           NEW c \in Replicas, NEW label \in Idle
    PROVE  /\ Back(g, c, label) \in Groups(n, labels)
           /\ IsPut(g, Back(g, c, label), c, label, 0, 0, FALSE)
  <1>1. label \in Own \cup labels /\ 0 \in 0..n /\ 0 \in 0..MaxRetries
    BY DEF Own, Idle
  <1> QED
    BY <1>1, PutType, PutFields DEF Back

LEMMA CommittedEnds ==
    ASSUME NEW g, NEW n \in Nat, NEW labels, NEW c \in Replicas,
           LoopInv(g, n, labels), g.pc[c] = "commit"
    PROVE  LET h == Committed(g, c) IN
           /\ h \in Groups(n, labels) /\ Ends(c, g, h, "fetch")
           /\ h.offset = Position(g, c)
  <1> DEFINE b == Back(g, c, "fetch")
             h == Committed(g, c)
  <1>1. g \in Groups(n, labels) /\ Position(g, c) \in 0..n
    BY DEF LoopInv, GroupTypeOK, Groups, Position
  <1>2. b \in Groups(n, labels) /\ IsPut(g, b, c, "fetch", 0, 0, FALSE)
    BY <1>1, BackFields DEF Idle
  <1>3. h = [b EXCEPT !.offset = Position(g, c)]
    BY DEF Committed
  <1> HIDE DEF b, h
  <1>4. h \in Groups(n, labels)
    BY <1>1, <1>2, <1>3 DEF Groups
  <1>5. Ends(c, g, h, "fetch") /\ h.offset = Position(g, c)
    BY <1>2, <1>3 DEF Ends, IsPut, Groups
  <1> QED
    BY <1>4, <1>5 DEF h

LEMMA CommittedInv ==
    ASSUME NEW g, NEW n \in Nat, NEW labels, NEW c \in Replicas,
           LoopInv(g, n, labels), g.pc[c] = "commit"
    PROVE  LET h == Committed(g, c)
           IN  /\ LoopInv(h, n, labels) /\ Only(c, g, h) /\ h.pc[c] \in Own
               /\ Finished(h) = Finished(g)
  BY CommittedEnds, EndsInv DEF Idle

LEMMA GoneFields ==
    ASSUME NEW g, NEW n \in Nat, NEW labels, g \in Groups(n, labels),
           NEW c \in Replicas, NEW label \in Idle
    PROVE  LET h == Gone(g, c, label) IN
           /\ h \in Groups(n, labels) /\ Ends(c, g, h, label)
           /\ h.offset = g.offset
  <1> DEFINE b == Back(g, c, label)
             h == Gone(g, c, label)
  <1>1. b \in Groups(n, labels) /\ IsPut(g, b, c, label, 0, 0, FALSE)
    BY BackFields
  <1>2. h = [b EXCEPT !.member = IF b.member = c THEN None ELSE b.member]
    BY DEF Gone
  <1> HIDE DEF b, h
  <1>3. h \in Groups(n, labels) /\ Ends(c, g, h, label) /\ h.offset = g.offset
    BY <1>1, <1>2 DEF Ends, IsPut, Groups
  <1> QED
    BY <1>3 DEF h

LEMMA CommitRaisedEnds ==
    ASSUME NEW g, NEW n \in Nat, NEW labels, NEW c \in Replicas,
           LoopInv(g, n, labels), g.pc[c] = "commit", NEW h \in CommitRaised(g, c)
    PROVE  h \in Groups(n, labels) /\ Ends(c, g, h, "dead")
  <1> DEFINE b == Gone(g, c, "dead")
  <1>1. g \in Groups(n, labels) /\ Position(g, c) \in 0..n
    BY DEF LoopInv, GroupTypeOK, Groups, Position
  <1>2. b \in Groups(n, labels) /\ Ends(c, g, b, "dead") /\ b.offset = g.offset
    BY <1>1, GoneFields DEF Idle
  <1>3. PICK o \in {g.offset, Position(g, c)} : h = [b EXCEPT !.offset = o]
    BY DEF CommitRaised
  <1> HIDE DEF b
  <1>4. h \in Groups(n, labels)
    BY <1>1, <1>2, <1>3 DEF Groups
  <1>5. Ends(c, g, h, "dead")
    BY <1>2, <1>3 DEF Ends, Groups
  <1> QED
    BY <1>4, <1>5

LEMMA CommitRaisedInv ==
    ASSUME NEW g, NEW n \in Nat, NEW labels, NEW c \in Replicas,
           LoopInv(g, n, labels), g.pc[c] = "commit", NEW h \in CommitRaised(g, c)
    PROVE  /\ LoopInv(h, n, labels) /\ Only(c, g, h) /\ h.pc[c] \in Own
           /\ Finished(h) = Finished(g)
  BY CommitRaisedEnds, EndsInv DEF Idle

LEMMA CrashedInv ==
    ASSUME NEW g, NEW n \in Nat, NEW labels, NEW c \in Replicas, LoopInv(g, n, labels)
    PROVE  LET h == Crashed(g, c)
           IN  /\ LoopInv(h, n, labels) /\ Only(c, g, h) /\ h.pc[c] \in Own
               /\ Finished(h) = Finished(g)
  <1>1. g \in Groups(n, labels)
    BY DEF LoopInv, GroupTypeOK
  <1>2. Crashed(g, c) \in Groups(n, labels) /\ Ends(c, g, Crashed(g, c), "fetch")
    BY <1>1, GoneFields DEF Crashed, Idle
  <1> QED
    BY <1>2, EndsInv DEF Idle

-----------------------------------------------------------------------------
(* The coordinator *)

LEMMA AssignedInv ==
    ASSUME NEW g, NEW n \in Nat, NEW labels, NEW c \in Replicas, LoopInv(g, n, labels)
    PROVE  LET h == Assigned(g, c)
           IN  /\ LoopInv(h, n, labels) /\ h.pc = g.pc /\ h.at = g.at
               /\ Finished(h) = Finished(g)
  <1> DEFINE h == Assigned(g, c)
  <1>1. g \in Groups(n, labels) /\ g.givenUp \subseteq g.done
    BY DEF LoopInv, GroupTypeOK
  <1>2. /\ h \in Groups(n, labels)
        /\ h.offset = g.offset /\ h.pc = g.pc /\ h.at = g.at
        /\ h.attempt = g.attempt /\ h.done = g.done /\ h.givenUp = g.givenUp
        /\ h.mine = [d \in Replicas |-> FALSE]
    BY <1>1 DEF Assigned, Groups
  <1> HIDE DEF h
  <1>3. \A d \in Replicas : Holds(h, n, d)
    BY <1>2 DEF LoopInv, Holds
  <1>4. GroupTypeOK(h, n, labels) /\ NothingSkipped(h)
    BY <1>1, <1>2 DEF LoopInv, GroupTypeOK, NothingSkipped
  <1>5. /\ LoopInv(h, n, labels) /\ h.pc = g.pc /\ h.at = g.at
        /\ Finished(h) = Finished(g)
    BY <1>2, <1>3, <1>4 DEF LoopInv, Finished
  <1> QED
    BY <1>5 DEF h

-----------------------------------------------------------------------------
(* While the partition is only given to a replica when nobody has it, one  *)
(* handler runs at a time.                                                 *)

Alone(g) ==
    \A c \in Replicas : g.pc[c] \notin Idle => g.member = c /\ g.mine[c]

(* The loop of c stands elsewhere in the same message. *)
Moved(c, g, h, label) ==
    /\ h.pc = [g.pc EXCEPT ![c] = label]
    /\ h.offset = g.offset /\ h.member = g.member /\ h.mine = g.mine /\ h.at = g.at

LEMMA MovedAlone ==
    ASSUME NEW g, NEW h, NEW n \in Nat, NEW labels, NEW c \in Replicas, NEW label,
           g \in Groups(n, labels), Alone(g), Handling(g, c), Moved(c, g, h, label)
    PROVE  Alone(h)
  BY DEF Alone, Moved, Groups, Handling, Idle

LEMMA GoesToMoved ==
    ASSUME NEW g, NEW n \in Nat, NEW labels, g \in Groups(n, labels),
           NEW c \in Replicas, NEW label
    PROVE  LET h == GoesTo(g, c, label)
           IN  Moved(c, g, h, label) /\ h.givenUp = g.givenUp
  BY DEF GoesTo, Moved, Groups

LEMMA HandledMoved ==
    ASSUME NEW g, NEW n \in Nat, NEW labels, g \in Groups(n, labels),
           NEW c \in Replicas
    PROVE  LET h == Handled(g, c)
           IN  Moved(c, g, h, "commit") /\ h.givenUp = g.givenUp
  BY DEF Handled, Moved, Groups

LEMMA RaisedMoved ==
    ASSUME NEW g, NEW n \in Nat, NEW labels, g \in Groups(n, labels),
           NEW c \in Replicas
    PROVE  LET h == Raised(g, c)
           IN  \/ Moved(c, g, h, "handle") /\ h.givenUp = g.givenUp
               \/ Moved(c, g, h, "commit") /\ h.givenUp = g.givenUp \cup {g.at[c]}
  <1>1. LET h == TriedAgain(g, c)
        IN  Moved(c, g, h, "handle") /\ h.givenUp = g.givenUp
    BY DEF TriedAgain, Moved, Groups
  <1>2. LET h == GivenUp(g, c)
        IN  Moved(c, g, h, "commit") /\ h.givenUp = g.givenUp \cup {g.at[c]}
    BY DEF GivenUp, Moved, Groups
  <1> QED
    BY <1>1, <1>2 DEF Raised

LEMMA FetchedAlone ==
    ASSUME NEW g, NEW n \in Nat, NEW labels, NEW c \in Replicas,
           g \in Groups(n, labels), Alone(g), CanFetch(g, c, n)
    PROVE  LET h == Fetched(g, c)
           IN  /\ Alone(h) /\ h.pc = [g.pc EXCEPT ![c] = "handle"]
               /\ h.offset = g.offset /\ h.at[c] = g.offset + 1 /\ h.givenUp = g.givenUp
  <1> DEFINE h == Fetched(g, c)
  <1>1. IsPut(g, h, c, "handle", g.offset + 1, 1, TRUE)
    BY PutFields DEF Fetched
  <1> HIDE DEF h
  <1>2. /\ Alone(h) /\ h.pc = [g.pc EXCEPT ![c] = "handle"]
        /\ h.offset = g.offset /\ h.at[c] = g.offset + 1 /\ h.givenUp = g.givenUp
    BY <1>1 DEF IsPut, Alone, CanFetch, Groups, Idle
  <1> QED
    BY <1>2 DEF h

LEMMA EndsAlone ==
    ASSUME NEW g, NEW h, NEW n \in Nat, NEW labels, NEW c \in Replicas,
           NEW label \in Idle, g \in Groups(n, labels), Alone(g), Ends(c, g, h, label)
    PROVE  Alone(h)
  <1> SUFFICES ASSUME NEW d \in Replicas, h.pc[d] \notin Idle
               PROVE  h.member = d /\ h.mine[d]
    BY DEF Alone
  <1>1. d # c /\ g.pc[d] \notin Idle /\ h.mine[d] = g.mine[d]
    BY DEF Ends, Groups
  <1>2. g.member = d /\ g.mine[d]
    BY <1>1 DEF Alone
  <1> QED
    BY <1>1, <1>2 DEF Ends

LEMMA AssignedAlone ==
    ASSUME NEW g, NEW n \in Nat, NEW labels, NEW c \in Replicas,
           g \in Groups(n, labels), Alone(g), g.member = None
    PROVE  LET h == Assigned(g, c)
           IN  /\ Alone(h) /\ h.pc = g.pc /\ h.at = g.at
               /\ h.offset = g.offset /\ h.givenUp = g.givenUp
  <1>1. \A d \in Replicas : g.pc[d] \in Idle
    BY DEF Alone
  <1>2. LET h == Assigned(g, c)
        IN  h.pc = g.pc /\ h.at = g.at /\ h.offset = g.offset /\ h.givenUp = g.givenUp
    BY DEF Assigned, Groups
  <1> QED
    BY <1>1, <1>2 DEF Alone

=============================================================================
