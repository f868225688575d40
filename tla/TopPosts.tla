------------------------------- MODULE TopPosts -------------------------------
(***************************************************************************)
(* The shelf of an author's best posts, kept from community-events.        *)
(*                                                                         *)
(* upsert_top_post is two transactions: it looks the post up and updates   *)
(* or inserts its row, then reads the whole shelf in the order of scores,  *)
(* numbers the first MaxTop rows and deletes the others.  No unique index  *)
(* backs the lookup.  The session keeps the row the lookup has found:      *)
(* after the first commit it still has the rank it was read with, and a    *)
(* rank is written only where it differs from the one in memory.  An       *)
(* UPDATE that finds its row gone raises; a DELETE that does only warns.   *)
(*                                                                         *)
(* The loop is ConsumerLoop's, with a topic that already holds its         *)
(* messages.  Other authors' rows are never touched.                       *)
(***************************************************************************)
EXTENDS ConsumerLoop, Sequences, FiniteSets, SequencesExt

CONSTANTS
    Posts,      \* the author's posts
    Scores,     \* feedback scores
    MaxTop,     \* MAX_TOP_POSTS
    MaxLog,     \* bound: messages on community-events
    MaxTrouble, \* bound: faults and rebalances
    MaxRows     \* bound: rows of the shelf

ASSUME ConstantsOK ==
    /\ Scores \subseteq Nat
    /\ MaxTop \in Nat \ {0}
    /\ MaxLog \in Nat /\ MaxTrouble \in Nat /\ MaxRows \in Nat
    /\ None \notin Posts

VARIABLES
    log,      \* the PostReacted messages on the topic, which do not change
    group,    \* the consumer group
    own,      \* of a session: the row its lookup found: [id, score, rank]
    seen,     \* the shelf as it has read it: a sequence of [id, rank]
    profile,  \* whether table profiles has the author's row
    rows,     \* table top_posts: id -> [post, score, rank], or None
    faults,   \* failing statements, lost answers, failing commits, crashes
    moves     \* rebalances that took the partition from a live consumer

vars == <<log, group, own, seen, profile, rows, faults, moves>>

session == <<own, seen>>
tables == <<profile, rows>>

Reaction == [post: Posts, score: Scores]
Ids == 1..MaxRows

ASSUME NoneIsNoRow ==
    /\ None \notin [post: Posts, score: Scores, rank: Nat]
    /\ None \notin [id: Ids, score: Scores, rank: Nat]

Stored == {i \in Ids : rows[i] # None}

Init ==
    /\ log \in [1..MaxLog -> Reaction]
    /\ group = Subscribed(None)
    /\ own = [c \in Replicas |-> None]
    /\ seen = [c \in Replicas |-> <<>>]
    /\ profile = FALSE
    /\ rows = [i \in Ids |-> None]
    /\ faults = 0 /\ moves = 0

-----------------------------------------------------------------------------
(* The consumer group *)

Forget(c) == own' = [own EXCEPT ![c] = None] /\ seen' = [seen EXCEPT ![c] = <<>>]

Fault == faults + moves < MaxTrouble /\ faults' = faults + 1

Fetch(c) ==
    /\ CanFetch(group, c, Len(log))
    /\ group' = Fetched(group, c)
    /\ UNCHANGED <<log, session, tables, faults, moves>>

Commit(c) ==
    /\ group.pc[c] = "commit"
    /\ group' = Committed(group, c)
    /\ UNCHANGED <<log, session, tables, faults, moves>>

CommitRaises(c) ==
    /\ group.pc[c] = "commit"
    /\ Fault
    /\ group' \in CommitRaised(group, c)
    /\ UNCHANGED <<log, session, tables, moves>>

(* The handler raises, and its session is dropped.                         *)
Raises(c) == group' = Raised(group, c) /\ Forget(c)

HandlerFails(c) ==
    /\ Handling(group, c)
    /\ Fault
    /\ Raises(c)
    /\ UNCHANGED <<log, tables, moves>>

Crash(c) ==
    /\ Fault
    /\ group' = Crashed(group, c) /\ Forget(c)
    /\ UNCHANGED <<log, tables, moves>>

Assign(c) ==
    /\ CanTake(group, c)
    /\ \/ group.member = None /\ UNCHANGED moves
       \/ group.member # None /\ faults + moves < MaxTrouble /\ moves' = moves + 1
    /\ group' = Assigned(group, c)
    /\ UNCHANGED <<log, session, tables, faults>>

-----------------------------------------------------------------------------
(* TopPostsProjector: create_if_missing, then upsert_top_post *)

At(c, label) == group.pc[c] = label
GoTo(c, label) == group' = GoesTo(group, c, label)

Message(c) == log[group.at[c]]
RowsOf(post) == {i \in Stored : rows[i].post = post}

CreateIfMissing(c) ==
    /\ At(c, "handle")
    /\ profile' = TRUE
    /\ GoTo(c, "look")
    /\ UNCHANGED <<log, session, rows, faults, moves>>

(* Faulty variant: every message inserts a row. *)
LookUnasked(c) ==
    /\ At(c, "look")
    /\ GoTo(c, "upsert")
    /\ UNCHANGED <<log, session, tables, faults, moves>>

(* The lookup: nothing, a row, or too many for scalar_one_or_none. *)
Look(c) ==
    LET found == RowsOf(Message(c).post) IN
    /\ At(c, "look")
    /\ \/ found = {} /\ GoTo(c, "upsert") /\ UNCHANGED session
       \/ \E i \in found :
            /\ found = {i}
            /\ own' = [own EXCEPT ![c] = [id |-> i, score |-> rows[i].score,
                                          rank |-> rows[i].rank]]
            /\ GoTo(c, "upsert") /\ UNCHANGED seen
       \/ Cardinality(found) > 1 /\ Raises(c)
    /\ UNCHANGED <<log, tables, faults, moves>>

(* The first transaction has committed: its answer arrives, or is lost.    *)
Upserts(c, row) ==
    \/ /\ own' = [own EXCEPT ![c] = row]
       /\ GoTo(c, "read")
       /\ UNCHANGED <<seen, faults>>
    \/ Fault /\ Raises(c)

(* The id of the row is a fresh uuid4: any free one, so the first.  The    *)
(* session holds its rows weakly, and nobody else keeps this one.          *)
Insert(c) ==
    \E i \in Ids :
        /\ At(c, "upsert") /\ own[c] = None
        /\ rows[i] = None /\ \A j \in 1..(i - 1) : rows[j] # None
        /\ rows' = [rows EXCEPT ![i] = [post |-> Message(c).post,
                                        score |-> Message(c).score, rank |-> 0]]
        /\ Upserts(c, None)
        /\ UNCHANGED <<log, profile, moves>>

(* The score is written if it differs from the one in memory.              *)
Update(c) ==
    LET i == own[c].id
        differs == own[c].score # Message(c).score
    IN  /\ At(c, "upsert") /\ own[c] # None
        /\ \/ differs /\ rows[i] = None /\ Raises(c) /\ UNCHANGED <<rows, faults>>
           \/ /\ differs => rows[i] # None
              /\ rows' = IF differs THEN [rows EXCEPT ![i].score = Message(c).score] ELSE rows
              /\ Upserts(c, [own[c] EXCEPT !.score = Message(c).score])
        /\ UNCHANGED <<log, profile, moves>>

(* Faulty variant: the lowest score first. *)
ByScoreAscending(table) ==
    LET ids == {i \in Ids : table[i] # None}
    IN  {s \in SetToSeqs(ids) :
            \A m, n \in DOMAIN s : m < n => table[s[m]].score <= table[s[n]].score}

(* The shelf in the order of scores, ties in any order.                    *)
ByScore(table) ==
    LET ids == {i \in Ids : table[i] # None}
    IN  {s \in SetToSeqs(ids) :
            \A m, n \in DOMAIN s : m < n => table[s[m]].score >= table[s[n]].score}

InMemory(c, i) ==
    IF own[c] # None /\ own[c].id = i THEN own[c].rank ELSE rows[i].rank

ReadShelf(c) ==
    \E s \in ByScore(rows) :
        /\ At(c, "read")
        /\ seen' = [seen EXCEPT ![c] = [n \in DOMAIN s |-> [id |-> s[n], rank |-> InMemory(c, s[n])]]]
        /\ GoTo(c, "trim")
        /\ UNCHANGED <<log, own, tables, faults, moves>>

(* The first MaxTop get their ranks, where memory says otherwise; the      *)
(* others are deleted.                                                     *)
Trim(c) ==
    LET s == seen[c]
        ranked == {n \in DOMAIN s : n <= MaxTop /\ s[n].rank # n}
        dropped == {s[n].id : n \in {m \in DOMAIN s : m > MaxTop}}
        RankOf(i) == CHOOSE n \in ranked : s[n].id = i
    IN  /\ At(c, "trim")
        /\ \/ /\ \E n \in ranked : rows[s[n].id] = None
              /\ Raises(c) /\ UNCHANGED <<rows, faults>>
           \/ /\ \A n \in ranked : rows[s[n].id] # None
              /\ rows' = [i \in Ids |->
                            CASE i \in dropped -> None
                              [] \E n \in ranked : s[n].id = i -> [rows[i] EXCEPT !.rank = RankOf(i)]
                              [] OTHER -> rows[i]]
              /\ \/ group' = Handled(group, c) /\ Forget(c) /\ UNCHANGED faults
                 \/ Fault /\ Raises(c)
        /\ UNCHANGED <<log, profile, moves>>

-----------------------------------------------------------------------------

Handle(c) ==
    CreateIfMissing(c) \/ Look(c) \/ Insert(c) \/ Update(c) \/ ReadShelf(c) \/ Trim(c)

Next ==
    \E c \in Replicas :
        \/ Fetch(c) \/ Commit(c) \/ Handle(c)
        \/ HandlerFails(c) \/ CommitRaises(c) \/ Crash(c) \/ Assign(c)

Spec == Init /\ [][Next]_vars

-----------------------------------------------------------------------------

Row == [post: Posts, score: Scores, rank: 0..MaxTop]

(* Every variable has its type. *)
TypeOK ==
    /\ log \in [1..MaxLog -> Reaction]
    /\ GroupTypeOK(group, MaxLog, {"look", "upsert", "read", "trim"})
    /\ own \in [Replicas -> [id: Ids, score: Scores, rank: 0..MaxTop] \cup {None}]
    /\ \A c \in Replicas : seen[c] \in Seq([id: Ids, rank: 0..MaxTop])
    /\ rows \in [Ids -> Row \cup {None}]
    /\ profile \in BOOLEAN
    /\ faults \in Nat /\ moves \in Nat /\ faults + moves <= MaxTrouble

(* Profile.upsert_top_posts, the aggregate's own account of the shelf: the *)
(* shelves it may leave, posts of one score in any order.                  *)
Upserted(shelf, reaction) ==
    LET others == {shelf[n] : n \in {m \in DOMAIN shelf : shelf[m].post # reaction.post}}
        sorted == {s \in SetToSeqs(others \cup {reaction}) :
                     \A m, n \in DOMAIN s : m < n => s[m].score >= s[n].score}
    IN  {SubSeq(s, 1, IF Len(s) < MaxTop THEN Len(s) ELSE MaxTop) : s \in sorted}

Shelves[n \in 0..MaxLog] ==
    IF n = 0 THEN {<<>>}
    ELSE UNION {Upserted(shelf, log[n]) : shelf \in Shelves[n - 1]}

(* The table as get_by_user_id shows it, if its ranks are 1, 2, ...        *)
IsShelf(table, shelf) ==
    /\ Cardinality({i \in Ids : table[i] # None}) = Len(shelf)
    /\ \A n \in DOMAIN shelf : \E i \in Ids :
         table[i] = [post |-> shelf[n].post, score |-> shelf[n].score, rank |-> n]

(* Whenever a message is committed, through retries, crashes between the   *)
(* two commits and redelivery, the table is the shelf the aggregate would  *)
(* have, if no message was given up and no rebalance has let two handlers  *)
(* work at once (profile.py:49-55).                                        *)
LikeTheAggregate ==
    [][moves = 0 /\ group.givenUp = {} /\ group'.offset # group.offset =>
          \E shelf \in Shelves[group'.offset] : IsShelf(rows', shelf)]_vars

(* A post is on the shelf once, through retries, crashes and redelivery,   *)
(* as long as no rebalance lets two handlers look it up at once.           *)
OnceOnShelf == moves = 0 => \A post \in Posts : Cardinality(RowsOf(post)) <= 1

=============================================================================
