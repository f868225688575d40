---------------------------- MODULE TopPostsProofs ----------------------------
(***************************************************************************)
(* For any number of posts, replicas, messages, faults and rebalances, any *)
(* scores and any length of the shelf: every variable of TopPosts keeps    *)
(* its type, and as long as no rebalance takes the partition from a live   *)
(* replica a post is on the shelf once and the shelf is, at every commit,  *)
(* one the aggregate might have, unless a message was given up.            *)
(*                                                                         *)
(* Between two commits of offsets the table is a shelf the aggregate might *)
(* have had before the next message, or part of what that message leaves   *)
(* to choose from with the best of it still there.  So a redelivery, which *)
(* may find either, ends where the first delivery would have.  Shelves is  *)
(* a function defined by recursion; what it needs of induction is that a   *)
(* set of numbers has a least one.                                         *)
(***************************************************************************)
EXTENDS TopPosts, FiniteSetTheorems, SequenceTheorems, WellFoundedInduction,
        ConsumerLoopProofs

USE ConstantsOK

-----------------------------------------------------------------------------
(* Induction *)

(* Every set of numbers has a least one. *)
LEMMA LeastNumber ==
    ASSUME NEW N \in SUBSET Nat, N # {}
    PROVE  \E n \in N : \A m \in N : n <= m
  <1>1. PICK n \in N : \A m \in N : ~(<<m, n>> \in OpToRel(<, Nat))
    BY NatLessThanWellFounded, WFMin, Zenon
  <1>2. \A m \in N : ~(m < n)
    BY <1>1 DEF OpToRel
  <1> QED
    BY <1>2

(* g is Shelves up to the k-th message of l. *)
Follows(g, l, k) ==
    g = [n \in 0..k |->
           IF n = 0 THEN {<<>>}
           ELSE UNION {Upserted(shelf, l[n]) : shelf \in g[n - 1]}]

LEMMA FollowsExists ==
    ASSUME NEW l, NEW k \in Nat
    PROVE  \E g : Follows(g, l, k)
  <1> DEFINE N == {m \in Nat : ~\E g : Follows(g, l, m)}
  <1> SUFFICES ASSUME N # {} PROVE FALSE
    OBVIOUS
  <1>1. PICK n \in N : \A m \in N : n <= m
    BY LeastNumber
  <1>2. n # 0
    <2>1. Follows([i \in 0..0 |-> {<<>>}], l, 0)
      BY DEF Follows
    <2> QED
      BY <1>1, <2>1
  <1>3. n - 1 \in Nat /\ n - 1 \notin N
    BY <1>1, <1>2
  <1>4. PICK g : Follows(g, l, n - 1)
    BY <1>3
  <1> DEFINE next == UNION {Upserted(shelf, l[n]) : shelf \in g[n - 1]}
             h == [i \in 0..n |-> IF i = n THEN next ELSE g[i]]
  <1>5. ASSUME NEW i \in 0..n
        PROVE  h[i] = IF i = 0 THEN {<<>>}
                      ELSE UNION {Upserted(shelf, l[i]) : shelf \in h[i - 1]}
    <2>1. CASE i = n
      <3>1. n - 1 \in 0..n /\ n - 1 # n
        BY <1>3
      <3>2. h[n - 1] = g[n - 1] /\ h[i] = next
        BY <2>1, <3>1
      <3> QED
        BY <1>2, <2>1, <3>2
    <2>2. CASE i # n
      <3>1. i \in 0..(n - 1) /\ h[i] = g[i] /\ (i # 0 => i - 1 \in 0..n /\ i - 1 # n)
        BY <1>3, <2>2
      <3>2. i # 0 => h[i - 1] = g[i - 1]
        BY <3>1
      <3>3. g[i] = IF i = 0 THEN {<<>>}
                   ELSE UNION {Upserted(shelf, l[i]) : shelf \in g[i - 1]}
        BY <1>4, <3>1 DEF Follows
      <3> HIDE DEF h
      <3> QED
        BY <3>1, <3>2, <3>3
    <2> QED
      BY <2>1, <2>2
  <1>6. Follows(h, l, n)
    <2>1. h = [i \in 0..n |-> h[i]]
      OBVIOUS
    <2> HIDE DEF h
    <2> QED
      BY <1>5, <2>1 DEF Follows
  <1> QED
    BY <1>1, <1>6

(* The aggregate's shelves are those before a message, each with its post. *)
LEMMA ShelvesDefined ==
    /\ Shelves[0] = {<<>>}
    /\ \A n \in 1..MaxLog :
         Shelves[n] = UNION {Upserted(shelf, log[n]) : shelf \in Shelves[n - 1]}
  <1> DEFINE g == CHOOSE h : Follows(h, log, MaxLog)
  <1>1. Follows(g, log, MaxLog)
    BY FollowsExists
  <1>2. g = Shelves
    BY DEF Shelves, Follows
  <1>3. Follows(Shelves, log, MaxLog)
    BY <1>1, <1>2
  <1> HIDE DEF g
  <1>4. \A n \in 0..MaxLog :
          Shelves[n] = IF n = 0 THEN {<<>>}
                       ELSE UNION {Upserted(shelf, log[n]) : shelf \in Shelves[n - 1]}
    BY <1>3 DEF Follows
  <1>5. 0 \in 0..MaxLog /\ \A n \in 1..MaxLog : n \in 0..MaxLog /\ n # 0
    OBVIOUS
  <1> HIDE DEF Upserted
  <1>6. Shelves[0] = {<<>>}
    BY <1>4, <1>5, Zenon
  <1> QED
    BY <1>4, <1>5, <1>6, Zenon

-----------------------------------------------------------------------------
(* Orders *)

Ordered(s) == \A m, n \in DOMAIN s : m < n => s[m].score >= s[n].score

(* A finite set of reactions has one of the lowest score. *)
LEMMA LowestScore ==
    ASSUME NEW S \in SUBSET Reaction, S # {}
    PROVE  \E x \in S : \A y \in S : x.score <= y.score
  <1> DEFINE N == {x.score : x \in S}
  <1>1. N \in SUBSET Nat /\ N # {}
    BY DEF Reaction
  <1>2. PICK n \in N : \A m \in N : n <= m
    BY <1>1, LeastNumber
  <1>3. PICK x \in S : x.score = n
    BY <1>2
  <1> QED
    BY <1>2, <1>3

(* Every finite set of reactions can be put in the order of scores. *)
LEMMA SortExists ==
    ASSUME NEW S \in SUBSET Reaction, IsFiniteSet(S)
    PROVE  \E s \in SetToSeqs(S) : Ordered(s)
  <1> DEFINE Unsorted(n) ==
               \E T \in SUBSET Reaction :
                  /\ IsFiniteSet(T) /\ Cardinality(T) = n
                  /\ ~\E s \in SetToSeqs(T) : Ordered(s)
             N == {n \in Nat : Unsorted(n)}
  <1>1. SUFFICES ASSUME N # {} PROVE FALSE
    <2>1. Cardinality(S) \in Nat
      BY FS_CardinalityType
    <2> HIDE DEF Ordered, Reaction
    <2> QED
      BY <1>1, <2>1
  <1>2. PICK n \in N : \A m \in N : n <= m
    BY <1>1, LeastNumber
  <1>3. PICK T \in SUBSET Reaction :
          /\ IsFiniteSet(T) /\ Cardinality(T) = n
          /\ ~\E s \in SetToSeqs(T) : Ordered(s)
    BY <1>2
  <1>4. T # {}
    <2>1. SUFFICES ASSUME T = {} PROVE FALSE
      OBVIOUS
    <2>2. Cardinality(T) = 0
      BY <2>1, FS_EmptySet
    <2>3. [i \in 1..0 |-> i] \in SetToSeqs(T) /\ Ordered([i \in 1..0 |-> i])
      BY <2>2 DEF SetToSeqs, Ordered
    <2> QED
      BY <1>3, <2>3
  <1>5. PICK x \in T : \A y \in T : x.score <= y.score
    BY <1>3, <1>4, LowestScore
  <1> DEFINE R == T \ {x}
  <1>6. /\ IsFiniteSet(R) /\ Cardinality(R) = n - 1 /\ n \in Nat /\ n - 1 \in Nat
    <2>1. IsFiniteSet(R) /\ Cardinality(R) = Cardinality(T) - 1
      BY <1>3, <1>5, FS_RemoveElement
    <2>2. Cardinality(R) \in Nat
      BY <2>1, FS_CardinalityType
    <2> QED
      BY <1>2, <1>3, <2>1, <2>2
  <1>7. PICK s \in SetToSeqs(R) : Ordered(s)
    <2>1. n - 1 \notin N
      BY <1>2, <1>6
    <2>2. R \in SUBSET Reaction
      OBVIOUS
    <2> HIDE DEF R
    <2> QED
      BY <1>6, <2>1, <2>2
  <1>8. s \in [1..(n - 1) -> R] /\ \A i, j \in 1..(n - 1) : i # j => s[i] # s[j]
    BY <1>6, <1>7 DEF SetToSeqs
  <1> DEFINE t == [i \in 1..n |-> IF i = n THEN x ELSE s[i]]
  <1>9. \A i \in 1..n : i = n \/ i \in 1..(n - 1)
    BY <1>6
  <1>10. \A i \in 1..n : (i # n => t[i] = s[i] /\ t[i] \in R) /\ (i = n => t[i] = x)
    BY <1>8, <1>9
  <1> HIDE DEF t
  <1>11. t \in SetToSeqs(T)
    <2>1. t \in [1..n -> T]
      BY <1>10 DEF t
    <2>2. \A i, j \in 1..n : i # j => t[i] # t[j]
      BY <1>8, <1>9, <1>10
    <2> QED
      BY <1>3, <2>1, <2>2 DEF SetToSeqs
  <1>12. Ordered(t)
    <2> SUFFICES ASSUME NEW i \in 1..n, NEW j \in 1..n, i < j
                 PROVE  t[i].score >= t[j].score
      BY DEF Ordered, t
    <2>1. i \in 1..(n - 1) /\ t[i] = s[i] /\ s[i] \in T
      BY <1>6, <1>8, <1>10
    <2>2. CASE j = n
      <3>1. t[j] = x /\ x.score <= s[i].score /\ x.score \in Nat /\ s[i].score \in Nat
        BY <1>3, <1>5, <1>10, <2>1, <2>2 DEF Reaction
      <3> QED
        BY <2>1, <3>1
    <2>3. CASE j # n
      BY <1>7, <1>8, <1>9, <1>10, <2>1, <2>3 DEF Ordered
    <2> QED
      BY <2>2, <2>3
  <1> QED
    BY <1>3, <1>11, <1>12

-----------------------------------------------------------------------------
(* Enumerations *)

Least(a, b) == IF a < b THEN a ELSE b

Differ(s, n) == \A i, j \in 1..n : i # j => s[i] # s[j]

(* What is listed without repetition is counted by the list. *)
LEMMA ListCounts ==
    ASSUME NEW n \in Nat, NEW S, NEW s \in [1..n -> S], Differ(s, n),
           \A x \in S : \E i \in 1..n : s[i] = x
    PROVE  IsFiniteSet(S) /\ Cardinality(S) = n /\ s \in SetToSeqs(S)
  <1>1. s \in Bijection(1..n, S)
    BY DEF Bijection, Injection, Surjection, IsInjective, Differ
  <1>2. IsFiniteSet(1..n) /\ Cardinality(1..n) = n
    <2>1. 1 \in Int /\ n \in Int /\ (IF 1 > n THEN 0 ELSE n - 1 + 1) = n
      OBVIOUS
    <2> QED
      BY <2>1, FS_Interval
  <1>3. IsFiniteSet(S) /\ Cardinality(S) = n
    BY <1>1, <1>2, FS_Bijection DEF ExistsBijection
  <1> QED
    BY <1>3 DEF SetToSeqs, Differ

(* A list without repetition that is as long as its set leaves nothing out.*)
LEMMA ListCovers ==
    ASSUME NEW S, IsFiniteSet(S), NEW n \in Nat, Cardinality(S) = n,
           NEW s \in [1..n -> S], Differ(s, n)
    PROVE  \A x \in S : \E i \in 1..n : s[i] = x
  <1>1. s \in Injection(1..n, S)
    BY DEF Injection, IsInjective, Differ
  <1>2. Cardinality(1..n) = n
    <2>1. 1 \in Int /\ n \in Int /\ (IF 1 > n THEN 0 ELSE n - 1 + 1) = n
      OBVIOUS
    <2> QED
      BY <2>1, FS_Interval
  <1>3. s \in Surjection(1..n, S)
    BY <1>1, <1>2, FS_Injection
  <1> QED
    BY <1>3 DEF Surjection

LEMMA SeqsAre ==
    ASSUME NEW S, IsFiniteSet(S), NEW s \in SetToSeqs(S)
    PROVE  /\ Cardinality(S) \in Nat
           /\ s \in [1..Cardinality(S) -> S]
           /\ Differ(s, Cardinality(S))
           /\ \A x \in S : \E i \in 1..Cardinality(S) : s[i] = x
  <1>1. Cardinality(S) \in Nat
    BY FS_CardinalityType
  <1>2. s \in [1..Cardinality(S) -> S] /\ Differ(s, Cardinality(S))
    BY DEF SetToSeqs, Differ
  <1> QED
    BY <1>1, <1>2, ListCovers

(* The first k of a list. *)
First(s, k) == [i \in 1..k |-> s[i]]
Image(s, k) == {s[i] : i \in 1..k}

LEMMA FirstTyped ==
    ASSUME NEW S, NEW n \in Nat, NEW s \in [1..n -> S], NEW k \in 0..n
    PROVE  SubSeq(s, 1, k) = First(s, k) /\ First(s, k) \in Seq(S) /\ Len(First(s, k)) = k
  <1>1. \A i \in 1..k : s[i] \in S
    OBVIOUS
  <1>2. /\ SubSeq(s, 1, k) \in Seq(S)
        /\ Len(SubSeq(s, 1, k)) = k
        /\ \A i \in 1..k : SubSeq(s, 1, k)[i] = s[i]
    <2>1. k \in Int /\ 1 \in Int /\ k - 1 + 1 = k /\ (IF 1 <= k THEN k - 1 + 1 ELSE 0) = k
          /\ \A i \in 1..k : 1 + i - 1 = i
      OBVIOUS
    <2>2. /\ SubSeq(s, 1, k) \in Seq(S)
          /\ Len(SubSeq(s, 1, k)) = IF 1 <= k THEN k - 1 + 1 ELSE 0
          /\ \A i \in 1..(k - 1 + 1) : SubSeq(s, 1, k)[i] = s[1 + i - 1]
      BY <1>1, <2>1, SubSeqProperties
    <2> QED
      BY <2>1, <2>2
  <1>3. SubSeq(s, 1, k) = [i \in 1..k |-> SubSeq(s, 1, k)[i]]
    BY <1>2, LenProperties
  <1>4. SubSeq(s, 1, k) = First(s, k)
    BY <1>2, <1>3 DEF First
  <1> QED
    BY <1>2, <1>4

LEMMA ListBegins ==
    ASSUME NEW S, NEW n \in Nat, NEW s \in [1..n -> S]
    PROVE  /\ s \in Seq(S) /\ Len(s) = n
           /\ \A k \in 0..n : SubSeq(s, 1, k) = First(s, k)
  <1>1. ASSUME NEW k \in 0..n
        PROVE  SubSeq(s, 1, k) = First(s, k) /\ Len(First(s, k)) = k
    BY FirstTyped
  <1>2. n \in 0..n /\ s = First(s, n)
    BY DEF First
  <1>3. First(s, n) \in Seq(S)
    BY <1>2, FirstTyped
  <1> QED
    BY <1>1, <1>2, <1>3

-----------------------------------------------------------------------------
(* The best of a shelf *)

(* T is the best of S: as many as there is place for, and none is worse    *)
(* than one left out.                                                      *)
Top(T, S) ==
    /\ T \subseteq S /\ Cardinality(T) = Least(Cardinality(S), MaxTop)
    /\ \A x \in T, y \in S \ T : x.score >= y.score

LEMMA FirstAreTop ==
    ASSUME NEW S \in SUBSET Reaction, IsFiniteSet(S),
           NEW s \in SetToSeqs(S), Ordered(s)
    PROVE  LET k == Least(Cardinality(S), MaxTop)
           IN  Top(Image(s, k), S) /\ First(s, k) \in SetToSeqs(Image(s, k))
  <1> DEFINE n == Cardinality(S)
             k == Least(n, MaxTop)
             T == Image(s, k)
  <1>1. n \in Nat /\ s \in [1..n -> S] /\ Differ(s, n)
        /\ \A x \in S : \E i \in 1..n : s[i] = x
    BY SeqsAre
  <1>2. k \in 0..n
    BY <1>1 DEF Least
  <1> HIDE DEF n, k
  <1>3. First(s, k) \in [1..k -> T] /\ Differ(First(s, k), k)
        /\ \A x \in T : \E i \in 1..k : First(s, k)[i] = x
    BY <1>1, <1>2 DEF First, Image, Differ
  <1>4. Cardinality(T) = k /\ First(s, k) \in SetToSeqs(T)
    BY <1>2, <1>3, ListCounts
  <1>5. T \subseteq S
    BY <1>1, <1>2 DEF Image
  <1>6. ASSUME NEW x \in T, NEW y \in S \ T PROVE x.score >= y.score
    <2>1. PICK i \in 1..k : s[i] = x
      BY DEF Image
    <2>2. PICK j \in 1..n : s[j] = y
      BY <1>1
    <2>3. i < j /\ i \in DOMAIN s /\ j \in DOMAIN s
      BY <1>1, <1>2, <2>1, <2>2 DEF Image
    <2> QED
      BY <2>1, <2>2, <2>3 DEF Ordered
  <1> QED
    BY <1>4, <1>5, <1>6 DEF Top, k, n

(* The best of what was kept of S are the best of S, if what was kept had  *)
(* the best in it.                                                         *)
LEMMA TopOfTop ==
    ASSUME NEW S \in SUBSET Reaction, IsFiniteSet(S), NEW P \in SUBSET S,
           NEW T \in SUBSET P, Top(T, S), NEW U, Top(U, P)
    PROVE  Top(U, S)
  <1>1. /\ IsFiniteSet(P) /\ IsFiniteSet(T) /\ U \subseteq P /\ IsFiniteSet(U)
        /\ Cardinality(T) <= Cardinality(P) /\ Cardinality(P) <= Cardinality(S)
    BY FS_Subset DEF Top
  <1>2. /\ Cardinality(S) \in Nat /\ Cardinality(P) \in Nat
        /\ Cardinality(T) \in Nat /\ Cardinality(U) \in Nat
    BY <1>1, FS_CardinalityType
  <1>3. Cardinality(U) = Cardinality(T)
    BY <1>1, <1>2 DEF Top, Least
  <1>4. ASSUME NEW x \in U, NEW y \in S \ U PROVE x.score >= y.score
    <2>1. CASE y \in P
      BY <2>1 DEF Top
    <2>2. CASE y \notin P /\ x \in T
      BY <2>2 DEF Top
    <2>3. CASE y \notin P /\ x \notin T
      <3>1. PICK z \in T : z \notin U
        <4>1. SUFFICES ASSUME T \in SUBSET U PROVE FALSE
          OBVIOUS
        <4>2. T = U
          BY <1>1, <1>3, <4>1, FS_Subset
        <4> QED
          BY <2>3, <4>2
      <3>2. x.score >= z.score /\ z.score >= y.score
        BY <2>3, <3>1 DEF Top
      <3>3. x.score \in Nat /\ y.score \in Nat /\ z.score \in Nat
        BY <1>1, <3>1 DEF Reaction
      <3> QED
        BY <3>2, <3>3
    <2> QED
      BY <2>1, <2>2, <2>3
  <1>5. Cardinality(U) = Least(Cardinality(S), MaxTop) /\ U \subseteq S
    BY <1>1, <1>3 DEF Top
  <1> QED
    BY <1>4, <1>5 DEF Top

(* The best, in the order of scores, begin some order of the whole. *)
LEMMA TopBegins ==
    ASSUME NEW S \in SUBSET Reaction, IsFiniteSet(S), NEW T, Top(T, S),
           NEW u \in SetToSeqs(T), Ordered(u)
    PROVE  \E s \in SetToSeqs(S) :
             Ordered(s) /\ First(s, Least(Cardinality(S), MaxTop)) = u
  <1> DEFINE n == Cardinality(S)
             k == Cardinality(T)
             R == S \ T
             m == Cardinality(R)
  <1>1. /\ T \subseteq S /\ IsFiniteSet(T) /\ IsFiniteSet(R) /\ R \in SUBSET Reaction
    <2>1. T \in SUBSET S /\ R \in SUBSET S
      BY DEF Top
    <2> QED
      BY <2>1, FS_Subset
  <1>2. k \in Nat /\ u \in [1..k -> T] /\ Differ(u, k)
        /\ \A x \in T : \E i \in 1..k : u[i] = x
    BY <1>1, SeqsAre
  <1>3. PICK v \in SetToSeqs(R) : Ordered(v)
    BY <1>1, SortExists
  <1>4. m \in Nat /\ v \in [1..m -> R] /\ Differ(v, m)
        /\ \A x \in R : \E i \in 1..m : v[i] = x
    BY <1>1, <1>3, SeqsAre
  <1> DEFINE s == [i \in 1..(k + m) |-> IF i <= k THEN u[i] ELSE v[i - k]]
  <1> HIDE DEF n, k, m, R
  <1>5. \A i \in 1..(k + m) : \/ i <= k /\ i \in 1..k
                              \/ ~(i <= k) /\ i - k \in 1..m
    BY <1>2, <1>4
  <1>6. \A i \in 1..(k + m) :
          /\ i <= k => s[i] = u[i] /\ s[i] \in T
          /\ ~(i <= k) => s[i] = v[i - k] /\ s[i] \in R
    BY <1>2, <1>4, <1>5
  <1>7. T \cap R = {} /\ T \cup R = S
    BY <1>1 DEF R
  <1>8. k + m \in Nat /\ s \in [1..(k + m) -> S]
    BY <1>2, <1>4, <1>6, <1>7
  <1> HIDE DEF s
  <1>9. Differ(s, k + m)
    <2> SUFFICES ASSUME NEW i \in 1..(k + m), NEW j \in 1..(k + m), i # j
                 PROVE  s[i] # s[j]
      BY DEF Differ
    <2>1. CASE i <= k /\ j <= k
      BY <1>2, <1>5, <1>6, <2>1 DEF Differ
    <2>2. CASE ~(i <= k) /\ ~(j <= k)
      <3>1. i - k # j - k
        BY <1>2
      <3> QED
        BY <1>4, <1>5, <1>6, <2>2, <3>1 DEF Differ
    <2>3. CASE (i <= k /\ ~(j <= k)) \/ (~(i <= k) /\ j <= k)
      BY <1>6, <1>7, <2>3
    <2> QED
      BY <2>1, <2>2, <2>3
  <1>10. ASSUME NEW x \in S PROVE \E i \in 1..(k + m) : s[i] = x
    <2>1. CASE x \in T
      <3>1. PICK i \in 1..k : u[i] = x
        BY <1>2, <2>1
      <3>2. i \in 1..(k + m) /\ i <= k
        BY <1>2, <1>4
      <3> QED
        BY <1>6, <3>1, <3>2
    <2>2. CASE x \in R
      <3>1. PICK i \in 1..m : v[i] = x
        BY <1>4, <2>2
      <3>2. k + i \in 1..(k + m) /\ ~(k + i <= k) /\ (k + i) - k = i
        BY <1>2, <1>4
      <3>3. s[k + i] = v[i]
        BY <1>6, <3>2
      <3> QED
        BY <3>1, <3>2, <3>3
    <2> QED
      BY <1>7, <2>1, <2>2
  <1>11. n = k + m /\ s \in SetToSeqs(S)
    BY <1>8, <1>9, <1>10, ListCounts DEF n
  <1>12. Ordered(s)
    <2> SUFFICES ASSUME NEW i \in 1..(k + m), NEW j \in 1..(k + m), i < j
                 PROVE  s[i].score >= s[j].score
      BY <1>8 DEF Ordered
    <2>1. CASE j <= k
      <3>1. i <= k /\ i \in DOMAIN u /\ j \in DOMAIN u
        BY <1>2, <1>5, <2>1
      <3> QED
        BY <1>6, <2>1, <3>1 DEF Ordered
    <2>2. CASE ~(i <= k)
      <3>1. ~(j <= k) /\ i - k \in DOMAIN v /\ j - k \in DOMAIN v /\ i - k < j - k
        BY <1>2, <1>4, <1>5, <2>2
      <3>2. v[i - k].score >= v[j - k].score
        BY <1>3, <3>1 DEF Ordered
      <3> QED
        BY <1>6, <2>2, <3>1, <3>2
    <2>3. CASE i <= k /\ ~(j <= k)
      <3>1. s[i] \in T /\ s[j] \in S \ T
        BY <1>6, <2>3 DEF R
      <3> QED
        BY <3>1 DEF Top
    <2> QED
      BY <2>1, <2>2, <2>3
  <1>13. First(s, k) = u
    <2>1. \A i \in 1..k : s[i] = u[i]
      BY <1>2, <1>4, <1>6
    <2>2. u = [i \in 1..k |-> u[i]]
      BY <1>2
    <2> QED
      BY <2>1, <2>2 DEF First
  <1>14. k = Least(n, MaxTop)
    BY DEF Top, k, n
  <1> QED
    BY <1>11, <1>12, <1>13, <1>14 DEF n

-----------------------------------------------------------------------------
(* Tables and shelves *)

Tables == [Ids -> Row \cup {None}]

StoredIn(table) == {i \in Ids : table[i] # None}
Pair(row) == [post |-> row.post, score |-> row.score]
Pairs(table) == {Pair(table[i]) : i \in StoredIn(table)}

OneRowEach(table) ==
    \A i, j \in StoredIn(table) : table[i].post = table[j].post => i = j

(* What a shelf is before its best are taken. *)
After(shelf, r) ==
    {shelf[n] : n \in {m \in DOMAIN shelf : shelf[m].post # r.post}} \cup {r}

(* The table is a shelf the aggregate may have after n messages. *)
Clean(table, n) ==
    \E shelf \in Shelves[n] : IsShelf(table, shelf)

(* It holds what the n-th message leaves to choose from, or part of it     *)
(* with the best still there.                                              *)
Kept(table, n) ==
    \E shelf \in Shelves[n - 1] :
        /\ Pairs(table) \subseteq After(shelf, log[n])
        /\ \E T \in SUBSET Pairs(table) : Top(T, After(shelf, log[n]))

LEMMA ImageFinite ==
    ASSUME NEW S, IsFiniteSet(S), NEW f, DOMAIN f = S
    PROVE  IsFiniteSet({f[x] : x \in S})
  <1> DEFINE T == {f[x] : x \in S}
             g == [x \in S |-> f[x]]
  <1>1. g \in Surjection(S, T)
    BY DEF Surjection
  <1> QED
    BY <1>1, FS_Surjection

LEMMA RowIs ==
    ASSUME NEW table \in Tables, NEW i \in Ids
    PROVE  /\ i \in StoredIn(table) =>
                /\ table[i] \in Row /\ Pair(table[i]) \in Reaction
                /\ table[i] = [post |-> table[i].post, score |-> table[i].score,
                               rank |-> table[i].rank]
           /\ \A post \in Posts, score \in Scores, rank \in Nat :
                table[i] = [post |-> post, score |-> score, rank |-> rank] =>
                   i \in StoredIn(table) /\ Pair(table[i]) = [post |-> post, score |-> score]
  <1>1. i \in StoredIn(table) => table[i] \in Row
    BY DEF Tables, StoredIn
  <1>2. table[i] \in Row => /\ Pair(table[i]) \in Reaction
                            /\ table[i] = [post |-> table[i].post, score |-> table[i].score,
                                           rank |-> table[i].rank]
    BY DEF Row, Reaction, Pair
  <1>3. ASSUME NEW post \in Posts, NEW score \in Scores, NEW rank \in Nat,
               table[i] = [post |-> post, score |-> score, rank |-> rank]
        PROVE  i \in StoredIn(table) /\ Pair(table[i]) = [post |-> post, score |-> score]
    <2>1. table[i] # None
      BY <1>3, NoneIsNoRow
    <2> QED
      BY <1>3, <2>1 DEF StoredIn, Pair
  <1> QED
    BY <1>1, <1>2, <1>3

LEMMA StoredFinite ==
    ASSUME NEW table \in Tables
    PROVE  /\ IsFiniteSet(StoredIn(table)) /\ Cardinality(StoredIn(table)) \in Nat
           /\ IsFiniteSet(Pairs(table)) /\ Pairs(table) \in SUBSET Reaction
  <1>1. IsFiniteSet(Ids) /\ StoredIn(table) \in SUBSET Ids
    BY FS_Interval DEF Ids, StoredIn
  <1>2. IsFiniteSet(StoredIn(table)) /\ Cardinality(StoredIn(table)) \in Nat
    BY <1>1, FS_Subset, FS_CardinalityType
  <1> DEFINE f == [i \in StoredIn(table) |-> Pair(table[i])]
  <1>3. IsFiniteSet({f[i] : i \in StoredIn(table)})
    BY <1>2, ImageFinite
  <1>4. {f[i] : i \in StoredIn(table)} = Pairs(table)
    BY DEF Pairs
  <1>5. Pairs(table) \in SUBSET Reaction
    BY <1>1, RowIs DEF Pairs
  <1> QED
    BY <1>2, <1>3, <1>4, <1>5

LEMMA AfterFinite ==
    ASSUME NEW shelf \in Seq(Reaction), NEW r \in Reaction
    PROVE  After(shelf, r) \in SUBSET Reaction /\ IsFiniteSet(After(shelf, r))
  <1> DEFINE N == {m \in DOMAIN shelf : shelf[m].post # r.post}
             f == [n \in N |-> shelf[n]]
  <1>1. Len(shelf) \in Nat /\ DOMAIN shelf = 1..Len(shelf)
        /\ \A n \in DOMAIN shelf : shelf[n] \in Reaction
    BY LenProperties, ElementOfSeq
  <1>2. IsFiniteSet(N)
    <2>1. IsFiniteSet(1..Len(shelf)) /\ N \in SUBSET (1..Len(shelf))
      BY <1>1, FS_Interval
    <2> QED
      BY <2>1, FS_Subset
  <1>3. IsFiniteSet({f[n] : n \in N})
    BY <1>2, ImageFinite
  <1>4. After(shelf, r) = {f[n] : n \in N} \cup {r}
    BY DEF After
  <1>5. {f[n] : n \in N} \in SUBSET Reaction
    BY <1>1
  <1> HIDE DEF f, N
  <1>6. IsFiniteSet({f[n] : n \in N} \cup {r})
    BY <1>3, FS_AddElement
  <1> QED
    BY <1>4, <1>5, <1>6

(* A table that is a shelf has its reactions, and no others.               *)
LEMMA ShelfPairs ==
    ASSUME NEW table \in Tables, NEW shelf \in Seq(Reaction), IsShelf(table, shelf)
    PROVE  /\ \A n \in DOMAIN shelf : shelf[n] \in Pairs(table)
           /\ \A x \in Pairs(table) : \E n \in DOMAIN shelf : shelf[n] = x
  <1> DEFINE k == Len(shelf)
             S == StoredIn(table)
             f == [n \in 1..k |-> CHOOSE i \in Ids :
                     table[i] = [post |-> shelf[n].post, score |-> shelf[n].score, rank |-> n]]
  <1>1. k \in Nat /\ DOMAIN shelf = 1..k /\ \A n \in 1..k : shelf[n] \in Reaction
    BY LenProperties, ElementOfSeq
  <1>2. IsFiniteSet(S) /\ Cardinality(S) = k
    BY StoredFinite DEF IsShelf, StoredIn
  <1>3. ASSUME NEW n \in 1..k
        PROVE  /\ f[n] \in Ids
               /\ table[f[n]] = [post |-> shelf[n].post, score |-> shelf[n].score, rank |-> n]
    BY <1>1, <1>3 DEF IsShelf
  <1> HIDE DEF f
  <1>4. ASSUME NEW n \in 1..k
        PROVE  f[n] \in S /\ Pair(table[f[n]]) = shelf[n] /\ table[f[n]].rank = n
    <2>1. shelf[n].post \in Posts /\ shelf[n].score \in Scores /\ n \in Nat
          /\ shelf[n] = [post |-> shelf[n].post, score |-> shelf[n].score]
      BY <1>1 DEF Reaction
    <2>2. \A post \in Posts, score \in Scores, rank \in Nat :
            table[f[n]] = [post |-> post, score |-> score, rank |-> rank] =>
               /\ f[n] \in StoredIn(table)
               /\ Pair(table[f[n]]) = [post |-> post, score |-> score]
      BY <1>3, RowIs
    <2>3. /\ f[n] \in StoredIn(table)
          /\ Pair(table[f[n]]) = [post |-> shelf[n].post, score |-> shelf[n].score]
      BY <1>3, <2>1, <2>2
    <2>4. table[f[n]].rank = n
      <3>1. table[f[n]] = [post |-> shelf[n].post, score |-> shelf[n].score, rank |-> n]
        BY <1>3
      <3> QED
        BY <3>1
    <2> QED
      BY <2>1, <2>3, <2>4
  <1>5. f \in [1..k -> S] /\ Differ(f, k)
    <2>1. f = [n \in 1..k |-> f[n]]
      BY DEF f
    <2> QED
      BY <1>4, <2>1 DEF Differ
  <1>6. \A i \in S : \E n \in 1..k : f[n] = i
    BY <1>1, <1>2, <1>5, ListCovers
  <1> HIDE DEF S, k
  <1>7. \A n \in 1..k : shelf[n] \in Pairs(table)
    <2> TAKE n \in 1..k
    <2>1. f[n] \in StoredIn(table) /\ Pair(table[f[n]]) = shelf[n]
      BY <1>4 DEF S
    <2> QED
      BY <2>1 DEF Pairs
  <1>8. ASSUME NEW x \in Pairs(table) PROVE \E n \in 1..k : shelf[n] = x
    <2>1. PICK i \in S : Pair(table[i]) = x
      BY DEF Pairs, S
    <2> QED
      BY <1>4, <1>6, <2>1
  <1> QED
    BY <1>1, <1>7, <1>8

-----------------------------------------------------------------------------
(* The aggregate *)

LEMMA SeqBegins ==
    ASSUME NEW S, IsFiniteSet(S), NEW s \in SetToSeqs(S)
    PROVE  /\ s \in Seq(S) /\ Len(s) = Cardinality(S) /\ Cardinality(S) \in Nat
           /\ \A k \in 0..Cardinality(S) : SubSeq(s, 1, k) = First(s, k)
  <1> DEFINE n == Cardinality(S)
  <1>1. n \in Nat /\ s \in [1..n -> S]
    BY SeqsAre
  <1> HIDE DEF n
  <1>2. s \in Seq(S) /\ Len(s) = n /\ \A k \in 0..n : SubSeq(s, 1, k) = First(s, k)
    BY <1>1, ListBegins
  <1> QED
    BY <1>1, <1>2 DEF n

LEMMA UpsertedAre ==
    ASSUME NEW prev \in Seq(Reaction), NEW r \in Reaction
    PROVE  LET S == After(prev, r)
           IN  Upserted(prev, r) = {First(s, Least(Cardinality(S), MaxTop)) :
                                      s \in {t \in SetToSeqs(S) : Ordered(t)}}
  <1> DEFINE S == After(prev, r)
             k == Least(Cardinality(S), MaxTop)
             Q == {t \in SetToSeqs(S) : Ordered(t)}
  <1>1. S \in SUBSET Reaction /\ IsFiniteSet(S)
    BY AfterFinite
  <1>2. Upserted(prev, r) = {SubSeq(s, 1, IF Len(s) < MaxTop THEN Len(s) ELSE MaxTop) : s \in Q}
    BY DEF Upserted, After, Ordered
  <1>3. ASSUME NEW s \in Q
        PROVE  SubSeq(s, 1, IF Len(s) < MaxTop THEN Len(s) ELSE MaxTop) = First(s, k)
    <2>1. Len(s) = Cardinality(S) /\ Cardinality(S) \in Nat
      BY <1>1, SeqBegins
    <2>2. k \in 0..Cardinality(S) /\ (IF Len(s) < MaxTop THEN Len(s) ELSE MaxTop) = k
      BY <2>1 DEF Least
    <2>3. SubSeq(s, 1, k) = First(s, k)
      <3> HIDE DEF k
      <3> QED
        BY <1>1, <2>2, SeqBegins
    <2> QED
      BY <2>2, <2>3
  <1> HIDE DEF Q, k
  <1>4. Upserted(prev, r) = {First(s, k) : s \in Q}
    BY <1>2, <1>3
  <1> QED
    BY <1>4 DEF Q, k

(* What the aggregate leaves is the best of what it had, in order.         *)
LEMMA UpsertedIsTop ==
    ASSUME NEW prev \in Seq(Reaction), NEW r \in Reaction, NEW shelf \in Upserted(prev, r)
    PROVE  /\ shelf \in Seq(Reaction)
           /\ \E T : /\ Top(T, After(prev, r))
                     /\ T = {shelf[i] : i \in DOMAIN shelf}
  <1> DEFINE S == After(prev, r)
             k == Least(Cardinality(S), MaxTop)
  <1>1. S \in SUBSET Reaction /\ IsFiniteSet(S)
    BY AfterFinite
  <1>2. PICK s \in SetToSeqs(S) : Ordered(s) /\ shelf = First(s, k)
    BY UpsertedAre
  <1>3. Cardinality(S) \in Nat /\ s \in [1..Cardinality(S) -> S]
    BY <1>1, SeqsAre
  <1>4. Top(Image(s, k), S)
    BY <1>1, <1>2, FirstAreTop
  <1> HIDE DEF S
  <1>5. k \in 0..Cardinality(S)
    BY <1>3 DEF Least
  <1> HIDE DEF k
  <1>6. s \in [1..Cardinality(S) -> Reaction]
    BY <1>1, <1>3
  <1>7. shelf \in Seq(Reaction)
    BY <1>2, <1>3, <1>5, <1>6, FirstTyped
  <1>8. Image(s, k) = {shelf[i] : i \in DOMAIN shelf}
    BY <1>2 DEF Image, First
  <1> QED
    BY <1>4, <1>7, <1>8 DEF S

LogType == log \in [1..MaxLog -> Reaction]

LEMMA ShelvesType ==
    ASSUME LogType
    PROVE  \A n \in 0..MaxLog : Shelves[n] \subseteq Seq(Reaction)
  <1> DEFINE N == {n \in 0..MaxLog : ~(Shelves[n] \subseteq Seq(Reaction))}
  <1> SUFFICES ASSUME N # {} PROVE FALSE
    OBVIOUS
  <1>1. N \in SUBSET Nat
    OBVIOUS
  <1>2. PICK n \in N : \A m \in N : n <= m
    BY <1>1, LeastNumber
  <1>3. n # 0
    <2>1. Shelves[0] = {<<>>} /\ <<>> \in Seq(Reaction)
      BY ShelvesDefined, EmptySeq
    <2>2. Shelves[0] \subseteq Seq(Reaction)
      BY <2>1
    <2> QED
      BY <1>2, <2>2
  <1>4. n \in 1..MaxLog /\ n - 1 \in 0..MaxLog /\ n - 1 \notin N
    BY <1>2, <1>3
  <1>5. Shelves[n - 1] \subseteq Seq(Reaction) /\ log[n] \in Reaction
    BY <1>4 DEF LogType
  <1>6. ASSUME NEW shelf \in Shelves[n] PROVE shelf \in Seq(Reaction)
    <2>1. PICK prev \in Shelves[n - 1] : shelf \in Upserted(prev, log[n])
      BY <1>4, ShelvesDefined
    <2> QED
      BY <1>5, <2>1, UpsertedIsTop
  <1> QED
    BY <1>2, <1>6

-----------------------------------------------------------------------------
(* What a message does to the table *)

LEMMA TopExists ==
    ASSUME NEW S \in SUBSET Reaction, IsFiniteSet(S)
    PROVE  \E T \in SUBSET S : Top(T, S)
  <1>1. PICK s \in SetToSeqs(S) : Ordered(s)
    BY SortExists
  <1>2. Top(Image(s, Least(Cardinality(S), MaxTop)), S)
    BY <1>1, FirstAreTop
  <1> QED
    BY <1>2 DEF Top

(* A shelf after a message holds the best of what it leaves to choose from.*)
LEMMA CleanKept ==
    ASSUME LogType, NEW table \in Tables, NEW n \in 1..MaxLog, Clean(table, n)
    PROVE  Kept(table, n)
  <1>1. PICK shelf \in Shelves[n] : IsShelf(table, shelf)
    BY DEF Clean
  <1>2. PICK prev \in Shelves[n - 1] : shelf \in Upserted(prev, log[n])
    BY ShelvesDefined
  <1>3. prev \in Seq(Reaction) /\ shelf \in Seq(Reaction) /\ log[n] \in Reaction
    <2>1. n \in 0..MaxLog /\ n - 1 \in 0..MaxLog
      OBVIOUS
    <2> QED
      BY <1>2, <2>1, ShelvesType DEF LogType
  <1>4. PICK T : /\ Top(T, After(prev, log[n]))
                 /\ T = {shelf[i] : i \in DOMAIN shelf}
    BY <1>2, <1>3, UpsertedIsTop
  <1>5. T = Pairs(table)
    BY <1>1, <1>3, <1>4, ShelfPairs
  <1> QED
    BY <1>4, <1>5 DEF Kept, Top

(* The first transaction: the post's row is written.                       *)
LEMMA UpsertKept ==
    ASSUME LogType, NEW table \in Tables, NEW u \in Tables, NEW n \in 1..MaxLog,
           Clean(table, n - 1) \/ Kept(table, n),
           Pairs(u) = {p \in Pairs(table) : p.post # log[n].post} \cup {log[n]}
    PROVE  Kept(u, n)
  <1> DEFINE r == log[n]
  <1>1. r \in Reaction /\ n \in 0..MaxLog /\ n - 1 \in 0..MaxLog
    BY DEF LogType
  <1>2. CASE Clean(table, n - 1)
    <2>1. PICK shelf \in Shelves[n - 1] : IsShelf(table, shelf)
      BY <1>2 DEF Clean
    <2>2. shelf \in Seq(Reaction)
      BY <1>1, ShelvesType
    <2>3. /\ \A m \in DOMAIN shelf : shelf[m] \in Pairs(table)
          /\ \A x \in Pairs(table) : \E m \in DOMAIN shelf : shelf[m] = x
      BY <2>1, <2>2, ShelfPairs
    <2>4. Pairs(u) = After(shelf, r)
      BY <2>3 DEF After
    <2>5. \E T \in SUBSET After(shelf, r) : Top(T, After(shelf, r))
      BY <1>1, <2>2, AfterFinite, TopExists
    <2> QED
      BY <2>4, <2>5 DEF Kept
  <1>3. CASE Kept(table, n)
    <2>1. PICK shelf \in Shelves[n - 1] :
            /\ Pairs(table) \subseteq After(shelf, r)
            /\ \E T \in SUBSET Pairs(table) : Top(T, After(shelf, r))
      BY <1>3 DEF Kept
    <2>2. \A p \in After(shelf, r) : p.post # r.post \/ p = r
      BY DEF After
    <2>3. Pairs(u) = Pairs(table) \cup {r} /\ r \in After(shelf, r)
      <3>1. r \in After(shelf, r)
        BY DEF After
      <3>2. \A p \in Pairs(table) : p.post # r.post \/ p = r
        BY <2>1, <2>2
      <3> QED
        BY <3>1, <3>2
    <2>4. Pairs(u) \subseteq After(shelf, r)
          /\ \E T \in SUBSET Pairs(u) : Top(T, After(shelf, r))
      BY <2>1, <2>3
    <2> QED
      BY <2>4 DEF Kept
  <1> QED
    BY <1>2, <1>3

(* A session has read the shelf as it is. *)
Listed(s, table) ==
    LET k == Cardinality(StoredIn(table)) IN
    /\ DOMAIN s = 1..k
    /\ \A n \in 1..k : s[n].id \in StoredIn(table) /\ s[n].rank = table[s[n].id].rank
    /\ \A i \in StoredIn(table) : \E n \in 1..k : s[n].id = i
    /\ \A m, n \in 1..k : m # n => s[m].id # s[n].id
    /\ \A m, n \in 1..k : m < n => table[s[m].id].score >= table[s[n].id].score

(* The second transaction: the best are numbered and the others are gone.  *)
Trimmed(s, table, u) ==
    LET k == Least(Cardinality(StoredIn(table)), MaxTop) IN
    /\ StoredIn(u) = {s[n].id : n \in 1..k}
    /\ \A n \in 1..k : u[s[n].id] = [post |-> table[s[n].id].post,
                                     score |-> table[s[n].id].score, rank |-> n]

LEMMA TrimClean ==
    ASSUME LogType, NEW table \in Tables, NEW u \in Tables, NEW n \in 1..MaxLog,
           OneRowEach(table), Kept(table, n), NEW s, Listed(s, table), Trimmed(s, table, u)
    PROVE  Clean(u, n)
  <1> DEFINE K == Cardinality(StoredIn(table))
             k == Least(K, MaxTop)
             P == Pairs(table)
             r == log[n]
             v == [m \in 1..K |-> Pair(table[s[m].id])]
  <1>1. r \in Reaction /\ n \in 0..MaxLog /\ n - 1 \in 0..MaxLog
    BY DEF LogType
  <1>2. PICK shelf \in Shelves[n - 1] :
          /\ P \subseteq After(shelf, r)
          /\ \E T \in SUBSET P : Top(T, After(shelf, r))
    BY DEF Kept
  <1> DEFINE S == After(shelf, r)
  <1>3. shelf \in Seq(Reaction) /\ S \in SUBSET Reaction /\ IsFiniteSet(S)
    BY <1>1, ShelvesType, AfterFinite
  <1>4. K \in Nat /\ IsFiniteSet(P) /\ P \in SUBSET Reaction /\ StoredIn(table) \in SUBSET Ids
    BY StoredFinite DEF StoredIn
  <1>5. k \in 0..K
    BY <1>4 DEF Least
  <1>6. /\ \A m \in 1..K : s[m].id \in StoredIn(table)
        /\ \A i \in StoredIn(table) : \E m \in 1..K : s[m].id = i
        /\ \A l, m \in 1..K : l # m => s[l].id # s[m].id
        /\ \A l, m \in 1..K : l < m => table[s[l].id].score >= table[s[m].id].score
    BY DEF Listed
  <1>7. /\ StoredIn(u) = {s[m].id : m \in 1..k}
        /\ \A m \in 1..k : u[s[m].id] = [post |-> table[s[m].id].post,
                                         score |-> table[s[m].id].score, rank |-> m]
    BY DEF Trimmed
  <1> HIDE DEF K, k, S
  <1>8. /\ v \in [1..K -> P] /\ Differ(v, K)
        /\ \A x \in P : \E m \in 1..K : v[m] = x
    <2>1. \A m \in 1..K : v[m] = Pair(table[s[m].id])
      OBVIOUS
    <2> HIDE DEF v
    <2>2. \A m \in 1..K : v[m] \in P
      BY <1>6, <2>1 DEF Pairs
    <2>3. v \in [1..K -> P]
      BY <2>2 DEF v
    <2>4. Differ(v, K)
      <3> SUFFICES ASSUME NEW l \in 1..K, NEW m \in 1..K, l # m
                   PROVE  v[l] # v[m]
        BY DEF Differ
      <3>1. table[s[l].id].post # table[s[m].id].post
        BY <1>6 DEF OneRowEach
      <3>2. v[l] = Pair(table[s[l].id]) /\ v[m] = Pair(table[s[m].id])
        BY <2>1
      <3>3. \A x : Pair(x).post = x.post
        BY DEF Pair
      <3> QED
        BY <3>1, <3>2, <3>3
    <2>5. ASSUME NEW x \in P PROVE \E m \in 1..K : v[m] = x
      <3>1. PICK i \in StoredIn(table) : x = Pair(table[i])
        BY DEF Pairs
      <3> QED
        BY <1>6, <2>1, <3>1
    <2> QED
      BY <2>3, <2>4, <2>5
  <1>9. Cardinality(P) = K /\ v \in SetToSeqs(P)
    BY <1>4, <1>8, ListCounts
  <1>10. \A m \in 1..K : v[m] = Pair(table[s[m].id]) /\ v[m] \in Reaction
    BY <1>4, <1>8
  <1>11. Ordered(v)
    BY <1>6, <1>8, <1>10 DEF Ordered, Pair
  <1> HIDE DEF v, P
  <1> DEFINE U == Image(v, k)
             f == First(v, k)
  <1>12. Top(U, P) /\ f \in SetToSeqs(U)
    BY <1>4, <1>9, <1>11, FirstAreTop DEF k
  <1>13. Top(U, S)
    BY <1>2, <1>3, <1>12, TopOfTop DEF S
  <1>14. Ordered(f)
    <2>1. DOMAIN f = 1..k /\ \A m \in 1..k : f[m] = v[m] /\ m \in DOMAIN v
      BY <1>4, <1>5, <1>8 DEF First
    <2> HIDE DEF f
    <2> QED
      BY <1>11, <2>1 DEF Ordered
  <1>15. PICK w \in SetToSeqs(S) :
           Ordered(w) /\ First(w, Least(Cardinality(S), MaxTop)) = f
    <2> HIDE DEF U, f
    <2> QED
      BY <1>3, <1>12, <1>13, <1>14, TopBegins
  <1>16. f \in Shelves[n]
    <2>1. f \in Upserted(shelf, r)
      BY <1>1, <1>3, <1>15, UpsertedAre DEF S
    <2> QED
      BY <1>2, <2>1, ShelvesDefined
  <1>17. IsShelf(u, f)
    <2>1. v \in [1..K -> Reaction]
      BY <1>4, <1>8
    <2>2. Len(f) = k /\ f \in Seq(Reaction) /\ DOMAIN f = 1..k
          /\ \A m \in 1..k : f[m] = v[m]
      BY <1>4, <1>5, <2>1, FirstTyped DEF First
    <2>3. Cardinality(StoredIn(u)) = k
      <3> DEFINE g == [m \in 1..k |-> s[m].id]
      <3>1. g \in [1..k -> StoredIn(u)] /\ \A x \in StoredIn(u) : \E m \in 1..k : g[m] = x
        BY <1>7
      <3>2. Differ(g, k)
        <4>1. \A m \in 1..k : m \in 1..K /\ g[m] = s[m].id
          BY <1>4, <1>5
        <4> HIDE DEF g
        <4> QED
          BY <1>6, <4>1 DEF Differ
      <3>3. k \in Nat
        BY <1>5
      <3> HIDE DEF g
      <3> QED
        BY <3>1, <3>2, <3>3, ListCounts
    <2>4. ASSUME NEW m \in 1..k
          PROVE  \E i \in Ids : u[i] = [post |-> f[m].post, score |-> f[m].score, rank |-> m]
      <3>1. m \in 1..K
        BY <1>4, <1>5
      <3>2. f[m] = Pair(table[s[m].id]) /\ s[m].id \in Ids
        BY <1>4, <1>6, <1>10, <2>2, <3>1
      <3>3. f[m].post = table[s[m].id].post /\ f[m].score = table[s[m].id].score
        BY <3>2 DEF Pair
      <3> QED
        BY <1>7, <3>2, <3>3
    <2> HIDE DEF f
    <2> QED
      BY <2>2, <2>3, <2>4 DEF IsShelf, StoredIn
  <1> QED
    BY <1>16, <1>17 DEF Clean

-----------------------------------------------------------------------------
(* Types *)

Labels == {"look", "upsert", "read", "trim"}
Late == {"upsert", "read", "trim"}

Found == [id: Ids, score: Scores, rank: 0..MaxTop]
Shown == [id: Ids, rank: 0..MaxTop]

(* A loop, and a session that has a row only once its lookup is made.      *)
Sessions ==
    /\ LoopInv(group, MaxLog, Labels)
    /\ own \in [Replicas -> Found \cup {None}]
    /\ seen \in [Replicas -> Seq(Shown)]
    /\ \A c \in Replicas : own[c] # None => group.pc[c] \in Late

Counted == faults \in Nat /\ moves \in Nat /\ faults + moves <= MaxTrouble

TypeInv == LogType /\ Sessions /\ rows \in Tables /\ profile \in BOOLEAN /\ Counted

LEMMA TypeInvImplies == TypeInv => TypeOK
  <1> SUFFICES ASSUME TypeInv PROVE TypeOK
    OBVIOUS
  <1>1. own \in [Replicas -> [id: Ids, score: Scores, rank: 0..MaxTop] \cup {None}]
    BY DEF TypeInv, Sessions, Found
  <1>2. \A c \in Replicas : seen[c] \in Seq([id: Ids, rank: 0..MaxTop])
    BY DEF TypeInv, Sessions, Shown
  <1>3. GroupTypeOK(group, MaxLog, {"look", "upsert", "read", "trim"})
    BY DEF TypeInv, Sessions, LoopInv, Labels
  <1> QED
    BY <1>1, <1>2, <1>3 DEF TypeInv, TypeOK, LogType, Tables, Counted

LEMMA LogIs ==
    ASSUME LogType
    PROVE  Len(log) = MaxLog /\ \A n \in 1..MaxLog : log[n] \in Reaction
  BY ListBegins DEF LogType

(* The message a replica handles. *)
LEMMA InHand ==
    ASSUME TypeInv, NEW c \in Replicas, Handling(group, c)
    PROVE  /\ group.at[c] \in 1..MaxLog /\ Message(c) \in Reaction
           /\ group \in Groups(MaxLog, Labels) /\ group.pc[c] \notin Idle
  <1>1. /\ group \in Groups(MaxLog, Labels) /\ Holds(group, MaxLog, c)
        /\ group.pc[c] \notin Idle
    BY DEF TypeInv, Sessions, LoopInv, GroupTypeOK, Handling, Idle
  <1> QED
    BY <1>1, LogIs DEF TypeInv, Holds, Message

LEMMA InitTypes == Init => TypeInv
  <1> SUFFICES ASSUME Init PROVE TypeInv
    OBVIOUS
  <1>1. LoopInv(group, MaxLog, Labels)
    BY SubscribedInv DEF Init
  <1>2. <<>> \in Seq(Shown)
    BY EmptySeq
  <1>3. Sessions
    BY <1>1, <1>2 DEF Init, Sessions
  <1>4. rows \in Tables
    BY DEF Init, Tables
  <1>5. Counted
    BY DEF Init, Counted
  <1>6. LogType /\ profile \in BOOLEAN
    BY DEF Init, LogType
  <1> QED
    BY <1>3, <1>4, <1>5, <1>6 DEF TypeInv

(* Only c's loop and session have changed. *)
LEMMA SessionsNext ==
    ASSUME Sessions, NEW c \in Replicas, LoopInv(group', MaxLog, Labels),
           Only(c, group, group'),
           own' \in [Replicas -> Found \cup {None}], seen' \in [Replicas -> Seq(Shown)],
           \A d \in Replicas \ {c} : own'[d] = own[d],
           own'[c] # None => group'.pc[c] \in Late
    PROVE  Sessions'
  BY DEF Sessions, Only

LEMMA ForgetTypes ==
    ASSUME Sessions, NEW c \in Replicas, Forget(c)
    PROVE  /\ own' \in [Replicas -> Found \cup {None}] /\ seen' \in [Replicas -> Seq(Shown)]
           /\ own'[c] = None /\ \A d \in Replicas \ {c} : own'[d] = own[d]
  <1>1. <<>> \in Seq(Shown)
    BY EmptySeq
  <1> QED
    BY <1>1 DEF Sessions, Forget

LEMMA RaisesSessions ==
    ASSUME Sessions, NEW c \in Replicas, Handling(group, c), Raises(c)
    PROVE  Sessions'
  <1>1. LoopInv(group', MaxLog, Labels) /\ Only(c, group, group')
    BY RaisedInv DEF Sessions, Raises
  <1> QED
    BY <1>1, ForgetTypes, SessionsNext DEF Raises

LEMMA HandledSessions ==
    ASSUME Sessions, NEW c \in Replicas, Handling(group, c),
           group' = Handled(group, c), Forget(c)
    PROVE  Sessions'
  <1>1. LoopInv(group', MaxLog, Labels) /\ Only(c, group, group')
    BY HandledInv DEF Sessions
  <1> QED
    BY <1>1, ForgetTypes, SessionsNext

LEMMA GoToSessions ==
    ASSUME Sessions, NEW c \in Replicas, Handling(group, c), NEW label \in Labels, GoTo(c, label),
           own' \in [Replicas -> Found \cup {None}], seen' \in [Replicas -> Seq(Shown)],
           \A d \in Replicas \ {c} : own'[d] = own[d],
           label \notin Late => own'[c] = None
    PROVE  Sessions'
  <1>1. label \notin Idle \cup {"commit"}
    BY DEF Labels, Idle
  <1>2. LoopInv(group', MaxLog, Labels) /\ Only(c, group, group') /\ group'.pc[c] = label
    <2>1. group' = GoesTo(group, c, label) /\ MaxLog \in Nat /\ LoopInv(group, MaxLog, Labels)
      BY DEF Sessions, GoTo
    <2>2. LoopInv(group', MaxLog, Labels) /\ Only(c, group, group')
      BY <1>1, <2>1, GoesToInv
    <2>3. group \in Groups(MaxLog, Labels)
      BY DEF Sessions, LoopInv, GroupTypeOK
    <2>4. group'.pc = [group.pc EXCEPT ![c] = label]
      BY <2>1, <2>3 DEF GoesTo, Groups
    <2> QED
      BY <2>2, <2>3, <2>4 DEF Groups
  <1> QED
    BY <1>2, SessionsNext

-----------------------------------------------------------------------------
(* What the steps of the loop and of the group do to the types *)

LEMMA LoopTypes ==
    ASSUME TypeInv, NEW c \in Replicas,
           LoopInv(group', MaxLog, Labels), Only(c, group, group'),
           group.pc[c] \notin Late, UNCHANGED <<log, session, tables>>, Counted'
    PROVE  TypeInv'
  <1>1. own[c] = None
    BY DEF TypeInv, Sessions
  <1>2. Sessions'
    BY <1>1, SessionsNext DEF TypeInv, Sessions, session
  <1> QED
    BY <1>2 DEF TypeInv, LogType, tables

LEMMA FetchTypes ==
    ASSUME TypeInv, NEW c \in Replicas, Fetch(c)
    PROVE  TypeInv'
  <1>1. CanFetch(group, c, MaxLog)
    BY LogIs DEF Fetch, TypeInv
  <1>2. LoopInv(group', MaxLog, Labels) /\ Only(c, group, group')
    BY <1>1, FetchedInv DEF Fetch, TypeInv, Sessions
  <1>3. group.pc[c] \notin Late
    BY DEF Fetch, CanFetch, Late
  <1> QED
    BY <1>2, <1>3, LoopTypes DEF Fetch, TypeInv, Counted

LEMMA CommitTypes ==
    ASSUME TypeInv, NEW c \in Replicas, Commit(c)
    PROVE  TypeInv'
  <1>1. LoopInv(group', MaxLog, Labels) /\ Only(c, group, group')
    BY CommittedInv DEF Commit, TypeInv, Sessions
  <1>2. group.pc[c] \notin Late
    BY DEF Commit, Late
  <1> QED
    BY <1>1, <1>2, LoopTypes DEF Commit, TypeInv, Counted

LEMMA FaultCounted ==
    ASSUME Counted, Fault, UNCHANGED moves
    PROVE  Counted'
  BY DEF Counted, Fault

LEMMA CommitRaisesTypes ==
    ASSUME TypeInv, NEW c \in Replicas, CommitRaises(c)
    PROVE  TypeInv'
  <1>1. LoopInv(group', MaxLog, Labels) /\ Only(c, group, group')
    <2>1. LoopInv(group, MaxLog, Labels) /\ group.pc[c] = "commit"
          /\ group' \in CommitRaised(group, c) /\ MaxLog \in Nat
      BY DEF CommitRaises, TypeInv, Sessions
    <2> QED
      BY <2>1, CommitRaisedInv
  <1>2. group.pc[c] \notin Late
    BY DEF CommitRaises, Late
  <1>3. Counted'
    BY FaultCounted DEF CommitRaises, TypeInv
  <1> QED
    BY <1>1, <1>2, <1>3, LoopTypes DEF CommitRaises

LEMMA HandlerFailsTypes ==
    ASSUME TypeInv, NEW c \in Replicas, HandlerFails(c)
    PROVE  TypeInv'
  <1>1. Sessions'
    BY RaisesSessions DEF HandlerFails, TypeInv
  <1>2. Counted'
    BY FaultCounted DEF HandlerFails, TypeInv
  <1> QED
    BY <1>1, <1>2 DEF HandlerFails, TypeInv, LogType, tables

LEMMA CrashTypes ==
    ASSUME TypeInv, NEW c \in Replicas, Crash(c)
    PROVE  TypeInv'
  <1>1. LoopInv(group', MaxLog, Labels) /\ Only(c, group, group')
    BY CrashedInv DEF Crash, TypeInv, Sessions
  <1>2. Sessions'
    BY <1>1, ForgetTypes, SessionsNext DEF Crash, TypeInv
  <1>3. Counted'
    BY FaultCounted DEF Crash, TypeInv
  <1> QED
    BY <1>2, <1>3 DEF Crash, TypeInv, LogType, tables

LEMMA AssignTypes ==
    ASSUME TypeInv, NEW c \in Replicas, Assign(c)
    PROVE  TypeInv'
  <1>1. LoopInv(group', MaxLog, Labels) /\ group'.pc = group.pc
    BY AssignedInv DEF Assign, TypeInv, Sessions
  <1>2. Sessions'
    BY <1>1 DEF Assign, TypeInv, Sessions, session
  <1>3. Counted'
    BY DEF Assign, TypeInv, Counted
  <1> QED
    BY <1>2, <1>3 DEF Assign, TypeInv, LogType, tables

-----------------------------------------------------------------------------
(* What the steps of the handler do to them *)

LEMMA AtHandles ==
    ASSUME NEW c \in Replicas, NEW label \in {"handle"} \cup Labels, At(c, label)
    PROVE  Handling(group, c)
  BY DEF At, Handling, Labels

LEMMA CreateIfMissingTypes ==
    ASSUME TypeInv, NEW c \in Replicas, CreateIfMissing(c)
    PROVE  TypeInv'
  <1>1. Handling(group, c)
    BY DEF CreateIfMissing, At, Handling
  <1>2. own[c] = None
    BY DEF CreateIfMissing, At, TypeInv, Sessions, Late
  <1>3. Sessions'
    BY <1>1, <1>2, GoToSessions DEF CreateIfMissing, TypeInv, Sessions, session, Labels
  <1> QED
    BY <1>3 DEF CreateIfMissing, TypeInv, LogType, Counted

(* The row a lookup has found. *)
LEMMA FoundTypes ==
    ASSUME TypeInv, NEW c \in Replicas, NEW i \in RowsOf(Message(c).post),
           own' = [own EXCEPT ![c] = [id |-> i, score |-> rows[i].score,
                                      rank |-> rows[i].rank]]
    PROVE  /\ own' \in [Replicas -> Found \cup {None}]
           /\ \A d \in Replicas \ {c} : own'[d] = own[d]
           /\ i \in Ids /\ rows[i] \in Row /\ rows[i] # None
           /\ own'[c] = [id |-> i, score |-> rows[i].score, rank |-> rows[i].rank]
           /\ own'[c] # None
  <1>1. i \in Ids /\ rows[i] \in Row /\ rows[i] # None
    BY DEF RowsOf, Stored, TypeInv, Tables
  <1>2. [id |-> i, score |-> rows[i].score, rank |-> rows[i].rank] \in Found
    BY <1>1 DEF Row, Found
  <1>3. \A x \in Found : x # None
    BY NoneIsNoRow DEF Found
  <1> QED
    BY <1>1, <1>2, <1>3 DEF TypeInv, Sessions

LEMMA LookTypes ==
    ASSUME TypeInv, NEW c \in Replicas, Look(c)
    PROVE  TypeInv'
  <1> DEFINE found == RowsOf(Message(c).post)
  <1> SUFFICES Sessions'
    BY DEF Look, TypeInv, LogType, Counted, tables
  <1>1. Handling(group, c)
    BY DEF Look, At, Handling
  <1>2. CASE found = {} /\ GoTo(c, "upsert") /\ UNCHANGED session
    BY <1>1, <1>2, GoToSessions DEF TypeInv, Sessions, session, Labels, Late
  <1>3. CASE \E i \in found :
               /\ found = {i}
               /\ own' = [own EXCEPT ![c] = [id |-> i, score |-> rows[i].score,
                                             rank |-> rows[i].rank]]
               /\ GoTo(c, "upsert") /\ UNCHANGED seen
    <2>1. PICK i \in found :
            /\ own' = [own EXCEPT ![c] = [id |-> i, score |-> rows[i].score,
                                          rank |-> rows[i].rank]]
            /\ GoTo(c, "upsert") /\ UNCHANGED seen
      BY <1>3
    <2>2. /\ own' \in [Replicas -> Found \cup {None}]
          /\ \A d \in Replicas \ {c} : own'[d] = own[d]
      BY <2>1, FoundTypes
    <2> QED
      BY <1>1, <2>1, <2>2, GoToSessions DEF TypeInv, Sessions, Labels, Late
  <1>4. CASE Raises(c)
    BY <1>1, <1>4, RaisesSessions DEF TypeInv
  <1> QED
    BY <1>2, <1>3, <1>4 DEF Look

LEMMA UpsertsTypes ==
    ASSUME TypeInv, NEW c \in Replicas, At(c, "upsert"), NEW row \in Found \cup {None},
           Upserts(c, row), UNCHANGED <<log, profile, moves>>, rows' \in Tables
    PROVE  TypeInv'
  <1>1. Handling(group, c)
    BY DEF At, Handling
  <1>2. CASE own' = [own EXCEPT ![c] = row] /\ GoTo(c, "read") /\ UNCHANGED <<seen, faults>>
    <2>1. /\ own' \in [Replicas -> Found \cup {None}]
          /\ \A d \in Replicas \ {c} : own'[d] = own[d]
      BY <1>2 DEF TypeInv, Sessions
    <2>2. Sessions'
      BY <1>1, <1>2, <2>1, GoToSessions DEF TypeInv, Sessions, Labels, Late
    <2> QED
      BY <1>2, <2>2 DEF TypeInv, LogType, Counted
  <1>3. CASE Fault /\ Raises(c)
    <2>1. Sessions' /\ Counted'
      BY <1>1, <1>3, RaisesSessions, FaultCounted DEF TypeInv
    <2> QED
      BY <2>1 DEF TypeInv, LogType
  <1> QED
    BY <1>2, <1>3 DEF Upserts

LEMMA InsertTypes ==
    ASSUME TypeInv, NEW c \in Replicas, Insert(c)
    PROVE  TypeInv'
  <1>1. Message(c) \in Reaction
    BY InHand DEF Insert, At, Handling
  <1>2. PICK i \in Ids : rows' = [rows EXCEPT ![i] = [post |-> Message(c).post,
                                                      score |-> Message(c).score, rank |-> 0]]
    BY DEF Insert
  <1>3. rows' \in Tables
    <2>1. [post |-> Message(c).post, score |-> Message(c).score, rank |-> 0] \in Row
      BY <1>1 DEF Reaction, Row
    <2> QED
      BY <1>2, <2>1 DEF TypeInv, Tables
  <1> QED
    BY <1>3, UpsertsTypes DEF Insert

LEMMA UpdateTypes ==
    ASSUME TypeInv, NEW c \in Replicas, Update(c)
    PROVE  TypeInv'
  <1> DEFINE i == own[c].id
             differs == own[c].score # Message(c).score
             row == [own[c] EXCEPT !.score = Message(c).score]
  <1>1. Message(c) \in Reaction /\ Handling(group, c)
    BY InHand DEF Update, At, Handling
  <1>2. own[c] \in Found /\ i \in Ids /\ row \in Found
    <2>1. own[c] \in Found
      BY DEF Update, TypeInv, Sessions
    <2> QED
      BY <1>1, <2>1 DEF Found, Reaction
  <1>3. CASE Raises(c) /\ UNCHANGED <<rows, faults>>
    <2>1. Sessions'
      BY <1>1, <1>3, RaisesSessions DEF TypeInv
    <2> QED
      BY <1>3, <2>1 DEF Update, TypeInv, LogType, Counted
  <1>4. CASE /\ differs => rows[i] # None
             /\ rows' = IF differs THEN [rows EXCEPT ![i].score = Message(c).score] ELSE rows
             /\ Upserts(c, row)
    <2>1. rows' \in Tables
      <3>1. rows[i] # None => [rows[i] EXCEPT !.score = Message(c).score] \in Row
        BY <1>1, <1>2 DEF TypeInv, Tables, Row, Reaction
      <3> QED
        BY <1>2, <1>4, <3>1 DEF TypeInv, Tables
    <2> QED
      BY <1>2, <1>4, <2>1, UpsertsTypes DEF Update
  <1> QED
    BY <1>3, <1>4 DEF Update

(* What a session has read of the shelf. *)
Sorted(c, s) == [n \in DOMAIN s |-> [id |-> s[n], rank |-> InMemory(c, s[n])]]

LEMMA SortedTypes ==
    ASSUME TypeInv, NEW c \in Replicas, NEW s \in ByScore(rows)
    PROVE  Sorted(c, s) \in Seq(Shown)
  <1> DEFINE k == Cardinality(StoredIn(rows))
  <1>1. s \in SetToSeqs(StoredIn(rows)) /\ k \in Nat /\ IsFiniteSet(StoredIn(rows))
    BY StoredFinite DEF ByScore, StoredIn, TypeInv
  <1>2. s \in [1..k -> StoredIn(rows)]
    BY <1>1, SeqsAre
  <1>3. ASSUME NEW i \in StoredIn(rows) PROVE InMemory(c, i) \in 0..MaxTop /\ i \in Ids
    <2>1. i \in Ids /\ rows[i].rank \in 0..MaxTop
      BY DEF StoredIn, TypeInv, Tables, Row
    <2>2. own[c] # None => own[c].rank \in 0..MaxTop
      BY DEF TypeInv, Sessions, Found
    <2> QED
      BY <2>1, <2>2 DEF InMemory
  <1> HIDE DEF k
  <1>4. Sorted(c, s) \in [1..k -> Shown]
    BY <1>2, <1>3 DEF Sorted, Shown
  <1> QED
    BY <1>1, <1>4, ListBegins DEF k

LEMMA ReadShelfTypes ==
    ASSUME TypeInv, NEW c \in Replicas, ReadShelf(c)
    PROVE  TypeInv'
  <1>1. PICK s \in ByScore(rows) : seen' = [seen EXCEPT ![c] = Sorted(c, s)]
    BY DEF ReadShelf, Sorted
  <1>2. Sorted(c, s) \in Seq(Shown)
    BY SortedTypes
  <1>3. Handling(group, c)
    BY DEF ReadShelf, At, Handling
  <1>4. Sessions'
    BY <1>1, <1>2, <1>3, GoToSessions DEF ReadShelf, TypeInv, Sessions, Labels, Late
  <1> QED
    BY <1>4 DEF ReadShelf, TypeInv, LogType, Counted, tables

LEMMA TrimTypes ==
    ASSUME TypeInv, NEW c \in Replicas, Trim(c)
    PROVE  TypeInv'
  <1> DEFINE s == seen[c]
             ranked == {n \in DOMAIN s : n <= MaxTop /\ s[n].rank # n}
             dropped == {s[n].id : n \in {m \in DOMAIN s : m > MaxTop}}
             RankOf(i) == CHOOSE n \in ranked : s[n].id = i
  <1>1. Handling(group, c)
    BY DEF Trim, At, Handling
  <1>2. UNCHANGED <<log, profile, moves>>
    BY DEF Trim
  <1>3. CASE Raises(c) /\ UNCHANGED <<rows, faults>>
    <2>1. Sessions'
      BY <1>1, <1>3, RaisesSessions DEF TypeInv
    <2> QED
      BY <1>2, <1>3, <2>1 DEF TypeInv, LogType, Counted
  <1>4. CASE /\ \A n \in ranked : rows[s[n].id] # None
             /\ rows' = [i \in Ids |->
                           CASE i \in dropped -> None
                             [] \E n \in ranked : s[n].id = i -> [rows[i] EXCEPT !.rank = RankOf(i)]
                             [] OTHER -> rows[i]]
             /\ \/ group' = Handled(group, c) /\ Forget(c) /\ UNCHANGED faults
                \/ Fault /\ Raises(c)
    <2>1. rows' \in Tables
      <3>1. ASSUME NEW i \in Ids, NEW n \in ranked, s[n].id = i
            PROVE  [rows[i] EXCEPT !.rank = RankOf(i)] \in Row
        <4>1. RankOf(i) \in ranked
          BY <3>1
        <4>2. RankOf(i) \in 0..MaxTop
          <5>1. Len(s) \in Nat /\ DOMAIN s = 1..Len(s)
            BY LenProperties DEF TypeInv, Sessions
          <5> HIDE DEF RankOf
          <5> QED
            BY <4>1, <5>1
        <4>3. rows[i] \in Row
          BY <1>4, <3>1 DEF TypeInv, Tables
        <4> HIDE DEF RankOf
        <4> QED
          BY <4>2, <4>3 DEF Row
      <3>2. ASSUME NEW i \in Ids PROVE rows'[i] \in Row \cup {None}
        <4> HIDE DEF RankOf, ranked, dropped
        <4>1. rows[i] \in Row \cup {None}
          BY DEF TypeInv, Tables
        <4>2. \/ rows'[i] = None
              \/ (\E n \in ranked : s[n].id = i) /\ rows'[i] = [rows[i] EXCEPT !.rank = RankOf(i)]
              \/ rows'[i] = rows[i]
          BY <1>4
        <4> QED
          BY <3>1, <4>1, <4>2
      <3>3. rows' = [i \in Ids |-> rows'[i]]
        BY <1>4
      <3> QED
        BY <3>2, <3>3 DEF Tables
    <2>2. CASE group' = Handled(group, c) /\ Forget(c) /\ UNCHANGED faults
      <3>1. Sessions'
        BY <1>1, <2>2, HandledSessions DEF TypeInv
      <3> QED
        BY <1>2, <2>1, <2>2, <3>1 DEF TypeInv, LogType, Counted
    <2>3. CASE Fault /\ Raises(c)
      <3>1. Sessions' /\ Counted'
        BY <1>1, <1>2, <2>3, RaisesSessions, FaultCounted DEF TypeInv
      <3> QED
        BY <1>2, <2>1, <3>1 DEF TypeInv, LogType
    <2> QED
      BY <1>4, <2>2, <2>3
  <1> QED
    BY <1>3, <1>4 DEF Trim

LEMMA NextTypes ==
    ASSUME TypeInv, [Next]_vars
    PROVE  TypeInv'
  <1>1. CASE UNCHANGED vars
    <2>1. Sessions'
      BY <1>1 DEF vars, session, TypeInv, Sessions
    <2> QED
      BY <1>1, <2>1 DEF vars, tables, TypeInv, LogType, Counted
  <1>2. CASE Next
    <2>1. PICK c \in Replicas :
            \/ Fetch(c) \/ Commit(c) \/ Handle(c)
            \/ HandlerFails(c) \/ CommitRaises(c) \/ Crash(c) \/ Assign(c)
      BY <1>2 DEF Next
    <2>2. CASE Handle(c)
      BY <2>2, CreateIfMissingTypes, LookTypes, InsertTypes, UpdateTypes,
         ReadShelfTypes, TrimTypes DEF Handle
    <2> QED
      BY <2>1, <2>2, FetchTypes, CommitTypes, HandlerFailsTypes, CommitRaisesTypes,
         CrashTypes, AssignTypes
  <1> QED
    BY <1>1, <1>2

(* Every variable has its type. *)
THEOREM TypeCorrect == Spec => []TypeOK
  <1>1. Spec => []TypeInv
    BY InitTypes, NextTypes, PTL DEF Spec
  <1> QED
    BY <1>1, TypeInvImplies, PTL

-----------------------------------------------------------------------------
(* One handler at a time *)

(* What the session of c knows of the table is so.                         *)
Working(c) ==
    /\ group.pc[c] = "upsert" /\ own[c] = None =>
          \A i \in StoredIn(rows) : rows[i].post # Message(c).post
    /\ own[c] # None =>
          /\ rows[own[c].id] # None /\ rows[own[c].id].rank = own[c].rank
          /\ group.pc[c] = "upsert" => /\ rows[own[c].id].post = Message(c).post
                                       /\ rows[own[c].id].score = own[c].score
    /\ group.pc[c] = "trim" => Listed(seen[c], rows)

Peace == Alone(group) /\ OneRowEach(rows) /\ \A c \in Replicas : Working(c)

Calm == moves = 0 => Peace

LEMMA InitCalm == Init => Calm
  <1> SUFFICES ASSUME Init PROVE Peace
    BY DEF Calm
  <1>1. \A c \in Replicas : group.pc[c] = "fetch" /\ own[c] = None
    BY DEF Init, Subscribed
  <1>2. StoredIn(rows) = {}
    BY DEF Init, StoredIn
  <1> QED
    BY <1>1, <1>2 DEF Peace, Alone, Idle, OneRowEach, Working

LEMMA NotLate ==
    ASSUME TypeInv', NEW c \in Replicas, group'.pc[c] \notin Late
    PROVE  Working(c)'
  <1>1. own'[c] = None
    BY DEF TypeInv, Sessions
  <1> QED
    BY <1>1 DEF Working, Late

LEMMA Unmoved ==
    ASSUME NEW c \in Replicas, Working(c), UNCHANGED <<log, rows>>,
           group'.pc[c] = group.pc[c], group'.at[c] = group.at[c],
           own'[c] = own[c], seen'[c] = seen[c]
    PROVE  Working(c)'
  BY DEF Working, Message

(* The loop or the group moves, and no handler. *)
LEMMA LoopCalm ==
    ASSUME TypeInv, TypeInv', Peace, UNCHANGED <<log, rows>>, Alone(group'),
           NEW c \in Replicas, Only(c, group, group'), group'.pc[c] \notin Late,
           \A d \in Replicas \ {c} : own'[d] = own[d] /\ seen'[d] = seen[d]
    PROVE  Peace'
  <1>1. Working(c)'
    BY NotLate
  <1>2. \A d \in Replicas \ {c} : Working(d)'
    BY Unmoved DEF Peace, Only
  <1>3. OneRowEach(rows')
    BY DEF Peace
  <1> QED
    BY <1>1, <1>2, <1>3 DEF Peace

(* While c is handling a message every other replica waits. *)
LEMMA OthersWait ==
    ASSUME Alone(group), NEW c \in Replicas, group.pc[c] \notin Idle,
           NEW d \in Replicas \ {c}
    PROVE  group.pc[d] \in Idle
  BY DEF Alone

(* The handler of c moves. *)
LEMMA HandlerCalm ==
    ASSUME TypeInv, TypeInv', Peace, NEW c \in Replicas, Handling(group, c),
           NEW label, Moved(c, group, group', label), OneRowEach(rows'), Working(c)'
    PROVE  Peace'
  <1>1. group \in Groups(MaxLog, Labels) /\ group.pc[c] \notin Idle
    BY InHand
  <1>2. Alone(group')
    BY <1>1, MovedAlone DEF Peace
  <1>3. ASSUME NEW d \in Replicas \ {c} PROVE Working(d)'
    <2>1. group'.pc[d] \in Idle
      BY <1>1, OthersWait DEF Peace, Moved, Groups
    <2>2. group'.pc[d] \notin Late
      BY <2>1 DEF Idle, Late
    <2> QED
      BY <2>2, NotLate
  <1> QED
    BY <1>2, <1>3 DEF Peace

LEMMA RaisesCalm ==
    ASSUME TypeInv, TypeInv', Peace, NEW c \in Replicas, Handling(group, c), Raises(c),
           OneRowEach(rows')
    PROVE  Peace'
  <1>1. group \in Groups(MaxLog, Labels)
    BY InHand
  <1>2. \/ Moved(c, group, group', "handle")
        \/ Moved(c, group, group', "commit")
    BY <1>1, RaisedMoved DEF Raises
  <1>3. group'.pc[c] \notin Late
    BY <1>1, <1>2 DEF Moved, Groups, Late
  <1>4. Working(c)'
    BY <1>3, NotLate
  <1> QED
    BY <1>2, <1>4, HandlerCalm

LEMMA GoToMoved ==
    ASSUME TypeInv, NEW c \in Replicas, Handling(group, c), NEW label, GoTo(c, label)
    PROVE  /\ Moved(c, group, group', label) /\ group'.givenUp = group.givenUp
           /\ group'.pc[c] = label /\ group'.at = group.at
  <1>1. group \in Groups(MaxLog, Labels)
    BY InHand
  <1>2. group' = GoesTo(group, c, label)
    BY DEF GoTo
  <1> QED
    BY <1>1, <1>2 DEF GoesTo, Groups, Moved

-----------------------------------------------------------------------------
(* What the handler does to the table *)

(* The row of a post is written, and it is the only one.                   *)
LEMMA WrittenRow ==
    ASSUME NEW table \in Tables, NEW u \in Tables, NEW r \in Reaction, NEW i \in Ids,
           OneRowEach(table), StoredIn(u) = StoredIn(table) \cup {i},
           \A j \in StoredIn(table) \ {i} : u[j] = table[j],
           Pair(u[i]) = r,
           \A j \in StoredIn(table) : table[j].post = r.post <=> j = i
    PROVE  /\ OneRowEach(u)
           /\ Pairs(u) = {p \in Pairs(table) : p.post # r.post} \cup {r}
  <1>1. u[i].post = r.post
    BY DEF Pair
  <1>2. OneRowEach(u)
    <2> SUFFICES ASSUME NEW j \in StoredIn(u), NEW k \in StoredIn(u), u[j].post = u[k].post
                 PROVE  j = k
      BY DEF OneRowEach
    <2>1. j # i => j \in StoredIn(table) /\ u[j] = table[j]
      OBVIOUS
    <2>2. k # i => k \in StoredIn(table) /\ u[k] = table[k]
      OBVIOUS
    <2> QED
      BY <1>1, <2>1, <2>2 DEF OneRowEach
  <1>3. \A x : Pair(x).post = x.post
    BY DEF Pair
  <1>4. ASSUME NEW p \in Pairs(u) PROVE p = r \/ (p \in Pairs(table) /\ p.post # r.post)
    <2>1. PICK j \in StoredIn(u) : p = Pair(u[j])
      BY DEF Pairs
    <2>2. CASE j = i
      BY <2>1, <2>2
    <2>3. CASE j # i
      <3>1. j \in StoredIn(table) /\ p = Pair(table[j]) /\ table[j].post # r.post
        BY <2>1, <2>3
      <3> QED
        BY <1>3, <3>1 DEF Pairs
    <2> QED
      BY <2>2, <2>3
  <1>5. r \in Pairs(u)
    BY DEF Pairs
  <1>6. ASSUME NEW p \in Pairs(table), p.post # r.post PROVE p \in Pairs(u)
    <2>1. PICK j \in StoredIn(table) : p = Pair(table[j])
      BY DEF Pairs
    <2>2. j # i /\ u[j] = table[j] /\ j \in StoredIn(u)
      BY <1>3, <1>6, <2>1
    <2> QED
      BY <2>1, <2>2 DEF Pairs
  <1> QED
    BY <1>2, <1>4, <1>5, <1>6

Written(c) ==
    /\ OneRowEach(rows')
    /\ Pairs(rows') = {p \in Pairs(rows) : p.post # Message(c).post} \cup {Message(c)}

LEMMA InsertWrites ==
    ASSUME TypeInv, TypeInv', NEW c \in Replicas, Insert(c), Working(c), OneRowEach(rows)
    PROVE  Written(c)
  <1> DEFINE r == Message(c)
  <1>1. r \in Reaction
    BY InHand DEF Insert, At, Handling
  <1>2. PICK i \in Ids : /\ rows[i] = None
                         /\ rows' = [rows EXCEPT ![i] = [post |-> r.post, score |-> r.score, rank |-> 0]]
    BY DEF Insert
  <1>3. rows \in Tables /\ rows' \in Tables
    BY DEF TypeInv
  <1>4. rows'[i] = [post |-> r.post, score |-> r.score, rank |-> 0]
        /\ \A j \in Ids \ {i} : rows'[j] = rows[j]
    BY <1>2, <1>3 DEF Tables
  <1>5. r.post \in Posts /\ r.score \in Scores /\ r = [post |-> r.post, score |-> r.score]
    BY <1>1 DEF Reaction
  <1> HIDE DEF r
  <1>6. i \in StoredIn(rows') /\ Pair(rows'[i]) = r
    <2>1. rows'[i] # None
      BY <1>4, <1>5, NoneIsNoRow
    <2> QED
      BY <1>4, <1>5, <2>1 DEF StoredIn, Pair
  <1>7. StoredIn(rows') = StoredIn(rows) \cup {i} /\ i \notin StoredIn(rows)
    BY <1>2, <1>4, <1>6 DEF StoredIn
  <1>8. \A j \in StoredIn(rows) : rows[j].post # r.post
    BY DEF Working, Insert, At, r
  <1>9. \A j \in StoredIn(rows) \ {i} : rows'[j] = rows[j]
    BY <1>4 DEF StoredIn
  <1>10. \A j \in StoredIn(rows) : rows[j].post = r.post <=> j = i
    BY <1>7, <1>8
  <1>11. /\ OneRowEach(rows')
         /\ Pairs(rows') = {p \in Pairs(rows) : p.post # r.post} \cup {r}
    BY <1>1, <1>3, <1>6, <1>7, <1>9, <1>10, WrittenRow DEF r
  <1> QED
    BY <1>11 DEF Written, r

LEMMA UpdateWrites ==
    ASSUME TypeInv, TypeInv', NEW c \in Replicas, At(c, "upsert"), own[c] # None,
           Working(c), OneRowEach(rows),
           rows' = IF own[c].score # Message(c).score
                   THEN [rows EXCEPT ![own[c].id].score = Message(c).score] ELSE rows
    PROVE  /\ Written(c)
           /\ rows'[own[c].id] # None /\ rows'[own[c].id].rank = own[c].rank
  <1> DEFINE r == Message(c)
             i == own[c].id
  <1>1. r \in Reaction
    BY InHand DEF At, Handling
  <1>2. i \in Ids /\ rows \in Tables /\ rows' \in Tables
    BY DEF TypeInv, Sessions, Found
  <1>3. /\ rows[i] # None /\ rows[i].rank = own[c].rank
        /\ rows[i].post = r.post /\ rows[i].score = own[c].score
    BY DEF Working, At
  <1>4. i \in StoredIn(rows) /\ rows[i] \in Row
    BY <1>2, <1>3 DEF StoredIn, Tables
  <1>5. /\ rows'[i].post = r.post /\ rows'[i].score = r.score /\ rows'[i].rank = own[c].rank
        /\ \A j \in Ids \ {i} : rows'[j] = rows[j]
    <2>1. CASE own[c].score # r.score
      <3>1. rows'[i] = [rows[i] EXCEPT !.score = r.score]
            /\ \A j \in Ids \ {i} : rows'[j] = rows[j]
        BY <1>2, <2>1 DEF Tables
      <3> QED
        BY <1>3, <1>4, <3>1 DEF Row
    <2>2. CASE own[c].score = r.score
      BY <1>3, <2>2
    <2> QED
      BY <2>1, <2>2
  <1>6. rows'[i] # None
    <2>1. CASE own[c].score # r.score
      <3>1. rows'[i] = [rows[i] EXCEPT !.score = r.score]
        BY <1>2, <2>1 DEF Tables
      <3>2. [rows[i] EXCEPT !.score = r.score] \in Row
        BY <1>1, <1>4 DEF Row, Reaction
      <3>3. \A x \in Row : x # None
        BY NoneIsNoRow DEF Row
      <3> QED
        BY <3>1, <3>2, <3>3
    <2>2. CASE own[c].score = r.score
      BY <1>3, <2>2
    <2> QED
      BY <2>1, <2>2
  <1>7. Pair(rows'[i]) = r
    BY <1>1, <1>5 DEF Pair, Reaction
  <1> HIDE DEF r, i
  <1>8. StoredIn(rows') = StoredIn(rows) \cup {i}
    BY <1>2, <1>4, <1>5, <1>6 DEF StoredIn
  <1>9. \A j \in StoredIn(rows) \ {i} : rows'[j] = rows[j]
    BY <1>5 DEF StoredIn
  <1>10. \A j \in StoredIn(rows) : rows[j].post = r.post <=> j = i
    BY <1>3, <1>4 DEF OneRowEach
  <1>11. /\ OneRowEach(rows')
         /\ Pairs(rows') = {p \in Pairs(rows) : p.post # r.post} \cup {r}
    <2>1. PICK u \in Tables : u = rows'
      BY <1>2
    <2>2. PICK k \in Ids : k = i
      BY <1>2
    <2>3. /\ StoredIn(u) = StoredIn(rows) \cup {k} /\ Pair(u[k]) = r
          /\ \A j \in StoredIn(rows) \ {k} : u[j] = rows[j]
          /\ \A j \in StoredIn(rows) : rows[j].post = r.post <=> j = k
      BY <1>7, <1>8, <1>9, <1>10, <2>1, <2>2
    <2>4. /\ OneRowEach(u)
          /\ Pairs(u) = {p \in Pairs(rows) : p.post # r.post} \cup {r}
      BY <1>1, <1>2, <2>3, WrittenRow
    <2> QED
      BY <2>1, <2>4
  <1> QED
    BY <1>5, <1>6, <1>11 DEF Written, r, i

(* The shelf is read as it is: the rank in memory is the row's.            *)
LEMMA ReadLists ==
    ASSUME TypeInv, NEW c \in Replicas, Working(c), NEW s \in ByScore(rows)
    PROVE  Listed(Sorted(c, s), rows)
  <1> DEFINE k == Cardinality(StoredIn(rows))
             v == Sorted(c, s)
  <1>1. /\ s \in SetToSeqs(StoredIn(rows)) /\ k \in Nat /\ IsFiniteSet(StoredIn(rows))
        /\ \A m, n \in DOMAIN s : m < n => rows[s[m]].score >= rows[s[n]].score
    BY StoredFinite DEF ByScore, StoredIn, TypeInv
  <1>2. /\ s \in [1..k -> StoredIn(rows)] /\ Differ(s, k)
        /\ \A i \in StoredIn(rows) : \E n \in 1..k : s[n] = i
    BY <1>1, SeqsAre
  <1> HIDE DEF k
  <1>3. DOMAIN v = 1..k /\ \A n \in 1..k : v[n].id = s[n] /\ v[n].rank = InMemory(c, s[n])
    BY <1>2 DEF Sorted
  <1>4. \A i \in Ids : InMemory(c, i) = rows[i].rank
    BY DEF InMemory, Working
  <1>5. \A n \in 1..k : v[n].id \in StoredIn(rows) /\ v[n].rank = rows[v[n].id].rank
    BY <1>2, <1>3, <1>4 DEF StoredIn
  <1> HIDE DEF v
  <1>6. /\ \A i \in StoredIn(rows) : \E n \in 1..k : v[n].id = i
        /\ \A m, n \in 1..k : m # n => v[m].id # v[n].id
        /\ \A m, n \in 1..k : m < n => rows[v[m].id].score >= rows[v[n].id].score
    BY <1>1, <1>2, <1>3 DEF Differ
  <1> QED
    BY <1>3, <1>5, <1>6 DEF Listed, k, v

Trims(c) ==
    LET s == seen[c]
        ranked == {n \in DOMAIN s : n <= MaxTop /\ s[n].rank # n}
        dropped == {s[n].id : n \in {m \in DOMAIN s : m > MaxTop}}
        RankOf(i) == CHOOSE n \in ranked : s[n].id = i
    IN  rows' = [i \in Ids |->
                   CASE i \in dropped -> None
                     [] \E n \in ranked : s[n].id = i -> [rows[i] EXCEPT !.rank = RankOf(i)]
                     [] OTHER -> rows[i]]

LEMMA TrimTrims ==
    ASSUME TypeInv, TypeInv', NEW c \in Replicas, Listed(seen[c], rows), Trims(c)
    PROVE  Trimmed(seen[c], rows, rows')
  <1> DEFINE s == seen[c]
             K == Cardinality(StoredIn(rows))
             k == Least(K, MaxTop)
             ranked == {n \in DOMAIN s : n <= MaxTop /\ s[n].rank # n}
             dropped == {s[n].id : n \in {m \in DOMAIN s : m > MaxTop}}
             RankOf(i) == CHOOSE n \in ranked : s[n].id = i
  <1>1. rows \in Tables /\ rows' \in Tables /\ K \in Nat
    BY StoredFinite DEF TypeInv
  <1>2. /\ DOMAIN s = 1..K
        /\ \A n \in 1..K : s[n].id \in StoredIn(rows) /\ s[n].rank = rows[s[n].id].rank
        /\ \A i \in StoredIn(rows) : \E n \in 1..K : s[n].id = i
        /\ \A m, n \in 1..K : m # n => s[m].id # s[n].id
    BY DEF Listed
  <1>3. \A i \in dropped : ~\E n \in ranked : s[n].id = i
    <2> SUFFICES ASSUME NEW m \in 1..K, m > MaxTop, NEW n \in 1..K, n <= MaxTop,
                        s[m].id = s[n].id
                 PROVE  FALSE
      BY <1>2
    <2>1. m # n
      OBVIOUS
    <2> QED
      BY <1>2, <2>1
  <1>4. /\ \A i \in dropped \cap Ids : rows'[i] = None
        /\ \A i \in Ids \ dropped :
             \/ (\E n \in ranked : s[n].id = i) /\ rows'[i] = [rows[i] EXCEPT !.rank = RankOf(i)]
             \/ ~(\E n \in ranked : s[n].id = i) /\ rows'[i] = rows[i]
    <2> HIDE DEF ranked, dropped, RankOf
    <2>1. rows' = [i \in Ids |->
                   CASE i \in dropped -> None
                     [] \E n \in ranked : s[n].id = i -> [rows[i] EXCEPT !.rank = RankOf(i)]
                     [] OTHER -> rows[i]]
      BY DEF Trims, ranked, dropped, RankOf
    <2>2. ASSUME NEW i \in Ids, i \in dropped PROVE rows'[i] = None
      BY <1>3, <2>1, <2>2
    <2>3. ASSUME NEW i \in Ids, i \notin dropped
          PROVE  \/ (\E n \in ranked : s[n].id = i) /\ rows'[i] = [rows[i] EXCEPT !.rank = RankOf(i)]
                 \/ ~(\E n \in ranked : s[n].id = i) /\ rows'[i] = rows[i]
      BY <2>1, <2>3
    <2> QED
      BY <2>2, <2>3
  <1>5. \A n \in 1..K : n \in 1..k \/ n > MaxTop
    BY <1>1 DEF Least
  <1>6. \A n \in 1..k : n \in 1..K /\ n <= MaxTop
    BY <1>1 DEF Least
  <1> HIDE DEF K, k
  <1>7. \A n \in 1..k : s[n].id \notin dropped
    <2> SUFFICES ASSUME NEW n \in 1..k, NEW m \in 1..K, m > MaxTop, s[n].id = s[m].id
                 PROVE  FALSE
      BY <1>2
    <2>1. n \in 1..K /\ n # m
      BY <1>6
    <2> QED
      BY <1>2, <2>1
  <1>8. ASSUME NEW n \in 1..k
        PROVE  rows'[s[n].id] = [post |-> rows[s[n].id].post,
                                 score |-> rows[s[n].id].score, rank |-> n]
    <2> DEFINE i == s[n].id
    <2>1. /\ n \in 1..K /\ n <= MaxTop /\ i \in StoredIn(rows) /\ s[n].rank = rows[i].rank
          /\ i \in Ids \ dropped
      BY <1>2, <1>6, <1>7 DEF StoredIn
    <2>2. /\ rows[i] \in Row
          /\ rows[i] = [post |-> rows[i].post, score |-> rows[i].score, rank |-> rows[i].rank]
      BY <1>1, <2>1, RowIs
    <2>3. CASE s[n].rank = n
      <3>1. ~\E m \in ranked : s[m].id = i
        BY <1>2, <2>1, <2>3
      <3>2. rows'[i] = rows[i]
        BY <1>4, <2>1, <3>1
      <3> QED
        BY <2>1, <2>2, <2>3, <3>2
    <2>4. CASE s[n].rank # n
      <3>1. n \in ranked
        BY <1>2, <2>1, <2>4
      <3>2. \A m \in ranked : s[m].id = i => m = n
        BY <1>2, <2>1
      <3> HIDE DEF ranked
      <3>3. RankOf(i) = n
        BY <3>1, <3>2
      <3>4. rows'[i] = [rows[i] EXCEPT !.rank = RankOf(i)]
        BY <1>4, <2>1, <3>1
      <3> HIDE DEF RankOf
      <3> QED
        BY <2>2, <3>3, <3>4 DEF Row
    <2> QED
      BY <2>3, <2>4
  <1>9. ASSUME NEW i \in StoredIn(rows') PROVE \E n \in 1..k : s[n].id = i
    <2>1. i \in Ids /\ rows'[i] # None
      BY DEF StoredIn
    <2>2. i \in Ids \ dropped
      BY <1>4, <2>1
    <2>3. i \in StoredIn(rows)
      <3>1. CASE \E n \in ranked : s[n].id = i
        BY <1>2, <3>1
      <3>2. CASE ~\E n \in ranked : s[n].id = i
        <4>1. rows'[i] = rows[i]
          BY <1>4, <2>2, <3>2
        <4> QED
          BY <2>1, <4>1 DEF StoredIn
      <3> QED
        BY <3>1, <3>2
    <2>4. PICK n \in 1..K : s[n].id = i
      BY <1>2, <2>3
    <2>5. ~(n > MaxTop)
      BY <1>2, <2>2, <2>4
    <2> QED
      BY <1>5, <2>4, <2>5
  <1>10. ASSUME NEW n \in 1..k PROVE s[n].id \in StoredIn(rows')
    <2>1. s[n].id \in StoredIn(rows) /\ s[n].id \in Ids
      BY <1>2, <1>6 DEF StoredIn
    <2>2. rows[s[n].id] \in Row
      BY <1>1, <2>1, RowIs
    <2>3. rows'[s[n].id] = [post |-> rows[s[n].id].post,
                            score |-> rows[s[n].id].score, rank |-> n]
      BY <1>8
    <2>4. rows'[s[n].id] \in [post: Posts, score: Scores, rank: Nat]
      BY <2>2, <2>3 DEF Row
    <2> QED
      BY <2>1, <2>4, NoneIsNoRow DEF StoredIn
  <1>11. StoredIn(rows') = {s[n].id : n \in 1..k}
    BY <1>9, <1>10
  <1> QED
    BY <1>8, <1>11 DEF Trimmed, k, K

LEMMA TrimmedOneRow ==
    ASSUME NEW table, NEW u, NEW s, Listed(s, table), Trimmed(s, table, u),
           table \in Tables, OneRowEach(table)
    PROVE  OneRowEach(u)
  <1> DEFINE K == Cardinality(StoredIn(table))
             k == Least(K, MaxTop)
  <1>1. K \in Nat
    BY StoredFinite
  <1>2. \A n \in 1..k : n \in 1..K
    BY <1>1 DEF Least
  <1>3. \A n \in 1..K : s[n].id \in StoredIn(table)
    BY DEF Listed
  <1>4. /\ StoredIn(u) = {s[n].id : n \in 1..k}
        /\ \A n \in 1..k : u[s[n].id] = [post |-> table[s[n].id].post,
                                         score |-> table[s[n].id].score, rank |-> n]
    BY DEF Trimmed
  <1> HIDE DEF k, K
  <1>5. \A i \in StoredIn(u) : i \in StoredIn(table) /\ u[i].post = table[i].post
    <2> TAKE i \in StoredIn(u)
    <2>1. PICK n \in 1..k : i = s[n].id
      BY <1>4
    <2>2. i \in StoredIn(table)
      BY <1>2, <1>3, <2>1
    <2>3. u[i] = [post |-> table[i].post, score |-> table[i].score, rank |-> n]
      BY <1>4, <2>1
    <2> QED
      BY <2>2, <2>3
  <1> QED
    BY <1>5 DEF OneRowEach

-----------------------------------------------------------------------------
(* Every step keeps the peace *)

LEMMA FetchCalm ==
    ASSUME TypeInv, TypeInv', Peace, NEW c \in Replicas, Fetch(c)
    PROVE  Peace'
  <1>1. CanFetch(group, c, MaxLog) /\ group' = Fetched(group, c)
    BY LogIs DEF Fetch, TypeInv
  <1>2. group \in Groups(MaxLog, Labels) /\ LoopInv(group, MaxLog, Labels)
    BY DEF TypeInv, Sessions, LoopInv, GroupTypeOK
  <1>3. Alone(group') /\ group'.pc = [group.pc EXCEPT ![c] = "handle"]
    BY <1>1, <1>2, FetchedAlone DEF Peace
  <1>4. Only(c, group, group')
    BY <1>1, <1>2, FetchedInv
  <1>5. group'.pc[c] \notin Late
    BY <1>2, <1>3 DEF Groups, Late
  <1> QED
    BY <1>3, <1>4, <1>5, LoopCalm DEF Fetch, session, tables

LEMMA EndsCalm ==
    ASSUME TypeInv, TypeInv', Peace, NEW c \in Replicas, NEW label \in Idle,
           Ends(c, group, group', label), Only(c, group, group'),
           UNCHANGED <<log, rows>>,
           \A d \in Replicas \ {c} : own'[d] = own[d] /\ seen'[d] = seen[d]
    PROVE  Peace'
  <1>1. group \in Groups(MaxLog, Labels)
    BY DEF TypeInv, Sessions, LoopInv, GroupTypeOK
  <1>2. Alone(group')
    BY <1>1, EndsAlone DEF Peace
  <1>3. group'.pc[c] \notin Late
    BY <1>1 DEF Ends, Groups, Late, Idle
  <1> QED
    BY <1>2, <1>3, LoopCalm

LEMMA CommitCalm ==
    ASSUME TypeInv, TypeInv', Peace, NEW c \in Replicas, Commit(c)
    PROVE  Peace'
  <1>1. LoopInv(group, MaxLog, Labels) /\ group.pc[c] = "commit" /\ group' = Committed(group, c)
    BY DEF Commit, TypeInv, Sessions
  <1>2. Only(c, group, group') /\ Ends(c, group, group', "fetch")
    BY <1>1, CommittedInv, CommittedEnds
  <1> QED
    BY <1>2, EndsCalm DEF Commit, session, tables, Idle

LEMMA CommitRaisesCalm ==
    ASSUME TypeInv, TypeInv', Peace, NEW c \in Replicas, CommitRaises(c)
    PROVE  Peace'
  <1>1. LoopInv(group, MaxLog, Labels) /\ group.pc[c] = "commit"
        /\ group' \in CommitRaised(group, c) /\ MaxLog \in Nat
    BY DEF CommitRaises, TypeInv, Sessions
  <1>2. Only(c, group, group') /\ Ends(c, group, group', "dead")
    BY <1>1, CommitRaisedInv, CommitRaisedEnds
  <1> QED
    BY <1>2, EndsCalm DEF CommitRaises, session, tables, Idle

LEMMA CrashCalm ==
    ASSUME TypeInv, TypeInv', Peace, NEW c \in Replicas, Crash(c)
    PROVE  Peace'
  <1>1. LoopInv(group, MaxLog, Labels) /\ group \in Groups(MaxLog, Labels)
        /\ group' = Crashed(group, c)
    BY DEF Crash, TypeInv, Sessions, LoopInv, GroupTypeOK
  <1>2. Only(c, group, group')
    BY <1>1, CrashedInv
  <1>3. Ends(c, group, group', "fetch")
    BY <1>1, GoneFields DEF Crashed, Idle
  <1>4. \A d \in Replicas \ {c} : own'[d] = own[d] /\ seen'[d] = seen[d]
    BY DEF Crash, Forget, TypeInv, Sessions
  <1> QED
    BY <1>2, <1>3, <1>4, EndsCalm DEF Crash, tables, Idle

LEMMA AssignCalm ==
    ASSUME TypeInv, TypeInv', Peace, NEW c \in Replicas, Assign(c), group.member = None
    PROVE  Peace'
  <1>1. group \in Groups(MaxLog, Labels) /\ group' = Assigned(group, c)
    BY DEF Assign, TypeInv, Sessions, LoopInv, GroupTypeOK
  <1>2. Alone(group') /\ group'.pc = group.pc /\ group'.at = group.at
    BY <1>1, AssignedAlone DEF Peace
  <1>3. \A d \in Replicas : Working(d)'
    BY <1>2, Unmoved DEF Peace, Assign, session, tables
  <1> QED
    BY <1>2, <1>3 DEF Peace, Assign, tables

LEMMA HandlerFailsCalm ==
    ASSUME TypeInv, TypeInv', Peace, NEW c \in Replicas, HandlerFails(c)
    PROVE  Peace'
  BY RaisesCalm DEF HandlerFails, tables, Peace

LEMMA CreateIfMissingCalm ==
    ASSUME TypeInv, TypeInv', Peace, NEW c \in Replicas, CreateIfMissing(c)
    PROVE  Peace'
  <1>1. Handling(group, c) /\ GoTo(c, "look") /\ OneRowEach(rows')
    BY DEF CreateIfMissing, At, Handling, Peace
  <1>2. Moved(c, group, group', "look") /\ group'.pc[c] = "look"
    BY <1>1, GoToMoved
  <1>3. Working(c)'
    BY <1>2, NotLate DEF Late
  <1> QED
    BY <1>1, <1>2, <1>3, HandlerCalm

LEMMA LookCalm ==
    ASSUME TypeInv, TypeInv', Peace, NEW c \in Replicas, Look(c)
    PROVE  Peace'
  <1> DEFINE found == RowsOf(Message(c).post)
  <1>1. Handling(group, c) /\ UNCHANGED <<log, rows>> /\ OneRowEach(rows')
    BY DEF Look, At, Handling, tables, Peace
  <1>2. ASSUME GoTo(c, "upsert"), Working(c)'
        PROVE  Peace'
    <2>1. Moved(c, group, group', "upsert")
      BY <1>1, <1>2, GoToMoved
    <2> QED
      BY <1>1, <1>2, <2>1, HandlerCalm
  <1>3. CASE found = {} /\ GoTo(c, "upsert") /\ UNCHANGED session
    <2>1. own'[c] = None
      BY <1>3 DEF Look, At, TypeInv, Sessions, Late, session
    <2>2. group'.pc[c] = "upsert" /\ group'.at = group.at
      BY <1>1, <1>3, GoToMoved
    <2>3. \A i \in StoredIn(rows) : rows[i].post # Message(c).post
      BY <1>3 DEF RowsOf, Stored, StoredIn
    <2>4. Working(c)'
      BY <1>1, <2>1, <2>2, <2>3 DEF Working, Message
    <2> QED
      BY <1>2, <1>3, <2>4
  <1>4. CASE \E i \in found :
               /\ found = {i}
               /\ own' = [own EXCEPT ![c] = [id |-> i, score |-> rows[i].score,
                                             rank |-> rows[i].rank]]
               /\ GoTo(c, "upsert") /\ UNCHANGED seen
    <2>1. PICK i \in found :
            /\ own' = [own EXCEPT ![c] = [id |-> i, score |-> rows[i].score,
                                          rank |-> rows[i].rank]]
            /\ GoTo(c, "upsert") /\ UNCHANGED seen
      BY <1>4
    <2>2. /\ rows[i] # None /\ own'[c] # None
          /\ own'[c] = [id |-> i, score |-> rows[i].score, rank |-> rows[i].rank]
      BY <2>1, FoundTypes
    <2>3. rows[i].post = Message(c).post
      BY DEF RowsOf
    <2>4. group'.pc[c] = "upsert" /\ group'.at = group.at
      BY <1>1, <2>1, GoToMoved
    <2>5. own'[c].id = i /\ own'[c].score = rows[i].score /\ own'[c].rank = rows[i].rank
      BY <2>2
    <2>6. Working(c)'
      BY <1>1, <2>2, <2>3, <2>4, <2>5 DEF Working, Message
    <2> QED
      BY <1>2, <2>1, <2>6
  <1>5. CASE Raises(c)
    BY <1>1, <1>5, RaisesCalm
  <1> QED
    BY <1>3, <1>4, <1>5 DEF Look

LEMMA UpsertsCalm ==
    ASSUME TypeInv, TypeInv', Peace, NEW c \in Replicas, At(c, "upsert"),
           NEW row, Upserts(c, row), OneRowEach(rows'),
           row # None => rows'[row.id] # None /\ rows'[row.id].rank = row.rank
    PROVE  Peace'
  <1>1. Handling(group, c)
    BY DEF At, Handling
  <1>2. CASE own' = [own EXCEPT ![c] = row] /\ GoTo(c, "read")
    <2>1. own'[c] = row
      BY <1>2 DEF TypeInv, Sessions
    <2>2. Moved(c, group, group', "read") /\ group'.pc[c] = "read"
      BY <1>1, <1>2, GoToMoved
    <2>3. Working(c)'
      BY <2>1, <2>2 DEF Working
    <2> QED
      BY <1>1, <2>2, <2>3, HandlerCalm
  <1>3. CASE Raises(c)
    BY <1>1, <1>3, RaisesCalm
  <1> QED
    BY <1>2, <1>3 DEF Upserts

LEMMA InsertCalm ==
    ASSUME TypeInv, TypeInv', Peace, NEW c \in Replicas, Insert(c)
    PROVE  Peace'
  <1>1. OneRowEach(rows')
    BY InsertWrites DEF Written, Peace
  <1>2. At(c, "upsert") /\ Upserts(c, None)
    BY DEF Insert
  <1> QED
    BY <1>1, <1>2, UpsertsCalm

LEMMA UpdateCalm ==
    ASSUME TypeInv, TypeInv', Peace, NEW c \in Replicas, Update(c)
    PROVE  Peace'
  <1> DEFINE row == [own[c] EXCEPT !.score = Message(c).score]
  <1>1. At(c, "upsert") /\ own[c] # None /\ Handling(group, c)
    BY DEF Update, At, Handling
  <1>2. CASE Raises(c) /\ UNCHANGED rows
    BY <1>1, <1>2, RaisesCalm DEF Peace
  <1>3. CASE /\ rows' = IF own[c].score # Message(c).score
                        THEN [rows EXCEPT ![own[c].id].score = Message(c).score] ELSE rows
             /\ Upserts(c, row)
    <2>1. /\ OneRowEach(rows')
          /\ rows'[own[c].id] # None /\ rows'[own[c].id].rank = own[c].rank
      BY <1>1, <1>3, UpdateWrites DEF Written, Peace
    <2>2. row.id = own[c].id /\ row.rank = own[c].rank
      BY <1>1 DEF TypeInv, Sessions, Found
    <2> HIDE DEF row
    <2> QED
      BY <1>1, <1>3, <2>1, <2>2, UpsertsCalm
  <1> QED
    BY <1>2, <1>3 DEF Update

LEMMA ReadShelfCalm ==
    ASSUME TypeInv, TypeInv', Peace, NEW c \in Replicas, ReadShelf(c)
    PROVE  Peace'
  <1>1. PICK s \in ByScore(rows) : seen' = [seen EXCEPT ![c] = Sorted(c, s)]
    BY DEF ReadShelf, Sorted
  <1>2. /\ Handling(group, c) /\ GoTo(c, "trim") /\ UNCHANGED <<log, rows, own>>
        /\ OneRowEach(rows')
    BY DEF ReadShelf, At, Handling, tables, Peace
  <1>3. Listed(Sorted(c, s), rows)
    BY ReadLists DEF Peace
  <1>4. seen'[c] = Sorted(c, s)
    BY <1>1 DEF TypeInv, Sessions
  <1>5. Moved(c, group, group', "trim") /\ group'.pc[c] = "trim"
    BY <1>2, GoToMoved
  <1>6. Listed(seen'[c], rows')
    BY <1>2, <1>3, <1>4
  <1>7. Working(c)'
    BY <1>2, <1>5, <1>6 DEF Working, Peace
  <1> QED
    BY <1>2, <1>5, <1>7, HandlerCalm

LEMMA TrimCalm ==
    ASSUME TypeInv, TypeInv', Peace, NEW c \in Replicas, Trim(c)
    PROVE  Peace'
  <1>1. Handling(group, c) /\ Listed(seen[c], rows)
    BY DEF Trim, At, Handling, Peace, Working
  <1>2. CASE Raises(c) /\ UNCHANGED rows
    BY <1>1, <1>2, RaisesCalm DEF Peace
  <1>3. CASE Trims(c) /\ (Raises(c) \/ (group' = Handled(group, c) /\ Forget(c)))
    <2>1. OneRowEach(rows')
      BY <1>1, <1>3, TrimTrims, TrimmedOneRow DEF TypeInv, Peace
    <2>2. CASE Raises(c)
      BY <1>1, <2>1, <2>2, RaisesCalm
    <2>3. CASE group' = Handled(group, c) /\ Forget(c)
      <3>1. Moved(c, group, group', "commit") /\ group \in Groups(MaxLog, Labels)
        BY <1>1, <2>3, InHand, HandledMoved
      <3>2. group'.pc[c] \notin Late
        BY <3>1 DEF Moved, Groups, Late
      <3>3. Working(c)'
        BY <3>2, NotLate
      <3> QED
        BY <1>1, <2>1, <3>1, <3>3, HandlerCalm
    <2> QED
      BY <1>3, <2>2, <2>3
  <1> QED
    BY <1>2, <1>3 DEF Trim, Trims

LEMMA NextCalm ==
    ASSUME TypeInv, TypeInv', Calm, [Next]_vars
    PROVE  Calm'
  <1> SUFFICES ASSUME moves' = 0 PROVE Peace'
    BY DEF Calm
  <1>1. CASE UNCHANGED vars
    <2>1. Peace
      BY <1>1 DEF Calm, vars
    <2>2. \A c \in Replicas : Working(c)'
      BY <1>1, <2>1, Unmoved DEF vars, session, tables, Peace
    <2> QED
      BY <1>1, <2>1, <2>2 DEF Peace, vars, tables
  <1>2. CASE Next
    <2>1. PICK c \in Replicas :
            \/ Fetch(c) \/ Commit(c) \/ Handle(c)
            \/ HandlerFails(c) \/ CommitRaises(c) \/ Crash(c) \/ Assign(c)
      BY <1>2 DEF Next
    <2>2. CASE Assign(c)
      <3>1. moves = 0 /\ group.member = None
        BY <2>2 DEF Assign, TypeInv, Counted
      <3> QED
        BY <2>2, <3>1, AssignCalm DEF Calm
    <2>3. CASE Handle(c)
      <3>1. Peace
        BY <2>3 DEF Handle, CreateIfMissing, Look, Insert, Update, ReadShelf, Trim, Calm
      <3> QED
        BY <2>3, <3>1, CreateIfMissingCalm, LookCalm, InsertCalm, UpdateCalm,
           ReadShelfCalm, TrimCalm DEF Handle
    <2>4. CASE Fetch(c) \/ Commit(c) \/ HandlerFails(c) \/ CommitRaises(c) \/ Crash(c)
      <3>1. Peace
        BY <2>4 DEF Fetch, Commit, HandlerFails, CommitRaises, Crash, Calm
      <3> QED
        BY <2>4, <3>1, FetchCalm, CommitCalm, HandlerFailsCalm, CommitRaisesCalm, CrashCalm
    <2> QED
      BY <2>1, <2>2, <2>3, <2>4
  <1> QED
    BY <1>1, <1>2

LEMMA CalmAlways == Spec => [](TypeInv /\ Calm)
  <1>1. Init => TypeInv /\ Calm
    BY InitTypes, InitCalm
  <1>2. TypeInv /\ Calm /\ [Next]_vars => (TypeInv /\ Calm)'
    BY NextTypes, NextCalm
  <1> QED
    BY <1>1, <1>2, PTL DEF Spec

(* Until a rebalance takes the partition from a live replica, a post is on *)
(* the shelf once: through retries, crashes between the two commits and    *)
(* redelivery.                                                             *)
THEOREM OncePerPost == Spec => []OnceOnShelf
  <1>1. Calm => OnceOnShelf
    <2> SUFFICES ASSUME Peace, NEW post \in Posts PROVE Cardinality(RowsOf(post)) <= 1
      BY DEF Calm, OnceOnShelf
    <2>1. \A i, j \in RowsOf(post) : i = j
      BY DEF Peace, OneRowEach, RowsOf, Stored, StoredIn
    <2>2. CASE RowsOf(post) = {}
      BY <2>2, FS_EmptySet
    <2>3. CASE RowsOf(post) # {}
      <3>1. PICK i \in RowsOf(post) : RowsOf(post) = {i}
        BY <2>1, <2>3
      <3> QED
        BY <3>1, FS_Singleton
    <2> QED
      BY <2>2, <2>3
  <1> QED
    BY <1>1, CalmAlways, PTL

-----------------------------------------------------------------------------
(* The shelf follows the aggregate *)

LEMMA ShelvesStay == log' = log => Shelves' = Shelves
  BY DEF Shelves, Upserted

(* Between two commits the table is the shelf before the next message, or  *)
(* keeps what that message leaves to choose from; it keeps it once the     *)
(* first transaction of a handler is over, and is the shelf after the      *)
(* message when both are.                                                  *)
Onward ==
    /\ \/ Clean(rows, group.offset)
       \/ group.offset < MaxLog /\ Kept(rows, group.offset + 1)
    /\ \A c \in Replicas :
          /\ group.pc[c] \in {"read", "trim"} => Kept(rows, group.at[c])
          /\ group.pc[c] = "commit" => Clean(rows, group.at[c])

Progress == moves = 0 /\ group.givenUp = {} => Onward

LEMMA OnwardNext ==
    ASSUME UNCHANGED log,
           \/ Clean(rows', group'.offset)
           \/ group'.offset < MaxLog /\ Kept(rows', group'.offset + 1),
           \A c \in Replicas :
              /\ group'.pc[c] \in {"read", "trim"} => Kept(rows', group'.at[c])
              /\ group'.pc[c] = "commit" => Clean(rows', group'.at[c])
    PROVE  Onward'
  <1>1. Shelves' = Shelves
    BY ShelvesStay
  <1>2. \A c \in Replicas :
          /\ group'.pc[c] \in {"read", "trim"} => Kept(rows, group.at[c])'
          /\ group'.pc[c] = "commit" => Clean(rows, group.at[c])'
    BY <1>1 DEF Clean, Kept
  <1>3. \/ Clean(rows, group.offset)'
        \/ group'.offset < MaxLog /\ Kept(rows, group.offset + 1)'
    BY <1>1 DEF Clean, Kept
  <1> QED
    BY <1>2, <1>3 DEF Onward

LEMMA InitProgress == Init => Progress
  <1> SUFFICES ASSUME Init PROVE Onward
    BY DEF Progress
  <1>1. group.offset = 0 /\ \A c \in Replicas : group.pc[c] = "fetch"
    BY DEF Init, Subscribed
  <1>2. <<>> \in Shelves[0]
    BY ShelvesDefined
  <1>3. IsShelf(rows, <<>>)
    <2>1. {i \in Ids : rows[i] # None} = {} /\ Len(<<>>) = 0 /\ DOMAIN <<>> = {}
      BY DEF Init
    <2> QED
      BY <2>1, FS_EmptySet DEF IsShelf
  <1> QED
    BY <1>1, <1>2, <1>3 DEF Onward, Clean

(* The replica that handles a message handles the next one.                *)
LEMMA InTurn ==
    ASSUME TypeInv, Peace, NEW c \in Replicas, group.pc[c] \notin Idle
    PROVE  /\ group.at[c] = group.offset + 1 /\ group.offset \in Nat
           /\ group.offset < MaxLog /\ group.offset + 1 \in 1..MaxLog
           /\ Position(group, c) = group.offset + 1
           /\ group \in Groups(MaxLog, Labels)
  <1>1. Holds(group, MaxLog, c) /\ group \in Groups(MaxLog, Labels) /\ group.mine[c]
    BY DEF TypeInv, Sessions, LoopInv, GroupTypeOK, Peace, Alone
  <1>2. group.offset \in Nat
    BY <1>1 DEF Groups
  <1> QED
    BY <1>1, <1>2 DEF Holds, Position

LEMMA HandlerOnward ==
    ASSUME TypeInv, Peace, Onward, NEW c \in Replicas, Handling(group, c), UNCHANGED log,
           NEW label, Moved(c, group, group', label),
           Clean(rows', group.offset) \/ Kept(rows', group.offset + 1),
           label \in {"read", "trim"} => Kept(rows', group.offset + 1),
           label = "commit" => Clean(rows', group.offset + 1)
    PROVE  Onward'
  <1>1. group.pc[c] \notin Idle
    BY InHand
  <1>2. group.at[c] = group.offset + 1 /\ group.offset < MaxLog
        /\ group \in Groups(MaxLog, Labels)
    BY <1>1, InTurn
  <1>3. /\ group'.pc[c] = label /\ group'.at = group.at /\ group'.offset = group.offset
        /\ \A d \in Replicas \ {c} : group'.pc[d] = group.pc[d]
    BY <1>2 DEF Moved, Groups
  <1>4. \A d \in Replicas \ {c} : group'.pc[d] \notin {"read", "trim", "commit"}
    <2>1. \A d \in Replicas \ {c} : group.pc[d] \in Idle
      BY <1>1, OthersWait DEF Peace
    <2> QED
      BY <1>3, <2>1 DEF Idle
  <1>5. \A d \in Replicas :
          /\ group'.pc[d] \in {"read", "trim"} => Kept(rows', group'.at[d])
          /\ group'.pc[d] = "commit" => Clean(rows', group'.at[d])
    BY <1>2, <1>3, <1>4
  <1> QED
    BY <1>2, <1>3, <1>5, OnwardNext

LEMMA RaisesOnward ==
    ASSUME TypeInv, Peace, Onward, NEW c \in Replicas, Handling(group, c), UNCHANGED log,
           Raises(c), group'.givenUp = {},
           Clean(rows', group.offset) \/ Kept(rows', group.offset + 1)
    PROVE  Onward'
  <1>1. group \in Groups(MaxLog, Labels)
    BY InHand
  <1>2. \/ Moved(c, group, group', "handle")
        \/ group'.givenUp = group.givenUp \cup {group.at[c]}
    BY <1>1, RaisedMoved DEF Raises
  <1>3. Moved(c, group, group', "handle")
    BY <1>2
  <1> QED
    BY <1>3, HandlerOnward

(* The table does not change, and the loops do: the offset moves only over *)
(* a message whose shelf is on the table.                                  *)
LEMMA EndsOnward ==
    ASSUME TypeInv, Peace, Onward, NEW c \in Replicas, NEW label \in Idle,
           Ends(c, group, group', label), UNCHANGED <<log, rows>>
    PROVE  /\ Onward'
           /\ group'.offset # group.offset => Clean(rows', group'.offset)
  <1>1. group \in Groups(MaxLog, Labels)
    BY DEF TypeInv, Sessions, LoopInv, GroupTypeOK
  <1>2. /\ group'.pc[c] = label
        /\ \A d \in Replicas \ {c} : group'.pc[d] = group.pc[d] /\ group'.at[d] = group.at[d]
    BY <1>1 DEF Ends, Groups
  <1>3. group'.offset # group.offset => Clean(rows, group'.offset)
    <2> SUFFICES ASSUME group'.offset # group.offset PROVE Clean(rows, group'.offset)
      OBVIOUS
    <2>1. group.pc[c] = "commit" /\ group'.offset = Position(group, c)
      BY DEF Ends
    <2>2. Position(group, c) = group.at[c]
      BY <2>1, InTurn DEF Idle
    <2> QED
      BY <2>1, <2>2 DEF Onward
  <1>4. \A d \in Replicas :
          /\ group'.pc[d] \in {"read", "trim"} => Kept(rows', group'.at[d])
          /\ group'.pc[d] = "commit" => Clean(rows', group'.at[d])
    BY <1>2 DEF Onward, Idle
  <1>5. \/ Clean(rows', group'.offset)
        \/ group'.offset < MaxLog /\ Kept(rows', group'.offset + 1)
    BY <1>3 DEF Onward
  <1> QED
    BY <1>3, <1>4, <1>5, OnwardNext

LEMMA FetchOnward ==
    ASSUME TypeInv, Peace, Onward, NEW c \in Replicas, Fetch(c)
    PROVE  Onward' /\ group'.offset = group.offset /\ group'.givenUp = group.givenUp
  <1>1. CanFetch(group, c, MaxLog) /\ group' = Fetched(group, c)
    BY LogIs DEF Fetch, TypeInv
  <1>2. group \in Groups(MaxLog, Labels) /\ LoopInv(group, MaxLog, Labels)
    BY DEF TypeInv, Sessions, LoopInv, GroupTypeOK
  <1>3. /\ group'.pc = [group.pc EXCEPT ![c] = "handle"]
        /\ group'.offset = group.offset /\ group'.givenUp = group.givenUp
    <2>1. IsPut(group, group', c, "handle", group.offset + 1, 1, TRUE)
      BY <1>1, <1>2, PutFields DEF Fetched
    <2> QED
      BY <2>1 DEF IsPut
  <1>4. Only(c, group, group')
    BY <1>1, <1>2, FetchedInv
  <1>5. group'.pc[c] = "handle"
    BY <1>2, <1>3 DEF Groups
  <1>6. rows' = rows /\ log' = log
    BY DEF Fetch, tables
  <1>7. \A d \in Replicas :
          /\ group'.pc[d] \in {"read", "trim"} => Kept(rows', group'.at[d])
          /\ group'.pc[d] = "commit" => Clean(rows', group'.at[d])
    BY <1>4, <1>5, <1>6 DEF Onward, Only
  <1>8. \/ Clean(rows', group'.offset)
        \/ group'.offset < MaxLog /\ Kept(rows', group'.offset + 1)
    BY <1>3, <1>6 DEF Onward
  <1> QED
    BY <1>3, <1>6, <1>7, <1>8, OnwardNext

LEMMA AssignOnward ==
    ASSUME TypeInv, Peace, Onward, NEW c \in Replicas, Assign(c)
    PROVE  Onward'
  <1>1. group \in Groups(MaxLog, Labels) /\ group' = Assigned(group, c)
    BY DEF Assign, TypeInv, Sessions, LoopInv, GroupTypeOK
  <1>2. group'.pc = group.pc /\ group'.at = group.at /\ group'.offset = group.offset
    BY <1>1 DEF Assigned, Groups
  <1>3. rows' = rows /\ log' = log
    BY DEF Assign, tables
  <1> QED
    BY <1>2, <1>3, OnwardNext DEF Onward

-----------------------------------------------------------------------------
(* The handler follows it too *)

LEMMA CreateIfMissingOnward ==
    ASSUME TypeInv, Peace, Onward, NEW c \in Replicas, CreateIfMissing(c)
    PROVE  Onward'
  <1>1. Handling(group, c) /\ UNCHANGED <<log, rows>> /\ GoTo(c, "look")
    BY DEF CreateIfMissing, At, Handling
  <1>2. Moved(c, group, group', "look")
    BY <1>1, GoToMoved
  <1>3. Clean(rows', group.offset) \/ Kept(rows', group.offset + 1)
    BY <1>1 DEF Onward
  <1> QED
    BY <1>1, <1>2, <1>3, HandlerOnward

LEMMA LookOnward ==
    ASSUME TypeInv, Peace, Onward, NEW c \in Replicas, Look(c), group'.givenUp = {}
    PROVE  Onward'
  <1>1. Handling(group, c) /\ UNCHANGED <<log, rows>>
    BY DEF Look, At, Handling, tables
  <1>2. Clean(rows', group.offset) \/ Kept(rows', group.offset + 1)
    BY <1>1 DEF Onward
  <1>3. CASE GoTo(c, "upsert")
    <2>1. Moved(c, group, group', "upsert")
      BY <1>1, <1>3, GoToMoved
    <2> QED
      BY <1>1, <1>2, <2>1, HandlerOnward
  <1>4. CASE Raises(c)
    BY <1>1, <1>2, <1>4, RaisesOnward
  <1> QED
    BY <1>3, <1>4 DEF Look

LEMMA UpsertsOnward ==
    ASSUME TypeInv, TypeInv', Peace, Onward, NEW c \in Replicas, At(c, "upsert"),
           NEW row, Upserts(c, row), Written(c), UNCHANGED log, group'.givenUp = {}
    PROVE  Onward'
  <1>1. Handling(group, c) /\ group.pc[c] \notin Idle
    BY DEF At, Handling, Idle
  <1>2. group.at[c] = group.offset + 1 /\ group.offset + 1 \in 1..MaxLog /\ group.offset \in Nat
    BY <1>1, InTurn
  <1>3. Message(c) = log[group.offset + 1]
    BY <1>2 DEF Message
  <1>4. PICK n \in 1..MaxLog : n = group.offset + 1 /\ n - 1 = group.offset
    BY <1>2
  <1>5. Clean(rows, n - 1) \/ Kept(rows, n)
    BY <1>4 DEF Onward
  <1>6. Pairs(rows') = {p \in Pairs(rows) : p.post # log[n].post} \cup {log[n]}
    BY <1>3, <1>4 DEF Written
  <1>7. LogType /\ rows \in Tables /\ rows' \in Tables
    BY DEF TypeInv
  <1>8. Kept(rows', n)
    BY <1>5, <1>6, <1>7, UpsertKept
  <1>9. CASE GoTo(c, "read")
    <2>1. Moved(c, group, group', "read")
      BY <1>1, <1>9, GoToMoved
    <2> QED
      BY <1>1, <1>4, <1>8, <2>1, HandlerOnward
  <1>10. CASE Raises(c)
    BY <1>1, <1>4, <1>8, <1>10, RaisesOnward
  <1> QED
    BY <1>9, <1>10 DEF Upserts

LEMMA InsertOnward ==
    ASSUME TypeInv, TypeInv', Peace, Onward, NEW c \in Replicas, Insert(c),
           group'.givenUp = {}
    PROVE  Onward'
  <1>1. Written(c)
    BY InsertWrites DEF Peace
  <1>2. At(c, "upsert") /\ Upserts(c, None) /\ UNCHANGED log
    BY DEF Insert
  <1> QED
    BY <1>1, <1>2, UpsertsOnward

LEMMA UpdateOnward ==
    ASSUME TypeInv, TypeInv', Peace, Onward, NEW c \in Replicas, Update(c),
           group'.givenUp = {}
    PROVE  Onward'
  <1>1. /\ At(c, "upsert") /\ own[c] # None /\ Handling(group, c) /\ UNCHANGED log
    BY DEF Update, At, Handling
  <1>2. CASE Raises(c) /\ UNCHANGED rows
    <2>1. Clean(rows', group.offset) \/ Kept(rows', group.offset + 1)
      BY <1>2 DEF Onward
    <2> QED
      BY <1>1, <1>2, <2>1, RaisesOnward
  <1>3. CASE /\ rows' = IF own[c].score # Message(c).score
                        THEN [rows EXCEPT ![own[c].id].score = Message(c).score] ELSE rows
             /\ Upserts(c, [own[c] EXCEPT !.score = Message(c).score])
    <2>1. Written(c)
      BY <1>1, <1>3, UpdateWrites DEF Peace
    <2> QED
      BY <1>1, <1>3, <2>1, UpsertsOnward
  <1> QED
    BY <1>2, <1>3 DEF Update

LEMMA ReadShelfOnward ==
    ASSUME TypeInv, Peace, Onward, NEW c \in Replicas, ReadShelf(c)
    PROVE  Onward'
  <1>1. /\ Handling(group, c) /\ UNCHANGED <<log, rows>> /\ GoTo(c, "trim")
        /\ group.pc[c] \notin Idle
    BY DEF ReadShelf, At, Handling, tables, Idle
  <1>2. group.at[c] = group.offset + 1 /\ group.pc[c] = "read"
    BY <1>1, InTurn DEF ReadShelf, At
  <1>3. Kept(rows', group.offset + 1)
    BY <1>1, <1>2 DEF Onward
  <1>4. Moved(c, group, group', "trim")
    BY <1>1, GoToMoved
  <1> QED
    BY <1>1, <1>3, <1>4, HandlerOnward

LEMMA TrimOnward ==
    ASSUME TypeInv, TypeInv', Peace, Onward, NEW c \in Replicas, Trim(c),
           group'.givenUp = {}
    PROVE  Onward'
  <1>1. /\ Handling(group, c) /\ group.pc[c] = "trim" /\ group.pc[c] \notin Idle
        /\ Listed(seen[c], rows) /\ UNCHANGED log
    BY DEF Trim, At, Handling, Idle, Peace, Working
  <1>2. group.at[c] = group.offset + 1 /\ group.offset + 1 \in 1..MaxLog
    BY <1>1, InTurn
  <1>3. CASE Raises(c) /\ UNCHANGED rows
    <2>1. Clean(rows', group.offset) \/ Kept(rows', group.offset + 1)
      BY <1>3 DEF Onward
    <2> QED
      BY <1>1, <1>3, <2>1, RaisesOnward
  <1>4. CASE Trims(c) /\ (Raises(c) \/ (group' = Handled(group, c) /\ Forget(c)))
    <2>1. PICK n \in 1..MaxLog : n = group.offset + 1
      BY <1>2
    <2>2. Kept(rows, n)
      BY <1>1, <1>2, <2>1 DEF Onward
    <2>3. Trimmed(seen[c], rows, rows')
      BY <1>1, <1>4, TrimTrims
    <2>4. LogType /\ rows \in Tables /\ rows' \in Tables /\ OneRowEach(rows)
      BY DEF TypeInv, Peace
    <2>5. Clean(rows', n)
      BY <1>1, <2>2, <2>3, <2>4, TrimClean
    <2>6. Kept(rows', n)
      BY <2>4, <2>5, CleanKept
    <2>7. CASE Raises(c)
      BY <1>1, <2>1, <2>6, <2>7, RaisesOnward
    <2>8. CASE group' = Handled(group, c) /\ Forget(c)
      <3>1. Moved(c, group, group', "commit")
        BY <1>1, <2>8, InHand, HandledMoved
      <3> QED
        BY <1>1, <2>1, <2>5, <2>6, <3>1, HandlerOnward
    <2> QED
      BY <1>4, <2>7, <2>8
  <1> QED
    BY <1>3, <1>4 DEF Trim, Trims

-----------------------------------------------------------------------------

(* A message that was given up stays so, and none is when the offset moves.*)
GivenUpFor(g, h) ==
    g.givenUp \subseteq h.givenUp /\ (h.offset # g.offset => h.givenUp = g.givenUp)

LEMMA GivenUpStays ==
    ASSUME TypeInv, [Next]_vars
    PROVE  GivenUpFor(group, group') /\ (moves' = 0 => moves = 0)
  <1>1. group \in Groups(MaxLog, Labels) /\ LoopInv(group, MaxLog, Labels) /\ MaxLog \in Nat
    BY DEF TypeInv, Sessions, LoopInv, GroupTypeOK
  <1>2. moves' = 0 => moves = 0
    <2>1. ASSUME NEW c \in Replicas, Handle(c) PROVE moves' = moves
      BY <2>1 DEF Handle, CreateIfMissing, Look, Insert, Update, ReadShelf, Trim
    <2>2. moves' = moves \/ moves' = moves + 1
      BY <2>1 DEF Next, vars, Fetch, Commit, HandlerFails, CommitRaises, Crash, Assign
    <2> QED
      BY <2>2 DEF TypeInv, Counted
  <1>3. ASSUME NEW c \in Replicas, Raises(c) PROVE GivenUpFor(group, group')
    <2>1. \/ Moved(c, group, group', "handle") /\ group'.givenUp = group.givenUp
          \/ Moved(c, group, group', "commit") /\ group'.givenUp = group.givenUp \cup {group.at[c]}
      BY <1>1, <1>3, RaisedMoved DEF Raises
    <2> QED
      BY <2>1 DEF Moved, GivenUpFor
  <1>4. ASSUME NEW c \in Replicas, NEW label, GoTo(c, label)
        PROVE  GivenUpFor(group, group')
    BY <1>1, <1>4 DEF GoTo, GoesTo, Groups, GivenUpFor
  <1>5. ASSUME NEW c \in Replicas, group' = Handled(group, c)
        PROVE  GivenUpFor(group, group')
    BY <1>1, <1>5 DEF Handled, Groups, GivenUpFor
  <1>6. ASSUME NEW c \in Replicas, Handle(c)
        PROVE  GivenUpFor(group, group')
    BY <1>3, <1>4, <1>5, <1>6 DEF Handle, CreateIfMissing, Look, Insert, Update, Upserts,
       ReadShelf, Trim
  <1>7. ASSUME NEW c \in Replicas, Fetch(c)
        PROVE  GivenUpFor(group, group')
    BY <1>1, <1>7 DEF Fetch, Fetched, Put, Groups, GivenUpFor
  <1>8. ASSUME NEW c \in Replicas, Commit(c)
        PROVE  GivenUpFor(group, group')
    <2>1. Ends(c, group, group', "fetch")
      BY <1>1, <1>8, CommittedEnds DEF Commit
    <2> QED
      BY <2>1 DEF Ends, GivenUpFor
  <1>9. ASSUME NEW c \in Replicas, CommitRaises(c)
        PROVE  GivenUpFor(group, group')
    <2>1. Ends(c, group, group', "dead")
      BY <1>1, <1>9, CommitRaisedEnds DEF CommitRaises
    <2> QED
      BY <2>1 DEF Ends, GivenUpFor
  <1>10. ASSUME NEW c \in Replicas, Crash(c)
        PROVE  GivenUpFor(group, group')
    <2>1. Ends(c, group, group', "fetch")
      BY <1>1, <1>10, GoneFields DEF Crash, Crashed, Idle
    <2> QED
      BY <2>1 DEF Ends, GivenUpFor
  <1>11. ASSUME NEW c \in Replicas, Assign(c)
        PROVE  GivenUpFor(group, group')
    BY <1>1, <1>11 DEF Assign, Assigned, Groups, GivenUpFor
  <1>12. CASE UNCHANGED vars
    BY <1>12 DEF vars, GivenUpFor
  <1>13. CASE Next
    <2>1. PICK c \in Replicas :
            \/ Fetch(c) \/ Commit(c) \/ Handle(c)
            \/ HandlerFails(c) \/ CommitRaises(c) \/ Crash(c) \/ Assign(c)
      BY <1>13 DEF Next
    <2>2. HandlerFails(c) => Raises(c)
      BY DEF HandlerFails
    <2> QED
      BY <1>2, <1>3, <1>6, <1>7, <1>8, <1>9, <1>10, <1>11, <2>1, <2>2
  <1> QED
    BY <1>2, <1>12, <1>13

(* A step onward, and what is on the table when the offset moves.          *)
LEMMA NextOnward ==
    ASSUME TypeInv, TypeInv', Peace, Onward, Next, group'.givenUp = {}
    PROVE  /\ Onward'
           /\ group'.offset # group.offset => Clean(rows', group'.offset)
  <1>1. PICK c \in Replicas :
          \/ Fetch(c) \/ Commit(c) \/ Handle(c)
          \/ HandlerFails(c) \/ CommitRaises(c) \/ Crash(c) \/ Assign(c)
    BY DEF Next
  <1>2. group \in Groups(MaxLog, Labels) /\ LoopInv(group, MaxLog, Labels) /\ MaxLog \in Nat
    BY DEF TypeInv, Sessions, LoopInv, GroupTypeOK
  <1>3. CASE Fetch(c)
    BY <1>3, FetchOnward
  <1>4. CASE Commit(c)
    <2>1. Ends(c, group, group', "fetch")
      BY <1>2, <1>4, CommittedEnds DEF Commit
    <2> QED
      BY <1>4, <2>1, EndsOnward DEF Commit, tables, Idle
  <1>5. CASE CommitRaises(c)
    <2>1. Ends(c, group, group', "dead")
      BY <1>2, <1>5, CommitRaisedEnds DEF CommitRaises
    <2> QED
      BY <1>5, <2>1, EndsOnward DEF CommitRaises, tables, Idle
  <1>6. CASE Crash(c)
    <2>1. Ends(c, group, group', "fetch")
      BY <1>2, <1>6, GoneFields DEF Crash, Crashed, Idle
    <2> QED
      BY <1>6, <2>1, EndsOnward DEF Crash, tables, Idle
  <1>7. CASE Assign(c)
    <2>1. group'.offset = group.offset
      BY <1>2, <1>7 DEF Assign, Assigned, Groups
    <2> QED
      BY <1>7, <2>1, AssignOnward
  <1>8. CASE HandlerFails(c)
    <2>1. Handling(group, c) /\ Raises(c) /\ UNCHANGED <<log, rows>>
      BY <1>8 DEF HandlerFails, tables
    <2>2. group'.offset = group.offset
      BY <1>2, <2>1, RaisedMoved DEF Raises, Moved
    <2>3. Clean(rows', group.offset) \/ Kept(rows', group.offset + 1)
      BY <2>1 DEF Onward
    <2> QED
      BY <2>1, <2>2, <2>3, RaisesOnward
  <1>9. CASE Handle(c)
    <2>1. ASSUME Raises(c) PROVE group'.offset = group.offset
      BY <1>2, <2>1, RaisedMoved DEF Raises, Moved
    <2>2. ASSUME NEW label, GoTo(c, label) PROVE group'.offset = group.offset
      BY <1>2, <2>2 DEF GoTo, GoesTo, Groups
    <2>3. ASSUME group' = Handled(group, c) PROVE group'.offset = group.offset
      BY <1>2, <2>3 DEF Handled, Groups
    <2>4. group'.offset = group.offset
      BY <1>9, <2>1, <2>2, <2>3 DEF Handle, CreateIfMissing, Look, Insert, Update, Upserts,
         ReadShelf, Trim
    <2> QED
      BY <1>9, <2>4, CreateIfMissingOnward, LookOnward, InsertOnward, UpdateOnward,
         ReadShelfOnward, TrimOnward DEF Handle
  <1> QED
    BY <1>1, <1>3, <1>4, <1>5, <1>6, <1>7, <1>8, <1>9

LEMMA NextProgress ==
    ASSUME TypeInv, TypeInv', Calm, Progress, [Next]_vars
    PROVE  Progress'
  <1> SUFFICES ASSUME moves' = 0, group'.givenUp = {} PROVE Onward'
    BY DEF Progress
  <1>1. Peace /\ Onward
    BY GivenUpStays DEF Calm, Progress, GivenUpFor
  <1>2. CASE UNCHANGED vars
    <2>1. UNCHANGED <<log, rows, group>>
      BY <1>2 DEF vars, tables
    <2> QED
      BY <1>1, <2>1, OnwardNext DEF Onward
  <1>3. CASE Next
    BY <1>1, <1>3, NextOnward
  <1> QED
    BY <1>2, <1>3

(* Whenever a message is committed the table is the shelf the aggregate    *)
(* would have, through retries, crashes between the two commits of a       *)
(* handler and redelivery, as long as no message was given up and no       *)
(* rebalance has taken the partition from a live replica.                  *)
THEOREM FollowsAggregate == Spec => LikeTheAggregate
  <1> DEFINE Inv == TypeInv /\ Calm /\ Progress
             Due == moves = 0 /\ group.givenUp = {} /\ group'.offset # group.offset =>
                       \E shelf \in Shelves[group'.offset] : IsShelf(rows', shelf)
  <1>1. Init => Inv
    BY InitTypes, InitCalm, InitProgress
  <1>2. Inv /\ [Next]_vars => Inv'
    BY NextTypes, NextCalm, NextProgress
  <1>3. Inv /\ [Next]_vars => [Due]_vars
    <2> SUFFICES ASSUME Inv, Next, moves = 0, group.givenUp = {},
                        group'.offset # group.offset
                 PROVE  Clean(rows', group'.offset)
      BY DEF Clean
    <2>1. TypeInv' /\ Peace /\ Onward
      BY <1>2 DEF Calm, Progress
    <2>2. group'.givenUp = {}
      BY GivenUpStays DEF GivenUpFor
    <2> QED
      BY <2>1, <2>2, NextOnward
  <1>4. Spec => [][Due]_vars
    BY <1>1, <1>2, <1>3, PTL DEF Spec
  <1> QED
    BY <1>4 DEF LikeTheAggregate

=============================================================================
