---------------------------- MODULE AccountsProofs ----------------------------
(***************************************************************************)
(* Theorems about Accounts for any number of accounts, role requests and   *)
(* overlapping calls, any bound on events, and any initial leftovers:      *)
(*   every variable has its type (with where each coroutine stands);       *)
(*   authority has an origin;                                              *)
(*   addresses are unique, and only leftovers are undecided;               *)
(*   the table holds nothing user-events never said;                       *)
(*   an APPROVED request was granted, and SUPPORT grants only requests;    *)
(*   and, for one request at a time, the requests are the operations of    *)
(*   AccountLifecycle, so that replaying user-events gives the table;      *)
(*   and, for any texts, what Recipients suggests and finds.               *)
(* Each invariant is strengthened with what the User and RoleRequest       *)
(* objects in flight may carry, because a request may sleep for any time   *)
(* between reading a row and writing it.                                   *)
(***************************************************************************)
EXTENDS Recipients, FiniteSetTheorems, WellFoundedInduction, TLAPS

-----------------------------------------------------------------------------
(***************************************************************************)
(* Texts and patterns.  What str.replace, ILIKE and strip() compute is     *)
(* proved for every text: where it is defined by recursion, its values are *)
(* named first, and what they are follows by taking the least place where  *)
(* they would be something else.                                           *)
(***************************************************************************)

LEMMA LeastNumber ==
    ASSUME NEW N \in SUBSET Nat, N # {}
    PROVE  \E n \in N : \A m \in N : n <= m
  <1>1. PICK n \in N : \A m \in N : ~(<<m, n>> \in OpToRel(<, Nat))
    BY NatLessThanWellFounded, WFMin, Zenon
  <1>2. \A m \in N : ~(m < n)
    BY <1>1 DEF OpToRel
  <1> QED
    BY <1>2

-----------------------------------------------------------------------------
(* What recursion defines *)

(* g holds, of each of the first n pieces, those up to it in one sequence. *)
Joins(g, pieces, n) ==
    g = [i \in 1..n |-> IF i = 1 THEN pieces[i] ELSE g[i - 1] \o pieces[i]]

LEMMA JoinsExists ==
    ASSUME NEW pieces, NEW n \in Nat
    PROVE  \E g : Joins(g, pieces, n)
  <1> DEFINE N == {m \in Nat : ~\E g : Joins(g, pieces, m)}
  <1> SUFFICES ASSUME N # {} PROVE FALSE
    OBVIOUS
  <1>1. PICK m \in N : \A k \in N : m <= k
    BY LeastNumber
  <1>2. m # 0
    <2>1. Joins([i \in 1..0 |-> {}], pieces, 0)
      BY DEF Joins
    <2> QED
      BY <1>1, <2>1
  <1>3. m - 1 \in Nat /\ m - 1 \notin N
    BY <1>1, <1>2
  <1>4. PICK g : Joins(g, pieces, m - 1)
    BY <1>3
  <1> DEFINE last == IF m = 1 THEN pieces[m] ELSE g[m - 1] \o pieces[m]
             h == [i \in 1..m |-> IF i = m THEN last ELSE g[i]]
  <1>5. ASSUME NEW i \in 1..m
        PROVE  h[i] = IF i = 1 THEN pieces[i] ELSE h[i - 1] \o pieces[i]
    <2>1. CASE i = m
      <3>1. i # 1 => i - 1 \in 1..m /\ i - 1 # m
        BY <1>3, <2>1
      <3>2. (i # 1 => h[i - 1] = g[i - 1]) /\ h[i] = last
        BY <2>1, <3>1
      <3> HIDE DEF h
      <3> QED
        BY <2>1, <3>2
    <2>2. CASE i # m
      <3>1. i \in 1..(m - 1) /\ h[i] = g[i] /\ (i # 1 => i - 1 \in 1..m /\ i - 1 # m)
        BY <1>3, <2>2
      <3>2. i # 1 => h[i - 1] = g[i - 1]
        BY <3>1
      <3>3. g[i] = IF i = 1 THEN pieces[i] ELSE g[i - 1] \o pieces[i]
        BY <1>4, <3>1 DEF Joins
      <3> HIDE DEF h
      <3> QED
        BY <3>1, <3>2, <3>3
    <2> QED
      BY <2>1, <2>2
  <1>6. Joins(h, pieces, m)
    <2>1. h = [i \in 1..m |-> h[i]]
      OBVIOUS
    <2> HIDE DEF h
    <2> QED
      BY <1>5, <2>1 DEF Joins
  <1> QED
    BY <1>1, <1>6

(* FlattenSeq joins the pieces one by one. *)
LEMMA FlattenJoins ==
    ASSUME NEW S, NEW pieces \in Seq(S), pieces # <<>>
    PROVE  \E g : Joins(g, pieces, Len(pieces)) /\ FlattenSeq(pieces) = g[Len(pieces)]
  <1> DEFINE g == CHOOSE h : Joins(h, pieces, Len(pieces))
  <1>1. Joins(g, pieces, Len(pieces))
    <2>1. Len(pieces) \in Nat
      OBVIOUS
    <2>2. \E h : Joins(h, pieces, Len(pieces))
      BY <2>1, JoinsExists
    <2> QED
      BY <2>2, Zenon
  <1>2. FlattenSeq(pieces) = g[Len(pieces)]
    <2>1. Len(pieces) # 0
      OBVIOUS
    <2> QED
      BY <2>1 DEF FlattenSeq, Joins
  <1> QED
    BY <1>1, <1>2

-----------------------------------------------------------------------------
(* The pattern *)

(* out is text, as far as its n-th character, with "!" before each of its  *)
(* characters in Marked; the k-th of them is found from place[k] on.       *)
Escapes(out, text, n, Marked, place) ==
    /\ place \in [1..n + 1 -> 1..Len(out) + 1]
    /\ place[1] = 1 /\ place[n + 1] = Len(out) + 1
    /\ \A k \in 1..n :
          IF text[k] \in Marked
          THEN out[place[k]] = "!" /\ out[place[k] + 1] = text[k]
               /\ place[k + 1] = place[k] + 2
          ELSE out[place[k]] = text[k] /\ place[k + 1] = place[k] + 1

(* One more character, escaped or as it is.                                *)
LEMMA EscapesMore ==
    ASSUME NEW S, NEW out \in Seq(S), NEW text, NEW n \in Nat, NEW char, NEW place,
           Escapes(out, text, n, {char}, place), NEW piece \in Seq(S),
           piece = IF text[n + 1] = char THEN <<"!", char>> ELSE <<text[n + 1]>>
    PROVE  \E next : Escapes(out \o piece, text, n + 1, {char}, next)
  <1> DEFINE long == out \o piece
             next == [k \in 1..n + 2 |->
                        IF k = n + 2 THEN Len(long) + 1 ELSE place[k]]
  <1>1. /\ Len(out) \in Nat /\ Len(piece) \in 1..2
        /\ Len(long) = Len(out) + Len(piece)
        /\ \A i \in 1..Len(out) : long[i] = out[i]
        /\ \A i \in 1..Len(piece) : long[Len(out) + i] = piece[i]
    OBVIOUS
  <1> HIDE DEF long
  <1>2. next \in [1..(n + 1) + 1 -> 1..Len(long) + 1]
    BY <1>1 DEF Escapes
  <1>3. next[1] = 1 /\ next[(n + 1) + 1] = Len(long) + 1
    BY <1>1 DEF Escapes
  <1>4. ASSUME NEW k \in 1..n + 1
        PROVE  IF text[k] \in {char}
               THEN long[next[k]] = "!" /\ long[next[k] + 1] = text[k]
                    /\ next[k + 1] = next[k] + 2
               ELSE long[next[k]] = text[k] /\ next[k + 1] = next[k] + 1
    <2>1. CASE k = n + 1
      <3>1. next[k] = Len(out) + 1 /\ next[k + 1] = Len(out) + Len(piece) + 1
        BY <1>1, <2>1 DEF Escapes
      <3>2. CASE text[n + 1] = char
        <4>1. Len(piece) = 2 /\ piece[1] = "!" /\ piece[2] = char
          BY <3>2
        <4> HIDE DEF next
        <4> QED
          BY <1>1, <2>1, <3>1, <3>2, <4>1
      <3>3. CASE text[n + 1] # char
        <4>1. Len(piece) = 1 /\ piece[1] = text[n + 1]
          BY <3>3
        <4> HIDE DEF next
        <4> QED
          BY <1>1, <2>1, <3>1, <3>3, <4>1
      <3> QED
        BY <3>2, <3>3
    <2>2. CASE k # n + 1
      <3>1. k \in 1..n /\ next[k] = place[k] /\ next[k + 1] = place[k + 1]
        BY <2>2
      <3>2. place[k] \in Nat /\ place[k] >= 1 /\ place[k + 1] <= Len(out) + 1
        BY <3>1 DEF Escapes
      <3>3. IF text[k] = char
            THEN out[place[k]] = "!" /\ out[place[k] + 1] = text[k]
                 /\ place[k + 1] = place[k] + 2
            ELSE out[place[k]] = text[k] /\ place[k + 1] = place[k] + 1
        BY <3>1 DEF Escapes
      <3> HIDE DEF next
      <3>4. place[k] \in 1..Len(out)
            /\ (text[k] = char => place[k] + 1 \in 1..Len(out))
        <4>1. place[k + 1] = IF text[k] = char THEN place[k] + 2 ELSE place[k] + 1
          BY <3>3
        <4> DEFINE x == place[k]
                   y == place[k + 1]
        <4>2. x \in Nat /\ x >= 1 /\ y <= Len(out) + 1 /\ Len(out) \in Nat
              /\ y = IF text[k] = char THEN x + 2 ELSE x + 1
          BY <1>1, <3>2, <4>1
        <4> HIDE DEF x, y
        <4>3. x \in 1..Len(out) /\ (text[k] = char => x + 1 \in 1..Len(out))
          BY <4>2
        <4> QED
          BY <4>3 DEF x
      <3>5. long[place[k]] = out[place[k]]
            /\ (text[k] = char => long[place[k] + 1] = out[place[k] + 1])
        BY <1>1, <3>4
      <3> QED
        BY <3>1, <3>3, <3>5
    <2> QED
      BY <2>1, <2>2
  <1>5. Escapes(long, text, n + 1, {char}, next)
    BY <1>2, <1>3, <1>4 DEF Escapes
  <1> QED
    BY <1>5 DEF long

(* str.replace puts "!" before every char and changes nothing else. *)
LEMMA ReplaceEscapes ==
    ASSUME NEW S, NEW text \in Seq(S), "!" \in S, NEW char \in S
    PROVE  /\ Replace(text, char) \in Seq(S)
           /\ \E place : Escapes(Replace(text, char), text, Len(text), {char}, place)
  <1> DEFINE Piece(i) == IF text[i] = char THEN <<"!", char>> ELSE <<text[i]>>
             pieces == [i \in DOMAIN text |-> Piece(i)]
  <1>1. CASE text = <<>>
    <2>1. Len(text) = 0 /\ pieces = <<>> /\ Len(pieces) = 0
      BY <1>1
    <2>2. Replace(text, char) = <<>>
      BY <2>1 DEF Replace, FlattenSeq
    <2>3. Escapes(<<>>, text, 0, {char}, [k \in 1..1 |-> 1])
      BY DEF Escapes
    <2> QED
      BY <2>1, <2>2, <2>3
  <1>2. CASE text # <<>>
    <2>1. /\ \A i \in DOMAIN text : Piece(i) \in Seq(S)
          /\ DOMAIN text = 1..Len(text) /\ Len(text) \in Nat \ {0}
      BY <1>2
    <2>2. pieces \in Seq(Seq(S)) /\ Len(pieces) = Len(text) /\ pieces # <<>>
          /\ \A i \in 1..Len(text) : pieces[i] = Piece(i)
      BY <2>1
    <2> HIDE DEF pieces
    <2>3. PICK g : Joins(g, pieces, Len(text)) /\ FlattenSeq(pieces) = g[Len(text)]
      BY <2>2, FlattenJoins
    <2>4. \A i \in 1..Len(text) :
            g[i] = IF i = 1 THEN Piece(i) ELSE g[i - 1] \o Piece(i)
      BY <2>2, <2>3 DEF Joins
    <2> DEFINE Good(i) ==
                 g[i] \in Seq(S) /\ \E place : Escapes(g[i], text, i, {char}, place)
               N == {i \in Nat : 1 <= i /\ i <= Len(text) /\ ~Good(i)}
    <2>5. Good(1)
      <3>1. g[1] = Piece(1) /\ Piece(1) \in Seq(S)
        BY <2>1, <2>4
      <3>2. Escapes(<<>>, text, 0, {char}, [k \in 1..1 |-> 1])
        BY DEF Escapes
      <3>3. \E place : Escapes(<<>> \o Piece(1), text, 0 + 1, {char}, place)
        <4>1. <<>> \in Seq(S)
          OBVIOUS
        <4>2. Piece(1) = IF text[0 + 1] = char THEN <<"!", char>> ELSE <<text[0 + 1]>>
          OBVIOUS
        <4> HIDE DEF Piece
        <4> QED
          BY <3>1, <3>2, <4>1, <4>2, EscapesMore
      <3>4. <<>> \o Piece(1) = Piece(1)
        BY <3>1
      <3> QED
        BY <3>1, <3>3, <3>4
    <2>6. N = {}
      <3> SUFFICES ASSUME N # {} PROVE FALSE
        OBVIOUS
      <3> HIDE DEF Piece, Good
      <3>1. PICK i \in N : \A m \in N : i <= m
        BY LeastNumber
      <3> DEFINE k == i - 1
      <3>2. /\ i \in 1..Len(text) /\ i # 1 /\ ~Good(i)
            /\ k \in Nat /\ k + 1 = i
        BY <2>1, <2>5, <3>1
      <3>3. Good(k)
        <4>1. k < i /\ 1 <= k /\ k <= Len(text)
          BY <2>1, <3>2
        <4> HIDE DEF k
        <4>2. k \notin N
          BY <3>1, <3>2, <4>1
        <4> QED
          BY <3>2, <4>1, <4>2
      <3>4. PICK place : Escapes(g[k], text, k, {char}, place)
        BY <3>3 DEF Good
      <3>5. g[i] = g[k] \o Piece(i) /\ Piece(i) \in Seq(S)
        <4> HIDE DEF k
        <4>1. g[i] = g[i - 1] \o Piece(i)
          BY <2>4, <3>2
        <4> QED
          BY <2>1, <3>2, <4>1 DEF k
      <3>6. Piece(i) = IF text[k + 1] = char THEN <<"!", char>> ELSE <<text[k + 1]>>
        BY <3>2 DEF Piece
      <3>9. g[k] \in Seq(S)
        BY <3>3 DEF Good
      <3> HIDE DEF k
      <3>7. \E next : Escapes(g[k] \o Piece(i), text, k + 1, {char}, next)
        BY <3>2, <3>4, <3>5, <3>6, <3>9, EscapesMore
      <3>8. Good(i)
        <4>1. g[i] \in Seq(S)
          BY <3>5, <3>9
        <4> QED
          BY <3>2, <3>5, <3>7, <4>1 DEF Good
      <3> QED
        BY <3>2, <3>8
    <2>7. Good(Len(text))
      <3> HIDE DEF Good
      <3> QED
        BY <2>1, <2>6
    <2>8. Replace(text, char) = g[Len(text)]
      BY <2>3 DEF Replace, pieces
    <2> QED
      BY <2>7, <2>8
  <1> QED
    BY <1>1, <1>2

(* A second escape leaves the first alone, if it is not of "!". *)
LEMMA EscapesTwice ==
    ASSUME NEW S, NEW text \in Seq(S), NEW once \in Seq(S), NEW twice \in Seq(S),
           NEW A, NEW char, char \notin A, char # "!", NEW p, NEW q,
           Escapes(once, text, Len(text), A, p),
           Escapes(twice, once, Len(once), {char}, q)
    PROVE  \E place : Escapes(twice, text, Len(text), A \cup {char}, place)
  <1> DEFINE n == Len(text)
             place == [k \in 1..n + 1 |-> q[p[k]]]
  <1>1. n \in Nat /\ Len(once) \in Nat /\ Len(twice) \in Nat
    OBVIOUS
  <1> HIDE DEF n
  <1>2. place \in [1..n + 1 -> 1..Len(twice) + 1]
    BY <1>1 DEF Escapes, n
  <1>3. place[1] = 1 /\ place[n + 1] = Len(twice) + 1
    BY <1>1 DEF Escapes, n
  <1>4. ASSUME NEW k \in 1..n
        PROVE  IF text[k] \in A \cup {char}
               THEN twice[place[k]] = "!" /\ twice[place[k] + 1] = text[k]
                    /\ place[k + 1] = place[k] + 2
               ELSE twice[place[k]] = text[k] /\ place[k + 1] = place[k] + 1
    <2> DEFINE i == p[k]
    <2>0. p \in [1..n + 1 -> 1..Len(once) + 1] /\ k + 1 \in 1..n + 1
          /\ k \in 1..n + 1
      BY <1>1 DEF Escapes, n
    <2>1. /\ i \in Nat /\ i >= 1 /\ p[k + 1] <= Len(once) + 1
          /\ place[k] = q[i] /\ place[k + 1] = q[p[k + 1]]
      BY <1>1, <2>0
    <2>2. IF text[k] \in A
          THEN once[i] = "!" /\ once[i + 1] = text[k] /\ p[k + 1] = i + 2
          ELSE once[i] = text[k] /\ p[k + 1] = i + 1
      BY <1>1 DEF Escapes, n
    <2>3. \A m \in 1..Len(once) :
            /\ once[m] = char => twice[q[m]] = "!" /\ twice[q[m] + 1] = once[m]
                                 /\ q[m + 1] = q[m] + 2
            /\ once[m] # char => twice[q[m]] = once[m] /\ q[m + 1] = q[m] + 1
      BY DEF Escapes
    <2>4. \A m \in 1..Len(once) + 1 : q[m] \in Nat
      <3>1. q \in [1..Len(once) + 1 -> 1..Len(twice) + 1]
        BY DEF Escapes
      <3> QED
        BY <1>1, <3>1
    <2> HIDE DEF place, i
    <2>5. CASE text[k] \in A
      <3>1. i \in 1..Len(once) /\ i + 1 \in 1..Len(once) /\ (i + 1) + 1 = p[k + 1]
        BY <1>1, <2>1, <2>2, <2>5
      <3>2. twice[q[i]] = "!" /\ q[i + 1] = q[i] + 1
        BY <2>2, <2>3, <2>5, <3>1
      <3>3. twice[q[i + 1]] = text[k] /\ q[p[k + 1]] = q[i + 1] + 1
        BY <2>2, <2>3, <2>5, <3>1
      <3>4. q[i] \in Nat
        BY <1>1, <2>4, <3>1
      <3> QED
        BY <2>1, <2>5, <3>2, <3>3, <3>4
    <2>6. CASE text[k] \notin A
      <3>1. i \in 1..Len(once) /\ i + 1 = p[k + 1] /\ once[i] = text[k]
        BY <1>1, <2>1, <2>2, <2>6
      <3> QED
        BY <2>1, <2>3, <2>6, <3>1
    <2> QED
      BY <2>5, <2>6
  <1>5. Escapes(twice, text, n, A \cup {char}, place)
    BY <1>2, <1>3, <1>4 DEF Escapes
  <1> QED
    BY <1>5 DEF n

Special == {"!", "%", "_"}

LEMMA FragmentEscapes ==
    ASSUME NEW S, NEW text \in Seq(S), Special \subseteq S
    PROVE  /\ LikeFragment(text) \in Seq(S)
           /\ \E place : Escapes(LikeFragment(text), text, Len(text), Special, place)
  <1> DEFINE a == Replace(text, "!")
             b == Replace(a, "%")
             c == Replace(b, "_")
  <1>1. a \in Seq(S) /\ \E place : Escapes(a, text, Len(text), {"!"}, place)
    BY ReplaceEscapes DEF Special
  <1> HIDE DEF a
  <1>2. b \in Seq(S) /\ \E place : Escapes(b, a, Len(a), {"%"}, place)
    BY <1>1, ReplaceEscapes DEF Special
  <1> HIDE DEF b
  <1>3. c \in Seq(S) /\ \E place : Escapes(c, b, Len(b), {"_"}, place)
    BY <1>2, ReplaceEscapes DEF Special
  <1> HIDE DEF c
  <1>4. \E place : Escapes(b, text, Len(text), {"!"} \cup {"%"}, place)
    <2>1. "%" \notin {"!"} /\ "%" # "!"
      OBVIOUS
    <2> QED
      BY <1>1, <1>2, <2>1, EscapesTwice
  <1>5. \E place : Escapes(c, text, Len(text), ({"!"} \cup {"%"}) \cup {"_"}, place)
    <2>1. "_" \notin {"!"} \cup {"%"} /\ "_" # "!"
      OBVIOUS
    <2> QED
      BY <1>2, <1>3, <1>4, <2>1, EscapesTwice
  <1>6. ({"!"} \cup {"%"}) \cup {"_"} = Special /\ c = LikeFragment(text)
    BY DEF Special, LikeFragment, a, b, c
  <1> QED
    BY <1>3, <1>5, <1>6

-----------------------------------------------------------------------------
(* The match *)

(* From where on t fits what is left of p at j, if next and afterEscape    *)
(* say so of the rest of p.                                                *)
From(t, p, j, next, afterEscape) ==
    IF j > Len(p) THEN {Len(t) + 1}
    ELSE {i \in 1..Len(t) + 1 :
            \/ p[j] = "%" /\ \E k \in next : i <= k
            \/ /\ i <= Len(t) /\ p[j] = "!" /\ j < Len(p)
               /\ p[j + 1] = t[i] /\ i + 1 \in afterEscape
            \/ /\ i <= Len(t) /\ p[j] \in {"_", t[i]} \ {"!", "%"}
               /\ i + 1 \in next}

(* g says it of p from its m-th character on. *)
FitsFrom(g, t, p, m) ==
    g = [j \in m..Len(p) + 2 |-> From(t, p, j, g[j + 1], g[j + 2])]

LEMMA FitsExists ==
    ASSUME NEW t, NEW p, Len(p) \in Nat
    PROVE  \E g : FitsFrom(g, t, p, 1)
  <1> DEFINE top == Len(p) + 3
             N == {n \in Nat : n < top /\ ~\E g : FitsFrom(g, t, p, top - n)}
  <1>0. top \in Nat /\ top >= 3
    OBVIOUS
  <1>1. N = {}
    <2> SUFFICES ASSUME N # {} PROVE FALSE
      OBVIOUS
    <2>1. PICK n \in N : \A k \in N : n <= k
      BY LeastNumber
    <2>2. n # 0
      <3>1. FitsFrom([j \in (top - 0)..Len(p) + 2 |-> {}], t, p, top - 0)
        BY DEF FitsFrom
      <3> QED
        BY <2>1, <3>1
    <2> DEFINE m == top - n
    <2>3. m \in 1..Len(p) + 2 /\ m + 1 = top - (n - 1) /\ n - 1 \in Nat
          /\ n - 1 < top /\ n - 1 \notin N
      BY <1>0, <2>1, <2>2
    <2>4. PICK g : FitsFrom(g, t, p, m + 1)
      BY <2>3
    <2> HIDE DEF m, top
    <2> DEFINE here == From(t, p, m, g[m + 1], g[m + 2])
               h == [j \in m..Len(p) + 2 |-> IF j = m THEN here ELSE g[j]]
    <2>5. ASSUME NEW j \in m..Len(p) + 2
          PROVE  h[j] = From(t, p, j, h[j + 1], h[j + 2])
      <3>1. CASE j > Len(p)
        <4>1. \A x, y : From(t, p, j, x, y) = {Len(t) + 1}
          BY <3>1 DEF From
        <4>2. CASE j = m
          <5>1. h[j] = here
            BY <4>2
          <5> HIDE DEF h
          <5> QED
            BY <4>1, <4>2, <5>1
        <4>3. CASE j # m
          <5>1. h[j] = g[j] /\ j \in (m + 1)..Len(p) + 2
            BY <2>3, <4>3
          <5>2. g[j] = From(t, p, j, g[j + 1], g[j + 2])
            BY <2>4, <5>1 DEF FitsFrom
          <5> HIDE DEF h
          <5> QED
            BY <4>1, <5>1, <5>2
        <4> QED
          BY <4>2, <4>3
      <3>2. CASE j <= Len(p)
        <4>1. /\ j + 1 \in m..Len(p) + 2 /\ j + 1 # m
              /\ j + 2 \in m..Len(p) + 2 /\ j + 2 # m
          BY <2>3, <3>2
        <4>2. h[j + 1] = g[j + 1] /\ h[j + 2] = g[j + 2]
          BY <4>1
        <4>3. CASE j = m
          <5>1. h[j] = here
            BY <4>3
          <5> HIDE DEF h
          <5> QED
            BY <4>2, <4>3, <5>1
        <4>4. CASE j # m
          <5>1. h[j] = g[j] /\ j \in (m + 1)..Len(p) + 2
            BY <2>3, <4>4
          <5>2. g[j] = From(t, p, j, g[j + 1], g[j + 2])
            BY <2>4, <5>1 DEF FitsFrom
          <5> HIDE DEF h
          <5> QED
            BY <4>2, <5>1, <5>2
        <4> QED
          BY <4>3, <4>4
      <3> QED
        BY <2>3, <3>1, <3>2
    <2>6. h = [j \in m..Len(p) + 2 |-> From(t, p, j, h[j + 1], h[j + 2])]
      <3>1. h = [j \in m..Len(p) + 2 |-> h[j]]
        OBVIOUS
      <3> HIDE DEF h
      <3> QED
        BY <2>5, <3>1
    <2> HIDE DEF h
    <2> QED
      BY <2>1, <2>6 DEF FitsFrom, m
  <1>2. top - 1 \in Nat /\ top - 1 < top /\ top - (top - 1) = 1
    BY <1>0
  <1> QED
    BY <1>1, <1>2

LEMMA ILikeFits ==
    ASSUME NEW text, NEW pattern, Len(Lower(pattern)) \in Nat
    PROVE  \E f : /\ FitsFrom(f, Lower(text), Lower(pattern), 1)
                  /\ ILike(text, pattern) <=> 1 \in f[1]
  <1> DEFINE t == Lower(text)
             p == Lower(pattern)
             f == CHOOSE g : FitsFrom(g, t, p, 1)
  <1>1. FitsFrom(f, t, p, 1)
    <2>1. \E g : FitsFrom(g, t, p, 1)
      BY FitsExists
    <2> QED
      BY <2>1, Zenon
  <1>2. ILike(text, pattern) <=> 1 \in f[1]
    BY DEF ILike, FitsFrom, From
  <1> QED
    BY <1>1, <1>2

(* t goes on at i as q does at k. *)
Continues(t, i, q, k) ==
    /\ i + (Len(q) - k) <= Len(t)
    /\ \A m \in 0..(Len(q) - k) : t[i + m] = q[k + m]

LEMMA ContinuesStep ==
    ASSUME NEW t, NEW q, Len(t) \in Nat, Len(q) \in Nat,
           NEW i \in Nat \ {0}, NEW k \in 1..Len(q)
    PROVE  Continues(t, i, q, k) <=>
             i <= Len(t) /\ t[i] = q[k] /\ Continues(t, i + 1, q, k + 1)
  <1>1. ASSUME Continues(t, i, q, k)
        PROVE  i <= Len(t) /\ t[i] = q[k] /\ Continues(t, i + 1, q, k + 1)
    <2>1. i <= Len(t) /\ (i + 1) + (Len(q) - (k + 1)) <= Len(t)
      BY <1>1 DEF Continues
    <2>2. t[i + 0] = q[k + 0]
      <3>1. 0 \in 0..(Len(q) - k)
        OBVIOUS
      <3> QED
        BY <1>1, <3>1 DEF Continues
    <2>3. ASSUME NEW m \in 0..(Len(q) - (k + 1))
          PROVE  t[(i + 1) + m] = q[(k + 1) + m]
      <3>1. m + 1 \in 0..(Len(q) - k)
        OBVIOUS
      <3>2. t[i + (m + 1)] = q[k + (m + 1)]
        BY <1>1, <3>1 DEF Continues
      <3>3. i + (m + 1) = (i + 1) + m /\ k + (m + 1) = (k + 1) + m
        OBVIOUS
      <3> QED
        BY <3>2, <3>3
    <2>4. i + 0 = i /\ k + 0 = k
      OBVIOUS
    <2> QED
      BY <2>1, <2>2, <2>3, <2>4 DEF Continues
  <1>2. ASSUME i <= Len(t), t[i] = q[k], Continues(t, i + 1, q, k + 1)
        PROVE  Continues(t, i, q, k)
    <2>1. i + (Len(q) - k) <= Len(t)
      BY <1>2 DEF Continues
    <2>2. ASSUME NEW m \in 0..(Len(q) - k)
          PROVE  t[i + m] = q[k + m]
      <3>1. CASE m = 0
        <4>1. i + m = i /\ k + m = k
          BY <3>1
        <4> QED
          BY <1>2, <4>1
      <3>2. CASE m # 0
        <4>1. m - 1 \in 0..(Len(q) - (k + 1))
          BY <3>2
        <4>2. t[(i + 1) + (m - 1)] = q[(k + 1) + (m - 1)]
          BY <1>2, <4>1 DEF Continues
        <4>3. (i + 1) + (m - 1) = i + m /\ (k + 1) + (m - 1) = k + m
          OBVIOUS
        <4> QED
          BY <4>2, <4>3
      <3> QED
        BY <3>1, <3>2
    <2> QED
      BY <2>1, <2>2 DEF Continues
  <1> QED
    BY <1>1, <1>2

(* p is q with its special characters escaped, from place[1] on, and "%".  *)
Spells(p, q, place) ==
    /\ place \in [1..Len(q) + 1 -> 1..Len(p)]
    /\ place[Len(q) + 1] = Len(p) /\ p[Len(p)] = "%"
    /\ \A k \in 1..Len(q) :
          IF q[k] \in Special
          THEN p[place[k]] = "!" /\ p[place[k] + 1] = q[k]
               /\ place[k + 1] = place[k] + 2
          ELSE p[place[k]] = q[k] /\ place[k + 1] = place[k] + 1

(* Such a pattern fits where the text goes on as q does, whatever follows. *)
LEMMA SpelledFits ==
    ASSUME NEW t, NEW p, NEW q, Len(t) \in Nat, Len(p) \in Nat, Len(q) \in Nat,
           NEW place, Spells(p, q, place), NEW f, FitsFrom(f, t, p, 1),
           NEW k \in 1..Len(q) + 1, NEW i \in 1..Len(t) + 1
    PROVE  i \in f[place[k]] <=> Continues(t, i, q, k)
  <1> DEFINE Right(l) == \A x \in 1..Len(t) + 1 :
                           x \in f[place[l]] <=> Continues(t, x, q, l)
             N == {n \in Nat : n <= Len(q) /\ ~Right((Len(q) + 1) - n)}
  <1>1. ASSUME NEW j \in 1..Len(p) + 2
        PROVE  f[j] = From(t, p, j, f[j + 1], f[j + 2])
    BY DEF FitsFrom
  <1>2. Right(Len(q) + 1)
    <2>1. Len(p) \in 1..Len(p) /\ place[Len(q) + 1] = Len(p) /\ p[Len(p)] = "%"
      BY DEF Spells
    <2>2. f[Len(p) + 1] = {Len(t) + 1}
      <3>1. Len(p) + 1 \in 1..Len(p) + 2 /\ Len(p) + 1 > Len(p)
        OBVIOUS
      <3> QED
        BY <1>1, <3>1 DEF From
    <2>3. f[Len(p)] = From(t, p, Len(p), f[Len(p) + 1], f[Len(p) + 2])
      BY <1>1, <2>1
    <2>4. \A x \in 1..Len(t) + 1 : x \in f[Len(p)]
      BY <2>1, <2>2, <2>3 DEF From
    <2>5. \A x \in 1..Len(t) + 1 : Continues(t, x, q, Len(q) + 1)
      BY DEF Continues
    <2> QED
      BY <2>1, <2>4, <2>5
  <1>3. ASSUME NEW l \in 1..Len(q), Right(l + 1), NEW x \in 1..Len(t) + 1
        PROVE  x \in f[place[l]] <=> Continues(t, x, q, l)
    <2> DEFINE j == place[l]
    <2>1. l \in 1..Len(q) + 1 /\ l + 1 \in 1..Len(q) + 1
      OBVIOUS
    <2>2. j \in 1..Len(p) /\ place[l + 1] \in 1..Len(p)
      BY <2>1 DEF Spells
    <2>3. IF q[l] \in Special
          THEN p[j] = "!" /\ p[j + 1] = q[l] /\ place[l + 1] = j + 2
          ELSE p[j] = q[l] /\ place[l + 1] = j + 1
      BY DEF Spells
    <2> HIDE DEF j
    <2>4. f[j] = From(t, p, j, f[j + 1], f[j + 2])
      BY <1>1, <2>2
    <2>5. x + 1 \in 1..Len(t) + 1 => (x + 1 \in f[place[l + 1]] <=>
                                        Continues(t, x + 1, q, l + 1))
      BY <1>3
    <2>6. Continues(t, x, q, l) <=>
            x <= Len(t) /\ t[x] = q[l] /\ Continues(t, x + 1, q, l + 1)
      BY ContinuesStep
    <2>7. CASE q[l] \in Special
      <3>1. p[j] = "!" /\ p[j + 1] = q[l] /\ place[l + 1] = j + 2 /\ j < Len(p)
        BY <2>2, <2>3, <2>7
      <3>2. x \in f[j] <=> x <= Len(t) /\ q[l] = t[x] /\ x + 1 \in f[j + 2]
        BY <2>2, <2>4, <3>1 DEF From
      <3> QED
        BY <2>5, <2>6, <3>1, <3>2 DEF j
    <2>8. CASE q[l] \notin Special
      <3>1. p[j] = q[l] /\ place[l + 1] = j + 1 /\ p[j] \notin {"!", "%", "_"}
        BY <2>3, <2>8 DEF Special
      <3>2. x \in f[j] <=> x <= Len(t) /\ q[l] = t[x] /\ x + 1 \in f[j + 1]
        <4>1. p[j] \in {"_", t[x]} \ {"!", "%"} <=> p[j] = t[x]
          BY <3>1
        <4>2. ~(j > Len(p))
          BY <2>2
        <4>3. p[j] # "%" /\ p[j] # "!"
          BY <3>1
        <4> QED
          BY <2>4, <3>1, <4>1, <4>2, <4>3 DEF From
      <3>3. x + 1 \in f[j + 1] <=> x + 1 \in f[place[l + 1]]
        BY <3>1
      <3>4. x <= Len(t) => x + 1 \in 1..Len(t) + 1
        OBVIOUS
      <3>5. j = place[l]
        BY DEF j
      <3> QED
        BY <2>5, <2>6, <3>2, <3>3, <3>4, <3>5
    <2> QED
      BY <2>7, <2>8
  <1> HIDE DEF Right
  <1>4. N = {}
    <2> SUFFICES ASSUME N # {} PROVE FALSE
      OBVIOUS
    <2>1. PICK n \in N : \A m \in N : n <= m
      BY LeastNumber
    <2>2. n # 0
      <3>1. (Len(q) + 1) - 0 = Len(q) + 1
        OBVIOUS
      <3> QED
        BY <1>2, <2>1, <3>1
    <2> DEFINE l == (Len(q) + 1) - n
    <2>3. l \in 1..Len(q) /\ l + 1 = (Len(q) + 1) - (n - 1) /\ n - 1 \in Nat
          /\ n - 1 <= Len(q) /\ n - 1 \notin N
      BY <2>1, <2>2
    <2>4. Right(l + 1)
      BY <2>3
    <2>5. Right(l)
      <3> HIDE DEF l
      <3> QED
        BY <1>3, <2>3, <2>4 DEF Right
    <2> QED
      BY <2>1, <2>5
  <1>5. Right(k)
    <2>1. (Len(q) + 1) - k \in Nat /\ (Len(q) + 1) - k <= Len(q)
          /\ (Len(q) + 1) - ((Len(q) + 1) - k) = k
      OBVIOUS
    <2> QED
      BY <1>4, <2>1
  <1> QED
    BY <1>5 DEF Right

-----------------------------------------------------------------------------
(* Texts *)

Lowered == {LowerCase[c] : c \in Characters}

LEMMA LowerText ==
    ASSUME NEW text \in Seq(Characters)
    PROVE  /\ Lower(text) \in Seq(Lowered)
           /\ Len(Lower(text)) = Len(text) /\ Len(text) \in Nat
           /\ \A i \in 1..Len(text) :
                text[i] \in Characters /\ Lower(text)[i] = LowerCase[text[i]]
  <1>1. /\ DOMAIN text = 1..Len(text) /\ Len(text) \in Nat
        /\ \A i \in 1..Len(text) : text[i] \in Characters
    OBVIOUS
  <1>2. \A i \in 1..Len(text) : LowerCase[text[i]] \in Lowered
    BY <1>1 DEF Lowered
  <1>3. Lower(text) = [i \in 1..Len(text) |-> LowerCase[text[i]]]
    BY <1>1 DEF Lower
  <1> QED
    BY <1>1, <1>2, <1>3

(* lower() makes no character that LIKE or strip() knows, and keeps them.  *)
LEMMA SpecialStays ==
    /\ Special \subseteq Characters /\ Blank \in Characters
    /\ \A c \in Characters, d \in Special \cup {Blank} : LowerCase[c] = d <=> c = d
  <1>1. Blank \notin Special
    BY Zenon DEF Blank, Special
  <1> QED
    BY <1>1, TextsOK DEF Special

LEMMA GreatestNumber ==
    ASSUME NEW n \in Nat, NEW N \in SUBSET (1..n), N # {}
    PROVE  \E m \in N : \A k \in N : m >= k
  <1> DEFINE M == {k \in Nat : k <= n /\ n - k \in N}
  <1>1. M \in SUBSET Nat /\ M # {}
    <2>1. PICK k \in N : TRUE
      OBVIOUS
    <2>2. n - k \in Nat /\ n - k <= n /\ n - (n - k) = k
      BY <2>1
    <2> QED
      BY <2>1, <2>2
  <1>2. PICK m \in M : \A k \in M : m <= k
    <2> HIDE DEF M
    <2> QED
      BY <1>1, LeastNumber
  <1>3. \A k \in N : n - k \in M
    <2> TAKE k \in N
    <2>1. n - k \in Nat /\ n - k <= n /\ n - (n - k) = k
      OBVIOUS
    <2> QED
      BY <2>1
  <1>4. \A k \in N : n - m >= k
    <2> TAKE k \in N
    <2>1. m \in Nat /\ k \in Nat /\ n - k \in M
      BY <1>2, <1>3
    <2>2. m <= n - k
      BY <1>2, <2>1
    <2> QED
      BY <2>1, <2>2
  <1> QED
    BY <1>2, <1>4

(* strip() cuts a piece out. *)
LEMMA StripText ==
    ASSUME NEW S, NEW text \in Seq(S)
    PROVE  Strip(text) \in Seq(S)
  <1> DEFINE ink == {i \in DOMAIN text : text[i] # Blank}
  <1>1. CASE ink = {}
    BY <1>1 DEF Strip
  <1>2. CASE ink # {}
    <2>1. ink \in SUBSET (1..Len(text)) /\ Len(text) \in Nat /\ ink \in SUBSET Nat
      OBVIOUS
    <2>2. Strip(text) = SubSeq(text, Min(ink), Max(ink))
      BY <1>2 DEF Strip
    <2> HIDE DEF ink
    <2>3. \E m \in ink : \A k \in ink : m <= k
      BY <1>2, <2>1, LeastNumber
    <2>4. \E m \in ink : \A k \in ink : m >= k
      BY <1>2, <2>1, GreatestNumber
    <2>5. Min(ink) \in ink /\ Max(ink) \in ink
      BY <2>3, <2>4, Zenon DEF Min, Max
    <2>6. Min(ink) \in 1..Len(text) /\ Max(ink) \in 1..Len(text)
      BY <2>1, <2>5
    <2> QED
      BY <2>2, <2>6
  <1> QED
    BY <1>1, <1>2

(* Where there is no blank, nothing. *)
LEMMA StripNothing ==
    ASSUME NEW S, NEW text \in Seq(S), ~Contains(text, Blank), text # <<>>
    PROVE  Strip(text) = text
  <1> DEFINE n == Len(text)
  <1>1. n \in Nat /\ n >= 1 /\ DOMAIN text = 1..n
    OBVIOUS
  <1>2. {i \in DOMAIN text : text[i] # Blank} = 1..n
    BY <1>1 DEF Contains
  <1>3. Strip(text) = SubSeq(text, Min(1..n), Max(1..n))
    <2>1. 1..n # {}
      BY <1>1
    <2> HIDE DEF n
    <2> QED
      BY <1>2, <2>1, Zenon DEF Strip
  <1> HIDE DEF n
  <1>4. Min(1..n) = 1 /\ Max(1..n) = n
    <2>1. \A x \in 1..n : 1 <= x /\ x <= n
      BY <1>1
    <2>2. 1 \in 1..n /\ n \in 1..n
      BY <1>1
    <2>3. \A x \in 1..n : (\A y \in 1..n : x =< y) => x = 1
      BY <1>1, <2>2
    <2>4. \A x \in 1..n : (\A y \in 1..n : x >= y) => x = n
      BY <1>1, <2>2
    <2>5. Min(1..n) \in 1..n /\ \A y \in 1..n : Min(1..n) =< y
      <3>1. \E x \in 1..n : \A y \in 1..n : x =< y
        BY <2>1, <2>2
      <3> QED
        BY <3>1, Zenon DEF Min
    <2>6. Max(1..n) \in 1..n /\ \A y \in 1..n : Max(1..n) >= y
      <3>1. \E x \in 1..n : \A y \in 1..n : x >= y
        BY <1>1, <2>1, <2>2
      <3> QED
        BY <3>1, Zenon DEF Max
    <2> QED
      BY <2>3, <2>4, <2>5, <2>6
  <1>5. SubSeq(text, 1, n) = text
    BY DEF n
  <1> QED
    BY <1>3, <1>4, <1>5

(* The tail of t from i on begins with q if t goes on there as q does.     *)
LEMMA PrefixContinues ==
    ASSUME NEW S, NEW t \in Seq(S), NEW q \in Seq(S), NEW i \in 1..Len(t) + 1
    PROVE  IsPrefix(q, SubSeq(t, i, Len(t))) <=> Continues(t, i, q, 1)
  <1> DEFINE tail == SubSeq(t, i, Len(t))
             n == Len(q)
  <1>1. /\ Len(t) \in Nat /\ n \in Nat /\ tail \in Seq(S)
        /\ Len(tail) = Len(t) - i + 1
        /\ \A m \in 1..Len(tail) : tail[m] = t[i + m - 1]
    OBVIOUS
  <1>2. SubSeq(q, 1, n) = q
    OBVIOUS
  <1> HIDE DEF tail
  <1>3. n <= Len(tail) <=> i + (n - 1) <= Len(t)
    BY <1>1
  <1>4. CASE ~(n <= Len(tail))
    BY <1>3, <1>4 DEF IsPrefix, Continues, tail
  <1>5. CASE n <= Len(tail)
    <2>1. /\ SubSeq(tail, 1, n) \in Seq(S) /\ Len(SubSeq(tail, 1, n)) = n
          /\ \A m \in 1..n : SubSeq(tail, 1, n)[m] = tail[m]
      BY <1>1, <1>5
    <2>2. q = SubSeq(tail, 1, n) <=> \A m \in 1..n : q[m] = tail[m]
      BY <1>1, <2>1
    <2>3. ASSUME \A m \in 1..n : q[m] = tail[m], NEW k \in 0..(n - 1)
          PROVE  t[i + k] = q[1 + k]
      <3>1. 1 + k \in 1..n /\ 1 + k \in 1..Len(tail) /\ i + (1 + k) - 1 = i + k
        BY <1>1, <1>5
      <3>2. q[1 + k] = tail[1 + k] /\ tail[1 + k] = t[i + (1 + k) - 1]
        BY <1>1, <2>3, <3>1
      <3> QED
        BY <3>1, <3>2
    <2>4. ASSUME \A k \in 0..(n - 1) : t[i + k] = q[1 + k], NEW m \in 1..n
          PROVE  q[m] = tail[m]
      <3>1. m - 1 \in 0..(n - 1) /\ m \in 1..Len(tail)
            /\ 1 + (m - 1) = m /\ i + (m - 1) = i + m - 1
        BY <1>1, <1>5
      <3>2. t[i + (m - 1)] = q[1 + (m - 1)] /\ tail[m] = t[i + m - 1]
        BY <1>1, <2>4, <3>1
      <3> QED
        BY <3>1, <3>2
    <2>5. (\A m \in 1..n : q[m] = tail[m]) <=> \A k \in 0..(n - 1) : t[i + k] = q[1 + k]
      BY <2>3, <2>4
    <2>6. IsPrefix(q, tail) <=> \A m \in 1..n : q[m] = tail[m]
      BY <1>2, <1>5, <2>2 DEF IsPrefix
    <2>7. Continues(t, i, q, 1) <=> \A k \in 0..(n - 1) : t[i + k] = q[1 + k]
      BY <1>3, <1>5 DEF Continues
    <2> QED
      BY <2>5, <2>6, <2>7 DEF tail
  <1> QED
    BY <1>4, <1>5

(* A word of t starts with q: t does, or it goes on so after a blank.      *)
LEMMA WordStarts ==
    ASSUME NEW S, Blank \in S, NEW t \in Seq(S), NEW q \in Seq(S), q # <<>>
    PROVE  LET name == <<Blank>> \o t
           IN  (\E i \in 2..Len(name) :
                  name[i - 1] = Blank /\ IsPrefix(q, SubSeq(name, i, Len(name))))
               <=> \/ Continues(t, 1, q, 1)
                   \/ \E k \in 1..Len(t) : t[k] = Blank /\ Continues(t, k + 1, q, 1)
  <1> DEFINE name == <<Blank>> \o t
  <1>1. /\ name \in Seq(S) /\ Len(name) = Len(t) + 1 /\ Len(t) \in Nat
        /\ name[1] = Blank /\ \A k \in 1..Len(t) : name[k + 1] = t[k]
        /\ Len(q) \in Nat \ {0}
    OBVIOUS
  <1> HIDE DEF name
  <1>2. ASSUME NEW i \in 2..Len(name)
        PROVE  IsPrefix(q, SubSeq(name, i, Len(name))) <=> Continues(t, i - 1, q, 1)
    <2>1. IsPrefix(q, SubSeq(name, i, Len(name))) <=> Continues(name, i, q, 1)
      <3>1. i \in 1..Len(name) + 1
        BY <1>1
      <3> QED
        BY <1>1, <3>1, PrefixContinues
    <2>2. i + (Len(q) - 1) <= Len(name) <=> (i - 1) + (Len(q) - 1) <= Len(t)
      BY <1>1
    <2>3. ASSUME i + (Len(q) - 1) <= Len(name), NEW m \in 0..(Len(q) - 1)
          PROVE  name[i + m] = t[(i - 1) + m]
      <3>1. (i - 1) + m \in 1..Len(t) /\ ((i - 1) + m) + 1 = i + m
        BY <1>1, <2>3
      <3>2. name[((i - 1) + m) + 1] = t[(i - 1) + m]
        BY <1>1, <3>1
      <3> QED
        BY <3>1, <3>2
    <2> QED
      BY <2>1, <2>2, <2>3 DEF Continues
  <1>3. ASSUME NEW i \in 2..Len(name), name[i - 1] = Blank, Continues(t, i - 1, q, 1)
        PROVE  \/ Continues(t, 1, q, 1)
               \/ \E k \in 1..Len(t) : t[k] = Blank /\ Continues(t, k + 1, q, 1)
    <2>1. CASE i = 2
      BY <1>3, <2>1
    <2>2. CASE i # 2
      <3>1. i - 2 \in 1..Len(t) /\ (i - 2) + 1 = i - 1
        BY <1>1, <2>2
      <3>2. name[(i - 2) + 1] = t[i - 2]
        BY <1>1, <3>1
      <3> QED
        BY <1>3, <3>1, <3>2
    <2> QED
      BY <2>1, <2>2
  <1>4. ASSUME Continues(t, 1, q, 1)
        PROVE  \E i \in 2..Len(name) : name[i - 1] = Blank /\ Continues(t, i - 1, q, 1)
    <2>1. 2 \in 2..Len(name) /\ 2 - 1 = 1
      BY <1>1, <1>4 DEF Continues
    <2> QED
      BY <1>1, <1>4, <2>1
  <1>5. ASSUME NEW k \in 1..Len(t), t[k] = Blank, Continues(t, k + 1, q, 1)
        PROVE  \E i \in 2..Len(name) : name[i - 1] = Blank /\ Continues(t, i - 1, q, 1)
    <2>1. k + 2 \in 2..Len(name) /\ (k + 2) - 1 = k + 1
      BY <1>1, <1>5 DEF Continues
    <2>2. name[k + 1] = Blank
      BY <1>1, <1>5
    <2> QED
      BY <1>5, <2>1, <2>2
  <1>6. (\E i \in 2..Len(name) :
           name[i - 1] = Blank /\ IsPrefix(q, SubSeq(name, i, Len(name))))
        <=> \/ Continues(t, 1, q, 1)
            \/ \E k \in 1..Len(t) : t[k] = Blank /\ Continues(t, k + 1, q, 1)
    BY <1>2, <1>3, <1>4, <1>5
  <1> QED
    BY <1>6 DEF name

-----------------------------------------------------------------------------
(* What the patterns fit *)

LEMMA Joined ==
    ASSUME NEW S, NEW a \in Seq(S), NEW b \in Seq(S)
    PROVE  /\ a \o b \in Seq(S) /\ Len(a \o b) = Len(a) + Len(b)
           /\ \A i \in 1..Len(a) : (a \o b)[i] = a[i]
           /\ \A i \in 1..Len(b) : (a \o b)[Len(a) + i] = b[i]
  OBVIOUS

LEMMA Limits ==
    MinQueryLength \in Nat \ {0} /\ MaxResults \in Nat \ {0} /\ IsFiniteSet(Ids)
  BY Zenon, TextsOK DEF TextsOK

LEMMA StripCharacters ==
    ASSUME NEW query \in Queries
    PROVE  Strip(query) \in Seq(Characters)
  BY TextsOK, StripText

(* A prefix pattern, lowered, spells what was typed, lowered. *)
LEMMA PrefixSpells ==
    ASSUME NEW text \in Seq(Characters)
    PROVE  LET pattern == Append(LikeFragment(text), "%") IN
           /\ pattern \in Seq(Characters)
           /\ \E place : Spells(Lower(pattern), Lower(text), place) /\ place[1] = 1
  <1> DEFINE out == LikeFragment(text)
             pattern == Append(out, "%")
             p == Lower(pattern)
             q == Lower(text)
             n == Len(text)
  <1>1. out \in Seq(Characters) /\ \E place : Escapes(out, text, n, Special, place)
    BY FragmentEscapes, SpecialStays
  <1>2. PICK place : Escapes(out, text, n, Special, place)
    BY <1>1
  <1> HIDE DEF out
  <1>3. "%" \in Special /\ "!" \in Special
    BY DEF Special
  <1>4. /\ pattern \in Seq(Characters) /\ Len(out) \in Nat /\ n \in Nat
        /\ Len(pattern) = Len(out) + 1 /\ pattern[Len(out) + 1] = "%"
        /\ \A i \in 1..Len(out) : pattern[i] = out[i]
    BY <1>1, <1>3, SpecialStays
  <1> HIDE DEF pattern, n
  <1>5. /\ Len(p) = Len(out) + 1
        /\ \A i \in 1..Len(out) + 1 :
              pattern[i] \in Characters /\ p[i] = LowerCase[pattern[i]]
    BY <1>4, LowerText
  <1>6. /\ Len(q) = n
        /\ \A k \in 1..n : text[k] \in Characters /\ q[k] = LowerCase[text[k]]
    BY LowerText DEF n
  <1> HIDE DEF p, q
  <1>7. \A c \in Characters, d \in Special : LowerCase[c] = d <=> c = d
    BY SpecialStays
  <1>8. place \in [1..Len(q) + 1 -> 1..Len(p)] /\ place[Len(q) + 1] = Len(p)
    BY <1>2, <1>5, <1>6 DEF Escapes
  <1>9. p[Len(p)] = "%"
    <2>1. Len(out) + 1 \in 1..Len(out) + 1
      BY <1>4
    <2> QED
      BY <1>3, <1>4, <1>5, <1>7, <2>1
  <1>10. ASSUME NEW k \in 1..Len(q)
         PROVE  IF q[k] \in Special
                THEN p[place[k]] = "!" /\ p[place[k] + 1] = q[k]
                     /\ place[k + 1] = place[k] + 2
                ELSE p[place[k]] = q[k] /\ place[k + 1] = place[k] + 1
    <2> DEFINE x == place[k]
               y == place[k + 1]
    <2>1. /\ text[k] \in Characters /\ q[k] = LowerCase[text[k]]
          /\ (q[k] \in Special <=> text[k] \in Special)
      BY <1>6, <1>7
    <2>2. IF text[k] \in Special
          THEN out[x] = "!" /\ out[x + 1] = text[k] /\ y = x + 2
          ELSE out[x] = text[k] /\ y = x + 1
      BY <1>2, <1>6 DEF Escapes
    <2>3. x \in Nat /\ x >= 1 /\ y <= Len(out) + 1 /\ Len(out) \in Nat
      BY <1>4, <1>5, <1>6, <1>8
    <2> HIDE DEF x, y
    <2>4. \A i \in 1..Len(out) : p[i] = LowerCase[out[i]] /\ out[i] \in Characters
      BY <1>4, <1>5
    <2>5. CASE text[k] \in Special
      <3>1. x \in 1..Len(out) /\ x + 1 \in 1..Len(out)
        BY <2>2, <2>3, <2>5
      <3>2. p[x] = "!" /\ p[x + 1] = LowerCase[text[k]]
        <4>1. p[x] = LowerCase[out[x]] /\ p[x + 1] = LowerCase[out[x + 1]]
              /\ out[x] \in Characters
          BY <2>4, <3>1
        <4> QED
          BY <1>3, <1>7, <2>2, <2>5, <4>1
      <3> QED
        BY <2>1, <2>2, <2>5, <3>2 DEF x, y
    <2>6. CASE text[k] \notin Special
      <3>1. x \in 1..Len(out)
        BY <2>2, <2>3, <2>6
      <3> QED
        BY <2>1, <2>2, <2>4, <2>6, <3>1 DEF x, y
    <2> QED
      BY <2>5, <2>6
  <1>11. Spells(p, q, place) /\ place[1] = 1
    BY <1>2, <1>8, <1>9, <1>10 DEF Spells, Escapes
  <1> QED
    BY <1>4, <1>11 DEF p, q, pattern, out

(* The address, or the name, starts with what was typed. *)
LEMMA PrefixLike ==
    ASSUME NEW text \in Seq(Characters), NEW query \in Queries
    PROVE  ILike(text, Prefix(query))
             <=> Continues(Lower(text), 1, Lower(Strip(query)), 1)
  <1> DEFINE t == Lower(text)
             q == Lower(Strip(query))
             p == Lower(Prefix(query))
  <1>1. /\ Prefix(query) \in Seq(Characters)
        /\ \E place : Spells(p, q, place) /\ place[1] = 1
    BY StripCharacters, PrefixSpells DEF Prefix
  <1>2. PICK place : Spells(p, q, place) /\ place[1] = 1
    BY <1>1
  <1>3. Len(t) \in Nat /\ Len(p) \in Nat /\ Len(q) \in Nat
    BY <1>1, LowerText, StripCharacters
  <1>4. PICK f : FitsFrom(f, t, p, 1) /\ (ILike(text, Prefix(query)) <=> 1 \in f[1])
    BY <1>3, ILikeFits
  <1> HIDE DEF t, q, p
  <1>5. 1 \in 1..Len(q) + 1 /\ 1 \in 1..Len(t) + 1
    BY <1>3
  <1>6. 1 \in f[place[1]] <=> Continues(t, 1, q, 1)
    BY <1>2, <1>3, <1>4, <1>5, SpelledFits
  <1> QED
    BY <1>2, <1>4, <1>6 DEF t, q

(* A blank of the text is followed by what was typed. *)
LEMMA WordLike ==
    ASSUME NEW text \in Seq(Characters), NEW query \in Queries
    PROVE  ILike(text, Word(query))
             <=> \E k \in 1..Len(Lower(text)) :
                    /\ Lower(text)[k] = Blank
                    /\ Continues(Lower(text), k + 1, Lower(Strip(query)), 1)
  <1> DEFINE t == Lower(text)
             q == Lower(Strip(query))
             r == Lower(Prefix(query))
             p == Lower(Word(query))
  <1>1. /\ Prefix(query) \in Seq(Characters)
        /\ \E place : Spells(r, q, place) /\ place[1] = 1
    BY StripCharacters, PrefixSpells DEF Prefix
  <1>2. PICK place : Spells(r, q, place) /\ place[1] = 1
    BY <1>1
  <1>3. Len(t) \in Nat /\ Len(r) \in Nat /\ Len(q) \in Nat
        /\ Len(r) = Len(Prefix(query))
        /\ \A i \in 1..Len(r) : r[i] = LowerCase[Prefix(query)[i]]
    BY <1>1, LowerText, StripCharacters
  <1>4. "%" \in Special /\ "%" \in Characters /\ Blank \in Characters
        /\ LowerCase["%"] = "%" /\ LowerCase[Blank] = Blank
    <2>1. "%" \in Special
      BY DEF Special
    <2> QED
      BY <2>1, SpecialStays
  <1>5. /\ Word(query) \in Seq(Characters)
        /\ Len(Word(query)) = Len(Prefix(query)) + 2
        /\ Word(query)[1] = "%" /\ Word(query)[2] = Blank
        /\ \A i \in 1..Len(Prefix(query)) : Word(query)[i + 2] = Prefix(query)[i]
    <2> DEFINE two == <<"%", Blank>>
    <2>1. two \in Seq(Characters) /\ Len(two) = 2 /\ two[1] = "%" /\ two[2] = Blank
      BY <1>4
    <2> HIDE DEF two
    <2>2. /\ two \o Prefix(query) \in Seq(Characters)
          /\ Len(two \o Prefix(query)) = 2 + Len(Prefix(query))
          /\ \A i \in 1..2 : (two \o Prefix(query))[i] = two[i]
          /\ \A i \in 1..Len(Prefix(query)) :
                (two \o Prefix(query))[2 + i] = Prefix(query)[i]
      <3> DEFINE rest == Prefix(query)
      <3>1. rest \in Seq(Characters)
        BY <1>1
      <3> HIDE DEF rest
      <3>0. two \in Seq(Characters)
        BY <2>1
      <3>2. /\ two \o rest \in Seq(Characters) /\ Len(two \o rest) = Len(two) + Len(rest)
            /\ \A i \in 1..Len(two) : (two \o rest)[i] = two[i]
            /\ \A i \in 1..Len(rest) : (two \o rest)[Len(two) + i] = rest[i]
        BY <3>0, <3>1
      <3> QED
        BY <2>1, <3>2 DEF rest
    <2>3. Word(query) = two \o Prefix(query)
      BY DEF Word, two
    <2> QED
      BY <1>1, <1>3, <2>1, <2>2, <2>3
  <1>6. /\ Len(p) = Len(r) + 2 /\ p[1] = "%" /\ p[2] = Blank
        /\ \A i \in 1..Len(r) : p[i + 2] = r[i]
    <2>1. /\ Len(p) = Len(Word(query))
          /\ \A i \in 1..Len(Word(query)) : p[i] = LowerCase[Word(query)[i]]
      BY <1>5, LowerText
    <2> HIDE DEF p, r
    <2>2. \A i \in 1..Len(r) : i + 2 \in 1..Len(Word(query))
      BY <1>3, <1>5
    <2> QED
      BY <1>3, <1>4, <1>5, <2>1, <2>2
  <1> HIDE DEF t, q, r, p
  <1> DEFINE shifted == [k \in 1..Len(q) + 1 |-> place[k] + 2]
  <1>7. /\ place \in [1..Len(q) + 1 -> 1..Len(r)]
        /\ place[Len(q) + 1] = Len(r) /\ r[Len(r)] = "%"
    BY <1>2 DEF Spells
  <1>8. Spells(p, q, shifted) /\ shifted[1] = 3
    <2>1. shifted \in [1..Len(q) + 1 -> 1..Len(p)] /\ shifted[Len(q) + 1] = Len(p)
          /\ shifted[1] = 3
      BY <1>2, <1>3, <1>6, <1>7
    <2>2. p[Len(p)] = "%"
      <3>1. Len(r) \in 1..Len(r)
        BY <1>3, <1>7
      <3> QED
        BY <1>6, <1>7, <3>1
    <2>3. ASSUME NEW k \in 1..Len(q)
          PROVE  IF q[k] \in Special
                 THEN p[shifted[k]] = "!" /\ p[shifted[k] + 1] = q[k]
                      /\ shifted[k + 1] = shifted[k] + 2
                 ELSE p[shifted[k]] = q[k] /\ shifted[k + 1] = shifted[k] + 1
      <3> DEFINE x == place[k]
                 y == place[k + 1]
      <3>1. x \in 1..Len(r) /\ y \in 1..Len(r)
            /\ shifted[k] = x + 2 /\ shifted[k + 1] = y + 2
        BY <1>3, <1>7
      <3>2. IF q[k] \in Special
            THEN r[x] = "!" /\ r[x + 1] = q[k] /\ y = x + 2
            ELSE r[x] = q[k] /\ y = x + 1
        BY <1>2 DEF Spells
      <3> HIDE DEF x, y, shifted
      <3>3. p[x + 2] = r[x]
        BY <1>6, <3>1
      <3>4. CASE q[k] \in Special
        <4>1. x + 1 \in 1..Len(r) /\ (x + 1) + 2 = (x + 2) + 1
          BY <1>3, <3>1, <3>2, <3>4
        <4>2. p[(x + 1) + 2] = r[x + 1]
          BY <1>6, <4>1
        <4> QED
          BY <3>1, <3>2, <3>3, <3>4, <4>1, <4>2
      <3>5. CASE q[k] \notin Special
        BY <3>1, <3>2, <3>3, <3>5
      <3> QED
        BY <3>4, <3>5
    <2> HIDE DEF shifted
    <2> QED
      BY <2>1, <2>2, <2>3 DEF Spells
  <1> HIDE DEF shifted
  <1>9. Len(p) \in Nat /\ Len(p) >= 3
    BY <1>3, <1>6, <1>7
  <1>10. PICK f : FitsFrom(f, t, p, 1) /\ (ILike(text, Word(query)) <=> 1 \in f[1])
    BY <1>9, ILikeFits DEF t, p
  <1>11. \A j \in 1..Len(p) + 2 : f[j] = From(t, p, j, f[j + 1], f[j + 2])
    BY <1>10 DEF FitsFrom
  <1>12. \A i \in 1..Len(t) + 1 : i \in f[3] <=> Continues(t, i, q, 1)
    <2>1. 1 \in 1..Len(q) + 1
      BY <1>3
    <2>2. \A i \in 1..Len(t) + 1 : i \in f[shifted[1]] <=> Continues(t, i, q, 1)
      BY <1>3, <1>8, <1>9, <1>10, <2>1, SpelledFits
    <2> QED
      BY <1>8, <2>2
  <1>13. \A i : i \in f[2] <=>
                  i \in 1..Len(t) /\ t[i] = Blank /\ Continues(t, i + 1, q, 1)
    <2>1. f[2] = From(t, p, 2, f[3], f[4])
      <3>1. 2 \in 1..Len(p) + 2 /\ 2 + 1 = 3 /\ 2 + 2 = 4
        BY <1>9
      <3> QED
        BY <1>11, <3>1
    <2>2. Blank # "%" /\ Blank # "!" /\ Blank # "_"
      BY Zenon DEF Blank
    <2>3. ~(2 > Len(p))
      BY <1>9
    <2>4. \A i : i \in f[2] <=> i \in 1..Len(t) + 1 /\ i <= Len(t)
                                /\ t[i] = Blank /\ i + 1 \in f[3]
      BY <1>6, <2>1, <2>2, <2>3 DEF From
    <2>5. \A i \in 1..Len(t) : i + 1 \in 1..Len(t) + 1
      BY <1>3
    <2> QED
      BY <1>3, <1>12, <2>4, <2>5
  <1>14. 1 \in f[1] <=> \E k \in f[2] : 1 <= k
    <2>1. f[1] = From(t, p, 1, f[2], f[3])
      <3>1. 1 \in 1..Len(p) + 2 /\ 1 + 1 = 2 /\ 1 + 2 = 3
        BY <1>9
      <3> QED
        BY <1>11, <3>1
    <2>2. ~(1 > Len(p)) /\ 1 \in 1..Len(t) + 1
      BY <1>3, <1>9
    <2> QED
      BY <1>6, <2>1, <2>2 DEF From
  <1>15. 1 \in f[1] <=> \E k \in 1..Len(t) : t[k] = Blank /\ Continues(t, k + 1, q, 1)
    <2>1. \A k \in 1..Len(t) : 1 <= k
      BY <1>3
    <2> QED
      BY <1>13, <1>14, <2>1
  <1> QED
    BY <1>10, <1>15 DEF t, q

-----------------------------------------------------------------------------
(* Accounts *)

(* Where a coroutine stands says which of its objects exist, and the rows  *)
(* they were read from are still there (no action deletes one).            *)
ControlOf(w) ==
    /\ pc[w] \in {"insertUser", "loadUser", "commitUser"} =>
          user[w] # None /\ event[w] # None
    /\ pc[w] \in {"loadUser", "commitUser"} => Exists(user[w].id)
    /\ pc[w] = "commitUser" => row[w] # None
    /\ pc[w] = "insertAsk" => ask[w] # None /\ event[w] # None
    /\ pc[w] \in {"readGrantee", "loadAsk", "commitAsk"} => ask[w] # None
    /\ pc[w] = "commitAsk" => askRow[w] # None
    /\ ask[w] # None => Exists(ask[w].user)
    /\ ask[w] # None /\ pc[w] # "insertAsk" =>
          requests[ask[w].id] # None /\ ask[w].by \in Ids

RequestersExist ==
    \A q \in RequestIds : requests[q] # None => Exists(requests[q].user)

Control == RequestersExist /\ \A w \in Workers : ControlOf(w)

Typed == TypeOK /\ Control

USE ConstantsOK, NoneIsNew

(* A row merged from rows is a row, and keeps its key. *)
LEMMA MergeUserType ==
    ASSUME NEW o \in UserRow, NEW l \in UserRow, NEW c \in UserRow
    PROVE  /\ MergeUser(o, l, c) \in UserRow
           /\ MergeUser(o, l, c).id = c.id
           /\ MergeUser(o, l, c).email = c.email
           /\ MergeUser(o, l, c).role \in {o.role, c.role}
           /\ MergeUser(o, l, c).state \in {o.state, c.state}
  BY DEF MergeUser, UserRow

LEMMA MergeRequestType ==
    ASSUME NEW o \in RequestRow, NEW l \in RequestRow, NEW c \in RequestRow
    PROVE  /\ MergeRequest(o, l, c) \in RequestRow
           /\ MergeRequest(o, l, c).id = c.id
           /\ MergeRequest(o, l, c).user = c.user
           /\ MergeRequest(o, l, c).role = c.role
  BY DEF MergeRequest, RequestRow

LEMMA InitialRowType ==
    ASSUME NEW u \in Leftover \cup {Admin}
    PROVE  InitialRow(u) \in UserRow /\ InitialRow(u).id = u
  BY DEF InitialRow, SuperAdmin, Registered, UserRow, Roles, States

LEMMA EventType ==
    ASSUME NEW t \in EventTypes, NEW u \in Ids, NEW a \in Ids,
           NEW r \in Roles \cup {None}
    PROVE  Event(t, u, a, r) \in Events
  BY DEF Event, Events

LEMMA HeldAfterType ==
    ASSUME held \in [Ids -> SUBSET Roles],
           NEW table \in [Ids -> UserRow \cup {None}]
    PROVE  HeldAfter(table) \in [Ids -> SUBSET Roles]
  BY DEF HeldAfter, UserRow

LEMMA InitTyped == Init => Typed
  <1> SUFFICES ASSUME Init PROVE Typed
    OBVIOUS
  <1>1. users \in [Ids -> UserRow \cup {None}] /\ \A u \in Ids : Exists(u) => users[u].id = u
    BY InitialRowType DEF Init, InitialUsers, Exists
  <1>2. held \in [Ids -> SUBSET Roles] /\ outbox \in Seq(Events) /\ pc \in [Workers -> PCs]
    BY DEF Init, Roles, PCs
  <1>3. TypeOK
    BY <1>1, <1>2 DEF Init, TypeOK, DbTypeOK, SessionTypeOK
  <1>4. Control
    BY DEF Init, Control, ControlOf, RequestersExist
  <1> QED
    BY <1>3, <1>4 DEF Typed

-----------------------------------------------------------------------------
(* What the shared steps do to the sessions. *)

(* No session but w's moves. *)
OthersStay(w) ==
    \A x \in Workers \ {w} :
        /\ pc'[x] = pc[x] /\ user'[x] = user[x] /\ event'[x] = event[x]
        /\ row'[x] = row[x] /\ ask'[x] = ask[x] /\ askRow'[x] = askRow[x]

(* No row disappears. *)
RowsStay ==
    /\ \A u \in Ids : Exists(u) => Exists(u)'
    /\ \A q \in RequestIds : requests[q] # None => requests'[q] # None

LEMMA FinishTyped ==
    ASSUME SessionTypeOK, NEW w \in Workers, Finish(w)
    PROVE  SessionTypeOK' /\ ControlOf(w)' /\ OthersStay(w)
  <1>1. SessionTypeOK'
    BY DEF SessionTypeOK, Finish, GoTo, Holds, PCs
  <1>2. ControlOf(w)' /\ OthersStay(w)
    BY DEF SessionTypeOK, Finish, GoTo, Holds, ControlOf, OthersStay
  <1> QED
    BY <1>1, <1>2

(* A step of w keeps Typed if it keeps its own control state right and     *)
(* takes no row away.                                                      *)
LEMMA StepTyped ==
    ASSUME Typed, NEW w \in Workers, TypeOK', RequestersExist',
           ControlOf(w)', OthersStay(w), RowsStay
    PROVE  Typed'
  <1>1. ASSUME NEW x \in Workers \ {w} PROVE ControlOf(x)'
    BY DEF Typed, TypeOK, SessionTypeOK, Control, ControlOf, OthersStay, RowsStay, UserRow, RequestRow
  <1> QED
    BY <1>1 DEF Typed, Control

LEMMA RegisterUserTyped ==
    ASSUME Typed, NEW w \in Workers, RegisterUser(w)
    PROVE  Typed'
  <1> PICK s \in Spellings, u \in Ids :
        /\ Holds(w, Registered(u, Normal[s]),
                 Event("UserRegistered", u, u, Registered(u, Normal[s]).role))
        /\ GoTo(w, "insertUser")
        /\ UNCHANGED <<db, row, ask, askRow>>
        /\ pc[w] = "idle"
    BY DEF RegisterUser, Starts
  <1>1. Registered(u, Normal[s]) \in UserRow
    BY DEF Registered, UserRow, Roles, States
  <1>2. Event("UserRegistered", u, u, Registered(u, Normal[s]).role) \in Events
    BY EventType DEF Registered, Roles, EventTypes
  <1>3. TypeOK'
    BY <1>1, <1>2 DEF Typed, TypeOK, DbTypeOK, SessionTypeOK, Holds, GoTo, db, PCs, Exists
  <1>4. ControlOf(w)'
    BY <1>1, <1>2 DEF Typed, TypeOK, SessionTypeOK, Control, ControlOf, Holds, GoTo, db, Exists
  <1>5. OthersStay(w) /\ RowsStay /\ RequestersExist'
    BY DEF Typed, TypeOK, SessionTypeOK, Control, RequestersExist, OthersStay, RowsStay, Holds, GoTo, db, Exists
  <1> QED
    BY <1>3, <1>4, <1>5, StepTyped

LEMMA InsertUserTyped ==
    ASSUME Typed, NEW w \in Workers, InsertUser(w)
    PROVE  Typed'
  <1>1. user[w] \in UserRow /\ event[w] \in Events /\ user[w].id \in Ids
    BY DEF Typed, TypeOK, SessionTypeOK, Control, ControlOf, InsertUser, UserRow
  <1>2. users' \in [Ids -> UserRow \cup {None}] /\ \A u \in Ids : Exists(u)' => users'[u].id = u
    BY <1>1 DEF Typed, TypeOK, DbTypeOK, InsertUser, Exists
  <1>3. held' \in [Ids -> SUBSET Roles]
    BY <1>2, HeldAfterType DEF Typed, TypeOK, DbTypeOK, InsertUser
  <1>4. outbox' \in Seq(Events)
    BY <1>1 DEF Typed, TypeOK, DbTypeOK, InsertUser
  <1>5. SessionTypeOK' /\ ControlOf(w)' /\ OthersStay(w)
    BY FinishTyped DEF Typed, TypeOK, InsertUser
  <1>6. TypeOK'
    BY <1>2, <1>3, <1>4, <1>5 DEF Typed, TypeOK, DbTypeOK, InsertUser
  <1>7. RowsStay /\ RequestersExist'
    BY <1>1 DEF Typed, TypeOK, DbTypeOK, Control, RequestersExist, RowsStay, InsertUser, Exists
  <1> QED
    BY <1>5, <1>6, <1>7, StepTyped

(* A step that builds a changed User object, typed and of a stored account *)
LEMMA ChangesUserTyped ==
    ASSUME Typed, NEW w \in Workers, NEW object \in UserRow, NEW e \in Events,
           Exists(object.id), pc[w] # "insertAsk", ChangesUser(w, object, e)
    PROVE  Typed'
  <1>1. TypeOK'
    BY DEF Typed, TypeOK, DbTypeOK, SessionTypeOK, ChangesUser, Holds, GoTo, db, PCs, Exists
  <1>2. ControlOf(w)'
    BY DEF Typed, TypeOK, SessionTypeOK, Control, ControlOf, ChangesUser, Holds, GoTo, db, Exists
  <1>3. OthersStay(w) /\ RowsStay /\ RequestersExist'
    BY DEF Typed, TypeOK, SessionTypeOK, Control, RequestersExist, OthersStay, RowsStay,
           ChangesUser, Holds, GoTo, db, Exists
  <1> QED
    BY <1>1, <1>2, <1>3, StepTyped

LEMMA GrantRoleTyped ==
    ASSUME Typed, NEW w \in Workers, GrantRole(w)
    PROVE  Typed'
  <1> DEFINE granted(u, r) == [users[u] EXCEPT !.role = r]
             told(u, a, r) == Event("RoleGranted", u, a, r)
  <1> PICK a \in Ids, u \in Ids, r \in Roles :
        /\ pc[w] = "idle" /\ Exists(u)
        /\ ChangesUser(w, granted(u, r), told(u, a, r))
    BY DEF GrantRole, Starts
  <1>1. users[u] \in UserRow /\ users[u].id = u
    BY DEF Typed, TypeOK, DbTypeOK, Exists
  <1>2. granted(u, r) \in UserRow /\ granted(u, r).id = u
    BY <1>1 DEF UserRow
  <1>3. told(u, a, r) \in Events
    BY EventType DEF EventTypes
  <1> HIDE DEF granted, told
  <1>4. Exists(granted(u, r).id)
    BY <1>2
  <1> QED
    BY <1>2, <1>3, <1>4, ChangesUserTyped

LEMMA TransitionType ==
    ASSUME NEW verb \in DOMAIN Transition
    PROVE  /\ Transition[verb].from \in States /\ Transition[verb].to \in States
           /\ Transition[verb].event \in EventTypes
  BY DEF Transition, States, EventTypes

LEMMA ModerateTyped ==
    ASSUME Typed, NEW w \in Workers, NEW verb \in DOMAIN Transition, Moderate(w, verb)
    PROVE  Typed'
  <1> DEFINE moved(u) == [users[u] EXCEPT !.state = Transition[verb].to]
             told(u, a) == Event(Transition[verb].event, u, a, None)
  <1> PICK a \in Ids, u \in Ids :
        /\ pc[w] = "idle" /\ Exists(u)
        /\ ChangesUser(w, moved(u), told(u, a))
    BY DEF Moderate, Starts
  <1>1. users[u] \in UserRow /\ users[u].id = u
    BY DEF Typed, TypeOK, DbTypeOK, Exists
  <1>2. moved(u) \in UserRow /\ moved(u).id = u
    BY <1>1, TransitionType DEF UserRow
  <1>3. told(u, a) \in Events
    BY EventType, TransitionType
  <1> HIDE DEF moved, told
  <1>4. Exists(moved(u).id)
    BY <1>2
  <1> QED
    BY <1>2, <1>3, <1>4, ChangesUserTyped

LEMMA ReadGranteeTyped ==
    ASSUME Typed, NEW w \in Workers, ReadGrantee(w)
    PROVE  Typed'
  <1> DEFINE u == ask[w].user
             r == ask[w].role
             granted == [users[u] EXCEPT !.role = r]
             told == Event("RoleGranted", u, ask[w].by, r)
  <1>1. /\ u \in Ids /\ r \in Roles /\ ask[w].by \in Ids /\ Exists(u)
        /\ pc[w] = "readGrantee" /\ ChangesUser(w, granted, told)
    BY DEF Typed, TypeOK, SessionTypeOK, Control, ControlOf, RequestRow, ReadGrantee
  <1>2. users[u] \in UserRow /\ users[u].id = u
    BY <1>1 DEF Typed, TypeOK, DbTypeOK, Exists
  <1>3. granted \in UserRow /\ granted.id = u
    BY <1>1, <1>2 DEF UserRow
  <1>4. told \in Events
    BY <1>1, EventType DEF EventTypes
  <1> HIDE DEF u, r, granted, told
  <1>5. Exists(granted.id)
    BY <1>1, <1>3
  <1> QED
    BY <1>1, <1>3, <1>4, <1>5, ChangesUserTyped

LEMMA LoadUserTyped ==
    ASSUME Typed, NEW w \in Workers, LoadUser(w)
    PROVE  Typed'
  <1>1. users[user[w].id] \in UserRow
    BY DEF Typed, TypeOK, DbTypeOK, SessionTypeOK, Control, ControlOf, LoadUser, Exists, UserRow
  <1>2. TypeOK'
    BY <1>1 DEF Typed, TypeOK, DbTypeOK, SessionTypeOK, LoadUser, GoTo, db, PCs, Exists
  <1>3. ControlOf(w)'
    BY <1>1 DEF Typed, TypeOK, SessionTypeOK, Control, ControlOf, LoadUser, GoTo, db, Exists
  <1>4. OthersStay(w) /\ RowsStay /\ RequestersExist'
    BY DEF Typed, TypeOK, SessionTypeOK, Control, RequestersExist, OthersStay, RowsStay,
           LoadUser, GoTo, db, Exists
  <1> QED
    BY <1>2, <1>3, <1>4, StepTyped

(* The commit of a user leaves the outbox, the table and held well typed.  *)
LEMMA CommitUserRows ==
    ASSUME Typed, NEW w \in Workers, CommitUser(w)
    PROVE  /\ DbTypeOK' /\ RowsStay /\ RequestersExist'
           /\ user[w] \in UserRow /\ event[w] \in Events /\ user[w].id \in Ids
           /\ users[user[w].id] \in UserRow
           /\ users' = [users EXCEPT ![user[w].id] = MergeUser(user[w], row[w], @)]
           /\ outbox' = Append(outbox, event[w])
           /\ MergeUser(user[w], row[w], users[user[w].id]) \in UserRow
  <1> DEFINE u == user[w].id
             merged == MergeUser(user[w], row[w], users[u])
  <1>1. /\ user[w] \in UserRow /\ event[w] \in Events /\ row[w] \in UserRow
        /\ u \in Ids /\ users[u] \in UserRow /\ users[u].id = u
    BY DEF Typed, TypeOK, DbTypeOK, SessionTypeOK, Control, ControlOf, CommitUser, Exists, UserRow
  <1>2. merged \in UserRow /\ merged.id = u
    BY <1>1, MergeUserType
  <1>3. users' = [users EXCEPT ![u] = merged] /\ requests' = requests
        /\ outbox' = Append(outbox, event[w])
    BY DEF CommitUser
  <1> HIDE DEF u, merged
  <1>4. users' \in [Ids -> UserRow \cup {None}] /\ \A v \in Ids : Exists(v)' => users'[v].id = v
    BY <1>1, <1>2, <1>3 DEF Typed, TypeOK, DbTypeOK, Exists
  <1>5. held' \in [Ids -> SUBSET Roles]
    BY <1>4, HeldAfterType DEF Typed, TypeOK, DbTypeOK, CommitUser
  <1>6. outbox' \in Seq(Events)
    BY <1>1, <1>3 DEF Typed, TypeOK, DbTypeOK
  <1>7. DbTypeOK'
    BY <1>3, <1>4, <1>5, <1>6 DEF Typed, TypeOK, DbTypeOK
  <1>8. RowsStay /\ RequestersExist'
    BY <1>1, <1>2, <1>3 DEF Typed, TypeOK, DbTypeOK, Control, RequestersExist, RowsStay, Exists, RequestRow
  <1> QED
    BY <1>1, <1>2, <1>3, <1>7, <1>8 DEF u, merged

LEMMA CommitUserTyped ==
    ASSUME Typed, NEW w \in Workers, CommitUser(w)
    PROVE  Typed'
  <1>1. DbTypeOK' /\ RowsStay /\ RequestersExist'
    BY CommitUserRows
  <1>2. SessionTypeOK' /\ ControlOf(w)' /\ OthersStay(w)
    <2>1. CASE ask[w] = None
      BY <2>1, FinishTyped DEF Typed, TypeOK, CommitUser
    <2>2. CASE ask[w] # None
      <3>1. /\ pc' = [pc EXCEPT ![w] = "loadAsk"] /\ pc[w] = "commitUser"
            /\ Holds(w, None, None) /\ row' = [row EXCEPT ![w] = None]
            /\ ask' = ask /\ askRow' = askRow
        BY <2>2 DEF CommitUser, GoTo
      <3>2. SessionTypeOK' /\ OthersStay(w)
        BY <3>1 DEF Typed, TypeOK, SessionTypeOK, OthersStay, Holds, PCs
      <3>3. ControlOf(w)'
        BY <1>1, <2>2, <3>1 DEF Typed, TypeOK, SessionTypeOK, Control, ControlOf, Holds, RowsStay, RequestRow
      <3> QED
        BY <3>2, <3>3
    <2> QED
      BY <2>1, <2>2
  <1> QED
    BY <1>1, <1>2, StepTyped DEF TypeOK

LEMMA RequestRoleTyped ==
    ASSUME Typed, NEW w \in Workers, RequestRole(w)
    PROVE  Typed'
  <1> DEFINE asked(q, u, r) == [id |-> q, user |-> u, role |-> r,
                                status |-> "PENDING", by |-> None]
  <1> PICK u \in Ids, r \in Roles, q \in RequestIds :
        /\ Exists(u)
        /\ ask' = [ask EXCEPT ![w] = asked(q, u, r)]
        /\ Holds(w, None, Event("RoleRequested", u, u, r))
        /\ GoTo(w, "insertAsk")
        /\ UNCHANGED <<db, row, askRow>>
    BY DEF RequestRole
  <1>1. asked(q, u, r) \in RequestRow /\ asked(q, u, r).user = u
    BY DEF RequestRow, RequestStatuses
  <1>2. Event("RoleRequested", u, u, r) \in Events
    BY EventType DEF EventTypes
  <1> HIDE DEF asked
  <1>3. TypeOK'
    BY <1>1, <1>2 DEF Typed, TypeOK, DbTypeOK, SessionTypeOK, Holds, GoTo, db, PCs, Exists
  <1>4. ControlOf(w)'
    BY <1>1, <1>2 DEF Typed, TypeOK, SessionTypeOK, ControlOf, Holds, GoTo, db, Exists
  <1>5. OthersStay(w) /\ RowsStay /\ RequestersExist'
    BY DEF Typed, TypeOK, SessionTypeOK, Control, RequestersExist, OthersStay, RowsStay, Holds, GoTo, db, Exists
  <1> QED
    BY <1>3, <1>4, <1>5, StepTyped

LEMMA InsertRequestTyped ==
    ASSUME Typed, NEW w \in Workers, InsertRequest(w)
    PROVE  Typed'
  <1>1. /\ ask[w] \in RequestRow /\ event[w] \in Events /\ ask[w].id \in RequestIds
        /\ Exists(ask[w].user)
    BY DEF Typed, TypeOK, SessionTypeOK, Control, ControlOf, InsertRequest, RequestRow
  <1>2. SessionTypeOK' /\ ControlOf(w)' /\ OthersStay(w)
    BY FinishTyped DEF Typed, TypeOK, InsertRequest
  <1>3. DbTypeOK'
    BY <1>1 DEF Typed, TypeOK, DbTypeOK, InsertRequest, Exists
  <1>4. RowsStay /\ RequestersExist'
    BY <1>1 DEF Typed, TypeOK, DbTypeOK, Control, RequestersExist, RowsStay, InsertRequest, Exists
  <1> QED
    BY <1>2, <1>3, <1>4, StepTyped DEF TypeOK

LEMMA DecideRequestTyped ==
    ASSUME Typed, NEW w \in Workers, NEW status \in RequestStatuses,
           NEW next \in {"readGrantee", "loadAsk"}, DecideRequest(w, status, next)
    PROVE  Typed'
  <1> DEFINE decided(q, a) == [requests[q] EXCEPT !.status = status, !.by = a]
  <1> PICK a \in Ids, q \in RequestIds :
        /\ requests[q] # None
        /\ ask' = [ask EXCEPT ![w] = decided(q, a)]
        /\ GoTo(w, next)
        /\ UNCHANGED <<db, user, event, row, askRow>>
    BY DEF DecideRequest
  <1>1. requests[q] \in RequestRow /\ requests[q].id = q /\ Exists(requests[q].user)
    BY DEF Typed, TypeOK, DbTypeOK, Control, RequestersExist
  <1>2. /\ decided(q, a) \in RequestRow /\ decided(q, a).id = q /\ decided(q, a).by = a
        /\ decided(q, a).user = requests[q].user
    BY <1>1 DEF RequestRow
  <1> HIDE DEF decided
  <1>3. TypeOK'
    BY <1>2 DEF Typed, TypeOK, DbTypeOK, SessionTypeOK, GoTo, db, PCs, Exists
  <1>4. ControlOf(w)'
    BY <1>1, <1>2 DEF Typed, TypeOK, SessionTypeOK, ControlOf, GoTo, db, Exists
  <1>5. OthersStay(w) /\ RowsStay /\ RequestersExist'
    BY DEF Typed, TypeOK, SessionTypeOK, Control, RequestersExist, OthersStay, RowsStay, GoTo, db, Exists
  <1> QED
    BY <1>3, <1>4, <1>5, StepTyped

LEMMA LoadRequestTyped ==
    ASSUME Typed, NEW w \in Workers, LoadRequest(w)
    PROVE  Typed'
  <1>1. requests[ask[w].id] \in RequestRow
    BY DEF Typed, TypeOK, DbTypeOK, SessionTypeOK, Control, ControlOf, LoadRequest, RequestRow
  <1>2. TypeOK'
    BY <1>1 DEF Typed, TypeOK, DbTypeOK, SessionTypeOK, LoadRequest, GoTo, db, PCs, Exists
  <1>3. ControlOf(w)'
    BY <1>1 DEF Typed, TypeOK, SessionTypeOK, Control, ControlOf, LoadRequest, GoTo, db, Exists
  <1>4. OthersStay(w) /\ RowsStay /\ RequestersExist'
    BY DEF Typed, TypeOK, SessionTypeOK, Control, RequestersExist, OthersStay, RowsStay,
           LoadRequest, GoTo, db, Exists
  <1> QED
    BY <1>2, <1>3, <1>4, StepTyped

LEMMA CommitRequestTyped ==
    ASSUME Typed, NEW w \in Workers, CommitRequest(w)
    PROVE  Typed'
  <1> DEFINE q == ask[w].id
             merged == MergeRequest(ask[w], askRow[w], requests[q])
  <1>1. /\ q \in RequestIds /\ ask[w] \in RequestRow /\ askRow[w] \in RequestRow
        /\ requests[q] \in RequestRow /\ requests[q].id = q
    BY DEF Typed, TypeOK, DbTypeOK, SessionTypeOK, Control, ControlOf, CommitRequest, RequestRow
  <1>2. merged \in RequestRow /\ merged.id = q /\ merged.user = requests[q].user
    BY <1>1, MergeRequestType
  <1>3. requests' = [requests EXCEPT ![q] = merged] /\ UNCHANGED <<users, outbox, held>>
    BY DEF CommitRequest
  <1>4. SessionTypeOK' /\ ControlOf(w)' /\ OthersStay(w)
    BY FinishTyped DEF Typed, TypeOK, CommitRequest
  <1> HIDE DEF q, merged
  <1>5. DbTypeOK'
    BY <1>1, <1>2, <1>3 DEF Typed, TypeOK, DbTypeOK, Exists
  <1>6. RowsStay /\ RequestersExist'
    BY <1>1, <1>2, <1>3 DEF Typed, TypeOK, DbTypeOK, Control, RequestersExist, RowsStay, Exists
  <1> QED
    BY <1>4, <1>5, <1>6, StepTyped DEF TypeOK

(* A request that ends without a commit changes no row. *)
LEMMA AbortTyped ==
    ASSUME Typed, NEW w \in Workers, Finish(w), UNCHANGED db
    PROVE  Typed'
  <1>1. SessionTypeOK' /\ ControlOf(w)' /\ OthersStay(w)
    BY FinishTyped DEF Typed, TypeOK
  <1>2. DbTypeOK' /\ RowsStay /\ RequestersExist'
    BY DEF Typed, TypeOK, DbTypeOK, Control, RequestersExist, RowsStay, Exists, db
  <1> QED
    BY <1>1, <1>2, StepTyped DEF TypeOK

LEMMA NextTyped == Typed /\ [Next]_vars => Typed'
  <1> SUFFICES ASSUME Typed, [Next]_vars PROVE Typed'
    OBVIOUS
  <1>1. CASE UNCHANGED vars
    BY <1>1 DEF vars, Typed, TypeOK, DbTypeOK, SessionTypeOK, Control, ControlOf, RequestersExist, Exists
  <1>2. ASSUME NEW w \in Workers, Step(w) PROVE Typed'
    <2>1. CASE RegisterUser(w)
      BY <2>1, RegisterUserTyped
    <2>2. CASE InsertUser(w)
      BY <2>2, InsertUserTyped
    <2>3. CASE InsertUserConflict(w)
      BY <2>3, AbortTyped DEF InsertUserConflict
    <2>4. CASE GrantRole(w)
      BY <2>4, GrantRoleTyped
    <2>5. CASE BanUser(w) \/ UnbanUser(w) \/ ApproveRegistration(w) \/ RejectRegistration(w)
      BY <2>5, ModerateTyped
         DEF BanUser, UnbanUser, ApproveRegistration, RejectRegistration, Transition
    <2>6. CASE LoadUser(w)
      BY <2>6, LoadUserTyped
    <2>7. CASE CommitUser(w)
      BY <2>7, CommitUserTyped
    <2>8. CASE RequestRole(w)
      BY <2>8, RequestRoleTyped
    <2>9. CASE InsertRequest(w)
      BY <2>9, InsertRequestTyped
    <2>10. CASE ApproveRequest(w) \/ RejectRequest(w)
      BY <2>10, DecideRequestTyped DEF ApproveRequest, RejectRequest, RequestStatuses
    <2>11. CASE ReadGrantee(w)
      BY <2>11, ReadGranteeTyped
    <2>12. CASE LoadRequest(w)
      BY <2>12, LoadRequestTyped
    <2>13. CASE CommitRequest(w)
      BY <2>13, CommitRequestTyped
    <2>14. CASE Abort(w)
      BY <2>14, AbortTyped DEF Abort
    <2> QED
      BY <1>2, <2>1, <2>2, <2>3, <2>4, <2>5, <2>6, <2>7, <2>8, <2>9, <2>10,
         <2>11, <2>12, <2>13, <2>14 DEF Step
  <1> QED
    BY <1>1, <1>2 DEF Next

LEMMA TypedAlways == Spec => []Typed
  BY InitTyped, NextTyped, PTL DEF Spec

(* Every variable of Accounts keeps its type, whatever overlaps and        *)
(* wherever a request dies.                                                *)
THEOREM TypeCorrect == Spec => []TypeOK
  <1>1. Typed => TypeOK
    BY DEF Typed
  <1> QED
    BY <1>1, TypedAlways, PTL

-----------------------------------------------------------------------------
(* Every step of a worker is of one of four kinds. *)

(* It commits its User: one row takes each column from the object or keeps *)
(* it, and the object's event goes to the outbox.                          *)
Commits(w) ==
    LET u == user[w].id IN
    /\ user[w] \in UserRow /\ event[w] \in Events /\ users'[u] \in UserRow
    /\ \A v \in Ids \ {u} : users'[v] = users[v]
    /\ users'[u].role = user[w].role \/ (Exists(u) /\ users'[u].role = users[u].role)
    /\ users'[u].state = user[w].state \/ (Exists(u) /\ users'[u].state = users[u].state)
    /\ held' = HeldAfter(users')
    /\ outbox' = Append(outbox, event[w])
    /\ user' = [user EXCEPT ![w] = None] /\ event' = [event EXCEPT ![w] = None]

(* It commits its event alone. *)
Tells(w) ==
    /\ event[w] \in Events
    /\ outbox' = Append(outbox, event[w])
    /\ UNCHANGED <<users, held>>
    /\ user' = [user EXCEPT ![w] = None] /\ event' = [event EXCEPT ![w] = None]

(* It builds a User object and the event that goes with it: what the event *)
(* does not say, the object has from the row it was read from.             *)
RoleSource(o, e) ==
    \/ Exists(o.id) /\ o.role = users[o.id].role
    \/ /\ e.type \in {"UserRegistered", "RoleGranted"}
       /\ e.user = o.id /\ e.role = o.role
       /\ e.type = "UserRegistered" => o.role = "BASIC_USER"

StateSource(o, e) ==
    \/ Exists(o.id) /\ o.state = users[o.id].state
    \/ /\ e.user = o.id /\ Announces(e, o.state)
       /\ o.state = "REJECTED" => Exists(o.id) /\ users[o.id].state = "PENDING"

Authorised(w, e) ==
    /\ e.type \in NeedsModerator =>
          \/ e.by \in Ids /\ MayCallAs(e.by, Moderators)
          \/ ask[w] # None /\ e.by = ask[w].by /\ ask[w].by \in Ids
    /\ e.type = "RoleGranted" =>
          \/ e.by \in Ids /\ MayCallAs(e.by, Granters)
          \/ pc[w] = "readGrantee" /\ e.user = ask[w].user /\ e.role = ask[w].role

Takes(w) ==
    \E o \in UserRow \cup {None}, e \in Events :
        /\ user' = [user EXCEPT ![w] = o] /\ event' = [event EXCEPT ![w] = e]
        /\ UNCHANGED <<users, outbox, held>>
        /\ o # None => RoleSource(o, e) /\ StateSource(o, e)
        /\ Authorised(w, e)

(* It keeps or drops its objects. *)
Quiet(w) ==
    /\ UNCHANGED <<users, outbox, held>>
    /\ \/ UNCHANGED <<user, event>>
       \/ user' = [user EXCEPT ![w] = None] /\ event' = [event EXCEPT ![w] = None]

LEMMA InsertUserKind ==
    ASSUME Typed, NEW w \in Workers, InsertUser(w)
    PROVE  Commits(w)
  <1>1. user[w] \in UserRow /\ event[w] \in Events /\ user[w].id \in Ids
    BY DEF Typed, TypeOK, SessionTypeOK, Control, ControlOf, InsertUser, UserRow
  <1>2. /\ users'[user[w].id] = user[w]
        /\ \A v \in Ids \ {user[w].id} : users'[v] = users[v]
    BY <1>1 DEF InsertUser, Typed, TypeOK, DbTypeOK
  <1> QED
    BY <1>1, <1>2 DEF Commits, InsertUser, Finish, Holds

LEMMA CommitUserKind ==
    ASSUME Typed, NEW w \in Workers, CommitUser(w)
    PROVE  Commits(w)
  <1> DEFINE u == user[w].id
             r == MergeUser(user[w], row[w], users[u])
  <1>1. /\ user[w] \in UserRow /\ event[w] \in Events /\ row[w] \in UserRow
        /\ u \in Ids /\ users[u] \in UserRow /\ Exists(u)
    BY CommitUserRows DEF Typed, TypeOK, SessionTypeOK, Control, ControlOf, CommitUser
  <1>2. /\ r \in UserRow /\ r.role \in {user[w].role, users[u].role}
        /\ r.state \in {user[w].state, users[u].state}
    BY <1>1, MergeUserType
  <1>3. users' = [users EXCEPT ![u] = r]
    BY CommitUserRows
  <1>4. user' = [user EXCEPT ![w] = None] /\ event' = [event EXCEPT ![w] = None]
    BY DEF CommitUser, Finish, Holds
  <1>5. held' = HeldAfter(users') /\ outbox' = Append(outbox, event[w])
    BY DEF CommitUser
  <1> HIDE DEF r
  <1>6. users'[u] = r /\ \A v \in Ids \ {u} : users'[v] = users[v]
    BY <1>1, <1>3 DEF Typed, TypeOK, DbTypeOK
  <1> QED
    BY <1>1, <1>2, <1>4, <1>5, <1>6 DEF Commits

LEMMA InsertRequestKind ==
    ASSUME Typed, NEW w \in Workers, InsertRequest(w)
    PROVE  Tells(w)
  BY DEF Typed, TypeOK, SessionTypeOK, Control, ControlOf, InsertRequest, Tells, Finish, Holds

LEMMA RegisterUserKind ==
    ASSUME Typed, NEW w \in Workers, RegisterUser(w)
    PROVE  Takes(w)
  <1> PICK s \in Spellings, u \in Ids :
        /\ Holds(w, Registered(u, Normal[s]), Event("UserRegistered", u, u, "BASIC_USER"))
        /\ UNCHANGED db
    <2>1. \A u \in Ids, m \in Emails : Registered(u, m).role = "BASIC_USER"
      BY DEF Registered
    <2> QED
      BY <2>1 DEF RegisterUser
  <1> DEFINE o == Registered(u, Normal[s])
             e == Event("UserRegistered", u, u, "BASIC_USER")
  <1>1. o \in UserRow /\ o.id = u /\ o.role = "BASIC_USER" /\ o.state = "ACTIVE"
    BY DEF Registered, UserRow, Roles, States
  <1>2. e \in Events
    BY EventType DEF EventTypes, Roles
  <1>3. e.type = "UserRegistered" /\ e.user = u /\ e.role = "BASIC_USER"
    BY DEF Event
  <1> HIDE DEF o, e
  <1>4. RoleSource(o, e) /\ StateSource(o, e) /\ Authorised(w, e)
    BY <1>1, <1>3 DEF RoleSource, StateSource, Authorised, Announces, NeedsModerator
  <1>5. /\ user' = [user EXCEPT ![w] = o] /\ event' = [event EXCEPT ![w] = e]
        /\ UNCHANGED <<users, outbox, held>>
    BY DEF Holds, db, o, e
  <1> QED
    BY <1>1, <1>2, <1>4, <1>5 DEF Takes

LEMMA RequestRoleKind ==
    ASSUME Typed, NEW w \in Workers, RequestRole(w)
    PROVE  Takes(w)
  <1> PICK u \in Ids, r \in Roles :
        Holds(w, None, Event("RoleRequested", u, u, r)) /\ UNCHANGED db
    BY DEF RequestRole
  <1> DEFINE e == Event("RoleRequested", u, u, r)
  <1>1. e \in Events
    BY EventType DEF EventTypes
  <1>2. Authorised(w, e)
    BY DEF Authorised, NeedsModerator, Event
  <1> HIDE DEF e
  <1> QED
    BY <1>1, <1>2 DEF Takes, Holds, db, e

LEMMA GrantKind ==
    ASSUME Typed, NEW w \in Workers, NEW u \in Ids, NEW a \in Ids, NEW r \in Roles,
           Exists(u),
           \/ MayCallAs(a, Granters)
           \/ /\ pc[w] = "readGrantee" /\ ask[w] # None
              /\ a = ask[w].by /\ u = ask[w].user /\ r = ask[w].role,
           NEW o, o = [users[u] EXCEPT !.role = r],
           NEW e, e = Event("RoleGranted", u, a, r),
           ChangesUser(w, o, e)
    PROVE  Takes(w)
  <1>1. users[u] \in UserRow /\ users[u].id = u
    BY DEF Typed, TypeOK, DbTypeOK, Exists
  <1>2. o \in UserRow /\ o.id = u /\ o.role = r /\ o.state = users[u].state
    BY <1>1 DEF UserRow
  <1>3. e \in Events
    BY EventType DEF EventTypes
  <1>4. e.type = "RoleGranted" /\ e.user = u /\ e.role = r /\ e.by = a
    BY DEF Event
  <1>5. RoleSource(o, e) /\ StateSource(o, e)
    BY <1>2, <1>4 DEF RoleSource, StateSource
  <1>0. MayCallAs(a, Granters) => MayCallAs(a, Moderators)
    BY DEF MayCallAs, Granters, Moderators
  <1>7. Authorised(w, e)
    BY <1>0, <1>4 DEF Authorised
  <1>6. /\ user' = [user EXCEPT ![w] = o] /\ event' = [event EXCEPT ![w] = e]
        /\ UNCHANGED <<users, outbox, held>>
    BY DEF ChangesUser, Holds, db
  <1> QED
    BY <1>2, <1>3, <1>5, <1>6, <1>7 DEF Takes

LEMMA GrantRoleKind ==
    ASSUME Typed, NEW w \in Workers, GrantRole(w)
    PROVE  Takes(w)
  <1> DEFINE o(u, r) == [users[u] EXCEPT !.role = r]
             e(u, a, r) == Event("RoleGranted", u, a, r)
  <1> PICK a \in Ids, u \in Ids, r \in Roles :
        MayCallAs(a, Granters) /\ Exists(u) /\ ChangesUser(w, o(u, r), e(u, a, r))
    BY DEF GrantRole
  <1>2. o(u, r) = [users[u] EXCEPT !.role = r] /\ e(u, a, r) = Event("RoleGranted", u, a, r)
    OBVIOUS
  <1> HIDE DEF o, e
  <1> QED
    BY <1>2, GrantKind

LEMMA ReadGranteeKind ==
    ASSUME Typed, NEW w \in Workers, ReadGrantee(w)
    PROVE  Takes(w)
  <1> DEFINE u == ask[w].user
             r == ask[w].role
             a == ask[w].by
             o == [users[u] EXCEPT !.role = r]
             e == Event("RoleGranted", u, a, r)
  <1>1. /\ u \in Ids /\ r \in Roles /\ a \in Ids /\ Exists(u)
        /\ pc[w] = "readGrantee" /\ ask[w] # None /\ a = ask[w].by
        /\ ChangesUser(w, o, e)
    BY DEF Typed, TypeOK, SessionTypeOK, Control, ControlOf, RequestRow, ReadGrantee
  <1>2. o = [users[u] EXCEPT !.role = r] /\ e = Event("RoleGranted", u, a, r)
    OBVIOUS
  <1>3. u = ask[w].user /\ r = ask[w].role
    OBVIOUS
  <1> HIDE DEF u, r, a, o, e
  <1> QED
    BY <1>1, <1>2, <1>3, GrantKind

LEMMA ModerateKind ==
    ASSUME Typed, NEW w \in Workers, NEW verb \in DOMAIN Transition, Moderate(w, verb)
    PROVE  Takes(w)
  <1> PICK a \in Ids, u \in Ids :
        /\ MayCallAs(a, Moderators) /\ Exists(u)
        /\ users[u].state = Transition[verb].from
        /\ ChangesUser(w, [users[u] EXCEPT !.state = Transition[verb].to],
                       Event(Transition[verb].event, u, a, None))
    BY DEF Moderate
  <1> DEFINE o == [users[u] EXCEPT !.state = Transition[verb].to]
             e == Event(Transition[verb].event, u, a, None)
  <1>1. users[u] \in UserRow /\ users[u].id = u
    BY DEF Typed, TypeOK, DbTypeOK, Exists
  <1>2. /\ o \in UserRow /\ o.id = u /\ o.role = users[u].role
        /\ o.state = Transition[verb].to
    BY <1>1, TransitionType DEF UserRow
  <1>3. e \in Events
    BY EventType, TransitionType
  <1>4. e.type = Transition[verb].event /\ e.user = u /\ e.by = a
    BY DEF Event
  <1> HIDE DEF o, e
  <1>5. StateSource(o, e)
    BY <1>1, <1>2, <1>4 DEF StateSource, Transition, Announces
  <1>0. Transition[verb].event # "RoleGranted"
    BY DEF Transition
  <1>6. RoleSource(o, e) /\ Authorised(w, e)
    BY <1>0, <1>2, <1>4 DEF RoleSource, Authorised
  <1>7. /\ user' = [user EXCEPT ![w] = o] /\ event' = [event EXCEPT ![w] = e]
        /\ UNCHANGED <<users, outbox, held>>
    BY DEF ChangesUser, Holds, db, o, e
  <1> QED
    BY <1>2, <1>3, <1>5, <1>6, <1>7 DEF Takes

LEMMA StepKinds ==
    ASSUME Typed, NEW w \in Workers, Step(w)
    PROVE  Commits(w) \/ Tells(w) \/ Takes(w) \/ Quiet(w)
  <1>1. CASE InsertUser(w) \/ CommitUser(w)
    BY <1>1, InsertUserKind, CommitUserKind
  <1>2. CASE InsertRequest(w)
    BY <1>2, InsertRequestKind
  <1>3. CASE RegisterUser(w) \/ RequestRole(w) \/ GrantRole(w) \/ ReadGrantee(w)
    BY <1>3, RegisterUserKind, RequestRoleKind, GrantRoleKind, ReadGranteeKind
  <1>4. CASE BanUser(w) \/ UnbanUser(w) \/ ApproveRegistration(w) \/ RejectRegistration(w)
    BY <1>4, ModerateKind
       DEF BanUser, UnbanUser, ApproveRegistration, RejectRegistration, Transition
  <1>5. CASE LoadUser(w) \/ LoadRequest(w) \/ ApproveRequest(w) \/ RejectRequest(w)
    BY <1>5 DEF LoadUser, LoadRequest, ApproveRequest, RejectRequest, DecideRequest, Quiet, db
  <1>6. CASE InsertUserConflict(w) \/ CommitRequest(w) \/ Abort(w)
    BY <1>6 DEF InsertUserConflict, CommitRequest, Abort, Finish, Holds, Quiet, db
  <1> QED
    BY <1>1, <1>2, <1>3, <1>4, <1>5, <1>6 DEF Step

LEMMA HeldGrows ==
    ASSUME Typed, NEW table \in [Ids -> UserRow \cup {None}], NEW a \in Ids
    PROVE  \A r \in HeldAfter(table)[a] :
              r \in held[a] \/ (table[a] # None /\ r = table[a].role)
  BY DEF HeldAfter

-----------------------------------------------------------------------------
(* What a step does to the sessions, the requests and the outbox. *)

LEMMA StepOthersStay ==
    ASSUME Typed, NEW w \in Workers, Step(w)
    PROVE  OthersStay(w)
  <1> USE DEF Typed, TypeOK, SessionTypeOK, OthersStay
  <1>1. CASE RegisterUser(w) \/ GrantRole(w) \/ ReadGrantee(w)
    BY <1>1 DEF RegisterUser, GrantRole, ReadGrantee, ChangesUser, Holds, GoTo
  <1>2. CASE BanUser(w) \/ UnbanUser(w) \/ ApproveRegistration(w) \/ RejectRegistration(w)
    BY <1>2 DEF BanUser, UnbanUser, ApproveRegistration, RejectRegistration, Moderate,
                ChangesUser, Holds, GoTo
  <1>3. CASE LoadUser(w) \/ LoadRequest(w)
    BY <1>3 DEF LoadUser, LoadRequest, GoTo
  <1>4. CASE InsertUser(w) \/ InsertUserConflict(w) \/ InsertRequest(w) \/ CommitRequest(w) \/ Abort(w)
    BY <1>4, FinishTyped DEF InsertUser, InsertUserConflict, InsertRequest, CommitRequest, Abort
  <1>5. CASE CommitUser(w)
    <2>1. CASE Finish(w)
      BY <2>1, FinishTyped
    <2>2. CASE ask[w] # None
      BY <1>5, <2>2 DEF CommitUser, Holds, GoTo
    <2> QED
      BY <1>5, <2>1, <2>2 DEF CommitUser
  <1>6. CASE RequestRole(w)
    BY <1>6 DEF RequestRole, Holds, GoTo
  <1>7. CASE ApproveRequest(w) \/ RejectRequest(w)
    BY <1>7 DEF ApproveRequest, RejectRequest, DecideRequest, GoTo
  <1> QED
    BY <1>1, <1>2, <1>3, <1>4, <1>5, <1>6, <1>7 DEF Step

(* The outbox only grows. *)
LEMMA AppendKeeps ==
    ASSUME Typed, NEW e \in Events, outbox' = Append(outbox, e)
    PROVE  /\ Len(outbox') = Len(outbox) + 1 /\ Len(outbox) \in Nat
           /\ \A i \in 1..Len(outbox) : outbox'[i] = outbox[i]
           /\ outbox'[Len(outbox')] = e
  BY DEF Typed, TypeOK, DbTypeOK

LEMMA StepOutbox ==
    ASSUME Typed, NEW w \in Workers, Step(w)
    PROVE  /\ \/ outbox' = outbox
              \/ event[w] \in Events /\ outbox' = Append(outbox, event[w])
           /\ Len(outbox) \in Nat /\ Len(outbox') \in Nat /\ Len(outbox) <= Len(outbox')
           /\ \A i \in 1..Len(outbox) : outbox'[i] = outbox[i]
  <1>1. \/ outbox' = outbox
        \/ event[w] \in Events /\ outbox' = Append(outbox, event[w])
    BY StepKinds DEF Commits, Tells, Takes, Quiet
  <1>2. Len(outbox) \in Nat
    BY DEF Typed, TypeOK, DbTypeOK
  <1> QED
    BY <1>1, <1>2, AppendKeeps

-----------------------------------------------------------------------------
(* Where the roles in people's hands come from. *)

(* a may act with one of roles: it is the administrator seeded at the      *)
(* start, or a committed event has granted it one.                         *)
Trusted(a, roles) == a = Admin \/ Granted(a, roles, Len(outbox))

(* An event in flight gives u one of roles once it is committed. *)
Promotes(e, u, roles) ==
    e # None /\ e.type = "RoleGranted" /\ e.user = u /\ e.role \in roles

HeldFrom(roles) == \A a \in Ids : MayCallAs(a, roles) => Trusted(a, roles)

RolesFrom(roles) ==
    \A u \in Ids : Exists(u) /\ users[u].role \in roles => Trusted(u, roles)

ObjectsFrom(roles) ==
    \A w \in Workers :
        user[w] # None /\ user[w].role \in roles =>
            Trusted(user[w].id, roles) \/ Promotes(event[w], user[w].id, roles)

Origin(roles) == HeldFrom(roles) /\ RolesFrom(roles) /\ ObjectsFrom(roles)

LEMMA InitOrigin ==
    ASSUME Init, NEW roles, "BASIC_USER" \notin roles
    PROVE  Origin(roles)
  <1>1. Len(outbox) = 0
    BY DEF Init
  <1>2. HeldFrom(roles) /\ ObjectsFrom(roles)
    BY <1>1 DEF Init, HeldFrom, ObjectsFrom, Trusted, MayCallAs
  <1>3. \A u \in Leftover : InitialRow(u).role = "BASIC_USER"
    BY DEF InitialRow, Registered
  <1>4. RolesFrom(roles)
    BY <1>3 DEF Init, InitialUsers, RolesFrom, Trusted, Exists
  <1> QED
    BY <1>2, <1>4 DEF Origin

(* What was granted stays granted, and what is told has been granted. *)
LEMMA TrustGrows ==
    ASSUME Typed, NEW w \in Workers, Step(w), NEW roles, NEW a, Trusted(a, roles)
    PROVE  Trusted(a, roles)'
  BY StepOutbox DEF Trusted, Granted

LEMMA PromotionTrusted ==
    ASSUME Typed, NEW e \in Events, outbox' = Append(outbox, e),
           NEW roles, NEW a, Promotes(e, a, roles)
    PROVE  Trusted(a, roles)'
  BY AppendKeeps DEF Trusted, Granted, Promotes

LEMMA CommitsOrigin ==
    ASSUME Typed, NEW roles, Origin(roles), NEW w \in Workers, Step(w), Commits(w)
    PROVE  Origin(roles)'
  <1> DEFINE u == user[w].id
             e == event[w]
  <1>1. u \in Ids /\ e \in Events /\ outbox' = Append(outbox, e) /\ Typed'
    BY NextTyped DEF Next, Commits, UserRow
  <1>2. \A a : Trusted(a, roles) => Trusted(a, roles)'
    BY TrustGrows
  <1>3. ASSUME NEW v \in Ids, Exists(v)', users'[v].role \in roles
        PROVE  Trusted(v, roles)'
    <2>1. CASE Exists(v) /\ users'[v].role = users[v].role
      BY <1>2, <1>3, <2>1 DEF Origin, RolesFrom
    <2>2. CASE v = u /\ users'[v].role = user[w].role
      <3>1. Trusted(u, roles) \/ Promotes(e, u, roles)
        BY <1>3, <2>2 DEF Origin, ObjectsFrom, Commits, UserRow
      <3> QED
        BY <1>1, <1>2, <2>2, <3>1, PromotionTrusted
    <2> QED
      BY <1>3, <2>1, <2>2 DEF Commits, Exists
  <1>4. ASSUME NEW a \in Ids, MayCallAs(a, roles)'
        PROVE  Trusted(a, roles)'
    <2>1. PICK r \in roles : r \in HeldAfter(users')[a]
      BY <1>4 DEF MayCallAs, Commits
    <2>2. r \in held[a] \/ (users'[a] # None /\ r = users'[a].role)
      BY <1>1, <2>1, HeldGrows DEF Typed, TypeOK, DbTypeOK
    <2>3. CASE r \in held[a]
      BY <1>2, <2>1, <2>3 DEF Origin, HeldFrom, MayCallAs
    <2>4. CASE users'[a] # None /\ r = users'[a].role
      BY <1>3, <2>1, <2>4 DEF Exists
    <2> QED
      BY <2>2, <2>3, <2>4
  <1>5. ObjectsFrom(roles)'
    <2>1. ASSUME NEW x \in Workers
          PROVE  (user'[x] = user[x] /\ event'[x] = event[x]) \/ user'[x] = None
      BY DEF Commits, Typed, TypeOK, SessionTypeOK
    <2> QED
      BY <1>2, <2>1 DEF Origin, ObjectsFrom, Promotes
  <1> QED
    BY <1>3, <1>4, <1>5 DEF Origin, RolesFrom, HeldFrom

LEMMA TakesOrigin ==
    ASSUME Typed, NEW roles, "BASIC_USER" \notin roles, Origin(roles),
           NEW w \in Workers, Step(w), Takes(w)
    PROVE  ObjectsFrom(roles)'
  <1> PICK o \in UserRow \cup {None}, e \in Events :
        /\ user' = [user EXCEPT ![w] = o] /\ event' = [event EXCEPT ![w] = e]
        /\ o # None => RoleSource(o, e)
    BY DEF Takes
  <1>1. \A a : Trusted(a, roles) => Trusted(a, roles)'
    BY TrustGrows
  <1>2. o # None /\ o.role \in roles => Trusted(o.id, roles) \/ Promotes(e, o.id, roles)
    BY DEF RoleSource, Promotes, Origin, RolesFrom, UserRow
  <1> SUFFICES ASSUME NEW x \in Workers, user'[x] # None, user'[x].role \in roles
               PROVE  (Trusted(user[x].id, roles) \/ Promotes(event[x], user[x].id, roles))'
    BY DEF ObjectsFrom
  <1>3. CASE x = w
    BY <1>1, <1>2, <1>3 DEF Typed, TypeOK, SessionTypeOK, Promotes
  <1>4. CASE x # w
    BY <1>1, <1>4 DEF Typed, TypeOK, SessionTypeOK, Origin, ObjectsFrom, Promotes
  <1> QED
    BY <1>3, <1>4

LEMMA StepOrigin ==
    ASSUME Typed, NEW roles, "BASIC_USER" \notin roles, Origin(roles),
           NEW w \in Workers, Step(w)
    PROVE  Origin(roles)'
  <1>1. \A a : Trusted(a, roles) => Trusted(a, roles)'
    BY TrustGrows
  <1>2. CASE Commits(w)
    BY <1>2, CommitsOrigin
  <1>3. CASE Tells(w) \/ Takes(w) \/ Quiet(w)
    <2>1. users' = users /\ held' = held
      BY <1>3 DEF Tells, Takes, Quiet
    <2>2. HeldFrom(roles)' /\ RolesFrom(roles)'
      BY <1>1, <2>1 DEF Origin, HeldFrom, RolesFrom, MayCallAs, Exists
    <2>3. CASE Tells(w) \/ Quiet(w)
      <3>1. ASSUME NEW x \in Workers
            PROVE  (user'[x] = user[x] /\ event'[x] = event[x]) \/ user'[x] = None
        BY <2>3 DEF Tells, Quiet, Typed, TypeOK, SessionTypeOK
      <3>2. ObjectsFrom(roles)'
        BY <1>1, <3>1 DEF Origin, ObjectsFrom, Promotes
      <3> QED
        BY <2>2, <3>2 DEF Origin
    <2> QED
      BY <1>3, <2>2, <2>3, TakesOrigin DEF Origin
  <1> QED
    BY <1>2, <1>3, StepKinds

-----------------------------------------------------------------------------
(* Authority has an origin. *)

PendingFrom(w) ==
    /\ event[w] # None /\ event[w].type \in NeedsModerator =>
          Trusted(event[w].by, Moderators)
    /\ ask[w] # None /\ ask[w].by # None => Trusted(ask[w].by, Moderators)

Authority ==
    /\ Typed /\ Origin(Moderators) /\ AuthorityHasOrigin
    /\ \A w \in Workers : PendingFrom(w)

LEMMA InitAuthority == Init => Authority
  <1> SUFFICES ASSUME Init PROVE Authority
    OBVIOUS
  <1>1. Origin(Moderators)
    BY InitOrigin DEF Moderators
  <1>2. AuthorityHasOrigin /\ \A w \in Workers : PendingFrom(w)
    BY DEF Init, AuthorityHasOrigin, PendingFrom
  <1> QED
    BY <1>1, <1>2, InitTyped DEF Authority

(* The event appended is one whose author is trusted. *)
LEMMA OriginKept ==
    ASSUME Typed, AuthorityHasOrigin, NEW e \in Events, outbox' = Append(outbox, e),
           e.type \in NeedsModerator => Trusted(e.by, Moderators)
    PROVE  AuthorityHasOrigin'
  <1> SUFFICES ASSUME NEW n \in 1..Len(outbox'), outbox'[n].type \in NeedsModerator
               PROVE  (outbox[n].by = Admin \/ Granted(outbox[n].by, Moderators, n - 1))'
    BY DEF AuthorityHasOrigin
  <1>1. CASE n \in 1..Len(outbox)
    <2>1. outbox'[n] = outbox[n] /\ \A i \in 1..(n - 1) : outbox'[i] = outbox[i]
      BY <1>1, AppendKeeps
    <2>2. outbox[n].by = Admin \/ Granted(outbox[n].by, Moderators, n - 1)
      BY <1>1, <2>1 DEF AuthorityHasOrigin
    <2> QED
      BY <2>1, <2>2 DEF Granted
  <1>2. CASE n = Len(outbox')
    <2>1. outbox'[n] = e /\ n - 1 = Len(outbox) /\ \A i \in 1..(n - 1) : outbox'[i] = outbox[i]
      BY <1>2, AppendKeeps
    <2>2. e.by = Admin \/ Granted(e.by, Moderators, n - 1)
      BY <2>1 DEF Trusted
    <2> QED
      BY <2>1, <2>2 DEF Granted
  <1> QED
    BY <1>1, <1>2, AppendKeeps

(* The RoleRequest object a step leaves w with was there, decides nothing, *)
(* or is decided by somebody who may.                                      *)
LEMMA AskKinds ==
    ASSUME Typed, NEW w \in Workers, Step(w), NEW x \in Workers
    PROVE  \/ ask'[x] = ask[x]
           \/ ask'[x] = None
           \/ ask'[x].by = None
           \/ ask'[x].by \in Ids /\ MayCallAs(ask'[x].by, Moderators)
  <1> USE DEF Typed, TypeOK, SessionTypeOK
  <1>1. CASE RegisterUser(w) \/ GrantRole(w) \/ ReadGrantee(w)
    BY <1>1 DEF RegisterUser, GrantRole, ReadGrantee, ChangesUser
  <1>2. CASE BanUser(w) \/ UnbanUser(w) \/ ApproveRegistration(w) \/ RejectRegistration(w)
    BY <1>2 DEF BanUser, UnbanUser, ApproveRegistration, RejectRegistration, Moderate, ChangesUser
  <1>3. CASE LoadUser(w) \/ LoadRequest(w)
    BY <1>3 DEF LoadUser, LoadRequest
  <1>4. CASE InsertUser(w) \/ InsertUserConflict(w) \/ InsertRequest(w) \/ CommitRequest(w) \/ Abort(w)
    BY <1>4 DEF InsertUser, InsertUserConflict, InsertRequest, CommitRequest, Abort, Finish
  <1>5. CASE CommitUser(w)
    BY <1>5 DEF CommitUser, Finish
  <1>6. CASE RequestRole(w)
    BY <1>6 DEF RequestRole
  <1>7. CASE ApproveRequest(w) \/ RejectRequest(w)
    <2>1. PICK a \in Ids, q \in RequestIds, s \in RequestStatuses :
            /\ MayCallAs(a, Moderators) /\ requests[q] # None
            /\ ask' = [ask EXCEPT ![w] = [requests[q] EXCEPT !.status = s, !.by = a]]
      BY <1>7 DEF ApproveRequest, RejectRequest, DecideRequest, RequestStatuses
    <2>2. [requests[q] EXCEPT !.status = s, !.by = a].by = a
      BY <2>1 DEF DbTypeOK, RequestRow
    <2> QED
      BY <2>1, <2>2
  <1> QED
    BY <1>1, <1>2, <1>3, <1>4, <1>5, <1>6, <1>7 DEF Step

(* The event a step leaves w with was there or names somebody trusted. *)
LEMMA EventFrom ==
    ASSUME Authority, NEW w \in Workers, Step(w), NEW x \in Workers,
           event'[x] # None, event'[x].type \in NeedsModerator
    PROVE  Trusted(event'[x].by, Moderators)
  <1>1. CASE event'[x] = event[x]
    BY <1>1 DEF Authority, PendingFrom
  <1>2. CASE event'[x] # event[x]
    <2>1. Takes(w)
      BY <1>2, StepKinds DEF Commits, Tells, Quiet, Authority, Typed, TypeOK, SessionTypeOK
    <2>2. PICK e \in Events : event' = [event EXCEPT ![w] = e] /\ Authorised(w, e)
      BY <2>1 DEF Takes
    <2>3. event'[x] = e
      BY <1>2, <2>2 DEF Authority, Typed, TypeOK, SessionTypeOK
    <2>4. Trusted(e.by, Moderators)
      BY <2>2, <2>3 DEF Authorised, Authority, Origin, HeldFrom, PendingFrom
    <2> QED
      BY <2>3, <2>4
  <1> QED
    BY <1>1, <1>2

LEMMA StepAuthority ==
    ASSUME Authority, NEW w \in Workers, Step(w)
    PROVE  Authority'
  <1>1. Typed /\ Typed' /\ Origin(Moderators)'
    BY NextTyped, StepOrigin DEF Authority, Next, Moderators
  <1>2. \A a : Trusted(a, Moderators) => Trusted(a, Moderators)'
    BY <1>1, TrustGrows
  <1>3. AuthorityHasOrigin'
    <2>1. CASE outbox' = outbox
      BY <2>1 DEF Authority, AuthorityHasOrigin, Granted
    <2>2. CASE event[w] \in Events /\ outbox' = Append(outbox, event[w])
      BY <1>1, <2>2, OriginKept DEF Authority, PendingFrom
    <2> QED
      BY <1>1, <2>1, <2>2, StepOutbox
  <1>4. ASSUME NEW x \in Workers
        PROVE  PendingFrom(x)'
    <2>1. event'[x] # None /\ event'[x].type \in NeedsModerator =>
             Trusted(event'[x].by, Moderators)
      BY EventFrom
    <2>2. ask'[x] # None /\ ask'[x].by # None => Trusted(ask'[x].by, Moderators)
      BY <1>1, AskKinds DEF Authority, PendingFrom, Origin, HeldFrom
    <2> QED
      BY <1>2, <2>1, <2>2 DEF PendingFrom
  <1> QED
    BY <1>1, <1>3, <1>4 DEF Authority

LEMMA NextAuthority == Authority /\ [Next]_vars => Authority'
  <1> SUFFICES ASSUME Authority, [Next]_vars PROVE Authority'
    OBVIOUS
  <1>1. CASE UNCHANGED vars
    <2>1. Typed'
      BY NextTyped DEF Authority
    <2> QED
      BY <1>1, <2>1 DEF vars, Authority, AuthorityHasOrigin, Granted, Trusted, Origin, HeldFrom,
                        RolesFrom, ObjectsFrom, PendingFrom, Promotes, MayCallAs, Exists
  <1> QED
    BY <1>1, StepAuthority DEF Next

(* Whoever a committed event names as granting, banning or deciding is the *)
(* seeded administrator or was granted SUPPORT or ADMIN by an earlier one, *)
(* however many requests overlap and wherever they die.                    *)
THEOREM AuthorityTraced == Spec => []AuthorityHasOrigin
  <1>1. Authority => AuthorityHasOrigin
    BY DEF Authority
  <1> QED
    BY <1>1, InitAuthority, NextAuthority, PTL DEF Spec

-----------------------------------------------------------------------------
(* No two accounts have one address. *)

Addresses == Typed /\ EmailUnique

LEMMA InitAddresses == Init => Addresses
  <1> SUFFICES ASSUME Init PROVE Addresses
    OBVIOUS
  <1>1. \A u \in Leftover \cup {Admin} : InitialRow(u).email = HomeEmail[u]
    BY DEF InitialRow, SuperAdmin, Registered
  <1>2. \A u \in Ids : Exists(u) => u \in Leftover \cup {Admin} /\ users[u] = InitialRow(u)
    BY DEF Init, InitialUsers, Exists
  <1> QED
    BY <1>1, <1>2, InitTyped DEF Addresses, EmailUnique

(* A merged row keeps its address. *)
LEMMA CommitUserAddresses ==
    ASSUME Addresses, NEW w \in Workers, CommitUser(w)
    PROVE  EmailUnique'
  <1> DEFINE u == user[w].id
             merged == MergeUser(user[w], row[w], users[u])
  <1>1. u \in Ids /\ users[u] \in UserRow /\ merged.email = users[u].email
    BY CommitUserRows DEF Addresses, MergeUser, UserRow
  <1>2. users' = [users EXCEPT ![u] = merged]
    BY CommitUserRows DEF Addresses
  <1> HIDE DEF u, merged
  <1>3. \A v \in Ids : Exists(v)' => Exists(v) /\ users'[v].email = users[v].email
    BY <1>1, <1>2, NoneIsNew DEF Addresses, Typed, TypeOK, DbTypeOK, Exists
  <1> QED
    BY <1>3 DEF Addresses, EmailUnique

LEMMA StepAddresses ==
    ASSUME Addresses, NEW w \in Workers, Step(w)
    PROVE  Addresses'
  <1>1. Typed /\ Typed'
    BY NextTyped DEF Addresses, Next
  <1>2. CASE InsertUser(w)
    <2>1. /\ user[w] \in UserRow /\ user[w].id \in Ids
          /\ \A v \in Ids : Exists(v) => users[v].email # user[w].email
          /\ users' = [users EXCEPT ![user[w].id] = user[w]]
      BY <1>1, <1>2
         DEF InsertUser, EmailFree, Typed, TypeOK, SessionTypeOK, Control, ControlOf, UserRow
    <2>2. users'[user[w].id] = user[w] /\ \A v \in Ids \ {user[w].id} : users'[v] = users[v]
      BY <1>1, <2>1 DEF Typed, TypeOK, DbTypeOK
    <2> QED
      BY <1>1, <2>1, <2>2 DEF Addresses, EmailUnique, Exists
  <1>3. CASE CommitUser(w)
    BY <1>1, <1>3, CommitUserAddresses DEF Addresses
  <1>4. CASE UNCHANGED users
    BY <1>1, <1>4 DEF Addresses, EmailUnique, Exists
  <1>5. \/ InsertUser(w) \/ CommitUser(w) \/ UNCHANGED users
    BY DEF Step, RegisterUser, InsertUserConflict, GrantRole, BanUser, UnbanUser,
           ApproveRegistration, RejectRegistration, Moderate, ChangesUser, LoadUser,
           RequestRole, InsertRequest, ApproveRequest, RejectRequest, DecideRequest,
           ReadGrantee, LoadRequest, CommitRequest, Abort, db
  <1> QED
    BY <1>2, <1>3, <1>4, <1>5

(* However registrations of one address overlap, no two accounts have it:  *)
(* the check is made long before the insert, the index decides at it.      *)
THEOREM AddressesUnique == Spec => []EmailUnique
  <1>1. Addresses /\ [Next]_vars => Addresses'
    <2>1. Addresses /\ UNCHANGED vars => Addresses'
      BY NextTyped DEF vars, Addresses, EmailUnique, Exists
    <2> QED
      BY <2>1, StepAddresses DEF Next
  <1>2. Addresses => EmailUnique
    BY DEF Addresses
  <1> QED
    BY <1>1, <1>2, InitAddresses, PTL DEF Spec

-----------------------------------------------------------------------------
(* Only leftovers are undecided. *)

Undecided == {"PENDING", "REJECTED"}

Leftovers ==
    /\ Typed
    /\ OnlyLeftoversUndecided
    /\ \A w \in Workers :
          user[w] # None /\ user[w].state \in Undecided => user[w].id \in Leftover

LEMMA InitLeftovers == Init => Leftovers
  <1> SUFFICES ASSUME Init PROVE Leftovers
    OBVIOUS
  <1>1. InitialRow(Admin).state = "ACTIVE"
    BY DEF InitialRow, SuperAdmin
  <1> QED
    BY <1>1, InitTyped DEF Init, InitialUsers, Leftovers, OnlyLeftoversUndecided, Exists

LEMMA StepLeftovers ==
    ASSUME Leftovers, NEW w \in Workers, Step(w)
    PROVE  Leftovers'
  <1>1. Typed /\ Typed'
    BY NextTyped DEF Leftovers, Next
  <1>2. CASE Commits(w)
    <2>1. OnlyLeftoversUndecided'
      BY <1>1, <1>2 DEF Commits, Leftovers, OnlyLeftoversUndecided, Undecided, Exists, UserRow
    <2>2. \A x \in Workers : user'[x] = user[x] \/ user'[x] = None
      BY <1>1, <1>2 DEF Commits, Typed, TypeOK, SessionTypeOK
    <2> QED
      BY <1>1, <2>1, <2>2 DEF Leftovers
  <1>3. CASE Tells(w) \/ Quiet(w)
    <2>1. \A x \in Workers : user'[x] = user[x] \/ user'[x] = None
      BY <1>1, <1>3 DEF Tells, Quiet, Typed, TypeOK, SessionTypeOK
    <2> QED
      BY <1>1, <1>3, <2>1 DEF Leftovers, OnlyLeftoversUndecided, Tells, Quiet, Exists
  <1>4. CASE Takes(w)
    <2> PICK o \in UserRow \cup {None}, e \in Events :
          /\ user' = [user EXCEPT ![w] = o]
          /\ UNCHANGED <<users, outbox, held>>
          /\ o # None => StateSource(o, e)
      BY <1>4 DEF Takes
    <2>1. o # None /\ o.state \in Undecided => o.id \in Leftover
      BY DEF StateSource, Announces, Undecided, Leftovers, OnlyLeftoversUndecided, UserRow
    <2> QED
      BY <1>1, <2>1 DEF Leftovers, OnlyLeftoversUndecided, Typed, TypeOK, SessionTypeOK, Exists
  <1> QED
    BY <1>1, <1>2, <1>3, <1>4, StepKinds

(* No interleaving puts an account that was registered, or seeded, back    *)
(* into PENDING or into REJECTED.                                          *)
THEOREM RegisteredStayDecided == Spec => []OnlyLeftoversUndecided
  <1>1. Leftovers /\ [Next]_vars => Leftovers'
    <2>1. Leftovers /\ UNCHANGED vars => Leftovers'
      BY NextTyped DEF vars, Leftovers, OnlyLeftoversUndecided, Exists
    <2> QED
      BY <2>1, StepLeftovers DEF Next
  <1>2. Leftovers => OnlyLeftoversUndecided
    BY DEF Leftovers
  <1> QED
    BY <1>1, <1>2, InitLeftovers, PTL DEF Spec

-----------------------------------------------------------------------------
(* The table holds nothing user-events never said. *)

TellsRoleOf(e, u, r) ==
    /\ e # None /\ e.user = u /\ e.role = r
    /\ e.type \in {"UserRegistered", "RoleGranted"}

TellsStateOf(e, u, s) == e # None /\ e.user = u /\ Announces(e, s)

ToldOrAboutTo ==
    \A w \in Workers : user[w] # None =>
        /\ \/ RoleTold(user[w].id, user[w].role)
           \/ TellsRoleOf(event[w], user[w].id, user[w].role)
        /\ \/ StateTold(user[w].id, user[w].state)
           \/ TellsStateOf(event[w], user[w].id, user[w].state)

ToldInv == Typed /\ EverythingTold /\ ToldOrAboutTo

LEMMA InitTold == Init => ToldInv
  BY InitTyped DEF Init, InitialUsers, ToldInv, EverythingTold, ToldOrAboutTo, RoleTold, StateTold, Exists

LEMMA ToldKept ==
    ASSUME Typed, NEW e \in Events, outbox' = Append(outbox, e)
    PROVE  /\ \A u, r : RoleTold(u, r) \/ TellsRoleOf(e, u, r) => RoleTold(u, r)'
           /\ \A u, s : StateTold(u, s) \/ TellsStateOf(e, u, s) => StateTold(u, s)'
  BY AppendKeeps DEF RoleTold, StateTold, TellsRoleOf, TellsStateOf

LEMMA StepTold ==
    ASSUME ToldInv, NEW w \in Workers, Step(w)
    PROVE  ToldInv'
  <1>1. Typed /\ Typed'
    BY NextTyped DEF ToldInv, Next
  <1>2. CASE Commits(w)
    <2> DEFINE u == user[w].id
    <2>1. event[w] \in Events /\ outbox' = Append(outbox, event[w])
      BY <1>2 DEF Commits
    <2>2. /\ \A v, r : RoleTold(v, r) \/ TellsRoleOf(event[w], v, r) => RoleTold(v, r)'
          /\ \A v, s : StateTold(v, s) \/ TellsStateOf(event[w], v, s) => StateTold(v, s)'
      BY <1>1, <2>1, ToldKept
    <2>3. ASSUME NEW v \in Ids, Exists(v)'
          PROVE  RoleTold(v, users[v].role)' /\ StateTold(v, users[v].state)'
      <3>1. CASE v # u
        BY <1>2, <2>2, <2>3, <3>1 DEF Commits, ToldInv, EverythingTold, Exists
      <3>2. CASE v = u
        <4>1. \/ RoleTold(u, users'[u].role)
              \/ TellsRoleOf(event[w], u, users'[u].role)
          BY <1>2, <2>3, <3>2 DEF Commits, ToldInv, EverythingTold, ToldOrAboutTo
        <4>2. \/ StateTold(u, users'[u].state)
              \/ TellsStateOf(event[w], u, users'[u].state)
          BY <1>2, <2>3, <3>2 DEF Commits, ToldInv, EverythingTold, ToldOrAboutTo
        <4> QED
          BY <2>2, <3>2, <4>1, <4>2
      <3> QED
        BY <3>1, <3>2
    <2>4. \A x \in Workers :
            (user'[x] = user[x] /\ event'[x] = event[x]) \/ user'[x] = None
      BY <1>1, <1>2 DEF Commits, Typed, TypeOK, SessionTypeOK
    <2>5. ToldOrAboutTo'
      BY <2>2, <2>4 DEF ToldInv, ToldOrAboutTo, TellsRoleOf, TellsStateOf
    <2> QED
      BY <1>1, <2>3, <2>5 DEF ToldInv, EverythingTold
  <1>3. CASE Tells(w)
    <2>1. /\ \A v, r : RoleTold(v, r) => RoleTold(v, r)'
          /\ \A v, s : StateTold(v, s) => StateTold(v, s)'
      BY <1>1, <1>3, ToldKept DEF Tells
    <2>2. \A x \in Workers :
            (user'[x] = user[x] /\ event'[x] = event[x]) \/ user'[x] = None
      BY <1>1, <1>3 DEF Tells, Typed, TypeOK, SessionTypeOK
    <2>3. EverythingTold'
      BY <1>3, <2>1 DEF Tells, ToldInv, EverythingTold, Exists
    <2>4. ToldOrAboutTo'
      BY <2>1, <2>2 DEF ToldInv, ToldOrAboutTo, TellsRoleOf, TellsStateOf
    <2> QED
      BY <1>1, <2>3, <2>4 DEF ToldInv
  <1>4. CASE Takes(w)
    <2> PICK o \in UserRow \cup {None}, e \in Events :
          /\ user' = [user EXCEPT ![w] = o] /\ event' = [event EXCEPT ![w] = e]
          /\ UNCHANGED <<users, outbox, held>>
          /\ o # None => RoleSource(o, e) /\ StateSource(o, e)
      BY <1>4 DEF Takes
    <2>1. /\ \A v, r : RoleTold(v, r)' <=> RoleTold(v, r)
          /\ \A v, s : StateTold(v, s)' <=> StateTold(v, s)
      BY DEF RoleTold, StateTold
    <2>2. o # None => RoleTold(o.id, o.role) \/ TellsRoleOf(e, o.id, o.role)
      BY DEF RoleSource, TellsRoleOf, ToldInv, EverythingTold, UserRow
    <2>3. o # None => StateTold(o.id, o.state) \/ TellsStateOf(e, o.id, o.state)
      BY DEF StateSource, TellsStateOf, ToldInv, EverythingTold, UserRow
    <2>4. EverythingTold'
      BY <2>1 DEF ToldInv, EverythingTold, Exists
    <2>5. ASSUME NEW x \in Workers, user'[x] # None
          PROVE  /\ \/ RoleTold(user'[x].id, user'[x].role)
                    \/ TellsRoleOf(event'[x], user'[x].id, user'[x].role)
                 /\ \/ StateTold(user'[x].id, user'[x].state)
                    \/ TellsStateOf(event'[x], user'[x].id, user'[x].state)
      <3>1. CASE x = w
        BY <1>1, <2>2, <2>3, <2>5, <3>1 DEF Typed, TypeOK, SessionTypeOK
      <3>2. CASE x # w
        BY <1>1, <2>5, <3>2 DEF Typed, TypeOK, SessionTypeOK, ToldInv, ToldOrAboutTo
      <3> QED
        BY <3>1, <3>2
    <2>6. ToldOrAboutTo'
      BY <2>1, <2>5 DEF ToldOrAboutTo, TellsRoleOf, TellsStateOf
    <2> QED
      BY <1>1, <2>4, <2>6 DEF ToldInv
  <1>5. CASE Quiet(w)
    <2>1. /\ \A v, r : RoleTold(v, r)' <=> RoleTold(v, r)
          /\ \A v, s : StateTold(v, s)' <=> StateTold(v, s)
      BY <1>5 DEF Quiet, RoleTold, StateTold
    <2>2. \A x \in Workers :
            (user'[x] = user[x] /\ event'[x] = event[x]) \/ user'[x] = None
      BY <1>1, <1>5 DEF Quiet, Typed, TypeOK, SessionTypeOK
    <2>3. EverythingTold'
      BY <1>5, <2>1 DEF Quiet, ToldInv, EverythingTold, Exists
    <2>4. ToldOrAboutTo'
      BY <2>1, <2>2 DEF ToldInv, ToldOrAboutTo, TellsRoleOf, TellsStateOf
    <2> QED
      BY <1>1, <2>3, <2>4 DEF ToldInv
  <1> QED
    BY <1>1, <1>2, <1>3, <1>4, <1>5, StepKinds

(* The role and the state the table holds for an account were announced on *)
(* user-events or were there from the start, though commits may overwrite  *)
(* one another.                                                            *)
THEOREM TableIsTold == Spec => []EverythingTold
  <1>1. ToldInv /\ [Next]_vars => ToldInv'
    <2>1. ToldInv /\ UNCHANGED vars => ToldInv'
      BY NextTyped DEF vars, ToldInv, EverythingTold, ToldOrAboutTo, RoleTold, StateTold,
                       TellsRoleOf, TellsStateOf, Exists
    <2> QED
      BY <2>1, StepTold DEF Next
  <1>2. ToldInv => EverythingTold
    BY DEF ToldInv
  <1> QED
    BY <1>1, <1>2, InitTold, PTL DEF Spec
-----------------------------------------------------------------------------
(* A role request, the decision about it in flight, and the grant. *)

(* u has been granted r by a committed event. *)
GrantedRole(u, r) ==
    \E i \in 1..Len(outbox) :
        outbox[i].type = "RoleGranted" /\ outbox[i].user = u /\ outbox[i].role = r

(* A request not yet stored has an id nobody else has.  One that is being  *)
(* decided is stored, for the same account and role; the grant of an       *)
(* approval is in flight until it is committed, and only then is the       *)
(* decision on its way to the table.                                       *)
DecisionOf(w) ==
    /\ pc[w] = "idle" => ask[w] = None
    /\ pc[w] = "insertAsk" =>
          /\ ask[w].status = "PENDING" /\ requests[ask[w].id] = None
          /\ \A x \in Workers \ {w} : ask[x] # None => ask[x].id # ask[w].id
    /\ ask[w] # None /\ pc[w] # "insertAsk" =>
          /\ requests[ask[w].id].user = ask[w].user
          /\ requests[ask[w].id].role = ask[w].role
    /\ ask[w] # None /\ pc[w] \in {"loadUser", "commitUser"} =>
          /\ event[w].type = "RoleGranted"
          /\ event[w].user = ask[w].user /\ event[w].role = ask[w].role
    /\ pc[w] \in {"loadAsk", "commitAsk"} /\ ask[w].status = "APPROVED" =>
          GrantedRole(ask[w].user, ask[w].role)

Decisions == Typed /\ ApprovedMeansGranted /\ \A w \in Workers : DecisionOf(w)

LEMMA InitDecisions == Init => Decisions
  BY InitTyped DEF Init, Decisions, ApprovedMeansGranted, DecisionOf

LEMMA GrantedRoleGrows ==
    ASSUME Typed, NEW w \in Workers, Step(w), NEW u, NEW r, GrantedRole(u, r)
    PROVE  GrantedRole(u, r)'
  BY StepOutbox DEF GrantedRole

(* Who stores or changes a request, and what of it never changes. *)
RequestChange(w, q) ==
    /\ requests[q] # None =>
          /\ requests'[q] # None
          /\ requests'[q].user = requests[q].user /\ requests'[q].role = requests[q].role
    /\ requests[q] = None /\ requests'[q] # None =>
          pc[w] = "insertAsk" /\ q = ask[w].id /\ requests'[q] = ask[w]
    /\ requests'[q] # None /\ requests'[q].status = "APPROVED" =>
          \/ requests[q] # None /\ requests[q].status = "APPROVED"
          \/ pc[w] = "commitAsk" /\ q = ask[w].id /\ ask[w].status = "APPROVED"

LEMMA StepRequests ==
    ASSUME Decisions, NEW w \in Workers, Step(w), NEW q \in RequestIds
    PROVE  RequestChange(w, q)
  <1>1. CASE requests' = requests
    BY <1>1 DEF RequestChange
  <1>2. CASE InsertRequest(w)
    <2>1. /\ pc[w] = "insertAsk" /\ ask[w] \in RequestRow /\ ask[w].id \in RequestIds
          /\ requests' = [requests EXCEPT ![ask[w].id] = ask[w]]
      BY <1>2 DEF InsertRequest, Decisions, Typed, TypeOK, SessionTypeOK, Control, ControlOf,
                  RequestRow
    <2>2. requests[ask[w].id] = None /\ ask[w].status = "PENDING"
      BY <2>1 DEF Decisions, DecisionOf
    <2> QED
      BY <2>1, <2>2 DEF RequestChange, Decisions, Typed, TypeOK, DbTypeOK
  <1>3. CASE CommitRequest(w)
    <2> DEFINE k == ask[w].id
               m == MergeRequest(ask[w], askRow[w], requests[k])
    <2>1. /\ pc[w] = "commitAsk" /\ k \in RequestIds /\ requests[k] \in RequestRow
          /\ ask[w] \in RequestRow /\ askRow[w] \in RequestRow
          /\ requests' = [requests EXCEPT ![k] = m]
      BY <1>3 DEF CommitRequest, Decisions, Typed, TypeOK, DbTypeOK, SessionTypeOK, Control,
                  ControlOf, RequestRow
    <2>2. /\ m \in RequestRow /\ m.user = requests[k].user /\ m.role = requests[k].role
      BY <2>1, MergeRequestType
    <2>3. m.status \in {ask[w].status, requests[k].status}
      BY <2>1 DEF MergeRequest, RequestRow
    <2> HIDE DEF m
    <2> QED
      BY <2>1, <2>2, <2>3 DEF RequestChange, Decisions, Typed, TypeOK, DbTypeOK
  <1>4. requests' = requests \/ InsertRequest(w) \/ CommitRequest(w)
    BY DEF Step, RegisterUser, InsertUser, InsertUserConflict, GrantRole, BanUser, UnbanUser,
           ApproveRegistration, RejectRegistration, Moderate, ChangesUser, LoadUser,
           CommitUser, RequestRole, ApproveRequest, RejectRequest, DecideRequest,
           ReadGrantee, LoadRequest, Abort, db
  <1> QED
    BY <1>1, <1>2, <1>3, <1>4

(* The RoleRequest object w has after a step: the one it had, none, a new  *)
(* one or a stored one.                                                    *)
LEMMA StepAsk ==
    ASSUME Typed, NEW w \in Workers, Step(w)
    PROVE  \/ ask'[w] = ask[w] /\ pc[w] # "insertAsk" /\ pc'[w] \notin {"idle", "insertAsk"}
           \/ ask'[w] = None /\ pc'[w] = "idle"
           \/ /\ \A x \in Workers : ask[x] # None => ask[x].id # ask'[w].id
              /\ requests[ask'[w].id] = None /\ requests' = requests
              /\ pc[w] = "idle" /\ pc'[w] = "insertAsk" /\ ask'[w].status = "PENDING"
           \/ /\ ask'[w].id \in RequestIds /\ requests[ask'[w].id] # None
              /\ requests[ask'[w].id].user = ask'[w].user
              /\ requests[ask'[w].id].role = ask'[w].role /\ requests' = requests
              /\ pc[w] = "idle"
              /\ \/ pc'[w] = "readGrantee"
                 \/ pc'[w] = "loadAsk" /\ ask'[w].status = "REJECTED"
  <1> USE DEF Typed, TypeOK, SessionTypeOK
  <1>1. CASE RegisterUser(w) \/ GrantRole(w) \/ ReadGrantee(w)
    BY <1>1 DEF RegisterUser, GrantRole, ReadGrantee, ChangesUser, Starts, GoTo
  <1>2. CASE BanUser(w) \/ UnbanUser(w) \/ ApproveRegistration(w) \/ RejectRegistration(w)
    BY <1>2 DEF BanUser, UnbanUser, ApproveRegistration, RejectRegistration, Moderate,
                ChangesUser, Starts, GoTo
  <1>3. CASE LoadUser(w) \/ LoadRequest(w)
    BY <1>3 DEF LoadUser, LoadRequest, GoTo
  <1>4. CASE InsertUser(w) \/ InsertUserConflict(w) \/ InsertRequest(w) \/ CommitRequest(w) \/ Abort(w)
    BY <1>4 DEF InsertUser, InsertUserConflict, InsertRequest, CommitRequest, Abort, Finish, GoTo
  <1>5. CASE CommitUser(w)
    BY <1>5 DEF CommitUser, Finish, GoTo
  <1>6. CASE RequestRole(w)
    BY <1>6 DEF RequestRole, GoTo, Starts, db
  <1>7. CASE ApproveRequest(w) \/ RejectRequest(w)
    <2>1. PICK a \in Ids, q \in RequestIds, s \in {"APPROVED", "REJECTED"} :
            /\ requests[q] # None /\ pc[w] = "idle" /\ requests' = requests
            /\ ask' = [ask EXCEPT ![w] = [requests[q] EXCEPT !.status = s, !.by = a]]
            /\ \/ pc' = [pc EXCEPT ![w] = "readGrantee"]
               \/ pc' = [pc EXCEPT ![w] = "loadAsk"] /\ s = "REJECTED"
      BY <1>7 DEF ApproveRequest, RejectRequest, DecideRequest, GoTo, Starts, db
    <2> DEFINE o == [requests[q] EXCEPT !.status = s, !.by = a]
    <2>2. requests[q] \in RequestRow /\ requests[q].id = q
      BY <2>1 DEF DbTypeOK
    <2>3. o.id = q /\ o.user = requests[q].user /\ o.role = requests[q].role /\ o.status = s
      BY <2>2 DEF RequestRow
    <2>4. ask'[w] = o
      BY <2>1
    <2> HIDE DEF o
    <2> QED
      BY <2>1, <2>3, <2>4
  <1> QED
    BY <1>1, <1>2, <1>3, <1>4, <1>5, <1>6, <1>7 DEF Step

(* A decision commits only after the grant it is about. *)
LEMMA StepApproved ==
    ASSUME Decisions, NEW w \in Workers, Step(w)
    PROVE  ApprovedMeansGranted'
  <1> SUFFICES ASSUME NEW q \in RequestIds, requests'[q] # None,
                      requests'[q].status = "APPROVED"
               PROVE  GrantedRole(requests[q].user, requests[q].role)'
    BY DEF ApprovedMeansGranted, GrantedRole
  <1>1. RequestChange(w, q)
    BY StepRequests
  <1>2. requests[q] # None /\ GrantedRole(requests[q].user, requests[q].role)
    <2>1. CASE requests[q] # None /\ requests[q].status = "APPROVED"
      BY <2>1 DEF Decisions, ApprovedMeansGranted, GrantedRole
    <2>2. CASE pc[w] = "commitAsk" /\ q = ask[w].id /\ ask[w].status = "APPROVED"
      BY <2>2 DEF Decisions, DecisionOf, Typed, Control, ControlOf
    <2> QED
      BY <1>1, <2>1, <2>2 DEF RequestChange
  <1>3. GrantedRole(requests[q].user, requests[q].role) =>
           \A u, r : u = requests[q].user /\ r = requests[q].role => GrantedRole(u, r)'
    BY GrantedRoleGrows DEF Decisions
  <1> QED
    BY <1>1, <1>2, <1>3 DEF RequestChange, GrantedRole

LEMMA OtherDecisions ==
    ASSUME Decisions, NEW w \in Workers, Step(w), NEW x \in Workers \ {w}
    PROVE  DecisionOf(x)'
  <1>1. /\ Typed /\ Typed' /\ OthersStay(w)
        /\ pc'[x] = pc[x] /\ ask'[x] = ask[x] /\ event'[x] = event[x]
    BY NextTyped, StepOthersStay DEF Decisions, Next, OthersStay
  <1>2. ask[x] # None => ask[x].id \in RequestIds /\ ask[x] \in RequestRow
    BY <1>1 DEF Typed, TypeOK, SessionTypeOK, RequestRow
  <1>3. ask[x] # None => RequestChange(w, ask[x].id)
    BY <1>2, StepRequests
  <1>4. ask[x] # None /\ GrantedRole(ask[x].user, ask[x].role) =>
           GrantedRole(ask[x].user, ask[x].role)'
    <2> DEFINE u == ask[x].user
               r == ask[x].role
    <2>1. ASSUME NEW v, NEW s, v = u, s = r, GrantedRole(v, s)
          PROVE  GrantedRole(v, s)'
      BY <2>1, GrantedRoleGrows DEF Decisions
    <2>2. u' = u /\ r' = r
      BY <1>1
    <2>3. ASSUME NEW v, NEW s, v = u, s = r, GrantedRole(v, s)'
          PROVE  GrantedRole(u, r)'
      BY <2>2, <2>3 DEF GrantedRole
    <2> HIDE DEF u, r
    <2>4. GrantedRole(u, r) => GrantedRole(u, r)'
      BY <2>1, <2>3
    <2> QED
      BY <2>4 DEF u, r
  <1>5. DecisionOf(x) /\ DecisionOf(w)
    BY DEF Decisions
  <1>6. pc[x] = "insertAsk" => ask[x] # None
    BY <1>1 DEF Typed, Control, ControlOf
  <1>7. pc[x] # "insertAsk" /\ ask[x] # None => requests[ask[x].id] # None
    BY <1>1 DEF Typed, Control, ControlOf
  <1>8. pc[x] = "insertAsk" =>
          /\ requests'[ask[x].id] = None
          /\ \A y \in Workers \ {x} : ask'[y] # None => ask'[y].id # ask[x].id
    <2> SUFFICES ASSUME pc[x] = "insertAsk"
                 PROVE  /\ requests'[ask[x].id] = None
                        /\ \A y \in Workers \ {x} : ask'[y] # None => ask'[y].id # ask[x].id
      OBVIOUS
    <2>1. ask[w] # None => ask[w].id # ask[x].id
      BY <1>5 DEF DecisionOf
    <2>2. requests'[ask[x].id] = None
      BY <1>1, <1>3, <1>5, <1>6, <2>1 DEF RequestChange, DecisionOf, Typed, Control, ControlOf
    <2>3. ask'[w] # None => ask'[w].id # ask[x].id
      BY <1>1, <1>5, <1>6, <2>1, StepAsk DEF DecisionOf
    <2>4. \A y \in Workers \ {w, x} : ask'[y] # None => ask'[y].id # ask[x].id
      BY <1>1, <1>5 DEF DecisionOf, OthersStay
    <2> QED
      BY <2>2, <2>3, <2>4
  <1>9. pc[x] # "insertAsk" /\ ask[x] # None =>
          /\ requests'[ask[x].id].user = ask[x].user
          /\ requests'[ask[x].id].role = ask[x].role
    BY <1>3, <1>5, <1>7 DEF DecisionOf, RequestChange
  <1>10. pc[x] \in {"loadAsk", "commitAsk"} => ask[x] # None
    BY <1>1 DEF Typed, Control, ControlOf
  <1>11. pc[x] \in {"loadAsk", "commitAsk"} /\ ask[x].status = "APPROVED" =>
           GrantedRole(ask[x].user, ask[x].role)'
    BY <1>4, <1>5, <1>10 DEF DecisionOf
  <1> QED
    BY <1>1, <1>5, <1>8, <1>9, <1>11 DEF DecisionOf

(* What a step leaves in w's hands goes with where it leaves w. *)
LEMMA GrantPending ==
    ASSUME Decisions, NEW w \in Workers, Step(w), ask'[w] # None,
           pc'[w] \in {"loadUser", "commitUser"}
    PROVE  /\ event'[w].type = "RoleGranted"
           /\ event'[w].user = ask'[w].user /\ event'[w].role = ask'[w].role
  <1> USE DEF Decisions, Typed, TypeOK, SessionTypeOK
  <1>1. CASE ReadGrantee(w)
    BY <1>1 DEF ReadGrantee, ChangesUser, Holds, Event
  <1>2. CASE LoadUser(w)
    BY <1>2 DEF LoadUser, DecisionOf
  <1>3. CASE pc[w] = "idle"
    <2>1. ask[w] = None
      BY <1>3 DEF DecisionOf
    <2> QED
      BY <2>1, <1>3, StepAsk
  <1>4. CASE pc[w] # "idle" /\ ~ReadGrantee(w) /\ ~LoadUser(w)
    <2>1. pc'[w] \notin {"loadUser", "commitUser"}
      BY <1>4 DEF Step, RegisterUser, InsertUser, InsertUserConflict, GrantRole, BanUser,
           UnbanUser, ApproveRegistration, RejectRegistration, Moderate, Starts, CommitUser,
           RequestRole, InsertRequest, ApproveRequest, RejectRequest, DecideRequest,
           LoadRequest, CommitRequest, Abort, Finish, GoTo
    <2> QED
      BY <2>1
  <1> QED
    BY <1>1, <1>2, <1>3, <1>4

LEMMA GrantCommitted ==
    ASSUME Decisions, NEW w \in Workers, Step(w),
           pc'[w] \in {"loadAsk", "commitAsk"}, ask'[w].status = "APPROVED"
    PROVE  GrantedRole(ask[w].user, ask[w].role)'
  <1> USE DEF Decisions, Typed, TypeOK, SessionTypeOK
  <1>1. CASE CommitUser(w)
    <2>1. /\ pc[w] = "commitUser" /\ ask[w] # None /\ ask' = ask
          /\ event[w] \in Events /\ outbox' = Append(outbox, event[w])
      BY <1>1 DEF CommitUser, Finish, GoTo, Control, ControlOf
    <2>2. /\ event[w].type = "RoleGranted"
          /\ event[w].user = ask[w].user /\ event[w].role = ask[w].role
      BY <2>1 DEF DecisionOf
    <2> QED
      BY <2>1, <2>2, AppendKeeps DEF GrantedRole
  <1>2. CASE LoadRequest(w)
    <2>1. pc[w] = "loadAsk" /\ ask' = ask /\ outbox' = outbox
      BY <1>2 DEF LoadRequest, db
    <2> QED
      BY <2>1 DEF DecisionOf, GrantedRole
  <1>3. CASE pc[w] = "idle"
    <2>1. ask[w] = None
      BY <1>3 DEF DecisionOf
    <2>2. ask'[w] # None
      BY NextTyped DEF Next, Control, ControlOf
    <2> QED
      BY <1>3, <2>1, <2>2, StepAsk
  <1>4. CASE pc[w] # "idle" /\ ~CommitUser(w) /\ ~LoadRequest(w)
    <2>1. pc'[w] \notin {"loadAsk", "commitAsk"}
      BY <1>4 DEF Step, RegisterUser, InsertUser, InsertUserConflict, GrantRole, BanUser,
           UnbanUser, ApproveRegistration, RejectRegistration, Moderate, Starts, LoadUser,
           RequestRole, InsertRequest, ApproveRequest, RejectRequest, DecideRequest,
           ReadGrantee, ChangesUser, CommitRequest, Abort, Finish, GoTo
    <2> QED
      BY <2>1
  <1> QED
    BY <1>1, <1>2, <1>3, <1>4

LEMMA OwnDecision ==
    ASSUME Decisions, NEW w \in Workers, Step(w)
    PROVE  DecisionOf(w)'
  <1>1. Typed /\ Typed' /\ DecisionOf(w) /\ OthersStay(w)
    BY NextTyped, StepOthersStay DEF Decisions, Next
  <1>2. pc'[w] = "idle" => ask'[w] = None
    BY <1>1, StepAsk
  <1>3. pc'[w] = "insertAsk" =>
          /\ ask'[w].status = "PENDING" /\ requests'[ask'[w].id] = None
          /\ \A x \in Workers \ {w} : ask'[x] # None => ask'[x].id # ask'[w].id
    BY <1>1, StepAsk DEF OthersStay
  <1>4. ask'[w] # None /\ pc'[w] # "insertAsk" =>
          /\ requests'[ask'[w].id].user = ask'[w].user
          /\ requests'[ask'[w].id].role = ask'[w].role
    <2> SUFFICES ASSUME ask'[w] # None, pc'[w] # "insertAsk"
                 PROVE  /\ requests'[ask'[w].id].user = ask'[w].user
                        /\ requests'[ask'[w].id].role = ask'[w].role
      OBVIOUS
    <2>1. CASE ask'[w] = ask[w] /\ pc[w] # "insertAsk"
      <3>1. ask[w].id \in RequestIds /\ requests[ask[w].id] # None
        BY <1>1, <2>1 DEF Typed, TypeOK, SessionTypeOK, Control, ControlOf, RequestRow
      <3>2. RequestChange(w, ask[w].id)
        BY <3>1, StepRequests
      <3> QED
        BY <1>1, <2>1, <3>1, <3>2 DEF DecisionOf, RequestChange
    <2> QED
      BY <1>1, <2>1, StepAsk
  <1> QED
    BY <1>2, <1>3, <1>4, GrantPending, GrantCommitted DEF DecisionOf

LEMMA NextDecisions == Decisions /\ [Next]_vars => Decisions'
  <1> SUFFICES ASSUME Decisions, [Next]_vars PROVE Decisions'
    OBVIOUS
  <1>1. Typed'
    BY NextTyped DEF Decisions
  <1>2. CASE UNCHANGED vars
    BY <1>1, <1>2 DEF vars, Decisions, ApprovedMeansGranted, DecisionOf, GrantedRole
  <1>3. ASSUME NEW w \in Workers, Step(w) PROVE Decisions'
    BY <1>1, <1>3, StepApproved, OtherDecisions, OwnDecision DEF Decisions
  <1> QED
    BY <1>2, <1>3 DEF Next

(* A request reads APPROVED only once its role has been granted: the grant *)
(* commits first, whatever overlaps and wherever the request dies between. *)
THEOREM ApprovedIsGranted == Spec => []ApprovedMeansGranted
  <1>1. Decisions => ApprovedMeansGranted
    BY DEF Decisions
  <1> QED
    BY <1>1, InitDecisions, NextDecisions, PTL DEF Spec

-----------------------------------------------------------------------------
(* A moderator grants what was asked for. *)

Asked(u, r) ==
    \E q \in RequestIds :
        requests[q] # None /\ requests[q].user = u /\ requests[q].role = r

GrantFrom(w) ==
    event[w] # None /\ event[w].type = "RoleGranted" =>
        Trusted(event[w].by, Granters) \/ Asked(event[w].user, event[w].role)

Grants ==
    /\ Decisions /\ Origin(Granters) /\ SupportGrantsWhatWasAsked
    /\ \A w \in Workers : GrantFrom(w)

LEMMA InitGrants == Init => Grants
  <1> SUFFICES ASSUME Init PROVE Grants
    OBVIOUS
  <1>1. Origin(Granters)
    BY InitOrigin DEF Granters
  <1>2. SupportGrantsWhatWasAsked /\ \A w \in Workers : GrantFrom(w)
    BY DEF Init, SupportGrantsWhatWasAsked, GrantFrom
  <1> QED
    BY <1>1, <1>2, InitDecisions DEF Grants

(* No request disappears, and none changes its account or its role. *)
LEMMA AskedGrows ==
    ASSUME Decisions, NEW w \in Workers, Step(w), NEW u, NEW r, Asked(u, r)
    PROVE  Asked(u, r)'
  BY StepRequests DEF Asked, RequestChange

(* The grant a step leaves pending was there, comes from an administrator  *)
(* or from the request whose decision reads the requester.                 *)
LEMMA StepGrantFrom ==
    ASSUME Grants, NEW w \in Workers, Step(w), NEW x \in Workers,
           event'[x] # None, event'[x].type = "RoleGranted"
    PROVE  Trusted(event'[x].by, Granters) \/ Asked(event'[x].user, event'[x].role)
  <1>1. Typed /\ DecisionOf(w) /\ HeldFrom(Granters)
    BY DEF Grants, Decisions, Origin
  <1>2. CASE event'[x] = event[x]
    BY <1>2 DEF Grants, GrantFrom
  <1>3. CASE event'[x] # event[x]
    <2>1. Takes(w)
      BY <1>1, <1>3, StepKinds DEF Commits, Tells, Quiet, Typed, TypeOK, SessionTypeOK
    <2>2. PICK e \in Events : event' = [event EXCEPT ![w] = e] /\ Authorised(w, e)
      BY <2>1 DEF Takes
    <2>3. event'[x] = e
      BY <1>1, <1>3, <2>2 DEF Typed, TypeOK, SessionTypeOK
    <2>4. CASE e.by \in Ids /\ MayCallAs(e.by, Granters)
      BY <1>1, <2>3, <2>4 DEF HeldFrom
    <2>5. CASE pc[w] = "readGrantee" /\ e.user = ask[w].user /\ e.role = ask[w].role
      <3>1. ask[w] # None /\ ask[w].id \in RequestIds /\ requests[ask[w].id] # None
        BY <1>1, <2>5 DEF Typed, TypeOK, SessionTypeOK, Control, ControlOf, RequestRow
      <3>2. /\ requests[ask[w].id].user = e.user
            /\ requests[ask[w].id].role = e.role
        BY <1>1, <2>5, <3>1 DEF DecisionOf
      <3> QED
        BY <2>3, <3>1, <3>2 DEF Asked
    <2> QED
      BY <2>2, <2>3, <2>4, <2>5 DEF Authorised
  <1> QED
    BY <1>2, <1>3

LEMMA StepSupport ==
    ASSUME Grants, NEW w \in Workers, Step(w)
    PROVE  SupportGrantsWhatWasAsked'
  <1> SUFFICES ASSUME NEW n \in 1..Len(outbox'), outbox'[n].type = "RoleGranted"
               PROVE  (\/ outbox[n].by = Admin \/ Granted(outbox[n].by, Granters, n - 1)
                       \/ Asked(outbox[n].user, outbox[n].role))'
    BY DEF SupportGrantsWhatWasAsked, Asked
  <1>1. Typed /\ Len(outbox) \in Nat /\ \A i \in 1..Len(outbox) : outbox'[i] = outbox[i]
    BY StepOutbox DEF Grants, Decisions
  <1>2. \A u, r : Asked(u, r) => Asked(u, r)'
    BY AskedGrows DEF Grants
  <1>3. CASE n \in 1..Len(outbox)
    <2>1. outbox'[n] = outbox[n] /\ \A i \in 1..(n - 1) : outbox'[i] = outbox[i]
      BY <1>1, <1>3
    <2>2. \/ outbox[n].by = Admin \/ Granted(outbox[n].by, Granters, n - 1)
          \/ Asked(outbox[n].user, outbox[n].role)
      BY <1>3, <2>1 DEF Grants, SupportGrantsWhatWasAsked, Asked
    <2>3. Granted(outbox[n].by, Granters, n - 1) => Granted(outbox[n].by, Granters, n - 1)'
      BY <2>1 DEF Granted
    <2>4. Asked(outbox[n].user, outbox[n].role) => Asked(outbox[n].user, outbox[n].role)'
      <3>1. ASSUME NEW u, NEW r, u = outbox'[n].user, r = outbox'[n].role, Asked(u, r)'
            PROVE  Asked(outbox[n].user, outbox[n].role)'
        BY <3>1 DEF Asked
      <3> QED
        BY <1>2, <2>1, <3>1
    <2> QED
      BY <2>1, <2>2, <2>3, <2>4
  <1>4. CASE n \notin 1..Len(outbox)
    <2> DEFINE e == event[w]
    <2>1. e \in Events /\ outbox' = Append(outbox, e)
      BY <1>4, StepOutbox DEF Grants, Decisions
    <2>2. n = Len(outbox') /\ n - 1 = Len(outbox) /\ outbox'[n] = e
      BY <1>1, <1>4, <2>1, AppendKeeps
    <2>3. e # None
      BY <2>1
    <2>4. Trusted(e.by, Granters) \/ Asked(e.user, e.role)
      BY <2>2, <2>3 DEF Grants, GrantFrom
    <2>5. Granted(e.by, Granters, n - 1) => Granted(outbox[n].by, Granters, n - 1)'
      BY <1>1, <2>2 DEF Granted
    <2>6. Asked(e.user, e.role) => Asked(outbox[n].user, outbox[n].role)'
      <3>1. ASSUME NEW u, NEW r, u = outbox'[n].user, r = outbox'[n].role, Asked(u, r)'
            PROVE  Asked(outbox[n].user, outbox[n].role)'
        BY <3>1 DEF Asked
      <3> QED
        BY <1>2, <2>2, <3>1
    <2> QED
      BY <2>2, <2>4, <2>5, <2>6 DEF Trusted
  <1> QED
    BY <1>3, <1>4

LEMMA StepGrants ==
    ASSUME Grants, Decisions', NEW w \in Workers, Step(w)
    PROVE  Grants'
  <1>1. Origin(Granters)'
    BY StepOrigin DEF Grants, Decisions, Granters
  <1>2. SupportGrantsWhatWasAsked'
    BY StepSupport
  <1>3. ASSUME NEW x \in Workers, event'[x] # None, event'[x].type = "RoleGranted"
        PROVE  (Trusted(event[x].by, Granters) \/ Asked(event[x].user, event[x].role))'
    <2>1. Trusted(event'[x].by, Granters) \/ Asked(event'[x].user, event'[x].role)
      BY <1>3, StepGrantFrom
    <2>2. ASSUME NEW a, a = event'[x].by, Trusted(a, Granters)
          PROVE  Trusted(event[x].by, Granters)'
      <3>1. Trusted(a, Granters)'
        BY <2>2, TrustGrows DEF Grants, Decisions
      <3> QED
        BY <2>2, <3>1 DEF Trusted, Granted
    <2>3. ASSUME NEW u, NEW r, u = event'[x].user, r = event'[x].role, Asked(u, r)
          PROVE  Asked(event[x].user, event[x].role)'
      <3>1. Asked(u, r)'
        BY <2>3, AskedGrows DEF Grants
      <3> QED
        BY <2>3, <3>1 DEF Asked
    <2> QED
      BY <2>1, <2>2, <2>3
  <1> QED
    BY <1>1, <1>2, <1>3 DEF Grants, GrantFrom

(* A moderator who was never an administrator grants only a role that the  *)
(* account has asked for, however requests for roles, their decisions and  *)
(* direct grants overlap.                                                  *)
THEOREM SupportGrantsRequests == Spec => []SupportGrantsWhatWasAsked
  <1>1. Grants /\ [Next]_vars => Grants'
    <2> SUFFICES ASSUME Grants, [Next]_vars PROVE Grants'
      OBVIOUS
    <2>1. Decisions'
      BY NextDecisions DEF Grants
    <2>2. CASE UNCHANGED vars
      BY <2>1, <2>2 DEF vars, Grants, Origin, HeldFrom, RolesFrom, ObjectsFrom, Trusted, Granted,
         Promotes, MayCallAs, Exists, SupportGrantsWhatWasAsked, GrantFrom, Asked
    <2> QED
      BY <2>1, <2>2, StepGrants DEF Next
  <1>2. Grants => SupportGrantsWhatWasAsked
    BY DEF Grants
  <1> QED
    BY <1>1, <1>2, InitGrants, PTL DEF Spec

-----------------------------------------------------------------------------
(* One request at a time: what w's objects are while only w commits. *)

GrantOf(o, e) ==
    /\ o = [users[o.id] EXCEPT !.role = e.role]
    /\ e = Event("RoleGranted", o.id, e.by, e.role)
    /\ e.by \in Ids /\ e.role \in Roles

MoveOf(o, e, verb) ==
    /\ users[o.id].state = Transition[verb].from
    /\ o = [users[o.id] EXCEPT !.state = Transition[verb].to]
    /\ e = Event(Transition[verb].event, o.id, e.by, None)
    /\ e.by \in Ids

SerialUser(w) ==
    /\ pc[w] = "insertUser" =>
          /\ user[w] = Registered(user[w].id, user[w].email)
          /\ event[w] = Event("UserRegistered", user[w].id, user[w].id, "BASIC_USER")
          /\ ~Exists(user[w].id)
    /\ pc[w] \in {"loadUser", "commitUser"} =>
          \/ GrantOf(user[w], event[w])
          \/ \E verb \in DOMAIN Transition : MoveOf(user[w], event[w], verb)
    /\ pc[w] = "commitUser" => row[w] = users[user[w].id]

SerialAsk(w) ==
    /\ pc[w] = "insertAsk" =>
          /\ ask[w] = [id |-> ask[w].id, user |-> ask[w].user, role |-> ask[w].role,
                       status |-> "PENDING", by |-> None]
          /\ event[w] = Event("RoleRequested", ask[w].user, ask[w].user, ask[w].role)
          /\ CanRequest(users[ask[w].user].role, ask[w].role)
    /\ ask[w] # None /\ pc[w] # "insertAsk" =>
          /\ requests[ask[w].id].status = "PENDING"
          /\ ask[w].status \in {"APPROVED", "REJECTED"}
    /\ pc[w] \in {"loadAsk", "commitAsk"} /\ ask[w].status = "APPROVED" =>
          users[ask[w].user].role = ask[w].role
    /\ pc[w] = "commitAsk" => askRow[w] = requests[ask[w].id]

Serial(w) == Decisions /\ SerialUser(w) /\ SerialAsk(w)

(* What one step of w is to somebody who sees the tables alone. *)
Atomic == Lifecycle!Next \/ UNCHANGED <<users, requests, outbox>>

(* AccountLifecycle is built from the same domain. *)
LEMMA SameDomain ==
    /\ Lifecycle!Roles = Roles /\ Lifecycle!Transition = Transition
    /\ \A t, u, a, r : Lifecycle!Event(t, u, a, r) = Event(t, u, a, r)
    /\ \A u, m : Lifecycle!Registered(u, m) = Registered(u, m)
    /\ \A r, s : Lifecycle!CanRequest(r, s) <=> CanRequest(r, s)
  BY DEF Lifecycle!Roles, Roles, Lifecycle!Transition, Transition, Lifecycle!Event, Event,
         Lifecycle!Registered, Registered, Lifecycle!CanRequest, CanRequest,
         Lifecycle!SelfRequestable, SelfRequestable

LEMMA MovesGrantNothing ==
    \A verb \in DOMAIN Transition : Transition[verb].event # "RoleGranted"
  BY DEF Transition

(* Over the row it was read from, an object is written as it is. *)
LEMMA MergeUnraced ==
    ASSUME NEW c \in UserRow, NEW o \in UserRow, o.id = c.id, o.email = c.email
    PROVE  MergeUser(o, c, c) = o
  BY DEF MergeUser, UserRow

LEMMA MergeRequestUnraced ==
    ASSUME NEW c \in RequestRow, NEW o \in RequestRow,
           o.id = c.id, o.user = c.user, o.role = c.role
    PROVE  MergeRequest(o, c, c) = o
  BY DEF MergeRequest, RequestRow

LEMMA FinishSerial ==
    ASSUME Typed, NEW w \in Workers, Finish(w)
    PROVE  SerialUser(w)' /\ SerialAsk(w)'
  BY DEF Typed, TypeOK, SessionTypeOK, Finish, GoTo, Holds, SerialUser, SerialAsk

LEMMA RegisterSerial ==
    ASSUME NEW w \in Workers, Serial(w), RegisterUser(w)
    PROVE  SerialUser(w)' /\ SerialAsk(w)' /\ Atomic
  <1> PICK s \in Spellings, u \in Ids :
        /\ pc[w] = "idle" /\ ~Exists(u)
        /\ Holds(w, Registered(u, Normal[s]),
                 Event("UserRegistered", u, u, Registered(u, Normal[s]).role))
        /\ pc' = [pc EXCEPT ![w] = "insertUser"]
        /\ UNCHANGED <<users, requests, outbox, row, ask, askRow>>
    BY DEF RegisterUser, Starts, GoTo, db
  <1>1. ask[w] = None
    BY DEF Serial, Decisions, DecisionOf
  <1> DEFINE o == Registered(u, Normal[s])
             e == Event("UserRegistered", u, u, o.role)
  <1>2. o.id = u /\ o.email = Normal[s] /\ o.role = "BASIC_USER"
    BY DEF Registered
  <1>3. user'[w] = o /\ event'[w] = e /\ pc'[w] = "insertUser" /\ ask'[w] = None
    BY <1>1 DEF Holds, Serial, Decisions, Typed, TypeOK, SessionTypeOK
  <1>4. o = Registered(o.id, o.email) /\ e = Event("UserRegistered", o.id, o.id, "BASIC_USER")
    BY <1>2
  <1> HIDE DEF o, e
  <1> QED
    BY <1>2, <1>3, <1>4 DEF SerialUser, SerialAsk, Atomic, Exists

LEMMA InsertSerial ==
    ASSUME NEW w \in Workers, Serial(w), InsertUser(w)
    PROVE  Atomic
  <1> DEFINE u == user[w].id
             m == user[w].email
  <1>1. u \in Ids /\ m \in Emails
    BY DEF Serial, Decisions, Typed, TypeOK, SessionTypeOK, Control, ControlOf, InsertUser, UserRow
  <1>2. /\ users[u] = None /\ \A v \in Ids : users[v] # None => users[v].email # m
        /\ users' = [users EXCEPT ![u] = Registered(u, m)]
        /\ outbox' = Append(outbox, Event("UserRegistered", u, u, "BASIC_USER"))
        /\ requests' = requests
    BY DEF InsertUser, EmailFree, Serial, SerialUser, Exists
  <1> HIDE DEF u, m
  <1>3. Lifecycle!Register(u, m)
    BY <1>1, <1>2, SameDomain DEF Lifecycle!Register, Lifecycle!Tell
  <1> QED
    BY <1>1, <1>3 DEF Atomic, Lifecycle!Next

(* The steps that begin a change of one account. *)
LEMMA ChangeSerial ==
    ASSUME NEW w \in Workers, Serial(w), NEW o \in UserRow, NEW e \in Events,
           pc[w] = "idle" \/ pc[w] = "readGrantee", ChangesUser(w, o, e),
           GrantOf(o, e) \/ \E verb \in DOMAIN Transition : MoveOf(o, e, verb)
    PROVE  SerialUser(w)' /\ SerialAsk(w)' /\ Atomic
  <1>1. /\ user'[w] = o /\ event'[w] = e /\ pc'[w] = "loadUser" /\ ask'[w] = ask[w]
        /\ UNCHANGED <<users, requests, outbox>>
    BY DEF ChangesUser, Holds, GoTo, db, Serial, Decisions, Typed, TypeOK, SessionTypeOK
  <1>2. SerialUser(w)'
    BY <1>1 DEF SerialUser, GrantOf, MoveOf
  <1>3. SerialAsk(w)'
    BY <1>1 DEF Serial, SerialAsk
  <1> QED
    BY <1>1, <1>2, <1>3 DEF Atomic

LEMMA GrantSerial ==
    ASSUME NEW w \in Workers, Serial(w), pc[w] = "idle" \/ pc[w] = "readGrantee",
           NEW u \in Ids, NEW a \in Ids, NEW r \in Roles, Exists(u),
           ChangesUser(w, [users[u] EXCEPT !.role = r], Event("RoleGranted", u, a, r))
    PROVE  SerialUser(w)' /\ SerialAsk(w)' /\ Atomic
  <1> DEFINE o == [users[u] EXCEPT !.role = r]
             e == Event("RoleGranted", u, a, r)
  <1>1. users[u] \in UserRow /\ users[u].id = u
    BY DEF Serial, Decisions, Typed, TypeOK, DbTypeOK, Exists
  <1>2. o \in UserRow /\ o.id = u
    BY <1>1 DEF UserRow
  <1>3. e \in Events
    BY EventType DEF EventTypes
  <1>4. e.by = a /\ e.role = r
    BY DEF Event
  <1>5. ChangesUser(w, o, e) /\ o = [users[u] EXCEPT !.role = r] /\ e = Event("RoleGranted", u, a, r)
    OBVIOUS
  <1> HIDE DEF o, e
  <1>6. GrantOf(o, e)
    BY <1>2, <1>4, <1>5 DEF GrantOf
  <1> QED
    BY <1>2, <1>3, <1>5, <1>6, ChangeSerial

LEMMA MoveSerial ==
    ASSUME NEW w \in Workers, Serial(w), NEW verb \in DOMAIN Transition, Moderate(w, verb)
    PROVE  SerialUser(w)' /\ SerialAsk(w)' /\ Atomic
  <1> DEFINE moved(u) == [users[u] EXCEPT !.state = Transition[verb].to]
             told(u, a) == Event(Transition[verb].event, u, a, None)
  <1> PICK a \in Ids, u \in Ids :
        /\ pc[w] = "idle" /\ Exists(u) /\ users[u].state = Transition[verb].from
        /\ ChangesUser(w, moved(u), told(u, a))
    BY DEF Moderate, Starts
  <1>1. users[u] \in UserRow /\ users[u].id = u
    BY DEF Serial, Decisions, Typed, TypeOK, DbTypeOK, Exists
  <1>2. moved(u) \in UserRow /\ moved(u).id = u
    BY <1>1, TransitionType DEF UserRow
  <1>3. told(u, a) \in Events
    BY EventType, TransitionType
  <1>4. told(u, a).by = a
    BY DEF Event
  <1>5. /\ moved(u) = [users[u] EXCEPT !.state = Transition[verb].to]
        /\ told(u, a) = Event(Transition[verb].event, u, a, None)
    OBVIOUS
  <1> HIDE DEF moved, told
  <1>6. MoveOf(moved(u), told(u, a), verb)
    BY <1>2, <1>4, <1>5 DEF MoveOf
  <1> QED
    BY <1>2, <1>3, <1>6, ChangeSerial

LEMMA LoadUserSerial ==
    ASSUME NEW w \in Workers, Serial(w), LoadUser(w)
    PROVE  SerialUser(w)' /\ SerialAsk(w)' /\ Atomic
  <1>1. /\ user'[w] = user[w] /\ event'[w] = event[w] /\ ask'[w] = ask[w]
        /\ pc[w] = "loadUser" /\ pc'[w] = "commitUser" /\ row'[w] = users[user[w].id]
        /\ UNCHANGED <<users, requests, outbox>>
    BY DEF LoadUser, GoTo, db, Serial, Decisions, Typed, TypeOK, SessionTypeOK
  <1>2. SerialUser(w)'
    BY <1>1 DEF Serial, SerialUser, GrantOf, MoveOf
  <1>3. SerialAsk(w)'
    BY <1>1 DEF Serial, SerialAsk
  <1> QED
    BY <1>1, <1>2, <1>3 DEF Atomic

LEMMA CommitSerial ==
    ASSUME NEW w \in Workers, Serial(w), CommitUser(w)
    PROVE  SerialUser(w)' /\ SerialAsk(w)' /\ Atomic
  <1> DEFINE o == user[w]
             e == event[w]
             u == o.id
             c == users[u]
  <1>1. /\ Typed /\ o \in UserRow /\ e \in Events /\ u \in Ids /\ c \in UserRow /\ c.id = u
        /\ Exists(u) /\ row[w] = c /\ pc[w] = "commitUser"
    BY CommitUserRows DEF Serial, SerialUser, Decisions, Typed, TypeOK, DbTypeOK, SessionTypeOK,
           Control, ControlOf, CommitUser
  <1>2. GrantOf(o, e) \/ \E verb \in DOMAIN Transition : MoveOf(o, e, verb)
    BY <1>1 DEF Serial, SerialUser
  <1>3. o.email = c.email
    BY <1>1, <1>2 DEF GrantOf, MoveOf, UserRow
  <1>4. /\ users' = [users EXCEPT ![u] = MergeUser(o, c, c)]
        /\ outbox' = Append(outbox, e) /\ requests' = requests
    BY <1>1 DEF CommitUser
  <1>5. users' = [users EXCEPT ![u] = o]
    BY <1>1, <1>3, <1>4, MergeUnraced
  <1>6. Atomic
    <2>1. CASE GrantOf(o, e)
      <3>1. Lifecycle!ChangeRole(u, e.by, e.role)
        BY <1>1, <1>4, <1>5, <2>1, SameDomain DEF GrantOf, Lifecycle!ChangeRole, Lifecycle!Tell, Exists
      <3> QED
        BY <1>1, <2>1, <3>1, SameDomain DEF GrantOf, Atomic, Lifecycle!Next
    <2>2. ASSUME NEW verb \in DOMAIN Transition, MoveOf(o, e, verb)
          PROVE  Atomic
      <3>1. Lifecycle!Move(u, e.by, verb)
        BY <1>1, <1>4, <1>5, <2>2, SameDomain DEF MoveOf, Lifecycle!Move, Lifecycle!Tell, Exists
      <3> QED
        BY <1>1, <2>2, <3>1, SameDomain DEF MoveOf, Atomic, Lifecycle!Next
    <2> QED
      BY <1>2, <2>1, <2>2
  <1>7. SerialUser(w)' /\ SerialAsk(w)'
    <2>1. CASE ask[w] = None
      BY <1>1, <2>1, FinishSerial DEF CommitUser
    <2>2. CASE ask[w] # None
      <3>1. /\ pc'[w] = "loadAsk" /\ ask'[w] = ask[w] /\ ask[w].user \in Ids
            /\ ask[w].id \in RequestIds
        BY <1>1, <2>2 DEF CommitUser, GoTo, Typed, TypeOK, SessionTypeOK, RequestRow
      <3>2. e.type = "RoleGranted" /\ e.user = ask[w].user /\ e.role = ask[w].role
        BY <1>1, <2>2 DEF Serial, Decisions, DecisionOf
      <3>3. GrantOf(o, e)
        <4>1. ASSUME NEW verb \in DOMAIN Transition, MoveOf(o, e, verb)
              PROVE  e.type # "RoleGranted"
          BY <4>1, MovesGrantNothing DEF MoveOf, Event
        <4> QED
          BY <1>2, <3>2, <4>1
      <3>4. u = ask[w].user /\ o.role = ask[w].role
        BY <1>1, <3>2, <3>3 DEF GrantOf, Event, UserRow
      <3>5. users'[ask[w].user].role = ask[w].role
        BY <1>1, <1>5, <3>1, <3>4 DEF Typed, TypeOK, DbTypeOK
      <3> QED
        BY <1>1, <1>4, <2>2, <3>1, <3>5 DEF Serial, SerialUser, SerialAsk
    <2> QED
      BY <2>1, <2>2
  <1> QED
    BY <1>6, <1>7

LEMMA RequestRoleSerial ==
    ASSUME NEW w \in Workers, Serial(w), RequestRole(w)
    PROVE  SerialUser(w)' /\ SerialAsk(w)' /\ Atomic
  <1> PICK u \in Ids, r \in Roles, q \in RequestIds :
        /\ pc[w] = "idle" /\ CanRequest(users[u].role, r)
        /\ ask' = [ask EXCEPT ![w] = [id |-> q, user |-> u, role |-> r,
                                      status |-> "PENDING", by |-> None]]
        /\ Holds(w, None, Event("RoleRequested", u, u, r))
        /\ pc' = [pc EXCEPT ![w] = "insertAsk"]
        /\ UNCHANGED <<users, requests, outbox>>
    BY DEF RequestRole, Starts, GoTo, db
  <1> DEFINE o == [id |-> q, user |-> u, role |-> r, status |-> "PENDING", by |-> None]
  <1>1. /\ ask'[w] = o /\ pc'[w] = "insertAsk"
        /\ event'[w] = Event("RoleRequested", u, u, r)
    BY DEF Holds, Serial, Decisions, Typed, TypeOK, SessionTypeOK
  <1>2. o.id = q /\ o.user = u /\ o.role = r
    OBVIOUS
  <1>3. o = [id |-> o.id, user |-> o.user, role |-> o.role, status |-> "PENDING", by |-> None]
    OBVIOUS
  <1> HIDE DEF o
  <1> QED
    BY <1>1, <1>2, <1>3 DEF SerialUser, SerialAsk, Atomic

LEMMA InsertRequestSerial ==
    ASSUME NEW w \in Workers, Serial(w), InsertRequest(w)
    PROVE  Atomic
  <1> DEFINE q == ask[w].id
             u == ask[w].user
             r == ask[w].role
  <1>1. /\ pc[w] = "insertAsk" /\ q \in RequestIds /\ u \in Ids /\ r \in Roles
        /\ Exists(u) /\ requests[q] = None
    BY DEF InsertRequest, Serial, Decisions, DecisionOf, Typed, TypeOK, SessionTypeOK, Control,
           ControlOf, RequestRow
  <1>2. /\ ask[w] = [id |-> q, user |-> u, role |-> r, status |-> "PENDING", by |-> None]
        /\ event[w] = Event("RoleRequested", u, u, r) /\ CanRequest(users[u].role, r)
    BY <1>1 DEF Serial, SerialAsk
  <1>3. /\ requests' = [requests EXCEPT ![q] = ask[w]] /\ users' = users
        /\ outbox' = Append(outbox, event[w])
    BY DEF InsertRequest
  <1> HIDE DEF q, u, r
  <1>4. Lifecycle!Ask(q, u, r)
    BY <1>1, <1>2, <1>3, SameDomain DEF Lifecycle!Ask, Lifecycle!Tell, Exists
  <1> QED
    BY <1>1, <1>4, SameDomain DEF Atomic, Lifecycle!Next

LEMMA DecideSerial ==
    ASSUME NEW w \in Workers, Serial(w), ApproveRequest(w) \/ RejectRequest(w)
    PROVE  SerialUser(w)' /\ SerialAsk(w)' /\ Atomic
  <1> PICK a \in Ids, q \in RequestIds, s \in {"APPROVED", "REJECTED"} :
        /\ pc[w] = "idle" /\ requests[q] # None /\ requests[q].status = "PENDING"
        /\ ask' = [ask EXCEPT ![w] = [requests[q] EXCEPT !.status = s, !.by = a]]
        /\ \/ pc' = [pc EXCEPT ![w] = "readGrantee"]
           \/ pc' = [pc EXCEPT ![w] = "loadAsk"] /\ s = "REJECTED"
        /\ UNCHANGED <<users, requests, outbox, user, event, row>>
    BY DEF ApproveRequest, RejectRequest, DecideRequest, GoTo, Starts, db
  <1> DEFINE o == [requests[q] EXCEPT !.status = s, !.by = a]
  <1>1. requests[q] \in RequestRow /\ requests[q].id = q
    BY DEF Serial, Decisions, Typed, TypeOK, DbTypeOK
  <1>2. o.id = q /\ o.status = s
    BY <1>1 DEF RequestRow
  <1>3. /\ ask'[w] = o
        /\ pc'[w] = "readGrantee" \/ (pc'[w] = "loadAsk" /\ s = "REJECTED")
    BY DEF Serial, Decisions, Typed, TypeOK, SessionTypeOK
  <1> HIDE DEF o
  <1> QED
    BY <1>2, <1>3 DEF SerialUser, SerialAsk, Atomic

LEMMA LoadRequestSerial ==
    ASSUME NEW w \in Workers, Serial(w), LoadRequest(w)
    PROVE  SerialUser(w)' /\ SerialAsk(w)' /\ Atomic
  <1>1. /\ ask'[w] = ask[w] /\ pc[w] = "loadAsk" /\ pc'[w] = "commitAsk"
        /\ askRow'[w] = requests[ask[w].id] /\ UNCHANGED <<users, requests, outbox>>
    BY DEF LoadRequest, GoTo, db, Serial, Decisions, Typed, TypeOK, SessionTypeOK
  <1> QED
    BY <1>1 DEF Serial, SerialUser, SerialAsk, Atomic

LEMMA CommitRequestSerial ==
    ASSUME NEW w \in Workers, Serial(w), CommitRequest(w)
    PROVE  Atomic
  <1> DEFINE o == ask[w]
             q == o.id
             c == requests[q]
  <1>1. /\ pc[w] = "commitAsk" /\ q \in RequestIds /\ o \in RequestRow /\ c \in RequestRow
        /\ c.id = q /\ c # None /\ o # None /\ o.by \in Ids
    BY DEF CommitRequest, Serial, Decisions, Typed, TypeOK, DbTypeOK, SessionTypeOK, Control,
           ControlOf, RequestRow
  <1>2. o.user = c.user /\ o.role = c.role
    BY <1>1 DEF Serial, Decisions, DecisionOf
  <1>3. /\ askRow[w] = c /\ c.status = "PENDING" /\ o.status \in {"APPROVED", "REJECTED"}
        /\ o.status = "APPROVED" => users[o.user].role = o.role
    BY <1>1 DEF Serial, SerialAsk
  <1>4. requests' = [requests EXCEPT ![q] = MergeRequest(o, c, c)] /\ UNCHANGED <<users, outbox>>
    BY <1>3 DEF CommitRequest
  <1>5. MergeRequest(o, c, c) = o
    BY <1>1, <1>2, MergeRequestUnraced
  <1>6. o = [c EXCEPT !.status = o.status, !.by = o.by]
    BY <1>1, <1>2 DEF RequestRow
  <1> HIDE DEF o, c
  <1>7. requests' = [requests EXCEPT ![q] = [c EXCEPT !.status = o.status, !.by = o.by]]
    BY <1>4, <1>5, <1>6
  <1>8. Lifecycle!Decide(q, o.by, o.status)
    BY <1>1, <1>2, <1>3, <1>4, <1>7 DEF Lifecycle!Decide, c
  <1> QED
    BY <1>1, <1>3, <1>8 DEF Atomic, Lifecycle!Next

LEMMA StepSerial ==
    ASSUME NEW w \in Workers, Serial(w), Step(w)
    PROVE  Serial(w)' /\ Atomic
  <1>1. Decisions' /\ Typed
    BY NextDecisions DEF Serial, Decisions, Next
  <1>2. Finish(w) => SerialUser(w)' /\ SerialAsk(w)'
    BY <1>1, FinishSerial
  <1>3. CASE RegisterUser(w)
    BY <1>1, <1>3, RegisterSerial DEF Serial
  <1>4. CASE InsertUser(w)
    BY <1>1, <1>2, <1>4, InsertSerial DEF Serial, InsertUser
  <1>5. CASE InsertUserConflict(w) \/ Abort(w)
    BY <1>1, <1>2, <1>5 DEF Serial, InsertUserConflict, Abort, Atomic, db
  <1>6. CASE GrantRole(w)
    BY <1>1, <1>6, GrantSerial DEF Serial, GrantRole, Starts
  <1>7. CASE BanUser(w) \/ UnbanUser(w) \/ ApproveRegistration(w) \/ RejectRegistration(w)
    BY <1>1, <1>7, MoveSerial
       DEF Serial, BanUser, UnbanUser, ApproveRegistration, RejectRegistration, Transition
  <1>8. CASE LoadUser(w)
    BY <1>1, <1>8, LoadUserSerial DEF Serial
  <1>9. CASE CommitUser(w)
    BY <1>1, <1>9, CommitSerial DEF Serial
  <1>10. CASE RequestRole(w)
    BY <1>1, <1>10, RequestRoleSerial DEF Serial
  <1>11. CASE InsertRequest(w)
    BY <1>1, <1>2, <1>11, InsertRequestSerial DEF Serial, InsertRequest
  <1>12. CASE ApproveRequest(w) \/ RejectRequest(w)
    BY <1>1, <1>12, DecideSerial DEF Serial
  <1>13. CASE ReadGrantee(w)
    <2>1. /\ pc[w] = "readGrantee" /\ ask[w].user \in Ids /\ ask[w].by \in Ids
          /\ ask[w].role \in Roles /\ Exists(ask[w].user)
      BY <1>1, <1>13 DEF ReadGrantee, Typed, TypeOK, SessionTypeOK, Control, ControlOf, RequestRow
    <2> QED
      BY <1>1, <1>13, <2>1, GrantSerial DEF Serial, ReadGrantee
  <1>14. CASE LoadRequest(w)
    BY <1>1, <1>14, LoadRequestSerial DEF Serial
  <1>15. CASE CommitRequest(w)
    BY <1>1, <1>2, <1>15, CommitRequestSerial DEF Serial, CommitRequest
  <1> QED
    BY <1>3, <1>4, <1>5, <1>6, <1>7, <1>8, <1>9, <1>10, <1>11, <1>12, <1>13, <1>14, <1>15 DEF Step

LEMMA InitSerial ==
    ASSUME NEW w, Workers = {w}
    PROVE  Init => Serial(w)
  BY InitDecisions DEF Init, Serial, SerialUser, SerialAsk

LEMMA SerialSteps ==
    ASSUME NEW w, Workers = {w}, Serial(w), [Next]_vars
    PROVE  Serial(w)' /\ Atomic
  <1>1. CASE Next
    BY <1>1, StepSerial DEF Next
  <1>2. CASE UNCHANGED vars
    <2>1. Decisions'
      BY NextDecisions DEF Serial
    <2>2. /\ pc'[w] = pc[w] /\ user'[w] = user[w] /\ event'[w] = event[w]
          /\ ask'[w] = ask[w] /\ row'[w] = row[w] /\ askRow'[w] = askRow[w]
          /\ UNCHANGED <<users, requests, outbox>>
      BY <1>2 DEF vars
    <2>3. SerialUser(w)' /\ SerialAsk(w)'
      BY <2>2 DEF Serial, SerialUser, SerialAsk, GrantOf, MoveOf, Exists
    <2> QED
      BY <2>1, <2>2, <2>3 DEF Serial, Atomic
  <1> QED
    BY <1>1, <1>2

(* Served one at a time, the requests are the atomic operations of         *)
(* AccountLifecycle: what each read is still what the table has when it    *)
(* writes, and a session that dies in between changes nothing.             *)
THEOREM SerialImplementsLifecycle ==
    ASSUME NEW w, Workers = {w}
    PROVE  Spec => LifecycleSpec
  <1>1. Init => Lifecycle!Init /\ Serial(w)
    BY InitSerial DEF Init, Lifecycle!Init
  <1>2. Serial(w) /\ [Next]_vars => Serial(w)' /\ [Lifecycle!Next]_(Lifecycle!vars)
    BY SerialSteps DEF Atomic, Lifecycle!vars
  <1> QED
    BY <1>1, <1>2, PTL DEF Spec, LifecycleSpec, Lifecycle!Spec

-----------------------------------------------------------------------------
(* Replaying user-events gives the table, one request at a time. *)

RoleTellers(u) == {i \in 1..Len(outbox) : outbox[i].user = u /\ TellsRole(outbox[i])}
StateTellers(u) == {i \in 1..Len(outbox) : outbox[i].user = u /\ TellsState(outbox[i])}

IsLast(i, S) == i \in S /\ \A j \in S : j <= i

RoleReplayed(u) ==
    Exists(u) =>
        IF RoleTellers(u) = {} THEN users[u].role = InitialRow(u).role
        ELSE \E i : IsLast(i, RoleTellers(u)) /\ outbox[i].role = users[u].role

StateReplayed(u) ==
    Exists(u) =>
        IF StateTellers(u) = {} THEN users[u].state = InitialRow(u).state
        ELSE \E i : IsLast(i, StateTellers(u)) /\ Announces(outbox[i], users[u].state)

Replayed(u) == RoleReplayed(u) /\ StateReplayed(u)

(* A set of numbers has one last element, so CHOOSE finds it. *)
LEMMA LastChosen ==
    ASSUME NEW S \in SUBSET Nat, 0 \notin S, NEW k, IsLast(k, S)
    PROVE  (CHOOSE i \in S : \A j \in S : j <= i) = k /\ k # 0
  <1> DEFINE c == CHOOSE i \in S : \A j \in S : j <= i
  <1>1. c \in S /\ \A j \in S : j <= c
    BY DEF IsLast
  <1>2. c \in Nat /\ k \in Nat /\ k \in S /\ c <= k /\ k <= c
    BY <1>1 DEF IsLast
  <1> QED
    BY <1>2

LEMMA ReplayedIsTable ==
    ASSUME Typed, \A u \in Ids : Replayed(u)
    PROVE  ReplayIsTable
  <1> SUFFICES ASSUME NEW u \in Ids, Exists(u)
               PROVE  /\ IF LastTold(u, TellsRole) = 0 THEN users[u].role = InitialRow(u).role
                         ELSE outbox[LastTold(u, TellsRole)].role = users[u].role
                      /\ IF LastTold(u, TellsState) = 0 THEN users[u].state = InitialRow(u).state
                         ELSE Announces(outbox[LastTold(u, TellsState)], users[u].state)
    BY DEF ReplayIsTable
  <1>1. RoleTellers(u) \in SUBSET Nat /\ StateTellers(u) \in SUBSET Nat
        /\ 0 \notin RoleTellers(u) /\ 0 \notin StateTellers(u)
    BY DEF RoleTellers, StateTellers, Typed, TypeOK, DbTypeOK
  <1>2. LastTold(u, TellsRole) =
          IF RoleTellers(u) = {} THEN 0
          ELSE CHOOSE i \in RoleTellers(u) : \A j \in RoleTellers(u) : j <= i
    BY DEF LastTold, RoleTellers
  <1>3. LastTold(u, TellsState) =
          IF StateTellers(u) = {} THEN 0
          ELSE CHOOSE i \in StateTellers(u) : \A j \in StateTellers(u) : j <= i
    BY DEF LastTold, StateTellers
  <1>4. RoleReplayed(u) /\ StateReplayed(u)
    BY DEF Replayed
  <1>5. IF LastTold(u, TellsRole) = 0 THEN users[u].role = InitialRow(u).role
        ELSE outbox[LastTold(u, TellsRole)].role = users[u].role
    <2>1. CASE RoleTellers(u) = {}
      BY <1>2, <1>4, <2>1 DEF RoleReplayed
    <2>2. CASE RoleTellers(u) # {}
      <3> PICK k : IsLast(k, RoleTellers(u)) /\ outbox[k].role = users[u].role
        BY <1>4, <2>2 DEF RoleReplayed
      <3>1. LastTold(u, TellsRole) = k /\ k # 0
        BY <1>1, <1>2, <2>2, LastChosen
      <3> QED
        BY <3>1
    <2> QED
      BY <2>1, <2>2
  <1>6. IF LastTold(u, TellsState) = 0 THEN users[u].state = InitialRow(u).state
        ELSE Announces(outbox[LastTold(u, TellsState)], users[u].state)
    <2>1. CASE StateTellers(u) = {}
      BY <1>3, <1>4, <2>1 DEF StateReplayed
    <2>2. CASE StateTellers(u) # {}
      <3> PICK k : IsLast(k, StateTellers(u)) /\ Announces(outbox[k], users[u].state)
        BY <1>4, <2>2 DEF StateReplayed
      <3>1. LastTold(u, TellsState) = k /\ k # 0
        BY <1>1, <1>3, <2>2, LastChosen
      <3> QED
        BY <3>1
    <2> QED
      BY <2>1, <2>2
  <1> QED
    BY <1>5, <1>6

(* An event that tells is the last to tell; another leaves it as it was. *)
LEMMA RoleAppended ==
    ASSUME Typed, NEW e \in Events, outbox' = Append(outbox, e), NEW u \in Ids,
           RoleReplayed(u),
           IF e.user = u /\ TellsRole(e) THEN users'[u].role = e.role
           ELSE Exists(u)' => Exists(u) /\ users'[u].role = users[u].role
    PROVE  RoleReplayed(u)'
  <1>1. /\ outbox \in Seq(Events) /\ Len(outbox) \in Nat /\ Len(outbox') = Len(outbox) + 1
        /\ outbox'[Len(outbox) + 1] = e
        /\ \A i \in 1..Len(outbox) : outbox'[i] = outbox[i]
    BY DEF Typed, TypeOK, DbTypeOK
  <1>2. CASE e.user = u /\ TellsRole(e)
    <2>1. IsLast(Len(outbox) + 1, RoleTellers(u)')
      BY <1>1, <1>2 DEF IsLast, RoleTellers
    <2> QED
      BY <1>1, <1>2, <2>1 DEF RoleReplayed, IsLast
  <1>3. CASE ~(e.user = u /\ TellsRole(e))
    <2>1. RoleTellers(u)' = RoleTellers(u)
      <3>1. ASSUME NEW i PROVE i \in RoleTellers(u)' <=> i \in RoleTellers(u)
        BY <1>1, <1>3 DEF RoleTellers, TellsRole
      <3> QED
        BY <3>1
    <2> QED
      BY <1>1, <1>3, <2>1 DEF RoleReplayed, IsLast, RoleTellers
  <1> QED
    BY <1>2, <1>3

LEMMA StateAppended ==
    ASSUME Typed, NEW e \in Events, outbox' = Append(outbox, e), NEW u \in Ids,
           StateReplayed(u),
           IF e.user = u /\ TellsState(e) THEN Announces(e, users'[u].state)
           ELSE Exists(u)' => Exists(u) /\ users'[u].state = users[u].state
    PROVE  StateReplayed(u)'
  <1>1. /\ outbox \in Seq(Events) /\ Len(outbox) \in Nat /\ Len(outbox') = Len(outbox) + 1
        /\ outbox'[Len(outbox) + 1] = e
        /\ \A i \in 1..Len(outbox) : outbox'[i] = outbox[i]
    BY DEF Typed, TypeOK, DbTypeOK
  <1>2. CASE e.user = u /\ TellsState(e)
    <2>1. IsLast(Len(outbox) + 1, StateTellers(u)')
      BY <1>1, <1>2 DEF IsLast, StateTellers
    <2> QED
      BY <1>1, <1>2, <2>1 DEF StateReplayed, IsLast
  <1>3. CASE ~(e.user = u /\ TellsState(e))
    <2>1. StateTellers(u)' = StateTellers(u)
      <3>1. ASSUME NEW i PROVE i \in StateTellers(u)' <=> i \in StateTellers(u)
        BY <1>1, <1>3 DEF StateTellers, TellsState, Announces
      <3> QED
        BY <3>1
    <2>2. \A i \in StateTellers(u) : outbox'[i] = outbox[i]
      BY <1>1 DEF StateTellers
    <2> QED
      BY <1>1, <1>3, <2>1, <2>2 DEF StateReplayed, IsLast
  <1> QED
    BY <1>2, <1>3

LEMMA AtomicReplayed ==
    ASSUME Typed, Typed', \A u \in Ids : Replayed(u), Atomic, NEW u \in Ids
    PROVE  Replayed(u)'
  <1>0. Replayed(u) /\ users \in [Ids -> UserRow \cup {None}]
    BY DEF Typed, TypeOK, DbTypeOK
  <1>1. ASSUME NEW v \in Ids, NEW email \in Emails, Lifecycle!Register(v, email)
        PROVE  Replayed(u)'
    <2> DEFINE e == Event("UserRegistered", v, v, "BASIC_USER")
    <2>1. e \in Events /\ outbox' = Append(outbox, e)
      BY <1>1, SameDomain, EventType DEF Lifecycle!Register, Lifecycle!Tell, EventTypes, Roles
    <2>2. users' = [users EXCEPT ![v] = Registered(v, email)]
      BY <1>1, SameDomain DEF Lifecycle!Register
    <2>3. /\ e.user = v /\ e.role = "BASIC_USER" /\ e.type = "UserRegistered"
          /\ Registered(v, email).role = "BASIC_USER" /\ Registered(v, email).state = "ACTIVE"
      BY DEF Event, Registered
    <2>4. TellsRole(e) /\ TellsState(e) /\ Announces(e, "ACTIVE")
      BY <2>3 DEF TellsRole, TellsState, Announces, States
    <2> HIDE DEF e
    <2> QED
      BY <1>0, <2>1, <2>2, <2>3, <2>4, RoleAppended, StateAppended DEF Replayed, Exists
  <1>2. ASSUME NEW v \in Ids, NEW a \in Ids, NEW verb \in DOMAIN Transition, Lifecycle!Move(v, a, verb)
        PROVE  Replayed(u)'
    <2> DEFINE e == Event(Transition[verb].event, v, a, None)
    <2>1. e \in Events /\ outbox' = Append(outbox, e)
      BY <1>2, SameDomain, EventType, TransitionType DEF Lifecycle!Move, Lifecycle!Tell
    <2>2. users[v] # None /\ users' = [users EXCEPT ![v].state = Transition[verb].to]
      BY <1>2, SameDomain DEF Lifecycle!Move
    <2>3. e.user = v /\ e.type = Transition[verb].event
      BY DEF Event
    <2>4. ~TellsRole(e) /\ TellsState(e) /\ Announces(e, Transition[verb].to)
      BY <2>3 DEF TellsRole, TellsState, Announces, States, Transition
    <2>5. /\ users'[v].state = Transition[verb].to /\ users'[v].role = users[v].role
          /\ \A x \in Ids \ {v} : users'[x] = users[x]
      BY <1>0, <2>2 DEF UserRow
    <2> HIDE DEF e
    <2> QED
      BY <1>0, <2>1, <2>2, <2>3, <2>4, <2>5, RoleAppended, StateAppended DEF Replayed, Exists
  <1>3. ASSUME NEW v \in Ids, NEW a \in Ids, NEW role \in Roles, Lifecycle!ChangeRole(v, a, role)
        PROVE  Replayed(u)'
    <2> DEFINE e == Event("RoleGranted", v, a, role)
    <2>1. e \in Events /\ outbox' = Append(outbox, e)
      BY <1>3, SameDomain, EventType DEF Lifecycle!ChangeRole, Lifecycle!Tell, EventTypes
    <2>2. users[v] # None /\ users' = [users EXCEPT ![v].role = role]
      BY <1>3, SameDomain DEF Lifecycle!ChangeRole
    <2>3. e.user = v /\ e.type = "RoleGranted" /\ e.role = role
      BY DEF Event
    <2>4. TellsRole(e) /\ ~TellsState(e)
      BY <2>3 DEF TellsRole, TellsState, Announces
    <2>5. /\ users'[v].state = users[v].state /\ users'[v].role = role
          /\ \A x \in Ids \ {v} : users'[x] = users[x]
      BY <1>0, <2>2 DEF UserRow
    <2> HIDE DEF e
    <2> QED
      BY <1>0, <2>1, <2>2, <2>3, <2>4, <2>5, RoleAppended, StateAppended DEF Replayed, Exists
  <1>4. ASSUME NEW q \in RequestIds, NEW v \in Ids, NEW role \in Roles, Lifecycle!Ask(q, v, role)
        PROVE  Replayed(u)'
    <2> DEFINE e == Event("RoleRequested", v, v, role)
    <2>1. e \in Events /\ outbox' = Append(outbox, e) /\ users' = users
      BY <1>4, SameDomain, EventType DEF Lifecycle!Ask, Lifecycle!Tell, EventTypes
    <2>2. ~TellsRole(e) /\ ~TellsState(e)
      BY DEF TellsRole, TellsState, Announces, Event
    <2> HIDE DEF e
    <2> QED
      BY <1>0, <2>1, <2>2, RoleAppended, StateAppended DEF Replayed, Exists
  <1>5. CASE UNCHANGED <<users, outbox>>
    BY <1>0, <1>5 DEF Replayed, RoleReplayed, StateReplayed, RoleTellers, StateTellers, IsLast, Exists
  <1> QED
    BY <1>1, <1>2, <1>3, <1>4, <1>5, SameDomain DEF Atomic, Lifecycle!Next, Lifecycle!Decide

(* With one request at a time, the last event about a role or a state of   *)
(* an account says what the table has: a lost update would break it.       *)
THEOREM SerialReplayIsTable ==
    ASSUME NEW w, Workers = {w}
    PROVE  Spec => []ReplayIsTable
  <1> DEFINE Inv == Serial(w) /\ \A u \in Ids : Replayed(u)
  <1>1. Init => Inv
    <2> SUFFICES ASSUME Init PROVE Inv
      OBVIOUS
    <2>1. Serial(w)
      BY InitSerial
    <2>2. \A u \in Ids : Exists(u) => u \in Leftover \cup {Admin}
      BY DEF Init, InitialUsers, Exists
    <2>3. ASSUME NEW u \in Ids PROVE Replayed(u)
      <3>1. RoleTellers(u) = {} /\ StateTellers(u) = {}
        BY DEF Init, RoleTellers, StateTellers
      <3>2. Exists(u) => users[u] = InitialRow(u)
        BY DEF Init, InitialUsers, Exists
      <3> QED
        BY <3>1, <3>2 DEF Replayed, RoleReplayed, StateReplayed
    <2> QED
      BY <2>1, <2>3
  <1>2. Inv /\ [Next]_vars => Inv'
    <2> SUFFICES ASSUME Inv, [Next]_vars PROVE Inv'
      OBVIOUS
    <2>1. Serial(w)' /\ Atomic
      BY SerialSteps
    <2>2. Typed /\ Typed'
      BY <2>1 DEF Serial, Decisions
    <2>3. \A u \in Ids : Replayed(u)'
      BY <2>1, <2>2, AtomicReplayed
    <2> QED
      BY <2>1, <2>3
  <1>3. Inv => ReplayIsTable
    BY ReplayedIsTable DEF Serial, Decisions
  <1> QED
    BY <1>1, <1>2, <1>3, PTL DEF Spec

(* With one request at a time, a banned account becomes ACTIVE only by the *)
(* step that commits the UserUnbanned event about it.                      *)
THEOREM SerialOnlyUnban ==
    ASSUME NEW w, Workers = {w}
    PROVE  Spec => OnlyUnbanReactivates
  <1>1. Init => Serial(w)
    BY InitSerial
  <1>2. Serial(w) /\ [Next]_vars => Serial(w)'
    BY SerialSteps
  <1>3. Serial(w) /\ [Next]_vars =>
          [\A u \in Ids :
             Exists(u) /\ users[u].state = "BANNED" /\ users'[u].state = "ACTIVE" =>
               \E a \in Ids :
                 outbox' = Append(outbox, Event("UserUnbanned", u, a, None))]_vars
    <2> SUFFICES ASSUME Serial(w), [Next]_vars, NEW u \in Ids, Exists(u),
                        users[u].state = "BANNED", users'[u].state = "ACTIVE"
                 PROVE  \E a \in Ids :
                          outbox' = Append(outbox, Event("UserUnbanned", u, a, None))
      OBVIOUS
    <2>1. Atomic /\ users \in [Ids -> UserRow \cup {None}]
      BY SerialSteps DEF Serial, Decisions, Typed, TypeOK, DbTypeOK
    <2>2. ASSUME NEW v \in Ids, NEW email \in Emails, Lifecycle!Register(v, email)
          PROVE  FALSE
      BY <2>1, <2>2 DEF Lifecycle!Register, Exists
    <2>3. ASSUME NEW v \in Ids, NEW a \in Ids, NEW verb \in DOMAIN Transition, Lifecycle!Move(v, a, verb)
          PROVE  outbox' = Append(outbox, Event("UserUnbanned", u, a, None))
      <3>1. /\ users[v].state = Transition[verb].from
            /\ users' = [users EXCEPT ![v].state = Transition[verb].to]
            /\ outbox' = Append(outbox, Event(Transition[verb].event, v, a, None))
        BY <2>3, SameDomain DEF Lifecycle!Move, Lifecycle!Tell
      <3>2. u = v
        BY <2>1, <3>1
      <3> QED
        BY <3>1, <3>2 DEF Transition
    <2>4. ASSUME NEW v \in Ids, NEW a \in Ids, NEW role \in Roles, Lifecycle!ChangeRole(v, a, role)
          PROVE  FALSE
      <3>1. users[v] # None /\ users' = [users EXCEPT ![v].role = role]
        BY <2>4 DEF Lifecycle!ChangeRole
      <3>2. users'[u].state = users[u].state
        BY <2>1, <3>1 DEF UserRow
      <3> QED
        BY <3>2
    <2>5. users' # users
      OBVIOUS
    <2> QED
      BY <2>1, <2>2, <2>3, <2>4, <2>5, SameDomain
         DEF Atomic, Lifecycle!Next, Lifecycle!Ask, Lifecycle!Decide
  <1> QED
    BY <1>1, <1>2, <1>3, PTL DEF Spec, OnlyUnbanReactivates

-----------------------------------------------------------------------------
(* The two requests of Recipients *)

(* The patterns of a query find what starts with it, whatever it holds.    *)
LEMMA HitsStart ==
    ASSUME TypeOK, NEW query \in Queries, Len(Strip(query)) >= MinQueryLength,
           NEW u \in Active
    PROVE  users[u].email \in AddressesLike[query] \/ u \in NamesLike[query]
             <=> StartsWith(query, u)
  <1> DEFINE typed == Lower(Strip(query))
             address == AddressOf[users[u].email]
             t == Lower(NameOf[u])
             name == <<Blank>> \o t
  <1>1. u \in Ids /\ users[u].email \in Emails
    BY DEF Active, Exists, TypeOK, DbTypeOK, UserRow
  <1>2. /\ NameOf[u] \in Seq(Characters) /\ address \in Seq(Characters)
        /\ Lower(address) = address
    BY <1>1, TextsOK
  <1>3. typed \in Seq(Lowered) /\ typed # <<>>
    <2>1. Strip(query) \in Seq(Characters)
      BY StripCharacters
    <2>2. typed \in Seq(Lowered) /\ Len(typed) = Len(Strip(query))
          /\ Len(Strip(query)) \in Nat
      BY <2>1, LowerText
    <2>3. Len(typed) # 0
      BY <2>2, Limits
    <2> HIDE DEF typed
    <2> QED
      BY <2>2, <2>3
  <1>4. t \in Seq(Lowered) /\ address \in Seq(Lowered)
    BY <1>2, LowerText
  <1>5. Blank \in Lowered
    BY SpecialStays DEF Lowered
  <1>6. users[u].email \in AddressesLike[query] <=> ILike(address, Prefix(query))
    BY <1>1 DEF AddressesLike
  <1>7. u \in NamesLike[query] <=>
          ILike(NameOf[u], Prefix(query)) \/ ILike(NameOf[u], Word(query))
    BY <1>1 DEF NamesLike
  <1>8. ILike(address, Prefix(query)) <=> IsPrefix(typed, address)
    <2>1. ILike(address, Prefix(query)) <=> Continues(address, 1, typed, 1)
      BY <1>2, PrefixLike
    <2> HIDE DEF typed, address
    <2>2. 1 \in 1..Len(address) + 1 /\ SubSeq(address, 1, Len(address)) = address
      BY <1>4
    <2>3. IsPrefix(typed, SubSeq(address, 1, Len(address)))
            <=> Continues(address, 1, typed, 1)
      BY <1>3, <1>4, <2>2, PrefixContinues
    <2> QED
      BY <2>1, <2>2, <2>3
  <1>9. ILike(NameOf[u], Prefix(query)) \/ ILike(NameOf[u], Word(query)) <=>
          \E i \in 2..Len(name) :
             name[i - 1] = Blank /\ IsPrefix(typed, SubSeq(name, i, Len(name)))
    <2>1. ILike(NameOf[u], Prefix(query)) <=> Continues(t, 1, typed, 1)
      BY <1>2, PrefixLike
    <2>2. ILike(NameOf[u], Word(query)) <=>
            \E k \in 1..Len(t) : t[k] = Blank /\ Continues(t, k + 1, typed, 1)
      BY <1>2, WordLike
    <2> HIDE DEF typed, t
    <2>3. (\E i \in 2..Len(name) :
             name[i - 1] = Blank /\ IsPrefix(typed, SubSeq(name, i, Len(name))))
          <=> \/ Continues(t, 1, typed, 1)
              \/ \E k \in 1..Len(t) : t[k] = Blank /\ Continues(t, k + 1, typed, 1)
      BY <1>3, <1>4, <1>5, WordStarts
    <2> QED
      BY <2>1, <2>2, <2>3
  <1>10. StartsWith(query, u) <=>
           \/ IsPrefix(typed, address)
           \/ \E i \in 2..Len(name) :
                name[i - 1] = Blank /\ IsPrefix(typed, SubSeq(name, i, Len(name)))
    BY DEF StartsWith
  <1> QED
    BY <1>6, <1>7, <1>8, <1>9, <1>10

(* The address of an active account is that account's alone. *)
LEMMA AddressResolves ==
    ASSUME TypeOK, EmailUnique, NEW u \in Active
    PROVE  FindRecipient(AddressOf[users[u].email]) = {u}
  <1> DEFINE address == AddressOf[users[u].email]
  <1>1. \A v \in Active : v \in Ids /\ Exists(v) /\ users[v].email \in Emails
    BY DEF Active, Exists, TypeOK, DbTypeOK, UserRow
  <1>2. /\ address \in Seq(Characters) /\ Lower(address) = address
        /\ Contains(address, "@") /\ ~Contains(address, Blank)
    BY <1>1, TextsOK
  <1>3. \A v \in Active : AddressOf[users[v].email] = address => v = u
    BY <1>1, TextsOK DEF EmailUnique
  <1>4. address # <<>>
    BY <1>2 DEF Contains
  <1>5. Lower(Strip(address)) = address
    <2> HIDE DEF address
    <2> QED
      BY <1>2, <1>4, StripNothing
  <1>6. FindRecipient(address) = {v \in Active : AddressOf[users[v].email] = address}
    <2> HIDE DEF address
    <2> QED
      BY <1>2, <1>4, <1>5 DEF FindRecipient
  <1> QED
    BY <1>3, <1>6

(* Suggestions are the active accounts that start with what was typed, all *)
(* of them or as many as the list holds, and what is picked resolves to    *)
(* the account it is the address of (user_repository.py:43-111,            *)
(* suggest_recipients.py, find_recipient.py).                              *)
THEOREM SuggestionsResolve == Spec => []SuggestionsHold
  <1>1. ASSUME TypeOK, EmailUnique, NEW query \in Queries, NEW caller \in Ids,
               NEW list \in SuggestRecipients(query, caller)
        PROVE  LET fitting ==
                     {u \in Active \ {caller} :
                        StartsWith(query, u) /\ Len(Strip(query)) >= MinQueryLength}
               IN  /\ list \subseteq fitting
                   /\ Cardinality(list) <= MaxResults
                   /\ list # fitting => Cardinality(list) = MaxResults
                   /\ \A u \in list : FindRecipient(AddressOf[users[u].email]) = {u}
    <2> DEFINE fitting ==
                 {u \in Active \ {caller} :
                    StartsWith(query, u) /\ Len(Strip(query)) >= MinQueryLength}
    <2>1. Len(Strip(query)) \in Nat /\ MinQueryLength \in Nat
          /\ MaxResults \in Nat \ {0}
      <3>1. Strip(query) \in Seq(Characters)
        BY StripCharacters
      <3> QED
        BY <3>1, Limits
    <2>2. CASE Len(Strip(query)) < MinQueryLength
      <3>1. list = {}
        BY <2>2 DEF SuggestRecipients
      <3>2. fitting = {}
        BY <2>1, <2>2
      <3> QED
        BY <2>1, <3>1, <3>2, FS_EmptySet
    <2>3. CASE Len(Strip(query)) >= MinQueryLength
      <3>1. Matching(query, caller) = fitting
        <4>1. \A u \in Active :
                users[u].email \in AddressesLike[query] \/ u \in NamesLike[query]
                  <=> StartsWith(query, u)
          BY <1>1, <2>3, HitsStart
        <4>2. Matching(query, caller) =
                {u \in Active \ {caller} : StartsWith(query, u)}
          BY <4>1, Zenon DEF Matching
        <4> QED
          BY <2>3, <4>2
      <3> DEFINE n == Min({MaxResults, Cardinality(fitting)})
      <3>2. list \in SUBSET fitting /\ Cardinality(list) = n
        <4>1. ~(Len(Strip(query)) < MinQueryLength)
          BY <2>1, <2>3
        <4>2. list \in SearchActive(query, caller)
          BY <4>1 DEF SuggestRecipients
        <4> HIDE DEF fitting
        <4> QED
          BY <3>1, <4>2 DEF SearchActive, kSubset
      <3>3. IsFiniteSet(fitting)
        <4>1. fitting \in SUBSET Ids /\ IsFiniteSet(Ids)
          BY Limits DEF Active
        <4> HIDE DEF fitting
        <4> QED
          BY <4>1, FS_Subset
      <3>4. Cardinality(fitting) \in Nat
        BY <3>3, FS_CardinalityType
      <3>5. n \in {MaxResults, Cardinality(fitting)} /\ n <= MaxResults
        <4>1. \E x \in {MaxResults, Cardinality(fitting)} :
                 \A y \in {MaxResults, Cardinality(fitting)} : x =< y
          <5> HIDE DEF fitting
          <5> QED
            BY <2>1, <3>4
        <4> HIDE DEF fitting
        <4>2. n \in {MaxResults, Cardinality(fitting)}
              /\ \A y \in {MaxResults, Cardinality(fitting)} : n =< y
          BY <4>1, Zenon DEF Min
        <4> QED
          BY <4>2
      <3> HIDE DEF n
      <3>6. list # fitting => Cardinality(list) # Cardinality(fitting)
        <4> HIDE DEF fitting
        <4> QED
          BY <3>2, <3>3, FS_Subset
      <3>7. \A u \in list : FindRecipient(AddressOf[users[u].email]) = {u}
        <4>1. \A u \in list : u \in Active
          BY <3>2
        <4> QED
          BY <1>1, <4>1, AddressResolves
      <3> HIDE DEF fitting
      <3>8. /\ list \subseteq fitting
            /\ Cardinality(list) <= MaxResults
            /\ list # fitting => Cardinality(list) = MaxResults
        BY <3>2, <3>5, <3>6
      <3> QED
        BY <3>7, <3>8 DEF fitting
    <2>4. Len(Strip(query)) < MinQueryLength \/ Len(Strip(query)) >= MinQueryLength
      BY <2>1
    <2> HIDE DEF fitting
    <2> QED
      BY <2>2, <2>3, <2>4 DEF fitting
  <1>2. TypeOK /\ EmailUnique => SuggestionsHold
    BY <1>1 DEF SuggestionsHold
  <1> QED
    BY <1>2, TypeCorrect, AddressesUnique, PTL

=============================================================================
