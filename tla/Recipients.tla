------------------------------ MODULE Recipients ------------------------------
(***************************************************************************)
(* How the sender of a gift finds the account it goes to: suggestions      *)
(* while she types, and the exact lookup of what she has typed or picked.  *)
(* Both only read table users, in one statement each, so what they answer  *)
(* is an operator of the state of Accounts.                                *)
(*                                                                         *)
(* A text is a sequence of characters here, because a property is about    *)
(* them: what is typed becomes a LIKE pattern, in which some characters    *)
(* mean more than themselves.  A display name never changes and may be     *)
(* anything, so it is a constant of the account.                           *)
(***************************************************************************)
EXTENDS Accounts, FiniteSets, SequencesExt

CONSTANTS
    LowerCase,       \* a character -> what lower() makes of it
    NameOf,          \* Ids -> the display name the account has
    AddressOf,       \* Emails -> its text
    Place,           \* Ids -> where the database sorts its display name
    Queries,         \* what people type
    MinQueryLength,  \* suggest_recipients: MIN_QUERY_LENGTH
    MaxResults       \* suggest_recipients: MAX_RESULTS

Lower(text) == [i \in DOMAIN text |-> LowerCase[text[i]]]

Characters == DOMAIN LowerCase

Blank == " "   \* what strip() cuts off, and what begins a word of a name

ASSUME TextsOK ==
    /\ MinQueryLength \in Nat \ {0} /\ MaxResults \in Nat \ {0}
    /\ IsFiniteSet(Ids) /\ Place \in [Ids -> Nat]
    \* lower() makes none of these and changes none
    /\ \A c \in {Blank, "!", "%", "_"} :
          c \in Characters /\ \A d \in Characters : LowerCase[d] = c <=> d = c
    /\ NameOf \in [Ids -> Seq(Characters)] /\ Queries \subseteq Seq(Characters)
    /\ AddressOf \in [Emails -> Seq(Characters)]
    /\ \A e, f \in Emails : AddressOf[e] = AddressOf[f] => e = f
    /\ \A e \in Emails : /\ Contains(AddressOf[e], "@")
                         /\ ~Contains(AddressOf[e], Blank)
                         /\ Lower(AddressOf[e]) = AddressOf[e]

Strip(text) ==
    LET ink == {i \in DOMAIN text : text[i] # Blank}
    IN  IF ink = {} THEN <<>> ELSE SubSeq(text, Min(ink), Max(ink))

-----------------------------------------------------------------------------
(* The LIKE pattern *)

(* str.replace(char, "!" + char) *)
Replace(text, char) ==
    FlattenSeq([i \in DOMAIN text |->
        IF text[i] = char THEN <<"!", char>> ELSE <<text[i]>>])

(* Faulty variant: escapes the escapes. *)
LikeFragmentBangLast(query) == Replace(Replace(Replace(query, "%"), "_"), "!")

LikeFragment(query) == Replace(Replace(Replace(query, "!"), "%"), "_")

(* text ILIKE pattern ESCAPE '!': from which places on the text fits what  *)
(* is left of the pattern at j.                                            *)
ILike(text, pattern) ==
    LET t == Lower(text)
        p == Lower(pattern)
        fits[j \in 1..Len(p) + 2] ==
            LET next == fits[j + 1]
                afterEscape == fits[j + 2]
            IN  IF j > Len(p) THEN {Len(t) + 1}
                ELSE {i \in 1..Len(t) + 1 :
                        \/ p[j] = "%" /\ \E k \in next : i <= k
                        \/ /\ i <= Len(t) /\ p[j] = "!" /\ j < Len(p)
                           /\ p[j + 1] = t[i] /\ i + 1 \in afterEscape
                        \/ /\ i <= Len(t) /\ p[j] \in {"_", t[i]} \ {"!", "%"}
                           /\ i + 1 \in next}
    IN  1 \in fits[1]

Prefix(query) == Append(LikeFragment(Strip(query)), "%")
Word(query) == <<"%", Blank>> \o Prefix(query)

(* Which addresses, and whose names, the patterns of a query fit. *)
AddressesLike ==
    [q \in Queries |-> {e \in Emails : ILike(AddressOf[e], Prefix(q))}]

NamesLike ==
    [q \in Queries |->
        {u \in Ids : ILike(NameOf[u], Prefix(q)) \/ ILike(NameOf[u], Word(q))}]

-----------------------------------------------------------------------------
(* The two requests *)

Active == {u \in Ids : Exists(u) /\ users[u].state = "ACTIVE"}

Matching(query, caller) ==
    {u \in Active \ {caller} : users[u].email \in AddressesLike[query]
                               \/ u \in NamesLike[query]}

(* The first of them, by name: every list the database may choose. *)
SearchActive(query, caller) ==
    LET hits == Matching(query, caller)
        n == Min({MaxResults, Cardinality(hits)})
    IN  {list \in kSubset(n, hits) :
            \A u \in list, v \in hits \ list : Place[u] <= Place[v]}

SuggestRecipients(query, caller) ==
    IF Len(Strip(query)) < MinQueryLength THEN {{}} ELSE SearchActive(query, caller)

(* The account found, if it is one; RecipientNotFoundError if it is none,  *)
(* RecipientNotUniqueError if they are more.                               *)
FindRecipient(text) ==
    LET candidate == Lower(Strip(text)) IN
    {u \in Active :
        /\ candidate # <<>>
        /\ IF Contains(candidate, "@") THEN AddressOf[users[u].email] = candidate
                                       ELSE Lower(NameOf[u]) = candidate}

-----------------------------------------------------------------------------

(* What the docstrings promise of a query, without a pattern: the address, *)
(* or a word of the name, starts with what was typed, letter by letter.    *)
StartsWith(query, u) ==
    LET typed == Lower(Strip(query))
        name == <<Blank>> \o Lower(NameOf[u])
    IN  \/ IsPrefix(typed, AddressOf[users[u].email])
        \/ \E i \in 2..Len(name) :
             name[i - 1] = Blank /\ IsPrefix(typed, SubSeq(name, i, Len(name)))

(* Whatever was typed, wildcards and escapes among it, exactly the active  *)
(* accounts it is the start of are suggested, never the caller; one is     *)
(* missing only where the list is full, and an address that is picked from *)
(* the list resolves to that account and no other                          *)
(* (suggest_recipients.py:10-19, user_repository.py:43-49,                 *)
(* find_recipient.py:18-28).                                               *)
SuggestionsHold ==
    \A query \in Queries, caller \in Ids :
        LET fitting ==
                {u \in Active \ {caller} : StartsWith(query, u)
                                     /\ Len(Strip(query)) >= MinQueryLength}
        IN  \A list \in SuggestRecipients(query, caller) :
              /\ list \subseteq fitting
              /\ Cardinality(list) <= MaxResults
              /\ list # fitting => Cardinality(list) = MaxResults
              /\ \A u \in list : FindRecipient(AddressOf[users[u].email]) = {u}

=============================================================================
