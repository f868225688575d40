------------------------------ MODULE MCAccounts ------------------------------
(* Small instances of Accounts, and of the reads of Recipients. *)
EXTENDS Recipients

CONSTANTS adm, old, ann, bob, mailAdm, mailOld, mailAnn, typedAnn, typedANN,
          w1, w2

(* Two ways of typing one address, as .lower().strip() sees them. *)
MCNormal == [s \in Spellings |-> mailAnn]

MCHomeEmail ==
    [u \in Leftover \cup {Admin} |-> IF u = Admin THEN mailAdm ELSE mailOld]

(* Workers, and accounts that do not exist yet, differ in nothing but their *)
(* name.                                                                    *)
Alike == Permutations({w1, w2}) \cup Permutations({ann, bob})

(* Names and addresses with the characters LIKE gives a meaning, and       *)
(* queries that are the start of one, of two, of a later word, of the      *)
(* middle of a word, of nothing, or too short.                             *)
MCLowerCase ==
    [c \in {"a", "A", "b", "n", "@", " ", "!", "%", "_"} |-> IF c = "A" THEN "a" ELSE c]

MCNameOf ==
    [u \in Ids |-> CASE u = adm -> <<"A", "%", "b">>
                     [] u = old -> <<"b", " ", "A", "%">>
                     [] OTHER -> <<"a", "!", "n">>]

MCAddressOf ==
    [e \in Emails |-> CASE e = mailAdm -> <<"a", "_", "@", "b">>
                        [] e = mailOld -> <<"b", "b", "@", "b">>
                        [] OTHER -> <<"a", "n", "@", "b">>]

MCPlace == [u \in Ids |-> CASE u = adm -> 2 [] u = old -> 3 [] OTHER -> 1]

MCQueries ==
    {<<"a", "%">>, <<"A", "_">>, <<"a", "!">>, <<" ", "a", "n", " ">>,
     <<"%", "b">>, <<"%", "%">>, <<"a", " ">>, <<"b", "b", "@">>, <<"b", " ", "a">>}
=============================================================================
