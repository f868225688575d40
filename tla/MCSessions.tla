------------------------------ MODULE MCSessions ------------------------------
(* Small instances of Sessions: one account, active or banned, that may be *)
(* given another role.                                                     *)
EXTENDS Sessions, TLC

CONSTANTS ann, j1, j2, w1, w2

MCRows ==
    {[role |-> "BASIC_USER", state |-> "ACTIVE"],
     [role |-> "BASIC_USER", state |-> "BANNED"],
     [role |-> "ADMIN", state |-> "ACTIVE"]}

(* Workers and tokens differ in nothing but their names. *)
Alike == Permutations({w1, w2}) \cup Permutations({j1, j2})
=============================================================================
