------------------------------ MODULE MCLibrary ------------------------------
(* Small instances of Library: one account and a game of hers.             *)
EXTENDS Library, TLC

CONSTANTS ann, k1, c1, c2

MCOwnerOf == [k \in Keys |-> ann]
=============================================================================
