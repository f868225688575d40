------------------------------ MODULE MCTopPosts ------------------------------
(* Small instances of TopPosts.                                            *)
EXTENDS TopPosts

CONSTANTS p1, p2, p3, c1, c2

(* Posts and replicas differ in nothing but their name. *)
Alike == Permutations({p1, p2, p3}) \cup Permutations({c1, c2})
=============================================================================
