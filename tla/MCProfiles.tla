------------------------------ MODULE MCProfiles ------------------------------
(* Small instances of Profiles.                                            *)
EXTENDS Profiles, TLC

CONSTANTS ann, c1, c2
=============================================================================
