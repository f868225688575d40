------------------------------ MODULE MCPresence ------------------------------
(* Small instances of Presence: a tick is ten seconds.                     *)
EXTENDS Presence

CONSTANTS s1, s2
=============================================================================
