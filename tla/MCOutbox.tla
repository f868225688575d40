------------------------------- MODULE MCOutbox -------------------------------
(* Small instances of Outbox: r1 and r2 tell of one user, r3 of another.   *)
EXTENDS Outbox, TLC

CONSTANTS r1, r2, r3, u1, u2, d1, d2

MCAggregateOf == [r \in Rows |-> IF r = r3 THEN u2 ELSE u1]
=============================================================================
