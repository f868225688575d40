------------------------------ MODULE MCLifespan ------------------------------
(* Small instances of Lifespan: two full replicas, and one that is started *)
(* with the migrations and Kafka switched off.                             *)
EXTENDS Lifespan

CONSTANTS r1, r2, bare
=============================================================================
