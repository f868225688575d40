-------------------------------- MODULE Lifespan --------------------------------
(***************************************************************************)
(* The service coming up and going down: several replicas, one Postgres,   *)
(* one Kafka broker.                                                       *)
(*                                                                         *)
(* A replica creates the schema and the first administrator, starts its    *)
(* producer, the outbox dispatcher and one consumer per topic, and serves. *)
(* What raises on the way ends the process, and the orchestrator starts it *)
(* again.  Only the creation of topics swallows its failure.  Nothing      *)
(* keeps two replicas from doing this at once: create_all looks which      *)
(* tables exist and then creates them in one transaction, which fails if   *)
(* another's has come first; the seed is a lookup and an insert, and the   *)
(* index on the address decides.                                           *)
(*                                                                         *)
(* Its names are its own, so that one module can speak of the outbox and   *)
(* of the process its dispatchers run in.                                  *)
(***************************************************************************)
EXTENDS Naturals, Sequences, FiniteSets

CONSTANTS
    Replicas,    \* processes of the service
    Migrating,   \* those that run with RUN_MIGRATIONS on
    Streaming,   \* those that run with KAFKA_ENABLED on
    AdminEmail,  \* settings.super_admin_email, as configured
    Stored,      \* what email.lower().strip() makes of it
    MaxMishaps   \* bound: crashes, redeployments, outages

ASSUME LifespanConstantsOK ==
    /\ Migrating \subseteq Replicas /\ Streaming \subseteq Replicas
    /\ MaxMishaps \in Nat

VARIABLES
    tables,      \* whether the schema exists
    admins,      \* how many accounts have the address Stored
    topics,      \* the topics this service has created
    postgres,    \* whether the database answers
    broker,      \* whether Kafka answers
    stage,       \* of a replica: which step of lifespan is next
    inspected,   \* whether create_all has found the tables there
    producer,    \* whether its producer is started
    dispatcher,  \* whether its outbox dispatcher is
    consumers,   \* which of its consumers are
    ended,       \* those among them whose loop an exception has ended
    swallowed,   \* whether ensure_topics has failed in this run
    mishaps

lifespanVars ==
    <<tables, admins, topics, postgres, broker, stage, inspected, producer,
      dispatcher, consumers, ended, swallowed, mishaps>>

database == <<tables, admins>>
outside == <<postgres, broker>>
adapters == <<producer, dispatcher, consumers, ended, swallowed>>

(* The consumers, in the order they are started, and the topics that       *)
(* ensure_topics creates.                                                  *)
Subscriptions ==
    <<"wallet-events", "user-events", "game-events", "trade-events", "community-events">>

TopicsToCreate == {"user-events", "presence-events", "trade-events", "community-events"}

Steps == {"inspect", "create", "look", "insert", "producer", "dispatcher",
          "topics", "consumers"}
Stopping == {"stopConsumers", "stopDispatcher", "stopProducer"}

LifespanInit ==
    /\ tables = FALSE /\ admins = 0 /\ topics = {}
    /\ postgres \in BOOLEAN /\ broker \in BOOLEAN
    /\ stage = [r \in Replicas |-> "down"]
    /\ inspected = [r \in Replicas |-> FALSE]
    /\ producer = [r \in Replicas |-> FALSE]
    /\ dispatcher = [r \in Replicas |-> FALSE]
    /\ consumers = [r \in Replicas |-> {}]
    /\ ended = [r \in Replicas |-> {}]
    /\ swallowed = [r \in Replicas |-> FALSE]
    /\ mishaps = 0

GoTo(r, label) == stage' = [stage EXCEPT ![r] = label]

(* The process is gone, with everything it had started. *)
Exits(r) ==
    /\ GoTo(r, "down")
    /\ inspected' = [inspected EXCEPT ![r] = FALSE]
    /\ producer' = [producer EXCEPT ![r] = FALSE]
    /\ dispatcher' = [dispatcher EXCEPT ![r] = FALSE]
    /\ consumers' = [consumers EXCEPT ![r] = {}]
    /\ ended' = [ended EXCEPT ![r] = {}]
    /\ swallowed' = [swallowed EXCEPT ![r] = FALSE]


-----------------------------------------------------------------------------
(* The schema and the first administrator *)

Boot(r) ==
    /\ stage[r] = "down"
    /\ GoTo(r, IF r \in Migrating THEN "inspect" ELSE "producer")
    /\ UNCHANGED <<database, topics, outside, inspected, adapters, mishaps>>

(* create_all begins its transaction and looks which tables exist.         *)
Inspect(r) ==
    /\ stage[r] = "inspect" /\ postgres
    /\ inspected' = [inspected EXCEPT ![r] = tables]
    /\ GoTo(r, "create")
    /\ UNCHANGED <<database, topics, outside, adapters, mishaps>>

(* Faulty variant: the tables are created without looking. *)
CreateAllUnchecked(r) ==
    /\ stage[r] = "create" /\ postgres
    /\ \/ ~tables /\ tables' = TRUE /\ GoTo(r, "look") /\ UNCHANGED <<inspected, adapters>>
       \/ tables /\ Exits(r) /\ UNCHANGED tables
    /\ UNCHANGED <<admins, topics, outside, mishaps>>

(* Faulty variant: who loses the race takes the winner to do the rest.     *)
CreateAllTrusting(r) ==
    /\ stage[r] = "create" /\ postgres
    /\ tables' = TRUE
    /\ GoTo(r, IF tables /\ ~inspected[r] THEN "producer" ELSE "look")
    /\ UNCHANGED <<admins, topics, outside, inspected, adapters, mishaps>>

(* It creates those that were not there, unless another has meanwhile.     *)
CreateAll(r) ==
    /\ stage[r] = "create" /\ postgres
    /\ \/ /\ inspected[r] = tables
          /\ tables' = TRUE
          /\ GoTo(r, "look") /\ UNCHANGED <<inspected, adapters>>
       \/ inspected[r] # tables /\ Exits(r) /\ UNCHANGED tables
    /\ UNCHANGED <<admins, topics, outside, mishaps>>

(* get_by_email, with the address as it is configured.                     *)
LookForAdmin(r) ==
    /\ stage[r] = "look" /\ postgres
    /\ GoTo(r, IF admins > 0 /\ AdminEmail = Stored THEN "producer" ELSE "insert")
    /\ UNCHANGED <<database, topics, outside, inspected, adapters, mishaps>>

(* Its row and its event, in one transaction.                              *)
InsertAdmin(r) ==
    /\ stage[r] = "insert" /\ postgres
    /\ \/ /\ admins = 0
          /\ admins' = 1
          /\ GoTo(r, "producer") /\ UNCHANGED <<inspected, adapters>>
       \/ admins > 0 /\ Exits(r) /\ UNCHANGED admins
    /\ UNCHANGED <<tables, topics, outside, mishaps>>

(* The database does not answer.                                           *)
NoDatabase(r) ==
    /\ stage[r] \in {"inspect", "create", "look", "insert"} /\ ~postgres
    /\ Exits(r)
    /\ UNCHANGED <<database, topics, outside, mishaps>>

-----------------------------------------------------------------------------
(* Kafka *)

StartProducer(r) ==
    /\ stage[r] = "producer"
    /\ \/ r \notin Streaming /\ GoTo(r, "serving") /\ UNCHANGED producer
       \/ /\ r \in Streaming /\ broker
          /\ producer' = [producer EXCEPT ![r] = TRUE]
          /\ GoTo(r, "dispatcher")
    /\ UNCHANGED <<database, topics, outside, inspected, dispatcher, consumers,
                   ended, swallowed, mishaps>>

StartDispatcher(r) ==
    /\ stage[r] = "dispatcher"
    /\ dispatcher' = [dispatcher EXCEPT ![r] = TRUE]
    /\ GoTo(r, "topics")
    /\ UNCHANGED <<database, topics, outside, inspected, producer, consumers,
                   ended, swallowed, mishaps>>

EnsureTopics(r) ==
    /\ stage[r] = "topics"
    /\ \/ /\ broker
          /\ topics' = topics \cup TopicsToCreate
          /\ UNCHANGED swallowed
       \/ /\ ~broker
          /\ swallowed' = [swallowed EXCEPT ![r] = TRUE]
          /\ UNCHANGED topics
    /\ GoTo(r, "consumers")
    /\ UNCHANGED <<database, outside, inspected, producer, dispatcher, consumers,
                   ended, mishaps>>

(* Faulty variant: the last one is started twice. *)
StartConsumerOnceMore(r) ==
    /\ stage[r] = "consumers" /\ broker
    /\ consumers' = [consumers EXCEPT ![r] = @ \cup {Cardinality(@) + 1}]
    /\ GoTo(r, IF Cardinality(consumers[r]) = Len(Subscriptions) THEN "serving" ELSE "consumers")
    /\ UNCHANGED <<database, topics, outside, inspected, producer, dispatcher,
                   ended, swallowed, mishaps>>

StartConsumer(r) ==
    LET next == Cardinality(consumers[r]) + 1 IN
    /\ stage[r] = "consumers" /\ broker
    /\ consumers' = [consumers EXCEPT ![r] = @ \cup {next}]
    /\ GoTo(r, IF next = Len(Subscriptions) THEN "serving" ELSE "consumers")
    /\ UNCHANGED <<database, topics, outside, inspected, producer, dispatcher,
                   ended, swallowed, mishaps>>

(* The producer and the consumers do not start without the broker.         *)
NoBroker(r) ==
    /\ ~broker
    /\ stage[r] = "consumers" \/ (stage[r] = "producer" /\ r \in Streaming)
    /\ Exits(r)
    /\ UNCHANGED <<database, topics, outside, mishaps>>

-----------------------------------------------------------------------------
(* Going down, in reverse order *)

Mishap == mishaps < MaxMishaps /\ mishaps' = mishaps + 1

Stop(r) ==
    /\ stage[r] = "serving"
    /\ Mishap
    /\ GoTo(r, "stopConsumers")
    /\ UNCHANGED <<database, topics, outside, inspected, adapters>>

(* A consumer's loop ends with an exception, which its task keeps.         *)
LoopEnds(r) ==
    /\ stage[r] = "serving"
    /\ Mishap
    /\ \E n \in consumers[r] \ ended[r] : ended' = [ended EXCEPT ![r] = @ \cup {n}]
    /\ UNCHANGED <<database, topics, outside, stage, inspected, producer, dispatcher,
                   consumers, swallowed>>

(* The first one left.  Awaiting the task of a loop that has ended raises  *)
(* what ended it, and the rest of the shutdown does not happen.            *)
StopConsumer(r) ==
    \E n \in consumers[r] :
        /\ stage[r] = "stopConsumers" /\ \A i \in consumers[r] : n <= i
        /\ \/ /\ n \notin ended[r]
              /\ consumers' = [consumers EXCEPT ![r] = @ \ {n}]
              /\ UNCHANGED <<stage, inspected, producer, dispatcher, ended, swallowed>>
           \/ n \in ended[r] /\ Exits(r)
        /\ UNCHANGED <<database, topics, outside, mishaps>>

ConsumersStopped(r) ==
    /\ stage[r] = "stopConsumers" /\ consumers[r] = {}
    /\ GoTo(r, "stopDispatcher")
    /\ UNCHANGED <<database, topics, outside, inspected, adapters, mishaps>>

(* Faulty variant: the producer is closed under the dispatcher. *)
StopProducerFirst(r) ==
    /\ stage[r] = "stopDispatcher"
    /\ producer' = [producer EXCEPT ![r] = FALSE]
    /\ GoTo(r, "stopProducer")
    /\ UNCHANGED <<database, topics, outside, inspected, dispatcher, consumers,
                   ended, swallowed, mishaps>>

StopDispatcher(r) ==
    /\ stage[r] = "stopDispatcher"
    /\ dispatcher' = [dispatcher EXCEPT ![r] = FALSE]
    /\ GoTo(r, "stopProducer")
    /\ UNCHANGED <<database, topics, outside, inspected, producer, consumers,
                   ended, swallowed, mishaps>>

StopProducer(r) ==
    /\ stage[r] = "stopProducer"
    /\ Exits(r)
    /\ UNCHANGED <<database, topics, outside, mishaps>>

(* The process dies. *)
Die(r) ==
    /\ stage[r] # "down"
    /\ Mishap
    /\ Exits(r)
    /\ UNCHANGED <<database, topics, outside>>

(* An outage of the database or the broker begins, or ends. *)
Outage ==
    /\ Mishap
    /\ \/ postgres /\ postgres' = FALSE /\ UNCHANGED broker
       \/ broker /\ broker' = FALSE /\ UNCHANGED postgres
    /\ UNCHANGED <<database, topics, stage, inspected, adapters>>

Recovery ==
    /\ \/ ~postgres /\ postgres' = TRUE /\ UNCHANGED broker
       \/ ~broker /\ broker' = TRUE /\ UNCHANGED postgres
    /\ UNCHANGED <<database, topics, stage, inspected, adapters, mishaps>>

-----------------------------------------------------------------------------

Starts(r) ==
    \/ Boot(r) \/ Inspect(r) \/ CreateAll(r) \/ LookForAdmin(r) \/ InsertAdmin(r)
    \/ NoDatabase(r) \/ StartProducer(r) \/ StartDispatcher(r) \/ EnsureTopics(r)
    \/ StartConsumer(r) \/ NoBroker(r)

Stops(r) ==
    StopConsumer(r) \/ ConsumersStopped(r) \/ StopDispatcher(r) \/ StopProducer(r)

LifespanNext ==
    \/ \E r \in Replicas : Starts(r) \/ Stop(r) \/ Stops(r) \/ LoopEnds(r) \/ Die(r)
    \/ Outage \/ Recovery

LifespanSpec == LifespanInit /\ [][LifespanNext]_lifespanVars

(* lifespan runs on, and the orchestrator starts what is down. *)
LifespanLiveSpec ==
    /\ LifespanSpec
    /\ \A r \in Replicas : WF_lifespanVars(Starts(r)) /\ WF_lifespanVars(Stops(r))

-----------------------------------------------------------------------------

LifespanTypeOK ==
    /\ tables \in BOOLEAN /\ admins \in Nat /\ topics \subseteq TopicsToCreate
    /\ postgres \in BOOLEAN /\ broker \in BOOLEAN
    /\ stage \in [Replicas -> {"down", "serving"} \cup Steps \cup Stopping]
    /\ inspected \in [Replicas -> BOOLEAN]
    /\ producer \in [Replicas -> BOOLEAN]
    /\ dispatcher \in [Replicas -> BOOLEAN]
    /\ consumers \in [Replicas -> SUBSET DOMAIN Subscriptions]
    /\ ended \in [Replicas -> SUBSET DOMAIN Subscriptions]
    /\ swallowed \in [Replicas -> BOOLEAN]
    /\ mishaps \in 0..MaxMishaps

(* readyz: the database answers.  /readyz itself is served from "serving". *)
Ready(r) == stage[r] = "serving" /\ postgres

(* "Can this service actually serve a request?" (main.py:214): a replica   *)
(* that runs the migrations and reports itself ready has its tables and    *)
(* its first administrator, and there is only ever one, whoever else was   *)
(* starting, failing or dying meanwhile (bootstrap.py:16).                 *)
ReadyIsSeeded ==
    /\ \A r \in Migrating : Ready(r) => tables /\ admins = 1
    /\ admins <= 1

(* What runs has what it needs, through failed starts and shutdown: the    *)
(* dispatcher a producer that is started, from its first poll to its last  *)
(* (main.py:137-142), and a consumer its topic, if this service creates it *)
(* and has not given that up ("before any consumer subscribes",            *)
(* main.py:90).                                                            *)
AdaptersUsable ==
    \A r \in Replicas :
        /\ dispatcher[r] => producer[r]
        /\ ~swallowed[r] =>
              {Subscriptions[n] : n \in consumers[r]} \cap TopicsToCreate \subseteq topics

(* Losing a race ends one start and not the service: once the database and *)
(* the broker stay up, every replica serves in the end.                    *)
EveryReplicaServes ==
    <>[](postgres /\ broker) => <>[](\A r \in Replicas : stage[r] = "serving")

=============================================================================
