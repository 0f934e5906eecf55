------------------------------- MODULE Backend -------------------------------
(***************************************************************************)
(* The life of the backend processes (bootstrap and shutdown): migrate,    *)
(* start the outbox publisher, serve requests, and on SIGTERM stop one     *)
(* after the other.  Composes Migrator and Ingestion over one database.    *)
(***************************************************************************)
EXTENDS Migrator, Ingestion

CONSTANTS
    Publisher,      \* the processes with RUN_OUTBOX
    MaxTrouble      \* bound: processes killed or told to stop, calls that reject

ASSUME BackendAssumption == Publisher \subseteq Server /\ MaxTrouble \in Nat

VARIABLES
    life,       \* "down", "boot", "serving", "draining" or "closing"
    publishing, \* the processes whose outbox publisher is running
    trouble     \* history: how many crashes, SIGTERMs and failing calls there were

lives == <<life, publishing>>
vars  == <<ingestion, migrations, lives, trouble>>

TypeOK ==
    /\ IngestionTypeOK /\ MigratorTypeOK
    /\ life \in [Server -> {"down", "boot", "serving", "draining", "closing"}]
    /\ publishing \subseteq Publisher
    /\ trouble \in 0 .. MaxTrouble

Init ==
    /\ IngestionInit /\ MigratorInit
    /\ life = [i \in Server |-> "down"]
    /\ publishing = {}
    /\ trouble = 0

-----------------------------------------------------------------------------
(* bootstrap                                                               *)

Strikes == trouble < MaxTrouble /\ trouble' = trouble + 1

Become(i, l) == life' = [life EXCEPT ![i] = l]

\* restart: always (docker-compose.yml).
Start(i) ==
    /\ life[i] = "down"
    /\ Become(i, "boot")
    /\ RunMigrations(i)
    /\ UNCHANGED <<ingestion, publishing, trouble>>

Migrate(i) ==
    /\ life[i] = "boot"
    /\ MigratorStep(i)
    /\ UNCHANGED <<ingestion, lives, trouble>>

MigrateThrows(i) ==
    /\ life[i] = "boot"
    /\ MigrationThrows(i)
    /\ Strikes
    /\ UNCHANGED <<ingestion, lives>>

\* Mutant of StartupFails: the error is logged and the process stays.
StartupFailsLogged(i) ==
    /\ life[i] = "boot" /\ boot[i] = "failed"
    /\ UNCHANGED vars

\* Startup failed: process.exit(1).
StartupFails(i) ==
    /\ life[i] = "boot" /\ boot[i] = "failed"
    /\ Become(i, "down")
    /\ Gone(i)
    /\ UNCHANGED <<ingestion, publishing, trouble>>

\* initGroup, whose errors are logged only, then publisher and HTTP server.
Serve(i) ==
    /\ life[i] = "boot" /\ boot[i] = "done"
    /\ Become(i, "serving")
    /\ publishing' = publishing \union ({i} \intersect Publisher)
    /\ UNCHANGED <<ingestion, migrations, trouble>>

-----------------------------------------------------------------------------
(* Serving                                                                 *)

\* The HTTP server listens until the worker has released its leases.
Listening == {i \in Server : life[i] \in {"serving", "draining"}}

Request(c, i) ==
    /\ i \in Listening
    /\ Post(c, i)
    /\ UNCHANGED <<migrations, lives, trouble>>

RegisterEndpoint(e) ==
    /\ Listening # {}
    /\ Register(e)
    /\ UNCHANGED <<migrations, lives, trouble>>

HandleRequest(c) ==
    /\ RequestStep(c)
    /\ UNCHANGED <<migrations, lives, trouble>>

RequestThrows(c) ==
    /\ Throws(c) \/ CommitThrows(c)
    /\ Strikes
    /\ UNCHANGED <<migrations, lives>>

\* A drain, in one step here (DeliveryPipeline has its own).
Relay(i) ==
    /\ i \in publishing
    /\ outbox # {}
    /\ outbox' = {}
    /\ UNCHANGED <<event, deliveries, endpoints, holder, requests, owed, answers, ids>>
    /\ UNCHANGED <<migrations, lives, trouble>>

-----------------------------------------------------------------------------
(* shutdown                                                                *)

\* outboxPublisher.stop() comes first; requests are accepted meanwhile.
Sigterm(i) ==
    /\ life[i] = "serving"
    /\ Become(i, "draining")
    /\ publishing' = publishing \ {i}
    /\ Strikes
    /\ UNCHANGED <<ingestion, migrations>>

\* deliveryWorker.stop() has released the leases: server.close().
CloseServer(i) ==
    /\ life[i] = "draining"
    /\ Become(i, "closing")
    /\ UNCHANGED <<ingestion, migrations, publishing, trouble>>

\* Mutant of Exit: the process waits for an outbox that it no longer drains.
ExitWhenDrained(i) ==
    /\ life[i] = "closing"
    /\ \A c \in Client : at[c] # i
    /\ outbox = {}
    /\ Become(i, "down")
    /\ Gone(i)
    /\ UNCHANGED <<ingestion, publishing, trouble>>

\* The callback of server.close() runs when no request is left.
Exit(i) ==
    /\ life[i] = "closing"
    /\ \A c \in Client : at[c] # i
    /\ Become(i, "down")
    /\ Gone(i)
    /\ UNCHANGED <<ingestion, publishing, trouble>>

\* The process is killed; PostgreSQL rolls its transactions back.
Crash(i) ==
    /\ life[i] # "down"
    /\ Strikes
    /\ Become(i, "down")
    /\ publishing' = publishing \ {i}
    /\ RolledBack({c \in Client : at[c] = i})
    /\ Gone(i)

Next ==
    \/ \E i \in Server :
          \/ Start(i) \/ Migrate(i) \/ MigrateThrows(i) \/ StartupFails(i) \/ Serve(i)
          \/ Relay(i) \/ Sigterm(i) \/ CloseServer(i) \/ Exit(i) \/ Crash(i)
          \/ \E c \in Client : Request(c, i)
    \/ \E c \in Client : HandleRequest(c) \/ RequestThrows(c)
    \/ \E e \in Endpoint : RegisterEndpoint(e)

Spec == Init /\ [][Next]_vars

-----------------------------------------------------------------------------
(* Fairness: containers are restarted, promises settle and timers fire.     *)

ProcessStep(i) ==
    Start(i) \/ Migrate(i) \/ StartupFails(i) \/ Serve(i) \/ CloseServer(i) \/ Exit(i)

\* Clients send the key until they are answered.
FairSpec ==
    /\ Spec
    /\ \A i \in Server : WF_vars(ProcessStep(i)) /\ WF_vars(Relay(i))
    /\ \A c \in Client :
          /\ WF_vars(HandleRequest(c))
          /\ WF_vars(\E i \in Server : Request(c, i))

-----------------------------------------------------------------------------
(* Properties                                                              *)

\* A process that accepts requests finds every table and column its statements
\* name, whoever applied the migrations and whatever failed meanwhile
\* (bootstrap: "to guarantee schema consistency").
ServesFullSchema ==
    \A i \in Server : life[i] \in {"serving", "draining", "closing"} => Objects \subseteq schema

\* Processes that start together may make each other exit, but never all of
\* them: some process migrates on or serves (runMigrations takes no lock).
SomeoneSurvives ==
    trouble = 0 /\ (\E i \in Server : life[i] # "down") =>
        \E i \in Server : boot[i] \notin {"off", "failed"}

\* However many processes migrate and fail, the database changes as if one did it:
\* version after version, each with its record, so that under a process that
\* serves it does not change at all (runMigrations works on what it read before).
OneMigrator ==
    [][UNCHANGED <<schema, recorded>> \/ \E v \in Versions \ recorded :
          /\ \A w \in Versions : w < v => w \in recorded
          /\ recorded' = recorded \union {v}
          /\ schema' = schema \union Makes(v, schema)
          /\ \A i \in Server : life[i] \in {"down", "boot"}]_vars

\* One key, one event: every 2xx answer, to whichever client and process, names
\* the committed event, and at most one of them claims to have created it.
AnswersAgree ==
    /\ \A a \in answers : event # None /\ a.id = event.id
    /\ \A a, b \in answers : a.code = 201 /\ b.code = 201 => a = b

\* The event and its fan-out are committed together: deliveries belong to it,
\* NO_TARGETS is what an event without deliveries shows, and no endpoint is
\* left out that was registered before the request was sent.
FannedOut ==
    IF event = None THEN deliveries = {}
    ELSE /\ \A d \in deliveries : d[1] = event.id
         /\ event.status = "NO_TARGETS" <=> deliveries = {}
         /\ {event.id} \X owed \subseteq deliveries

\* Clients whose request has created the event and is not answered yet.
Makers == {c \in Client : step[c] = "created"}

Key == INSTANCE KeyContract WITH makers <- Makers

\* The statements of all transactions and processes keep the contract of
\* KeyContract: an event appears with its whole fan-out or not at all, nothing
\* touches it afterwards, and 201 goes to the request that made it.
KeepsKeyContract == Key!Spec

\* Whom a request waits for: those who use up the connections of its process, or
\* whose transaction has inserted the key.
Blockers(c) ==
    IF step[c] = "posted" /\ Cardinality(InUse(at[c])) = PoolMax THEN InUse(at[c])
    ELSE IF step[c] = "begun" /\ holder # None THEN {holder}
    ELSE {}

Moves(c) == step[c] # "idle" /\ Blockers(c) = {}

\* No deadlock over connections and row locks: whoever is waited for goes on, or
\* waits for a request that goes on.
WaitsEnd ==
    \A c \in Client : \A b \in Blockers(c) : Moves(b) \/ \E d \in Blockers(b) : Moves(d)

\* Rows committed while the publisher of their process was stopped, or by a
\* process that runs none, are relayed by another or after the restart.
EventuallyRelayed == outbox # {} ~> outbox = {}

\* A client that repeats its request is answered with the event in the end,
\* although requests wait for one another's connections and row locks.
EventuallyAccepted == \A c \in Client : <>Answered(c)

\* Processes whose startup made one another fail are all up in the end.
AllServeInTheEnd == <>[](\A i \in Server : life[i] = "serving")

=============================================================================
