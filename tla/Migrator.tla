------------------------------- MODULE Migrator -------------------------------
(***************************************************************************)
(* The migrations every backend process runs before it serves: the table   *)
(* schema_migrations is ensured, the recorded versions are read, and each  *)
(* missing migration is applied and recorded in one transaction.  Nothing  *)
(* keeps two processes from doing so at the same time: a process whose     *)
(* statement fails exits.                                                  *)
(***************************************************************************)
EXTENDS Integers, Processes

Versions == 1 .. 4

\* The tables of migration 001, and what the later ones add: the columns of
\* circuit_breakers (004), endpoints.subscribed_events and outbox (002).
Core == {"endpoints", "events", "deliveries", "circuit_breakers"}
Objects == Core \union {"breaker_columns", "subscribed_events", "outbox"}

\* What a migration refers to, and what it adds to schema s.  CREATE TABLE IF
\* NOT EXISTS leaves an older circuit_breakers without the new columns.
Needs(v) ==
    CASE v = 1 -> {}
      [] v = 2 -> {"endpoints", "events", "deliveries"}
      [] v = 3 -> {"events"}
      [] v = 4 -> {"circuit_breakers"}

Makes(v, s) ==
    CASE v = 1 -> Core \union IF "circuit_breakers" \in s THEN {} ELSE {"breaker_columns"}
      [] v = 2 -> {"subscribed_events", "outbox"}
      [] v = 3 -> {}
      [] v = 4 -> {"breaker_columns"}

VARIABLES
    schema,     \* tables and columns of the database
    recorded,   \* rows of schema_migrations
    table,      \* schema_migrations exists
    boot,       \* of a process: its place in runMigrations
    saw,        \* whether the table existed when the process began
    found       \* versions the loop over MIGRATIONS skips or has passed

migrations == <<schema, recorded, table, boot, saw, found>>

MigratorTypeOK ==
    /\ schema \subseteq Objects
    /\ recorded \subseteq Versions
    /\ table \in BOOLEAN
    /\ boot \in [Server -> {"off", "ensure", "read", "apply", "done", "failed"}]
    /\ saw \in [Server -> BOOLEAN]
    /\ found \in [Server -> SUBSET Versions]

\* The databases a process may meet: empty, from before the migrator, or made
\* by schema.sql (docker-compose), and each of them with the first k migrations.
Origins == {{}, Core, Objects}

Reached(origin, k) == origin \union UNION {Makes(v, origin) : v \in 1 .. k}

MigratorInit ==
    /\ \E origin \in Origins, k \in 0 .. 4 :
          schema = Reached(origin, k) /\ recorded = 1 .. k /\ table = (k > 0)
    /\ boot = [i \in Server |-> "off"]
    /\ saw = [i \in Server |-> FALSE]
    /\ found = [i \in Server |-> {}]

-----------------------------------------------------------------------------
(* runMigrations of process i                                              *)

Goto(i, b) == boot' = [boot EXCEPT ![i] = b]

RunMigrations(i) ==
    /\ boot[i] = "off"
    /\ Goto(i, "ensure")
    /\ saw' = [saw EXCEPT ![i] = table]
    /\ UNCHANGED <<schema, recorded, table, found>>

\* CREATE TABLE IF NOT EXISTS schema_migrations.
Ensure(i) ==
    /\ boot[i] = "ensure"
    /\ table' = TRUE
    /\ Goto(i, "read")
    /\ UNCHANGED <<schema, recorded, saw, found>>

\* IF NOT EXISTS does not cover a table that is created meanwhile: the second
\* CREATE violates a unique index of the catalogue.
EnsureCollides(i) ==
    /\ boot[i] = "ensure"
    /\ table /\ ~saw[i]
    /\ Goto(i, "failed")
    /\ UNCHANGED <<schema, recorded, table, saw, found>>

ReadApplied(i) ==
    /\ boot[i] = "read"
    /\ found' = [found EXCEPT ![i] = recorded]
    /\ Goto(i, "apply")
    /\ UNCHANGED <<schema, recorded, table, saw>>

Pending(i) == Versions \ found[i]

\* Mutant of NextIs: the newest migration first.
NextIsNewest(i, v) == v \in Pending(i) /\ \A w \in Pending(i) : w <= v

\* MIGRATIONS is in ascending order.
NextIs(i, v) == v \in Pending(i) /\ \A w \in Pending(i) : v <= w

\* The transaction can commit: its tables are there and the primary key of
\* schema_migrations admits the version.
Applicable(v) == Needs(v) \subseteq schema /\ v \notin recorded

Apply(i) ==
    /\ boot[i] = "apply"
    /\ \E v \in Versions :
          /\ NextIs(i, v)
          /\ Applicable(v)
          /\ schema' = schema \union Makes(v, schema)
          /\ recorded' = recorded \union {v}
          /\ found' = [found EXCEPT ![i] = @ \union {v}]
    /\ UNCHANGED <<table, boot, saw>>

\* Mutant of ApplyFails: a version recorded meanwhile counts as migrated.
ApplyFailsIgnored(i) ==
    /\ boot[i] = "apply"
    /\ \E v \in Versions : NextIs(i, v) /\ ~Applicable(v)
    /\ Goto(i, "done")
    /\ UNCHANGED <<schema, recorded, table, saw, found>>

\* Another process has recorded the version since it was looked for: the
\* transaction is rolled back and runMigrations rejects.
ApplyFails(i) ==
    /\ boot[i] = "apply"
    /\ \E v \in Versions : NextIs(i, v) /\ ~Applicable(v)
    /\ Goto(i, "failed")
    /\ UNCHANGED <<schema, recorded, table, saw, found>>

Migrated(i) ==
    /\ boot[i] = "apply"
    /\ Pending(i) = {}
    /\ Goto(i, "done")
    /\ UNCHANGED <<schema, recorded, table, saw, found>>

\* Mutant of MigrationThrows: no transaction, the DDL of the migration stays.
MigrationThrowsHalfway(i) ==
    /\ boot[i] = "apply"
    /\ \E v \in Versions : NextIs(i, v) /\ schema' = schema \union Makes(v, schema)
    /\ Goto(i, "failed")
    /\ UNCHANGED <<recorded, table, saw, found>>

\* The database does not answer a statement.
MigrationThrows(i) ==
    /\ boot[i] \in {"ensure", "read", "apply"}
    /\ Goto(i, "failed")
    /\ UNCHANGED <<schema, recorded, table, saw, found>>

\* The process is gone, and with it all it knew.
Gone(i) ==
    /\ Goto(i, "off")
    /\ saw' = [saw EXCEPT ![i] = FALSE]
    /\ found' = [found EXCEPT ![i] = {}]
    /\ UNCHANGED <<schema, recorded, table>>

MigratorStep(i) ==
    \/ Ensure(i) \/ EnsureCollides(i) \/ ReadApplied(i)
    \/ Apply(i) \/ ApplyFails(i) \/ Migrated(i)

=============================================================================
