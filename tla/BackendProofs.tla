---------------------------- MODULE BackendProofs ----------------------------
(***************************************************************************)
(* Machine-checked proofs about Backend, for any processes, clients,       *)
(* endpoints, pool size and number of failures.                            *)
(***************************************************************************)
EXTENDS Backend, FiniteSetTheorems, TLAPS

-----------------------------------------------------------------------------
(* The inductive invariant                                                 *)

\* Migrations are recorded in order, each with what it makes, and what a
\* process has found or passed is recorded.
SchemaOK ==
    /\ \A v \in recorded : Makes(v, {"circuit_breakers"}) \subseteq schema
    /\ \A v \in recorded, w \in Versions : w < v => w \in recorded
    /\ \A i \in Server : found[i] \subseteq recorded

LifeOK ==
    \A i \in Server :
        /\ life[i] = "down" <=> boot[i] = "off"
        /\ boot[i] = "done" => recorded = Versions
        /\ life[i] \in {"serving", "draining", "closing"} => boot[i] = "done"
        /\ life[i] \in {"draining", "closing"} => trouble > 0

\* Processes that no other process has overtaken.
Ahead == {i \in Server :
    \/ boot[i] = "ensure" /\ saw[i] = table
    \/ boot[i] = "read"
    \/ boot[i] = "apply" /\ found[i] = recorded
    \/ boot[i] = "done"}

StartOK == trouble = 0 /\ (\E i \in Server : life[i] # "down") => Ahead # {}

\* The client whose transaction has inserted the key holds it.
KeyOK ==
    /\ \A c \in Client : step[c] \in {"inserted", "written"} <=> holder = c
    /\ holder # None => event = None

ReplyOK ==
    \A c \in Client :
        /\ step[c] \in {"created", "found"} => event # None /\ mine[c] = event.id
        /\ step[c] = "duplicate" => event # None

CreatedOnce ==
    /\ \A c, d \in Client : step[c] = "created" /\ step[d] = "created" => c = d
    /\ \A c \in Client, a \in answers : step[c] = "created" => a.code # 201

KnownOK ==
    \A c \in Client :
        /\ knew[c] \subseteq endpoints
        /\ step[c] = "written" => knew[c] \subseteq picked[c]

BackInv ==
    /\ TypeOK
    /\ SchemaOK /\ LifeOK /\ StartOK
    /\ KeyOK /\ ReplyOK /\ CreatedOnce /\ KnownOK
    /\ AnswersAgree /\ FannedOut

-----------------------------------------------------------------------------
(* What a step does to the requests and to the processes                   *)

\* A step of the ingestion: a request, an endpoint, an abort, or a drain.
IngestionMoves ==
    \/ \E c \in Client, i \in Server : Post(c, i)
    \/ \E c \in Client : RequestStep(c) \/ CommitThrows(c)
    \/ \E S \in SUBSET Client : RolledBack(S)
    \/ \E e \in Endpoint : Register(e)
    \/ /\ outbox' = {}
       /\ UNCHANGED <<event, deliveries, endpoints, holder, requests, owed, answers, ids>>
    \/ UNCHANGED ingestion

\* A step of the processes.
ProcessMoves ==
    \/ \E i \in Server :
          \/ Start(i) \/ Migrate(i) \/ MigrateThrows(i) \/ StartupFails(i) \/ Serve(i)
          \/ Sigterm(i) \/ CloseServer(i) \/ Exit(i) \/ Crash(i)
    \/ /\ UNCHANGED <<migrations, lives>>
       /\ UNCHANGED trouble \/ Strikes

LEMMA IngestionSteps ==
  ASSUME [Next]_vars
  PROVE  IngestionMoves
  <1>1. CASE \E i \in Server : Crash(i)
    <2>1. PICK i \in Server : Crash(i)
      BY <1>1
    <2>2. {c \in Client : at[c] = i} \in SUBSET Client
      OBVIOUS
    <2> QED
      BY <2>1, <2>2 DEF Crash, IngestionMoves
  <1>2. CASE \E i \in Server : \E c \in Client : Request(c, i)
    BY <1>2 DEF Request, IngestionMoves
  <1>3. CASE \E c \in Client : HandleRequest(c)
    BY <1>3 DEF HandleRequest, IngestionMoves
  <1>4. CASE \E c \in Client : RequestThrows(c)
    <2>1. PICK c \in Client : Throws(c) \/ CommitThrows(c)
      BY <1>4 DEF RequestThrows
    <2>2. CASE Throws(c)
      <3>1. {c} \in SUBSET Client /\ RolledBack({c})
        BY <2>2 DEF Throws
      <3> QED
        BY <3>1 DEF IngestionMoves
    <2> QED
      BY <2>1, <2>2 DEF IngestionMoves
  <1>5. CASE \E e \in Endpoint : RegisterEndpoint(e)
    BY <1>5 DEF RegisterEndpoint, IngestionMoves
  <1>6. CASE \E i \in Server : Relay(i)
    BY <1>6 DEF Relay, IngestionMoves
  <1>7. CASE \E i \in Server :
               \/ Start(i) \/ Migrate(i) \/ MigrateThrows(i) \/ StartupFails(i) \/ Serve(i)
               \/ Sigterm(i) \/ CloseServer(i) \/ Exit(i)
    <2>1. UNCHANGED ingestion
      BY <1>7 DEF Start, Migrate, MigrateThrows, StartupFails, Serve, Sigterm, CloseServer, Exit
    <2> QED
      BY <2>1 DEF IngestionMoves
  <1>8. CASE UNCHANGED vars
    BY <1>8 DEF vars, IngestionMoves
  <1> QED
    BY <1>1, <1>2, <1>3, <1>4, <1>5, <1>6, <1>7, <1>8 DEF Next

LEMMA ProcessSteps ==
  ASSUME [Next]_vars
  PROVE  ProcessMoves
  <1>1. CASE \E i \in Server : Relay(i) \/ \E c \in Client : Request(c, i)
    BY <1>1 DEF Relay, Request, ProcessMoves
  <1>2. CASE \E c \in Client : HandleRequest(c) \/ RequestThrows(c)
    BY <1>2 DEF HandleRequest, RequestThrows, ProcessMoves
  <1>3. CASE \E e \in Endpoint : RegisterEndpoint(e)
    BY <1>3 DEF RegisterEndpoint, ProcessMoves
  <1>4. CASE UNCHANGED vars
    BY <1>4 DEF vars, ProcessMoves
  <1> QED
    BY <1>1, <1>2, <1>3, <1>4 DEF Next, ProcessMoves

-----------------------------------------------------------------------------
(* Type correctness                                                        *)

LEMMA EventValue ==
  ASSUME IngestionTypeOK, event # None
  PROVE  event \in Events /\ event.id \in Nat
  BY DEF IngestionTypeOK, Events

LEMMA InUseIsFinite ==
  ASSUME NEW i \in Server
  PROVE  IsFiniteSet(InUse(i))
  BY IngestionAssumption, FS_Subset, InUse(i) \subseteq Client DEF InUse

LEMMA PoolShrinks ==
  ASSUME \A i \in Server : Cardinality(InUse(i)) <= PoolMax,
         \A i \in Server : InUse(i)' \subseteq InUse(i)
  PROVE  \A i \in Server : Cardinality(InUse(i)') <= PoolMax
  <1> TAKE i \in Server
  <1>1. /\ IsFiniteSet(InUse(i)')
        /\ Cardinality(InUse(i)') <= Cardinality(InUse(i))
    BY InUseIsFinite, FS_Subset
  <1>2. Cardinality(InUse(i)) \in Nat /\ Cardinality(InUse(i)') \in Nat
    BY <1>1, InUseIsFinite, FS_CardinalityType
  <1> QED
    BY <1>1, <1>2, IngestionAssumption

LEMMA PoolGrows ==
  ASSUME IngestionTypeOK, NEW c \in Client, Connect(c)
  PROVE  \A i \in Server : Cardinality(InUse(i)') <= PoolMax
  <1> TAKE i \in Server
  <1>1. step' = [step EXCEPT ![c] = "begun"] /\ at' = at
    BY DEF Connect, Advance
  <1>2. CASE at[c] = i
    <2>1. InUse(i)' = InUse(i) \union {c} /\ c \notin InUse(i)
      BY <1>1, <1>2 DEF InUse, Connect, Connected, IngestionTypeOK
    <2>2. IsFiniteSet(InUse(i)) /\ Cardinality(InUse(i)) \in Nat
      BY InUseIsFinite, FS_CardinalityType
    <2>3. Cardinality(InUse(i)') = Cardinality(InUse(i)) + 1
      BY <2>1, <2>2, FS_AddElement
    <2> QED
      BY <1>2, <2>2, <2>3, IngestionAssumption DEF Connect
  <1>3. CASE at[c] # i
    <2>1. InUse(i)' = InUse(i)
      BY <1>1, <1>3 DEF InUse, IngestionTypeOK
    <2> QED
      BY <2>1 DEF IngestionTypeOK
  <1> QED
    BY <1>2, <1>3

LEMMA OverIsTyped ==
  ASSUME IngestionTypeOK, NEW S \in SUBSET Client, Over(S)
  PROVE  /\ step' \in [Client -> Connected \union {"idle", "posted", "created", "found"}]
         /\ at' \in [Client -> Server \union {None}]
         /\ mine' \in [Client -> Nat]
         /\ picked' \in [Client -> SUBSET Endpoint]
         /\ knew' \in [Client -> SUBSET Endpoint]
         /\ \A i \in Server : InUse(i)' \subseteq InUse(i)
  BY DEF Over, IngestionTypeOK, InUse, Connected

LEMMA VisibleIsTyped ==
  ASSUME IngestionTypeOK, NEW c \in Client, Visible(c)
  PROVE  /\ event' \in Events \union {None}
         /\ deliveries' \subseteq Nat \X Endpoint
         /\ outbox' \subseteq deliveries'
         /\ holder' \in Client \union {None}
         /\ owed' \subseteq Endpoint
  <1>1. mine[c] \in Nat /\ picked[c] \subseteq Endpoint /\ knew[c] \subseteq Endpoint
    BY DEF IngestionTypeOK
  <1>2. event' \in Events
    BY <1>1 DEF Visible, Events
  <1>3. deliveries' \subseteq Nat \X Endpoint
    BY <1>1 DEF Visible, IngestionTypeOK
  <1> QED
    BY <1>1, <1>2, <1>3 DEF Visible, IngestionTypeOK

LEMMA RequestType ==
  ASSUME IngestionTypeOK, NEW c \in Client, RequestStep(c), ReplyOK
  PROVE  IngestionTypeOK'
  <1>0. /\ \A i \in Server : Cardinality(InUse(i)) <= PoolMax
        /\ step[c] \in Connected \union {"idle", "posted", "created", "found"}
    BY DEF IngestionTypeOK
  <1>1. CASE Connect(c)
    <2>1. \A i \in Server : Cardinality(InUse(i)') <= PoolMax
      BY <1>1, PoolGrows
    <2> QED
      BY <1>1, <2>1 DEF Connect, Advance, rows, Connected, IngestionTypeOK
  <1>2. CASE Insert(c)
    <2>1. \A i \in Server : InUse(i)' \subseteq InUse(i)
      BY <1>2 DEF Insert, Advance, InUse, Connected, IngestionTypeOK
    <2>2. \A i \in Server : Cardinality(InUse(i)') <= PoolMax
      BY <1>0, <2>1, PoolShrinks
    <2> QED
      BY <1>2, <2>2 DEF Insert, Advance, rows, Connected, IngestionTypeOK
  <1>3. CASE InsertConflicts(c)
    <2>1. \A i \in Server : InUse(i)' \subseteq InUse(i)
      BY <1>3 DEF InsertConflicts, Advance, InUse, Connected, IngestionTypeOK
    <2>2. \A i \in Server : Cardinality(InUse(i)') <= PoolMax
      BY <1>0, <2>1, PoolShrinks
    <2> QED
      BY <1>3, <2>2 DEF InsertConflicts, Advance, rows, Connected, IngestionTypeOK
  <1>4. CASE SelectExisting(c)
    <2>1. \A i \in Server : InUse(i)' \subseteq InUse(i)
      BY <1>4 DEF SelectExisting, Advance, InUse, Connected, IngestionTypeOK
    <2>2. \A i \in Server : Cardinality(InUse(i)') <= PoolMax
      BY <1>0, <2>1, PoolShrinks
    <2>3. event.id \in Nat
      BY <1>4, EventValue DEF SelectExisting, ReplyOK
    <2> QED
      BY <1>4, <2>2, <2>3 DEF SelectExisting, Advance, rows, Connected, IngestionTypeOK
  <1>5. CASE FanOut(c)
    <2>1. \A i \in Server : InUse(i)' \subseteq InUse(i)
      BY <1>5 DEF FanOut, Advance, InUse, Connected, IngestionTypeOK
    <2>2. \A i \in Server : Cardinality(InUse(i)') <= PoolMax
      BY <1>0, <2>1, PoolShrinks
    <2> QED
      BY <1>5, <2>2 DEF FanOut, Advance, rows, Connected, IngestionTypeOK
  <1>6. CASE Commit(c)
    <2>1. \A i \in Server : InUse(i)' \subseteq InUse(i)
      BY <1>6 DEF Commit, Advance, InUse, Connected, IngestionTypeOK
    <2>2. \A i \in Server : Cardinality(InUse(i)') <= PoolMax
      BY <1>0, <2>1, PoolShrinks
    <2>3. Visible(c)
      BY <1>6 DEF Commit
    <2> QED
      BY <1>6, <2>2, <2>3, VisibleIsTyped DEF Commit, Advance, Connected, IngestionTypeOK
  <1>7. CASE Reply(c)
    <2>1. Over({c})
      BY <1>7 DEF Reply
    <2>2. \A i \in Server : Cardinality(InUse(i)') <= PoolMax
      BY <1>0, <2>1, OverIsTyped, PoolShrinks
    <2>3. [client |-> c, code |-> Code(c), id |-> mine[c]]
             \in [client : Client, code : {200, 201}, id : Nat]
      BY DEF Code, IngestionTypeOK
    <2> QED
      BY <1>7, <2>1, <2>2, <2>3, OverIsTyped DEF Reply, rows, IngestionTypeOK
  <1> QED
    BY <1>1, <1>2, <1>3, <1>4, <1>5, <1>6, <1>7 DEF RequestStep

LEMMA IngestionType ==
  ASSUME IngestionTypeOK, ReplyOK, IngestionMoves
  PROVE  IngestionTypeOK'
  <1>0. \A i \in Server : Cardinality(InUse(i)) <= PoolMax
    BY DEF IngestionTypeOK
  <1>1. ASSUME NEW c \in Client, NEW i \in Server, Post(c, i)
        PROVE  IngestionTypeOK'
    <2>1. \A j \in Server : InUse(j)' \subseteq InUse(j)
      BY <1>1 DEF Post, Advance, InUse, Connected, IngestionTypeOK
    <2>2. \A j \in Server : Cardinality(InUse(j)') <= PoolMax
      BY <1>0, <2>1, PoolShrinks
    <2> QED
      BY <1>1, <2>2 DEF Post, Advance, rows, IngestionTypeOK
  <1>2. ASSUME NEW c \in Client, CommitThrows(c)
        PROVE  IngestionTypeOK'
    <2>1. Over({c}) /\ Visible(c)
      BY <1>2 DEF CommitThrows
    <2>2. \A i \in Server : Cardinality(InUse(i)') <= PoolMax
      BY <1>0, <2>1, OverIsTyped, PoolShrinks
    <2> QED
      BY <1>2, <2>1, <2>2, OverIsTyped, VisibleIsTyped DEF CommitThrows, IngestionTypeOK
  <1>3. ASSUME NEW S \in SUBSET Client, RolledBack(S)
        PROVE  IngestionTypeOK'
    <2>1. Over(S)
      BY <1>3 DEF RolledBack
    <2>2. \A i \in Server : Cardinality(InUse(i)') <= PoolMax
      BY <1>0, <2>1, OverIsTyped, PoolShrinks
    <2> QED
      BY <1>3, <2>1, <2>2, OverIsTyped DEF RolledBack, rows, IngestionTypeOK
  <1>4. ASSUME UNCHANGED requests
        PROVE  \A i \in Server : Cardinality(InUse(i)') <= PoolMax
    <2>1. \A i \in Server : InUse(i)' \subseteq InUse(i)
      BY <1>4 DEF requests, InUse
    <2> QED
      BY <1>0, <2>1, PoolShrinks
  <1>5. ASSUME NEW e \in Endpoint, Register(e)
        PROVE  IngestionTypeOK'
    <2>1. UNCHANGED requests
      BY <1>5 DEF Register
    <2> QED
      BY <1>4, <1>5, <2>1 DEF Register, requests, IngestionTypeOK
  <1>6. CASE /\ outbox' = {}
             /\ UNCHANGED <<event, deliveries, endpoints, holder, requests, owed, answers, ids>>
    BY <1>4, <1>6 DEF requests, IngestionTypeOK
  <1>7. CASE UNCHANGED ingestion
    BY <1>4, <1>7 DEF ingestion, rows, requests, IngestionTypeOK
  <1> QED
    BY <1>1, <1>2, <1>3, <1>5, <1>6, <1>7, RequestType DEF IngestionMoves

LEMMA MigratorType ==
  ASSUME MigratorTypeOK, NEW i \in Server,
         RunMigrations(i) \/ MigratorStep(i) \/ MigrationThrows(i) \/ Gone(i)
  PROVE  MigratorTypeOK'
  <1>1. CASE Apply(i)
    <2>1. \A v \in Versions : Makes(v, schema) \subseteq Objects
      BY DEF Makes, Objects, Core, Versions
    <2> QED
      BY <1>1, <2>1 DEF Apply, MigratorTypeOK
  <1>2. CASE ~Apply(i)
    BY <1>2 DEF RunMigrations, MigratorStep, MigrationThrows, Gone, Goto, Ensure, EnsureCollides,
       ReadApplied, ApplyFails, Migrated, MigratorTypeOK
  <1> QED
    BY <1>1, <1>2

LEMMA TypeStep ==
  ASSUME TypeOK, ReplyOK, [Next]_vars
  PROVE  TypeOK'
  <1>1. IngestionTypeOK'
    BY IngestionSteps, IngestionType DEF TypeOK
  <1>2. /\ MigratorTypeOK'
        /\ life' \in [Server -> {"down", "boot", "serving", "draining", "closing"}]
        /\ publishing' \subseteq Publisher
        /\ trouble' \in 0 .. MaxTrouble
    <2>1. CASE UNCHANGED <<migrations, lives>> /\ (UNCHANGED trouble \/ Strikes)
      BY <2>1, BackendAssumption DEF migrations, lives, Strikes, MigratorTypeOK, TypeOK
    <2>2. ASSUME NEW i \in Server, Start(i) \/ Migrate(i) \/ MigrateThrows(i) \/ StartupFails(i)
                                   \/ Serve(i) \/ Sigterm(i) \/ CloseServer(i) \/ Exit(i) \/ Crash(i)
          PROVE  /\ MigratorTypeOK'
                 /\ life' \in [Server -> {"down", "boot", "serving", "draining", "closing"}]
                 /\ publishing' \subseteq Publisher
                 /\ trouble' \in 0 .. MaxTrouble
      <3>1. MigratorTypeOK'
        <4>1. CASE UNCHANGED migrations
          BY <4>1 DEF migrations, MigratorTypeOK, TypeOK
        <4>2. CASE RunMigrations(i) \/ MigratorStep(i) \/ MigrationThrows(i) \/ Gone(i)
          BY <4>2, MigratorType DEF TypeOK
        <4> QED
          BY <2>2, <4>1, <4>2 DEF Start, Migrate, MigrateThrows, StartupFails, Serve, Sigterm,
             CloseServer, Exit, Crash
      <3>2. life' \in [Server -> {"down", "boot", "serving", "draining", "closing"}]
        BY <2>2 DEF Start, Migrate, MigrateThrows, StartupFails, Serve, Sigterm,
           CloseServer, Exit, Crash, Become, lives, TypeOK
      <3>3. publishing' \subseteq Publisher
        BY <2>2 DEF Start, Migrate, MigrateThrows, StartupFails, Serve, Sigterm,
           CloseServer, Exit, Crash, lives, TypeOK
      <3>4. trouble' \in 0 .. MaxTrouble
        BY <2>2, BackendAssumption DEF Start, Migrate, MigrateThrows, StartupFails, Serve, Sigterm,
           CloseServer, Exit, Crash, Strikes, TypeOK
      <3> QED
        BY <3>1, <3>2, <3>3, <3>4
    <2> QED
      BY <2>1, <2>2, ProcessSteps DEF ProcessMoves
  <1> QED
    BY <1>1, <1>2 DEF TypeOK

-----------------------------------------------------------------------------
(* The schema                                                              *)

MigratorMoves(i) ==
    \/ RunMigrations(i) \/ MigratorStep(i) \/ MigrationThrows(i) \/ Gone(i)
    \/ UNCHANGED migrations

LEMMA MigratorMovesOf ==
  ASSUME NEW i \in Server,
         \/ Start(i) \/ Migrate(i) \/ MigrateThrows(i) \/ StartupFails(i) \/ Serve(i)
         \/ Sigterm(i) \/ CloseServer(i) \/ Exit(i) \/ Crash(i)
  PROVE  MigratorMoves(i)
  BY DEF MigratorMoves, Start, Migrate, MigrateThrows, StartupFails, Serve, Sigterm,
     CloseServer, Exit, Crash

\* All that is recorded makes the whole schema.
LEMMA RecordedIsFull ==
  ASSUME SchemaOK, recorded = Versions
  PROVE  Objects \subseteq schema
  <1>1. 1 \in recorded /\ 2 \in recorded /\ 4 \in recorded
    BY DEF Versions
  <1>2. /\ Makes(1, {"circuit_breakers"}) = Core
        /\ Makes(2, {"circuit_breakers"}) = {"subscribed_events", "outbox"}
        /\ Makes(4, {"circuit_breakers"}) = {"breaker_columns"}
    BY DEF Makes, Core
  <1> QED
    BY <1>1, <1>2 DEF SchemaOK, Objects

LEMMA MakesAtLeast ==
  ASSUME NEW v \in Versions, NEW s
  PROVE  Makes(v, {"circuit_breakers"}) \subseteq Makes(v, s)
  BY DEF Makes, Versions, Core

LEMMA AppliedInOrder ==
  ASSUME TypeOK, SchemaOK, NEW i \in Server, NEW v \in Versions,
         NextIs(i, v), v \notin recorded
  PROVE  /\ found[i] = recorded
         /\ \A w \in Versions : w < v => w \in recorded
  <1>1. \A w \in Versions : w < v => w \in found[i]
    BY DEF NextIs, Pending, Versions
  <1>2. \A w \in recorded : w < v
    <2> TAKE w \in recorded
    <2>1. w \in Versions /\ w # v
      BY DEF TypeOK, MigratorTypeOK
    <2>2. ~(v < w)
      BY <2>1 DEF SchemaOK
    <2> QED
      BY <2>1, <2>2 DEF Versions
  <1>3. found[i] \subseteq recorded /\ recorded \subseteq Versions
    BY DEF SchemaOK, TypeOK, MigratorTypeOK
  <1> QED
    BY <1>1, <1>2, <1>3

LEMMA SchemaKept ==
  ASSUME TypeOK, SchemaOK, NEW i \in Server, MigratorMoves(i)
  PROVE  SchemaOK' /\ schema \subseteq schema' /\ recorded \subseteq recorded'
  <1>1. CASE Apply(i)
    <2>1. PICK v \in Versions : /\ NextIs(i, v) /\ Applicable(v)
                                /\ schema' = schema \union Makes(v, schema)
                                /\ recorded' = recorded \union {v}
                                /\ found' = [found EXCEPT ![i] = @ \union {v}]
      BY <1>1 DEF Apply
    <2>2. \A w \in recorded' : Makes(w, {"circuit_breakers"}) \subseteq schema'
      BY <2>1, MakesAtLeast DEF SchemaOK
    <2>3. \A w \in Versions : w < v => w \in recorded
      BY <2>1, AppliedInOrder DEF Applicable
    <2>4. \A u \in recorded', w \in Versions : w < u => w \in recorded'
      BY <2>1, <2>3 DEF SchemaOK
    <2>5. \A j \in Server : found'[j] \subseteq recorded'
      BY <2>1 DEF SchemaOK, TypeOK, MigratorTypeOK
    <2> QED
      BY <2>1, <2>2, <2>4, <2>5 DEF SchemaOK
  <1>2. CASE ~Apply(i)
    <2>1. UNCHANGED <<schema, recorded>>
      BY <1>2 DEF MigratorMoves, RunMigrations, MigratorStep, MigrationThrows, Gone, Ensure,
         EnsureCollides, ReadApplied, ApplyFails, Migrated, migrations
    <2>2. \A j \in Server : found'[j] \subseteq recorded
      BY <1>2 DEF MigratorMoves, RunMigrations, MigratorStep, MigrationThrows, Gone, Ensure,
         EnsureCollides, ReadApplied, ApplyFails, Migrated, migrations, SchemaOK, TypeOK, MigratorTypeOK
    <2> QED
      BY <2>1, <2>2 DEF SchemaOK
  <1> QED
    BY <1>1, <1>2

LEMMA SchemaStep ==
  ASSUME TypeOK, SchemaOK, [Next]_vars
  PROVE  SchemaOK' /\ schema \subseteq schema' /\ recorded \subseteq recorded'
  <1>1. CASE UNCHANGED <<migrations, lives>>
    BY <1>1 DEF migrations, SchemaOK
  <1> QED
    BY <1>1, ProcessSteps, MigratorMovesOf, SchemaKept DEF ProcessMoves

-----------------------------------------------------------------------------
(* The life of a process                                                   *)

LEMMA LifeStep ==
  ASSUME TypeOK, SchemaOK, LifeOK, [Next]_vars
  PROVE  LifeOK'
  <1>0. /\ recorded \subseteq recorded' /\ recorded' \subseteq Versions
        /\ boot \in [Server -> {"off", "ensure", "read", "apply", "done", "failed"}]
        /\ life \in [Server -> {"down", "boot", "serving", "draining", "closing"}]
        /\ trouble \in Nat
    <2>1. recorded' \subseteq Versions
      <3>1. CASE UNCHANGED <<migrations, lives>>
        BY <3>1 DEF migrations, TypeOK, MigratorTypeOK
      <3>2. ASSUME NEW i \in Server, MigratorMoves(i)
            PROVE  recorded' \subseteq Versions
        <4>1. CASE UNCHANGED migrations
          BY <4>1 DEF migrations, TypeOK, MigratorTypeOK
        <4> QED
          BY <3>2, <4>1, MigratorType DEF MigratorMoves, TypeOK, MigratorTypeOK
      <3> QED
        BY <3>1, <3>2, ProcessSteps, MigratorMovesOf DEF ProcessMoves
    <2> QED
      BY <2>1, SchemaStep, BackendAssumption DEF TypeOK, MigratorTypeOK
  <1>1. CASE UNCHANGED <<migrations, lives>> /\ (UNCHANGED trouble \/ Strikes)
    BY <1>0, <1>1 DEF migrations, lives, Strikes, LifeOK
  <1>2. ASSUME NEW i \in Server, Migrate(i)
        PROVE  LifeOK'
    <2>1. life[i] = "boot" /\ boot[i] # "off" /\ UNCHANGED <<lives, trouble>>
      BY <1>2 DEF Migrate, MigratorStep, Ensure, EnsureCollides, ReadApplied, Apply, ApplyFails, Migrated
    <2>2. \E b \in {"read", "apply", "done", "failed"} : boot' = [boot EXCEPT ![i] = b]
      BY <1>0, <1>2 DEF Migrate, MigratorStep, Ensure, EnsureCollides, ReadApplied, Apply,
         ApplyFails, Migrated, Goto
    <2>3. boot'[i] = "done" => recorded' = Versions
      <3>1. CASE Migrated(i)
        <4>1. Versions \subseteq recorded /\ recorded' = recorded
          BY <3>1 DEF Migrated, Pending, SchemaOK
        <4> QED
          BY <1>0, <4>1
      <3>2. CASE ~Migrated(i)
        BY <1>0, <1>2, <3>2 DEF Migrate, MigratorStep, Ensure, EnsureCollides, ReadApplied, Apply,
           ApplyFails, Goto
      <3> QED
        BY <3>1, <3>2
    <2> QED
      BY <1>0, <2>1, <2>2, <2>3 DEF LifeOK, lives
  <1>3. ASSUME NEW i \in Server, Start(i) \/ MigrateThrows(i) \/ StartupFails(i) \/ Serve(i)
                                 \/ Sigterm(i) \/ CloseServer(i) \/ Exit(i) \/ Crash(i)
        PROVE  LifeOK'
    BY <1>0, <1>3 DEF Start, MigrateThrows, StartupFails, Serve, Sigterm, CloseServer, Exit, Crash,
       RunMigrations, MigrationThrows, Gone, Goto, Become, Strikes, lives, migrations, LifeOK
  <1> QED
    BY <1>1, <1>2, <1>3, ProcessSteps DEF ProcessMoves

-----------------------------------------------------------------------------
(* Startup                                                                 *)

\* The process that is ahead finds what it needs.
LEMMA AheadApplies ==
  ASSUME TypeOK, SchemaOK, NEW i \in Ahead
  PROVE  ~ApplyFails(i) /\ ~EnsureCollides(i) /\ boot[i] # "failed"
  <1>1. ~ApplyFails(i)
    <2>1. SUFFICES ASSUME boot[i] = "apply", NEW v \in Versions, NextIs(i, v)
                   PROVE  Applicable(v)
      BY DEF ApplyFails
    <2>2. v \notin recorded /\ i \in Server
      BY <2>1 DEF Ahead, NextIs, Pending
    <2>3. \A w \in Versions : w < v => w \in recorded
      BY <2>1, <2>2, AppliedInOrder
    <2>4. v # 1 => Core \subseteq schema
      <3>1. v # 1 => 1 \in recorded
        BY <2>3 DEF Versions
      <3> QED
        BY <3>1 DEF SchemaOK, Makes, Core
    <2>5. Needs(v) \subseteq schema
      BY <2>4 DEF Needs, Versions, Core
    <2> QED
      BY <2>2, <2>5 DEF Applicable
  <1> QED
    BY <1>1 DEF Ahead, EnsureCollides

\* A process that takes a step of its own without failing is ahead.
LEMMA MoverIsAhead ==
  ASSUME TypeOK, SchemaOK, NEW i \in Server,
         Ensure(i) \/ ReadApplied(i) \/ Apply(i) \/ Migrated(i)
  PROVE  i \in Ahead'
  <1>1. CASE Apply(i)
    <2>1. PICK v \in Versions : /\ NextIs(i, v) /\ Applicable(v)
                                /\ recorded' = recorded \union {v}
                                /\ found' = [found EXCEPT ![i] = @ \union {v}]
      BY <1>1 DEF Apply
    <2>2. found[i] = recorded
      BY <2>1, AppliedInOrder DEF Applicable
    <2> QED
      BY <1>1, <2>1, <2>2 DEF Apply, Ahead, TypeOK, MigratorTypeOK
  <1>2. CASE ~Apply(i)
    BY <1>2 DEF Ensure, ReadApplied, Migrated, Goto, Ahead, TypeOK, MigratorTypeOK
  <1> QED
    BY <1>1, <1>2

LEMMA StartStep ==
  ASSUME TypeOK, SchemaOK, LifeOK, StartOK, [Next]_vars
  PROVE  StartOK'
  <1>0. trouble \in Nat
    BY BackendAssumption DEF TypeOK
  <1>1. CASE Strikes
    BY <1>0, <1>1 DEF Strikes, StartOK
  <1>2. CASE UNCHANGED <<migrations, lives, trouble>>
    BY <1>2 DEF migrations, lives, StartOK, Ahead
  <1>3. ASSUME NEW i \in Server, Start(i)
        PROVE  StartOK'
    <2>1. i \in Ahead'
      BY <1>3 DEF Start, RunMigrations, Goto, Ahead, TypeOK, MigratorTypeOK
    <2> QED
      BY <2>1 DEF StartOK
  <1>4. ASSUME NEW i \in Server, Migrate(i)
        PROVE  StartOK'
    <2>1. CASE Ensure(i) \/ ReadApplied(i) \/ Apply(i) \/ Migrated(i)
      BY <2>1, MoverIsAhead DEF StartOK
    <2>2. CASE EnsureCollides(i) \/ ApplyFails(i)
      <3>1. i \notin Ahead
        BY <2>2, AheadApplies
      <3>2. \A j \in Ahead : j \in Ahead'
        BY <2>2, <3>1 DEF EnsureCollides, ApplyFails, Goto, Ahead, TypeOK, MigratorTypeOK
      <3>3. life[i] # "down" /\ trouble' = trouble
        BY <1>4 DEF Migrate
      <3> QED
        BY <3>2, <3>3 DEF StartOK
    <2> QED
      BY <1>4, <2>1, <2>2 DEF Migrate, MigratorStep
  <1>5. ASSUME NEW i \in Server, StartupFails(i) \/ Exit(i)
        PROVE  StartOK'
    <2>1. CASE trouble = 0
      <3>1. StartupFails(i)
        BY <1>5, <2>1 DEF Exit, LifeOK
      <3>2. i \notin Ahead /\ life[i] # "down"
        BY <3>1, AheadApplies DEF StartupFails
      <3>3. \A j \in Ahead : j \in Ahead'
        BY <3>1, <3>2 DEF StartupFails, Gone, Goto, Ahead, TypeOK, MigratorTypeOK
      <3> QED
        BY <2>1, <3>2, <3>3 DEF StartOK
    <2>2. CASE trouble # 0
      BY <1>5, <2>2 DEF StartupFails, Exit, StartOK
    <2> QED
      BY <2>1, <2>2
  <1>6. ASSUME NEW i \in Server, Serve(i) \/ CloseServer(i)
        PROVE  StartOK'
    <2>1. Ahead' = Ahead /\ life[i] # "down" /\ trouble' = trouble
      BY <1>6 DEF Serve, CloseServer, migrations, Ahead
    <2> QED
      BY <2>1 DEF StartOK
  <1>7. ASSUME NEW i \in Server, MigrateThrows(i) \/ Sigterm(i) \/ Crash(i)
        PROVE  Strikes
    BY <1>7 DEF MigrateThrows, Sigterm, Crash
  <1> QED
    BY <1>1, <1>2, <1>3, <1>4, <1>5, <1>6, <1>7, ProcessSteps DEF ProcessMoves

-----------------------------------------------------------------------------
(* One event for a key                                                     *)

KeyInv == KeyOK /\ ReplyOK /\ CreatedOnce /\ KnownOK /\ AnswersAgree /\ FannedOut

LEMMA StepIsTyped ==
  ASSUME IngestionTypeOK, NEW c \in Client, NEW s, Advance(c, s)
  PROVE  /\ step'[c] = s
         /\ \A d \in Client : d # c => step'[d] = step[d]
  BY DEF Advance, IngestionTypeOK

\* Before the first commit nobody has been answered.
LEMMA VisibleOnce ==
  ASSUME IngestionTypeOK, KeyInv, NEW c \in Client, step[c] = "written", Visible(c)
  PROVE  /\ event = None /\ event' # None /\ event'.id = mine[c]
         /\ answers = {}
         /\ \A d \in Client : step[d] \notin {"created", "found", "duplicate"}
         /\ \A d \in Client : d # c => step[d] \notin {"inserted", "written"}
         /\ holder' = None
         /\ FannedOut'
  <1>1. holder = c /\ event = None /\ None \notin Client
    BY IngestionAssumption DEF KeyInv, KeyOK
  <1>2. /\ event' \in Events
        /\ event'.id = mine[c]
        /\ event'.status = IF picked[c] = {} THEN "NO_TARGETS" ELSE "PROCESSING"
    BY DEF Visible, Events, IngestionTypeOK
  <1>3. event' # None
    BY <1>2, IngestionAssumption
  <1>4. deliveries = {} /\ deliveries' = {mine[c]} \X picked[c]
    BY <1>1 DEF Visible, KeyInv, FannedOut
  <1>5. knew[c] \subseteq picked[c]
    BY DEF KeyInv, KnownOK
  <1>6. FannedOut'
    <2>1. deliveries' = {} <=> picked[c] = {}
      <3>1. \A p \in picked[c] : <<mine[c], p>> \in deliveries'
        BY <1>4
      <3> QED
        BY <1>4, <3>1
    <2>2. \A d \in deliveries' : d[1] = mine[c]
      BY <1>4
    <2>3. {mine[c]} \X owed' \subseteq deliveries'
      BY <1>4, <1>5 DEF Visible
    <2> QED
      BY <1>2, <1>3, <2>1, <2>2, <2>3 DEF FannedOut
  <1>7. /\ answers = {}
        /\ \A d \in Client : step[d] \notin {"created", "found", "duplicate"}
    BY <1>1 DEF KeyInv, AnswersAgree, ReplyOK
  <1>8. \A d \in Client : d # c => step[d] \notin {"inserted", "written"}
    BY <1>1 DEF KeyInv, KeyOK
  <1> QED
    BY <1>1, <1>2, <1>3, <1>6, <1>7, <1>8 DEF Visible

LEMMA KeyOver ==
  ASSUME IngestionTypeOK, KeyInv, NEW S \in SUBSET Client, RolledBack(S)
  PROVE  KeyInv'
  <1>1. /\ \A c \in S : step'[c] = "idle" /\ knew'[c] = {}
        /\ \A c \in Client \ S : step'[c] = step[c] /\ mine'[c] = mine[c]
                              /\ picked'[c] = picked[c] /\ knew'[c] = knew[c]
    BY DEF RolledBack, Over
  <1>2. /\ holder' = IF holder \in S THEN None ELSE holder
        /\ UNCHANGED <<event, deliveries, endpoints, owed, answers>>
    BY DEF RolledBack, rows
  <1>3. KeyOK'
    BY <1>1, <1>2, IngestionAssumption DEF KeyInv, KeyOK
  <1>4. ReplyOK' /\ CreatedOnce' /\ KnownOK'
    BY <1>1, <1>2 DEF KeyInv, ReplyOK, CreatedOnce, KnownOK
  <1>5. AnswersAgree' /\ FannedOut'
    BY <1>2 DEF KeyInv, AnswersAgree, FannedOut
  <1> QED
    BY <1>3, <1>4, <1>5 DEF KeyInv

LEMMA KeyCommits ==
  ASSUME IngestionTypeOK, KeyInv, NEW c \in Client, Commit(c) \/ CommitThrows(c)
  PROVE  KeyInv'
  <1>1. step[c] = "written" /\ Visible(c)
    BY DEF Commit, CommitThrows
  <1>2. /\ event = None /\ event' # None /\ event'.id = mine[c]
        /\ answers = {} /\ answers' = {}
        /\ \A d \in Client : step[d] \notin {"created", "found", "duplicate"}
        /\ \A d \in Client : d # c => step[d] \notin {"inserted", "written"}
        /\ holder' = None /\ FannedOut'
        /\ UNCHANGED endpoints
    BY <1>1, VisibleOnce DEF Commit, CommitThrows
  <1>3. /\ \A d \in Client : d # c => step'[d] = step[d] /\ knew'[d] = knew[d] /\ picked'[d] = picked[d]
        /\ step'[c] \in {"created", "idle"}
        /\ step'[c] = "created" => mine'[c] = mine[c]
        /\ knew'[c] \subseteq endpoints
    <2>1. CASE Commit(c)
      BY <2>1, StepIsTyped DEF Commit, KeyInv, KnownOK
    <2>2. CASE CommitThrows(c)
      BY <2>2 DEF CommitThrows, Over
    <2> QED
      BY <2>1, <2>2
  <1>4. KeyOK'
    BY <1>2, <1>3, IngestionAssumption DEF KeyOK
  <1>5. ReplyOK' /\ CreatedOnce'
    BY <1>2, <1>3 DEF ReplyOK, CreatedOnce
  <1>6. KnownOK'
    BY <1>2, <1>3 DEF KeyInv, KnownOK
  <1>7. AnswersAgree'
    BY <1>2 DEF AnswersAgree
  <1> QED
    BY <1>2, <1>4, <1>5, <1>6, <1>7 DEF KeyInv

LEMMA KeyReplies ==
  ASSUME IngestionTypeOK, KeyInv, NEW c \in Client, Reply(c)
  PROVE  KeyInv'
  <1>1. /\ step[c] \in {"created", "found"}
        /\ answers' = answers \union {[client |-> c, code |-> Code(c), id |-> mine[c]]}
        /\ UNCHANGED <<event, deliveries, endpoints, holder, owed>>
    BY DEF Reply, rows
  <1>2. /\ step'[c] = "idle" /\ knew'[c] = {}
        /\ \A d \in Client : d # c => step'[d] = step[d] /\ mine'[d] = mine[d]
                                   /\ knew'[d] = knew[d] /\ picked'[d] = picked[d]
    BY DEF Reply, Over
  <1>3. event # None /\ mine[c] = event.id
    BY <1>1 DEF KeyInv, ReplyOK
  <1>4. AnswersAgree'
    <2>1. \A a \in answers : a.code = 201 => step[c] # "created"
      BY DEF KeyInv, CreatedOnce
    <2> QED
      BY <1>1, <1>3, <2>1 DEF KeyInv, AnswersAgree, Code
  <1>5. CreatedOnce'
    BY <1>1, <1>2 DEF KeyInv, CreatedOnce, Code
  <1>6. KeyOK' /\ ReplyOK' /\ KnownOK' /\ FannedOut'
    BY <1>1, <1>2 DEF KeyInv, KeyOK, ReplyOK, KnownOK, FannedOut
  <1> QED
    BY <1>4, <1>5, <1>6 DEF KeyInv

LEMMA KeyRequest ==
  ASSUME IngestionTypeOK, KeyInv, NEW c \in Client, RequestStep(c)
  PROVE  KeyInv'
  <1>1. CASE Connect(c)
    <2>1. step'[c] = "begun" /\ \A d \in Client : d # c => step'[d] = step[d]
      BY <1>1, StepIsTyped DEF Connect
    <2> QED
      BY <1>1, <2>1 DEF Connect, rows, KeyInv, KeyOK, ReplyOK, CreatedOnce, KnownOK, AnswersAgree, FannedOut
  <1>2. CASE Insert(c)
    <2>1. /\ step'[c] = "inserted" /\ \A d \in Client : d # c => step'[d] = step[d]
          /\ holder = None /\ holder' = c /\ event = None
          /\ UNCHANGED <<event, deliveries, endpoints, picked, knew, owed, answers>>
      BY <1>2, StepIsTyped DEF Insert, rows
    <2>2. KeyOK'
      BY <2>1, IngestionAssumption DEF KeyInv, KeyOK
    <2>3. ReplyOK' /\ CreatedOnce' /\ KnownOK' /\ AnswersAgree' /\ FannedOut'
      BY <2>1 DEF KeyInv, ReplyOK, CreatedOnce, KnownOK, AnswersAgree, FannedOut
    <2> QED
      BY <2>2, <2>3 DEF KeyInv
  <1>3. CASE InsertConflicts(c)
    <2>1. step'[c] = "duplicate" /\ \A d \in Client : d # c => step'[d] = step[d]
      BY <1>3, StepIsTyped DEF InsertConflicts
    <2> QED
      BY <1>3, <2>1 DEF InsertConflicts, rows, KeyInv, KeyOK, ReplyOK, CreatedOnce, KnownOK,
         AnswersAgree, FannedOut
  <1>4. CASE SelectExisting(c)
    <2>1. /\ step'[c] = "found" /\ \A d \in Client : d # c => step'[d] = step[d]
          /\ mine'[c] = event.id /\ \A d \in Client : d # c => mine'[d] = mine[d]
          /\ step[c] = "duplicate"
      BY <1>4, StepIsTyped DEF SelectExisting, IngestionTypeOK
    <2> QED
      BY <1>4, <2>1 DEF SelectExisting, rows, KeyInv, KeyOK, ReplyOK, CreatedOnce, KnownOK,
         AnswersAgree, FannedOut
  <1>5. CASE FanOut(c)
    <2>1. /\ step'[c] = "written" /\ \A d \in Client : d # c => step'[d] = step[d]
          /\ picked'[c] = endpoints /\ \A d \in Client : d # c => picked'[d] = picked[d]
          /\ step[c] = "inserted"
      BY <1>5, StepIsTyped DEF FanOut, IngestionTypeOK
    <2> QED
      BY <1>5, <2>1 DEF FanOut, rows, KeyInv, KeyOK, ReplyOK, CreatedOnce, KnownOK,
         AnswersAgree, FannedOut
  <1>6. CASE Commit(c)
    BY <1>6, KeyCommits
  <1>7. CASE Reply(c)
    BY <1>7, KeyReplies
  <1> QED
    BY <1>1, <1>2, <1>3, <1>4, <1>5, <1>6, <1>7 DEF RequestStep

LEMMA KeyStep ==
  ASSUME IngestionTypeOK, KeyInv, IngestionMoves
  PROVE  KeyInv'
  <1>1. ASSUME NEW c \in Client, NEW i \in Server, Post(c, i)
        PROVE  KeyInv'
    <2>1. /\ step'[c] = "posted" /\ \A d \in Client : d # c => step'[d] = step[d]
          /\ knew'[c] = endpoints /\ \A d \in Client : d # c => knew'[d] = knew[d]
          /\ step[c] = "idle"
      BY <1>1, StepIsTyped DEF Post, IngestionTypeOK
    <2> QED
      BY <1>1, <2>1 DEF Post, rows, KeyInv, KeyOK, ReplyOK, CreatedOnce, KnownOK, AnswersAgree, FannedOut
  <1>2. ASSUME NEW e \in Endpoint, Register(e)
        PROVE  KeyInv'
    BY <1>2 DEF Register, requests, KeyInv, KeyOK, ReplyOK, CreatedOnce, KnownOK, AnswersAgree, FannedOut
  <1>3. CASE \/ /\ outbox' = {}
                /\ UNCHANGED <<event, deliveries, endpoints, holder, requests, owed, answers, ids>>
             \/ UNCHANGED ingestion
    BY <1>3 DEF ingestion, rows, requests, KeyInv, KeyOK, ReplyOK, CreatedOnce, KnownOK,
       AnswersAgree, FannedOut
  <1> QED
    BY <1>1, <1>2, <1>3, KeyRequest, KeyCommits, KeyOver DEF IngestionMoves

-----------------------------------------------------------------------------
(* The theorems                                                            *)

LEMMA BackInit == Init => BackInv
  <1> SUFFICES ASSUME Init PROVE BackInv
    OBVIOUS
  <1> USE DEF Init, IngestionInit, MigratorInit
  <1>1. schema \subseteq Objects
    <2>1. PICK origin \in Origins, k \in 0 .. 4 : schema = Reached(origin, k)
      OBVIOUS
    <2>2. \A v \in 1 .. k : Makes(v, origin) \subseteq Objects
      BY DEF Makes, Objects, Core
    <2>3. origin \subseteq Objects
      BY DEF Origins, Core, Objects
    <2> QED
      BY <2>1, <2>2, <2>3 DEF Reached
  <1>2. \A i \in Server : Cardinality(InUse(i)) <= PoolMax
    <2> TAKE i \in Server
    <2>1. InUse(i) = {}
      BY IngestionAssumption DEF InUse, Connected
    <2> QED
      BY <2>1, FS_EmptySet, IngestionAssumption
  <1>3. IngestionTypeOK
    BY <1>2 DEF IngestionTypeOK, Connected
  <1>4. MigratorTypeOK
    BY <1>1 DEF MigratorTypeOK, Versions
  <1>5. TypeOK
    BY <1>3, <1>4, BackendAssumption DEF TypeOK
  <1>6. SchemaOK
    <2>1. PICK origin \in Origins, k \in 0 .. 4 : schema = Reached(origin, k) /\ recorded = 1 .. k
      OBVIOUS
    <2>2. \A v \in recorded : Makes(v, {"circuit_breakers"}) \subseteq schema
      <3> TAKE v \in recorded
      <3>1. Makes(v, {"circuit_breakers"}) \subseteq Makes(v, origin)
        BY <2>1, MakesAtLeast DEF Versions
      <3> QED
        BY <2>1, <3>1 DEF Reached
    <2>3. \A v \in recorded, w \in Versions : w < v => w \in recorded
      BY <2>1 DEF Versions
    <2> QED
      BY <2>2, <2>3 DEF SchemaOK
  <1>7. LifeOK /\ StartOK
    BY DEF LifeOK, StartOK
  <1>8. KeyOK /\ ReplyOK /\ CreatedOnce /\ KnownOK /\ AnswersAgree /\ FannedOut
    BY IngestionAssumption DEF KeyOK, ReplyOK, CreatedOnce, KnownOK, AnswersAgree, FannedOut
  <1> QED
    BY <1>5, <1>6, <1>7, <1>8 DEF BackInv

LEMMA BackStep == BackInv /\ [Next]_vars => BackInv'
  <1> SUFFICES ASSUME BackInv, [Next]_vars PROVE BackInv'
    OBVIOUS
  <1>1. TypeOK'
    BY TypeStep DEF BackInv
  <1>2. SchemaOK' /\ LifeOK' /\ StartOK'
    BY SchemaStep, LifeStep, StartStep DEF BackInv
  <1>3. KeyInv'
    BY KeyStep, IngestionSteps DEF BackInv, KeyInv, TypeOK
  <1> QED
    BY <1>1, <1>2, <1>3 DEF BackInv, KeyInv

\* The inductive invariant holds of every behaviour of the processes.
THEOREM BackendInvariance == Spec => []BackInv
  BY BackInit, BackStep, PTL DEF Spec

\* Tables, requests and processes keep their types, and no process uses more
\* connections than its pool has.
THEOREM BackendTypeCorrect == Spec => []TypeOK
  <1>1. BackInv => TypeOK
    BY DEF BackInv
  <1> QED
    BY <1>1, BackendInvariance, PTL

\* A process that serves has the whole schema, whichever database it found and
\* however many processes migrated it and failed.
THEOREM SchemaIsComplete == Spec => []ServesFullSchema
  <1>1. BackInv => ServesFullSchema
    BY RecordedIsFull DEF BackInv, LifeOK, ServesFullSchema
  <1> QED
    BY <1>1, BackendInvariance, PTL

\* Processes that start together never make each other all exit.
THEOREM OneStarts == Spec => []SomeoneSurvives
  <1>1. BackInv => SomeoneSurvives
    BY DEF BackInv, StartOK, Ahead, SomeoneSurvives
  <1> QED
    BY <1>1, BackendInvariance, PTL

\* All 2xx answers for one key name the one committed event.
THEOREM OneEventPerKey == Spec => []AnswersAgree
  <1>1. BackInv => AnswersAgree
    BY DEF BackInv
  <1> QED
    BY <1>1, BackendInvariance, PTL

\* An event and its fan-out are committed together and miss no endpoint.
THEOREM FanOutIsComplete == Spec => []FannedOut
  <1>1. BackInv => FannedOut
    BY DEF BackInv
  <1> QED
    BY <1>1, BackendInvariance, PTL

-----------------------------------------------------------------------------
(* Migrations of several processes                                         *)

LEMMA MigratesNext ==
  ASSUME BackInv, [Next]_vars, ~UNCHANGED <<schema, recorded>>
  PROVE  \E v \in Versions \ recorded :
            /\ \A w \in Versions : w < v => w \in recorded
            /\ recorded' = recorded \union {v}
            /\ schema' = schema \union Makes(v, schema)
            /\ \A i \in Server : life[i] \in {"down", "boot"}
  <1>1. PICK i \in Server : MigratorMoves(i)
    <2>1. ~UNCHANGED <<migrations, lives>>
      BY DEF migrations
    <2> QED
      BY <2>1, ProcessSteps, MigratorMovesOf DEF ProcessMoves
  <1>2. Apply(i)
    BY <1>1 DEF MigratorMoves, RunMigrations, MigratorStep, MigrationThrows, Gone, Ensure,
       EnsureCollides, ReadApplied, ApplyFails, Migrated, migrations
  <1>3. PICK v \in Versions : /\ NextIs(i, v) /\ Applicable(v)
                              /\ schema' = schema \union Makes(v, schema)
                              /\ recorded' = recorded \union {v}
    BY <1>2 DEF Apply
  <1>4. v \notin recorded /\ \A w \in Versions : w < v => w \in recorded
    BY <1>3, AppliedInOrder DEF Applicable, BackInv
  <1>5. \A j \in Server : life[j] \in {"down", "boot"}
    BY <1>4 DEF BackInv, TypeOK, LifeOK
  <1> QED
    BY <1>3, <1>4, <1>5

\* Any number of processes migrate the database as if one did it, and not while
\* one of them serves.
THEOREM MigratedAsIfAlone == Spec => OneMigrator
  <1>1. BackInv /\ [Next]_vars =>
          [UNCHANGED <<schema, recorded>> \/ \E v \in Versions \ recorded :
              /\ \A w \in Versions : w < v => w \in recorded
              /\ recorded' = recorded \union {v}
              /\ schema' = schema \union Makes(v, schema)
              /\ \A i \in Server : life[i] \in {"down", "boot"}]_vars
    BY MigratesNext
  <1> QED
    BY <1>1, BackendInvariance, PTL DEF Spec, OneMigrator

-----------------------------------------------------------------------------
(* Requests that wait                                                      *)

\* The waits for connections and for the row lock of the key close no circle, with
\* any number of requests on pools of any size: the request that has inserted
\* the key has its connection and needs nothing more (withTransaction).
THEOREM NoRequestDeadlock == Spec => []WaitsEnd
  <1>1. ASSUME BackInv
        PROVE  WaitsEnd
    <2>1. holder # None => holder \in Client /\ Moves(holder)
      <3> SUFFICES ASSUME holder # None
                   PROVE  holder \in Client /\ Moves(holder)
        OBVIOUS
      <3>1. holder \in Client /\ step[holder] \in {"inserted", "written"}
        BY <1>1 DEF BackInv, TypeOK, IngestionTypeOK, KeyOK
      <3> QED
        BY <3>1 DEF Moves, Blockers
    <2>2. ASSUME NEW c \in Client, NEW b \in InUse(at[c])
          PROVE  Moves(b) \/ \E d \in Blockers(b) : Moves(d)
      <3>1. step[b] \in Connected
        BY DEF InUse
      <3>2. CASE step[b] = "begun" /\ holder # None
        <4>1. Blockers(b) = {holder}
          BY <3>2 DEF Blockers
        <4> QED
          BY <2>1, <3>2, <4>1
      <3>3. CASE ~(step[b] = "begun" /\ holder # None)
        BY <3>1, <3>3 DEF Moves, Blockers, Connected
      <3> QED
        BY <3>2, <3>3
    <2>3. ASSUME NEW c \in Client, NEW b \in Blockers(c)
          PROVE  b \in InUse(at[c]) \/ (holder # None /\ b = holder)
      BY <2>3 DEF Blockers
    <2> QED
      BY <2>1, <2>2, <2>3 DEF WaitsEnd
  <1>2. BackInv => WaitsEnd
    BY <1>1
  <1> QED
    BY <1>2, BackendInvariance, PTL

-----------------------------------------------------------------------------
(* The contract of a key                                                   *)

\* Steps of requests that nobody sees.
LEMMA KeyStutters ==
  ASSUME UNCHANGED <<event, deliveries, outbox, answers>>, Makers' \subseteq Makers
  PROVE  [Key!Next]_(Key!vars)
  BY DEF Key!Next, Key!Forget, Key!vars

\* The COMMIT, whether or not its reply arrives, creates the event.
LEMMA CommitCreates ==
  ASSUME BackInv, NEW c \in Client, Commit(c) \/ CommitThrows(c)
  PROVE  Key!Next
  <1>1. step[c] = "written" /\ Visible(c) /\ holder = c /\ answers' = answers
    BY DEF Commit, CommitThrows, BackInv, KeyOK
  <1>2. event = None /\ deliveries = {} /\ outbox = {}
    BY <1>1, IngestionAssumption DEF BackInv, TypeOK, IngestionTypeOK, KeyOK, FannedOut
  <1>3. Makers = {}
    BY <1>2 DEF BackInv, ReplyOK, Makers
  <1>4. Makers' \in {{}} \union {{d} : d \in Client}
    <2>1. \A d \in Client : d # c => step'[d] = step[d]
      BY DEF Commit, CommitThrows, Advance, Over, BackInv, TypeOK, IngestionTypeOK
    <2>2. Makers' \subseteq {c}
      BY <1>3, <2>1 DEF Makers
    <2>3. Makers' = {} \/ Makers' = {c}
      BY <2>2
    <2> QED
      BY <2>3
  <1>5. picked[c] \in SUBSET Endpoint /\ mine[c] \in Nat
    BY DEF BackInv, TypeOK, IngestionTypeOK
  <1>6. Key!Create(picked[c])
    BY <1>1, <1>2, <1>4, <1>5 DEF Visible, Key!Create
  <1> QED
    BY <1>5, <1>6 DEF Key!Next

LEMMA ReplyAnswers ==
  ASSUME BackInv, NEW c \in Client, Reply(c)
  PROVE  Key!Next
  <1>1. event # None /\ mine[c] = event.id
    BY DEF Reply, BackInv, ReplyOK
  <1>2. Code(c) = IF c \in Makers THEN 201 ELSE 200
    BY DEF Code, Makers
  <1>3. Makers' = Makers \ {c}
    BY DEF Reply, Over, Makers
  <1>4. Key!Answer(c)
    BY <1>1, <1>2, <1>3 DEF Reply, rows, Key!Answer
  <1> QED
    BY <1>4 DEF Key!Next

LEMMA KeySimulated ==
  ASSUME BackInv, [Next]_vars
  PROVE  [Key!Next]_(Key!vars)
  <1>1. ASSUME NEW c \in Client, NEW s, s # "created", Advance(c, s),
               UNCHANGED <<event, deliveries, outbox, answers>>
        PROVE  [Key!Next]_(Key!vars)
    <2>1. \A d \in Client : step'[d] = IF d = c THEN s ELSE step[d]
      BY <1>1 DEF Advance, BackInv, TypeOK, IngestionTypeOK
    <2>2. Makers' \subseteq Makers
      BY <1>1, <2>1 DEF Makers
    <2> QED
      BY <1>1, <2>2, KeyStutters
  <1>2. ASSUME NEW c \in Client, NEW i \in Server, Post(c, i)
        PROVE  [Key!Next]_(Key!vars)
    BY <1>1, <1>2 DEF Post, rows
  <1>3. ASSUME NEW c \in Client, RequestStep(c) \/ CommitThrows(c)
        PROVE  [Key!Next]_(Key!vars)
    <2>1. CASE Connect(c) \/ Insert(c) \/ InsertConflicts(c) \/ SelectExisting(c) \/ FanOut(c)
      BY <1>1, <2>1 DEF Connect, Insert, InsertConflicts, SelectExisting, FanOut, rows
    <2>2. CASE Commit(c) \/ CommitThrows(c)
      BY <2>2, CommitCreates
    <2>3. CASE Reply(c)
      BY <2>3, ReplyAnswers
    <2> QED
      BY <1>3, <2>1, <2>2, <2>3 DEF RequestStep
  <1>4. ASSUME NEW S \in SUBSET Client, RolledBack(S)
        PROVE  [Key!Next]_(Key!vars)
    <2>1. Makers' \subseteq Makers
      BY <1>4 DEF RolledBack, Over, Makers
    <2> QED
      BY <1>4, <2>1, KeyStutters DEF RolledBack, rows
  <1>5. ASSUME NEW e \in Endpoint, Register(e)
        PROVE  [Key!Next]_(Key!vars)
    BY <1>5, KeyStutters DEF Register, requests, Makers
  <1>6. CASE /\ outbox' = {}
             /\ UNCHANGED <<event, deliveries, endpoints, holder, requests, owed, answers, ids>>
    <2>1. Makers' = Makers
      BY <1>6 DEF requests, Makers
    <2> QED
      BY <1>6, <2>1 DEF Key!Next, Key!Relay
  <1>7. CASE UNCHANGED ingestion
    BY <1>7, KeyStutters DEF ingestion, rows, requests, Makers
  <1> QED
    BY <1>2, <1>3, <1>4, <1>5, <1>6, <1>7, IngestionSteps DEF IngestionMoves

\* Transactions, pools and processes implement what EventRelay promises of an
\* idempotency key: whatever is sent at the same time, throws or is killed, the
\* event is created in one step with its whole fan-out, once, and 201 goes to
\* the request that created it (ingestEvent, withTransaction).
THEOREM KeyImplemented == Spec => KeepsKeyContract
  <1>1. Init => Key!Init
    BY DEF Init, IngestionInit, Key!Init, Makers
  <1>2. BackInv /\ [Next]_vars => [Key!Next]_(Key!vars)
    BY KeySimulated
  <1> QED
    BY <1>1, <1>2, BackendInvariance, PTL DEF Spec, KeepsKeyContract, Key!Spec

=============================================================================
