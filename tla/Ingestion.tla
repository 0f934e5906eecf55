------------------------------ MODULE Ingestion ------------------------------
(***************************************************************************)
(* POST /api/events for one idempotency key: clients that send it at the   *)
(* same time, or again when they got no answer, to any backend process.    *)
(* Each request is one transaction (READ COMMITTED) on a connection of its *)
(* process' pool.                                                          *)
(***************************************************************************)
EXTENDS Integers, FiniteSets, Processes

CONSTANTS
    Client,     \* callers that use the key
    Endpoint,   \* endpoints whose subscription matches the event
    PoolMax     \* connections of a process' pool

Events == [id : Nat, status : {"PROCESSING", "NO_TARGETS"}]

ASSUME IngestionAssumption ==
    /\ IsFiniteSet(Client) /\ PoolMax \in Nat \ {0}
    /\ None \notin Client /\ None \notin Server /\ None \notin Events

VARIABLES
    event,      \* the row of events with the key, or None
    deliveries, \* rows of deliveries: <<event, endpoint>>
    outbox,     \* rows of outbox: <<event, endpoint>>
    endpoints,  \* rows of endpoints
    holder,     \* whose uncommitted row holds the unique key
    step,       \* of a client: how far its request has come
    at,         \* the process that serves it
    mine,       \* the id it has read or generated, 0 for none
    picked,     \* the endpoints its transaction fans out to
    knew,       \* history: endpoints that existed when it was sent
    owed,       \* history: knew of the request that made the event
    answers,    \* history: the 2xx answers
    ids         \* ids generated so far

rows == <<event, deliveries, outbox, endpoints>>
requests == <<step, at, mine, picked, knew>>
ingestion == <<rows, holder, requests, owed, answers, ids>>

\* Steps that occupy a connection.
Connected == {"begun", "inserted", "written", "duplicate"}

InUse(i) == {c \in Client : at[c] = i /\ step[c] \in Connected}

IngestionTypeOK ==
    /\ event \in Events \union {None}
    /\ deliveries \subseteq Nat \X Endpoint
    /\ outbox \subseteq deliveries
    /\ endpoints \subseteq Endpoint
    /\ holder \in Client \union {None}
    /\ step \in [Client -> Connected \union {"idle", "posted", "created", "found"}]
    /\ at \in [Client -> Server \union {None}]
    /\ mine \in [Client -> Nat]
    /\ picked \in [Client -> SUBSET Endpoint]
    /\ knew \in [Client -> SUBSET Endpoint]
    /\ owed \subseteq Endpoint
    /\ answers \subseteq [client : Client, code : {200, 201}, id : Nat]
    /\ ids \in Nat
    /\ \A i \in Server : Cardinality(InUse(i)) <= PoolMax

IngestionInit ==
    /\ event = None
    /\ deliveries = {} /\ outbox = {} /\ endpoints = {}
    /\ holder = None
    /\ step = [c \in Client |-> "idle"]
    /\ at = [c \in Client |-> None]
    /\ mine = [c \in Client |-> 0]
    /\ picked = [c \in Client |-> {}]
    /\ knew = [c \in Client |-> {}]
    /\ owed = {} /\ answers = {} /\ ids = 0

-----------------------------------------------------------------------------
(* ingestEvent                                                             *)

Advance(c, s) == step' = [step EXCEPT ![c] = s]

\* createEndpoint; its second statement, the circuit row, is in CircuitBreaker.
Register(e) ==
    /\ e \notin endpoints
    /\ endpoints' = endpoints \union {e}
    /\ UNCHANGED <<event, deliveries, outbox, holder, requests, owed, answers, ids>>

Answered(c) == \E a \in answers : a.client = c

\* A client repeats its request until it is answered; whoever sends the key
\* once more after that is another client.
Post(c, i) ==
    /\ step[c] = "idle" /\ ~Answered(c)
    /\ Advance(c, "posted")
    /\ at' = [at EXCEPT ![c] = i]
    /\ knew' = [knew EXCEPT ![c] = endpoints]
    /\ UNCHANGED <<rows, holder, mine, picked, owed, answers, ids>>

\* Mutant of Connect: a connection for every request.
ConnectUnpooled(c) ==
    /\ step[c] = "posted"
    /\ Advance(c, "begun")
    /\ UNCHANGED <<rows, holder, at, mine, picked, knew, owed, answers, ids>>

Connect(c) ==
    /\ step[c] = "posted"
    /\ Cardinality(InUse(at[c])) < PoolMax
    /\ Advance(c, "begun")
    /\ UNCHANGED <<rows, holder, at, mine, picked, knew, owed, answers, ids>>

\* Mutant of Insert: no row lock on the unique key (look first, then insert).
InsertUnlocked(c) ==
    /\ step[c] = "begun"
    /\ event = None
    /\ holder' = c
    /\ ids' = ids + 1
    /\ mine' = [mine EXCEPT ![c] = ids + 1]
    /\ Advance(c, "inserted")
    /\ UNCHANGED <<rows, at, picked, knew, owed, answers>>

\* INSERT ... ON CONFLICT DO NOTHING waits for a transaction that has inserted
\* the key, and then inserts or finds the committed row.
Insert(c) ==
    /\ step[c] = "begun"
    /\ holder = None /\ event = None
    /\ holder' = c
    /\ ids' = ids + 1
    /\ mine' = [mine EXCEPT ![c] = ids + 1]
    /\ Advance(c, "inserted")
    /\ UNCHANGED <<rows, at, picked, knew, owed, answers>>

\* Mutant of InsertConflicts: ON CONFLICT DO UPDATE of the status.
InsertUpdates(c) ==
    /\ step[c] = "begun"
    /\ holder = None /\ event # None
    /\ event' = [event EXCEPT !.status = "PROCESSING"]
    /\ Advance(c, "duplicate")
    /\ UNCHANGED <<deliveries, outbox, endpoints, holder, at, mine, picked, knew, owed, answers, ids>>

InsertConflicts(c) ==
    /\ step[c] = "begun"
    /\ holder = None /\ event # None
    /\ Advance(c, "duplicate")
    /\ UNCHANGED <<rows, holder, at, mine, picked, knew, owed, answers, ids>>

\* SELECT the existing row, COMMIT.
SelectExisting(c) ==
    /\ step[c] = "duplicate"
    /\ mine' = [mine EXCEPT ![c] = event.id]
    /\ Advance(c, "found")
    /\ UNCHANGED <<rows, holder, at, picked, knew, owed, answers, ids>>

\* Mutant of FanOut: its rows are written outside the transaction.
FanOutAutocommits(c) ==
    /\ step[c] = "inserted"
    /\ picked' = [picked EXCEPT ![c] = endpoints]
    /\ deliveries' = deliveries \union ({mine[c]} \X endpoints)
    /\ Advance(c, "written")
    /\ UNCHANGED <<event, outbox, endpoints, holder, at, mine, knew, owed, answers, ids>>

\* The target endpoints are selected; status, deliveries and outbox rows are
\* written, invisible to others until the COMMIT.
FanOut(c) ==
    /\ step[c] = "inserted"
    /\ picked' = [picked EXCEPT ![c] = endpoints]
    /\ Advance(c, "written")
    /\ UNCHANGED <<rows, holder, at, mine, knew, owed, answers, ids>>

\* What the COMMIT makes visible.
Visible(c) ==
    /\ event' = [id |-> mine[c],
                 status |-> IF picked[c] = {} THEN "NO_TARGETS" ELSE "PROCESSING"]
    /\ deliveries' = deliveries \union ({mine[c]} \X picked[c])
    /\ outbox' = outbox \union ({mine[c]} \X picked[c])
    /\ holder' = None
    /\ owed' = knew[c]

Commit(c) ==
    /\ step[c] = "written"
    /\ Visible(c)
    /\ Advance(c, "created")
    /\ UNCHANGED <<endpoints, at, mine, picked, knew, answers, ids>>

\* The requests of S are over.
Over(S) ==
    /\ step' = [c \in Client |-> IF c \in S THEN "idle" ELSE step[c]]
    /\ at' = [c \in Client |-> IF c \in S THEN None ELSE at[c]]
    /\ mine' = [c \in Client |-> IF c \in S THEN 0 ELSE mine[c]]
    /\ picked' = [c \in Client |-> IF c \in S THEN {} ELSE picked[c]]
    /\ knew' = [c \in Client |-> IF c \in S THEN {} ELSE knew[c]]

Code(c) == IF step[c] = "created" THEN 201 ELSE 200

Reply(c) ==
    /\ step[c] \in {"created", "found"}
    /\ answers' = answers \union {[client |-> c, code |-> Code(c), id |-> mine[c]]}
    /\ Over({c})
    /\ UNCHANGED <<rows, holder, owed, ids>>

\* The COMMIT takes effect and its reply is lost: the client is answered 500.
CommitThrows(c) ==
    /\ step[c] = "written"
    /\ Visible(c)
    /\ Over({c})
    /\ UNCHANGED <<endpoints, answers, ids>>

\* Mutant of RolledBack: the connection is released without ROLLBACK.
RolledBackNever(S) ==
    /\ Over(S)
    /\ UNCHANGED <<rows, holder, owed, answers, ids>>

\* The open transactions of S are rolled back.
RolledBack(S) ==
    /\ Over(S)
    /\ holder' = IF holder \in S THEN None ELSE holder
    /\ UNCHANGED <<rows, owed, answers, ids>>

\* No connection within 5 s, or a statement that rejects: answered 500.
Throws(c) ==
    /\ step[c] \in Connected \union {"posted"}
    /\ RolledBack({c})

\* The steps the code takes by itself.
RequestStep(c) ==
    \/ Connect(c) \/ Insert(c) \/ InsertConflicts(c) \/ SelectExisting(c)
    \/ FanOut(c) \/ Commit(c) \/ Reply(c)

=============================================================================
