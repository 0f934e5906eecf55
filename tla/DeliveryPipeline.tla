-------------------------- MODULE DeliveryPipeline --------------------------
(***************************************************************************)
(* The path of a webhook delivery through the backend: a PostgreSQL row, a *)
(* transactional outbox row, an entry of a Redis stream read through a     *)
(* consumer group, a worker that posts it, and the retry scheduler that    *)
(* puts a failed attempt back into the outbox.                             *)
(*                                                                         *)
(* One step is one PostgreSQL transaction, one autocommitted statement or  *)
(* one Redis command, so every await of the code is a place where another  *)
(* process may run, where the process may die and where the call may       *)
(* throw.  One stream stands for the base stream and the eight shards,     *)
(* which are handled by the same code.                                     *)
(***************************************************************************)
EXTENDS Integers, Sequences, FiniteSets

CONSTANTS
    Delivery,       \* rows of the deliveries table (one event, one endpoint)
    Worker,         \* processes that run a DeliveryWorker
    Publisher,      \* processes that run an OutboxPublisher
    MaxRetries,     \* endpoints.max_retries, 1..10 in the request schema
    BatchSize,      \* COUNT of XREADGROUP and XAUTOCLAIM
    OutboxLimit,    \* LIMIT of the drain query
    MaxReplays,     \* bound: manual replays in a behaviour
    MaxCrashes,     \* bound: processes killed in a behaviour
    MaxFaults,      \* bound: database or Redis calls that throw
    MaxTakeovers,   \* bound: jobs still running when their idle time elapses
    MaxOverlap      \* bound: transactions that commit while another is open

ASSUME LimitsAssumption ==
    /\ MaxRetries \in Nat \ {0}
    /\ BatchSize \in Nat \ {0}
    /\ OutboxLimit \in Nat \ {0}

ASSUME BoundsAssumption ==
    /\ MaxReplays \in Nat
    /\ MaxCrashes \in Nat
    /\ MaxFaults \in Nat
    /\ MaxTakeovers \in Nat
    /\ MaxOverlap \in Nat

VARIABLES
    row,        \* deliveries: status, attempt_number, next_retry_at
    outbox,     \* committed outbox rows
    txns,       \* transactions that wrote outbox rows and committed
    drain,      \* OutboxPublisher.drain: "idle", "publishing" or "stopped"
    claimed,    \* outbox rows a publisher holds FOR UPDATE
    sent,       \* rows among them already appended (publishedIds)
    stream,     \* every entry ever appended; streams are never trimmed
    cursor,     \* last-delivered-id of the consumer group
    pel,        \* entries delivered and not acknowledged
    stale,      \* entries of pel idle for 30 seconds or more
    pc,         \* where a worker stands in its loop or in processJob
    resume,     \* the loop step after the batch: "read" or "claim"
    batch,      \* entries of the reply the worker iterates over
    unrecorded, \* history: pending deliveries acknowledged with no outcome
    replays, crashes, faults, takeovers    \* how much of each bound is used

db      == <<row, outbox, txns>>
pubs    == <<drain, claimed, sent>>
redis   == <<stream, cursor, pel, stale>>
workers == <<pc, resume, batch>>
bounds  == <<replays, crashes, faults, takeovers>>
vars    == <<db, pubs, redis, workers, unrecorded, bounds>>

-----------------------------------------------------------------------------
(* Data                                                                    *)

Attempts == 1 .. MaxRetries
Statuses == {"NONE", "RETRYING", "SUCCESS", "DEAD_LETTER"}
Settled  == {"SUCCESS", "DEAD_LETTER"}

Job == [d : Delivery, attempt : Attempts]

\* next_retry_at is NULL, in the future, or reached.
Row == [status : Statuses, attempt : Attempts, retry : {"null", "waiting", "due"}]

\* The transaction that wrote the row: its place in the order of the commits,
\* and how many had committed when it began.
OutboxRow == [d : Delivery, attempt : Attempts, txn : Nat, began : Nat]

NoRow == [status |-> "NONE", attempt |-> 1, retry |-> "null"]
Queued(k) == [status |-> "RETRYING", attempt |-> k, retry |-> "null"]

\* The terminal UPDATEs leave attempt_number alone and clear next_retry_at.
Closed(r, s) == [status |-> s, attempt |-> r.attempt, retry |-> "null"]
AfterSuccess(r) == Closed(r, "SUCCESS")

\* Mutants of AfterFailure: the limit compared with <= , compared one attempt
\* early, and a dead letter that counts an attempt nobody made.
AfterFailureOneMore(r, k) ==
    IF k <= MaxRetries
    THEN [status |-> "RETRYING", attempt |-> k, retry |-> "waiting"]
    ELSE Closed(r, "DEAD_LETTER")
AfterFailureOneLess(r, k) ==
    IF k < MaxRetries - 1
    THEN [status |-> "RETRYING", attempt |-> k, retry |-> "waiting"]
    ELSE Closed(r, "DEAD_LETTER")
AfterFailureCountsOn(r, k) ==
    IF k < MaxRetries
    THEN [status |-> "RETRYING", attempt |-> k, retry |-> "waiting"]
    ELSE [status |-> "DEAD_LETTER", attempt |-> k + 1, retry |-> "null"]

\* What handleFailure leaves in a row when attempt k of it has failed.
AfterFailure(r, k) ==
    IF k < MaxRetries
    THEN [status |-> "RETRYING", attempt |-> k, retry |-> "waiting"]
    ELSE Closed(r, "DEAD_LETTER")

Due == {d \in Delivery : row[d].status = "RETRYING" /\ row[d].retry = "due"}

\* The scheduler's two branches over a due row.
Exhausted(r) == r.attempt + 1 > MaxRetries
AfterPoll(r) ==
    IF Exhausted(r)
    THEN Closed(r, "DEAD_LETTER")
    ELSE Queued(r.attempt + 1)

JobOf(r) == [d |-> r.d, attempt |-> r.attempt]

\* created_at is the time the inserting transaction began (CURRENT_TIMESTAMP),
\* long before it commits perhaps: transactions overlap, and the rows of one of
\* them may become visible after younger rows of another.
Starts == {t \in 0 .. txns : txns - t <= MaxOverlap}
Insert(d, k, t) == [d |-> d, attempt |-> k, txn |-> txns + 1, began |-> t]

Locked == UNION {claimed[p] : p \in Publisher}

\* S is what ORDER BY created_at LIMIT n returns over the rows of A: of two
\* transactions that began between the same commits, either may be the older.
FirstRows(A, n, S) ==
    /\ S \subseteq A
    /\ \A r \in S, q \in A \ S : r.began <= q.began
    /\ Cardinality(S) <= n
    /\ Cardinality(S) < n => S = A

\* The first n entries of the set A of stream positions.
FirstEntries(A, n) == {m \in A : Cardinality({k \in A : k < m}) < n}

Unread == cursor + 1 .. Len(stream)
Held(m) == \E w \in Worker : m \in batch[w]

\* The entry worker w is processing: the loop goes through the reply in order.
Current(w, m) == m \in batch[w] /\ \A k \in batch[w] : m <= k

\* Type invariant: every variable keeps the shape of the table, key or local
\* variable it stands for, and no bound is exceeded.
TypeOK ==
    /\ row \in [Delivery -> Row]
    /\ outbox \subseteq OutboxRow
    /\ txns \in Nat
    /\ drain \in [Publisher -> {"idle", "publishing", "stopped"}]
    /\ claimed \in [Publisher -> SUBSET OutboxRow]
    /\ sent \in [Publisher -> SUBSET OutboxRow]
    /\ stream \in Seq(Job)
    /\ cursor \in Nat
    /\ pel \subseteq Nat
    /\ stale \subseteq Nat
    /\ pc \in [Worker -> {"claim", "read", "fetch", "gated", "send", "ok",
                          "failed", "ack", "ackAbort"}]
    /\ resume \in [Worker -> {"claim", "read"}]
    /\ batch \in [Worker -> SUBSET Nat]
    /\ unrecorded \subseteq Delivery
    /\ replays \in 0 .. MaxReplays
    /\ crashes \in 0 .. MaxCrashes
    /\ faults \in 0 .. MaxFaults
    /\ takeovers \in 0 .. MaxTakeovers

Init ==
    /\ row = [d \in Delivery |-> NoRow]
    /\ outbox = {} /\ txns = 0
    /\ drain = [p \in Publisher |-> "idle"]
    /\ claimed = [p \in Publisher |-> {}]
    /\ sent = [p \in Publisher |-> {}]
    /\ stream = <<>> /\ cursor = 0 /\ pel = {} /\ stale = {}
    /\ pc = [w \in Worker |-> "claim"]
    /\ resume = [w \in Worker |-> "read"]
    /\ batch = [w \in Worker |-> {}]
    /\ unrecorded = {}
    /\ replays = 0 /\ crashes = 0 /\ faults = 0 /\ takeovers = 0

\* A call to PostgreSQL or Redis throws.
Fault == /\ faults < MaxFaults
         /\ faults' = faults + 1
         /\ UNCHANGED <<replays, crashes, takeovers>>

-----------------------------------------------------------------------------
(* API and retry scheduler: one transaction each                           *)

\* An event fans out to the deliveries of S; the duplicate and the NO_TARGETS
\* branches of the transaction write no delivery.
Ingest(S) ==
    /\ S # {}
    /\ \A d \in S : row[d].status = "NONE"
    /\ row' = [d \in Delivery |-> IF d \in S THEN Queued(1) ELSE row[d]]
    /\ \E t \in Starts : outbox' = outbox \union {Insert(d, 1, t) : d \in S}
    /\ txns' = txns + 1
    /\ UNCHANGED <<pubs, redis, workers, unrecorded, bounds>>

BackoffElapses(d) ==
    /\ row[d].retry = "waiting"
    /\ row' = [row EXCEPT ![d].retry = "due"]
    /\ UNCHANGED <<outbox, txns, pubs, redis, workers, unrecorded, bounds>>

\* SKIP LOCKED and LIMIT may leave any of the due rows for a later poll.
Poll(S) ==
    /\ S # {} /\ S \subseteq Due
    /\ row' = [d \in Delivery |-> IF d \in S THEN AfterPoll(row[d]) ELSE row[d]]
    /\ \E t \in Starts : outbox' = outbox \union
          {Insert(d, row[d].attempt + 1, t) : d \in {e \in S : ~Exhausted(row[e])}}
    /\ txns' = txns + 1
    /\ unrecorded' = unrecorded \ S
    /\ UNCHANGED <<pubs, redis, workers, bounds>>

\* Mutant of Replay: the row is reset and no outbox row written.
ReplayWithoutOutbox(d) ==
    /\ replays < MaxReplays
    /\ row[d].status # "NONE"
    /\ row' = [row EXCEPT ![d] = Queued(1)]
    /\ unrecorded' = unrecorded \ {d}
    /\ replays' = replays + 1
    /\ UNCHANGED <<outbox, txns, pubs, redis, workers, crashes, faults, takeovers>>

\* replayDelivery has no guard on the status: a delivery in flight may be
\* replayed too.
Replay(d) ==
    /\ replays < MaxReplays
    /\ row[d].status # "NONE"
    /\ row' = [row EXCEPT ![d] = Queued(1)]
    /\ \E t \in Starts : outbox' = outbox \union {Insert(d, 1, t)}
    /\ txns' = txns + 1
    /\ unrecorded' = unrecorded \ {d}
    /\ replays' = replays + 1
    /\ UNCHANGED <<pubs, redis, workers, crashes, faults, takeovers>>

-----------------------------------------------------------------------------
(* OutboxPublisher.drain: a transaction around one XADD per row            *)

\* Mutant of DrainBegin: FOR UPDATE SKIP LOCKED is missing.
DrainBeginUnlocked(p) ==
    /\ drain[p] = "idle"
    /\ \E S \in SUBSET outbox :
         /\ S # {}
         /\ FirstRows(outbox, OutboxLimit, S)
         /\ claimed' = [claimed EXCEPT ![p] = S]
    /\ drain' = [drain EXCEPT ![p] = "publishing"]
    /\ UNCHANGED <<db, sent, redis, workers, unrecorded, bounds>>

DrainBegin(p) ==
    /\ drain[p] = "idle"
    /\ \E S \in SUBSET (outbox \ Locked) :
         /\ S # {}
         /\ FirstRows(outbox \ Locked, OutboxLimit, S)
         /\ claimed' = [claimed EXCEPT ![p] = S]
    /\ drain' = [drain EXCEPT ![p] = "publishing"]
    /\ UNCHANGED <<db, sent, redis, workers, unrecorded, bounds>>

\* The row whose turn it is in the publish loop of p.
NextToPublish(p, r) ==
    /\ r \in claimed[p] \ sent[p]
    /\ \A q \in claimed[p] \ sent[p] : r.began <= q.began

DrainPublish(p) ==
    /\ drain[p] = "publishing"
    /\ \E r \in claimed[p] :
         /\ NextToPublish(p, r)
         /\ stream' = Append(stream, JobOf(r))
         /\ sent' = [sent EXCEPT ![p] = @ \union {r}]
    /\ UNCHANGED <<db, drain, claimed, cursor, pel, stale, workers, unrecorded, bounds>>

\* Mutant of DrainPublishFails: the loop goes on with the next row.
DrainPublishFailsGoesOn(p) ==
    /\ drain[p] = "publishing"
    /\ Fault
    /\ \E r \in claimed[p] :
         /\ NextToPublish(p, r)
         /\ claimed' = [claimed EXCEPT ![p] = @ \ {r}]
    /\ UNCHANGED <<db, drain, sent, redis, workers, unrecorded>>

\* XADD is rejected and the loop breaks; or it is executed and the connection
\* is lost, and the client, which may retry for ever, sends it once more.
DrainPublishFails(p) ==
    /\ drain[p] = "publishing"
    /\ Fault
    /\ \E r \in claimed[p] :
         /\ NextToPublish(p, r)
         /\ \/ stream' = stream /\ drain' = [drain EXCEPT ![p] = "stopped"]
            \/ stream' = Append(stream, JobOf(r)) /\ UNCHANGED drain
    /\ UNCHANGED <<db, claimed, sent, cursor, pel, stale, workers, unrecorded>>

\* Both ends of the transaction give up the row locks.
DrainEnds(p) ==
    /\ drain' = [drain EXCEPT ![p] = "idle"]
    /\ claimed' = [claimed EXCEPT ![p] = {}]
    /\ sent' = [sent EXCEPT ![p] = {}]

DrainCommit(p) ==
    /\ \/ drain[p] = "publishing" /\ claimed[p] = sent[p]
       \/ drain[p] = "stopped"
    /\ outbox' = outbox \ sent[p]
    /\ DrainEnds(p)
    /\ UNCHANGED <<row, txns, redis, workers, unrecorded, bounds>>

\* The process dies, or the DELETE or COMMIT throws: nothing is deleted.
DrainAborts(p) ==
    /\ drain[p] # "idle"
    /\ crashes < MaxCrashes
    /\ crashes' = crashes + 1
    /\ DrainEnds(p)
    /\ UNCHANGED <<db, redis, workers, unrecorded, replays, faults, takeovers>>

-----------------------------------------------------------------------------
(* DeliveryWorker.start: the loop over the stream                          *)

\* The loop takes the entries of S, or goes on to the step "other".
Receive(w, S, other) ==
    /\ batch' = [batch EXCEPT ![w] = S]
    /\ pc' = [pc EXCEPT ![w] = IF S = {} THEN other ELSE "fetch"]
    /\ resume' = [resume EXCEPT ![w] = other]

\* Mutant of AutoClaim: the entries of the reply are dropped.
AutoClaimDropsReply(w) ==
    /\ pc[w] = "claim"
    /\ stale' = stale \ FirstEntries(stale, BatchSize)
    /\ Receive(w, {}, "read")
    /\ UNCHANGED <<db, pubs, stream, cursor, pel, unrecorded, bounds>>

\* Mutant of AutoClaim: minIdleMs is 0.
AutoClaimEager(w) ==
    LET S == FirstEntries(pel, BatchSize) IN
    /\ pc[w] = "claim"
    /\ stale' = stale \ S
    /\ Receive(w, S, "read")
    /\ UNCHANGED <<db, pubs, stream, cursor, pel, unrecorded, bounds>>

\* XAUTOCLAIM hands over the oldest idle entries and restarts their idle time.
AutoClaim(w) ==
    LET S == FirstEntries(stale, BatchSize) IN
    /\ pc[w] = "claim"
    /\ stale' = stale \ S
    /\ Receive(w, S, "read")
    /\ UNCHANGED <<db, pubs, stream, cursor, pel, unrecorded, bounds>>

\* XAUTOCLAIM throws, executed or not: autoClaimPending returns [].
AutoClaimThrows(w) ==
    /\ pc[w] = "claim" /\ stale # {}
    /\ Fault
    /\ stale' \in {stale, stale \ FirstEntries(stale, BatchSize)}
    /\ Receive(w, {}, "read")
    /\ UNCHANGED <<db, pubs, stream, cursor, pel, unrecorded>>

\* XREADGROUP ">" delivers the next entries of the stream to this consumer.
LastOfRead == IF cursor + BatchSize <= Len(stream) THEN cursor + BatchSize ELSE Len(stream)

Deliver == /\ cursor' = LastOfRead
           /\ pel' = pel \union (cursor + 1 .. LastOfRead)
           /\ UNCHANGED <<stream, stale>>

ReadNew(w) ==
    /\ pc[w] = "read"
    /\ Deliver
    /\ Receive(w, cursor + 1 .. LastOfRead, "claim")
    /\ UNCHANGED <<db, pubs, unrecorded, bounds>>

\* The reply of XREADGROUP is lost: readShardMessages catches and returns [].
ReadReplyLost(w) ==
    /\ pc[w] = "read" /\ Unread # {}
    /\ Fault
    /\ Deliver
    /\ Receive(w, {}, "claim")
    /\ UNCHANGED <<db, pubs, unrecorded>>

\* An entry no live worker works on reaches the 30 s of minIdleMs.
StrandedIdle(m) ==
    /\ m \in pel \ stale
    /\ ~Held(m)
    /\ stale' = stale \union {m}
    /\ UNCHANGED <<db, pubs, stream, cursor, pel, workers, unrecorded, bounds>>

\* A slow batch: the entry reaches it while its worker is alive.
SlowIdle(m) ==
    /\ m \in pel \ stale
    /\ Held(m)
    /\ takeovers < MaxTakeovers
    /\ takeovers' = takeovers + 1
    /\ stale' = stale \union {m}
    /\ UNCHANGED <<db, pubs, stream, cursor, pel, workers, unrecorded,
                   replays, crashes, faults>>

-----------------------------------------------------------------------------
(* DeliveryWorker.processJob, for the entry m the worker stands at         *)

Goto(w, step) == pc' = [pc EXCEPT ![w] = step] /\ UNCHANGED <<resume, batch>>

\* Rate limiter, circuit breaker and URL check let the job pass or deny it.
Preflight(w) ==
    /\ pc[w] = "fetch"
    /\ \/ Goto(w, "send")
       \/ Goto(w, "gated")
    /\ UNCHANGED <<db, pubs, redis, unrecorded, bounds>>

\* The outcome of a job is written by delivery id, whatever the row holds.
Write(d, value) ==
    /\ row' = [row EXCEPT ![d] = value]
    /\ unrecorded' = unrecorded \ {d}
    /\ UNCHANGED <<outbox, txns>>

WriteFailure(m) == Write(stream[m].d, AfterFailure(row[stream[m].d], stream[m].attempt))

\* A denied job is failed outside of any try block.
GateWrite(w) ==
    /\ pc[w] = "gated"
    /\ \E m \in batch[w] : Current(w, m) /\ WriteFailure(m)
    /\ Goto(w, "ack")
    /\ UNCHANGED <<pubs, redis, bounds>>

\* Mutant of Post: SUCCESS is written before the endpoint has answered.
PostRecordsFirst(w) ==
    /\ pc[w] = "send"
    /\ \E m \in batch[w] :
         Current(w, m) /\ Write(stream[m].d, AfterSuccess(row[stream[m].d]))
    /\ \/ Goto(w, "ok")
       \/ Goto(w, "failed")
    /\ UNCHANGED <<pubs, redis, bounds>>

\* The request fails or the endpoint answers 2xx.
Post(w) ==
    /\ pc[w] = "send"
    /\ \/ Goto(w, "ok")
       \/ Goto(w, "failed")
    /\ UNCHANGED <<db, pubs, redis, unrecorded, bounds>>

RecordSuccess(w) ==
    /\ pc[w] = "ok"
    /\ \E m \in batch[w] :
         Current(w, m) /\ Write(stream[m].d, AfterSuccess(row[stream[m].d]))
    /\ Goto(w, "ack")
    /\ UNCHANGED <<pubs, redis, bounds>>

\* The UPDATE throws, or it is done and syncEventStatus or the circuit
\* breaker throws: the catch block treats both as a failed request.
RecordSuccessThrows(w) ==
    /\ pc[w] = "ok"
    /\ Fault
    /\ \/ UNCHANGED <<db, unrecorded>>
       \/ \E m \in batch[w] :
            Current(w, m) /\ Write(stream[m].d, AfterSuccess(row[stream[m].d]))
    /\ Goto(w, "failed")
    /\ UNCHANGED <<pubs, redis>>

\* Mutant of RecordFailure: the catch block logs and does not call handleFailure.
RecordFailureForgotten(w) ==
    /\ pc[w] = "failed"
    /\ Goto(w, "ack")
    /\ UNCHANGED <<db, pubs, redis, unrecorded, bounds>>

RecordFailure(w) ==
    /\ pc[w] = "failed"
    /\ \E m \in batch[w] : Current(w, m) /\ WriteFailure(m)
    /\ Goto(w, "ack")
    /\ UNCHANGED <<pubs, redis, bounds>>

\* The circuit breaker or the UPDATE throws inside the catch block, or the
\* UPDATE is done and syncEventStatus throws.  Either way the finally block
\* still acknowledges the entry.
RecordFailureThrows(w) ==
    /\ pc[w] = "failed"
    /\ Fault
    /\ \/ UNCHANGED <<db, unrecorded>>
       \/ \E m \in batch[w] : Current(w, m) /\ WriteFailure(m)
    /\ Goto(w, "ackAbort")
    /\ UNCHANGED <<pubs, redis>>

\* Mutant of Ack: the loop over the batch is left after its first entry.
AckBreaks(w) ==
    /\ pc[w] = "ack"
    /\ \E m \in batch[w] :
         /\ Current(w, m)
         /\ pel' = pel \ {m}
         /\ stale' = stale \ {m}
    /\ batch' = [batch EXCEPT ![w] = {}]
    /\ pc' = [pc EXCEPT ![w] = resume[w]]
    /\ UNCHANGED <<db, pubs, stream, cursor, resume, unrecorded, bounds>>

\* XACK, after which the loop takes the next entry of the batch.
Ack(w) ==
    /\ pc[w] = "ack"
    /\ \E m \in batch[w] :
         /\ Current(w, m)
         /\ pel' = pel \ {m}
         /\ stale' = stale \ {m}
         /\ batch' = [batch EXCEPT ![w] = @ \ {m}]
         /\ pc' = [pc EXCEPT ![w] = IF batch[w] = {m} THEN resume[w] ELSE "fetch"]
    /\ UNCHANGED <<db, pubs, stream, cursor, resume, unrecorded, bounds>>

\* The loop is left with what remains of the batch unprocessed.
LeaveBatch(w) ==
    /\ batch' = [batch EXCEPT ![w] = {}]
    /\ pc' = [pc EXCEPT ![w] = "claim"]
    /\ UNCHANGED resume

\* XACK of the finally block, then the pending exception reaches the loop.
AckThenThrow(w) ==
    /\ pc[w] = "ackAbort"
    /\ \E m \in batch[w] :
         /\ Current(w, m)
         /\ pel' = pel \ {m}
         /\ stale' = stale \ {m}
         /\ unrecorded' = IF row[stream[m].d] = Queued(stream[m].attempt)
                          THEN unrecorded \union {stream[m].d} ELSE unrecorded
    /\ LeaveBatch(w)
    /\ UNCHANGED <<db, pubs, stream, cursor, bounds>>

\* A read before the request, a write of a denied job or an XACK throws.
LoopError(w) ==
    /\ pc[w] \in {"fetch", "gated", "ack", "ackAbort"}
    /\ Fault
    /\ LeaveBatch(w)
    /\ UNCHANGED <<db, pubs, redis, unrecorded>>

WorkerCrash(w) ==
    /\ batch[w] # {}
    /\ crashes < MaxCrashes
    /\ crashes' = crashes + 1
    /\ LeaveBatch(w)
    /\ UNCHANGED <<db, pubs, redis, unrecorded, replays, faults, takeovers>>

-----------------------------------------------------------------------------
(* The system                                                              *)

API == \/ \E S \in SUBSET Delivery : Ingest(S)
       \/ \E d \in Delivery : Replay(d)

Scheduler == \/ \E d \in Delivery : BackoffElapses(d)
             \/ \E S \in SUBSET Due : Poll(S)

PublisherStep(p) == DrainBegin(p) \/ DrainPublish(p) \/ DrainCommit(p)

WorkerStep(w) ==
    \/ AutoClaim(w) \/ ReadNew(w) \/ Preflight(w) \/ GateWrite(w) \/ Post(w)
    \/ RecordSuccess(w) \/ RecordFailure(w) \/ Ack(w) \/ AckThenThrow(w)

\* What goes wrong: none of it is ever obliged to happen.
PublisherFailure(p) == DrainPublishFails(p) \/ DrainAborts(p)
WorkerFailure(w) ==
    \/ AutoClaimThrows(w) \/ ReadReplyLost(w)
    \/ RecordSuccessThrows(w) \/ RecordFailureThrows(w) \/ LoopError(w) \/ WorkerCrash(w)

Idle == \E m \in pel : StrandedIdle(m)
Slow == \E m \in pel : SlowIdle(m)

Next ==
    \/ API
    \/ Scheduler
    \/ \E p \in Publisher : PublisherStep(p) \/ PublisherFailure(p)
    \/ \E w \in Worker : WorkerStep(w) \/ WorkerFailure(w)
    \/ Idle
    \/ Slow

Spec == Init /\ [][Next]_vars

\* Timers fire, clocks advance and promises settle; requests, crashes, faults
\* and slow jobs are never obliged to happen.
Fairness ==
    /\ \A d \in Delivery : WF_vars(BackoffElapses(d))
    /\ \A d \in Delivery : WF_vars(\E S \in SUBSET Due : d \in S /\ Poll(S))
    /\ \A p \in Publisher : WF_vars(PublisherStep(p))
    /\ \A w \in Worker : WF_vars(WorkerStep(w))
    /\ WF_vars(Idle)

FairSpec == Spec /\ Fairness

-----------------------------------------------------------------------------
(* Properties                                                              *)

Jobs(S) == {stream[m] : m \in S}
Live == Unread \union pel
Published(d, k) == [d |-> d, attempt |-> k] \in Jobs(DOMAIN stream)

Carried(j) == \/ \E r \in outbox : JobOf(r) = j
              \/ j \in Jobs(Live)

Pending(d) == row[d].status = "RETRYING" /\ row[d].retry = "null"
CurrentJob(d) == [d |-> d, attempt |-> row[d].attempt]

\* At-least-once: a pending delivery that no timer will wake up has the job
\* of exactly its current attempt in the outbox, in the unread part of the
\* stream or in the pending entries list, across every crash, lost reply and
\* aborted drain.  The one exception is a job acknowledged by the finally
\* block of processJob with no outcome written.
NoDeliveryLost ==
    \A d \in Delivery : Pending(d) /\ d \notin unrecorded =>
        Carried(CurrentJob(d))

\* The promise of the README without the exception: a pending delivery always
\* has a job or a timer.
AtLeastOnce ==
    \A d \in Delivery : Pending(d) => Carried(CurrentJob(d))

\* Pending deliveries that nothing will ever process again.
Stranded == {d \in Delivery : Pending(d) /\ ~Carried(CurrentJob(d))}

\* What the exception costs: a call that fails strands one delivery at most, not
\* the rest of its batch or of its drain, and what happens beside it, crashes,
\* replays and jobs taken over while they run, strands none.
LossIsCounted == Cardinality(Stranded) <= faults

\* Retry chain: an attempt enters the stream only after every earlier one, and
\* a delivery is dead only after all of them did: a stale worker or a replay
\* may rewind the attempt counter, but nothing skips an attempt.
NoSkippedAttempt ==
    /\ \A m \in DOMAIN stream : \A k \in 1 .. stream[m].attempt : Published(stream[m].d, k)
    /\ \A d \in Delivery : row[d].status = "DEAD_LETTER" => Published(d, MaxRetries)

\* The scheduler never meets a due row without attempts left: its DEAD_LETTER
\* branch is dead code, because handleFailure schedules no such retry.
RetryWithinBudget ==
    \A d \in Delivery : row[d].retry # "null" => ~Exhausted(row[d])

Steady == crashes = 0 /\ faults = 0 /\ takeovers = 0
Calm == Steady /\ replays = 0

\* Exactly once when nothing goes wrong: several publishers, schedulers and
\* workers alone never queue one attempt twice nor share an entry (row locks
\* with SKIP LOCKED, the consumer group, the idle threshold).
OnceWhenCalm ==
    Calm => /\ \A m, n \in DOMAIN stream : stream[m] = stream[n] => m = n
            /\ \A v, w \in Worker : v # w => batch[v] \intersect batch[w] = {}

\* Outcomes are final when nothing goes wrong: no second job, late failure, poll
\* or event touches a delivery that is settled, although outcomes are written by
\* delivery id without a look at the row.
OutcomesAreFinal ==
    [][Calm' => \A d \in Delivery : row[d].status \in Settled => row'[d] = row[d]]_vars

\* One worker holds entries at a time: what the lease of a shard provides.
Serial == \A v, w \in Worker : batch[v] # {} /\ batch[w] # {} => v = w

\* Sequential dispatch per shard: an entry is processed only when every older one
\* is acknowledged, replays included, as long as one worker reads and nothing
\* fails; a dropped batch comes back behind newer entries.
DispatchInOrder ==
    Steady /\ Serial =>
        \A w \in Worker : \A m \in batch[w] : Current(w, m) => \A k \in Live : m <= k

\* No publisher has given rows up that another one overtakes.
OnePublisherOrCalm ==
    \/ \A p, q \in Publisher : p = q
    \/ crashes = 0 /\ faults = 0

\* Outbox order: a row is appended to the stream only after every row that was
\* visible when its transaction began, unless another publisher holds that row
\* under SKIP LOCKED.  So the events of a client that waits for each answer
\* enter the stream in their order; nothing is said of transactions that overlap,
\* whose rows may become visible, and be published, in either order.  The break
\* after a failed XADD and the order of the drain query keep it; with several
\* publishers a row given up after a failure may be overtaken by rows another of
\* them already holds.
RowsKeepOrder ==
    [][OnePublisherOrCalm =>
          \A p \in Publisher : \A q \in sent'[p] \ sent[p], r \in outbox :
             r.txn <= q.began => r \in sent[p] \union (Locked \ claimed[p])]_vars

\* Every pending delivery is eventually delivered or dead-lettered, or was
\* acknowledged with no outcome.
EventuallySettled ==
    \A d \in Delivery : row[d].status = "RETRYING" ~>
        (row[d].status \in Settled \/ d \in unrecorded)

=============================================================================
