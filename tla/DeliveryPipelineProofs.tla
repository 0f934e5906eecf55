----------------------- MODULE DeliveryPipelineProofs -----------------------
(***************************************************************************)
(* Machine-checked proofs about DeliveryPipeline, for every number of      *)
(* deliveries, workers, publishers, retries, crashes and faults.           *)
(***************************************************************************)
EXTENDS DeliveryPipeline, FiniteSetTheorems, TLAPS

-----------------------------------------------------------------------------
(* The inductive invariant behind NoDeliveryLost and NoSkippedAttempt      *)

\* Positions: what was read lies before the cursor, the cursor in the stream.
PositionsOK ==
    /\ cursor <= Len(stream)
    /\ pel \subseteq 1 .. cursor
    /\ stale \subseteq pel
    /\ \A w \in Worker : batch[w] \subseteq 1 .. cursor

\* Locks: a publisher holds rows of the outbox, no row has two holders, and
\* what it has sent is part of what it holds.
LocksOK ==
    /\ \A r \in outbox : r.txn <= txns /\ r.began < r.txn
    /\ \A p \in Publisher : claimed[p] \subseteq outbox /\ sent[p] \subseteq claimed[p]
    /\ \A p \in Publisher : drain[p] = "idle" => claimed[p] = {}
    /\ \A p, q \in Publisher : p # q => claimed[p] \intersect claimed[q] = {}

TimersOK ==
    \A d \in Delivery : row[d].retry # "null" =>
        row[d].status = "RETRYING" /\ row[d].attempt < MaxRetries

\* A worker about to acknowledge entry m after writing an outcome.
Spent(m) == \E w \in Worker : pc[w] = "ack" /\ Current(w, m)

\* A carrier that outlives the steps under way: an outbox row no publisher is
\* about to delete, or an entry no worker is about to acknowledge.
SafelyCarried(j) ==
    \/ \E r \in outbox : JobOf(r) = j /\ \A p \in Publisher : r \notin sent[p]
    \/ \E m \in Live : stream[m] = j /\ ~Spent(m)

CarriersOK ==
    \A d \in Delivery : Pending(d) /\ d \notin unrecorded => SafelyCarried(CurrentJob(d))

\* Attempts are queued in order: before a job is in the outbox every earlier
\* attempt is in the stream, and before a retry is scheduled its attempt is.
ChainOK ==
    /\ \A m \in DOMAIN stream : \A k \in 1 .. stream[m].attempt : Published(stream[m].d, k)
    /\ \A r \in outbox : \A k \in 1 .. r.attempt - 1 : Published(r.d, k)
    /\ \A d \in Delivery : row[d].retry # "null" =>
          \A k \in 1 .. row[d].attempt : Published(d, k)
    /\ \A d \in Delivery : row[d].status = "DEAD_LETTER" => Published(d, MaxRetries)

\* Strengthening of RowsKeepOrder: what was visible when the transaction of a
\* claimed row began is claimed too.
OrderOK ==
    OnePublisherOrCalm =>
        /\ crashes = 0 /\ faults = 0 => \A p \in Publisher : drain[p] # "stopped"
        /\ \A p \in Publisher : \A q \in claimed[p], r \in outbox :
              r.txn <= q.began => r \in Locked

\* Strengthening of NoDeliveryLost and NoSkippedAttempt that every step keeps:
\* the job of a pending delivery survives the acknowledgements and deletions
\* already under way.
IInv == TypeOK /\ PositionsOK /\ LocksOK /\ TimersOK /\ CarriersOK /\ ChainOK

-----------------------------------------------------------------------------
(* Type correctness                                                        *)

LEMMA InsertedRow ==
  ASSUME NEW d, NEW k, NEW t
  PROVE  /\ Insert(d, k, t).d = d /\ Insert(d, k, t).attempt = k
         /\ Insert(d, k, t).txn = txns + 1 /\ Insert(d, k, t).began = t
         /\ d \in Delivery /\ k \in Attempts /\ txns \in Nat /\ t \in Starts =>
              Insert(d, k, t) \in OutboxRow
  BY DEF Insert, OutboxRow, Starts

LEMMA InitType == Init => TypeOK
  BY LimitsAssumption, BoundsAssumption DEF Init, TypeOK, Row, NoRow, Attempts, Statuses

\* A bound of the model counts up to its limit.
LEMMA FaultType ==
  ASSUME TypeOK, Fault
  PROVE  <<replays, crashes, faults, takeovers>>' \in
            (0 .. MaxReplays) \X (0 .. MaxCrashes) \X (0 .. MaxFaults) \X (0 .. MaxTakeovers)
  BY BoundsAssumption DEF TypeOK, Fault

\* The rows the outcome writers and the scheduler compute are rows.
LEMMA RowValues ==
  ASSUME NEW r \in Row
  PROVE  /\ AfterSuccess(r) \in Row
         /\ \A k \in Attempts : AfterFailure(r, k) \in Row
         /\ \A k \in Attempts : Queued(k) \in Row
         /\ AfterPoll(r) \in Row
  <1>1. \A s \in Statuses : Closed(r, s) \in Row
    BY DEF Row, Closed
  <1>2. \A k \in Attempts : Queued(k) \in Row
    BY DEF Row, Statuses, Queued
  <1>3. \A k \in Attempts : AfterFailure(r, k) \in Row
    BY <1>1 DEF Row, Statuses, AfterFailure
  <1>4. ~Exhausted(r) => r.attempt + 1 \in Attempts
    BY LimitsAssumption DEF Row, Exhausted, Attempts
  <1>5. AfterPoll(r) \in Row
    BY <1>1, <1>2, <1>4 DEF AfterPoll, Statuses
  <1>6. AfterSuccess(r) \in Row
    BY <1>1 DEF AfterSuccess, Statuses
  <1> QED
    BY <1>2, <1>3, <1>5, <1>6

LEMMA WriteType ==
  ASSUME TypeOK, NEW d \in Delivery, NEW v \in Row, Write(d, v)
  PROVE  /\ row' \in [Delivery -> Row]
         /\ outbox' \subseteq OutboxRow
         /\ txns' \in Nat
         /\ unrecorded' \subseteq Delivery
  BY DEF TypeOK, Write

LEMMA WriteFailureType ==
  ASSUME TypeOK, NEW m \in DOMAIN stream, WriteFailure(m)
  PROVE  /\ row' \in [Delivery -> Row]
         /\ outbox' \subseteq OutboxRow
         /\ txns' \in Nat
         /\ unrecorded' \subseteq Delivery
  <1>1. stream[m] \in Job
    BY DEF TypeOK
  <1>2. stream[m].d \in Delivery /\ stream[m].attempt \in Attempts
    BY <1>1 DEF Job
  <1>3. row[stream[m].d] \in Row
    BY <1>2 DEF TypeOK
  <1> QED
    BY <1>2, <1>3, RowValues, WriteType DEF WriteFailure
\* The entries of a batch are jobs.
LEMMA EntryType ==
  ASSUME TypeOK, PositionsOK, NEW w \in Worker, NEW m \in batch[w]
  PROVE  /\ m \in DOMAIN stream
         /\ stream[m] \in Job
         /\ stream[m].d \in Delivery
         /\ stream[m].attempt \in Attempts
         /\ row[stream[m].d] \in Row
  <1>1. m \in 1 .. Len(stream)
    BY DEF TypeOK, PositionsOK
  <1>2. m \in DOMAIN stream /\ stream[m] \in Job
    BY <1>1 DEF TypeOK
  <1>3. stream[m].d \in Delivery /\ stream[m].attempt \in Attempts
    BY <1>2 DEF Job
  <1> QED
    BY <1>2, <1>3 DEF TypeOK

\* XREADGROUP delivers positions of the stream after the cursor.
LEMMA ReadRange ==
  ASSUME TypeOK, PositionsOK
  PROVE  /\ LastOfRead \in Nat
         /\ cursor <= LastOfRead
         /\ LastOfRead <= Len(stream)
         /\ cursor + 1 .. LastOfRead \subseteq 1 .. LastOfRead
         /\ cursor + 1 .. LastOfRead \subseteq Nat
         /\ 1 .. cursor \subseteq 1 .. LastOfRead
  <1>1. cursor \in Nat /\ Len(stream) \in Nat /\ BatchSize \in Nat /\ cursor <= Len(stream)
    BY LimitsAssumption DEF TypeOK, PositionsOK
  <1>2. LastOfRead \in Nat /\ cursor <= LastOfRead /\ LastOfRead <= Len(stream)
    BY <1>1 DEF LastOfRead
  <1> QED
    BY <1>1, <1>2

LEMMA TypeStep ==
  ASSUME TypeOK, PositionsOK, [Next]_vars
  PROVE  TypeOK'
  <1> USE DEF db, pubs, redis, workers, bounds
  <1>1. ASSUME NEW S \in SUBSET Delivery, Ingest(S)
        PROVE  TypeOK'
    <2>1. Queued(1) \in Row /\ \A d \in S, t \in Starts : Insert(d, 1, t) \in OutboxRow
      <3>1. 1 \in Attempts /\ txns \in Nat
        BY LimitsAssumption DEF Attempts, TypeOK
      <3> QED
        BY <3>1, RowValues, InsertedRow DEF Queued, Row, Statuses
    <2> QED
      BY <1>1, <2>1 DEF Ingest, TypeOK
  <1>2. ASSUME NEW d \in Delivery, Replay(d)
        PROVE  TypeOK'
    <2>1. Queued(1) \in Row /\ \A t \in Starts : Insert(d, 1, t) \in OutboxRow
      BY LimitsAssumption, InsertedRow DEF Queued, Row, Statuses, Attempts, TypeOK
    <2> QED
      BY <1>2, <2>1, BoundsAssumption DEF Replay, TypeOK
  <1>3. ASSUME NEW d \in Delivery, BackoffElapses(d)
        PROVE  TypeOK'
    <2>1. [row[d] EXCEPT !.retry = "due"] \in Row
      BY DEF TypeOK, Row
    <2> QED
      BY <1>3, <2>1 DEF BackoffElapses, TypeOK
  <1>4. ASSUME NEW S \in SUBSET Due, Poll(S)
        PROVE  TypeOK'
    <2>1. \A d \in Delivery : AfterPoll(row[d]) \in Row
      BY RowValues DEF TypeOK
    <2>2. \A d \in Delivery, t \in Starts :
             ~Exhausted(row[d]) => Insert(d, row[d].attempt + 1, t) \in OutboxRow
      <3>1. \A d \in Delivery : ~Exhausted(row[d]) => row[d].attempt + 1 \in Attempts
        BY LimitsAssumption DEF Exhausted, TypeOK, Row, Attempts
      <3> QED
        BY <3>1, InsertedRow DEF TypeOK
    <2>3. row' \in [Delivery -> Row]
      BY <1>4, <2>1 DEF Poll, TypeOK
    <2>4. outbox' \subseteq OutboxRow
      BY <1>4, <2>2 DEF Poll, Due, TypeOK
    <2> QED
      BY <1>4, <2>3, <2>4 DEF Poll, TypeOK
  <1>5. ASSUME NEW p \in Publisher, PublisherStep(p) \/ PublisherFailure(p)
        PROVE  TypeOK'
    <2>1. CASE DrainBegin(p)
      BY <2>1 DEF DrainBegin, TypeOK
    <2>2. ASSUME NEW r \in claimed[p]
          PROVE  JobOf(r) \in Job /\ r \in OutboxRow /\ Append(stream, JobOf(r)) \in Seq(Job)
      BY DEF JobOf, Job, OutboxRow, TypeOK
    <2>3. CASE DrainPublish(p)
      BY <2>2, <2>3 DEF DrainPublish, TypeOK
    <2>4. CASE DrainCommit(p)
      BY <2>4 DEF DrainCommit, DrainEnds, TypeOK
    <2>5. CASE DrainPublishFails(p)
      <3>1. stream' \in Seq(Job)
        BY <2>2, <2>5 DEF DrainPublishFails, TypeOK
      <3> QED
        BY <2>5, <3>1, FaultType DEF DrainPublishFails, TypeOK
    <2>6. CASE DrainAborts(p)
      BY <2>6, BoundsAssumption DEF DrainAborts, DrainEnds, TypeOK
    <2> QED
      BY <1>5, <2>1, <2>3, <2>4, <2>5, <2>6 DEF PublisherStep, PublisherFailure
  <1>6. ASSUME NEW w \in Worker, WorkerStep(w)
        PROVE  TypeOK'
    <2>1. CASE AutoClaim(w)
      BY <2>1 DEF AutoClaim, Receive, FirstEntries, TypeOK
    <2>2. CASE ReadNew(w)
      BY <2>2, ReadRange DEF ReadNew, Deliver, Receive, TypeOK
    <2>3. CASE Preflight(w)
      BY <2>3 DEF Preflight, Goto, TypeOK
    <2>4. CASE GateWrite(w)
      BY <2>4, EntryType, WriteFailureType DEF GateWrite, Goto, TypeOK
    <2>5. CASE Post(w)
      BY <2>5 DEF Post, Goto, TypeOK
    <2>6. CASE RecordSuccess(w)
      BY <2>6, EntryType, RowValues, WriteType DEF RecordSuccess, Goto, TypeOK
    <2>7. CASE RecordFailure(w)
      BY <2>7, EntryType, WriteFailureType DEF RecordFailure, Goto, TypeOK
    <2>8. CASE Ack(w)
      BY <2>8 DEF Ack, TypeOK
    <2>9. CASE AckThenThrow(w)
      BY <2>9, EntryType DEF AckThenThrow, LeaveBatch, TypeOK
    <2> QED
      BY <1>6, <2>1, <2>2, <2>3, <2>4, <2>5, <2>6, <2>7, <2>8, <2>9 DEF WorkerStep
  <1>7. ASSUME NEW w \in Worker, WorkerFailure(w)
        PROVE  TypeOK'
    <2>1. CASE ReadReplyLost(w)
      BY <2>1, ReadRange, FaultType
      DEF ReadReplyLost, Deliver, Receive, TypeOK
    <2>2. CASE RecordSuccessThrows(w)
      BY <2>2, EntryType, RowValues, WriteType, FaultType DEF RecordSuccessThrows, Goto, TypeOK
    <2>3. CASE RecordFailureThrows(w)
      BY <2>3, EntryType, WriteFailureType, FaultType DEF RecordFailureThrows, Goto, TypeOK
    <2>4. CASE LoopError(w)
      BY <2>4, FaultType DEF LoopError, LeaveBatch, TypeOK
    <2>5. CASE WorkerCrash(w)
      BY <2>5, BoundsAssumption DEF WorkerCrash, LeaveBatch, TypeOK
    <2>6. CASE AutoClaimThrows(w)
      BY <2>6, FaultType DEF AutoClaimThrows, Receive, FirstEntries, TypeOK
    <2> QED
      BY <1>7, <2>1, <2>2, <2>3, <2>4, <2>5, <2>6 DEF WorkerFailure
  <1>8. CASE Idle \/ Slow
    <2>1. CASE Idle
      BY <2>1 DEF Idle, StrandedIdle, TypeOK
    <2>2. CASE Slow
      BY <2>2, BoundsAssumption DEF Slow, SlowIdle, TypeOK
    <2> QED
      BY <1>8, <2>1, <2>2
  <1>9. CASE UNCHANGED vars
    BY <1>9 DEF vars, TypeOK
  <1> QED
    BY <1>1, <1>2, <1>3, <1>4, <1>5, <1>6, <1>7, <1>8, <1>9 DEF Next, API, Scheduler

-----------------------------------------------------------------------------
(* Positions, locks and timers                                             *)

LEMMA PositionsStep ==
  ASSUME TypeOK, PositionsOK, [Next]_vars
  PROVE  PositionsOK'
  <1> USE DEF db, pubs, redis, workers, bounds
  <1>1. ASSUME UNCHANGED <<stream, cursor, pel, stale, batch>>
        PROVE  PositionsOK'
    BY <1>1 DEF PositionsOK
  <1>2. ASSUME NEW p \in Publisher, PublisherStep(p) \/ PublisherFailure(p)
        PROVE  PositionsOK'
    <2>1. ASSUME NEW j, stream' = Append(stream, j), UNCHANGED <<cursor, pel, stale, batch>>
          PROVE  PositionsOK'
      <3>1. Len(stream') = Len(stream) + 1
        BY <2>1 DEF TypeOK
      <3> QED
        BY <2>1, <3>1 DEF PositionsOK, TypeOK
    <2>2. CASE DrainPublish(p)
      BY <2>1, <2>2 DEF DrainPublish
    <2>3. CASE DrainPublishFails(p)
      BY <1>1, <2>1, <2>3 DEF DrainPublishFails
    <2>4. CASE DrainBegin(p) \/ DrainCommit(p) \/ DrainAborts(p)
      BY <1>1, <2>4 DEF DrainBegin, DrainCommit, DrainAborts
    <2> QED
      BY <1>2, <2>2, <2>3, <2>4 DEF PublisherStep, PublisherFailure
  <1>3. ASSUME NEW w \in Worker, WorkerStep(w) \/ WorkerFailure(w)
        PROVE  PositionsOK'
    <2>1. CASE AutoClaim(w) \/ AutoClaimThrows(w)
      <3>1. CASE AutoClaim(w)
        BY <3>1 DEF AutoClaim, Receive, FirstEntries, PositionsOK, TypeOK
      <3>2. CASE AutoClaimThrows(w)
        <4>1. UNCHANGED <<stream, cursor, pel>> /\ stale' \subseteq stale
          BY <3>2 DEF AutoClaimThrows
        <4>2. batch' = [batch EXCEPT ![w] = {}]
          BY <3>2 DEF AutoClaimThrows, Receive
        <4> QED
          BY <4>1, <4>2 DEF PositionsOK, TypeOK
      <3> QED
        BY <2>1, <3>1, <3>2
    <2>2. CASE ReadNew(w) \/ ReadReplyLost(w)
      <3>1. \A v \in Worker : batch'[v] \subseteq 1 .. LastOfRead
        BY <2>2, ReadRange DEF ReadNew, ReadReplyLost, Receive, PositionsOK, TypeOK
      <3>2. pel' \subseteq 1 .. LastOfRead /\ stale' \subseteq pel' /\ cursor' = LastOfRead
        BY <2>2, ReadRange DEF ReadNew, ReadReplyLost, Deliver, PositionsOK, TypeOK
      <3>3. cursor' <= Len(stream')
        BY <2>2, ReadRange DEF ReadNew, ReadReplyLost, Deliver
      <3> QED
        BY <3>1, <3>2, <3>3 DEF PositionsOK
    <2>3. CASE Ack(w)
      BY <2>3 DEF Ack, PositionsOK, TypeOK
    <2>4. CASE AckThenThrow(w)
      BY <2>4 DEF AckThenThrow, LeaveBatch, PositionsOK, TypeOK
    <2>5. CASE LoopError(w) \/ WorkerCrash(w)
      BY <2>5 DEF LoopError, WorkerCrash, LeaveBatch, PositionsOK, TypeOK
    <2>6. CASE \/ Preflight(w) \/ GateWrite(w) \/ Post(w) \/ RecordSuccess(w) \/ RecordFailure(w)
               \/ RecordSuccessThrows(w) \/ RecordFailureThrows(w)
      BY <1>1, <2>6 DEF Preflight, GateWrite, Post, RecordSuccess, RecordFailure,
                        RecordSuccessThrows, RecordFailureThrows, Goto
    <2> QED
      BY <1>3, <2>1, <2>2, <2>3, <2>4, <2>5, <2>6 DEF WorkerStep, WorkerFailure
  <1>4. CASE Idle \/ Slow
    BY <1>4 DEF Idle, Slow, StrandedIdle, SlowIdle, PositionsOK, TypeOK
  <1>5. CASE API \/ Scheduler
    BY <1>1, <1>5 DEF API, Scheduler, Ingest, Replay, BackoffElapses, Poll
  <1>6. CASE UNCHANGED vars
    BY <1>1, <1>6 DEF vars
  <1> QED
    BY <1>2, <1>3, <1>4, <1>5, <1>6 DEF Next

\* An inserted outbox row commits after every row, so no publisher holds it.
LEMMA LocksStep ==
  ASSUME TypeOK, LocksOK, [Next]_vars
  PROVE  LocksOK'
  <1> USE DEF db, pubs, redis, workers, bounds
  <1>1. ASSUME UNCHANGED <<outbox, txns, drain, claimed, sent>>
        PROVE  LocksOK'
    BY <1>1 DEF LocksOK
  <1>2. ASSUME outbox \subseteq outbox',
               \A r \in outbox' \ outbox : r.txn = txns + 1 /\ r.began \in 0 .. txns,
               txns' = txns + 1, UNCHANGED <<drain, claimed, sent>>
        PROVE  LocksOK'
    <2>1. \A r \in outbox : r.txn \in Nat
      BY DEF TypeOK, OutboxRow
    <2>2. \A r \in outbox' : r.txn <= txns' /\ r.began < r.txn
      BY <1>2, <2>1 DEF LocksOK, TypeOK
    <2> QED
      BY <1>2, <2>2 DEF LocksOK
  <1>3. CASE API \/ Scheduler
    <2>1. ASSUME NEW S \in SUBSET Delivery, Ingest(S)
          PROVE  LocksOK'
      BY <1>2, <2>1 DEF Ingest, Insert, Starts
    <2>2. ASSUME NEW d \in Delivery, Replay(d)
          PROVE  LocksOK'
      BY <1>2, <2>2 DEF Replay, Insert, Starts
    <2>3. ASSUME NEW S \in SUBSET Due, Poll(S)
          PROVE  LocksOK'
      BY <1>2, <2>3 DEF Poll, Insert, Starts
    <2>4. ASSUME NEW d \in Delivery, BackoffElapses(d)
          PROVE  LocksOK'
      BY <1>1, <2>4 DEF BackoffElapses
    <2> QED
      BY <1>3, <2>1, <2>2, <2>3, <2>4 DEF API, Scheduler
  <1>4. ASSUME NEW p \in Publisher, PublisherStep(p) \/ PublisherFailure(p)
        PROVE  LocksOK'
    <2>1. CASE DrainBegin(p)
      <3>1. PICK S \in SUBSET (outbox \ Locked) : claimed' = [claimed EXCEPT ![p] = S]
        BY <2>1 DEF DrainBegin
      <3>2. \A q \in Publisher : S \intersect claimed[q] = {}
        BY DEF Locked
      <3> QED
        BY <2>1, <3>1, <3>2 DEF DrainBegin, LocksOK, TypeOK
    <2>2. CASE DrainPublish(p)
      BY <2>2 DEF DrainPublish, LocksOK, TypeOK
    <2>3. CASE DrainPublishFails(p)
      BY <2>3 DEF DrainPublishFails, LocksOK, TypeOK
    <2>4. CASE DrainCommit(p)
      BY <2>4 DEF DrainCommit, DrainEnds, LocksOK, TypeOK
    <2>5. CASE DrainAborts(p)
      BY <2>5 DEF DrainAborts, DrainEnds, LocksOK, TypeOK
    <2> QED
      BY <1>4, <2>1, <2>2, <2>3, <2>4, <2>5 DEF PublisherStep, PublisherFailure
  <1>5. ASSUME NEW w \in Worker, WorkerStep(w) \/ WorkerFailure(w)
        PROVE  LocksOK'
    BY <1>1, <1>5 DEF WorkerStep, WorkerFailure, AutoClaim, ReadNew, Preflight, GateWrite,
         Post, RecordSuccess, RecordFailure, Ack, AckThenThrow, AutoClaimThrows, ReadReplyLost,
         RecordSuccessThrows, RecordFailureThrows, LoopError, WorkerCrash,
         Write, WriteFailure
  <1>6. CASE Idle \/ Slow \/ UNCHANGED vars
    BY <1>1, <1>6 DEF Idle, Slow, StrandedIdle, SlowIdle, vars
  <1> QED
    BY <1>3, <1>4, <1>5, <1>6 DEF Next

LEMMA TimersStep ==
  ASSUME TypeOK, PositionsOK, TimersOK, [Next]_vars
  PROVE  TimersOK'
  <1> USE DEF db, pubs, redis, workers, bounds
  <1>1. ASSUME UNCHANGED row
        PROVE  TimersOK'
    BY <1>1 DEF TimersOK
  <1>2. \A k : Queued(k).retry = "null"
    BY DEF Queued
  <1>3. \A r, s : Closed(r, s).retry = "null"
    BY DEF Closed
  <1>4. ASSUME NEW S \in SUBSET Delivery, Ingest(S)
        PROVE  TimersOK'
    BY <1>2, <1>4 DEF Ingest, TimersOK, TypeOK
  <1>5. ASSUME NEW d \in Delivery, Replay(d)
        PROVE  TimersOK'
    BY <1>2, <1>5 DEF Replay, TimersOK, TypeOK
  <1>6. ASSUME NEW d \in Delivery, BackoffElapses(d)
        PROVE  TimersOK'
    BY <1>6 DEF BackoffElapses, TimersOK, TypeOK, Row
  <1>7. ASSUME NEW S \in SUBSET Due, Poll(S)
        PROVE  TimersOK'
    <2>1. \A d \in Delivery : AfterPoll(row[d]).retry = "null"
      BY <1>2, <1>3 DEF AfterPoll
    <2> QED
      BY <1>7, <2>1 DEF Poll, TimersOK, TypeOK
  <1>8. ASSUME NEW w \in Worker, NEW m \in batch[w], WriteFailure(m)
        PROVE  TimersOK'
    <2>1. stream[m].d \in Delivery /\ stream[m].attempt \in Attempts
      BY EntryType
    <2>2. LET v == AfterFailure(row[stream[m].d], stream[m].attempt) IN
          v.retry # "null" => v.status = "RETRYING" /\ v.attempt < MaxRetries
      BY <1>3, <2>1 DEF AfterFailure
    <2> QED
      BY <1>8, <2>1, <2>2 DEF WriteFailure, Write, TimersOK, TypeOK
  <1>9. ASSUME NEW w \in Worker, NEW m \in batch[w],
               Write(stream[m].d, AfterSuccess(row[stream[m].d]))
        PROVE  TimersOK'
    BY <1>3, <1>9, EntryType DEF Write, AfterSuccess, TimersOK, TypeOK
  <1>10. ASSUME NEW w \in Worker, WorkerStep(w) \/ WorkerFailure(w)
         PROVE  TimersOK'
    BY <1>1, <1>8, <1>9, <1>10 DEF WorkerStep, WorkerFailure, AutoClaim, ReadNew, Preflight,
         GateWrite, Post, RecordSuccess, RecordFailure, Ack, AckThenThrow, AutoClaimThrows, ReadReplyLost,
         RecordSuccessThrows, RecordFailureThrows, LoopError, WorkerCrash
  <1>11. ASSUME NEW p \in Publisher, PublisherStep(p) \/ PublisherFailure(p)
         PROVE  TimersOK'
    BY <1>1, <1>11 DEF PublisherStep, PublisherFailure, DrainBegin, DrainPublish, DrainCommit,
         DrainPublishFails, DrainAborts
  <1>12. CASE Idle \/ Slow \/ UNCHANGED vars
    BY <1>1, <1>12 DEF Idle, Slow, StrandedIdle, SlowIdle, vars
  <1> QED
    BY <1>4, <1>5, <1>6, <1>7, <1>10, <1>11, <1>12 DEF Next, API, Scheduler

-----------------------------------------------------------------------------
(* Carriers: the job of a pending delivery survives every step             *)

\* A worker stands at one entry of its batch.
LEMMA CurrentUnique ==
  ASSUME TypeOK, NEW w \in Worker, NEW m, NEW n, Current(w, m), Current(w, n)
  PROVE  m = n
  BY DEF TypeOK, Current

\* A pending row is the row its job was queued with.
LEMMA PendingRow ==
  ASSUME TypeOK, NEW d \in Delivery, Pending(d)
  PROVE  row[d] = Queued(row[d].attempt)
  BY DEF TypeOK, Row, Pending, Queued

\* Safe carriers stay safe when the step deletes only sent rows and
\* acknowledges only spent entries.
LEMMA CarriersKept ==
  ASSUME CarriersOK, UNCHANGED row, unrecorded \subseteq unrecorded',
         \A r \in outbox : (\A p \in Publisher : r \notin sent[p]) =>
             r \in outbox' /\ \A p \in Publisher : r \notin sent'[p],
         \A m \in Live : ~Spent(m) => m \in Live' /\ ~Spent(m)' /\ stream'[m] = stream[m]
  PROVE  CarriersOK'
  <1>1. \A j : SafelyCarried(j) => SafelyCarried(j)'
    BY DEF SafelyCarried, JobOf
  <1>2. \A d \in Delivery : Pending(d)' = Pending(d) /\ CurrentJob(d)' = CurrentJob(d)
    BY DEF Pending, CurrentJob
  <1> QED
    BY <1>1, <1>2 DEF CarriersOK

\* A transaction that queues the deliveries of S gives each of them an outbox
\* row no publisher has seen.
LEMMA QueuedCarried ==
  ASSUME TypeOK, LocksOK, CarriersOK, NEW S \in SUBSET Delivery,
         \A d \in Delivery \ S : row'[d] = row[d],
         NEW t, \A d \in S : Pending(d)' => Insert(d, row'[d].attempt, t) \in outbox',
         outbox \subseteq outbox', unrecorded \subseteq unrecorded' \union S,
         UNCHANGED <<sent, redis, workers>>
  PROVE  CarriersOK'
  <1> SUFFICES ASSUME NEW d \in Delivery, Pending(d)', d \notin unrecorded'
               PROVE  SafelyCarried(CurrentJob(d))'
    BY DEF CarriersOK
  <1>1. CASE d \in S
    <2> DEFINE r == Insert(d, row'[d].attempt, t)
    <2>1. r \in outbox' /\ JobOf(r) = CurrentJob(d)' /\ r.txn = txns + 1
      BY <1>1 DEF Insert, JobOf, CurrentJob
    <2>2. \A p \in Publisher : r \notin sent[p]
      BY <2>1 DEF LocksOK, TypeOK
    <2> QED
      BY <2>1, <2>2 DEF SafelyCarried, JobOf
  <1>2. CASE d \notin S
    <2>1. Pending(d) /\ CurrentJob(d)' = CurrentJob(d) /\ d \notin unrecorded
      BY <1>2 DEF Pending, CurrentJob
    <2>2. SafelyCarried(CurrentJob(d))
      BY <2>1 DEF CarriersOK
    <2>3. Live' = Live /\ stream' = stream /\ \A m : Spent(m)' = Spent(m)
      BY DEF Live, Unread, Spent, Current, redis, workers
    <2> QED
      BY <2>1, <2>2, <2>3 DEF SafelyCarried, JobOf
  <1> QED
    BY <1>1, <1>2

\* Writing an outcome takes the delivery out of the pending ones, and makes
\* only its own job a spent one.
LEMMA WriteCarried ==
  ASSUME TypeOK, PositionsOK, CarriersOK, NEW w \in Worker, NEW m \in batch[w], Current(w, m),
         NEW v \in Row, v.status # "RETRYING" \/ v.retry # "null", Write(stream[m].d, v),
         UNCHANGED <<pubs, redis, resume, batch>>,
         \A u \in Worker : u # w => pc'[u] = pc[u]
  PROVE  CarriersOK'
  <1> SUFFICES ASSUME NEW d \in Delivery, Pending(d)', d \notin unrecorded'
               PROVE  SafelyCarried(CurrentJob(d))'
    BY DEF CarriersOK
  <1>1. stream[m].d \in Delivery
    BY EntryType
  <1>2. d # stream[m].d
    BY <1>1 DEF Write, Pending, TypeOK
  <1>3. Pending(d) /\ CurrentJob(d)' = CurrentJob(d) /\ d \notin unrecorded
    BY <1>1, <1>2 DEF Write, Pending, CurrentJob, TypeOK
  <1>4. SafelyCarried(CurrentJob(d))
    BY <1>3 DEF CarriersOK
  <1>5. ASSUME NEW n \in Live, stream[n] = CurrentJob(d), ~Spent(n)
        PROVE  ~Spent(n)'
    <2>1. n # m
      BY <1>2, <1>5 DEF CurrentJob
    <2>2. ~Current(w, n)
      BY <2>1, CurrentUnique
    <2>3. \A u \in Worker : Current(u, n)' = Current(u, n)
      BY DEF Current
    <2> QED
      BY <1>5, <2>2, <2>3 DEF Spent
  <1>6. Live' = Live /\ stream' = stream
    BY DEF Live, Unread, redis
  <1> QED
    BY <1>3, <1>4, <1>5, <1>6 DEF SafelyCarried, JobOf, Write, pubs

\* A publisher that appends the job of one of its rows replaces the row by an
\* unread entry as the safe carrier.
LEMMA PublishCarried ==
  ASSUME TypeOK, PositionsOK, CarriersOK, NEW p \in Publisher, DrainPublish(p)
  PROVE  CarriersOK'
  <1> USE DEF db, workers, bounds
  <1>1. PICK r \in claimed[p] : /\ stream' = Append(stream, JobOf(r))
                                /\ sent' = [sent EXCEPT ![p] = @ \union {r}]
    BY DEF DrainPublish
  <1>2. Len(stream) \in Nat /\ stream \in Seq(Job)
    BY DEF TypeOK
  <1> DEFINE n == Len(stream) + 1
  <1>3. Len(stream') = n /\ stream'[n] = JobOf(r) /\ \A m \in 1 .. Len(stream) : stream'[m] = stream[m]
    BY <1>1, <1>2
  <1>4. n \in Live' /\ Live \subseteq Live' /\ Live \subseteq 1 .. Len(stream)
    <2>1. cursor \in Nat /\ cursor <= Len(stream) /\ pel \subseteq 1 .. cursor
      BY DEF PositionsOK, TypeOK
    <2>2. Live = (cursor + 1 .. Len(stream)) \union pel
      BY DEF Live, Unread
    <2>3. Live' = (cursor + 1 .. n) \union pel
      BY <1>3 DEF DrainPublish, Live, Unread
    <2> QED
      <3>1. n \in Live'
        BY <1>2, <2>1, <2>3
      <3>2. \A m \in Live : m \in Live' /\ m \in 1 .. Len(stream)
        BY <1>2, <2>1, <2>2, <2>3
      <3> QED
        BY <3>1, <3>2
  <1>5. \A m : Spent(m)' = Spent(m)
    BY DEF DrainPublish, Spent, Current
  <1>6. ~Spent(n)
    BY <1>2 DEF Spent, Current, PositionsOK, TypeOK
  <1>7. \A q \in outbox : q # r /\ (\A u \in Publisher : q \notin sent[u])
                             => \A u \in Publisher : q \notin sent'[u]
    BY <1>1 DEF TypeOK
  <1>8. \A j : SafelyCarried(j) => SafelyCarried(j)'
    <2> TAKE j
    <2> SUFFICES ASSUME SafelyCarried(j) PROVE SafelyCarried(j)'
      OBVIOUS
    <2>1. CASE \E m \in Live : stream[m] = j /\ ~Spent(m)
      BY <2>1, <1>3, <1>4, <1>5 DEF SafelyCarried
    <2>2. CASE \E q \in outbox : JobOf(q) = j /\ \A u \in Publisher : q \notin sent[u]
      <3>1. PICK q \in outbox : JobOf(q) = j /\ \A u \in Publisher : q \notin sent[u]
        BY <2>2
      <3>2. CASE q = r
        BY <3>1, <3>2, <1>3, <1>4, <1>5, <1>6 DEF SafelyCarried
      <3>3. CASE q # r
        BY <3>1, <3>3, <1>7 DEF SafelyCarried, DrainPublish, JobOf
      <3> QED
        BY <3>2, <3>3
    <2> QED
      BY <2>1, <2>2 DEF SafelyCarried
  <1>9. \A d \in Delivery : Pending(d)' = Pending(d) /\ CurrentJob(d)' = CurrentJob(d)
    BY DEF Pending, CurrentJob, DrainPublish
  <1> QED
    BY <1>8, <1>9 DEF CarriersOK, DrainPublish

\* Acknowledging the entry m that worker w stands at removes nothing but m.
LEMMA AckCarried ==
  ASSUME TypeOK, PositionsOK, CarriersOK, NEW w \in Worker, NEW m \in batch[w], Current(w, m),
         pel' = pel \ {m}, UNCHANGED <<row, outbox, sent, stream, cursor>>,
         \A u \in Worker : u # w => pc'[u] = pc[u] /\ batch'[u] = batch[u],
         pc'[w] # "ack", unrecorded \subseteq unrecorded',
         \/ pc[w] = "ack"
         \/ Pending(stream[m].d) /\ stream[m] = CurrentJob(stream[m].d)
               => stream[m].d \in unrecorded'
  PROVE  CarriersOK'
  <1> SUFFICES ASSUME NEW d \in Delivery, Pending(d)', d \notin unrecorded'
               PROVE  SafelyCarried(CurrentJob(d))'
    BY DEF CarriersOK
  <1>1. Pending(d) /\ CurrentJob(d)' = CurrentJob(d) /\ d \notin unrecorded
    BY DEF Pending, CurrentJob
  <1>2. SafelyCarried(CurrentJob(d))
    BY <1>1 DEF CarriersOK
  <1>3. ASSUME NEW n \in Live, stream[n] = CurrentJob(d), ~Spent(n)
        PROVE  n \in Live' /\ ~Spent(n)'
    <2>1. n # m
      <3>1. CASE pc[w] = "ack"
        BY <1>3, <3>1 DEF Spent
      <3>2. CASE Pending(stream[m].d) /\ stream[m] = CurrentJob(stream[m].d)
                    => stream[m].d \in unrecorded'
        BY <1>1, <1>3, <3>2 DEF CurrentJob
      <3> QED
        BY <3>1, <3>2
    <2>2. n \in Live'
      BY <2>1 DEF Live, Unread
    <2> QED
      BY <1>3, <2>2 DEF Spent, Current
  <1> QED
    BY <1>1, <1>2, <1>3 DEF SafelyCarried, JobOf

LEMMA CarriersStep ==
  ASSUME TypeOK, PositionsOK, LocksOK, TimersOK, CarriersOK, [Next]_vars
  PROVE  CarriersOK'
  <1> USE DEF db, bounds
  <1>1. ASSUME NEW S \in SUBSET Delivery, Ingest(S)
        PROVE  CarriersOK'
    <2>1. \A d \in S : row'[d] = Queued(1)
      BY <1>1 DEF Ingest
    <2>2. PICK t \in Starts : \A d \in S : Insert(d, 1, t) \in outbox'
      BY <1>1 DEF Ingest
    <2>3. \A d \in S : row'[d].attempt = 1
      BY <2>1 DEF Queued
    <2> QED
      BY <1>1, <2>2, <2>3, QueuedCarried DEF Ingest, pubs
  <1>2. ASSUME NEW d \in Delivery, Replay(d)
        PROVE  CarriersOK'
    <2>1. PICK t \in Starts : Insert(d, 1, t) \in outbox'
      BY <1>2 DEF Replay
    <2>4. row'[d].attempt = 1
      BY <1>2 DEF Replay, Queued, TypeOK
    <2>5. \A e \in {d} : Insert(e, row'[e].attempt, t) \in outbox'
      BY <2>1, <2>4
    <2>6. UNCHANGED <<sent, redis, workers>> /\ {d} \in SUBSET Delivery
      BY <1>2 DEF Replay, pubs
    <2>2. \A e \in Delivery \ {d} : row'[e] = row[e]
      BY <1>2 DEF Replay, TypeOK
    <2>3. outbox \subseteq outbox' /\ unrecorded \subseteq unrecorded' \union {d}
      BY <1>2 DEF Replay
    <2> QED
      BY <2>2, <2>3, <2>5, <2>6, QueuedCarried
  <1>3. ASSUME NEW S \in SUBSET Due, Poll(S)
        PROVE  CarriersOK'
    <2>1. \A d \in S : row'[d] = AfterPoll(row[d])
      BY <1>3 DEF Poll, Due
    <2>6. PICK t \in Starts : outbox' = outbox \union
             {Insert(d, row[d].attempt + 1, t) : d \in {e \in S : ~Exhausted(row[e])}}
      BY <1>3 DEF Poll
    <2>2. ASSUME NEW d \in S, Pending(d)'
          PROVE  Insert(d, row'[d].attempt, t) \in outbox'
      <3>1. ~Exhausted(row[d])
        <4>1. Closed(row[d], "DEAD_LETTER").status = "DEAD_LETTER"
          BY DEF Closed
        <4>2. row'[d].status = "RETRYING"
          BY <2>2 DEF Pending
        <4> QED
          BY <2>1, <4>1, <4>2 DEF AfterPoll
      <3>2. row'[d].attempt = row[d].attempt + 1
        <4>1. row'[d] = Queued(row[d].attempt + 1)
          BY <2>1, <3>1 DEF AfterPoll
        <4> QED
          BY <4>1 DEF Queued
      <3> QED
        BY <2>6, <3>1, <3>2
    <2>3. \A e \in Delivery \ S : row'[e] = row[e]
      BY <1>3 DEF Poll
    <2>4. /\ outbox \subseteq outbox' /\ unrecorded \subseteq unrecorded' \union S
          /\ UNCHANGED <<sent, redis, workers>>
      BY <1>3 DEF Poll, pubs
    <2>5. S \in SUBSET Delivery
      BY DEF Due
    <2> QED
      BY <2>2, <2>3, <2>4, <2>5, QueuedCarried
  <1>4. ASSUME NEW d \in Delivery, BackoffElapses(d)
        PROVE  CarriersOK'
    <2>1. /\ \A e \in Delivery : Pending(e)' = Pending(e)
          /\ \A e \in Delivery : CurrentJob(e)' = CurrentJob(e)
      BY <1>4 DEF BackoffElapses, Pending, CurrentJob, TypeOK, Row
    <2>2. \A j : SafelyCarried(j)' = SafelyCarried(j)
      BY <1>4 DEF BackoffElapses, SafelyCarried, JobOf, Live, Unread, Spent, Current, pubs, redis, workers
    <2> QED
      BY <1>4, <2>1, <2>2 DEF BackoffElapses, CarriersOK
  <1>5. ASSUME NEW p \in Publisher, PublisherStep(p) \/ PublisherFailure(p)
        PROVE  CarriersOK'
    <2>1. CASE DrainPublish(p)
      BY <2>1, PublishCarried
    <2>2. CASE DrainPublishFails(p)
      <3>1. PICK j : stream' = stream \/ stream' = Append(stream, j)
        BY <2>2 DEF DrainPublishFails
      <3>2. /\ \A m \in 1 .. Len(stream) : stream'[m] = stream[m]
            /\ Len(stream) <= Len(stream')
        BY <3>1 DEF TypeOK
      <3>3. Live \subseteq Live' /\ Live \subseteq 1 .. Len(stream)
        <4>1. /\ cursor \in Nat /\ cursor <= Len(stream) /\ pel \subseteq 1 .. cursor
              /\ Len(stream) \in Nat /\ Len(stream') \in Nat
          BY <3>1 DEF PositionsOK, TypeOK
        <4>2. UNCHANGED <<cursor, pel>>
          BY <2>2 DEF DrainPublishFails
        <4>3. /\ Live = (cursor + 1 .. Len(stream)) \union pel
              /\ Live' = (cursor + 1 .. Len(stream')) \union pel
          BY <4>2 DEF Live, Unread
        <4>4. \A m \in Live : m \in Live' /\ m \in 1 .. Len(stream)
          BY <3>2, <4>1, <4>3
        <4> QED
          BY <4>4
      <3>4. \A m : Spent(m)' = Spent(m)
        BY <2>2 DEF DrainPublishFails, Spent, Current, workers
      <3> QED
        BY <2>2, <3>2, <3>3, <3>4, CarriersKept DEF DrainPublishFails
    <2>3. CASE DrainBegin(p) \/ DrainCommit(p) \/ DrainAborts(p)
      <3>1. Live' = Live /\ stream' = stream /\ \A m : Spent(m)' = Spent(m)
        BY <2>3 DEF DrainBegin, DrainCommit, DrainAborts, Live, Unread, Spent, Current, redis, workers
      <3>2. UNCHANGED <<row, unrecorded>>
        BY <2>3 DEF DrainBegin, DrainCommit, DrainAborts
      <3>3. \A r \in outbox : (\A q \in Publisher : r \notin sent[q]) =>
              r \in outbox' /\ \A q \in Publisher : r \notin sent'[q]
        BY <2>3 DEF DrainBegin, DrainCommit, DrainAborts, DrainEnds, TypeOK
      <3> QED
        BY <3>1, <3>2, <3>3, CarriersKept
    <2> QED
      BY <1>5, <2>1, <2>2, <2>3 DEF PublisherStep, PublisherFailure
  <1>6. ASSUME NEW w \in Worker, WorkerStep(w) \/ WorkerFailure(w)
        PROVE  CarriersOK'
    <2>1. ASSUME UNCHANGED <<row, outbox, sent, stream, unrecorded>>, Live \subseteq Live',
                 \A u \in Worker : u # w => pc'[u] = pc[u] /\ batch'[u] = batch[u],
                 pc'[w] # "ack"
          PROVE  CarriersOK'
      <3>1. \A m : ~Spent(m) => ~Spent(m)'
        BY <2>1 DEF Spent, Current
      <3> QED
        BY <2>1, <3>1, CarriersKept
    <2>2. ASSUME Receive(w, batch'[w], "claim") \/ Receive(w, batch'[w], "read")
          PROVE  pc'[w] # "ack"
      BY <2>2 DEF Receive, TypeOK
    <2>3. CASE AutoClaim(w) \/ AutoClaimThrows(w)
      BY <2>1, <2>3 DEF AutoClaim, AutoClaimThrows, Fault, Receive, Live, Unread, pubs, TypeOK
    <2>4. CASE ReadNew(w) \/ ReadReplyLost(w)
      <3>1. cursor' = LastOfRead /\ pel' = pel \union (cursor + 1 .. LastOfRead) /\ stream' = stream
        BY <2>4 DEF ReadNew, ReadReplyLost, Deliver
      <3>2. Live \subseteq Live'
        BY <3>1, ReadRange DEF Live, Unread, TypeOK
      <3> QED
        BY <2>1, <2>4, <3>1, <3>2 DEF ReadNew, ReadReplyLost, Receive, pubs, TypeOK
    <2>5. CASE Preflight(w) \/ Post(w)
      BY <2>1, <2>5 DEF Preflight, Post, Goto, Live, Unread, pubs, redis, TypeOK
    <2>6. ASSUME NEW m \in batch[w], Current(w, m), WriteFailure(m),
                 UNCHANGED <<pubs, redis, resume, batch>>,
                 \A u \in Worker : u # w => pc'[u] = pc[u]
          PROVE  CarriersOK'
      <3> DEFINE v == AfterFailure(row[stream[m].d], stream[m].attempt)
      <3>1. v \in Row /\ (v.status # "RETRYING" \/ v.retry # "null")
        BY EntryType, RowValues DEF AfterFailure, Closed
      <3> QED
        BY <2>6, <3>1, WriteCarried DEF WriteFailure
    <2>7. ASSUME NEW m \in batch[w], Current(w, m),
                 Write(stream[m].d, AfterSuccess(row[stream[m].d])),
                 UNCHANGED <<pubs, redis, resume, batch>>,
                 \A u \in Worker : u # w => pc'[u] = pc[u]
          PROVE  CarriersOK'
      <3> DEFINE v == AfterSuccess(row[stream[m].d])
      <3>1. v \in Row /\ (v.status # "RETRYING" \/ v.retry # "null")
        BY EntryType, RowValues DEF AfterSuccess, Closed
      <3> QED
        BY <2>7, <3>1, WriteCarried
    <2>8. CASE GateWrite(w) \/ RecordFailure(w) \/ RecordSuccess(w)
      BY <2>6, <2>7, <2>8 DEF GateWrite, RecordFailure, RecordSuccess, Goto, TypeOK
    <2>9. CASE RecordSuccessThrows(w) \/ RecordFailureThrows(w)
      <3>1. CASE UNCHANGED <<row, unrecorded>>
        BY <2>1, <2>9, <3>1 DEF RecordSuccessThrows, RecordFailureThrows, Goto, Live, Unread,
             pubs, redis, Write, WriteFailure, TypeOK
      <3>2. CASE ~UNCHANGED <<row, unrecorded>>
        BY <2>6, <2>7, <2>9, <3>2 DEF RecordSuccessThrows, RecordFailureThrows, Goto, TypeOK
      <3> QED
        BY <3>1, <3>2
    <2>10. CASE Ack(w)
      <3>1. PICK m \in batch[w] :
              /\ Current(w, m) /\ pel' = pel \ {m}
              /\ pc' = [pc EXCEPT ![w] = IF batch[w] = {m} THEN resume[w] ELSE "fetch"]
              /\ batch' = [batch EXCEPT ![w] = @ \ {m}]
        BY <2>10 DEF Ack
      <3>2. /\ \A u \in Worker : u # w => pc'[u] = pc[u] /\ batch'[u] = batch[u]
            /\ pc'[w] # "ack"
        BY <3>1 DEF TypeOK
      <3>3. pc[w] = "ack" /\ UNCHANGED <<row, outbox, sent, stream, cursor, unrecorded>>
        BY <2>10 DEF Ack, pubs
      <3> QED
        BY <3>1, <3>2, <3>3, AckCarried
    <2>11. CASE AckThenThrow(w)
      <3>1. PICK m \in batch[w] :
              /\ Current(w, m) /\ pel' = pel \ {m}
              /\ unrecorded' = IF row[stream[m].d] = Queued(stream[m].attempt)
                               THEN unrecorded \union {stream[m].d} ELSE unrecorded
        BY <2>11 DEF AckThenThrow
      <3>2. /\ \A u \in Worker : u # w => pc'[u] = pc[u] /\ batch'[u] = batch[u]
            /\ pc'[w] # "ack"
        BY <2>11 DEF AckThenThrow, LeaveBatch, TypeOK
      <3>3. UNCHANGED <<row, outbox, sent, stream, cursor>> /\ unrecorded \subseteq unrecorded'
        BY <2>11, <3>1 DEF AckThenThrow, pubs
      <3>4. Pending(stream[m].d) /\ stream[m] = CurrentJob(stream[m].d)
              => row[stream[m].d] = Queued(stream[m].attempt)
        BY EntryType, PendingRow DEF CurrentJob
      <3> QED
        BY <3>1, <3>2, <3>3, <3>4, AckCarried
    <2>12. CASE LoopError(w) \/ WorkerCrash(w)
      BY <2>1, <2>12 DEF LoopError, WorkerCrash, LeaveBatch, Live, Unread, pubs, redis, TypeOK
    <2> QED
      BY <1>6, <2>3, <2>4, <2>5, <2>8, <2>9, <2>10, <2>11, <2>12 DEF WorkerStep, WorkerFailure
  <1>7. CASE Idle \/ Slow
    <2>1. /\ Live' = Live /\ stream' = stream /\ \A m : Spent(m)' = Spent(m)
          /\ UNCHANGED <<row, outbox, sent, unrecorded>>
      BY <1>7 DEF Idle, Slow, StrandedIdle, SlowIdle, Live, Unread, Spent, Current, pubs, workers
    <2> QED
      BY <2>1, CarriersKept
  <1>8. CASE UNCHANGED vars
    <2>1. /\ Live' = Live /\ stream' = stream /\ \A m : Spent(m)' = Spent(m)
          /\ UNCHANGED <<row, outbox, sent, unrecorded>>
      BY <1>8 DEF vars, Live, Unread, Spent, Current, pubs, redis, workers
    <2> QED
      BY <2>1, CarriersKept
  <1> QED
    BY <1>1, <1>2, <1>3, <1>4, <1>5, <1>6, <1>7, <1>8 DEF Next, API, Scheduler

-----------------------------------------------------------------------------
(* Attempts are queued in order                                            *)

\* Steps that append nothing keep the chain if the rows they add continue it
\* and the outcomes they write rest on a published attempt.
LEMMA ChainKept ==
  ASSUME ChainOK, UNCHANGED stream,
         \A r \in outbox' : r \in outbox \/ \A k \in 1 .. r.attempt - 1 : Published(r.d, k),
         \A d \in Delivery : \/ row'[d] = row[d]
                             \/ row'[d].retry = "null" /\ row'[d].status # "DEAD_LETTER"
                             \/ /\ row'[d].retry # "null" =>
                                     \A k \in 1 .. row'[d].attempt : Published(d, k)
                                /\ row'[d].status = "DEAD_LETTER" => Published(d, MaxRetries)
  PROVE  ChainOK'
  <1>1. \A d, k : Published(d, k)' = Published(d, k)
    BY DEF Published, Jobs
  <1>2. \A r \in outbox' : \A k \in 1 .. r.attempt - 1 : Published(r.d, k)
    BY DEF ChainOK
  <1>3. \A d \in Delivery :
          /\ row'[d].retry # "null" => \A k \in 1 .. row'[d].attempt : Published(d, k)
          /\ row'[d].status = "DEAD_LETTER" => Published(d, MaxRetries)
    BY DEF ChainOK
  <1>4. \A m \in DOMAIN stream : \A k \in 1 .. stream[m].attempt : Published(stream[m].d, k)
    BY DEF ChainOK
  <1> QED
    BY <1>1, <1>2, <1>3, <1>4 DEF ChainOK

\* Appending the job of an outbox row continues the chain.
LEMMA ChainAppended ==
  ASSUME TypeOK, ChainOK, NEW r \in outbox, stream' = Append(stream, JobOf(r)),
         UNCHANGED <<row, outbox>>
  PROVE  ChainOK'
  <1> DEFINE n == Len(stream) + 1
  <1>1. stream \in Seq(Job) /\ Len(stream) \in Nat /\ r.d \in Delivery /\ r.attempt \in Attempts
    BY DEF TypeOK, OutboxRow
  <1>2. /\ DOMAIN stream = 1 .. Len(stream) /\ DOMAIN stream' = 1 .. n
        /\ stream'[n] = JobOf(r) /\ \A m \in DOMAIN stream : stream'[m] = stream[m]
    BY <1>1
  <1>3. \A m \in DOMAIN stream : m \in DOMAIN stream'
    BY <1>1, <1>2
  <1>4. \A d, k : Published(d, k) => Published(d, k)'
    BY <1>2, <1>3 DEF Published, Jobs
  <1>5. n \in DOMAIN stream'
    BY <1>1, <1>2
  <1>6. Published(r.d, r.attempt)'
    BY <1>2, <1>5 DEF Published, Jobs, JobOf
  <1>7. \A k \in 1 .. r.attempt : k = r.attempt \/ k \in 1 .. r.attempt - 1
    BY <1>1 DEF Attempts
  <1>8. \A k \in 1 .. r.attempt : Published(r.d, k)'
    BY <1>4, <1>6, <1>7 DEF ChainOK
  <1>9. ASSUME NEW m \in DOMAIN stream'
        PROVE  (\A k \in 1 .. stream[m].attempt : Published(stream[m].d, k))'
    <2>1. CASE m = n
      <3>1. stream'[m].attempt = r.attempt /\ stream'[m].d = r.d
        BY <2>1, <1>2 DEF JobOf
      <3> QED
        BY <3>1, <1>8
    <2>2. CASE m # n
      <3>1. m \in DOMAIN stream
        BY <2>2, <1>1, <1>2
      <3>2. stream'[m] = stream[m]
        BY <3>1, <1>2
      <3>3. \A k \in 1 .. stream[m].attempt : Published(stream[m].d, k)
        BY <3>1 DEF ChainOK
      <3> QED
        BY <3>2, <3>3, <1>4
    <2> QED
      BY <2>1, <2>2
  <1>10. \A q \in outbox : \A k \in 1 .. q.attempt - 1 : Published(q.d, k)'
    BY <1>4 DEF ChainOK
  <1>11. \A d \in Delivery :
           /\ row[d].retry # "null" => \A k \in 1 .. row[d].attempt : Published(d, k)'
           /\ row[d].status = "DEAD_LETTER" => Published(d, MaxRetries)'
    BY <1>4 DEF ChainOK
  <1> QED
    BY <1>9, <1>10, <1>11 DEF ChainOK

LEMMA ChainStep ==
  ASSUME TypeOK, PositionsOK, LocksOK, TimersOK, ChainOK, [Next]_vars
  PROVE  ChainOK'
  <1> USE DEF db, redis, bounds
  <1>1. \A k : Queued(k).retry = "null" /\ Queued(k).status = "RETRYING"
    BY DEF Queued
  <1>2. ASSUME NEW S \in SUBSET Delivery, Ingest(S)
        PROVE  ChainOK'
    <2>1. \A d \in S, t \in Starts : Insert(d, 1, t).attempt = 1
      BY InsertedRow
    <2> QED
      BY <1>1, <1>2, <2>1, ChainKept DEF Ingest
  <1>3. ASSUME NEW d \in Delivery, Replay(d)
        PROVE  ChainOK'
    <2>1. \A t \in Starts : Insert(d, 1, t).attempt = 1
      BY InsertedRow
    <2> QED
      BY <1>1, <1>3, <2>1, ChainKept DEF Replay, TypeOK
  <1>4. ASSUME NEW S \in SUBSET Due, Poll(S)
        PROVE  ChainOK'
    <2>1. ASSUME NEW d \in S
          PROVE  /\ ~Exhausted(row[d])
                 /\ \A k \in 1 .. row[d].attempt : Published(d, k)
      <3>1. d \in Delivery /\ row[d].retry # "null"
        BY DEF Due
      <3>2. row[d].attempt < MaxRetries /\ row[d].attempt \in Nat
        BY <3>1 DEF TimersOK, TypeOK, Row, Attempts
      <3> QED
        BY <3>1, <3>2, LimitsAssumption DEF Exhausted, ChainOK
    <2>2. \A d \in S : row'[d] = Queued(row[d].attempt + 1)
      BY <1>4, <2>1 DEF Poll, AfterPoll, Due
    <2>3. \A r \in outbox' : r \in outbox \/
             \E d \in S, t \in Starts : r = Insert(d, row[d].attempt + 1, t)
      BY <1>4 DEF Poll
    <2>4. ASSUME NEW d \in S, NEW t \in Starts,
                 NEW k \in 1 .. Insert(d, row[d].attempt + 1, t).attempt - 1
          PROVE  Published(Insert(d, row[d].attempt + 1, t).d, k)
      <3>1. row[d].attempt \in Nat
        BY DEF Due, TypeOK, Row, Attempts
      <3>2. /\ Insert(d, row[d].attempt + 1, t).attempt = row[d].attempt + 1
            /\ Insert(d, row[d].attempt + 1, t).d = d
        BY InsertedRow
      <3>3. k \in 1 .. row[d].attempt
        BY <3>1, <3>2
      <3> QED
        BY <2>1, <3>2, <3>3
    <2>5. \A r \in outbox' : r \in outbox \/ \A k \in 1 .. r.attempt - 1 : Published(r.d, k)
      BY <2>3, <2>4
    <2>6. \A d \in Delivery : \/ row'[d] = row[d]
                              \/ row'[d].retry = "null" /\ row'[d].status # "DEAD_LETTER"
      BY <1>1, <1>4, <2>2 DEF Poll
    <2> QED
      BY <1>4, <2>5, <2>6, ChainKept DEF Poll
  <1>5. ASSUME NEW d \in Delivery, BackoffElapses(d)
        PROVE  ChainOK'
    <2>1. /\ row'[d].attempt = row[d].attempt /\ row'[d].status = row[d].status
          /\ \A e \in Delivery \ {d} : row'[e] = row[e]
      BY <1>5 DEF BackoffElapses, TypeOK, Row
    <2>2. /\ \A k \in 1 .. row[d].attempt : Published(d, k)
          /\ row[d].status = "DEAD_LETTER" => Published(d, MaxRetries)
      BY <1>5 DEF BackoffElapses, ChainOK
    <2>3. \A e \in Delivery : \/ row'[e] = row[e]
                              \/ /\ row'[e].retry # "null" =>
                                      \A k \in 1 .. row'[e].attempt : Published(e, k)
                                 /\ row'[e].status = "DEAD_LETTER" => Published(e, MaxRetries)
      BY <2>1, <2>2
    <2> QED
      BY <1>5, <2>3, ChainKept DEF BackoffElapses
  <1>6. ASSUME UNCHANGED <<row, stream>>, outbox' \subseteq outbox
        PROVE  ChainOK'
    BY <1>6, ChainKept
  <1>7. ASSUME NEW p \in Publisher, PublisherStep(p) \/ PublisherFailure(p)
        PROVE  ChainOK'
    <2>1. CASE DrainPublish(p) \/ DrainPublishFails(p)
      <3>1. PICK r \in claimed[p] : stream' = stream \/ stream' = Append(stream, JobOf(r))
        BY <2>1 DEF DrainPublish, DrainPublishFails
      <3>2. r \in outbox
        BY DEF LocksOK
      <3>3. UNCHANGED <<row, outbox>>
        BY <2>1 DEF DrainPublish, DrainPublishFails
      <3> QED
        BY <1>6, <3>1, <3>2, <3>3, ChainAppended
    <2>2. CASE DrainBegin(p) \/ DrainCommit(p) \/ DrainAborts(p)
      BY <1>6, <2>2 DEF DrainBegin, DrainCommit, DrainAborts
    <2> QED
      BY <1>7, <2>1, <2>2 DEF PublisherStep, PublisherFailure
  <1>8. ASSUME NEW w \in Worker, NEW m \in batch[w], WriteFailure(m), UNCHANGED stream
        PROVE  ChainOK'
    <2> DEFINE d == stream[m].d  k == stream[m].attempt
    <2>1. m \in DOMAIN stream /\ d \in Delivery /\ k \in Attempts
      BY EntryType
    <2>2. \A i \in 1 .. k : Published(d, i)
      BY <2>1 DEF ChainOK
    <2>3. ~(k < MaxRetries) => k = MaxRetries /\ k \in 1 .. k
      BY <2>1, LimitsAssumption DEF Attempts
    <2>4. row' = [row EXCEPT ![d] = AfterFailure(row[d], k)] /\ UNCHANGED outbox
      BY <1>8 DEF WriteFailure, Write
    <2>5. /\ row'[d].retry # "null" => \A i \in 1 .. row'[d].attempt : Published(d, i)
          /\ row'[d].status = "DEAD_LETTER" => Published(d, MaxRetries)
      <3>1. row'[d] = AfterFailure(row[d], k)
        BY <2>1, <2>4 DEF TypeOK
      <3>2. CASE k < MaxRetries
        BY <2>2, <3>1, <3>2 DEF AfterFailure
      <3>3. CASE ~(k < MaxRetries)
        BY <2>2, <2>3, <3>1, <3>3 DEF AfterFailure, Closed
      <3> QED
        BY <3>2, <3>3
    <2>6. \A e \in Delivery : e # d => row'[e] = row[e]
      BY <2>4 DEF TypeOK
    <2>7. \A e \in Delivery : \/ row'[e] = row[e]
                              \/ /\ row'[e].retry # "null" =>
                                      \A i \in 1 .. row'[e].attempt : Published(e, i)
                                 /\ row'[e].status = "DEAD_LETTER" => Published(e, MaxRetries)
      BY <2>5, <2>6
    <2> HIDE DEF d, k
    <2> QED
      BY <1>8, <2>4, <2>7, ChainKept
  <1>9. ASSUME NEW w \in Worker, NEW m \in batch[w], UNCHANGED stream,
               Write(stream[m].d, AfterSuccess(row[stream[m].d]))
        PROVE  ChainOK'
    <2>1. \A r : AfterSuccess(r).retry = "null" /\ AfterSuccess(r).status # "DEAD_LETTER"
      BY DEF AfterSuccess, Closed
    <2>2. \A d \in Delivery : \/ row'[d] = row[d]
                              \/ row'[d].retry = "null" /\ row'[d].status # "DEAD_LETTER"
      BY <1>9, <2>1 DEF Write, TypeOK
    <2> QED
      BY <1>9, <2>2, ChainKept DEF Write
  <1>10. ASSUME NEW w \in Worker, WorkerStep(w) \/ WorkerFailure(w)
         PROVE  ChainOK'
    BY <1>6, <1>8, <1>9, <1>10 DEF WorkerStep, WorkerFailure, AutoClaim, ReadNew, Preflight,
         GateWrite, Post, RecordSuccess, RecordFailure, Ack, AckThenThrow, AutoClaimThrows, ReadReplyLost,
         RecordSuccessThrows, RecordFailureThrows, LoopError, WorkerCrash, Deliver
  <1>11. CASE Idle \/ Slow \/ UNCHANGED vars
    BY <1>6, <1>11 DEF Idle, Slow, StrandedIdle, SlowIdle, vars
  <1> QED
    BY <1>2, <1>3, <1>4, <1>5, <1>7, <1>10, <1>11 DEF Next, API, Scheduler

-----------------------------------------------------------------------------
(* The theorems                                                            *)

LEMMA InitInvariant == Init => IInv
  <1> SUFFICES ASSUME Init PROVE IInv
    OBVIOUS
  <1>1. TypeOK
    BY InitType
  <1>2. PositionsOK /\ LocksOK
    BY DEF Init, PositionsOK, LocksOK
  <1>3. \A d \in Delivery : row[d].status = "NONE" /\ row[d].retry = "null"
    BY DEF Init, NoRow
  <1>4. TimersOK /\ CarriersOK
    BY <1>3 DEF TimersOK, CarriersOK, Pending
  <1>5. ChainOK
    BY <1>3 DEF Init, ChainOK
  <1> QED
    BY <1>1, <1>2, <1>4, <1>5 DEF IInv

\* Every reachable state satisfies the inductive invariant.
THEOREM Invariance == Spec => []IInv
  <1>1. IInv /\ [Next]_vars => IInv'
    BY TypeStep, PositionsStep, LocksStep, TimersStep, CarriersStep, ChainStep DEF IInv
  <1> QED
    BY <1>1, InitInvariant, PTL DEF Spec

\* Type correctness: rows, outbox rows, jobs and positions keep their shape,
\* whatever fails or is taken over.
THEOREM TypeCorrect == Spec => []TypeOK
  <1>1. IInv => TypeOK
    BY DEF IInv
  <1> QED
    BY <1>1, Invariance, PTL

\* At-least-once up to the finally block: for any number of processes, crashes,
\* lost replies and aborted drains, a pending delivery keeps a job unless its
\* job was acknowledged with no outcome written (outboxPublisher.drain,
\* pollAndReenqueue, processJob).
THEOREM NothingLost == Spec => []NoDeliveryLost
  <1>1. IInv => NoDeliveryLost
    BY DEF IInv, CarriersOK, SafelyCarried, NoDeliveryLost, Carried, Jobs
  <1> QED
    BY <1>1, Invariance, PTL

\* No attempt is skipped and no delivery is dead-lettered before its last
\* attempt was queued, even when stale workers rewind the attempt counter
\* (handleFailure, pollAndReenqueue, replayDelivery).
THEOREM AttemptsInOrder == Spec => []NoSkippedAttempt
  <1>1. IInv => NoSkippedAttempt
    BY DEF IInv, ChainOK, NoSkippedAttempt, Published
  <1> QED
    BY <1>1, Invariance, PTL

\* The DEAD_LETTER branch of the scheduler is unreachable: handleFailure never
\* leaves a timer on a row whose attempts are used up.
THEOREM SchedulerNeverExhausts == Spec => []RetryWithinBudget
  <1>1. ASSUME IInv
        PROVE  RetryWithinBudget
    <2>1. \A d \in Delivery : row[d].attempt \in Nat /\ MaxRetries \in Nat
      BY <1>1, LimitsAssumption DEF IInv, TypeOK, Row, Attempts
    <2> QED
      BY <1>1, <2>1 DEF IInv, TimersOK, RetryWithinBudget, Exhausted
  <1>2. IInv => RetryWithinBudget
    BY <1>1
  <1> QED
    BY <1>2, Invariance, PTL

-----------------------------------------------------------------------------
(* What failing calls cost                                                 *)

\* Workers whose entry is about to be acknowledged with an exception pending.
Aborting == {w \in Worker : pc[w] = "ackAbort"}

\* Each failing call has stranded one delivery, is about to, or has not at all.
LossOK ==
    /\ IsFiniteSet(unrecorded) /\ IsFiniteSet(Aborting)
    /\ Cardinality(unrecorded) + Cardinality(Aborting) <= faults

\* Steps that strand nothing and bring nobody nearer to it.
LEMMA LossKept ==
  ASSUME TypeOK, TypeOK', LossOK, unrecorded' \subseteq unrecorded, Aborting' \subseteq Aborting,
         faults <= faults'
  PROVE  LossOK'
  <1>1. /\ IsFiniteSet(unrecorded') /\ Cardinality(unrecorded') <= Cardinality(unrecorded)
        /\ IsFiniteSet(Aborting') /\ Cardinality(Aborting') <= Cardinality(Aborting)
    BY FS_Subset DEF LossOK
  <1>2. /\ Cardinality(unrecorded) \in Nat /\ Cardinality(unrecorded') \in Nat
        /\ Cardinality(Aborting) \in Nat /\ Cardinality(Aborting') \in Nat
    BY <1>1, FS_CardinalityType DEF LossOK
  <1> HIDE DEF Aborting
  <1> QED
    BY <1>1, <1>2, BoundsAssumption DEF LossOK, TypeOK

LEMMA LossStep ==
  ASSUME TypeOK, TypeOK', LossOK, [Next]_vars
  PROVE  LossOK'
  <1> USE DEF db, pubs, redis, workers, bounds
  <1>1. /\ IsFiniteSet(unrecorded) /\ IsFiniteSet(Aborting)
        /\ Cardinality(unrecorded) \in Nat /\ Cardinality(Aborting) \in Nat
        /\ faults \in Nat /\ faults' \in Nat
    BY FS_CardinalityType, BoundsAssumption DEF LossOK, TypeOK
  <1>2. CASE API \/ Scheduler \/ Idle \/ Slow \/ UNCHANGED vars
    BY <1>1, <1>2, LossKept DEF API, Ingest, Replay, Scheduler, BackoffElapses, Poll, Idle, Slow,
       StrandedIdle, SlowIdle, Aborting, vars
  <1>3. ASSUME NEW p \in Publisher, PublisherStep(p) \/ PublisherFailure(p)
        PROVE  LossOK'
    BY <1>1, <1>3, LossKept DEF PublisherStep, PublisherFailure, DrainBegin, DrainPublish,
       DrainCommit, DrainPublishFails, DrainAborts, Fault, Aborting
  <1>4. ASSUME NEW w \in Worker, WorkerStep(w) \/ WorkerFailure(w)
        PROVE  LossOK'
    <2>1. ASSUME NEW step, step # "ackAbort", pc' = [pc EXCEPT ![w] = step]
          PROVE  Aborting' \subseteq Aborting \ {w}
      BY <2>1 DEF Aborting, TypeOK
    <2>2. ASSUME NEW S, NEW other \in {"claim", "read"}, Receive(w, S, other)
          PROVE  Aborting' \subseteq Aborting
      BY <2>1, <2>2 DEF Receive
    <2>3. ASSUME NEW step, step # "ackAbort", Goto(w, step)
          PROVE  Aborting' \subseteq Aborting
      BY <2>1, <2>3 DEF Goto
    <2>4. CASE AutoClaim(w) \/ ReadNew(w) \/ AutoClaimThrows(w) \/ ReadReplyLost(w)
      <3>1. Aborting' \subseteq Aborting /\ unrecorded' = unrecorded /\ faults <= faults'
        BY <1>1, <2>2, <2>4 DEF AutoClaim, ReadNew, AutoClaimThrows, ReadReplyLost, Fault
      <3> QED
        BY <3>1, LossKept
    <2>5. CASE \/ Preflight(w) \/ Post(w) \/ GateWrite(w) \/ RecordSuccess(w) \/ RecordFailure(w)
               \/ RecordSuccessThrows(w)
      <3>1. Aborting' \subseteq Aborting
        BY <2>3, <2>5 DEF Preflight, Post, GateWrite, RecordSuccess, RecordFailure,
           RecordSuccessThrows
      <3>2. unrecorded' \subseteq unrecorded /\ faults <= faults'
        BY <1>1, <2>5 DEF Preflight, Post, GateWrite, RecordSuccess, RecordFailure,
           RecordSuccessThrows, Write, WriteFailure, Fault
      <3> QED
        BY <3>1, <3>2, LossKept
    <2>6. CASE Ack(w)
      <3>1. PICK step \in {"claim", "read", "fetch"} : pc' = [pc EXCEPT ![w] = step]
        BY <2>6 DEF Ack, TypeOK
      <3>2. Aborting' \subseteq Aborting
        BY <2>1, <3>1
      <3>3. unrecorded' = unrecorded /\ faults <= faults'
        BY <1>1, <2>6 DEF Ack
      <3> QED
        BY <3>2, <3>3, LossKept
    <2>7. CASE LoopError(w) \/ WorkerCrash(w)
      <3>1. Aborting' \subseteq Aborting
        BY <2>1, <2>7 DEF LoopError, WorkerCrash, LeaveBatch
      <3>2. unrecorded' = unrecorded /\ faults <= faults'
        BY <1>1, <2>7 DEF LoopError, WorkerCrash, Fault
      <3> QED
        BY <3>1, <3>2, LossKept
    <2>8. CASE RecordFailureThrows(w)
      <3>1. Aborting' = Aborting \union {w} /\ w \notin Aborting
        BY <2>8 DEF RecordFailureThrows, Goto, Aborting, TypeOK
      <3>2. unrecorded' \subseteq unrecorded /\ faults' = faults + 1
        BY <2>8 DEF RecordFailureThrows, Write, WriteFailure, Fault
      <3>3. IsFiniteSet(Aborting') /\ Cardinality(Aborting') = Cardinality(Aborting) + 1
        BY <1>1, <3>1, FS_AddElement
      <3>4. /\ IsFiniteSet(unrecorded') /\ Cardinality(unrecorded') <= Cardinality(unrecorded)
            /\ Cardinality(unrecorded') \in Nat
        BY <1>1, <3>2, FS_Subset, FS_CardinalityType
      <3> HIDE DEF Aborting
      <3> QED
        BY <1>1, <3>2, <3>3, <3>4 DEF LossOK
    <2>9. CASE AckThenThrow(w)
      <3>1. w \in Aborting /\ Aborting' = Aborting \ {w}
        BY <2>9 DEF AckThenThrow, LeaveBatch, Aborting, TypeOK
      <3>2. PICK d : unrecorded' \subseteq unrecorded \union {d}
        BY <2>9 DEF AckThenThrow
      <3>3. IsFiniteSet(Aborting') /\ Cardinality(Aborting') = Cardinality(Aborting) - 1
        BY <1>1, <3>1, FS_RemoveElement
      <3>4. /\ IsFiniteSet(unrecorded \union {d})
            /\ Cardinality(unrecorded \union {d}) <= Cardinality(unrecorded) + 1
            /\ Cardinality(unrecorded \union {d}) \in Nat
        <4>1. /\ IsFiniteSet(unrecorded \union {d})
              /\ Cardinality(unrecorded \union {d}) =
                    IF d \in unrecorded THEN Cardinality(unrecorded)
                                       ELSE Cardinality(unrecorded) + 1
          BY <1>1, FS_AddElement
        <4> QED
          BY <1>1, <4>1
      <3>5. /\ IsFiniteSet(unrecorded')
            /\ Cardinality(unrecorded') <= Cardinality(unrecorded \union {d})
            /\ Cardinality(unrecorded') \in Nat
        BY <3>2, <3>4, FS_Subset, FS_CardinalityType
      <3>6. faults' = faults
        BY <2>9 DEF AckThenThrow
      <3> HIDE DEF Aborting
      <3> QED
        BY <1>1, <3>3, <3>4, <3>5, <3>6 DEF LossOK
    <2> QED
      BY <1>4, <2>4, <2>5, <2>6, <2>7, <2>8, <2>9 DEF WorkerStep, WorkerFailure
  <1> QED
    BY <1>2, <1>3, <1>4 DEF Next

LEMMA InitLoss == Init => LossOK
  <1> SUFFICES ASSUME Init PROVE LossOK
    OBVIOUS
  <1>1. unrecorded = {} /\ Aborting = {} /\ faults = 0
    BY DEF Init, Aborting
  <1> QED
    BY <1>1, FS_EmptySet DEF LossOK

\* A stranded delivery is one of those acknowledged with no outcome.
LEMMA StrandedUnrecorded == ASSUME IInv PROVE Stranded \subseteq unrecorded
  BY DEF IInv, CarriersOK, SafelyCarried, Stranded, Carried, Jobs

\* Every stranded delivery is paid for by a failing call in the catch block of
\* processJob, for any number of workers and publishers, whatever crashes, is
\* replayed or taken over.
THEOREM LossesAreCounted == Spec => []LossIsCounted
  <1>1. IInv /\ LossOK /\ [Next]_vars /\ IInv' => LossOK'
    BY LossStep DEF IInv
  <1>2. ASSUME IInv, LossOK
        PROVE  LossIsCounted
    <2>1. Stranded \subseteq unrecorded /\ IsFiniteSet(unrecorded) /\ faults \in Nat
      BY <1>2, StrandedUnrecorded, BoundsAssumption DEF LossOK, IInv, TypeOK
    <2>2. Cardinality(Stranded) <= Cardinality(unrecorded) /\ Cardinality(Stranded) \in Nat
      BY <2>1, FS_Subset, FS_CardinalityType
    <2>3. Cardinality(unrecorded) <= faults
      BY <1>2, <2>1, FS_CardinalityType DEF LossOK
    <2> QED
      BY <2>1, <2>2, <2>3, FS_CardinalityType DEF LossIsCounted
  <1>3. IInv /\ LossOK => LossIsCounted
    BY <1>2
  <1> QED
    BY <1>1, <1>3, InitLoss, Invariance, PTL DEF Spec

\* The promise of the README holds without exception as long as no call to the
\* database or to Redis fails: crashes, replays and slow jobs alone lose nothing.
THEOREM NothingLostWithoutFaults == Spec => [](faults = 0 => AtLeastOnce)
  <1>1. ASSUME IInv, LossOK, faults = 0
        PROVE  AtLeastOnce
    <2>1. IsFiniteSet(unrecorded) /\ Cardinality(unrecorded) = 0
      BY <1>1, FS_CardinalityType DEF LossOK
    <2>2. Stranded = {}
      BY <1>1, <2>1, StrandedUnrecorded, FS_EmptySet
    <2> QED
      BY <2>2 DEF Stranded, AtLeastOnce
  <1>2. IInv /\ LossOK /\ [Next]_vars /\ IInv' => LossOK'
    BY LossStep DEF IInv
  <1> QED
    BY <1>1, <1>2, InitLoss, Invariance, PTL DEF Spec

-----------------------------------------------------------------------------
(* The order of the outbox                                                 *)

\* The publishers' rows stay in order while the outbox only gets rows of new
\* transactions, however old their created_at.
LEMMA OrderKept ==
  ASSUME TypeOK, LocksOK, OrderOK, UNCHANGED pubs,
         \A r \in outbox' : r \in outbox \/ r.txn = txns + 1,
         crashes <= crashes', faults <= faults'
  PROVE  OrderOK'
  <1>1. OnePublisherOrCalm' => OnePublisherOrCalm
    BY DEF OnePublisherOrCalm, TypeOK
  <1>2. Locked' = Locked
    BY DEF Locked, pubs
  <1>3. \A p \in Publisher : \A q \in claimed[p] :
          q \in outbox /\ q.txn \in Nat /\ q.began \in Nat /\ q.txn <= txns /\ q.began < q.txn
    BY DEF LocksOK, TypeOK, OutboxRow
  <1>4. \A p \in Publisher : \A q \in claimed[p], r \in outbox' : r.txn <= q.began => r \in outbox
    BY <1>3 DEF TypeOK
  <1>5. crashes' = 0 /\ faults' = 0 => crashes = 0 /\ faults = 0
    BY DEF TypeOK
  <1> QED
    BY <1>1, <1>2, <1>4, <1>5 DEF OrderOK, pubs

LEMMA OrderStep ==
  ASSUME IInv, OrderOK, [Next]_vars
  PROVE  OrderOK'
  <1> USE DEF db, redis, workers, bounds
  <1>1. TypeOK /\ LocksOK /\ crashes \in Nat /\ faults \in Nat
    BY DEF IInv, TypeOK
  <1>2. CASE API
    <2>1. UNCHANGED <<pubs, crashes, faults>> /\ \A r \in outbox' : r \in outbox \/ r.txn = txns + 1
      BY <1>2 DEF API, Ingest, Replay, Insert
    <2> QED
      BY <1>1, <2>1, OrderKept
  <1>3. CASE Scheduler
    <2>1. UNCHANGED <<pubs, crashes, faults>> /\ \A r \in outbox' : r \in outbox \/ r.txn = txns + 1
      BY <1>3 DEF Scheduler, BackoffElapses, Poll, Insert
    <2> QED
      BY <1>1, <2>1, OrderKept
  <1>4. ASSUME NEW w \in Worker, WorkerStep(w) \/ WorkerFailure(w)
        PROVE  OrderOK'
    <2>1. pubs' = pubs /\ outbox' = outbox
      BY <1>4 DEF WorkerStep, WorkerFailure, AutoClaim, ReadNew, Preflight, GateWrite, Post,
         RecordSuccess, RecordFailure, Ack, AckThenThrow, AutoClaimThrows, ReadReplyLost,
         RecordSuccessThrows, RecordFailureThrows, LoopError, WorkerCrash, Write, WriteFailure
    <2>2. crashes <= crashes' /\ faults <= faults'
      BY <1>1, <1>4 DEF WorkerStep, WorkerFailure, AutoClaim, ReadNew, Preflight, GateWrite,
         Post, RecordSuccess, RecordFailure, Ack, AckThenThrow, AutoClaimThrows, ReadReplyLost,
         RecordSuccessThrows, RecordFailureThrows, LoopError, WorkerCrash, Fault
    <2> QED
      BY <1>1, <2>1, <2>2, OrderKept DEF pubs
  <1>5. CASE Idle \/ Slow \/ UNCHANGED vars
    <2>1. UNCHANGED <<pubs, outbox, crashes, faults>>
      BY <1>5 DEF Idle, Slow, StrandedIdle, SlowIdle, vars, pubs
    <2> QED
      BY <1>1, <2>1, OrderKept
  <1>6. ASSUME NEW p \in Publisher, PublisherStep(p) \/ PublisherFailure(p)
        PROVE  OrderOK'
    <2>1. CASE DrainBegin(p)
      <3>1. PICK S \in SUBSET (outbox \ Locked) :
               /\ FirstRows(outbox \ Locked, OutboxLimit, S)
               /\ claimed' = [claimed EXCEPT ![p] = S]
        BY <2>1 DEF DrainBegin
      <3>2. \A v \in Publisher \ {p} : claimed'[v] = claimed[v]
        BY <1>1, <3>1 DEF TypeOK
      <3>3. claimed[p] = {} /\ claimed'[p] = S
        BY <1>1, <2>1, <3>1 DEF DrainBegin, LocksOK, TypeOK
      <3>4. Locked' = Locked \union S
        BY <3>2, <3>3 DEF Locked
      <3>5. \A q \in S, r \in outbox : r.txn <= q.began => r \in Locked'
        <4>1. \A r \in outbox : r.txn \in Nat /\ r.began \in Nat /\ r.began < r.txn
          BY <1>1 DEF TypeOK, OutboxRow, LocksOK
        <4> QED
          BY <3>1, <3>4, <4>1 DEF FirstRows
      <3>6. outbox' = outbox /\ UNCHANGED <<crashes, faults>> /\ drain' = [drain EXCEPT ![p] = "publishing"]
        BY <2>1 DEF DrainBegin
      <3> QED
        BY <1>1, <3>2, <3>3, <3>4, <3>5, <3>6 DEF OrderOK, OnePublisherOrCalm, TypeOK
    <2>2. CASE DrainPublish(p)
      BY <2>2 DEF DrainPublish, OrderOK, OnePublisherOrCalm, Locked
    <2>3. CASE DrainPublishFails(p)
      <3>1. UNCHANGED <<claimed, outbox>> /\ faults' # 0 /\ Locked' = Locked
        BY <1>1, <2>3 DEF DrainPublishFails, Fault, Locked
      <3>2. OnePublisherOrCalm' => OnePublisherOrCalm
        BY <3>1 DEF OnePublisherOrCalm
      <3> QED
        BY <3>1, <3>2 DEF OrderOK
    <2>4. CASE DrainCommit(p)
      <3>1. outbox' = outbox \ sent[p] /\ DrainEnds(p) /\ UNCHANGED <<crashes, faults>>
        BY <2>4 DEF DrainCommit
      <3>2. claimed'[p] = {} /\ \A v \in Publisher \ {p} : claimed'[v] = claimed[v]
        BY <1>1, <3>1 DEF DrainEnds, TypeOK
      <3>3. CASE \A v, u \in Publisher : v = u
        <4>1. \A v \in Publisher : claimed'[v] = {}
          BY <3>2, <3>3
        <4>2. drain' = [drain EXCEPT ![p] = "idle"]
          BY <3>1 DEF DrainEnds
        <4> QED
          BY <1>1, <3>1, <3>3, <4>1, <4>2 DEF OrderOK, OnePublisherOrCalm, TypeOK
      <3>4. CASE crashes = 0 /\ faults = 0
        <4>1. claimed[p] = sent[p]
          BY <2>4, <3>4 DEF DrainCommit, OrderOK, OnePublisherOrCalm
        <4>2. \A r \in outbox' : r \in Locked => r \in Locked'
          BY <3>1, <3>2, <4>1 DEF Locked
        <4>3. drain' = [drain EXCEPT ![p] = "idle"]
          BY <3>1 DEF DrainEnds
        <4> QED
          BY <1>1, <3>1, <3>2, <3>4, <4>2, <4>3 DEF OrderOK, OnePublisherOrCalm, TypeOK
      <3> QED
        BY <3>1, <3>3, <3>4 DEF OrderOK, OnePublisherOrCalm
    <2>5. CASE DrainAborts(p)
      <3>1. outbox' = outbox /\ DrainEnds(p) /\ crashes' # 0
        BY <1>1, <2>5 DEF DrainAborts
      <3>2. claimed'[p] = {}
        BY <1>1, <3>1 DEF DrainEnds, TypeOK
      <3> QED
        BY <3>1, <3>2 DEF OrderOK, OnePublisherOrCalm
    <2> QED
      BY <1>6, <2>1, <2>2, <2>3, <2>4, <2>5 DEF PublisherStep, PublisherFailure
  <1> QED
    BY <1>2, <1>3, <1>4, <1>5, <1>6 DEF Next

\* A publisher appends its oldest unsent row.
LEMMA PublishedInOrder ==
  ASSUME IInv, OrderOK, [Next]_vars, OnePublisherOrCalm,
         NEW p \in Publisher, NEW q \in sent'[p] \ sent[p],
         NEW r \in outbox, r.txn <= q.began
  PROVE  r \in sent[p] \union (Locked \ claimed[p])
  <1> USE DEF db, redis, workers, bounds
  <1>1. TypeOK /\ LocksOK
    BY DEF IInv
  <1>2. DrainPublish(p)
    <2>1. sent' # sent
      OBVIOUS
    <2>2. PICK v \in Publisher : PublisherStep(v) \/ PublisherFailure(v)
      BY <2>1 DEF Next, vars, pubs, API, Ingest, Replay, Scheduler, BackoffElapses, Poll,
         WorkerStep, WorkerFailure, AutoClaim, ReadNew, Preflight, GateWrite, Post,
         RecordSuccess, RecordFailure, Ack, AckThenThrow, AutoClaimThrows, ReadReplyLost,
         RecordSuccessThrows, RecordFailureThrows, LoopError, WorkerCrash,
         Idle, Slow, StrandedIdle, SlowIdle
    <2>3. v = p
      BY <1>1, <2>2 DEF PublisherStep, PublisherFailure, DrainBegin, DrainPublish, DrainCommit,
         DrainPublishFails, DrainAborts, DrainEnds, TypeOK
    <2> QED
      BY <1>1, <2>2, <2>3 DEF PublisherStep, PublisherFailure, DrainBegin, DrainCommit,
         DrainPublishFails, DrainAborts, DrainEnds, TypeOK
  <1>3. PICK n \in claimed[p] : NextToPublish(p, n) /\ sent' = [sent EXCEPT ![p] = @ \union {n}]
    BY <1>2 DEF DrainPublish
  <1>4. q = n
    BY <1>1, <1>3 DEF TypeOK
  <1>5. r \in Locked
    BY <1>3, <1>4 DEF OrderOK
  <1>6. r.txn \in Nat /\ r.began \in Nat /\ q.began \in Nat /\ r.began < r.txn
    BY <1>1, <1>3, <1>4 DEF TypeOK, OutboxRow, LocksOK
  <1> QED
    BY <1>3, <1>4, <1>5, <1>6 DEF NextToPublish

\* The drain query's order, the row locks and the break after a failed XADD
\* keep the rows of successive transactions in their order in the stream, for any
\* number of publishers until a call fails or a process dies, and for one
\* publisher whatever happens.
THEOREM OrderIsKept == Spec => RowsKeepOrder
  <1>1. Init => OrderOK
    BY DEF Init, OrderOK
  <1>2. IInv /\ OrderOK /\ [Next]_vars => OrderOK'
    BY OrderStep
  <1>3. IInv /\ OrderOK /\ [Next]_vars =>
          (OnePublisherOrCalm =>
             \A p \in Publisher : \A q \in sent'[p] \ sent[p], r \in outbox :
                r.txn <= q.began => r \in sent[p] \union (Locked \ claimed[p]))
    BY PublishedInOrder
  <1> QED
    BY <1>1, <1>2, <1>3, Invariance, PTL DEF Spec, RowsKeepOrder

=============================================================================
