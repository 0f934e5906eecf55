-------------------------- MODULE PipelineOnceProofs --------------------------
(***************************************************************************)
(* While nothing goes wrong an attempt enters the stream once and an entry *)
(* has one worker, for every number of deliveries, workers and publishers. *)
(***************************************************************************)
EXTENDS DeliveryPipelineProofs

-----------------------------------------------------------------------------
(* The inductive invariant behind OnceWhenCalm and DispatchInOrder         *)

\* Strengthening of OnceWhenCalm.  A job is open until its row is appended, its
\* entry is read and the outcome is written; an entry is held by one worker.
HeldOK ==
    /\ stale = {}
    /\ \A m \in pel : Held(m)
    /\ \A w \in Worker : batch[w] \subseteq pel /\ pc[w] # "ackAbort"
    /\ \A w \in Worker : pc[w] \in {"claim", "read"} => batch[w] = {}
    /\ \A v, w \in Worker : v # w => batch[v] \intersect batch[w] = {}

Unsent(r) == \A p \in Publisher : r \notin sent[p]

\* One row and one entry for each attempt.
UniqueOK ==
    /\ \A m, n \in DOMAIN stream : stream[m] = stream[n] => m = n
    /\ \A r, q \in outbox : JobOf(r) = JobOf(q) => r = q
    /\ \A r \in outbox, n \in DOMAIN stream : JobOf(r) = stream[n] => ~Unsent(r)

\* No attempt was queued that the delivery has not reached, and the row of an
\* open job stands as it was queued.
ReachedOK ==
    /\ \A r \in outbox : row[r.d].status # "NONE" /\ r.attempt <= row[r.d].attempt
    /\ \A m \in DOMAIN stream :
          row[stream[m].d].status # "NONE" /\ stream[m].attempt <= row[stream[m].d].attempt
    /\ \A r \in outbox : Unsent(r) => row[r.d] = Queued(r.attempt)
    /\ \A m \in Live : ~Spent(m) => row[stream[m].d] = Queued(stream[m].attempt)

OnceOK ==
    /\ Steady => HeldOK
    /\ Calm => UniqueOK /\ ReachedOK

-----------------------------------------------------------------------------
(* Steps that leave the system calm                                        *)

\* What may have happened when the bounds are still untouched.
CalmStep ==
    \/ \E S \in SUBSET Delivery : Ingest(S)
    \/ Scheduler
    \/ \E p \in Publisher : PublisherStep(p)
    \/ \E w \in Worker : WorkerStep(w)
    \/ Idle
    \/ UNCHANGED vars

\* The counters of replays, crashes, faults and takeovers never go back.
LEMMA CountersGrow ==
  ASSUME TypeOK, [Next]_vars
  PROVE  /\ replays \in Nat /\ crashes \in Nat /\ faults \in Nat /\ takeovers \in Nat
         /\ replays <= replays' /\ crashes <= crashes' /\ faults <= faults' /\ takeovers <= takeovers'
  <1> USE DEF db, pubs, redis, workers, bounds, Fault
  <1>1. replays \in Nat /\ crashes \in Nat /\ faults \in Nat /\ takeovers \in Nat
    BY BoundsAssumption DEF TypeOK
  <1>2. CASE API \/ Scheduler \/ Idle \/ Slow \/ UNCHANGED vars
    BY <1>1, <1>2 DEF API, Ingest, Replay, Scheduler, BackoffElapses, Poll, Idle, StrandedIdle,
       Slow, SlowIdle, vars
  <1>3. ASSUME NEW p \in Publisher, PublisherStep(p) \/ PublisherFailure(p)
        PROVE  bounds' = bounds \/ Fault \/ (crashes' = crashes + 1 /\ UNCHANGED <<replays, faults, takeovers>>)
    BY <1>3 DEF PublisherStep, PublisherFailure, DrainBegin, DrainPublish, DrainCommit,
       DrainPublishFails, DrainAborts
  <1>4. ASSUME NEW w \in Worker, WorkerStep(w) \/ WorkerFailure(w)
        PROVE  bounds' = bounds \/ Fault \/ (crashes' = crashes + 1 /\ UNCHANGED <<replays, faults, takeovers>>)
    BY <1>4 DEF WorkerStep, WorkerFailure, AutoClaim, ReadNew, Preflight, GateWrite, Post,
       RecordSuccess, RecordFailure, Ack, AckThenThrow, AutoClaimThrows, ReadReplyLost,
       RecordSuccessThrows, RecordFailureThrows, LoopError, WorkerCrash
  <1> QED
    BY <1>1, <1>2, <1>3, <1>4 DEF Next

\* Nothing that fails or is taken over leaves the system steady.
LEMMA SteadyBefore ==
  ASSUME TypeOK, [Next]_vars, Steady'
  PROVE  Steady /\ (CalmStep \/ \E d \in Delivery : Replay(d))
  <1>1. /\ crashes = 0 /\ faults = 0 /\ takeovers = 0
        /\ crashes' = 0 /\ faults' = 0 /\ takeovers' = 0
    BY CountersGrow DEF Steady
  <1>2. ~Fault
    BY <1>1 DEF Fault
  <1>3. ASSUME NEW p \in Publisher, PublisherFailure(p)
        PROVE  FALSE
    BY <1>1, <1>2, <1>3 DEF PublisherFailure, DrainPublishFails, DrainAborts
  <1>4. ASSUME NEW w \in Worker, WorkerFailure(w)
        PROVE  FALSE
    BY <1>1, <1>2, <1>4 DEF WorkerFailure, AutoClaimThrows, ReadReplyLost, RecordSuccessThrows,
       RecordFailureThrows, LoopError, WorkerCrash
  <1>5. ~Slow
    BY <1>1 DEF Slow, SlowIdle
  <1> QED
    BY <1>1, <1>3, <1>4, <1>5 DEF Next, API, CalmStep, Steady

LEMMA CalmBefore ==
  ASSUME TypeOK, [Next]_vars, Calm'
  PROVE  Calm /\ CalmStep
  <1>1. Steady /\ (CalmStep \/ \E d \in Delivery : Replay(d))
    BY SteadyBefore DEF Calm
  <1>2. replays = 0 /\ replays' = 0
    BY CountersGrow DEF Calm
  <1>3. ASSUME NEW d \in Delivery, Replay(d)
        PROVE  FALSE
    BY <1>2, <1>3 DEF Replay
  <1> QED
    BY <1>1, <1>2, <1>3 DEF Calm

-----------------------------------------------------------------------------
(* Entries and their workers                                               *)

LEMMA HeldStep ==
  ASSUME TypeOK, PositionsOK, HeldOK, CalmStep
  PROVE  HeldOK'
  <1> USE DEF db, pubs, redis, workers, bounds
  <1>1. ASSUME UNCHANGED <<redis, workers>>
        PROVE  HeldOK'
    BY <1>1 DEF HeldOK, Held
  <1>2. ASSUME NEW S \in SUBSET Delivery, Ingest(S)
        PROVE  HeldOK'
    BY <1>1, <1>2 DEF Ingest
  <1>3. CASE Scheduler
    BY <1>1, <1>3 DEF Scheduler, BackoffElapses, Poll
  <1>4. ASSUME NEW p \in Publisher, PublisherStep(p)
        PROVE  HeldOK'
    BY <1>4 DEF PublisherStep, DrainBegin, DrainPublish, DrainCommit, HeldOK, Held
  <1>5. ASSUME NEW w \in Worker, WorkerStep(w)
        PROVE  HeldOK'
    <2>1. CASE AutoClaim(w)
      <3>1. FirstEntries(stale, BatchSize) = {}
        BY DEF HeldOK, FirstEntries
      <3>2. Receive(w, {}, "read") /\ stale' = {} /\ pel' = pel /\ batch[w] = {}
        BY <2>1, <3>1 DEF AutoClaim, HeldOK
      <3>3. batch' = batch
        BY <3>2 DEF Receive, TypeOK
      <3>4. \A v \in Worker : pc'[v] # "ackAbort" /\ (v # w => pc'[v] = pc[v])
        BY <3>2 DEF Receive, TypeOK, HeldOK
      <3> QED
        BY <3>2, <3>3, <3>4 DEF HeldOK, Held
    <2>2. CASE ReadNew(w)
      <3> DEFINE S == cursor + 1 .. LastOfRead
      <3>1. Deliver /\ Receive(w, S, "claim") /\ batch[w] = {}
        BY <2>2 DEF ReadNew, HeldOK
      <3>2. pel' = pel \union S /\ stale' = stale
        BY <3>1 DEF Deliver
      <3>3. batch'[w] = S /\ \A v \in Worker : v # w => batch'[v] = batch[v]
        BY <3>1 DEF Receive, TypeOK
      <3>4. \A v \in Worker : batch[v] \intersect S = {}
        BY ReadRange DEF PositionsOK, TypeOK
      <3>5. /\ pc'[w] = IF S = {} THEN "claim" ELSE "fetch"
            /\ \A v \in Worker : v # w => pc'[v] = pc[v]
        BY <3>1 DEF Receive, TypeOK
      <3>6. \A m \in pel' : Held(m)'
        BY <3>1, <3>2, <3>3 DEF HeldOK, Held
      <3>7. \A v \in Worker : batch'[v] \subseteq pel' /\ pc'[v] # "ackAbort"
        BY <3>2, <3>3, <3>5 DEF HeldOK
      <3>8. \A v \in Worker : pc'[v] \in {"claim", "read"} => batch'[v] = {}
        BY <3>3, <3>5 DEF HeldOK
      <3>9. \A u, v \in Worker : u # v => batch'[u] \intersect batch'[v] = {}
        BY <3>3, <3>4 DEF HeldOK
      <3> QED
        BY <3>2, <3>6, <3>7, <3>8, <3>9 DEF HeldOK
    <2>3. ASSUME UNCHANGED redis, NEW step \in {"gated", "send", "ok", "failed", "ack"},
                 Goto(w, step), pc[w] \notin {"claim", "read"}
          PROVE  HeldOK'
      <3>1. \A v \in Worker : pc'[v] = IF v = w THEN step ELSE pc[v]
        BY <2>3 DEF Goto, TypeOK
      <3> QED
        BY <2>3, <3>1 DEF Goto, HeldOK, Held
    <2>4. CASE Preflight(w) \/ GateWrite(w) \/ Post(w) \/ RecordSuccess(w) \/ RecordFailure(w)
      BY <2>3, <2>4 DEF Preflight, GateWrite, Post, RecordSuccess, RecordFailure
    <2>5. CASE Ack(w)
      <3>1. PICK m \in batch[w] :
               /\ pel' = pel \ {m}
               /\ stale' = stale \ {m}
               /\ batch' = [batch EXCEPT ![w] = @ \ {m}]
               /\ pc' = [pc EXCEPT ![w] = IF batch[w] = {m} THEN resume[w] ELSE "fetch"]
        BY <2>5 DEF Ack
      <3>2. batch'[w] = batch[w] \ {m} /\ \A v \in Worker : v # w => batch'[v] = batch[v]
        BY <3>1 DEF TypeOK
      <3>3. \A v \in Worker : v # w => m \notin batch[v]
        BY DEF HeldOK
      <3>4. /\ pc'[w] = IF batch[w] = {m} THEN resume[w] ELSE "fetch"
            /\ resume[w] \in {"claim", "read"}
            /\ \A v \in Worker : v # w => pc'[v] = pc[v]
        BY <3>1 DEF TypeOK
      <3>5. \A n \in pel' : Held(n)'
        BY <3>1, <3>2 DEF HeldOK, Held
      <3>6. \A v \in Worker : batch'[v] \subseteq pel' /\ pc'[v] # "ackAbort"
        BY <3>1, <3>2, <3>3, <3>4 DEF HeldOK
      <3>7. \A v \in Worker : pc'[v] \in {"claim", "read"} => batch'[v] = {}
        BY <3>2, <3>4 DEF HeldOK
      <3>8. \A u, v \in Worker : u # v => batch'[u] \intersect batch'[v] = {}
        BY <3>2 DEF HeldOK
      <3> QED
        BY <3>1, <3>5, <3>6, <3>7, <3>8 DEF HeldOK
    <2>6. CASE AckThenThrow(w)
      BY <2>6 DEF AckThenThrow, HeldOK
    <2> QED
      BY <1>5, <2>1, <2>2, <2>4, <2>5, <2>6 DEF WorkerStep
  <1>6. CASE Idle
    BY <1>6 DEF Idle, StrandedIdle, HeldOK
  <1>7. CASE UNCHANGED vars
    BY <1>1, <1>7 DEF vars
  <1> QED
    BY <1>2, <1>3, <1>4, <1>5, <1>6, <1>7 DEF CalmStep

-----------------------------------------------------------------------------
(* One row and one entry for each attempt                                  *)

\* Entries and rows are jobs and outbox rows.
LEMMA Shapes ==
  ASSUME TypeOK
  PROVE  /\ \A m \in DOMAIN stream : stream[m].d \in Delivery /\ stream[m].attempt \in Attempts
         /\ \A m \in DOMAIN stream : stream[m] = [d |-> stream[m].d, attempt |-> stream[m].attempt]
         /\ \A r \in outbox : r.d \in Delivery /\ r.attempt \in Attempts /\ r.txn \in Nat
         /\ \A d \in Delivery : row[d].attempt \in Attempts
  <1>1. \A m \in DOMAIN stream : stream[m] \in Job
    BY DEF TypeOK
  <1> QED
    BY <1>1 DEF TypeOK, Job, OutboxRow, Row

\* A transaction queues new attempts of the deliveries of S.
Queues(S) ==
    /\ \E t \in Starts : outbox' = outbox \union {Insert(d, row'[d].attempt, t) : d \in S}
    /\ \A d \in Delivery \ S : row'[d] = row[d]
    /\ \A d \in S :
          /\ \/ row[d].status = "NONE"
             \/ row[d].retry # "null" /\ row'[d].attempt = row[d].attempt + 1
          /\ row'[d] = Queued(row'[d].attempt)
          /\ row'[d].attempt \in Attempts
    /\ UNCHANGED <<pubs, redis, workers>>

LEMMA IngestQueues ==
  ASSUME TypeOK, NEW S \in SUBSET Delivery, Ingest(S)
  PROVE  Queues(S)
  <1>1. /\ \A d \in S : row'[d] = Queued(1) /\ row[d].status = "NONE"
        /\ \A d \in Delivery \ S : row'[d] = row[d]
    BY DEF Ingest
  <1>2. \A d \in S : row'[d].attempt = 1 /\ 1 \in Attempts
    BY <1>1, LimitsAssumption DEF Queued, Attempts
  <1>3. \A t \in Starts : {Insert(d, 1, t) : d \in S} = {Insert(d, row'[d].attempt, t) : d \in S}
    BY <1>2
  <1>4. \A d \in S : row'[d] = Queued(row'[d].attempt)
    BY <1>1, <1>2
  <1>5. \E t \in Starts : outbox' = outbox \union {Insert(d, row'[d].attempt, t) : d \in S}
    BY <1>3 DEF Ingest
  <1>6. UNCHANGED <<pubs, redis, workers>>
    BY DEF Ingest
  <1>7. \A d \in S : row'[d].attempt \in Attempts
    BY <1>2
  <1> QED
    BY <1>1, <1>4, <1>5, <1>6, <1>7 DEF Queues

LEMMA PollQueues ==
  ASSUME TypeOK, TimersOK, NEW S \in SUBSET Due, Poll(S)
  PROVE  S \subseteq Delivery /\ Queues(S)
  <1>1. S \subseteq Delivery /\ \A d \in S : row[d].retry = "due"
    BY DEF Due
  <1>2. \A d \in S : ~Exhausted(row[d]) /\ row[d].attempt + 1 \in Attempts
    BY <1>1, LimitsAssumption, Shapes DEF TimersOK, Exhausted, Attempts
  <1>3. /\ \A d \in S : row'[d] = Queued(row[d].attempt + 1)
        /\ \A d \in Delivery \ S : row'[d] = row[d]
    BY <1>1, <1>2 DEF Poll, AfterPoll
  <1>4. \A d \in S : row'[d].attempt = row[d].attempt + 1
    <2>1. \A k : Queued(k).attempt = k
      BY DEF Queued
    <2> QED
      BY <1>3, <2>1
  <1>5. \A t \in Starts :
           {Insert(d, row[d].attempt + 1, t) : d \in {e \in S : ~Exhausted(row[e])}}
              = {Insert(d, row'[d].attempt, t) : d \in S}
    BY <1>2, <1>4
  <1>6. \A d \in S : row'[d] = Queued(row'[d].attempt)
    BY <1>3, <1>4
  <1> QED
    BY <1>1, <1>2, <1>3, <1>4, <1>5, <1>6 DEF Poll, Queues

\* No job of the attempt a transaction queues is in the outbox or the stream.
LEMMA QueuedIsNew ==
  ASSUME TypeOK, ReachedOK, NEW S \in SUBSET Delivery, Queues(S), NEW d \in S
  PROVE  /\ \A r \in outbox : r.d = d =>
               r.attempt <= row'[d].attempt /\ r.attempt # row'[d].attempt
         /\ \A m \in DOMAIN stream : stream[m].d = d =>
               stream[m].attempt <= row'[d].attempt /\ stream[m].attempt # row'[d].attempt
  <1>1. CASE row[d].status = "NONE"
    BY <1>1 DEF ReachedOK
  <1>2. CASE row'[d].attempt = row[d].attempt + 1
    <2>1. /\ row[d].attempt \in Nat
          /\ \A r \in outbox : r.attempt \in Nat
          /\ \A m \in DOMAIN stream : stream[m].attempt \in Nat
      BY Shapes DEF Attempts
    <2>2. \A r \in outbox : r.d = d => r.attempt <= row[d].attempt
      BY DEF ReachedOK
    <2>3. \A m \in DOMAIN stream : stream[m].d = d => stream[m].attempt <= row[d].attempt
      BY DEF ReachedOK
    <2> QED
      BY <1>2, <2>1, <2>2, <2>3
  <1> QED
    BY <1>1, <1>2 DEF Queues

LEMMA QueuesUnique ==
  ASSUME TypeOK, LocksOK, UniqueOK, ReachedOK, NEW S \in SUBSET Delivery, Queues(S)
  PROVE  UniqueOK'
  <1> USE DEF pubs, redis
  <1>0. PICK t \in Starts : outbox' = outbox \union {Insert(d, row'[d].attempt, t) : d \in S}
    BY DEF Queues
  <1> DEFINE new(d) == Insert(d, row'[d].attempt, t)
  <1>1. /\ \A d \in S : new(d).d = d /\ new(d).attempt = row'[d].attempt
        /\ \A r \in outbox' : r \in outbox \/ \E d \in S : r = new(d)
        /\ stream' = stream /\ sent' = sent
    BY <1>0 DEF Queues, Insert
  <1> HIDE DEF new
  <1>2. \A r \in outbox, d \in S : JobOf(r) # JobOf(new(d))
    <2> SUFFICES ASSUME NEW r \in outbox, NEW d \in S, JobOf(r) = JobOf(new(d))
                 PROVE  FALSE
      OBVIOUS
    <2>1. r.d = d /\ r.attempt = row'[d].attempt
      BY <1>1 DEF JobOf
    <2> QED
      BY <2>1, QueuedIsNew
  <1>3. \A m \in DOMAIN stream, d \in S : stream[m] # JobOf(new(d))
    <2> SUFFICES ASSUME NEW m \in DOMAIN stream, NEW d \in S, stream[m] = JobOf(new(d))
                 PROVE  FALSE
      OBVIOUS
    <2>1. stream[m].d = d /\ stream[m].attempt = row'[d].attempt
      BY <1>1 DEF JobOf
    <2> QED
      BY <2>1, QueuedIsNew
  <1>4. \A d, e \in S : JobOf(new(d)) = JobOf(new(e)) => d = e
    BY <1>1 DEF JobOf
  <1>5. \A r, q \in outbox' : JobOf(r) = JobOf(q) => r = q
    BY <1>1, <1>2, <1>4 DEF UniqueOK
  <1>6. \A r \in outbox', n \in DOMAIN stream' : JobOf(r) = stream'[n] => ~Unsent(r)'
    BY <1>1, <1>3 DEF UniqueOK, Unsent
  <1> QED
    BY <1>1, <1>5, <1>6 DEF UniqueOK

\* What DrainPublish appends is an unsent row.
LEMMA PublishesUnsent ==
  ASSUME TypeOK, LocksOK, NEW p \in Publisher, DrainPublish(p)
  PROVE  \E r \in outbox :
            /\ Unsent(r)
            /\ stream' = Append(stream, JobOf(r))
            /\ \A q \in outbox : Unsent(q)' <=> Unsent(q) /\ q # r
  <1>1. PICK r \in claimed[p] : /\ NextToPublish(p, r)
                                /\ stream' = Append(stream, JobOf(r))
                                /\ sent' = [sent EXCEPT ![p] = @ \union {r}]
    BY DEF DrainPublish
  <1>2. r \in outbox /\ Unsent(r)
    BY <1>1 DEF LocksOK, NextToPublish, Unsent
  <1>3. \A q : Unsent(q)' <=> Unsent(q) /\ q # r
    <2>1. /\ sent'[p] = sent[p] \union {r}
          /\ \A v \in Publisher : v # p => sent'[v] = sent[v]
      BY <1>1 DEF TypeOK
    <2> QED
      BY <2>1 DEF Unsent
  <1> QED
    BY <1>1, <1>2, <1>3

LEMMA AppendedEntry ==
  ASSUME TypeOK, NEW j, stream' = Append(stream, j)
  PROVE  /\ Len(stream') = Len(stream) + 1 /\ Len(stream) \in Nat
         /\ \A m \in DOMAIN stream : stream'[m] = stream[m]
         /\ \A m \in DOMAIN stream' : m \in DOMAIN stream \/ m = Len(stream) + 1
         /\ stream'[Len(stream) + 1] = j
  BY DEF TypeOK

LEMMA UniqueStep ==
  ASSUME TypeOK, LocksOK, TimersOK, UniqueOK, ReachedOK, CalmStep
  PROVE  UniqueOK'
  <1> USE DEF db, pubs, redis, workers, bounds
  <1>1. ASSUME UNCHANGED <<outbox, sent, stream>>
        PROVE  UniqueOK'
    BY <1>1 DEF UniqueOK, Unsent
  <1>2. ASSUME NEW S \in SUBSET Delivery, Ingest(S)
        PROVE  UniqueOK'
    BY <1>2, IngestQueues, QueuesUnique
  <1>3. ASSUME NEW S \in SUBSET Due, Poll(S)
        PROVE  UniqueOK'
    BY <1>3, PollQueues, QueuesUnique
  <1>4. ASSUME NEW p \in Publisher, DrainPublish(p)
        PROVE  UniqueOK'
    <2>1. PICK r \in outbox : /\ Unsent(r)
                              /\ stream' = Append(stream, JobOf(r))
                              /\ \A q \in outbox : Unsent(q)' <=> Unsent(q) /\ q # r
      BY <1>4, PublishesUnsent
    <2>2. /\ \A m \in DOMAIN stream : stream'[m] = stream[m]
          /\ \A m \in DOMAIN stream' : m \in DOMAIN stream \/ m = Len(stream) + 1
          /\ stream'[Len(stream) + 1] = JobOf(r)
      BY <2>1, AppendedEntry
    <2>3. \A m \in DOMAIN stream : stream[m] # JobOf(r)
      BY <2>1 DEF UniqueOK
    <2>4. \A m, n \in DOMAIN stream' : stream'[m] = stream'[n] => m = n
      BY <2>2, <2>3 DEF UniqueOK
    <2>5. outbox' = outbox
      BY <1>4 DEF DrainPublish
    <2>6. \A q \in outbox, n \in DOMAIN stream' : JobOf(q) = stream'[n] => ~Unsent(q)'
      BY <2>1, <2>2 DEF UniqueOK
    <2> QED
      BY <2>4, <2>5, <2>6 DEF UniqueOK
  <1>5. ASSUME NEW p \in Publisher, DrainCommit(p)
        PROVE  UniqueOK'
    <2>1. /\ outbox' = outbox \ sent[p] /\ stream' = stream
          /\ \A v \in Publisher : v # p => sent'[v] = sent[v]
      BY <1>5 DEF DrainCommit, DrainEnds, TypeOK
    <2>2. \A r \in outbox' : ~Unsent(r) => ~Unsent(r)'
      BY <2>1 DEF Unsent
    <2> QED
      BY <2>1, <2>2 DEF UniqueOK
  <1>6. ASSUME NEW p \in Publisher, DrainBegin(p)
        PROVE  UniqueOK'
    BY <1>1, <1>6 DEF DrainBegin
  <1>7. ASSUME NEW w \in Worker, WorkerStep(w)
        PROVE  UniqueOK'
    BY <1>1, <1>7 DEF WorkerStep, AutoClaim, ReadNew, Deliver, Preflight, GateWrite, WriteFailure,
       Write, Post, RecordSuccess, RecordFailure, Ack, AckThenThrow
  <1>8. ASSUME NEW d \in Delivery, BackoffElapses(d)
        PROVE  UniqueOK'
    BY <1>1, <1>8 DEF BackoffElapses
  <1>9. CASE Idle
    BY <1>1, <1>9 DEF Idle, StrandedIdle
  <1>10. CASE UNCHANGED vars
    BY <1>1, <1>10 DEF vars
  <1> QED
    BY <1>2, <1>3, <1>4, <1>5, <1>6, <1>7, <1>8, <1>9, <1>10 DEF CalmStep, Scheduler, PublisherStep

-----------------------------------------------------------------------------
(* The row of an open job stands as it was queued                          *)

\* A step that writes no delivery and opens no job.
LEMMA ReachedKept ==
  ASSUME ReachedOK, row' = row, stream' = stream, outbox' \subseteq outbox,
         \A r \in outbox' : Unsent(r)' => Unsent(r),
         \A m \in Live' : m \in Live /\ (Spent(m) => Spent(m)')
  PROVE  ReachedOK'
  BY DEF ReachedOK

\* What is live was appended.
LEMMA LiveEntries ==
  ASSUME TypeOK, PositionsOK
  PROVE  Live \subseteq DOMAIN stream
  <1>1. cursor \in Nat /\ Len(stream) \in Nat /\ DOMAIN stream = 1 .. Len(stream)
    BY DEF TypeOK
  <1>2. Unread \subseteq 1 .. Len(stream)
    BY <1>1 DEF Unread
  <1>3. pel \subseteq 1 .. Len(stream)
    BY <1>1 DEF PositionsOK
  <1> QED
    BY <1>1, <1>2, <1>3 DEF Live

LEMMA SpentKept ==
  ASSUME NEW w \in Worker, pc[w] # "ack", NEW m,
         \A v \in Worker : v # w => pc'[v] = pc[v] /\ batch'[v] = batch[v]
  PROVE  Spent(m) => Spent(m)'
  BY DEF Spent, Current

LEMMA QueuesReached ==
  ASSUME TypeOK, PositionsOK, ReachedOK, NEW S \in SUBSET Delivery, Queues(S)
  PROVE  ReachedOK'
  <1> USE DEF pubs, redis, workers
  <1>1. /\ \A r \in outbox' : r \in outbox \/
              \E d \in S, t \in Starts : r = Insert(d, row'[d].attempt, t)
        /\ UNCHANGED <<sent, stream, cursor, pel, pc, batch>>
    BY DEF Queues
  <1>2. Live' = Live /\ \A m : Spent(m)' = Spent(m)
    BY <1>1 DEF Live, Unread, Spent, Current
  <1>3. \A d \in Delivery \ S : row'[d] = row[d]
    BY DEF Queues
  <1>4. \A d \in S : row'[d].status # "NONE" /\ row'[d] = Queued(row'[d].attempt)
    <2>1. \A k : Queued(k).status # "NONE"
      BY DEF Queued
    <2> QED
      BY <2>1 DEF Queues
  <1>Q. \A k : Queued(k).retry = "null"
    BY DEF Queued
  <1>5. ASSUME NEW r \in outbox
        PROVE  /\ row'[r.d].status # "NONE" /\ r.attempt <= row'[r.d].attempt
               /\ Unsent(r)' => row'[r.d] = Queued(r.attempt)
    <2>1. CASE r.d \in S
      <3>1. row[r.d].status # "NONE"
        BY DEF ReachedOK
      <3>2. row[r.d].retry # "null"
        BY <2>1, <3>1 DEF Queues
      <3>3. ~Unsent(r)
        BY <1>Q, <3>2 DEF ReachedOK
      <3> QED
        BY <1>1, <1>4, <2>1, <3>3, QueuedIsNew DEF Unsent
    <2>2. CASE r.d \notin S
      BY <1>1, <1>3, <2>2, Shapes DEF ReachedOK, Unsent
    <2> QED
      BY <2>1, <2>2
  <1>6. ASSUME NEW d \in S, NEW t \in Starts, NEW r, r = Insert(d, row'[d].attempt, t)
        PROVE  /\ row'[r.d].status # "NONE" /\ r.attempt <= row'[r.d].attempt
               /\ row'[r.d] = Queued(r.attempt)
    <2>1. r.d = d /\ r.attempt = row'[d].attempt
      BY <1>6 DEF Insert
    <2>2. row'[d].attempt \in Nat
      BY DEF Queues, Attempts
    <2> QED
      BY <1>4, <2>1, <2>2
  <1>7. ASSUME NEW m \in DOMAIN stream
        PROVE  /\ row'[stream[m].d].status # "NONE"
               /\ stream[m].attempt <= row'[stream[m].d].attempt
               /\ m \in Live /\ ~Spent(m) => row'[stream[m].d] = Queued(stream[m].attempt)
    <2>1. CASE stream[m].d \in S
      <3>1. row[stream[m].d].status # "NONE"
        BY DEF ReachedOK
      <3>2. row[stream[m].d].retry # "null"
        BY <2>1, <3>1 DEF Queues
      <3>3. ~(m \in Live /\ ~Spent(m))
        BY <1>Q, <3>2 DEF ReachedOK
      <3> QED
        BY <1>4, <2>1, <3>3, QueuedIsNew
    <2>2. CASE stream[m].d \notin S
      BY <1>3, <2>2, Shapes DEF ReachedOK
    <2> QED
      BY <2>1, <2>2
  <1>8. \A r \in outbox' : /\ row'[r.d].status # "NONE" /\ r.attempt <= row'[r.d].attempt
                           /\ Unsent(r)' => row'[r.d] = Queued(r.attempt)
    BY <1>1, <1>5, <1>6
  <1>9. Live \subseteq DOMAIN stream
    BY LiveEntries
  <1> QED
    BY <1>1, <1>2, <1>7, <1>8, <1>9 DEF ReachedOK

\* The row of a job whose outcome is still to be written stands as it was queued.
LEMMA OpenJob ==
  ASSUME HeldOK, ReachedOK, NEW w \in Worker, pc[w] # "ack", NEW m \in batch[w], Current(w, m)
  PROVE  row[stream[m].d] = Queued(stream[m].attempt)
  <1>1. \A u \in Worker : m \in batch[u] => u = w
    BY DEF HeldOK
  <1>2. m \in Live /\ ~Spent(m)
    BY <1>1 DEF HeldOK, Live, Spent, Current
  <1> QED
    BY <1>2 DEF ReachedOK

\* The outcome of the job a worker stands at leaves the attempt as it is, and no
\* other open job is one of this delivery.
LEMMA WriteReached ==
  ASSUME TypeOK, PositionsOK, HeldOK, UniqueOK, ReachedOK,
         NEW w \in Worker, pc[w] # "ack", NEW m \in batch[w], Current(w, m),
         NEW v, v.status # "NONE",
         row[stream[m].d] = Queued(stream[m].attempt) => v.attempt = stream[m].attempt,
         Write(stream[m].d, v), Goto(w, "ack"), UNCHANGED <<pubs, redis>>
  PROVE  ReachedOK'
  <1> USE DEF pubs, redis
  <1> DEFINE d == stream[m].d
  <1>1. m \in DOMAIN stream /\ d \in Delivery
    BY EntryType
  <1>2. pc'[w] = "ack" /\ batch' = batch /\ \A u \in Worker : u # w => pc'[u] = pc[u]
    BY DEF Goto, TypeOK
  <1>4. row[d] = Queued(stream[m].attempt)
    BY OpenJob
  <1>5. /\ row'[d] = v /\ \A e \in Delivery : e # d => row'[e] = row[e]
        /\ outbox' = outbox
    BY <1>1 DEF Write, TypeOK
  <1>6. v.attempt = row[d].attempt
    BY <1>4 DEF Queued
  <1>7. \A k : row[d] = Queued(k) => k = stream[m].attempt
    BY <1>4 DEF Queued
  <1>8. \A e \in Delivery : /\ row[e].status # "NONE" => row'[e].status # "NONE"
                            /\ row'[e].attempt = row[e].attempt
    BY <1>5, <1>6
  <1>9. \A r \in outbox : Unsent(r) => row'[r.d] = Queued(r.attempt)
    <2> SUFFICES ASSUME NEW r \in outbox, Unsent(r)
                 PROVE  row'[r.d] = Queued(r.attempt)
      OBVIOUS
    <2>1. r.d # d
      <3> SUFFICES ASSUME r.d = d
                   PROVE  FALSE
        OBVIOUS
      <3>1. r.attempt = stream[m].attempt
        BY <1>7 DEF ReachedOK
      <3>2. JobOf(r) = stream[m]
        BY <1>1, <3>1, Shapes DEF JobOf
      <3> QED
        BY <1>1, <3>2 DEF UniqueOK
    <2> QED
      BY <1>5, <2>1, Shapes DEF ReachedOK
  <1>10. \A n \in DOMAIN stream : n \in Live /\ ~Spent(n) /\ n # m =>
            row'[stream[n].d] = Queued(stream[n].attempt)
    <2> SUFFICES ASSUME NEW n \in DOMAIN stream, n \in Live, ~Spent(n), n # m
                 PROVE  row'[stream[n].d] = Queued(stream[n].attempt)
      OBVIOUS
    <2>1. stream[n].d # d
      <3> SUFFICES ASSUME stream[n].d = d
                   PROVE  FALSE
        OBVIOUS
      <3>1. stream[n].attempt = stream[m].attempt
        BY <1>7 DEF ReachedOK
      <3>2. stream[n] = stream[m]
        BY <1>1, <3>1, Shapes
      <3> QED
        BY <1>1, <3>2 DEF UniqueOK
    <2> QED
      BY <1>5, <2>1, Shapes DEF ReachedOK
  <1>11. Live \subseteq DOMAIN stream
    BY LiveEntries
  <1>12. \A n : Spent(n) => Spent(n)'
    BY <1>2, SpentKept
  <1>13. Spent(m)'
    BY <1>2 DEF Spent, Current
  <1>14. Live' = Live /\ \A r : Unsent(r)' = Unsent(r)
    BY DEF Live, Unread, Unsent
  <1>15. \A r \in outbox : row'[r.d].status # "NONE" /\ r.attempt <= row'[r.d].attempt
    BY <1>8, Shapes DEF ReachedOK
  <1>16. \A n \in DOMAIN stream :
            row'[stream[n].d].status # "NONE" /\ stream[n].attempt <= row'[stream[n].d].attempt
    BY <1>8, Shapes DEF ReachedOK
  <1> QED
    BY <1>5, <1>9, <1>10, <1>11, <1>12, <1>13, <1>14, <1>15, <1>16 DEF ReachedOK

\* What is written keeps the attempt.
LEMMA OutcomeAttempt ==
  ASSUME NEW r \in Row, NEW k
  PROVE  /\ AfterSuccess(r).status # "NONE" /\ AfterFailure(r, k).status # "NONE"
         /\ r = Queued(k) => AfterSuccess(r).attempt = k /\ AfterFailure(r, k).attempt = k
  BY DEF AfterSuccess, AfterFailure, Closed, Queued

LEMMA PublishReached ==
  ASSUME TypeOK, PositionsOK, LocksOK, ReachedOK, NEW p \in Publisher, DrainPublish(p)
  PROVE  ReachedOK'
  <1> USE DEF db, workers
  <1> DEFINE n == Len(stream) + 1
  <1>1. PICK r \in outbox : /\ Unsent(r)
                            /\ stream' = Append(stream, JobOf(r))
                            /\ \A q \in outbox : Unsent(q)' <=> Unsent(q) /\ q # r
    BY PublishesUnsent
  <1>2. /\ \A m \in DOMAIN stream : stream'[m] = stream[m]
        /\ \A m \in DOMAIN stream' : m \in DOMAIN stream \/ m = n
        /\ stream'[n] = JobOf(r)
        /\ Len(stream') = n /\ Len(stream) \in Nat
    BY <1>1, AppendedEntry
  <1>3. UNCHANGED <<row, outbox, cursor, pel, pc, batch>>
    BY DEF DrainPublish
  <1>4. \A m : Spent(m)' = Spent(m)
    BY <1>3 DEF Spent, Current
  <1>5. \A m \in Live' : m \in Live \/ m = n
    BY <1>2, <1>3 DEF Live, Unread, TypeOK, PositionsOK
  <1>6. \A m \in Live : m \in DOMAIN stream
    BY LiveEntries
  <1>7. /\ row[stream'[n].d].status # "NONE" /\ stream'[n].attempt <= row[stream'[n].d].attempt
        /\ row[stream'[n].d] = Queued(stream'[n].attempt)
    BY <1>1, <1>2 DEF ReachedOK, JobOf
  <1>8. \A m \in DOMAIN stream' :
           row[stream'[m].d].status # "NONE" /\ stream'[m].attempt <= row[stream'[m].d].attempt
    BY <1>2, <1>7 DEF ReachedOK
  <1>9. \A m \in Live' : ~Spent(m)' => row[stream'[m].d] = Queued(stream'[m].attempt)
    BY <1>2, <1>4, <1>5, <1>6, <1>7 DEF ReachedOK
  <1>10. \A q \in outbox : Unsent(q)' => row[q.d] = Queued(q.attempt)
    BY <1>1 DEF ReachedOK
  <1> QED
    BY <1>3, <1>8, <1>9, <1>10 DEF ReachedOK

LEMMA ReachedStep ==
  ASSUME TypeOK, PositionsOK, LocksOK, TimersOK, HeldOK, UniqueOK, ReachedOK, CalmStep
  PROVE  ReachedOK'
  <1> USE DEF db, pubs, redis, workers, bounds
  <1>1. ASSUME UNCHANGED <<row, outbox, sent, stream, cursor, pel, pc, batch>>
        PROVE  ReachedOK'
    <2>1. Live' = Live /\ (\A m : Spent(m)' = Spent(m)) /\ \A r : Unsent(r)' = Unsent(r)
      BY <1>1 DEF Live, Unread, Spent, Current, Unsent
    <2> QED
      BY <1>1, <2>1, ReachedKept
  <1>2. ASSUME NEW S \in SUBSET Delivery, Ingest(S)
        PROVE  ReachedOK'
    BY <1>2, IngestQueues, QueuesReached
  <1>3. ASSUME NEW S \in SUBSET Due, Poll(S)
        PROVE  ReachedOK'
    BY <1>3, PollQueues, QueuesReached
  <1>4. ASSUME NEW d \in Delivery, BackoffElapses(d)
        PROVE  ReachedOK'
    <2>1. /\ row[d].retry = "waiting" /\ row' = [row EXCEPT ![d].retry = "due"]
          /\ UNCHANGED <<outbox, sent, stream, cursor, pel, pc, batch>>
      BY <1>4 DEF BackoffElapses
    <2>2. \A e \in Delivery : /\ row'[e].status = row[e].status
                              /\ row'[e].attempt = row[e].attempt
                              /\ e # d => row'[e] = row[e]
      BY <2>1 DEF TypeOK, Row
    <2>3. Live' = Live /\ (\A m : Spent(m)' = Spent(m)) /\ \A r : Unsent(r)' = Unsent(r)
      BY <2>1 DEF Live, Unread, Spent, Current, Unsent
    <2>4. \A k : row[d] # Queued(k)
      BY <2>1 DEF Queued
    <2>5. Live \subseteq DOMAIN stream
      BY LiveEntries
    <2>6. \A r \in outbox : Unsent(r) => row'[r.d] = Queued(r.attempt)
      BY <2>2, <2>4, Shapes DEF ReachedOK
    <2>7. \A m \in Live : ~Spent(m) => row'[stream[m].d] = Queued(stream[m].attempt)
      BY <2>2, <2>4, <2>5, Shapes DEF ReachedOK
    <2>8. \A r \in outbox : row'[r.d].status # "NONE" /\ r.attempt <= row'[r.d].attempt
      BY <2>2, Shapes DEF ReachedOK
    <2>9. \A m \in DOMAIN stream :
             row'[stream[m].d].status # "NONE" /\ stream[m].attempt <= row'[stream[m].d].attempt
      BY <2>2, Shapes DEF ReachedOK
    <2> QED
      BY <2>1, <2>3, <2>6, <2>7, <2>8, <2>9 DEF ReachedOK
  <1>5. ASSUME NEW p \in Publisher, PublisherStep(p)
        PROVE  ReachedOK'
    <2>1. CASE DrainBegin(p)
      BY <1>1, <2>1 DEF DrainBegin
    <2>2. CASE DrainPublish(p)
      BY <2>2, PublishReached
    <2>3. CASE DrainCommit(p)
      <3>1. /\ outbox' = outbox \ sent[p] /\ UNCHANGED <<row, stream, cursor, pel, pc, batch>>
            /\ \A v \in Publisher : v # p => sent'[v] = sent[v]
        BY <2>3 DEF DrainCommit, DrainEnds, TypeOK
      <3>2. \A r \in outbox' : Unsent(r)' => Unsent(r)
        BY <3>1 DEF Unsent
      <3>3. Live' = Live /\ \A m : Spent(m)' = Spent(m)
        BY <3>1 DEF Live, Unread, Spent, Current
      <3> QED
        BY <3>1, <3>2, <3>3, ReachedKept
    <2> QED
      BY <1>5, <2>1, <2>2, <2>3 DEF PublisherStep
  <1>6. ASSUME NEW w \in Worker, WorkerStep(w)
        PROVE  ReachedOK'
    <2>1. ASSUME UNCHANGED <<row, outbox, sent, stream>>, Live' \subseteq Live, pc[w] # "ack",
                 \A v \in Worker : v # w => pc'[v] = pc[v] /\ batch'[v] = batch[v]
          PROVE  ReachedOK'
      <3>1. \A m : Spent(m) => Spent(m)'
        BY <2>1, SpentKept
      <3>2. \A r : Unsent(r)' = Unsent(r)
        BY <2>1 DEF Unsent
      <3> QED
        BY <2>1, <3>1, <3>2, ReachedKept
    <2>2. CASE AutoClaim(w)
      BY <2>1, <2>2 DEF AutoClaim, Receive, Live, Unread, TypeOK
    <2>3. CASE ReadNew(w)
      <3>1. UNCHANGED <<row, outbox, sent, stream>> /\ pc[w] # "ack"
        BY <2>3 DEF ReadNew, Deliver
      <3>2. \A v \in Worker : v # w => pc'[v] = pc[v] /\ batch'[v] = batch[v]
        BY <2>3 DEF ReadNew, Receive, TypeOK
      <3>3. cursor' = LastOfRead /\ pel' = pel \union (cursor + 1 .. LastOfRead)
        BY <2>3 DEF ReadNew, Deliver
      <3>4. Live' \subseteq Live
        BY <3>1, <3>3, ReadRange DEF Live, Unread, TypeOK
      <3> QED
        BY <2>1, <3>1, <3>2, <3>4
    <2>4. CASE Preflight(w) \/ Post(w)
      BY <2>1, <2>4 DEF Preflight, Post, Goto, Live, Unread, TypeOK
    <2>5. CASE GateWrite(w) \/ RecordFailure(w)
      <3>1. PICK m \in batch[w] : Current(w, m) /\ WriteFailure(m)
        BY <2>5 DEF GateWrite, RecordFailure
      <3>2. row[stream[m].d] \in Row
        BY EntryType
      <3>3. Goto(w, "ack") /\ pc[w] # "ack" /\ UNCHANGED <<pubs, redis>>
        BY <2>5 DEF GateWrite, RecordFailure
      <3> QED
        BY <3>1, <3>2, <3>3, OutcomeAttempt, WriteReached DEF WriteFailure
    <2>6. CASE RecordSuccess(w)
      <3>1. PICK m \in batch[w] :
               Current(w, m) /\ Write(stream[m].d, AfterSuccess(row[stream[m].d]))
        BY <2>6 DEF RecordSuccess
      <3>2. row[stream[m].d] \in Row
        BY EntryType
      <3>3. Goto(w, "ack") /\ pc[w] # "ack" /\ UNCHANGED <<pubs, redis>>
        BY <2>6 DEF RecordSuccess
      <3> QED
        BY <3>1, <3>2, <3>3, OutcomeAttempt, WriteReached
    <2>7. CASE Ack(w)
      <3>1. PICK m \in batch[w] :
               /\ Current(w, m)
               /\ pel' = pel \ {m}
               /\ batch' = [batch EXCEPT ![w] = @ \ {m}]
               /\ \A v \in Worker : v # w => pc'[v] = pc[v]
        BY <2>7 DEF Ack, TypeOK
      <3>2. UNCHANGED <<row, outbox, sent, stream, cursor>>
        BY <2>7 DEF Ack
      <3>3. m \notin Unread
        BY DEF PositionsOK, TypeOK, Unread
      <3>4. Live' \subseteq Live \ {m}
        BY <3>1, <3>2, <3>3 DEF Live, Unread
      <3>5. ASSUME NEW n, n # m, Spent(n)
            PROVE  Spent(n)'
        <4>1. PICK v \in Worker : pc[v] = "ack" /\ Current(v, n)
          BY <3>5 DEF Spent
        <4>2. v # w
          BY <3>1, <3>5, <4>1, CurrentUnique
        <4>3. pc'[v] = "ack" /\ batch'[v] = batch[v]
          BY <3>1, <4>1, <4>2 DEF TypeOK
        <4> QED
          BY <4>1, <4>3 DEF Spent, Current
      <3>6. \A r : Unsent(r)' = Unsent(r)
        BY <3>2 DEF Unsent
      <3> QED
        BY <3>2, <3>4, <3>5, <3>6, ReachedKept
    <2>8. CASE AckThenThrow(w)
      BY <2>8 DEF AckThenThrow, HeldOK
    <2> QED
      BY <1>6, <2>2, <2>3, <2>4, <2>5, <2>6, <2>7, <2>8 DEF WorkerStep
  <1>7. CASE Idle
    BY <1>7 DEF Idle, StrandedIdle, HeldOK
  <1>8. CASE UNCHANGED vars
    BY <1>1, <1>8 DEF vars
  <1> QED
    BY <1>2, <1>3, <1>4, <1>5, <1>6, <1>7, <1>8 DEF CalmStep, Scheduler

-----------------------------------------------------------------------------
(* Exactly once when nothing goes wrong                                    *)

LEMMA InitOnce == Init => OnceOK
  BY DEF Init, OnceOK, HeldOK, UniqueOK, ReachedOK, Live, Unread

LEMMA OnceStep ==
  ASSUME IInv, OnceOK, [Next]_vars
  PROVE  OnceOK'
  <1>1. TypeOK /\ PositionsOK /\ LocksOK /\ TimersOK
    BY DEF IInv
  <1>2. ASSUME Steady'
        PROVE  HeldOK'
    <2>1. HeldOK /\ (CalmStep \/ \E d \in Delivery : Replay(d))
      BY <1>1, <1>2, SteadyBefore DEF OnceOK
    <2>2. ASSUME NEW d \in Delivery, Replay(d)
          PROVE  HeldOK'
      BY <2>1, <2>2 DEF Replay, HeldOK, Held, redis, workers
    <2> QED
      BY <1>1, <2>1, <2>2, HeldStep
  <1>3. ASSUME Calm'
        PROVE  UniqueOK' /\ ReachedOK'
    <2>1. Calm /\ CalmStep
      BY <1>1, <1>3, CalmBefore
    <2>2. HeldOK /\ UniqueOK /\ ReachedOK
      BY <2>1 DEF OnceOK, Calm
    <2> QED
      BY <1>1, <2>1, <2>2, UniqueStep, ReachedStep
  <1> QED
    BY <1>2, <1>3 DEF OnceOK

LEMMA OnceInvariance == Spec => [](IInv /\ OnceOK)
  <1>1. IInv /\ OnceOK /\ [Next]_vars => OnceOK'
    BY OnceStep
  <1> QED
    BY <1>1, InitOnce, Invariance, PTL DEF Spec

\* Until a replay, a crash, a failed call or a job that outlasts its idle time,
\* publishers, schedulers and workers in any number queue no attempt twice and
\* share no entry: each job is processed by one worker, once.
THEOREM OnceUntilTrouble == Spec => []OnceWhenCalm
  <1>1. OnceOK => OnceWhenCalm
    BY DEF OnceOK, HeldOK, UniqueOK, OnceWhenCalm, Calm
  <1> QED
    BY <1>1, OnceInvariance, PTL

LEMMA SettledStays ==
  ASSUME IInv, OnceOK, [Next]_vars, Calm', NEW d \in Delivery, row[d].status \in Settled
  PROVE  row'[d] = row[d]
  <1> USE DEF db
  <1>1. TypeOK /\ PositionsOK /\ TimersOK /\ row[d].status \notin {"NONE", "RETRYING"}
    BY DEF IInv, Settled
  <1>2. CalmStep /\ HeldOK /\ UniqueOK /\ ReachedOK
    BY <1>1, CalmBefore DEF OnceOK, Calm
  <1>3. ASSUME NEW w \in Worker, pc[w] # "ack", NEW m \in batch[w], Current(w, m)
        PROVE  stream[m].d # d
    <2>1. \A k : Queued(k).status = "RETRYING"
      BY DEF Queued
    <2> QED
      BY <1>1, <1>2, <1>3, <2>1, OpenJob
  <1>4. ASSUME NEW S \in SUBSET Delivery, Ingest(S)
        PROVE  row'[d] = row[d]
    BY <1>1, <1>4 DEF Ingest
  <1>5. CASE Scheduler
    <2>1. ASSUME NEW e \in Delivery, BackoffElapses(e)
          PROVE  row'[d] = row[d]
      <3>1. e # d
        BY <1>1, <2>1 DEF BackoffElapses, TimersOK
      <3> QED
        BY <1>1, <2>1, <3>1 DEF BackoffElapses, TypeOK
    <2>2. ASSUME NEW S \in SUBSET Due, Poll(S)
          PROVE  row'[d] = row[d]
      BY <1>1, <2>2 DEF Poll, Due
    <2> QED
      BY <1>5, <2>1, <2>2 DEF Scheduler
  <1>6. ASSUME NEW p \in Publisher, PublisherStep(p)
        PROVE  row'[d] = row[d]
    BY <1>6 DEF PublisherStep, DrainBegin, DrainPublish, DrainCommit
  <1>7. ASSUME NEW w \in Worker, WorkerStep(w)
        PROVE  row'[d] = row[d]
    <2>1. CASE GateWrite(w) \/ RecordFailure(w) \/ RecordSuccess(w)
      <3>1. PICK m, v : m \in batch[w] /\ Current(w, m) /\ pc[w] # "ack" /\ Write(stream[m].d, v)
        BY <2>1 DEF GateWrite, RecordFailure, RecordSuccess, WriteFailure
      <3>2. stream[m].d # d
        BY <1>3, <3>1
      <3> QED
        BY <1>1, <3>1, <3>2 DEF Write, TypeOK
    <2>2. CASE ~(GateWrite(w) \/ RecordFailure(w) \/ RecordSuccess(w))
      BY <1>7, <2>2 DEF WorkerStep, AutoClaim, ReadNew, Preflight, Post, Ack, AckThenThrow
    <2> QED
      BY <2>1, <2>2
  <1>8. CASE Idle \/ UNCHANGED vars
    BY <1>8 DEF Idle, StrandedIdle, vars
  <1> QED
    BY <1>2, <1>4, <1>5, <1>6, <1>7, <1>8 DEF CalmStep

\* Until trouble strikes an outcome, once written, is never overwritten, in any
\* number of deliveries, workers and schedulers.
THEOREM SettledIsFinal == Spec => OutcomesAreFinal
  <1>1. IInv /\ OnceOK /\ [Next]_vars =>
          [Calm' => \A d \in Delivery : row[d].status \in Settled => row'[d] = row[d]]_vars
    BY SettledStays
  <1> QED
    BY <1>1, OnceInvariance, PTL DEF Spec, OutcomesAreFinal

\* A shard with one reader is dispatched in the order of its stream until a
\* crash, a failed call or a job that outlasts its idle time; replays and any
\* number of deliveries, publishers and later readers do not disturb it.
THEOREM DispatchIsSequential == Spec => []DispatchInOrder
  <1>1. ASSUME IInv, OnceOK
        PROVE  DispatchInOrder
    <2> SUFFICES ASSUME Steady, Serial, NEW w \in Worker, NEW m \in batch[w], Current(w, m),
                        NEW k \in Live
                 PROVE  m <= k
      BY DEF DispatchInOrder
    <2>1. CASE k \in pel
      <3>1. PICK v \in Worker : k \in batch[v]
        BY <1>1, <2>1 DEF OnceOK, HeldOK, Held
      <3>2. v = w
        BY <3>1 DEF Serial
      <3> QED
        BY <3>1, <3>2 DEF Current
    <2>2. CASE k \in Unread
      BY <1>1, <2>2 DEF IInv, TypeOK, PositionsOK, Unread
    <2> QED
      BY <2>1, <2>2 DEF Live
  <1>2. IInv /\ OnceOK => DispatchInOrder
    BY <1>1
  <1> QED
    BY <1>2, OnceInvariance, PTL

=============================================================================
