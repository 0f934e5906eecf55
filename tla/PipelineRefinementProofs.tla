----------------------- MODULE PipelineRefinementProofs -----------------------
(***************************************************************************)
(* DeliveryPipeline implements DeliveryContract, for every number of       *)
(* deliveries, workers, publishers, retries, crashes and faults.           *)
(***************************************************************************)
EXTENDS PipelineRefinement, DeliveryPipelineProofs

-----------------------------------------------------------------------------
(* What is queued has been ingested                                        *)

\* A job in the outbox or in the stream belongs to an ingested delivery.
KnownOK ==
    /\ \A r \in outbox : row[r.d].status # "NONE"
    /\ \A m \in DOMAIN stream : row[stream[m].d].status # "NONE"

RInv == IInv /\ KnownOK

LEMMA JobsInStream ==
  ASSUME TypeOK, NEW m \in DOMAIN stream
  PROVE  stream[m] \in Job /\ stream[m].d \in Delivery /\ stream[m].attempt \in Attempts
  <1>1. stream \in Seq(Job)
    BY DEF TypeOK
  <1>2. stream[m] \in Job
    BY <1>1
  <1> QED
    BY <1>2 DEF Job

LEMMA Appended ==
  ASSUME TypeOK, NEW r \in outbox, stream' = Append(stream, JobOf(r))
  PROVE  /\ \A m \in DOMAIN stream' :
               stream'[m] = JobOf(r) \/ (m \in DOMAIN stream /\ stream'[m] = stream[m])
         /\ \A m \in DOMAIN stream : m \in DOMAIN stream' /\ stream'[m] = stream[m]
         /\ \E m \in DOMAIN stream' : stream'[m] = JobOf(r)
  <1> DEFINE n == Len(stream) + 1
  <1>1. stream \in Seq(Job) /\ Len(stream) \in Nat
    BY DEF TypeOK
  <1>2. /\ DOMAIN stream = 1 .. Len(stream) /\ DOMAIN stream' = 1 .. n
        /\ stream'[n] = JobOf(r) /\ \A m \in DOMAIN stream : stream'[m] = stream[m]
    BY <1>1
  <1>3. n \in 1 .. n /\ \A m \in 1 .. n : m = n \/ m \in 1 .. Len(stream)
    BY <1>1
  <1>4. \A m \in 1 .. Len(stream) : m \in 1 .. n
    BY <1>1
  <1>5. \A m \in DOMAIN stream' :
           stream'[m] = JobOf(r) \/ (m \in DOMAIN stream /\ stream'[m] = stream[m])
    <2> SUFFICES ASSUME NEW m \in DOMAIN stream', stream'[m] # JobOf(r)
                 PROVE  m \in DOMAIN stream /\ stream'[m] = stream[m]
      OBVIOUS
    <2>1. m # n
      BY <1>2
    <2>2. m \in DOMAIN stream
      BY <2>1, <1>2, <1>3
    <2> QED
      BY <2>2, <1>2
  <1>6. \A m \in DOMAIN stream : m \in DOMAIN stream' /\ stream'[m] = stream[m]
    BY <1>2, <1>4
  <1>7. \E m \in DOMAIN stream' : stream'[m] = JobOf(r)
    <2>1. n \in DOMAIN stream'
      BY <1>2, <1>3
    <2> QED
      BY <2>1, <1>2
  <1> QED
    BY <1>5, <1>6, <1>7

\* No step takes a delivery back to the state before its ingestion.
LEMMA KnownKept ==
  ASSUME KnownOK, TypeOK,
         \A d \in Delivery : row[d].status # "NONE" => row'[d].status # "NONE",
         \A r \in outbox' : r \in outbox \/ row'[r.d].status # "NONE",
         \/ stream' = stream
         \/ \E r \in outbox : stream' = Append(stream, JobOf(r))
  PROVE  KnownOK'
  <1>1. \A r \in outbox' : row'[r.d].status # "NONE"
    BY DEF KnownOK, TypeOK, OutboxRow
  <1>2. ASSUME NEW m \in DOMAIN stream'
        PROVE  row'[stream'[m].d].status # "NONE"
    <2>1. CASE stream' = stream
      <3>1. m \in DOMAIN stream /\ stream'[m] = stream[m]
        BY <1>2, <2>1
      <3> QED
        BY <3>1, JobsInStream DEF KnownOK
    <2>2. ASSUME NEW r \in outbox, stream' = Append(stream, JobOf(r))
          PROVE  row'[stream'[m].d].status # "NONE"
      <3>1. r.d \in Delivery /\ JobOf(r).d = r.d
        BY DEF TypeOK, OutboxRow, JobOf
      <3>2. stream'[m] = JobOf(r) \/ (m \in DOMAIN stream /\ stream'[m] = stream[m])
        BY <1>2, <2>2, Appended
      <3>3. CASE stream'[m] = JobOf(r)
        BY <3>1, <3>3 DEF KnownOK
      <3>4. CASE m \in DOMAIN stream /\ stream'[m] = stream[m]
        BY <3>4, JobsInStream DEF KnownOK
      <3> QED
        BY <3>2, <3>3, <3>4
    <2> QED
      BY <2>1, <2>2
  <1> QED
    BY <1>1, <1>2 DEF KnownOK

\* The outcome of a current entry is written to an ingested delivery.
LEMMA OutcomeKnown ==
  ASSUME KnownOK, TypeOK, PositionsOK, NEW w \in Worker, NEW m \in batch[w],
         WriteFailure(m) \/ Write(stream[m].d, AfterSuccess(row[stream[m].d])),
         UNCHANGED redis
  PROVE  KnownOK'
  <1>1. stream[m].d \in Delivery
    BY EntryType
  <1>2. AfterSuccess(row[stream[m].d]).status # "NONE"
    BY DEF AfterSuccess, Closed
  <1>3. AfterFailure(row[stream[m].d], stream[m].attempt).status # "NONE"
    BY DEF AfterFailure, Closed
  <1>4. \A d \in Delivery : row[d].status # "NONE" => row'[d].status # "NONE"
    BY <1>1, <1>2, <1>3 DEF WriteFailure, Write, TypeOK
  <1>5. outbox' = outbox /\ stream' = stream
    BY DEF WriteFailure, Write, redis
  <1> QED
    BY <1>4, <1>5, KnownKept

LEMMA KnownStep ==
  ASSUME KnownOK, TypeOK, PositionsOK, LocksOK, [Next]_vars
  PROVE  KnownOK'
  <1> USE DEF db, pubs, redis, workers, bounds
  <1>1. ASSUME NEW S \in SUBSET Delivery, Ingest(S)
        PROVE  KnownOK'
    <2>1. \A d \in S, t \in Starts : row'[d].status # "NONE" /\ Insert(d, 1, t).d = d
      BY <1>1 DEF Ingest, Queued, Insert
    <2>2. \A d \in Delivery : row[d].status # "NONE" => row'[d].status # "NONE"
      BY <1>1 DEF Ingest, Queued
    <2>4. PICK t \in Starts : outbox' = outbox \union {Insert(d, 1, t) : d \in S}
      BY <1>1 DEF Ingest
    <2>3. \A r \in outbox' : r \in outbox \/ row'[r.d].status # "NONE"
      BY <2>1, <2>4
    <2> QED
      BY <1>1, <2>2, <2>3, KnownKept DEF Ingest
  <1>2. ASSUME NEW d \in Delivery, Replay(d)
        PROVE  KnownOK'
    <2>1. row'[d].status # "NONE" /\ \A t \in Starts : Insert(d, 1, t).d = d
      BY <1>2 DEF Replay, Queued, Insert, TypeOK
    <2>2. \A e \in Delivery : row[e].status # "NONE" => row'[e].status # "NONE"
      BY <1>2, <2>1 DEF Replay, TypeOK
    <2>3. \A r \in outbox' : r \in outbox \/ row'[r.d].status # "NONE"
      BY <1>2, <2>1 DEF Replay
    <2> QED
      BY <1>2, <2>2, <2>3, KnownKept DEF Replay
  <1>3. ASSUME NEW d \in Delivery, BackoffElapses(d)
        PROVE  KnownOK'
    <2>1. \A e \in Delivery : row'[e].status = row[e].status
      BY <1>3 DEF BackoffElapses, TypeOK, Row
    <2> QED
      BY <1>3, <2>1, KnownKept DEF BackoffElapses
  <1>4. ASSUME NEW S \in SUBSET Due, Poll(S)
        PROVE  KnownOK'
    <2>1. \A d \in S : AfterPoll(row[d]).status # "NONE"
      BY DEF AfterPoll, Closed, Queued
    <2>2. \A d \in S : /\ row'[d].status # "NONE"
                       /\ \A t \in Starts : Insert(d, row[d].attempt + 1, t).d = d
      BY <1>4, <2>1 DEF Poll, Due, Insert
    <2>3. \A d \in Delivery : row[d].status # "NONE" => row'[d].status # "NONE"
      BY <1>4, <2>2 DEF Poll
    <2>4. \A r \in outbox' : r \in outbox \/ row'[r.d].status # "NONE"
      BY <1>4, <2>2 DEF Poll
    <2> QED
      BY <1>4, <2>3, <2>4, KnownKept DEF Poll
  <1>5. ASSUME NEW p \in Publisher, PublisherStep(p) \/ PublisherFailure(p)
        PROVE  KnownOK'
    <2>1. row' = row /\ outbox' \subseteq outbox
      BY <1>5 DEF PublisherStep, PublisherFailure, DrainBegin, DrainPublish, DrainCommit,
                  DrainPublishFails, DrainAborts
    <2>2. stream' = stream \/ \E r \in outbox : stream' = Append(stream, JobOf(r))
      BY <1>5 DEF PublisherStep, PublisherFailure, DrainBegin, DrainPublish, DrainCommit,
                  DrainPublishFails, DrainAborts, LocksOK
    <2> QED
      BY <2>1, <2>2, KnownKept
  <1>6. ASSUME NEW w \in Worker, WorkerStep(w) \/ WorkerFailure(w)
        PROVE  KnownOK'
    <2>1. CASE GateWrite(w)
      BY <2>1, OutcomeKnown DEF GateWrite
    <2>2. CASE RecordSuccess(w)
      BY <2>2, OutcomeKnown DEF RecordSuccess
    <2>3. CASE RecordFailure(w)
      BY <2>3, OutcomeKnown DEF RecordFailure
    <2>4. CASE RecordSuccessThrows(w)
      <3>1. CASE UNCHANGED db
        BY <2>4, <3>1, KnownKept DEF RecordSuccessThrows
      <3>2. CASE ~UNCHANGED db
        BY <2>4, <3>2, OutcomeKnown DEF RecordSuccessThrows
      <3> QED
        BY <3>1, <3>2
    <2>5. CASE RecordFailureThrows(w)
      <3>1. CASE UNCHANGED db
        BY <2>5, <3>1, KnownKept DEF RecordFailureThrows
      <3>2. CASE ~UNCHANGED db
        BY <2>5, <3>2, OutcomeKnown DEF RecordFailureThrows
      <3> QED
        BY <3>1, <3>2
    <2>6. CASE AutoClaim(w) \/ ReadNew(w) \/ AutoClaimThrows(w) \/ ReadReplyLost(w)
      <3>1. row' = row /\ outbox' = outbox /\ stream' = stream
        BY <2>6 DEF AutoClaim, ReadNew, AutoClaimThrows, ReadReplyLost, Deliver
      <3> QED
        BY <3>1, KnownKept
    <2>7. CASE Preflight(w) \/ Post(w) \/ Ack(w) \/ AckThenThrow(w) \/ LoopError(w)
                 \/ WorkerCrash(w)
      <3>1. row' = row /\ outbox' = outbox /\ stream' = stream
        BY <2>7 DEF Preflight, Post, Ack, AckThenThrow, LoopError, WorkerCrash
      <3> QED
        BY <3>1, KnownKept
    <2> QED
      BY <1>6, <2>1, <2>2, <2>3, <2>4, <2>5, <2>6, <2>7 DEF WorkerStep, WorkerFailure
  <1>7. CASE Idle \/ Slow
    <2>1. row' = row /\ outbox' = outbox /\ stream' = stream
      BY <1>7 DEF Idle, Slow, StrandedIdle, SlowIdle
    <2> QED
      BY <2>1, KnownKept
  <1>8. CASE UNCHANGED vars
    BY <1>8, KnownKept DEF vars
  <1> QED
    BY <1>1, <1>2, <1>3, <1>4, <1>5, <1>6, <1>7, <1>8 DEF Next, API, Scheduler

-----------------------------------------------------------------------------
(* What the abstract state depends on                                      *)

LEMMA StageKept ==
  ASSUME \A d \in Delivery : row'[d].status = row[d].status
  PROVE  Stage' = Stage
  BY DEF Stage

LEMMA HandedKept ==
  ASSUME stream' = stream
  PROVE  Handed' = Handed
  BY DEF Handed, Published, Jobs

\* A worker that does not move keeps its answer, while the stream may grow.
LEMMA RecordingKept ==
  ASSUME TypeOK, PositionsOK, NEW w \in Worker, NEW d,
         pc'[w] = pc[w], batch'[w] = batch[w],
         \A m \in DOMAIN stream : stream'[m] = stream[m]
  PROVE  Recording(w, d)' <=> Recording(w, d)
  <1>1. \A m \in batch[w] : stream'[m] = stream[m]
    BY EntryType
  <1> QED
    BY <1>1 DEF Recording, Current

LEMMA AnsweredKept ==
  ASSUME TypeOK, PositionsOK,
         \A w \in Worker : \/ pc'[w] = pc[w] /\ batch'[w] = batch[w]
                           \/ pc[w] # "ok" /\ pc'[w] # "ok",
         \A m \in DOMAIN stream : stream'[m] = stream[m]
  PROVE  Answered' = Answered
  <1>1. \A w \in Worker, d \in Delivery : Recording(w, d)' <=> Recording(w, d)
    <2> SUFFICES ASSUME NEW w \in Worker, NEW d \in Delivery
                 PROVE  Recording(w, d)' <=> Recording(w, d)
      OBVIOUS
    <2>1. CASE pc'[w] = pc[w] /\ batch'[w] = batch[w]
      BY <2>1, RecordingKept
    <2>2. CASE pc[w] # "ok" /\ pc'[w] # "ok"
      BY <2>2 DEF Recording
    <2> QED
      BY <2>1, <2>2
  <1> QED
    BY <1>1 DEF Answered

\* A worker that leaves "ok" gives up the answer for its current entry, which
\* another worker may hold as well.
LEMMA AnswerLeft ==
  ASSUME TypeOK, PositionsOK, NEW w \in Worker, pc[w] = "ok", pc'[w] # "ok",
         \A v \in Worker \ {w} : pc'[v] = pc[v] /\ batch'[v] = batch[v],
         stream' = stream,
         NEW d \in Delivery, Recording(w, d)
  PROVE  Answered' \in {Answered, Answered \ {d}}
  <1>1. \A v \in Worker \ {w}, e \in Delivery : Recording(v, e)' <=> Recording(v, e)
    BY RecordingKept
  <1>2. \A e \in Delivery : ~Recording(w, e)'
    BY DEF Recording
  <1>3. \A e \in Delivery : Recording(w, e) => e = d
    BY CurrentUnique DEF Recording
  <1>4. CASE d \in Answered'
    <2>1. \A e \in Delivery : e \in Answered' <=> e \in Answered
      BY <1>1, <1>2, <1>3, <1>4 DEF Answered
    <2> QED
      BY <2>1 DEF Answered
  <1>5. CASE d \notin Answered'
    <2>1. \A e \in Delivery : e \in Answered' <=> (e \in Answered /\ e # d)
      BY <1>1, <1>2, <1>3, <1>5 DEF Answered
    <2>2. Answered' = Answered \ {d}
      BY <2>1 DEF Answered
    <2> QED
      BY <2>2
  <1> QED
    BY <1>4, <1>5

LEMMA NoAnswerLeft ==
  ASSUME TypeOK, PositionsOK, NEW w \in Worker, pc'[w] # "ok",
         \A v \in Worker \ {w} : pc'[v] = pc[v] /\ batch'[v] = batch[v],
         stream' = stream,
         \A d \in Delivery : ~Recording(w, d)
  PROVE  Answered' = Answered
  <1>1. \A v \in Worker \ {w}, e \in Delivery : Recording(v, e)' <=> Recording(v, e)
    BY RecordingKept
  <1>2. \A e \in Delivery : ~Recording(w, e)'
    BY DEF Recording
  <1>3. \A e \in Delivery : e \in Answered' <=> e \in Answered
    BY <1>1, <1>2 DEF Answered
  <1> QED
    BY <1>3 DEF Answered

-----------------------------------------------------------------------------
(* Each step is a step of the contract, or changes nothing it speaks of    *)

LEMMA Stutters ==
  ASSUME Stage' = Stage, Handed' = Handed, Answered' = Answered
  PROVE  UNCHANGED Contract!vars
  BY DEF Contract!vars

\* Writing one row changes one stage.
LEMMA StageWritten ==
  ASSUME TypeOK, NEW d \in Delivery, NEW v, row' = [row EXCEPT ![d] = v]
  PROVE  Stage' = [Stage EXCEPT ![d] = StageOf(v.status)]
  <1>1. \A e \in Delivery : row'[e] = IF e = d THEN v ELSE row[e]
    BY DEF TypeOK
  <1>2. \A e \in Delivery : StageOf(row'[e].status) =
            IF e = d THEN StageOf(v.status) ELSE StageOf(row[e].status)
    BY <1>1
  <1>3. Stage' = [e \in Delivery |-> IF e = d THEN StageOf(v.status) ELSE Stage[e]]
    BY <1>2 DEF Stage
  <1> QED
    BY <1>3 DEF Stage

\* A failed attempt reopens the delivery, or gives it up after its last one.
LEMMA FailureSimulated ==
  ASSUME RInv, NEW w \in Worker, NEW m \in batch[w], WriteFailure(m),
         stream' = stream, Answered' = Answered
  PROVE  Contract!Next
  <1> DEFINE d == stream[m].d
             k == stream[m].attempt
  <1>1. TypeOK /\ PositionsOK /\ ChainOK /\ KnownOK
    BY DEF RInv, IInv
  <1>2. m \in DOMAIN stream /\ d \in Delivery /\ k \in Attempts
    BY <1>1, EntryType
  <1>3. row[d].status # "NONE" /\ row[d].status \in Statuses
    BY <1>1, <1>2 DEF KnownOK, TypeOK, Row
  <1>4. Stage' = [Stage EXCEPT ![d] = StageOf(AfterFailure(row[d], k).status)]
    BY <1>1, <1>2, StageWritten DEF WriteFailure, Write
  <1>5. Handed' = Handed
    BY HandedKept
  <1>6. CASE k < MaxRetries
    <2>1. AfterFailure(row[d], k).status = "RETRYING"
      BY <1>6 DEF AfterFailure
    <2>2. Stage' = [Stage EXCEPT ![d] = "pending"]
      BY <1>4, <2>1 DEF StageOf
    <2>3. Stage[d] # "none"
      BY <1>2, <1>3 DEF Stage, StageOf, Statuses
    <2>4. Contract!Reopen(d)
      BY <2>2, <2>3, <1>5 DEF Contract!Reopen
    <2> QED
      BY <2>4, <1>2 DEF Contract!Next
  <1>7. CASE ~(k < MaxRetries)
    <2>1. AfterFailure(row[d], k).status = "DEAD_LETTER"
      BY <1>7 DEF AfterFailure, Closed
    <2>2. Stage' = [Stage EXCEPT ![d] = "dead"]
      BY <1>4, <2>1 DEF StageOf
    <2>3. k = MaxRetries
      BY <1>2, <1>7, LimitsAssumption DEF Attempts
    <2>4. stream[m] = [d |-> d, attempt |-> k]
      BY <1>1, <1>2, JobsInStream DEF Job
    <2>5. MaxRetries \in Handed[d]
      BY <1>2, <2>3, <2>4 DEF Handed, Published, Jobs
    <2>6. Contract!GiveUp(d)
      BY <2>2, <2>5, <1>5 DEF Contract!GiveUp
    <2> QED
      BY <2>6, <1>2 DEF Contract!Next
  <1> QED
    BY <1>6, <1>7

\* Recording a success delivers what the worker has an answer for.
LEMMA SuccessSimulated ==
  ASSUME RInv, NEW w \in Worker, NEW m \in batch[w], pc[w] = "ok", pc'[w] # "ok",
         Current(w, m), Write(stream[m].d, AfterSuccess(row[stream[m].d])),
         \A v \in Worker \ {w} : pc'[v] = pc[v] /\ batch'[v] = batch[v],
         stream' = stream
  PROVE  Contract!Next
  <1> DEFINE d == stream[m].d
  <1>1. TypeOK /\ PositionsOK
    BY DEF RInv, IInv
  <1>2. d \in Delivery
    BY <1>1, EntryType
  <1>3. Recording(w, d)
    BY DEF Recording
  <1>4. d \in Answered
    BY <1>2, <1>3 DEF Answered
  <1>5. Stage' = [Stage EXCEPT ![d] = StageOf(AfterSuccess(row[d]).status)]
    BY <1>1, <1>2, StageWritten DEF Write
  <1>6. Stage' = [Stage EXCEPT ![d] = "delivered"]
    BY <1>5 DEF AfterSuccess, Closed, StageOf
  <1>7. Answered' \in {Answered, Answered \ {d}}
    BY <1>1, <1>2, <1>3, AnswerLeft
  <1>8. Handed' = Handed
    BY HandedKept
  <1>9. Contract!Deliver(d)
    BY <1>4, <1>6, <1>7, <1>8 DEF Contract!Deliver
  <1> QED
    BY <1>2, <1>9 DEF Contract!Next

\* An answer that is not recorded is forgotten.
LEMMA ForgetSimulated ==
  ASSUME TypeOK, PositionsOK, NEW w \in Worker, pc[w] = "ok", pc'[w] # "ok",
         \A v \in Worker \ {w} : pc'[v] = pc[v] /\ batch'[v] = batch[v],
         stream' = stream, row' = row
  PROVE  [Contract!Next]_(Contract!vars)
  <1>1. Stage' = Stage /\ Handed' = Handed
    BY StageKept, HandedKept
  <1>2. CASE \E d \in Delivery : Recording(w, d)
    <2>1. PICK d \in Delivery : Recording(w, d)
      BY <1>2
    <2>2. Answered' \in {Answered, Answered \ {d}}
      BY <2>1, AnswerLeft
    <2>3. CASE Answered' = Answered
      BY <2>3, <1>1, Stutters
    <2>4. CASE Answered' = Answered \ {d}
      BY <2>4, <1>1 DEF Contract!Next, Contract!Forget
    <2> QED
      BY <2>2, <2>3, <2>4
  <1>3. CASE ~\E d \in Delivery : Recording(w, d)
    <2>1. Answered' = Answered
      BY <1>3, NoAnswerLeft
    <2> QED
      BY <2>1, <1>1, Stutters
  <1> QED
    BY <1>2, <1>3

LEMMA IngestSimulated ==
  ASSUME RInv, NEW S \in SUBSET Delivery, Ingest(S)
  PROVE  Contract!Next
  <1>1. Handed' = Handed /\ Answered' = Answered
    <2>1. stream' = stream /\ pc' = pc /\ batch' = batch
      BY DEF Ingest, redis, workers
    <2> QED
      BY <2>1, HandedKept, AnsweredKept DEF RInv, IInv
  <1>2. \A d \in S : Stage[d] = "none"
    BY DEF Ingest, Stage, StageOf
  <1>3. \A d \in Delivery : row'[d].status = IF d \in S THEN "RETRYING" ELSE row[d].status
    BY DEF Ingest, Queued
  <1>4. \A d \in Delivery : StageOf(row'[d].status) =
            IF d \in S THEN "pending" ELSE StageOf(row[d].status)
    <2>1. StageOf("RETRYING") = "pending"
      BY DEF StageOf
    <2> QED
      BY <1>3, <2>1
  <1>5. Stage' = [d \in Delivery |-> IF d \in S THEN "pending" ELSE Stage[d]]
    BY <1>4 DEF Stage
  <1>6. Contract!Accept(S)
    BY <1>1, <1>2, <1>5 DEF Contract!Accept
  <1> QED
    BY <1>6 DEF Contract!Next

LEMMA ReplaySimulated ==
  ASSUME RInv, NEW d \in Delivery, Replay(d)
  PROVE  Contract!Next
  <1>1. TypeOK /\ PositionsOK
    BY DEF RInv, IInv
  <1>2. Handed' = Handed /\ Answered' = Answered
    <2>1. stream' = stream /\ pc' = pc /\ batch' = batch
      BY DEF Replay, redis, workers
    <2> QED
      BY <1>1, <2>1, HandedKept, AnsweredKept
  <1>3. Stage' = [Stage EXCEPT ![d] = StageOf(Queued(1).status)]
    BY <1>1, StageWritten DEF Replay
  <1>4. Stage' = [Stage EXCEPT ![d] = "pending"]
    BY <1>3 DEF Queued, StageOf
  <1>5. row[d].status \in Statuses \ {"NONE"}
    BY <1>1 DEF Replay, TypeOK, Row
  <1>6. Stage[d] # "none"
    BY <1>5 DEF Stage, StageOf, Statuses
  <1>7. Contract!Reopen(d)
    BY <1>2, <1>4, <1>6 DEF Contract!Reopen
  <1> QED
    BY <1>7 DEF Contract!Next

\* The scheduler changes neither the status nor what was handed out.
LEMMA SchedulerSimulated ==
  ASSUME RInv, Scheduler
  PROVE  UNCHANGED Contract!vars
  <1>1. TypeOK /\ PositionsOK /\ TimersOK
    BY DEF RInv, IInv
  <1>2. stream' = stream /\ pc' = pc /\ batch' = batch
    BY DEF Scheduler, BackoffElapses, Poll, redis, workers
  <1>3. Handed' = Handed /\ Answered' = Answered
    BY <1>1, <1>2, HandedKept, AnsweredKept
  <1>4. ASSUME NEW d \in Delivery, BackoffElapses(d)
        PROVE  \A e \in Delivery : row'[e].status = row[e].status
    BY <1>1, <1>4 DEF BackoffElapses, TypeOK, Row
  <1>5. ASSUME NEW S \in SUBSET Due, Poll(S)
        PROVE  \A e \in Delivery : row'[e].status = row[e].status
    <2>1. \A e \in S : row[e].status = "RETRYING" /\ ~Exhausted(row[e])
      BY <1>1, LimitsAssumption DEF TimersOK, Due, Exhausted, TypeOK, Row, Attempts
    <2>2. \A e \in S : AfterPoll(row[e]).status = "RETRYING"
      BY <2>1 DEF AfterPoll, Queued
    <2> QED
      BY <1>5, <2>1, <2>2 DEF Poll
  <1>6. Stage' = Stage
    BY <1>4, <1>5, StageKept DEF Scheduler
  <1> QED
    BY <1>3, <1>6, Stutters

\* Appending the job of an outbox row hands its attempt out.
LEMMA AppendSimulated ==
  ASSUME RInv, NEW r \in outbox, stream' = Append(stream, JobOf(r)),
         UNCHANGED <<row, pc, batch>>
  PROVE  Contract!Next
  <1>1. TypeOK /\ PositionsOK /\ ChainOK /\ KnownOK
    BY DEF RInv, IInv
  <1>2. r.d \in Delivery /\ r.attempt \in Attempts
    BY <1>1 DEF TypeOK, OutboxRow
  <1>3. \A m \in DOMAIN stream' :
           stream'[m] = JobOf(r) \/ (m \in DOMAIN stream /\ stream'[m] = stream[m])
    BY <1>1, Appended
  <1>4. \A m \in DOMAIN stream : m \in DOMAIN stream' /\ stream'[m] = stream[m]
    BY <1>1, Appended
  <1>5. \E m \in DOMAIN stream' : stream'[m] = JobOf(r)
    BY <1>1, Appended
  <1>6. \A e \in Delivery, k \in Attempts :
           Published(e, k)' <=> (Published(e, k) \/ (e = r.d /\ k = r.attempt))
    <2>1. \A e, k : [d |-> e, attempt |-> k] = JobOf(r) <=> (e = r.d /\ k = r.attempt)
      BY DEF JobOf
    <2>2. \A e, k : Published(e, k)' <=> \E m \in DOMAIN stream' : stream'[m] = [d |-> e, attempt |-> k]
      BY DEF Published, Jobs
    <2>3. \A e, k : Published(e, k) <=> \E m \in DOMAIN stream : stream[m] = [d |-> e, attempt |-> k]
      BY DEF Published, Jobs
    <2>4. ASSUME NEW e \in Delivery, NEW k \in Attempts, Published(e, k)'
          PROVE  Published(e, k) \/ (e = r.d /\ k = r.attempt)
      <3>1. PICK m \in DOMAIN stream' : stream'[m] = [d |-> e, attempt |-> k]
        BY <2>2, <2>4
      <3>2. CASE stream'[m] = JobOf(r)
        BY <2>1, <3>1, <3>2
      <3>3. CASE m \in DOMAIN stream /\ stream'[m] = stream[m]
        BY <2>3, <3>1, <3>3
      <3> QED
        BY <1>3, <3>2, <3>3
    <2>5. ASSUME NEW e \in Delivery, NEW k \in Attempts,
                 Published(e, k) \/ (e = r.d /\ k = r.attempt)
          PROVE  Published(e, k)'
      <3>1. CASE Published(e, k)
        <4>1. PICK m \in DOMAIN stream : stream[m] = [d |-> e, attempt |-> k]
          BY <2>3, <3>1
        <4> QED
          BY <1>4, <2>2, <4>1
      <3>2. CASE e = r.d /\ k = r.attempt
        BY <1>5, <2>1, <2>2, <3>2
      <3> QED
        BY <2>5, <3>1, <3>2
    <2> QED
      BY <2>4, <2>5
  <1>7. \A e \in Delivery : {k \in Attempts : Published(e, k)}' =
            IF e = r.d THEN {k \in Attempts : Published(e, k)} \union {r.attempt}
            ELSE {k \in Attempts : Published(e, k)}
    BY <1>2, <1>6
  <1>8. Handed' = [e \in Delivery |-> IF e = r.d THEN Handed[e] \union {r.attempt} ELSE Handed[e]]
    BY <1>7 DEF Handed
  <1>9. Handed' = [Handed EXCEPT ![r.d] = @ \union {r.attempt}]
    BY <1>2, <1>8 DEF Handed
  <1>10. Stage' = Stage /\ Answered' = Answered
    BY <1>1, <1>4, StageKept, AnsweredKept
  <1>11. Stage[r.d] # "none"
    <2>1. row[r.d].status \in Statuses \ {"NONE"}
      BY <1>1, <1>2 DEF KnownOK, TypeOK, Row
    <2> QED
      BY <1>2, <2>1 DEF Stage, StageOf, Statuses
  <1>12. r.attempt = 1 \/ r.attempt - 1 \in Handed[r.d]
    <2> SUFFICES ASSUME r.attempt # 1
                 PROVE  r.attempt - 1 \in Handed[r.d]
      OBVIOUS
    <2>1. r.attempt - 1 \in 1 .. r.attempt - 1 /\ r.attempt - 1 \in Attempts
      BY <1>2, LimitsAssumption DEF Attempts
    <2> QED
      BY <1>1, <1>2, <2>1 DEF ChainOK, Handed
  <1>13. Contract!HandOut(r.d, r.attempt)
    BY <1>9, <1>10, <1>11, <1>12 DEF Contract!HandOut
  <1>14. r.attempt \in 1 .. MaxRetries
    BY <1>2 DEF Attempts
  <1> QED
    BY <1>2, <1>13, <1>14 DEF Contract!Next

LEMMA PublisherSimulated ==
  ASSUME RInv, NEW p \in Publisher, PublisherStep(p) \/ PublisherFailure(p)
  PROVE  [Contract!Next]_(Contract!vars)
  <1>1. UNCHANGED <<row, pc, batch>>
    BY DEF PublisherStep, PublisherFailure, DrainBegin, DrainPublish, DrainCommit,
           DrainPublishFails, DrainAborts, db, workers
  <1>2. stream' = stream \/ \E r \in outbox : stream' = Append(stream, JobOf(r))
    BY DEF PublisherStep, PublisherFailure, DrainBegin, DrainPublish, DrainCommit,
           DrainPublishFails, DrainAborts, redis, RInv, IInv, LocksOK
  <1>3. CASE stream' = stream
    <2>1. Stage' = Stage /\ Handed' = Handed /\ Answered' = Answered
      BY <1>1, <1>3, StageKept, HandedKept, AnsweredKept DEF RInv, IInv
    <2> QED
      BY <2>1, Stutters
  <1>4. CASE \E r \in outbox : stream' = Append(stream, JobOf(r))
    BY <1>1, <1>4, AppendSimulated
  <1> QED
    BY <1>2, <1>3, <1>4

\* The steps of a worker that neither receive an answer nor write an outcome.
LEMMA WorkerStutters ==
  ASSUME RInv, NEW w \in Worker, pc[w] # "ok", pc'[w] # "ok",
         \A v \in Worker \ {w} : pc'[v] = pc[v] /\ batch'[v] = batch[v],
         row' = row, stream' = stream
  PROVE  UNCHANGED Contract!vars
  <1>1. Stage' = Stage /\ Handed' = Handed /\ Answered' = Answered
    BY StageKept, HandedKept, AnsweredKept DEF RInv, IInv
  <1> QED
    BY <1>1, Stutters

LEMMA PostSimulated ==
  ASSUME RInv, NEW w \in Worker, Post(w)
  PROVE  [Contract!Next]_(Contract!vars)
  <1>1. TypeOK /\ PositionsOK /\ ChainOK
    BY DEF RInv, IInv
  <1>2. /\ row' = row /\ stream' = stream /\ batch' = batch
        /\ \A v \in Worker \ {w} : pc'[v] = pc[v] /\ batch'[v] = batch[v]
        /\ pc[w] = "send" /\ pc'[w] \in {"ok", "failed"}
    BY <1>1 DEF Post, Goto, TypeOK, db, redis
  <1>3. CASE pc'[w] = "failed"
    BY <1>2, <1>3, WorkerStutters
  <1>4. CASE pc'[w] = "ok" /\ \E m \in batch[w] : Current(w, m)
    <2>1. PICK m \in batch[w] : Current(w, m)
      BY <1>4
    <2> DEFINE d == stream[m].d
    <2>2. m \in DOMAIN stream /\ d \in Delivery /\ stream[m].attempt \in Attempts
      BY <1>1, EntryType
    <2>3. \A v \in Worker \ {w}, e \in Delivery : Recording(v, e)' <=> Recording(v, e)
      BY <1>1, <1>2, RecordingKept
    <2>4. \A e \in Delivery : Recording(w, e)' <=> e = d
      BY <1>1, <1>2, <1>4, <2>1, CurrentUnique DEF Recording, Current
    <2>5. \A e \in Delivery : ~Recording(w, e)
      BY <1>2 DEF Recording
    <2>6. \A e \in Delivery : e \in Answered' <=> (e \in Answered \/ e = d)
      BY <2>3, <2>4, <2>5 DEF Answered
    <2>7. Answered' = Answered \union {d}
      BY <2>2, <2>6 DEF Answered
    <2>8. stream[m] = [d |-> d, attempt |-> stream[m].attempt]
      BY <1>1, <2>2, JobsInStream DEF Job
    <2>9. Handed[d] # {}
      <3>1. Published(d, stream[m].attempt)
        BY <2>2, <2>8 DEF Published, Jobs
      <3>2. stream[m].attempt \in Handed[d]
        BY <2>2, <3>1 DEF Handed
      <3> QED
        BY <3>2
    <2>10. Stage' = Stage /\ Handed' = Handed
      BY <1>2, StageKept, HandedKept
    <2>11. Contract!Answer(d)
      BY <2>7, <2>9, <2>10 DEF Contract!Answer
    <2> QED
      BY <2>2, <2>11 DEF Contract!Next
  <1>5. CASE ~\E m \in batch[w] : Current(w, m)
    <2>1. \A v \in Worker \ {w}, e \in Delivery : Recording(v, e)' <=> Recording(v, e)
      BY <1>1, <1>2, RecordingKept
    <2>2. \A e \in Delivery : ~Recording(w, e)' /\ ~Recording(w, e)
      BY <1>2, <1>5 DEF Recording, Current
    <2>3. \A e \in Delivery : e \in Answered' <=> e \in Answered
      BY <2>1, <2>2 DEF Answered
    <2>4. Answered' = Answered
      BY <2>3 DEF Answered
    <2> QED
      BY <1>2, <2>4, StageKept, HandedKept, Stutters
  <1> QED
    BY <1>2, <1>3, <1>4, <1>5

LEMMA WorkerSimulated ==
  ASSUME RInv, NEW w \in Worker, WorkerStep(w) \/ WorkerFailure(w)
  PROVE  [Contract!Next]_(Contract!vars)
  <1> USE DEF db, redis, workers
  <1>1. TypeOK /\ PositionsOK
    BY DEF RInv, IInv
  <1>2. \A v \in Worker \ {w} : pc'[v] = pc[v] /\ batch'[v] = batch[v]
    BY <1>1 DEF WorkerStep, WorkerFailure, AutoClaim, ReadNew, Preflight, GateWrite, Post,
       RecordSuccess, RecordFailure, Ack, AckThenThrow, AutoClaimThrows, ReadReplyLost,
       RecordSuccessThrows, RecordFailureThrows, LoopError, WorkerCrash, Receive, Goto,
       LeaveBatch, TypeOK
  <1>3. stream' = stream
    BY DEF WorkerStep, WorkerFailure, AutoClaim, ReadNew, Preflight, GateWrite, Post,
       RecordSuccess, RecordFailure, Ack, AckThenThrow, AutoClaimThrows, ReadReplyLost,
       RecordSuccessThrows, RecordFailureThrows, LoopError, WorkerCrash, Deliver
  <1>4. CASE AutoClaim(w) \/ ReadNew(w) \/ AutoClaimThrows(w) \/ ReadReplyLost(w)
    <2>1. pc[w] # "ok" /\ pc'[w] # "ok" /\ row' = row
      BY <1>1, <1>4 DEF AutoClaim, ReadNew, AutoClaimThrows, ReadReplyLost, Receive, TypeOK
    <2> QED
      BY <1>2, <1>3, <2>1, WorkerStutters
  <1>5. CASE Preflight(w) \/ Ack(w) \/ AckThenThrow(w) \/ LoopError(w)
    <2>1. pc[w] # "ok" /\ row' = row
      BY <1>5 DEF Preflight, Ack, AckThenThrow, LoopError
    <2>2. pc'[w] # "ok"
      <3>1. resume[w] # "ok"
        BY <1>1 DEF TypeOK
      <3> QED
        BY <1>1, <1>5, <3>1 DEF Preflight, Ack, AckThenThrow, LoopError, Goto, LeaveBatch, TypeOK
    <2> QED
      BY <1>2, <1>3, <2>1, <2>2, WorkerStutters
  <1>6. CASE Post(w)
    BY <1>6, PostSimulated
  <1>7. CASE GateWrite(w) \/ RecordFailure(w) \/ RecordFailureThrows(w)
    <2>1. pc[w] # "ok" /\ pc'[w] # "ok"
      BY <1>1, <1>7 DEF GateWrite, RecordFailure, RecordFailureThrows, Goto, TypeOK
    <2>2. Answered' = Answered
      BY <1>1, <1>2, <1>3, <2>1, AnsweredKept
    <2>3. CASE row' = row
      BY <1>2, <1>3, <2>1, <2>3, WorkerStutters
    <2>4. CASE row' # row
      <3>1. \E m \in batch[w] : WriteFailure(m)
        BY <1>7, <2>4 DEF GateWrite, RecordFailure, RecordFailureThrows
      <3> QED
        BY <1>3, <2>2, <3>1, FailureSimulated
    <2> QED
      BY <2>3, <2>4
  <1>8. CASE RecordSuccess(w) \/ RecordSuccessThrows(w)
    <2>1. pc[w] = "ok" /\ pc'[w] # "ok"
      BY <1>1, <1>8 DEF RecordSuccess, RecordSuccessThrows, Goto, TypeOK
    <2>2. CASE row' = row
      BY <1>1, <1>2, <1>3, <2>1, <2>2, ForgetSimulated
    <2>3. CASE row' # row
      <3>1. \E m \in batch[w] :
               Current(w, m) /\ Write(stream[m].d, AfterSuccess(row[stream[m].d]))
        BY <1>8, <2>3 DEF RecordSuccess, RecordSuccessThrows
      <3> QED
        BY <1>2, <1>3, <2>1, <3>1, SuccessSimulated
    <2> QED
      BY <2>2, <2>3
  <1>9. CASE WorkerCrash(w)
    <2>1. row' = row /\ pc'[w] # "ok"
      BY <1>1, <1>9 DEF WorkerCrash, LeaveBatch, TypeOK
    <2>2. CASE pc[w] = "ok"
      BY <1>1, <1>2, <1>3, <2>1, <2>2, ForgetSimulated
    <2>3. CASE pc[w] # "ok"
      BY <1>2, <1>3, <2>1, <2>3, WorkerStutters
    <2> QED
      BY <2>2, <2>3
  <1> QED
    BY <1>4, <1>5, <1>6, <1>7, <1>8, <1>9 DEF WorkerStep, WorkerFailure

LEMMA StepSimulated ==
  ASSUME RInv, [Next]_vars
  PROVE  [Contract!Next]_(Contract!vars)
  <1>1. CASE API
    BY <1>1, IngestSimulated, ReplaySimulated DEF API
  <1>2. CASE Scheduler
    BY <1>2, SchedulerSimulated
  <1>3. ASSUME NEW p \in Publisher, PublisherStep(p) \/ PublisherFailure(p)
        PROVE  [Contract!Next]_(Contract!vars)
    BY <1>3, PublisherSimulated
  <1>4. ASSUME NEW w \in Worker, WorkerStep(w) \/ WorkerFailure(w)
        PROVE  [Contract!Next]_(Contract!vars)
    BY <1>4, WorkerSimulated
  <1>5. CASE Idle \/ Slow \/ UNCHANGED vars
    <2>1. row' = row /\ stream' = stream /\ pc' = pc /\ batch' = batch
      BY <1>5 DEF Idle, Slow, StrandedIdle, SlowIdle, vars, db, redis, workers
    <2>2. Stage' = Stage /\ Handed' = Handed /\ Answered' = Answered
      BY <2>1, StageKept, HandedKept, AnsweredKept DEF RInv, IInv
    <2> QED
      BY <2>2, Stutters
  <1> QED
    BY <1>1, <1>2, <1>3, <1>4, <1>5 DEF Next

LEMMA InitSimulated == Init => Contract!Init
  <1> SUFFICES ASSUME Init PROVE Contract!Init
    OBVIOUS
  <1>1. Stage = [d \in Delivery |-> "none"]
    BY DEF Init, NoRow, Stage, StageOf
  <1>2. \A d, k : ~Published(d, k)
    BY DEF Init, Published, Jobs
  <1>3. Handed = [d \in Delivery |-> {}]
    BY <1>2 DEF Handed
  <1>4. Answered = {}
    BY DEF Init, Answered, Recording
  <1> QED
    BY <1>1, <1>3, <1>4 DEF Contract!Init

\* What is in the outbox or in the stream was ingested, in every reachable state.
THEOREM KnownInvariance == Spec => []RInv
  <1>1. Init => KnownOK
    BY DEF Init, KnownOK
  <1>2. IInv /\ KnownOK /\ [Next]_vars => KnownOK'
    BY KnownStep DEF IInv
  <1>3. IInv /\ KnownOK => RInv
    BY DEF RInv
  <1> QED
    BY <1>1, <1>2, <1>3, Invariance, PTL DEF Spec

\* The tables, streams and processes implement what EventRelay promises of a
\* delivery: whatever crashes, throws, is replayed or overtaken, deliveries of
\* an event are accepted together, attempts enter the stream in order, success
\* is recorded only on an endpoint's answer (processJob), and a delivery dies
\* only after its last attempt was handed out (handleFailure, retry scheduler).
THEOREM Implements == Spec => KeepsContract
  <1>1. RInv /\ [Next]_vars => [Contract!Next]_(Contract!vars)
    BY StepSimulated
  <1> QED
    BY <1>1, InitSimulated, KnownInvariance, PTL DEF Spec, KeepsContract, Contract!Spec

=============================================================================
