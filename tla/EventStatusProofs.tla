-------------------------- MODULE EventStatusProofs --------------------------
(***************************************************************************)
(* Machine-checked proofs about EventStatus, for any number of deliveries  *)
(* and workers.                                                            *)
(***************************************************************************)
EXTENDS EventStatus, FiniteSetTheorems, TLAPS

-----------------------------------------------------------------------------
(* The inductive invariant                                                 *)

Busy == {w \in Worker : pc[w] # "idle"}

Decided(st) == \A d \in Delivery : st[d] # "RETRYING"

\* A retry waits for an open delivery, and the open transactions have locked
\* theirs apart from each other.
TransactionsOK ==
    /\ \A d \in waiting : status[d] = "RETRYING"
    /\ poll.S \subseteq waiting /\ replay.d \notin poll.S
    /\ poll.step # "idle" <=> poll.S # {}
    /\ replay.step # "idle" <=> replay.d # None
    /\ replay.step = "commit" => replay.tally = "PROCESSING"
    /\ poll.step = "commit" => poll.tally = "PROCESSING"

\* A worker that is not idle has a delivery, and one that has just written knows
\* what it wrote.
WorkersOK ==
    \A w \in Worker :
        /\ pc[w] = "idle" <=> job[w] = None
        /\ throws = 0 => pc[w] # "fail"

\* Until something disturbs the event an open delivery has one job, which is
\* queued, waits for its retry or is about to be recorded, and a decided one has
\* none.
OneJob ==
    /\ \A d \in queued \union waiting : status[d] = "RETRYING"
    /\ queued \intersect waiting = {}
    /\ \A w \in Worker :
          /\ pc[w] # "fail"
          /\ pc[w] = "write" =>
                /\ status[job[w]] = "RETRYING"
                /\ job[w] \notin queued \union waiting
                /\ \A v \in Worker : v # w /\ pc[v] = "write" => job[v] # job[w]

\* A finished status is one of deliveries that are all decided, and stays true.
Exact(s) == s # "PROCESSING" => Decided(status) /\ s = Expected(status)

FinishedOK ==
    /\ OneJob
    /\ Exact(event)
    /\ \A w \in Worker : pc[w] = "update" => Exact(tally[w])

\* With one worker at a time the last synchronization follows the last write:
\* what may still be wrong has a job left or a worker between write and update.
RepairOK ==
    /\ \A v, w \in Busy : v = w
    /\ queued = {} /\ waiting = {} =>
          /\ \A w \in Worker : pc[w] = "update" => tally[w] = Expected(status)
          /\ (\A w \in Worker : pc[w] \in {"idle", "ack"}) => event = Expected(status)

EInv ==
    /\ TypeOK /\ TransactionsOK /\ WorkersOK
    /\ ~disturbed => FinishedOK
    /\ throws = 0 /\ ~overlapped => RepairOK

-----------------------------------------------------------------------------
(* Proofs                                                                  *)

\* The counts of the SQL statement decide what the comment above
\* syncEventStatus says of the statuses.
LEMMA AggregateIsExpected ==
  ASSUME NEW st \in [Delivery -> DeliveryStatuses]
  PROVE  /\ Aggregate(st) = Expected(st)
         /\ Aggregate(st) \in EventStatuses
         /\ Aggregate(st) # "PROCESSING" => Decided(st)
  <1> DEFINE counted(s) == Cardinality({d \in Delivery : st[d] = s})
  <1>1. DOMAIN st = Delivery /\ Delivery # {} /\ IsFiniteSet(Delivery)
    BY EventAssumption
  <1>2. ASSUME NEW s \in DeliveryStatuses
        PROVE  /\ counted(s) \in Nat /\ Cardinality(Delivery) \in Nat
               /\ counted(s) > 0 <=> \E d \in Delivery : st[d] = s
               /\ counted(s) = Cardinality(Delivery) <=> \A d \in Delivery : st[d] = s
    <2> DEFINE S == {d \in Delivery : st[d] = s}
    <2>1. S \subseteq Delivery /\ IsFiniteSet(S)
      BY <1>1, FS_Subset
    <2>2. Cardinality(S) \in Nat /\ Cardinality(Delivery) \in Nat
      BY <1>1, <2>1, FS_CardinalityType
    <2>3. Cardinality(S) = 0 <=> S = {}
      BY <2>1, FS_EmptySet
    <2>4. Cardinality(S) = Cardinality(Delivery) <=> S = Delivery
      BY <1>1, <2>1, FS_Subset
    <2> HIDE DEF S
    <2>5. Cardinality(S) > 0 <=> S # {}
      BY <2>2, <2>3
    <2>6. counted(s) = Cardinality(S)
      BY DEF S
    <2> QED
      BY <2>2, <2>4, <2>5, <2>6 DEF S
  <1> HIDE DEF counted
  <1>3. Aggregate(st) = CASE counted("RETRYING") > 0 -> "PROCESSING"
                          [] counted("SUCCESS") = Cardinality(Delivery) -> "COMPLETED"
                          [] counted("DEAD_LETTER") = Cardinality(Delivery) -> "FAILED"
                          [] OTHER -> "PARTIAL_SUCCESS"
    BY <1>1 DEF Aggregate, counted
  <1>4. \A d \in Delivery : st[d] \in DeliveryStatuses
    OBVIOUS
  <1>5. CASE \E d \in Delivery : st[d] = "RETRYING"
    <2>1. Aggregate(st) = "PROCESSING"
      BY <1>2, <1>3, <1>5 DEF DeliveryStatuses
    <2>2. Expected(st) = "PROCESSING"
      BY <1>1, <1>5 DEF Expected
    <2> QED
      BY <2>1, <2>2 DEF EventStatuses
  <1>6. CASE \A d \in Delivery : st[d] # "RETRYING"
    <2>1. ~(counted("RETRYING") > 0) /\ Decided(st)
      BY <1>2, <1>6 DEF DeliveryStatuses, Decided
    <2>2. "RETRYING" \notin {st[d] : d \in Delivery}
      BY <1>6
    <2>3. CASE \A d \in Delivery : st[d] = "SUCCESS"
      <3>1. counted("SUCCESS") = Cardinality(Delivery) /\ counted("DEAD_LETTER") # Cardinality(Delivery)
        BY <1>1, <1>2, <2>3 DEF DeliveryStatuses
      <3>3. Aggregate(st) = "COMPLETED"
        BY <1>3, <2>1, <3>1
      <3>2. {st[d] : d \in Delivery} = {"SUCCESS"}
        BY <1>1, <2>3
      <3> QED
        BY <1>1, <2>1, <3>2, <3>3 DEF Expected, EventStatuses
    <2>4. CASE \A d \in Delivery : st[d] = "DEAD_LETTER"
      <3>1. ~(\A d \in Delivery : st[d] = "SUCCESS")
        BY <1>1, <2>4
      <3>2. Aggregate(st) = "FAILED"
        BY <1>2, <1>3, <2>1, <2>4, <3>1 DEF DeliveryStatuses
      <3>3. {st[d] : d \in Delivery} = {"DEAD_LETTER"}
        BY <1>1, <2>4
      <3> QED
        BY <1>1, <2>1, <3>2, <3>3 DEF Expected, EventStatuses
    <2>5. CASE /\ \E d \in Delivery : st[d] # "SUCCESS"
               /\ \E d \in Delivery : st[d] # "DEAD_LETTER"
      <3>1. Aggregate(st) = "PARTIAL_SUCCESS"
        BY <1>2, <1>3, <2>1, <2>5 DEF DeliveryStatuses
      <3>2. {st[d] : d \in Delivery} # {"SUCCESS"} /\ {st[d] : d \in Delivery} # {"DEAD_LETTER"}
        BY <2>5
      <3> QED
        BY <1>1, <2>1, <2>2, <3>1, <3>2 DEF Expected, EventStatuses
    <2> QED
      BY <2>3, <2>4, <2>5
  <1> QED
    BY <1>5, <1>6

\* An event that was just ingested.
LEMMA InitEInv == Init => EInv
  <1> SUFFICES ASSUME Init
               PROVE  EInv
    OBVIOUS
  <1>1. Expected(status) = "PROCESSING"
    BY EventAssumption DEF Init, Expected
  <1>2. TypeOK
    <2>1. replay \in Replays /\ poll \in Polls
      BY DEF Init, NoReplay, NoPoll, Replays, Polls, Steps, EventStatuses
    <2>2. /\ status \in [Delivery -> DeliveryStatuses] /\ event \in EventStatuses
          /\ queued \subseteq Delivery /\ waiting \subseteq Delivery
          /\ throws \in 0 .. MaxThrows
      BY EventAssumption DEF Init, DeliveryStatuses, EventStatuses
    <2>3. /\ pc \in [Worker -> {"idle", "write", "fail", "count", "update", "ack"}]
          /\ job \in [Worker -> Delivery \union {None}]
          /\ wrote \in [Worker -> DeliveryStatuses]
          /\ tally \in [Worker -> EventStatuses]
      BY DEF Init, DeliveryStatuses, EventStatuses
    <2>4. disturbed \in BOOLEAN /\ overlapped \in BOOLEAN
      BY DEF Init
    <2> QED
      BY <2>1, <2>2, <2>3, <2>4 DEF TypeOK
  <1>3. TransactionsOK /\ WorkersOK
    BY EventAssumption DEF Init, TransactionsOK, WorkersOK, NoReplay, NoPoll
  <1>4. FinishedOK
    BY DEF Init, FinishedOK, OneJob, Exact
  <1>5. RepairOK
    BY <1>1 DEF Init, RepairOK, Busy
  <1> QED
    BY <1>2, <1>3, <1>4, <1>5 DEF EInv

-----------------------------------------------------------------------------
(* Types                                                                   *)

\* What the counting statements return is an event status.
LEMMA SeenType ==
  ASSUME TypeOK, NEW S \in SUBSET (Delivery \union {None})
  PROVE  /\ Seen(S) \in [Delivery -> DeliveryStatuses]
         /\ Aggregate(Seen(S)) \in EventStatuses
         /\ Aggregate(status) \in EventStatuses
  <1>1. Seen(S) \in [Delivery -> DeliveryStatuses]
    BY DEF Seen, TypeOK, DeliveryStatuses
  <1>2. status \in [Delivery -> DeliveryStatuses]
    BY DEF TypeOK
  <1> QED
    BY <1>1, <1>2, AggregateIsExpected

\* A transaction that begins, counts and ends.
LEMMA TransactionTypes ==
  ASSUME replay \in Replays, poll \in Polls
  PROVE  /\ NoReplay \in Replays /\ NoPoll \in Polls
         /\ \A d \in Delivery : [NoReplay EXCEPT !.d = d, !.step = "count"] \in Replays
         /\ \A S \in SUBSET Delivery : [NoPoll EXCEPT !.S = S, !.step = "count"] \in Polls
         /\ \A t \in EventStatuses :
               /\ [replay EXCEPT !.step = "commit", !.tally = t] \in Replays
               /\ [poll EXCEPT !.step = "commit", !.tally = t] \in Polls
         /\ replay.d \in Delivery \union {None} /\ replay.tally \in EventStatuses
         /\ poll.S \subseteq Delivery /\ poll.tally \in EventStatuses
  BY DEF Replays, Polls, Steps, NoReplay, NoPoll, EventStatuses

LEMMA StepType ==
  ASSUME TypeOK, TransactionsOK, WorkersOK, [Next]_vars
  PROVE  TypeOK'
  <1>0. replay \in Replays /\ poll \in Polls
    BY DEF TypeOK
  <1> USE EventAssumption DEF local, history
  <1>1. ASSUME NEW w \in Worker, WorkerStep(w)
        PROVE  TypeOK'
    <2>1. pc[w] # "idle" => job[w] \in Delivery
      BY DEF TypeOK, WorkersOK
    <2>2. ASSUME NEW d \in Delivery, Take(w, d)
          PROVE  TypeOK'
      BY <2>2 DEF Take, Goto, TypeOK
    <2>3. ASSUME NEW O \in SUBSET DeliveryStatuses, Write(w, O), pc[w] # "idle"
          PROVE  TypeOK'
      BY <2>1, <2>3 DEF Write, Goto, TypeOK
    <2>4. CASE WriteOutcome(w)
      BY <2>3, <2>4 DEF WriteOutcome
    <2>5. CASE WriteFailure(w)
      BY <2>3, <2>5 DEF WriteFailure, Failures, DeliveryStatuses
    <2>6. CASE CountDeliveries(w)
      <3>1. Aggregate(status) \in EventStatuses
        BY SeenType
      <3> QED
        BY <2>6, <3>1 DEF CountDeliveries, Goto, TypeOK
    <2>7. CASE UpdateEvent(w)
      BY <2>7 DEF UpdateEvent, Goto, TypeOK
    <2>8. CASE Ack(w)
      BY <2>8 DEF Ack, Leave, Goto, TypeOK, DeliveryStatuses, EventStatuses
    <2>9. CASE SyncThrows(w)
      BY <2>9 DEF SyncThrows, Goto, TypeOK
    <2>10. CASE Crash(w)
      BY <2>1, <2>10 DEF Crash, Leave, Goto, TypeOK, DeliveryStatuses, EventStatuses
    <2> QED
      BY <1>1, <2>2, <2>4, <2>5, <2>6, <2>7, <2>8, <2>9, <2>10 DEF WorkerStep
  <1>10. ASSUME NEW d \in Delivery, Redeliver(d)
         PROVE  TypeOK'
    BY <1>10 DEF Redeliver, TypeOK
  <1>2. ASSUME NEW d \in Delivery, ReplayBegin(d)
        PROVE  TypeOK'
    BY <1>0, <1>2, TransactionTypes DEF ReplayBegin, TypeOK
  <1>3. CASE ReplayCount
    <2>1. replay' \in Replays
      BY <1>0, <1>3, TransactionTypes, SeenType DEF ReplayCount
    <2> QED
      BY <1>3, <2>1 DEF ReplayCount, TypeOK
  <1>4. CASE ReplayCommit
    <2>1. Seen({replay.d}) \in [Delivery -> DeliveryStatuses]
      BY <1>0, TransactionTypes, SeenType
    <2>2. replay.d \in Delivery
      BY <1>0, <1>4, TransactionTypes DEF ReplayCommit, TransactionsOK
    <2>3. replay.tally \in EventStatuses /\ NoReplay \in Replays
      BY <1>0, TransactionTypes
    <2> QED
      BY <1>4, <2>1, <2>2, <2>3 DEF ReplayCommit, TypeOK
  <1>5. ASSUME NEW S \in SUBSET waiting, PollBegin(S)
        PROVE  TypeOK'
    <2>1. poll' \in Polls
      BY <1>0, <1>5, TransactionTypes DEF PollBegin, TypeOK
    <2> QED
      BY <1>5, <2>1 DEF PollBegin, TypeOK
  <1>6. CASE PollCount
    <2>1. poll' \in Polls
      BY <1>0, <1>6, TransactionTypes, SeenType DEF PollCount
    <2> QED
      BY <1>6, <2>1 DEF PollCount, TypeOK
  <1>7. CASE PollCommit
    <2>1. poll.S \subseteq Delivery /\ poll.tally \in EventStatuses /\ NoPoll \in Polls
      BY <1>0, TransactionTypes
    <2> QED
      BY <1>7, <2>1 DEF PollCommit, TypeOK
  <1>8. CASE RollBack
    <2>1. NoReplay \in Replays /\ NoPoll \in Polls
      BY <1>0, TransactionTypes
    <2> QED
      BY <1>8, <2>1 DEF RollBack, TypeOK
  <1>9. CASE UNCHANGED vars
    BY <1>9 DEF vars, TypeOK
  <1> QED
    BY <1>1, <1>2, <1>3, <1>4, <1>5, <1>6, <1>7, <1>8, <1>9, <1>10 DEF Next

-----------------------------------------------------------------------------
(* Transactions and workers                                                *)

\* A row a transaction has locked is not written by a worker, and a poll only
\* resets what waits for it.
LEMMA StepTransactions ==
  ASSUME TypeOK, TransactionsOK, WorkersOK, [Next]_vars
  PROVE  TransactionsOK'
  <1>0. replay \in Replays /\ poll \in Polls
    BY DEF TypeOK
  <1> USE EventAssumption DEF local, history, TransactionsOK
  <1>1. ASSUME NEW w \in Worker, WorkerStep(w)
        PROVE  TransactionsOK'
    <2>1. ASSUME NEW O \in SUBSET DeliveryStatuses, Write(w, O), pc[w] # "idle"
          PROVE  TransactionsOK'
      <3>1. job[w] \in Delivery /\ job[w] \notin poll.S
        BY <2>1 DEF TypeOK, WorkersOK, Write, LockedRows
      <3> QED
        BY <2>1, <3>1 DEF Write, TypeOK
    <2>2. CASE WriteOutcome(w) \/ WriteFailure(w)
      BY <2>1, <2>2 DEF WriteOutcome, WriteFailure, Failures, DeliveryStatuses
    <2>3. CASE \E d \in Delivery : Take(w, d)
      BY <2>3 DEF Take
    <2>4. CASE CountDeliveries(w) \/ UpdateEvent(w) \/ Ack(w) \/ SyncThrows(w) \/ Crash(w)
      BY <2>4 DEF CountDeliveries, UpdateEvent, Ack, SyncThrows, Crash
    <2> QED
      BY <1>1, <2>2, <2>3, <2>4 DEF WorkerStep
  <1>2. ASSUME NEW d \in Delivery, ReplayBegin(d)
        PROVE  TransactionsOK'
    <2>1. replay'.d = d /\ replay'.step = "count"
      BY <1>2 DEF ReplayBegin, NoReplay
    <2> QED
      BY <1>2, <2>1 DEF ReplayBegin, LockedRows
  <1>3. CASE ReplayCount
    <2>1. replay'.d = replay.d /\ replay'.step = "commit"
          /\ replay'.tally = Aggregate(Seen({replay.d}))
      BY <1>0, <1>3 DEF ReplayCount, Replays
    <2>2. replay.d \in Delivery /\ {replay.d} \in SUBSET (Delivery \union {None})
      BY <1>0, <1>3 DEF ReplayCount, Replays
    <2>3. Seen({replay.d}) \in [Delivery -> DeliveryStatuses]
      BY <2>2, SeenType
    <2>4. Seen({replay.d})[replay.d] = "RETRYING"
      BY <2>2 DEF Seen
    <2>5. Aggregate(Seen({replay.d})) = "PROCESSING"
      BY <2>2, <2>3, <2>4, AggregateIsExpected DEF Decided
    <2> QED
      BY <1>3, <2>1, <2>5 DEF ReplayCount
  <1>4. CASE ReplayCommit
    <2>1. \A d \in waiting' : status'[d] = "RETRYING"
      BY <1>4 DEF ReplayCommit, Seen, TypeOK
    <2>2. poll.S \subseteq waiting'
      BY <1>4 DEF ReplayCommit
    <2>3. replay'.d = None /\ replay'.step = "idle" /\ None \notin poll.S
      BY <1>0, <1>4 DEF ReplayCommit, NoReplay, Polls
    <2> QED
      BY <1>4, <2>1, <2>2, <2>3 DEF ReplayCommit
  <1>5. ASSUME NEW S \in SUBSET waiting, PollBegin(S)
        PROVE  TransactionsOK'
    <2>1. poll'.S = S /\ poll'.step = "count"
      BY <1>5 DEF PollBegin, NoPoll
    <2> QED
      BY <1>5, <2>1 DEF PollBegin, LockedRows
  <1>6. CASE PollCount
    <2>1. poll'.S = poll.S /\ poll'.step = "commit" /\ poll'.tally = Aggregate(status)
      BY <1>0, <1>6 DEF PollCount, Polls
    <2>2. PICK d \in Delivery : status[d] = "RETRYING"
      BY <1>6 DEF PollCount, TypeOK
    <2>3. Aggregate(status) = "PROCESSING"
      BY <2>2, AggregateIsExpected DEF TypeOK, Decided
    <2> QED
      BY <1>6, <2>1, <2>3 DEF PollCount
  <1>7. CASE PollCommit
    <2>1. poll'.S = {} /\ poll'.step = "idle"
      BY <1>7 DEF PollCommit, NoPoll
    <2> QED
      BY <1>7, <2>1 DEF PollCommit
  <1>8. CASE RollBack
    <2>1. CASE replay' = NoReplay /\ UNCHANGED poll
      <3>1. replay'.d = None /\ replay'.step = "idle" /\ None \notin poll.S
        BY <1>0, <2>1 DEF NoReplay, Polls
      <3> QED
        BY <1>8, <2>1, <3>1 DEF RollBack
    <2>2. CASE poll' = NoPoll /\ UNCHANGED replay
      <3>1. poll'.S = {} /\ poll'.step = "idle"
        BY <2>2 DEF NoPoll
      <3> QED
        BY <1>8, <2>2, <3>1 DEF RollBack
    <2> QED
      BY <1>8, <2>1, <2>2 DEF RollBack
  <1>9. CASE UNCHANGED vars \/ \E d \in Delivery : Redeliver(d)
    BY <1>9 DEF vars, Redeliver
  <1> QED
    BY <1>1, <1>2, <1>3, <1>4, <1>5, <1>6, <1>7, <1>8, <1>9 DEF Next

LEMMA StepWorkers ==
  ASSUME TypeOK, WorkersOK, [Next]_vars
  PROVE  WorkersOK'
  <1> USE EventAssumption DEF local, history, WorkersOK, TypeOK, Goto
  <1>1. ASSUME NEW w \in Worker, WorkerStep(w)
        PROVE  WorkersOK'
    <2>1. CASE \E d \in Delivery : Take(w, d)
      BY <2>1 DEF Take
    <2>2. CASE WriteOutcome(w) \/ WriteFailure(w)
      BY <2>2 DEF WriteOutcome, WriteFailure, Write
    <2>3. CASE CountDeliveries(w) \/ UpdateEvent(w)
      BY <2>3 DEF CountDeliveries, UpdateEvent
    <2>4. CASE Ack(w) \/ Crash(w)
      BY <2>4 DEF Ack, Crash, Leave
    <2>5. CASE SyncThrows(w)
      BY <2>5 DEF SyncThrows
    <2> QED
      BY <1>1, <2>1, <2>2, <2>3, <2>4, <2>5 DEF WorkerStep
  <1>2. CASE \/ \E d \in Delivery : Redeliver(d) \/ ReplayBegin(d)
             \/ ReplayCount \/ ReplayCommit
             \/ \E S \in SUBSET waiting : PollBegin(S)
             \/ PollCount \/ PollCommit \/ RollBack \/ UNCHANGED vars
    BY <1>2 DEF Redeliver, ReplayBegin, ReplayCount, ReplayCommit, PollBegin, PollCount, PollCommit,
                RollBack, vars
  <1> QED
    BY <1>1, <1>2 DEF Next

-----------------------------------------------------------------------------
(* FinishedIsExact                                                         *)

\* What crashes, replays, redeliveries and throws would do, they do to the history.
LEMMA StepFinished ==
  ASSUME EInv, TypeOK', [Next]_vars, ~disturbed'
  PROVE  FinishedOK'
  <1>0. ~disturbed /\ TypeOK /\ TransactionsOK /\ WorkersOK /\ FinishedOK
    <2>1. ~disturbed
      BY DEF Next, WorkerStep, Take, WriteOutcome, WriteFailure, Write, CountDeliveries,
             UpdateEvent, Ack, SyncThrows, Crash, Redeliver, ReplayBegin, ReplayCount,
             ReplayCommit, PollBegin, PollCount, PollCommit, RollBack, vars, local, history, EInv
    <2> QED
      BY <2>1 DEF EInv
  <1> USE EventAssumption DEF local, history
  <1>1. ASSUME NEW w \in Worker, WorkerStep(w)
        PROVE  FinishedOK'
    <2>1. ASSUME NEW d \in Delivery, Take(w, d)
          PROVE  FinishedOK'
      BY <1>0, <2>1 DEF Take, Goto, FinishedOK, OneJob, Exact, TypeOK
    <2>2. CASE WriteOutcome(w)
      <3>1. /\ pc[w] = "write" /\ job[w] \in Delivery /\ status[job[w]] = "RETRYING"
            /\ job[w] \notin queued \union waiting
        BY <1>0, <2>2 DEF WriteOutcome, WorkersOK, TypeOK, FinishedOK, OneJob
      <3>2. PICK s \in DeliveryStatuses :
               /\ status' = [status EXCEPT ![job[w]] = s]
               /\ waiting' = IF s = "RETRYING" THEN waiting \union {job[w]}
                             ELSE waiting \ {job[w]}
        BY <2>2 DEF WriteOutcome, Write
      <3>3. pc' = [pc EXCEPT ![w] = "count"] /\ queued' = queued /\ job' = job
            /\ event' = event /\ tally' = tally
        BY <2>2 DEF WriteOutcome, Write, Goto
      <3>4. ~Decided(status)
        BY <3>1 DEF Decided
      <3>5. event = "PROCESSING" /\ \A v \in Worker : pc[v] = "update" => tally[v] = "PROCESSING"
        BY <1>0, <3>4 DEF FinishedOK, Exact
      <3>6. OneJob'
        <4>1. \A d \in queued' \union waiting' : status'[d] = "RETRYING"
          BY <1>0, <3>1, <3>2, <3>3 DEF FinishedOK, OneJob, TypeOK
        <4>2. queued' \intersect waiting' = {}
          BY <1>0, <3>1, <3>2, <3>3 DEF FinishedOK, OneJob
        <4>3. ASSUME NEW v \in Worker, pc'[v] = "write"
              PROVE  /\ status'[job'[v]] = "RETRYING"
                     /\ job'[v] \notin queued' \union waiting'
                     /\ \A u \in Worker : u # v /\ pc'[u] = "write" => job'[u] # job'[v]
          <5>1. v # w /\ pc[v] = "write" /\ job[v] # job[w] /\ job[v] \in Delivery
            BY <1>0, <3>1, <3>3, <4>3 DEF TypeOK, FinishedOK, OneJob, WorkersOK
          <5>2. status[job[v]] = "RETRYING" /\ job[v] \notin queued \union waiting
            BY <1>0, <5>1 DEF FinishedOK, OneJob
          <5>3. \A u \in Worker : pc'[u] = "write" => pc[u] = "write"
            BY <1>0, <3>3 DEF TypeOK
          <5> QED
            BY <1>0, <3>2, <3>3, <5>1, <5>2, <5>3 DEF TypeOK, FinishedOK, OneJob
        <4>4. \A v \in Worker : pc'[v] # "fail"
          BY <1>0, <3>3 DEF TypeOK, FinishedOK, OneJob
        <4> QED
          BY <4>1, <4>2, <4>3, <4>4 DEF OneJob
      <3> QED
        BY <1>0, <3>3, <3>5, <3>6 DEF FinishedOK, Exact, TypeOK
    <2>3. CASE WriteFailure(w)
      BY <1>0, <2>3 DEF WriteFailure, FinishedOK, OneJob
    <2>4. CASE CountDeliveries(w)
      <3>1. Exact(Aggregate(status))
        BY <1>0, AggregateIsExpected DEF TypeOK, Exact
      <3> QED
        BY <1>0, <2>4, <3>1
           DEF CountDeliveries, Goto, FinishedOK, OneJob, Exact, Decided, TypeOK
    <2>5. CASE UpdateEvent(w)
      BY <1>0, <2>5 DEF UpdateEvent, Goto, FinishedOK, OneJob, Exact, Decided, TypeOK
    <2>6. CASE Ack(w)
      BY <1>0, <2>6 DEF Ack, Leave, Goto, FinishedOK, OneJob, Exact, Decided, TypeOK
    <2>7. CASE SyncThrows(w) \/ Crash(w)
      BY <2>7 DEF SyncThrows, Crash
    <2> QED
      BY <1>1, <2>1, <2>2, <2>3, <2>4, <2>5, <2>6, <2>7 DEF WorkerStep
  <1>2. CASE \/ \E d \in Delivery : ReplayBegin(d)
             \/ ReplayCount
             \/ \E S \in SUBSET waiting : PollBegin(S)
             \/ PollCount \/ RollBack \/ UNCHANGED vars
    <2>1. UNCHANGED <<status, event, queued, waiting, pc, job, tally>>
      BY <1>2 DEF ReplayBegin, ReplayCount, PollBegin, PollCount, RollBack, vars
    <2> QED
      BY <1>0, <2>1 DEF FinishedOK, OneJob, Exact, Decided
  <1>3. CASE ReplayCommit \/ \E d \in Delivery : Redeliver(d)
    BY <1>3 DEF ReplayCommit, Redeliver
  <1>4. CASE PollCommit
    <2>1. event' = "PROCESSING" /\ poll.S \subseteq waiting
      BY <1>0, <1>4 DEF PollCommit, TransactionsOK
    <2> QED
      BY <1>0, <1>4, <2>1 DEF PollCommit, FinishedOK, OneJob, Exact, Decided
  <1> QED
    BY <1>1, <1>2, <1>3, <1>4 DEF Next

-----------------------------------------------------------------------------
(* FinalStatusRepaired                                                     *)

LEMMA StepRepair ==
  ASSUME EInv, TypeOK', [Next]_vars, throws' = 0, ~overlapped'
  PROVE  RepairOK'
  <1>0. /\ throws = 0 /\ ~overlapped /\ TypeOK /\ TransactionsOK /\ WorkersOK /\ RepairOK
    <2>0. throws' = throws \/ throws' = throws + 1
      BY DEF Next, WorkerStep, Take, WriteOutcome, WriteFailure, Write, CountDeliveries,
             UpdateEvent, Ack, SyncThrows, Crash, Redeliver, ReplayBegin, ReplayCount,
             ReplayCommit, PollBegin, PollCount, PollCommit, RollBack, vars, local, history
    <2>1. throws = 0
      BY <2>0, EventAssumption DEF EInv, TypeOK
    <2>2. ~overlapped
      BY DEF Next, WorkerStep, Take, WriteOutcome, WriteFailure, Write, CountDeliveries,
             UpdateEvent, Ack, SyncThrows, Crash, Redeliver, ReplayBegin, ReplayCount,
             ReplayCommit, PollBegin, PollCount, PollCommit, RollBack, vars, local, history, EInv
    <2> QED
      BY <2>1, <2>2 DEF EInv
  <1> USE EventAssumption DEF local, history
  <1>1. ASSUME NEW w \in Worker, WorkerStep(w)
        PROVE  RepairOK'
    <2>1. ASSUME NEW d \in Delivery, Take(w, d)
          PROVE  RepairOK'
      BY <1>0, <2>1 DEF Take, Goto, RepairOK, Busy, TypeOK
    <2>2. CASE WriteOutcome(w)
      BY <1>0, <2>2 DEF WriteOutcome, Write, Goto, RepairOK, Busy, TypeOK
    <2>3. CASE WriteFailure(w)
      BY <1>0, <2>3 DEF WriteFailure, WorkersOK
    <2>4. CASE CountDeliveries(w)
      <3>1. Aggregate(status) = Expected(status)
        BY <1>0, AggregateIsExpected DEF TypeOK
      <3> QED
        BY <1>0, <2>4, <3>1 DEF CountDeliveries, Goto, RepairOK, Busy, TypeOK
    <2>5. CASE UpdateEvent(w)
      BY <1>0, <2>5 DEF UpdateEvent, Goto, RepairOK, Busy, TypeOK
    <2>6. CASE Ack(w)
      BY <1>0, <2>6 DEF Ack, Leave, Goto, RepairOK, Busy, TypeOK
    <2>7. CASE SyncThrows(w)
      BY <1>0, <2>7 DEF SyncThrows
    <2>8. CASE Crash(w)
      BY <1>0, <2>8 DEF Crash, Leave, Goto, RepairOK, Busy, TypeOK
    <2> QED
      BY <1>1, <2>1, <2>2, <2>3, <2>4, <2>5, <2>6, <2>7, <2>8 DEF WorkerStep
  <1>2. CASE \/ \E d \in Delivery : ReplayBegin(d)
             \/ ReplayCount
             \/ \E S \in SUBSET waiting : PollBegin(S)
             \/ PollCount \/ RollBack \/ UNCHANGED vars
    <2>1. UNCHANGED <<status, event, queued, waiting, pc, tally>>
      BY <1>2 DEF ReplayBegin, ReplayCount, PollBegin, PollCount, RollBack, vars
    <2> QED
      BY <1>0, <2>1 DEF RepairOK, Busy
  <1>3. CASE ReplayCommit \/ PollCommit \/ \E d \in Delivery : Redeliver(d)
    <2>1. queued' # {} /\ pc' = pc
      BY <1>0, <1>3 DEF ReplayCommit, PollCommit, Redeliver, TransactionsOK
    <2> QED
      BY <1>0, <2>1 DEF RepairOK, Busy
  <1> QED
    BY <1>1, <1>2, <1>3 DEF Next

-----------------------------------------------------------------------------

LEMMA StepEInv == EInv /\ [Next]_vars => EInv'
  <1> SUFFICES ASSUME EInv, [Next]_vars
               PROVE  EInv'
    OBVIOUS
  <1>1. TypeOK'
    BY StepType DEF EInv
  <1>2. TransactionsOK' /\ WorkersOK'
    BY StepTransactions, StepWorkers DEF EInv
  <1>3. ~disturbed' => FinishedOK'
    BY <1>1, StepFinished
  <1>4. throws' = 0 /\ ~overlapped' => RepairOK'
    BY <1>1, StepRepair
  <1> QED
    BY <1>1, <1>2, <1>3, <1>4 DEF EInv

\* The strengthened invariant holds of every behaviour.
THEOREM EventInvariance == Spec => []EInv
  BY InitEInv, StepEInv, PTL DEF Spec

\* Type correctness of rows, workers and open transactions.
THEOREM EventTypeCorrect == Spec => []TypeOK
  <1>1. EInv => TypeOK
    BY DEF EInv
  <1> QED
    BY <1>1, EventInvariance, PTL

\* As long as each job runs once and to its end (no crash, replay, redelivery or
\* throw) an event is shown as finished only when all its deliveries are, and as
\* what they are, whatever stale tallies are written: a delivery that is decided
\* has no job any more.
THEOREM FinishedStatusIsExact == Spec => []FinishedIsExact
  <1>1. EInv => FinishedIsExact
    BY DEF EInv, FinishedIsExact, FinishedOK, Exact
  <1> QED
    BY <1>1, EventInvariance, PTL

\* If the jobs of the event were processed one after the other and no
\* synchronization threw, the status is the aggregate once nothing is left to
\* do, in spite of any crashes, replays and polls.
THEOREM StatusIsRepaired == Spec => []FinalStatusRepaired
  <1>1. EInv => FinalStatusRepaired
    BY DEF EInv, FinalStatusRepaired, FinalStatusAgrees, RepairOK, AtRest
  <1> QED
    BY <1>1, EventInvariance, PTL

=============================================================================
