---------------------------- MODULE EventStatus ----------------------------
(***************************************************************************)
(* The aggregate status of one event: syncEventStatus counts the statuses  *)
(* of its deliveries with one statement and writes events.status with      *)
(* another, after every write of a delivery.  Workers run the statements   *)
(* autocommitted; the scheduler and a manual replay run them inside their  *)
(* transaction, under READ COMMITTED.  What becomes of each job is the     *)
(* business of DeliveryPipeline: here any outcome may be written.          *)
(***************************************************************************)
EXTENDS Naturals, FiniteSets

CONSTANTS
    Delivery,   \* the deliveries the event fanned out to
    Worker,     \* workers that process them
    None,       \* no delivery
    MaxThrows   \* bound: statements of syncEventStatus that throw in a worker

ASSUME EventAssumption ==
    /\ Delivery # {} /\ IsFiniteSet(Delivery) /\ None \notin Delivery
    /\ MaxThrows \in Nat

VARIABLES
    status,     \* deliveries.status, as committed
    event,      \* events.status, as committed
    queued,     \* deliveries with a job a worker may take (several jobs of
                \* one delivery count once)
    waiting,    \* deliveries whose retry the scheduler has still to queue
    pc,         \* worker: "idle", "write", "fail", "count", "update" or "ack"
    job,        \* the delivery a worker processes
    wrote,      \* the status it wrote last
    tally,      \* the event status it has computed and not yet written
    replay,     \* the replay transaction: its delivery, progress and tally
    poll,       \* the scheduler transaction: its deliveries, progress, tally
    throws,     \* how much of MaxThrows is used
    disturbed,  \* history: a crash, a replay, a redelivery or a throw happened
    overlapped  \* history: two workers have worked on the event at once

local == <<pc, job, wrote, tally>>
history == <<throws, disturbed, overlapped>>
vars == <<status, event, queued, waiting, local, replay, poll, history>>

DeliveryStatuses == {"RETRYING", "SUCCESS", "DEAD_LETTER"}
Failures == {"RETRYING", "DEAD_LETTER"}
EventStatuses == {"PROCESSING", "COMPLETED", "FAILED", "PARTIAL_SUCCESS"}

-----------------------------------------------------------------------------
(* syncEventStatus                                                         *)

\* Mutant of Aggregate: the open deliveries are left out of the count.
AggregateFinished(st) ==
    LET present == {st[d] : d \in DOMAIN st} \ {"RETRYING"} IN
    CASE present = {} -> "PROCESSING"
      [] present = {"SUCCESS"} -> "COMPLETED"
      [] present = {"DEAD_LETTER"} -> "FAILED"
      [] OTHER -> "PARTIAL_SUCCESS"

\* The cascade over the grouped counts: retrying > 0, success = total, and so
\* on.  The branch without rows needs an event without deliveries.
Aggregate(st) ==
    LET counted(s) == Cardinality({d \in DOMAIN st : st[d] = s})
        total == Cardinality(DOMAIN st)
    IN CASE counted("RETRYING") > 0 -> "PROCESSING"
         [] counted("SUCCESS") = total -> "COMPLETED"
         [] counted("DEAD_LETTER") = total -> "FAILED"
         [] OTHER -> "PARTIAL_SUCCESS"

\* What a transaction that reset the deliveries of S reads.
Seen(S) == [d \in Delivery |-> IF d \in S THEN "RETRYING" ELSE status[d]]

NoReplay == [d |-> None, step |-> "idle", tally |-> "PROCESSING"]
NoPoll   == [S |-> {}, step |-> "idle", tally |-> "PROCESSING"]

\* Row locks: a transaction keeps the deliveries it wrote until it commits; the
\* scheduler's FOR UPDATE over the join keeps the event row as well.
LockedRows == poll.S \union {replay.d}
EventLocked == poll.step # "idle"

Steps   == {"idle", "count", "commit"}
Replays == [d : Delivery \union {None}, step : Steps, tally : EventStatuses]
Polls   == [S : SUBSET Delivery, step : Steps, tally : EventStatuses]

\* Type invariant: statuses, local variables and open transactions.
TypeOK ==
    /\ status \in [Delivery -> DeliveryStatuses]
    /\ event \in EventStatuses
    /\ queued \subseteq Delivery
    /\ waiting \subseteq Delivery
    /\ pc \in [Worker -> {"idle", "write", "fail", "count", "update", "ack"}]
    /\ job \in [Worker -> Delivery \union {None}]
    /\ wrote \in [Worker -> DeliveryStatuses]
    /\ tally \in [Worker -> EventStatuses]
    /\ replay \in Replays /\ poll \in Polls
    /\ throws \in 0 .. MaxThrows
    /\ disturbed \in BOOLEAN
    /\ overlapped \in BOOLEAN

\* ingestEvent has committed the event with one queued job per delivery.
Init ==
    /\ status = [d \in Delivery |-> "RETRYING"]
    /\ event = "PROCESSING"
    /\ queued = Delivery /\ waiting = {}
    /\ pc = [w \in Worker |-> "idle"]
    /\ job = [w \in Worker |-> None]
    /\ wrote = [w \in Worker |-> "RETRYING"]
    /\ tally = [w \in Worker |-> "PROCESSING"]
    /\ replay = NoReplay /\ poll = NoPoll
    /\ throws = 0 /\ disturbed = FALSE /\ overlapped = FALSE

Goto(w, step) == pc' = [pc EXCEPT ![w] = step]

\* The local variables of processJob go out of scope.
Leave(w) ==
    /\ Goto(w, "idle")
    /\ job' = [job EXCEPT ![w] = None]
    /\ wrote' = [wrote EXCEPT ![w] = "RETRYING"]
    /\ tally' = [tally EXCEPT ![w] = "PROCESSING"]

-----------------------------------------------------------------------------
(* Workers: UPDATE deliveries, SELECT counts, UPDATE events, XACK          *)

Take(w, d) ==
    /\ pc[w] = "idle" /\ d \in queued
    /\ queued' = queued \ {d}
    /\ job' = [job EXCEPT ![w] = d]
    /\ Goto(w, "write")
    /\ overlapped' = (overlapped \/ \E v \in Worker : pc[v] # "idle")
    /\ UNCHANGED <<status, event, waiting, wrote, tally, replay, poll, throws, disturbed>>

Write(w, outcomes) ==
    /\ job[w] \notin LockedRows
    /\ \E s \in outcomes :
         /\ status' = [status EXCEPT ![job[w]] = s]
         /\ wrote' = [wrote EXCEPT ![w] = s]
         /\ waiting' = IF s = "RETRYING" THEN waiting \union {job[w]} ELSE waiting \ {job[w]}
    /\ Goto(w, "count")
    /\ UNCHANGED <<event, queued, job, tally, replay, poll, history>>

\* Mutant of WriteOutcome: a dead letter is not followed by syncEventStatus.
WriteOutcomeNoSync(w) ==
    /\ pc[w] = "write" /\ job[w] \notin LockedRows
    /\ \E s \in DeliveryStatuses :
         /\ status' = [status EXCEPT ![job[w]] = s]
         /\ wrote' = [wrote EXCEPT ![w] = s]
         /\ waiting' = IF s = "RETRYING" THEN waiting \union {job[w]} ELSE waiting \ {job[w]}
         /\ Goto(w, IF s = "DEAD_LETTER" THEN "ack" ELSE "count")
    /\ UNCHANGED <<event, queued, job, tally, replay, poll, history>>

\* Any outcome: delivered, to be retried, or out of attempts.
WriteOutcome(w) == pc[w] = "write" /\ Write(w, DeliveryStatuses)

\* handleFailure called by the catch block after a success was written.
WriteFailure(w) == pc[w] = "fail" /\ Write(w, Failures)

CountDeliveries(w) ==
    /\ pc[w] = "count"
    /\ tally' = [tally EXCEPT ![w] = Aggregate(status)]
    /\ Goto(w, "update")
    /\ UNCHANGED <<status, event, queued, waiting, job, wrote, replay, poll, history>>

\* Mutant of UpdateEvent: the status of the delivery is written to the event.
UpdateEventRaw(w) ==
    /\ pc[w] = "update" /\ ~EventLocked
    /\ event' = wrote[w]
    /\ Goto(w, "ack")
    /\ UNCHANGED <<status, queued, waiting, job, wrote, tally, replay, poll, history>>

UpdateEvent(w) ==
    /\ pc[w] = "update" /\ ~EventLocked
    /\ event' = tally[w]
    /\ Goto(w, "ack")
    /\ UNCHANGED <<status, queued, waiting, job, wrote, tally, replay, poll, history>>

Ack(w) ==
    /\ pc[w] = "ack"
    /\ Leave(w)
    /\ UNCHANGED <<status, event, queued, waiting, replay, poll, history>>

\* A statement of syncEventStatus throws: after a success the catch block
\* fails the delivery, after a failure only the finally block is left.
SyncThrows(w) ==
    /\ pc[w] \in {"count", "update"}
    /\ throws < MaxThrows
    /\ throws' = throws + 1 /\ disturbed' = TRUE
    /\ Goto(w, IF wrote[w] = "SUCCESS" THEN "fail" ELSE "ack")
    /\ UNCHANGED <<status, event, queued, waiting, job, wrote, tally, replay, poll,
                   overlapped>>

\* The worker dies, or a call throws before the try block: the job stays in
\* the pending entries list and is taken again.
Crash(w) ==
    /\ pc[w] # "idle"
    /\ queued' = queued \union {job[w]}
    /\ Leave(w)
    /\ disturbed' = TRUE
    /\ UNCHANGED <<status, event, waiting, replay, poll, throws, overlapped>>

\* A job may be taken once more: XAUTOCLAIM hands the entry of a worker that is
\* slow, not dead, to another one, or the entry is one of two that an aborted
\* drain published.
Redeliver(d) ==
    /\ d \notin queued
    /\ queued' = queued \union {d}
    /\ disturbed' = TRUE
    /\ UNCHANGED <<status, event, waiting, local, replay, poll, throws, overlapped>>

-----------------------------------------------------------------------------
(* Transactions: replayDelivery and pollAndReenqueue                       *)

ReplayBegin(d) ==
    /\ replay.step = "idle" /\ d \notin LockedRows
    /\ replay' = [NoReplay EXCEPT !.d = d, !.step = "count"]
    /\ UNCHANGED <<status, event, queued, waiting, local, poll, history>>

ReplayCount ==
    /\ replay.step = "count"
    /\ replay' = [replay EXCEPT !.step = "commit", !.tally = Aggregate(Seen({replay.d}))]
    /\ UNCHANGED <<status, event, queued, waiting, local, poll, history>>

\* UPDATE events and COMMIT make the reset, the new job and the status visible.
ReplayCommit ==
    /\ replay.step = "commit" /\ ~EventLocked
    /\ status' = Seen({replay.d})
    /\ event' = replay.tally
    /\ queued' = queued \union {replay.d}
    /\ waiting' = waiting \ {replay.d}
    /\ replay' = NoReplay
    /\ disturbed' = TRUE
    /\ UNCHANGED <<local, poll, throws, overlapped>>

\* SKIP LOCKED: some of the due deliveries whose rows are free.
PollBegin(S) ==
    /\ poll.step = "idle"
    /\ S # {} /\ S \subseteq waiting /\ S \intersect LockedRows = {}
    /\ poll' = [NoPoll EXCEPT !.S = S, !.step = "count"]
    /\ UNCHANGED <<status, event, queued, waiting, local, replay, history>>

PollCount ==
    /\ poll.step = "count"
    /\ poll' = [poll EXCEPT !.step = "commit", !.tally = Aggregate(status)]
    /\ UNCHANGED <<status, event, queued, waiting, local, replay, history>>

PollCommit ==
    /\ poll.step = "commit"
    /\ event' = poll.tally
    /\ queued' = queued \union poll.S
    /\ waiting' = waiting \ poll.S
    /\ poll' = NoPoll
    /\ UNCHANGED <<status, local, replay, history>>

\* A statement of either transaction throws, or its process dies.
RollBack ==
    /\ \/ replay.step # "idle" /\ replay' = NoReplay /\ UNCHANGED poll
       \/ poll.step # "idle" /\ poll' = NoPoll /\ UNCHANGED replay
    /\ UNCHANGED <<status, event, queued, waiting, local, history>>

WorkerStep(w) ==
    \/ \E d \in Delivery : Take(w, d)
    \/ WriteOutcome(w) \/ WriteFailure(w) \/ CountDeliveries(w) \/ UpdateEvent(w)
    \/ Ack(w) \/ SyncThrows(w) \/ Crash(w)

Next ==
    \/ \E w \in Worker : WorkerStep(w)
    \/ \E d \in Delivery : Redeliver(d) \/ ReplayBegin(d)
    \/ ReplayCount \/ ReplayCommit
    \/ \E S \in SUBSET waiting : PollBegin(S)
    \/ PollCount \/ PollCommit
    \/ RollBack

Spec == Init /\ [][Next]_vars

-----------------------------------------------------------------------------
(* Properties                                                              *)

\* The rules of the comment above syncEventStatus.
Expected(st) ==
    LET present == {st[d] : d \in DOMAIN st} IN
    IF "RETRYING" \in present THEN "PROCESSING"
    ELSE IF present = {"SUCCESS"} THEN "COMPLETED"
    ELSE IF present = {"DEAD_LETTER"} THEN "FAILED"
    ELSE "PARTIAL_SUCCESS"

AtRest == /\ \A w \in Worker : pc[w] = "idle"
          /\ replay.step = "idle" /\ poll.step = "idle"
          /\ queued = {} /\ waiting = {}

\* Once nothing is left to do, events.status is the documented aggregate: the
\* count and the update are not atomic, so whatever a replay, a poll or a
\* crash does between them must be repaired by a later synchronization.
FinalStatusAgrees == AtRest => event = Expected(status)

\* The same while syncEventStatus never throws and the jobs of the event are
\* processed one after the other, in spite of replays, polls and crashes.
FinalStatusRepaired == throws = 0 /\ ~overlapped => FinalStatusAgrees

\* As long as each job runs once and to its end (no crash, replay, takeover of a
\* slow worker's entry, second entry or throw) a tally may be stale when it is
\* written, but only PROCESSING can be wrong: however the workers interleave, an
\* event is not shown as finished in a way its deliveries contradict.  A job
\* that runs twice does break it: its second outcome may follow the event's.
FinishedIsExact == ~disturbed /\ event # "PROCESSING" => event = Expected(status)

=============================================================================
