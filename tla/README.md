# EventRelay: specification of the delivery engine

EventRelay accepts events over HTTP and delivers them as webhooks. Several
identical backend processes share one PostgreSQL database and one Redis server;
each may run the HTTP API, an outbox publisher, a retry scheduler and a delivery
worker. Nearly every operation is a sequence of awaited SQL statements or Redis
commands, so correctness rests on row locks, conditional updates, Redis'
consumer groups and the order of writes. This directory models those parts in
TLA+, checks them with TLC on small instances and proves the main invariants
with TLAPS for every instance.

Paths below are relative to `src/backend/src/` of the repository.

## Inventory

| Component | State | Operations | Interacts with | Hard part |
|---|---|---|---|---|
| Ingestion API (`api/eventsController.ts`) | `events`, `deliveries`, `outbox` rows | `ingestEvent`: one transaction that inserts the event, its deliveries and their outbox rows | outbox publisher (poke) | concurrent requests with one idempotency key |
| Deliveries API (`api/deliveriesController.ts`) | same rows | `replayDelivery`: resets a delivery and queues attempt 1 | worker, scheduler, event status | no guard on the status: races a job in flight |
| Outbox publisher (`worker/outboxPublisher.ts`) | row locks, `publishedIds` | `drain`: SELECT FOR UPDATE SKIP LOCKED, one XADD per row, DELETE | Redis streams | a crash between XADD and COMMIT, an XADD whose reply is lost |
| Stream queue (`redis/streamQueue.ts`) | streams, group cursor, pending entries list | `publish`, `readShardMessages`, `autoClaimPending`, `acknowledge` | worker, publisher | lost replies, entries reclaimed from live workers |
| Delivery worker (`worker/deliveryWorker.ts`) | batch, position in `processJob` | loop over shards, `processJob`, `handleFailure`, `stop` | all others | exceptions between the writes, duplicate jobs |
| Retry scheduler (`worker/retryScheduler.ts`) | - | `pollAndReenqueue`: one transaction | outbox, event status | the same retry limit in two places |
| Circuit breaker (`resilience/circuitBreaker.ts`) | one row per endpoint | `canExecute`, `recordSuccess`, `recordFailure`, `resetCircuit` | worker, operator | reads and writes in separate statements |
| Aggregate event status (`db/eventStatus.ts`) | `events.status` | `syncEventStatus`: count, then update | worker, scheduler, replay | lost updates |
| Shard leases (`worker/shardLeaseCoordinator.ts`) | Redis keys, `ownedShards` | `start`, `heartbeat`, `claimAvailableShards`, `releaseAll` | worker loop | expiry, late renewals, stopping |
| Rate limiters (`resilience/tokenBucket.ts`, `middleware/rateLimit.ts`) | token buckets in Redis and in each gateway | `consume`, `inboundRateLimiter`, the clean-up timer | worker, API | stamps of skewed clocks and delayed calls, fallback, repeated evaluation |
| Partitioner, backoff | - | FNV-1a hash, full-jitter delay | queue, worker | 32-bit arithmetic, bounds |
| Migrator (`db/migrator.ts`) | `schema_migrations`, the schema | `runMigrations` | startup | two instances starting together, without a lock |
| Startup and shutdown (`index.ts`) | the process, its publisher and HTTP server | `bootstrap`, `shutdown` | migrator, publisher, worker, API | failing starts, requests accepted while the publisher is stopped |
| Database client (`db/client.ts`) | the pool | `withTransaction`, `query` | all | connections held by requests that wait, a COMMIT whose reply is lost |
| Endpoints API (`api/endpointsController.ts`) | `endpoints`, `circuit_breakers` | `createEndpoint`: two statements | ingestion, breaker | an endpoint without its circuit row |
| SSRF check, HMAC, API key, metrics, configuration | - | validation, hashing, counters | - | no shared state |
| Frontend, mock receiver, scripts, `backend/dist` | - | - | - | presentation, tools, an older build |

What makes them correct: a committed delivery is attempted until it is
delivered or dead (pipeline); no attempt is skipped and none is added
(pipeline); one probe per opening of a circuit and no circuit stuck (breaker);
the event shows what its deliveries are (status); one running worker per shard
and no shard orphaned (leases); a bucket grants its quota and, beyond it, no more
than the errors of the clocks, and a refusal is owed to what was granted and to
the lag of the caller's own clock (buckets); one event per idempotency key with its
whole fan-out, a complete schema before the first request, and a deployment that
comes up and relays what it accepted through starts, stops and crashes (backend).

## Modules

| Module | Models |
|---|---|
| `DeliveryPipeline` | a delivery's row, the outbox, the stream with its consumer group, publishers, workers, scheduler, replay |
| `MCDeliveryPipeline` | its instances for TLC |
| `DeliveryPipelineProofs`, `PipelineOnceProofs` | its inductive invariants, and what is proved from them |
| `CircuitBreaker`, `MCCircuitBreaker`, `CircuitBreakerProofs` | the breaker of one endpoint and any number of concurrent callers |
| `EventStatus`, `MCEventStatus`, `EventStatusProofs` | `syncEventStatus` for one event, its workers, the scheduler's and a replay's transactions |
| `DeliveryContract` | what a client is promised of deliveries, without tables, streams and processes |
| `PipelineRefinement`, `PipelineRefinementProofs` | `DeliveryPipeline` implements `DeliveryContract`: refinement mapping and its proof |
| `TokenBucket`, `MCTokenBucket`, `TokenBucketProofs` | the bucket in Redis, the fallback buckets and the calls under way |
| `Processes` | the backend processes of a deployment, constants of the next three |
| `Migrator` | `runMigrations` in each process |
| `Ingestion` | `ingestEvent` for one idempotency key, statement by statement |
| `KeyContract` | what a client is promised of an idempotency key, without transactions, connections and processes |
| `Backend`, `MCBackend`, `BackendProofs` | `bootstrap` and `shutdown`; composes `Migrator` and `Ingestion` over one database |
| `ShardLease`, `MCShardLease`, `ShardLeaseProofs` | lease keys, coordinators and the worker loop that dispatches from a snapshot |

In every module one step is one SQL statement that commits on its own, one
transaction as its commit makes it visible, or one Redis command with the
handling of its reply. Definitions marked "Mutant of" are deliberately wrong
variants of the definition they precede; nothing uses them in the
specifications. They show that the properties notice such mistakes. The modules
named `...Proofs` hold the inductive invariants with the theorems they serve.

### DeliveryPipeline

`row` is the `deliveries` table (`next_retry_at` is null, in the future, or
due), `outbox` the committed outbox rows. Transactions are numbered as they
commit (`txn`), and a row carries the number that had committed when its
transaction began (`began`): `created_at` defaults to CURRENT_TIMESTAMP, which in
PostgreSQL is that moment, so the drain query's order is that of `began`, not of
the commits, and a transaction may have begun before up to `MaxOverlap` that
committed earlier (`Starts`). `claimed` and `sent` are the rows a draining publisher has
locked and has published. `stream` keeps every entry (the code never trims a
stream), `cursor` and `pel` are the group's last-delivered-id and its pending
entries list, and `stale` the pending entries idle for 30 s. A worker is its
place in the code (`pc`), the rest of its batch, and where the loop goes on
after it (`resume`).

The steps of `processJob` are `Preflight` (lookups, rate limiter, breaker and
URL check decide that the job is sent or denied), `GateWrite`, `Post`,
`RecordSuccess`, `RecordFailure`, `Ack`. What the try, catch and finally blocks
do with an exception is written out: `RecordSuccessThrows` leads into the catch
block although the success may be written, `RecordFailureThrows` leads into the
finally block, which acknowledges the entry (`AckThenThrow`), and an exception
elsewhere (`LoopError`) leaves the batch unprocessed in the pending entries
list. `WorkerCrash`, `DrainAborts`, `DrainPublishFails`, `ReadReplyLost` and
`AutoClaimThrows` are the failures of the other steps.

One stream stands for the base stream and the eight shards, read by the same
code; the exclusiveness of shards is left to `ShardLease`, so here any worker
reads any entry. The endpoint, the payload, the request and the delay of a
retry are abstracted: a request may fail or succeed at any time, and a retry
becomes due after any time.

`DrainPublishFails` is an XADD that Redis rejects, or that it executed although
its reply was lost and that is then sent again (`redis/client.ts` retries without
limit): the entry is in the stream twice, or the drain stops before the row.
`RowsKeepOrder` is the order of the outbox: a row is published only after every
row that was visible when its transaction began, unless another publisher holds
that one under SKIP LOCKED. So the events of a client that waits for each answer
enter the stream in their order. Of transactions that overlap, the one that began
first may commit last, when the row of the other is already published; the model
has this and no order is promised there. With several publishers a crash or failure may give up rows that another has already
passed, so there it is stated for calm behaviours only (`OnePublisherOrCalm`).

`DispatchInOrder` is the order of the stream: an entry is processed only when
every older one is acknowledged. Two workers that share the group break it, hence
the premise `Serial`, which is what an exclusive lease of the shard provides
(`RunningDispatchExclusive` of `ShardLease`). A failure breaks it too: a batch
that an exception dropped comes back after 30 s, when newer entries have been
processed. A replay does not, since its entry is a new one. `OutcomesAreFinal`
holds of calm systems only: UPDATEs go by delivery id without a condition on the
status, so that it rests on a delivery having one open job. `LossIsCounted` bounds what the run
`pipeline_at_least_once` shows: one failing call costs one delivery.

### DeliveryContract and PipelineRefinement

The abstract state of a delivery is its stage (none, pending, delivered, dead),
the attempts handed to workers and whether a 2xx answer is about to be recorded.
Attempts are handed out one after the other, a delivery is delivered only on an
answer and given up only after the last attempt; a replay or a late worker may
reopen it. `PipelineRefinement` reads this off `row.status`, the stream and the
workers between the answer of an endpoint and their UPDATE (`Recording`).
`KeepsContract` is checked by `pipeline_safety` and proved.

### CircuitBreaker

`circuit` is the row of `circuit_breakers`, with the cool-down as a flag that
`CooldownElapses` sets; `failure_count` is saturated at the threshold, the only
value it is compared with. A caller goes through `ReadCircuit` and `Claim` or
`ClaimFails` (`canExecute`), `CallEnds` or `Abandon`, and then the statements of
`recordSuccess` or `recordFailure`. `Abandon` is the URL check of `processJob`
that gives a permitted call up. A lookup that has to insert the missing row is
one step with the insertion, which changes nothing a caller decides on.

### EventStatus

`status` and `event` are the committed rows. A worker writes an outcome, counts
(`CountDeliveries`), updates the event (`UpdateEvent`) and acknowledges. A
replay and the scheduler do the same inside a transaction: their writes are
visible to themselves (`Seen`), their row locks (`LockedRows`, `EventLocked`)
hold others up, and a poll skips locked rows. `overlapped` remembers that two jobs
were in work at once, the condition of the race that `status_race` shows; a
synchronization that throws after the last dead letter is not repaired either,
hence the two premises of `FinalStatusRepaired`. Jobs are abstracted to the sets
`queued` and `waiting`; a write of a delivery that throws changes nothing here
and is left to `DeliveryPipeline`. `Redeliver` gives a job to a worker once more,
while the first is still at it or later: XAUTOCLAIM takes the entry of a worker
that is slow as well as that of a dead one, and an aborted drain publishes a row
twice. The later write of the two contradicts an event that was already finished,
as a replay, a crash or a throw may, and `disturbed` records all of these:
`FinishedIsExact` speaks of events whose jobs each run once and to their end. There
the stale tallies of unsynchronized workers remain, and it says that none of them
shows an unfinished event as finished. `FinalStatusRepaired` has no such premise: a
redelivered job is one more that overlaps or follows.

### ShardLease

`holder` and `ttl` are the keys `lock:shard:<id>`, time counted in heartbeat
periods of 5 s, so that the lease of 15 s is `Ttl = 3`. A heartbeat is a loop of
`Renew` over a snapshot of the owned shards followed by a loop of `Claim` over
all of them; a stop is the loop of `Release` over the live set. `Tick` lets a
period pass when every heartbeat is done, `LateTick` when one is not. `timer` is
the interval of `start()`: a stop clears it if it is set, and finds none while the
first claim is under way, which then sets it in a worker that has stopped. That
worker goes on claiming and renewing until its process exits (`Exit`, when the
HTTP server has closed), which ends its timers.
`Snapshot`, `Serve` and `Served` are the worker loop. `Name` gives the
`consumerName` of each worker, which is the value of the key: `worker-` and the
process id. On one host ids differ (`HostNames` of `MCShardLease`); in containers
made from the repository's Dockerfile node is process 1, and all workers have
one name (`ContainerNames`). `setInterval` would start a second heartbeat while a
slow one is under way; that overlap is not modelled.

Two behaviours of a stop are in the model and bound what can be asked: the
leases are released while the current batch goes on, so that another worker may
dispatch from the shard meanwhile, and a heartbeat under way goes on after
`releaseAll` and claims the released shards again, until the keys expire. Hence
the exclusiveness properties speak of running workers.

### TokenBucket

Both limiters use the same arithmetic: a bucket is refilled by the time between
the stamps of two calls, capped, and a call costs one token. The unit of time is
the unit of tokens, so one tick refills one unit and a call costs `Cost`. Stamps
(`now`) are read by the caller before the call, within `MaxAhead` of the true
time and at most `MaxLate` old when used; both errors are bounded by what `Ttl`
leaves free (`BucketAssumption`), not by the capacity; stamps and `lastRefill` are kept
relative to the present, which keeps the state finite without a clock. A call
is evaluated by the script (`Evaluate`), evaluated twice when the reply is lost
and the client sends it again (`EvaluateAgain`), or answered with an error
(`EvaluateFails`): then the inbound limiter uses the bucket of its process
(`UseLocal`), the outbound one none. Expiry (`Tick`) and the clean-up timer
(`Cleanup`) delete old buckets. `level` remembers what a bucket has granted, drained
by one unit per tick: it stays below a bound exactly if the bucket grants at
most that bound plus n units in any n ticks.

The quota is kept whatever the stamps are. The other direction is weaker than one
would wish, and `RefusedOnlyWhenSpent` says exactly how weak: a refused call is owed
to `level`, to its cost and to the lag of its stamp behind the most advanced clock. A
call whose clock leads is refused only for what was granted. Both limiters take
the capacity for the refill rate (`rateLimit.ts:63-64`, `deliveryWorker.ts:115-119`),
so a bucket is one second of refill, and for a call that lags by more than that,
less its cost, the bound is nothing: a process whose clock is a second ahead moves
`lastRefill` past the stamps of the others, each of whose calls then takes tokens
away, and may have them refused while next to nothing is granted. The code has
no protection against that. The instance contains it (a call that lags by the
free capacity is refused with `level` 0).

### Migrator, Ingestion and Backend

`Migrator`: a process ensures `schema_migrations`, reads the recorded versions
and applies the missing ones in ascending order, each with its record in one
transaction. `schema` is the set of tables and columns that matter (the indexes
and the comment of migration 003 are left out), and a run starts from an empty
database, one that `schema.sql` made or one from before the migrator, with any
number of migrations recorded. CREATE TABLE IF NOT EXISTS may still collide with
a concurrent creation (`EnsureCollides`), and a version recorded meanwhile
violates the primary key (`ApplyFails`); both make the process exit.

`Ingestion`: clients that send one idempotency key at the same time, or again
after an error. `Connect` takes a connection of the process' pool, `Insert`
waits for an uncommitted row with the key (`holder`) and then inserts or finds
the committed one (`InsertConflicts`, `SelectExisting`); `FanOut` stands for the
selection of the endpoints and the writes that follow, all invisible until
`Commit`. A COMMIT may take effect although its reply is lost (`CommitThrows`),
and every statement may reject (`Throws`). `Endpoint` is the set of endpoints
whose subscription, activity and id filter match the event.

`Backend`: a process starts, migrates, starts its publisher if it has one
(`Publisher`, the processes with `RUN_OUTBOX`), serves; on SIGTERM it stops the
publisher, releases its leases, and closes the HTTP server, accepting requests
until then. `Relay` is a whole drain. A process that failed to start, was
stopped or was killed is started again by docker-compose.

`OneMigrator` compares any number of migrating processes with one that migrates
alone: each change of the database applies the lowest version that is not
recorded, together with its record, and none happens while a process serves. Two
that applied versions from stale readings would break it, if the primary key of
`schema_migrations` did not roll the second one back. `WaitsEnd` follows the two things a request
waits for, a connection of its pool and the row lock of its key (`Blockers`):
a request that has inserted the key holds its connection and waits for nothing,
so that no circle closes. A wait through both, for a connection whose holder
waits for the lock of a request in another process, takes three clients.

`KeyContract` is the abstract specification: the event appears in one step
with the deliveries of some set of endpoints, is never changed afterwards by the ingestion (`status`
is updated by `syncEventStatus`, the subject of `EventStatus`), its
deliveries leave the outbox by being relayed only, and 201 goes to the request
that made it, 200 to all others. `Makers` reads the one abstract variable that is
no table off the requests: those whose COMMIT took effect and whose answer is
under way. Which endpoints are included is left open there; `FannedOut` says that
all known ones are.

## Runs

Runs that pass:

| Run | Shows | Instance |
|---|---|---|
| `pipeline_safety` | `NoDeliveryLost`, `NoSkippedAttempt`, `RetryWithinBudget` under a replay at any time and a slow job taken over; `OnceWhenCalm`: until then nothing is queued or read twice; `OutcomesAreFinal`: nor is a settled delivery touched; `DispatchInOrder`, replays included; `KeepsContract`, the refinement | 1 delivery, 2 workers, 2 publishers, 2 attempts |
| `pipeline_settles` | `LossIsCounted` across one crash and one failing call at any point: nothing is left without a job before the call fails, and one delivery at most afterwards; `RowsKeepOrder` with overlapping transactions and a publication that fails or is repeated, and `EventuallySettled` under fairness | 1 delivery, 2 workers, 1 publisher, 2 attempts |
| `breaker` | `OneProbePerOpening`, `ThresholdTrips`, `ProbeUnderWay`; under fairness `OpenIsProbed`, and `UndisturbedProbeResolves`: a probe is resolved unless a call was abandoned or a caller died | 3 callers, threshold 2, one of each trouble |
| `status_safety` | `FinishedIsExact`: as long as each job runs once and to its end, only PROCESSING can be stale; `FinalStatusRepaired`: it is corrected if the jobs were processed one after the other and no synchronization threw, whatever replays, redeliveries, polls and crashes do to a count | 2 deliveries, 2 workers, 1 throw |
| `lease` | `OwnershipExclusive`, `RunningDispatchExclusive`; under fairness `ShardReattended` and, with distinct names, `OwnershipRepaired`: two workers that both believe they own a shard do not go on doing so | 1 shard, 2 workers, 2 missed renewals, 1 crash |
| `limiter` | `QuotaKept`: a bucket grants at most its capacity and its refill, plus the errors of the stamps, over expiry, clean-up, fallback and repeated evaluation; `RefusedOnlyWhenSpent`: a refusal is owed to what was granted and to the lag of the call's stamp, nothing else | 2 calls, 1 process, capacity 4, cost 2, stamps 2 ahead to 1 late, 2 faults |
| `backend` | `ServesFullSchema`, `SomeoneSurvives` (starts that make one another fail never make all fail), `OneMigrator` (they migrate as if one did), `AnswersAgree` (one event per key, created once), `FannedOut`, `WaitsEnd` (no deadlock over connections and row locks), `KeepsKeyContract`, the refinement; under fairness `EventuallyRelayed`, `EventuallyAccepted`, `AllServeInTheEnd` | 2 processes, 1 publisher, 2 clients, 1 endpoint, a pool of 1, 1 crash, SIGTERM or failing call |

Runs that end in a violation, each a disagreement between the code and what the
repository says of it:

| Run | Property | What happens |
|---|---|---|
| `pipeline_at_least_once` | `AtLeastOnce` | a database error in the catch block of `processJob`; the finally block acknowledges, the row stays RETRYING with no job and no timer |
| `breaker_stuck` | `ProbeResolves` | the URL check rejects after the probe was granted; the circuit stays in HALF_OPEN_PROBING |
| `breaker_early_probe` | `ProbeAfterCooldown` | a stale claim matches the next opening and probes inside its cool-down |
| `status_race` | `FinalStatusAgrees` | two workers finish the deliveries of an event; PROCESSING is written last |
| `lease_names` | `OwnershipRepaired` | two containers are both `worker-1`; after a lease ran out once, each one's renewal succeeds on the other's key, and both dispatch from the shard as long as they run |

### Bounds

`MaxReplays`, `MaxCrashes`, `MaxFaults`, `MaxTakeovers`, `MaxAbandons`,
`MaxResets`, `MaxThrows` and `MaxMissed` bound how often trouble happens in a
behaviour; each is spent by its own actions and by nothing else, and trouble may
strike at any step. Two attempts are the fewest with a first, a last and a
retry. A batch or a drain of two needs one delivery only, since a replay or a
repeated publication queues a second job of it; a second delivery matters where
deliveries share an event (`EventStatus`), two processes where they interleave,
a third caller where a stale decision meets a probe and a trip. With
`OutboxLimit` 1 the limit of the drain query is reached; `Ttl` is the real
ratio. `MaxOverlap` 1 lets a transaction commit
while another is open, enough for rows to become visible in the order opposite to
`created_at`. Replays and takeovers (`pipeline_safety`) and crashes and failing calls
(`pipeline_settles`) are explored apart because their product is too large; the
proofs of `NoDeliveryLost`, `LossIsCounted`, `NoSkippedAttempt` and
`RetryWithinBudget` cover every combination. `RowsKeepOrder` is checked with one
publisher, whose drains fail, and proved for any number. Deliveries, workers and publishers are symmetric in
`pipeline_safety` and `status_safety`, calls in `limiter`; runs with liveness
use no symmetry.

`MaxTrouble` bounds crashes, SIGTERMs and failing calls in `backend`. One is
enough for a process to be overtaken while it is down or stopping and for a
COMMIT whose reply is lost; two processes start at once without any. The
invariants are proved for every bound. `PoolMax` 1 makes requests of one process
wait for its connection while those of the other wait for the row lock. One
process suffices in `limiter`, since processes share only the bucket in Redis
and any stamp may come from any of them; refills of one unit against a `Cost` of
two leave buckets with a part of a token; `MaxAhead` is all that a bucket holds
beyond one call, so that the bound of `RefusedOnlyWhenSpent` reaches zero; `Ttl` is the
smallest its assumption allows, where the code has 60 s against one second of refill.

Deadlock is checked in every run but `backend`, where all clients may have been
answered and all processes serve: nothing is left to do then.

### Fairness

`FairSpec` asks for weak fairness of what timers and promises drive: the poll of
the scheduler and of each publisher (`setInterval`), each worker's loop, the
passing of back-offs, idle times and cool-downs, heartbeats and clock ticks.
Requests, replays, resets, crashes and failing calls are never obliged to
happen. Polling is fair for each due delivery: rows are selected by
`next_retry_at`, so an old one comes first. In `CircuitBreaker` fairness also
says that there are deliveries to make; without traffic nobody would probe. In
`ShardLease` nobody has to start, to stop or to fail, but who stops ends:
`ReleaseStep` and `ReleaseEnds` go through the shards owned, the latter under strong
fairness because a heartbeat of a timer set after the stop may add a shard to the
live set now and then, once in 5 s against one round trip for a release; and the
process exits, at the latest when the container runtime kills it.

In `Backend`, containers are restarted (`restart: always` in
`docker-compose.yml`), promises settle, the publisher's timer fires, and a
client sends its key until it is answered. Nobody has to register an endpoint, to
stop a process or to fail, and of several processes that could serve a request
none is owed it. `TokenBucket` has no liveness.

## Proofs

`DeliveryPipelineProofs`, for any deliveries, workers, publishers, retry limit,
batch size and bounds: `TypeCorrect`, `NothingLost`, `AttemptsInOrder`,
`SchedulerNeverExhausts`. `NoDeliveryLost` is not inductive: a row about to be
deleted by its publisher or an entry about to be acknowledged would still count
as carrying the job. `CarriersOK` asks for a carrier that survives the steps
already under way, which is kept because `sent` rows are in the stream
before they are deleted and because an entry is only acknowledged after its
outcome was written (or its delivery is recorded in `unrecorded`). This needs
`PositionsOK` and `LocksOK` (a row has one holder), and `ChainOK` carries the
order of attempts through outbox, timers and stream. The assumptions are
`LimitsAssumption` and `BoundsAssumption`.

`LossesAreCounted` (`LossIsCounted`) and `NothingLostWithoutFaults`: `CarriersOK`
puts every delivery without a job into `unrecorded`, and `LossOK` charges each of
those, and each worker on its way to acknowledge without an outcome, to a failing
call of its own. So at-least-once, which `pipeline_at_least_once` refutes, is a
theorem as long as no call fails, with any crashes, replays and takeovers.

`CircuitBreakerProofs`, for any callers and threshold: `CircuitTypeCorrect`,
`AtMostOneClaim`, `TripNotLost`, `ProbeIsUnderWay`. `CInv` adds that an open
circuit has no claimant yet, that claims are made from OPEN only, and that the
probe in flight is not on a path that leaves without writing.

`RowsKeepOrder` (`OrderIsKept`) follows from `OrderOK`: a row that had been inserted
when the transaction of a claimed row began is locked as well, because it began
earlier still (a transaction begins before it commits, `LocksOK`), the drain query
takes the oldest unlocked rows and, within the premise, no publisher gives rows up while another
has passed them.

`PipelineOnceProofs`: `OnceUntilTrouble` (`OnceWhenCalm`), `SettledIsFinal`
(`OutcomesAreFinal`) and `DispatchIsSequential` (`DispatchInOrder`), for any
deliveries, workers and publishers. `OnceOK` says that every pending entry
has one worker unless something failed or was taken over (`HeldOK`), and of a
calm system that an attempt has one outbox row and one entry
(`UniqueOK`), and that the row of an open job, not yet appended, read or recorded,
stands as it was queued (`ReachedOK`): hence a new retry is of an attempt nothing
carries yet, and an outcome is written while no other job of the delivery is open (`OpenJob`,
from which `SettledIsFinal` follows as well). For `DispatchIsSequential` `HeldOK` is
enough: all that is pending is in the one batch, worked off from the oldest.

`PipelineRefinementProofs`: `Implements` shows for every step of the pipeline the
step of `DeliveryContract` it is, or that it changes none of the mapped state.
Its invariant `RInv` adds to `IInv` that the jobs of the outbox and the stream are
those of ingested deliveries; `ChainOK` gives the order of attempts.

`EventStatusProofs`, for any deliveries and workers, under `EventAssumption`:
`EventTypeCorrect`, `FinishedStatusIsExact`, `StatusIsRepaired`. The code's four
counts agree with the documented rules (`AggregateIsExpected`). `EInv` says that the
transactions of a replay and a poll hold different deliveries and can only have
counted PROCESSING; that until something disturbs the event (a replay, a
crash, a throw or a job delivered twice) a delivery that is decided has no job left (`OneJob`), so that a count which came out finished stays
true until it is written (`FinishedOK`); and that with one worker at a time the last
synchronization follows the last write (`RepairOK`).

`ShardLeaseProofs`, for any shards, workers and time to live:
`LeaseTypeCorrect`, and under `DistinctNames` also `ShardsAreExclusive` and
`DispatchIsExclusive`. `LInv` says that, while fewer renewals were missed than a
lease survives, an owned shard's key is held with at least `Ttl` periods left,
less one for each renewal missed and one if the current period's renewal is
still to come; and that the loop works on owned shards only. Without distinct
names the key does not tell whose it is: a stopping worker may release the
lease of another.

`TokenBucketProofs`, for any calls, processes, capacity, cost and errors of the
clocks, under `BucketAssumption` (a bucket is forgotten only when it is full for
every stamp): `BucketTypeCorrect`, `QuotaIsKept`, `RefusalIsEarned`. The
invariant `BucketOK` bounds the debt of a bucket, what it is short of corrected
by how far its stamp lies ahead, by what it has granted from above and below.

`BackendProofs`, for any processes, clients, endpoints and pools, under
`IngestionAssumption` and `BackendAssumption`: `BackendTypeCorrect`,
`SchemaIsComplete`, `OneStarts`, `OneEventPerKey`, `FanOutIsComplete`. `BackInv`
says that the recorded versions are an initial segment whose objects exist, that
who has inserted the key holds its lock, that a reply under way names the
committed event, and, for `SomeoneSurvives`, that without trouble there is
always a process no other has overtaken (`Ahead`): to make one fail another must
have got ahead of it. Step by step it gives `MigratedAsIfAlone` (`OneMigrator`)
and `KeyImplemented` (`KeepsKeyContract`): a version that is applied finds all lower
ones recorded, since the recorded versions are an initial segment of which a
process works on the first it has not seen; and a COMMIT that creates the event is that of the
lock's holder, so that there is none yet. Its reply is `Answer`, an end
without a reply `Forget`, a drain `Relay`; all else stutters.
`NoRequestDeadlock` (`WaitsEnd`) needs only the holder's place in `ingestEvent`,
and covers the chain of two waits that TLC's two clients do not reach.

Model-checked only: all liveness (`EventuallySettled`, `OpenIsProbed`,
`UndisturbedProbeResolves`, `ShardReattended`, `OwnershipRepaired`, `EventuallyRelayed`,
`EventuallyAccepted`, `AllServeInTheEnd`), since the prover handles neither fairness
nor ENABLED.

## Not modelled

- Partitioner and backoff: a hash and a random delay. The modules leave the
  shard of a key and the moment of a retry open; nothing else depends on them.
- SSRF validation, HMAC signing, the API key check and metrics keep no state that
  processes share; what they decide is a free choice (a URL is rejected or not),
  and answers 400, 401 and 429 change nothing.
- Redis being away: `maxRetriesPerRequest: null` makes calls hang rather than
  fail. The modules let a call take any time, but count on its settling.
- `initGroup` failing: its errors are logged and the start goes on, so that a
  shard without its group is not read until a restart. The pipeline starts with
  the group in place.
- Heartbeats of one worker that overlap; connections that workers, scheduler
  and publisher take from the pool.
- The list handlers and `streamQueue.readMessages` change nothing (the latter has
  no caller). Events, endpoints and deliveries are never deleted by the program,
  so the branch of `processJob` for missing rows is not reached.
- Frontend, mock receiver and scripts are not part of the engine; `backend/dist`
  is an older build.

## Plan

1. Done: `DeliveryPipeline` with its order and its contract, `CircuitBreaker`,
   `EventStatus`, `ShardLease`, `TokenBucket`, `Migrator`, `Ingestion`, `Backend`,
   `KeyContract`. Every invariant and every action property that a passing run
   checks is a theorem, and so are both refinements.
2. Left: order within one ordering key across retries and overlapping leases
   (composition of `ShardLease` with the pipeline); overlapping heartbeats.
