----------------------------- MODULE ShardLease -----------------------------
(***************************************************************************)
(* Shard leases: Redis keys lock:shard:<id> with a time to live, which     *)
(* each worker's ShardLeaseCoordinator claims, renews on a heartbeat and   *)
(* releases on stop, and the worker loop that dispatches from a snapshot   *)
(* of the shards its coordinator owns.                                     *)
(*                                                                         *)
(* One step is one Redis command with the handling of its reply, and time  *)
(* is counted in heartbeat periods (5 s).  The shards of a loop are taken  *)
(* in any order; the code takes them by number.                            *)
(***************************************************************************)
EXTENDS Naturals, FiniteSets

CONSTANTS
    Shard,      \* virtual shards
    Worker,     \* worker processes
    Name,       \* consumerName of each: worker-<process id>, which containers share
    None,       \* no name, no shard
    Ttl,        \* leaseTtlSeconds in heartbeat periods (15 s / 5 s)
    MaxMissed,  \* bound: heartbeats that come late, Redis commands that throw
    MaxCrashes  \* bound: processes killed

ASSUME LeaseAssumption ==
    /\ None \notin Shard
    /\ DOMAIN Name = Worker /\ \A w \in Worker : Name[w] # None
    /\ Ttl \in Nat \ {0}
    /\ MaxMissed \in Nat /\ MaxCrashes \in Nat

\* Every process of the deployment has a process id of its own.
DistinctNames == \A v, w \in Worker : Name[v] = Name[w] => v = w

VARIABLES
    holder,     \* value of the lock key of a shard, None when absent
    ttl,        \* periods before the key expires
    life,       \* process: "new", "starting", "up", "stopping", "stopped", "dead"
    timer,      \* heartbeatTimer: "unset", "on" or "off"
    owned,      \* ownedShards of a coordinator
    phase,      \* its heartbeat: "idle", "renew" or "claim"
    todo,       \* shards the current loop of the heartbeat has still to visit
    beat,       \* whether the heartbeat of this period has begun
    visited,    \* shards of ownedShards the loop of releaseAll has visited
    round,      \* snapshot the worker loop has still to go through
    serving,    \* the shard it dispatches from, or None
    missed, crashes    \* how much of each bound is used

lease  == <<holder, ttl>>
coord  == <<timer, owned, phase, todo, beat, visited>>
loop   == <<round, serving>>
bounds == <<missed, crashes>>
vars   == <<lease, life, coord, loop, bounds>>

\* Type invariant: keys, coordinators, worker loops and bounds.
TypeOK ==
    /\ holder \in [Shard -> {Name[w] : w \in Worker} \union {None}]
    /\ ttl \in [Shard -> 0 .. Ttl]
    /\ life \in [Worker -> {"new", "starting", "up", "stopping", "stopped", "dead"}]
    /\ timer \in [Worker -> {"unset", "on", "off"}]
    /\ owned \in [Worker -> SUBSET Shard]
    /\ phase \in [Worker -> {"idle", "renew", "claim"}]
    /\ todo \in [Worker -> SUBSET Shard]
    /\ beat \in [Worker -> BOOLEAN]
    /\ visited \in [Worker -> SUBSET Shard]
    /\ round \in [Worker -> SUBSET Shard]
    /\ serving \in [Worker -> Shard \union {None}]
    /\ missed \in 0 .. MaxMissed
    /\ crashes \in 0 .. MaxCrashes

Init ==
    /\ holder = [s \in Shard |-> None]
    /\ ttl = [s \in Shard |-> 0]
    /\ life = [w \in Worker |-> "new"]
    /\ timer = [w \in Worker |-> "unset"]
    /\ owned = [w \in Worker |-> {}]
    /\ phase = [w \in Worker |-> "idle"]
    /\ todo = [w \in Worker |-> {}]
    /\ beat = [w \in Worker |-> FALSE]
    /\ visited = [w \in Worker |-> {}]
    /\ round = [w \in Worker |-> {}]
    /\ serving = [w \in Worker |-> None]
    /\ missed = 0 /\ crashes = 0

Miss == missed < MaxMissed /\ missed' = missed + 1 /\ UNCHANGED crashes

-----------------------------------------------------------------------------
(* Redis commands                                                          *)

\* SET key name EX ttl NX
Set(s, w) == /\ holder' = [holder EXCEPT ![s] = Name[w]]
             /\ ttl' = [ttl EXCEPT ![s] = Ttl]

\* What the scripts compare: the value of the key is the name of the caller.
Holds(w, s) == holder[s] = Name[w]

\* Mutants of Expire: the key is not extended; the extensions add up.
ExpireForgotten(s) == s \in Shard /\ UNCHANGED lease
ExpireAddsUp(s) == ttl' = [ttl EXCEPT ![s] = @ + Ttl] /\ UNCHANGED holder

\* RENEW_LUA, for the holder of the key
Expire(s) == ttl' = [ttl EXCEPT ![s] = Ttl] /\ UNCHANGED holder

\* RELEASE_LUA, for the holder of the key
Del(s) == /\ holder' = [holder EXCEPT ![s] = None]
          /\ ttl' = [ttl EXCEPT ![s] = 0]

\* The shard is forgotten: a set iterated meanwhile would visit it anew.
Disown(w, s) == /\ owned' = [owned EXCEPT ![w] = @ \ {s}]
                /\ visited' = [visited EXCEPT ![w] = @ \ {s}]

-----------------------------------------------------------------------------
(* ShardLeaseCoordinator                                                   *)

Start(w) ==
    /\ life[w] = "new"
    /\ life' = [life EXCEPT ![w] = "starting"]
    /\ phase' = [phase EXCEPT ![w] = "claim"]
    /\ todo' = [todo EXCEPT ![w] = Shard]
    /\ beat' = [beat EXCEPT ![w] = TRUE]
    /\ UNCHANGED <<lease, timer, owned, visited, loop, bounds>>

\* The interval fires until it is cleared: in a worker that stops it is still to
\* be set when the stop comes before the end of start().
Heartbeat(w) ==
    /\ timer[w] = "on" /\ life[w] # "dead"
    /\ phase[w] = "idle" /\ ~beat[w]
    /\ beat' = [beat EXCEPT ![w] = TRUE]
    /\ phase' = [phase EXCEPT ![w] = "renew"]
    /\ todo' = [todo EXCEPT ![w] = owned[w]]
    /\ UNCHANGED <<lease, life, timer, owned, visited, loop, bounds>>

\* A process that was killed runs nothing; one that stops goes on to the end of
\* a heartbeat under way.
Visit(w, s) == /\ life[w] # "dead"
               /\ s \in todo[w]
               /\ todo' = [todo EXCEPT ![w] = @ \ {s}]

\* Mutant of Renew: the reply of the script is not looked at.
RenewUnchecked(w, s) ==
    /\ phase[w] = "renew" /\ Visit(w, s)
    /\ IF Holds(w, s) THEN Expire(s) ELSE UNCHANGED lease
    /\ UNCHANGED <<life, timer, owned, phase, beat, visited, loop, bounds>>

Renew(w, s) ==
    /\ phase[w] = "renew" /\ Visit(w, s)
    /\ \/ Holds(w, s) /\ Expire(s) /\ UNCHANGED <<owned, visited>>
       \/ ~Holds(w, s) /\ Disown(w, s) /\ UNCHANGED lease
    /\ UNCHANGED <<life, timer, phase, beat, loop, bounds>>

\* The command throws, executed or not: the coordinator keeps the shard.
RenewThrows(w, s) ==
    /\ phase[w] = "renew" /\ Visit(w, s)
    /\ Miss
    /\ \/ UNCHANGED lease
       \/ Holds(w, s) /\ Expire(s)
    /\ UNCHANGED <<life, timer, owned, phase, beat, visited, loop>>

\* Mutant of RenewEnds: the heartbeat renews and claims nothing.
RenewEndsHeartbeat(w) ==
    /\ phase[w] = "renew" /\ todo[w] = {} /\ life[w] # "dead"
    /\ phase' = [phase EXCEPT ![w] = "idle"]
    /\ UNCHANGED <<lease, life, timer, owned, todo, beat, visited, loop, bounds>>

RenewEnds(w) ==
    /\ phase[w] = "renew" /\ todo[w] = {} /\ life[w] # "dead"
    /\ phase' = [phase EXCEPT ![w] = "claim"]
    /\ todo' = [todo EXCEPT ![w] = Shard]
    /\ UNCHANGED <<lease, life, timer, owned, beat, visited, loop, bounds>>

\* Mutant of Claim: SET without NX.
ClaimWithoutNX(w, s) ==
    /\ phase[w] = "claim" /\ Visit(w, s)
    /\ \/ /\ s \notin owned[w]
          /\ Set(s, w)
          /\ owned' = [owned EXCEPT ![w] = @ \union {s}]
       \/ s \in owned[w] /\ UNCHANGED <<lease, owned>>
    /\ UNCHANGED <<life, timer, phase, beat, visited, loop, bounds>>

Claim(w, s) ==
    /\ phase[w] = "claim" /\ Visit(w, s)
    /\ \/ /\ s \notin owned[w] /\ holder[s] = None
          /\ Set(s, w)
          /\ owned' = [owned EXCEPT ![w] = @ \union {s}]
       \/ /\ s \in owned[w] \/ holder[s] # None
          /\ UNCHANGED <<lease, owned>>
    /\ UNCHANGED <<life, timer, phase, beat, visited, loop, bounds>>

\* The reply is lost: the key is set and its owner does not know.
ClaimThrows(w, s) ==
    /\ phase[w] = "claim" /\ Visit(w, s)
    /\ s \notin owned[w]
    /\ Miss
    /\ \/ UNCHANGED lease
       \/ holder[s] = None /\ Set(s, w)
    /\ UNCHANGED <<life, timer, owned, phase, beat, visited, loop>>

\* The end of the heartbeat, and of start() when it was the first claim: the
\* timer is set then, even if the worker has been stopped meanwhile.
ClaimEnds(w) ==
    /\ phase[w] = "claim" /\ todo[w] = {} /\ life[w] # "dead"
    /\ phase' = [phase EXCEPT ![w] = "idle"]
    /\ life' = [life EXCEPT ![w] = IF @ = "starting" THEN "up" ELSE @]
    /\ timer' = [timer EXCEPT ![w] = IF @ = "unset" THEN "on" ELSE @]
    /\ UNCHANGED <<lease, owned, todo, beat, visited, loop, bounds>>

\* DeliveryWorker.stop: isRunning is cleared, the timer stopped if it is set, and
\* every shard of the live set is released, whatever the loop is dispatching and
\* the claim or heartbeat under way is claiming.
Stop(w) ==
    /\ life[w] \in {"starting", "up"}
    /\ life' = [life EXCEPT ![w] = "stopping"]
    /\ timer' = [timer EXCEPT ![w] = IF @ = "on" THEN "off" ELSE @]
    /\ UNCHANGED <<lease, owned, phase, todo, beat, visited, loop, bounds>>

Release(w, s) ==
    /\ life[w] = "stopping" /\ s \in owned[w] \ visited[w]
    /\ visited' = [visited EXCEPT ![w] = @ \union {s}]
    /\ IF Holds(w, s) THEN Del(s) ELSE UNCHANGED lease
    /\ UNCHANGED <<life, timer, owned, phase, todo, beat, loop, bounds>>

ReleaseThrows(w, s) ==
    /\ life[w] = "stopping" /\ s \in owned[w] \ visited[w]
    /\ Miss
    /\ visited' = [visited EXCEPT ![w] = @ \union {s}]
    /\ UNCHANGED <<lease, life, timer, owned, phase, todo, beat, loop>>

ReleaseEnds(w) ==
    /\ life[w] = "stopping" /\ owned[w] = visited[w]
    /\ life' = [life EXCEPT ![w] = "stopped"]
    /\ owned' = [owned EXCEPT ![w] = {}]
    /\ visited' = [visited EXCEPT ![w] = {}]
    /\ UNCHANGED <<lease, timer, phase, todo, beat, loop, bounds>>

-----------------------------------------------------------------------------
(* DeliveryWorker.start: one pass of the loop over a snapshot              *)

Snapshot(w) ==
    /\ life[w] = "up" /\ round[w] = {} /\ serving[w] = None
    /\ owned[w] # {}
    /\ round' = [round EXCEPT ![w] = owned[w]]
    /\ UNCHANGED <<lease, life, coord, serving, bounds>>

Serve(w, s) ==
    /\ life[w] = "up" /\ serving[w] = None /\ s \in round[w]
    /\ round' = [round EXCEPT ![w] = @ \ {s}]
    /\ serving' = [serving EXCEPT ![w] = s]
    /\ UNCHANGED <<lease, life, coord, bounds>>

\* The last job of the two batches of the shard is done.
Served(w) ==
    /\ life[w] # "dead" /\ serving[w] # None
    /\ serving' = [serving EXCEPT ![w] = None]
    /\ UNCHANGED <<lease, life, coord, round, bounds>>

-----------------------------------------------------------------------------
(* Time and crashes                                                        *)

OnTime(w) == life[w] \in {"starting", "up"} => beat[w] /\ phase[w] = "idle"

PassTime ==
    /\ ttl' = [s \in Shard |-> IF ttl[s] = 0 THEN 0 ELSE ttl[s] - 1]
    /\ holder' = [s \in Shard |-> IF ttl[s] <= 1 THEN None ELSE holder[s]]
    /\ beat' = [w \in Worker |-> FALSE]
    /\ UNCHANGED <<life, timer, owned, phase, todo, visited, loop>>

Tick == (\A w \in Worker : OnTime(w)) /\ PassTime /\ UNCHANGED bounds

\* A blocked event loop or a slow Redis delays a heartbeat by a period.
LateTick == (\E w \in Worker : ~OnTime(w)) /\ PassTime /\ Miss

\* The process ends; its keys are left to expire.
End(w) ==
    /\ life' = [life EXCEPT ![w] = "dead"]
    /\ timer' = [timer EXCEPT ![w] = "off"]
    /\ owned' = [owned EXCEPT ![w] = {}]
    /\ phase' = [phase EXCEPT ![w] = "idle"]
    /\ todo' = [todo EXCEPT ![w] = {}]
    /\ beat' = [beat EXCEPT ![w] = FALSE]
    /\ visited' = [visited EXCEPT ![w] = {}]
    /\ round' = [round EXCEPT ![w] = {}]
    /\ serving' = [serving EXCEPT ![w] = None]
    /\ UNCHANGED lease

\* process.exit, when the HTTP server has closed.
Exit(w) == life[w] = "stopped" /\ End(w) /\ UNCHANGED bounds

Crash(w) ==
    /\ life[w] \in {"starting", "up", "stopping"}
    /\ crashes < MaxCrashes
    /\ crashes' = crashes + 1
    /\ End(w)
    /\ UNCHANGED missed

CoordinatorStep(w) ==
    \/ Heartbeat(w) \/ RenewEnds(w) \/ ClaimEnds(w)
    \/ \E s \in Shard : Renew(w, s) \/ Claim(w, s)

ReleaseStep(w) == \E s \in Shard : Release(w, s)
Shutdown(w) == Stop(w) \/ ReleaseStep(w) \/ ReleaseEnds(w) \/ Exit(w)

LoopStep(w) == Snapshot(w) \/ Served(w) \/ \E s \in Shard : Serve(w, s)

Trouble(w) ==
    \/ Crash(w)
    \/ \E s \in Shard : RenewThrows(w, s) \/ ClaimThrows(w, s) \/ ReleaseThrows(w, s)

Next ==
    \/ \E w \in Worker :
         Start(w) \/ Shutdown(w) \/ CoordinatorStep(w) \/ LoopStep(w) \/ Trouble(w)
    \/ Tick \/ LateTick

Spec == Init /\ [][Next]_vars

\* Timers fire, Redis answers and time passes; nobody has to start, to stop or
\* to fail, and the worker loop may stand still.  A process that stops ends: the
\* heartbeat of a timer set after the stop comes every 5 seconds and cannot
\* prolong a release for ever.
Fairness ==
    /\ \A w \in Worker : WF_vars(CoordinatorStep(w)) /\ WF_vars(ReleaseStep(w))
    /\ \A w \in Worker : SF_vars(ReleaseEnds(w)) /\ WF_vars(Exit(w))
    /\ WF_vars(Tick)

FairSpec == Spec /\ Fairness

-----------------------------------------------------------------------------
(* Properties                                                              *)

Running == {w \in Worker : life[w] = "up"}

\* Two running workers never both believe they own a shard, as long as a lease
\* outlives the renewals that were missed: a renewal that throws keeps the
\* shard in ownedShards although nobody knows whether the key is still there.
OwnershipExclusive ==
    missed + 1 < Ttl =>
        \A v, w \in Running : v # w => owned[v] \intersect owned[w] = {}

\* Nor do two running workers dispatch from one shard, although each works on
\* a snapshot of ownedShards taken any number of heartbeats ago.  A worker that
\* stops may: it releases its leases and goes on to the end of its batch.
RunningDispatchExclusive ==
    missed + 1 < Ttl =>
        \A v, w \in Running : v # w /\ serving[v] # None => serving[v] # serving[w]

Attended(s) == \E w \in Running : s \in owned[w] /\ Holds(w, s)

\* No shard is orphaned: after a crash, a stop, a lost reply or a lost lease
\* each shard is again owned and held by a running worker, if there is one.
ShardReattended ==
    \A s \in Shard : (Running # {} /\ ~Attended(s)) ~> (Attended(s) \/ Running = {})

Shared(s) == \E v, w \in Running : v # w /\ s \in owned[v] \intersect owned[w]

\* Losing a lease is noticed: when a lease has run out under a worker that goes
\* on, and another has claimed the shard, one of them gives the shard up.  The
\* reply of the renewal tells them apart, if their names do.
OwnershipRepaired == \A s \in Shard : Shared(s) ~> ~Shared(s)

=============================================================================
