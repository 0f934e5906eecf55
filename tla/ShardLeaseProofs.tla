-------------------------- MODULE ShardLeaseProofs --------------------------
(***************************************************************************)
(* Machine-checked proofs about ShardLease, for any number of workers and  *)
(* shards and any time to live.                                            *)
(***************************************************************************)
EXTENDS ShardLease, TLAPS

-----------------------------------------------------------------------------
(* The inductive invariant behind the exclusiveness of running workers      *)

Tending == {w \in Worker : life[w] \in {"starting", "up"}}

\* Worker w has renewed s, or missed it, since the last tick.
Settled(w, s) == beat[w] /\ ~(phase[w] = "renew" /\ s \in todo[w])

\* What a lease may have run down: a period for each renewal missed by anyone,
\* and one for the period that is not over.
Margin(w, s) == ttl[s] + missed + (IF Settled(w, s) THEN 0 ELSE 1)

Kept(w) ==
    /\ \A s \in owned[w] : Holds(w, s) /\ Margin(w, s) >= Ttl
    /\ round[w] \subseteq owned[w]
    /\ serving[w] \in owned[w] \union {None}

\* While fewer renewals were missed than a lease survives, whoever believes to
\* own a shard holds its key with enough time left, and works on shards it owns.
LInv ==
    /\ TypeOK
    /\ \A w \in Worker : life[w] = "new" => timer[w] = "unset" /\ owned[w] = {} /\ phase[w] = "idle"
    /\ \A w \in Worker : life[w] \in {"new", "starting"} =>
          round[w] = {} /\ serving[w] = None
    /\ missed + 1 < Ttl => \A w \in Tending : Kept(w)

-----------------------------------------------------------------------------
(* Proofs                                                                  *)

LEMMA InitLInv == Init => LInv
  BY LeaseAssumption DEF Init, LInv, TypeOK, Tending, Kept

LEMMA StepType ==
  ASSUME TypeOK, [Next]_vars
  PROVE  TypeOK'
  <1> USE LeaseAssumption DEF lease, coord, loop, bounds, Miss, Set, Holds, Expire, Del, Disown, Visit
  <1>1. ASSUME NEW w \in Worker, Start(w) \/ Shutdown(w)
        PROVE  TypeOK'
    <2>1. CASE Start(w)
      BY <2>1 DEF Start, TypeOK
    <2>2. CASE Stop(w)
      BY <2>2 DEF Stop, TypeOK
    <2>3. ASSUME NEW s \in Shard, Release(w, s)
          PROVE  TypeOK'
      BY <2>3 DEF Release, TypeOK
    <2>4. CASE ReleaseEnds(w)
      BY <2>4 DEF ReleaseEnds, TypeOK
    <2>5. CASE Exit(w)
      BY <2>5 DEF Exit, End, TypeOK
    <2> QED
      BY <1>1, <2>1, <2>2, <2>3, <2>4, <2>5 DEF Shutdown, ReleaseStep
  <1>2. ASSUME NEW w \in Worker, CoordinatorStep(w)
        PROVE  TypeOK'
    <2>1. CASE Heartbeat(w)
      BY <2>1 DEF Heartbeat, TypeOK
    <2>2. CASE RenewEnds(w) \/ ClaimEnds(w)
      BY <2>2 DEF RenewEnds, ClaimEnds, TypeOK
    <2>3. ASSUME NEW s \in Shard, Renew(w, s)
          PROVE  TypeOK'
      BY <2>3 DEF Renew, TypeOK
    <2>4. ASSUME NEW s \in Shard, Claim(w, s)
          PROVE  TypeOK'
      BY <2>4 DEF Claim, TypeOK
    <2> QED
      BY <1>2, <2>1, <2>2, <2>3, <2>4 DEF CoordinatorStep
  <1>3. ASSUME NEW w \in Worker, LoopStep(w)
        PROVE  TypeOK'
    BY <1>3 DEF LoopStep, Snapshot, Serve, Served, TypeOK
  <1>4. ASSUME NEW w \in Worker, Trouble(w)
        PROVE  TypeOK'
    <2>1. CASE Crash(w)
      BY <2>1 DEF Crash, End, TypeOK
    <2>2. ASSUME NEW s \in Shard, RenewThrows(w, s)
          PROVE  TypeOK'
      BY <2>2 DEF RenewThrows, TypeOK
    <2>3. ASSUME NEW s \in Shard, ClaimThrows(w, s)
          PROVE  TypeOK'
      BY <2>3 DEF ClaimThrows, TypeOK
    <2>4. ASSUME NEW s \in Shard, ReleaseThrows(w, s)
          PROVE  TypeOK'
      BY <2>4 DEF ReleaseThrows, TypeOK
    <2> QED
      BY <1>4, <2>1, <2>2, <2>3, <2>4 DEF Trouble
  <1>5. ASSUME Tick \/ LateTick
        PROVE  TypeOK'
    <2>1. PassTime /\ crashes' = crashes /\ missed' \in 0 .. MaxMissed
      BY <1>5 DEF Tick, LateTick, TypeOK
    <2>2. ttl' \in [Shard -> 0 .. Ttl]
      <3>1. \A s \in Shard : (IF ttl[s] = 0 THEN 0 ELSE ttl[s] - 1) \in 0 .. Ttl
        BY DEF TypeOK
      <3> QED
        BY <2>1, <3>1 DEF PassTime
    <2>3. holder' \in [Shard -> {Name[w] : w \in Worker} \union {None}] /\ beat' \in [Worker -> BOOLEAN]
      BY <2>1 DEF PassTime, TypeOK
    <2> QED
      BY <2>1, <2>2, <2>3 DEF PassTime, TypeOK
  <1>6. CASE UNCHANGED vars
    BY <1>6 DEF vars, TypeOK
  <1> QED
    BY <1>1, <1>2, <1>3, <1>4, <1>5, <1>6 DEF Next

\* A worker that has not begun or not finished start() works on no shard.
BeforeUp ==
    /\ \A w \in Worker : life[w] = "new" => timer[w] = "unset" /\ owned[w] = {} /\ phase[w] = "idle"
    /\ \A w \in Worker : life[w] \in {"new", "starting"} =>
          round[w] = {} /\ serving[w] = None

\* One worker steps from or to "starting" at a time; only Start, ClaimEnds and
\* the loop of an "up" worker touch what BeforeUp is about.
LEMMA StepBeforeUp ==
  ASSUME LInv, [Next]_vars
  PROVE  BeforeUp'
  <1> USE DEF lease, coord, loop, bounds, LInv, BeforeUp, TypeOK, Visit, Disown
  <1>1. ASSUME NEW w \in Worker, Start(w) \/ Shutdown(w) \/ LoopStep(w)
        PROVE  BeforeUp'
    <2>1. CASE Start(w) \/ LoopStep(w)
      BY <2>1 DEF Start, LoopStep, Snapshot, Serve, Served
    <2>2. CASE Shutdown(w)
      BY <2>2 DEF Shutdown, Stop, ReleaseStep, Release, ReleaseEnds, Exit, End
    <2> QED
      BY <1>1, <2>1, <2>2
  <1>2. ASSUME NEW w \in Worker, CoordinatorStep(w)
        PROVE  BeforeUp'
    <2>1. CASE Heartbeat(w)
      <3>1. life[w] # "new"
        BY <2>1 DEF Heartbeat
      <3> QED
        BY <2>1, <3>1 DEF Heartbeat
    <2>2. CASE RenewEnds(w)
      BY <2>2 DEF RenewEnds
    <2>3. CASE ClaimEnds(w)
      BY <2>3 DEF ClaimEnds
    <2>4. ASSUME NEW s \in Shard, Renew(w, s)
          PROVE  BeforeUp'
      BY <2>4 DEF Renew
    <2>5. ASSUME NEW s \in Shard, Claim(w, s)
          PROVE  BeforeUp'
      BY <2>5 DEF Claim
    <2> QED
      BY <1>2, <2>1, <2>2, <2>3, <2>4, <2>5 DEF CoordinatorStep
  <1>3. ASSUME NEW w \in Worker, Trouble(w)
        PROVE  BeforeUp'
    BY <1>3 DEF Trouble, Crash, End, RenewThrows, ClaimThrows, ReleaseThrows
  <1>4. CASE Tick \/ LateTick \/ UNCHANGED vars
    BY <1>4 DEF Tick, LateTick, PassTime, vars
  <1> QED
    BY <1>1, <1>2, <1>3, <1>4 DEF Next

\* What the arithmetic of missed renewals needs to know.
LEMMA MissedTypes ==
  ASSUME TypeOK, TypeOK'
  PROVE  missed \in Nat /\ missed' \in Nat /\ Ttl \in Nat
  BY LeaseAssumption DEF TypeOK

-----------------------------------------------------------------------------
(* Kept: what each step leaves of the leases of a worker                   *)

\* A step of someone else that takes nothing from the keys worker v holds.
LEMMA KeptFrame ==
  ASSUME TypeOK, TypeOK', NEW v \in Worker, Kept(v), missed' >= missed,
         owned'[v] = owned[v], phase'[v] = phase[v], todo'[v] = todo[v],
         beat'[v] = beat[v], round'[v] = round[v], serving'[v] = serving[v],
         \A s \in owned[v] : holder'[s] = holder[s] /\ ttl'[s] = ttl[s]
  PROVE  Kept(v)'
  <1>1. ASSUME NEW s \in owned'[v]
        PROVE  holder'[s] = Name[v] /\ Margin(v, s)' >= Ttl
    <2>1. s \in owned[v] /\ s \in Shard
      BY <1>1 DEF TypeOK
    <2>2. holder[s] = Name[v] /\ Margin(v, s) >= Ttl
      BY <2>1 DEF Kept, Holds
    <2> QED
      BY <2>1, <2>2, LeaseAssumption DEF Margin, Settled, TypeOK
  <1> QED
    BY <1>1 DEF Kept, Holds

\* Nothing that only worker w changes touches another worker's leases: w sets
\* absent keys, and renews or deletes those it holds.
LEMMA KeptByOthers ==
  ASSUME DistinctNames, TypeOK, TypeOK', NEW v \in Worker, NEW w \in Worker, v # w, Kept(v),
         missed' >= missed,
         owned'[v] = owned[v], phase'[v] = phase[v], todo'[v] = todo[v],
         beat'[v] = beat[v], round'[v] = round[v], serving'[v] = serving[v],
         \A s \in Shard : holder[s] \notin {Name[w], None} => holder'[s] = holder[s] /\ ttl'[s] = ttl[s]
  PROVE  Kept(v)'
  <1>1. \A s \in owned[v] : holder'[s] = holder[s] /\ ttl'[s] = ttl[s]
    BY LeaseAssumption DEF DistinctNames, Kept, Holds, TypeOK
  <1> QED
    BY <1>1, KeptFrame

\* What a step of worker w leaves alone.
Elsewhere(w) ==
    /\ \A v \in Worker \ {w} :
         /\ life'[v] = life[v] /\ owned'[v] = owned[v] /\ phase'[v] = phase[v]
         /\ todo'[v] = todo[v] /\ beat'[v] = beat[v]
         /\ round'[v] = round[v] /\ serving'[v] = serving[v]
    /\ \A s \in Shard : holder[s] \notin {Name[w], None} => holder'[s] = holder[s] /\ ttl'[s] = ttl[s]
    /\ missed' >= missed

\* So only the leases of w itself are left to look at.
LEMMA KeptStep ==
  ASSUME DistinctNames, LInv, TypeOK', NEW w \in Worker, Elsewhere(w), missed' + 1 < Ttl,
         w \in Tending' => Kept(w)'
  PROVE  \A v \in Tending' : Kept(v)'
  <1> SUFFICES ASSUME NEW v \in Tending', v # w
               PROVE  Kept(v)'
    OBVIOUS
  <1>1. v \in Worker /\ v \in Tending
    BY DEF Tending, Elsewhere
  <1>2. missed + 1 < Ttl /\ missed' >= missed
    BY MissedTypes DEF Elsewhere, LInv
  <1>3. Kept(v)
    BY <1>1, <1>2 DEF LInv
  <1> QED
    BY <1>1, <1>2, <1>3, KeptByOthers DEF Elsewhere, LInv

\* No Redis command of w frees or shortens a lease that another worker holds.
LEMMA StepElsewhere ==
  ASSUME TypeOK, NEW w \in Worker,
         Start(w) \/ Shutdown(w) \/ CoordinatorStep(w) \/ LoopStep(w) \/ Trouble(w)
  PROVE  Elsewhere(w)
  <1> USE LeaseAssumption DEF lease, coord, loop, bounds, Miss, Set, Holds, Expire, Del, Disown, Visit,
                              TypeOK, Elsewhere
  <1>1. CASE Start(w)
    BY <1>1 DEF Start
  <1>2. CASE Shutdown(w) \/ LoopStep(w)
    <2>1. CASE Stop(w) \/ ReleaseEnds(w) \/ LoopStep(w)
      BY <2>1 DEF Stop, ReleaseEnds, LoopStep, Snapshot, Serve, Served
    <2>2. ASSUME NEW s \in Shard, Release(w, s)
          PROVE  Elsewhere(w)
      BY <2>2 DEF Release
    <2>3. CASE Exit(w)
      BY <2>3 DEF Exit, End
    <2> QED
      BY <1>2, <2>1, <2>2, <2>3 DEF Shutdown, ReleaseStep
  <1>3. CASE CoordinatorStep(w)
    <2>1. CASE Heartbeat(w) \/ RenewEnds(w) \/ ClaimEnds(w)
      BY <2>1 DEF Heartbeat, RenewEnds, ClaimEnds
    <2>2. ASSUME NEW s \in Shard, Renew(w, s)
          PROVE  Elsewhere(w)
      BY <2>2 DEF Renew
    <2>3. ASSUME NEW s \in Shard, Claim(w, s)
          PROVE  Elsewhere(w)
      BY <2>3 DEF Claim
    <2> QED
      BY <1>3, <2>1, <2>2, <2>3 DEF CoordinatorStep
  <1>4. CASE Trouble(w)
    <2>1. CASE Crash(w)
      BY <2>1 DEF Crash, End
    <2>2. ASSUME NEW s \in Shard, RenewThrows(w, s)
          PROVE  Elsewhere(w)
      BY <2>2 DEF RenewThrows
    <2>3. ASSUME NEW s \in Shard, ClaimThrows(w, s)
          PROVE  Elsewhere(w)
      BY <2>3 DEF ClaimThrows
    <2>4. ASSUME NEW s \in Shard, ReleaseThrows(w, s)
          PROVE  Elsewhere(w)
      BY <2>4 DEF ReleaseThrows
    <2> QED
      BY <1>4, <2>1, <2>2, <2>3, <2>4 DEF Trouble
  <1> QED
    BY <1>1, <1>2, <1>3, <1>4

\* A step of w keeps the leases of w.
LEMMA StepOwnLeases ==
  ASSUME LInv, TypeOK', NEW w \in Worker, missed' + 1 < Ttl, w \in Tending',
         Start(w) \/ Shutdown(w) \/ CoordinatorStep(w) \/ LoopStep(w) \/ Trouble(w)
  PROVE  Kept(w)'
  <1>0. TypeOK /\ missed' >= missed /\ missed + 1 < Ttl
    BY StepElsewhere, MissedTypes DEF LInv, Elsewhere
  <1>1. w \in Tending => Kept(w)
    BY <1>0 DEF LInv
  <1> USE DEF lease, coord, loop, bounds, Miss, Set, Holds, Expire, Del, Disown, Visit,
              Tending, Kept, Margin, Settled
  <1>2. CASE Start(w)
    BY <1>0, <1>2 DEF Start, LInv, TypeOK
  <1>3. CASE Stop(w) \/ Crash(w) \/ ReleaseEnds(w) \/ Exit(w)
    BY <1>0, <1>3 DEF Stop, Crash, ReleaseEnds, Exit, End, TypeOK
  <1>4. CASE LoopStep(w)
    BY <1>0, <1>1, <1>4 DEF LoopStep, Snapshot, Serve, Served, TypeOK
  <1>5. CASE Heartbeat(w)
    BY <1>0, <1>1, <1>5 DEF Heartbeat, TypeOK
  <1>6. CASE RenewEnds(w)
    BY <1>0, <1>1, <1>6 DEF RenewEnds, TypeOK
  <1>7. CASE ClaimEnds(w)
    BY <1>0, <1>1, <1>7 DEF ClaimEnds, TypeOK
  <1>8. ASSUME NEW s \in Shard, Renew(w, s)
        PROVE  Kept(w)'
    BY <1>0, <1>1, <1>8, LeaseAssumption DEF Renew, TypeOK
  <1>9. ASSUME NEW s \in Shard, RenewThrows(w, s)
        PROVE  Kept(w)'
    BY <1>0, <1>1, <1>9, LeaseAssumption DEF RenewThrows, TypeOK
  <1>10. ASSUME NEW s \in Shard, Claim(w, s)
         PROVE  Kept(w)'
    BY <1>0, <1>1, <1>10, LeaseAssumption DEF Claim, TypeOK
  <1>11. ASSUME NEW s \in Shard, ClaimThrows(w, s)
         PROVE  Kept(w)'
    BY <1>0, <1>1, <1>11, LeaseAssumption DEF ClaimThrows, TypeOK
  <1>12. ASSUME NEW s \in Shard, Release(w, s) \/ ReleaseThrows(w, s)
         PROVE  Kept(w)'
    BY <1>0, <1>12 DEF Release, ReleaseThrows, TypeOK
  <1> QED
    BY <1>2, <1>3, <1>4, <1>5, <1>6, <1>7, <1>8, <1>9, <1>10, <1>11, <1>12
       DEF CoordinatorStep, Shutdown, ReleaseStep, Trouble

\* Time takes one period from every lease: one that was renewed in time for its
\* worker, one more renewal missed otherwise.
LEMMA TimeKeeps ==
  ASSUME LInv, TypeOK', Tick \/ LateTick, missed' + 1 < Ttl, NEW v \in Tending'
  PROVE  Kept(v)'
  <1>1. TypeOK /\ PassTime /\ v \in Tending /\ v \in Worker
    BY DEF LInv, Tick, LateTick, PassTime, Tending
  <1>2. missed' >= missed /\ missed + 1 < Ttl /\ missed \in Nat /\ missed' \in Nat
    <2>1. missed' = missed \/ missed' = missed + 1
      BY DEF Tick, LateTick, Miss, bounds
    <2> QED
      BY <2>1, MissedTypes DEF LInv
  <1>3. Kept(v)
    BY <1>1, <1>2 DEF LInv
  <1>4. ASSUME NEW s \in owned[v]
        PROVE  holder'[s] = Name[v] /\ Margin(v, s)' >= Ttl
    <2>1. s \in Shard /\ holder[s] = Name[v] /\ Margin(v, s) >= Ttl /\ ttl[s] \in Nat
      BY <1>1, <1>3 DEF Kept, Holds, TypeOK
    <2>2. CASE Tick
      <3>1. Settled(v, s) /\ missed' = missed
        BY <1>1, <2>2 DEF Tick, OnTime, Tending, Settled, bounds, TypeOK
      <3>2. ttl[s] + missed >= Ttl
        BY <1>2, <2>1, <3>1 DEF Margin
      <3> QED
        BY <1>1, <1>2, <2>1, <3>1, <3>2, LeaseAssumption DEF PassTime, Margin, Settled, TypeOK
    <2>3. CASE LateTick
      <3>1. missed' = missed + 1
        BY <2>3 DEF LateTick, Miss
      <3>2. ttl[s] + missed + 1 >= Ttl
        BY <2>1, <1>2, LeaseAssumption DEF Margin
      <3> QED
        BY <1>1, <1>2, <2>1, <3>1, <3>2, LeaseAssumption DEF PassTime, Margin, Settled, TypeOK
    <2> QED
      BY <2>2, <2>3
  <1> QED
    BY <1>1, <1>3, <1>4 DEF Kept, Holds, PassTime, loop

LEMMA StepLInv == DistinctNames /\ LInv /\ [Next]_vars => LInv'
  <1> SUFFICES ASSUME DistinctNames, LInv, [Next]_vars
               PROVE  LInv'
    OBVIOUS
  <1>1. TypeOK'
    BY StepType DEF LInv
  <1>2. BeforeUp'
    BY StepBeforeUp
  <1>3. ASSUME missed' + 1 < Ttl
        PROVE  \A v \in Tending' : Kept(v)'
    <2>1. ASSUME NEW w \in Worker,
                 Start(w) \/ Shutdown(w) \/ CoordinatorStep(w) \/ LoopStep(w) \/ Trouble(w)
          PROVE  \A v \in Tending' : Kept(v)'
      BY <1>1, <1>3, <2>1, StepElsewhere, StepOwnLeases, KeptStep DEF LInv
    <2>2. CASE Tick \/ LateTick
      BY <1>1, <1>3, <2>2, TimeKeeps
    <2>3. CASE UNCHANGED vars
      BY <1>3, <2>3 DEF vars, lease, coord, loop, bounds, LInv, Tending, Kept, Holds, Margin, Settled
    <2> QED
      BY <2>1, <2>2, <2>3 DEF Next
  <1> QED
    BY <1>1, <1>2, <1>3 DEF LInv, BeforeUp

\* The strengthened invariant holds of every behaviour of workers whose names
\* are distinct.
THEOREM LeaseInvariance == DistinctNames => (Spec => []LInv)
  <1>1. DistinctNames => (LInv /\ [Next]_vars => LInv')
    BY StepLInv
  <1>2. ASSUME DistinctNames
        PROVE  Spec => []LInv
    <2>1. LInv /\ [Next]_vars => LInv'
      BY <1>1, <1>2
    <2> QED
      BY <2>1, InitLInv, PTL DEF Spec
  <1> QED
    BY <1>2

\* Type correctness of keys, coordinators, worker loops and bounds, whatever
\* the names are.
THEOREM LeaseTypeCorrect == Spec => []TypeOK
  <1>1. Init => TypeOK
    BY InitLInv DEF LInv
  <1>2. TypeOK /\ [Next]_vars => TypeOK'
    BY StepType
  <1> QED
    BY <1>1, <1>2, PTL DEF Spec

\* As long as fewer renewals were missed than a lease survives, no two running
\* workers with names of their own believe they own one shard: ownership
\* follows the key, and the key outlives the periods without a renewal.
THEOREM ShardsAreExclusive == DistinctNames => (Spec => []OwnershipExclusive)
  <1>1. ASSUME DistinctNames
        PROVE  Spec => []OwnershipExclusive
    <2>1. LInv => OwnershipExclusive
      BY <1>1 DEF DistinctNames, LInv, OwnershipExclusive, Running, Tending, Kept, Holds
    <2>2. Spec => []LInv
      BY <1>1, LeaseInvariance
    <2> QED
      BY <2>1, <2>2, PTL
  <1> QED
    BY <1>1

\* Under the same condition no two running workers dispatch from one shard,
\* however old the snapshots they work on.
THEOREM DispatchIsExclusive == DistinctNames => (Spec => []RunningDispatchExclusive)
  <1>1. ASSUME DistinctNames
        PROVE  Spec => []RunningDispatchExclusive
    <2>1. LInv => RunningDispatchExclusive
      <3> SUFFICES ASSUME LInv, missed + 1 < Ttl, NEW v \in Running, NEW w \in Running,
                          v # w, serving[v] # None
                   PROVE  serving[v] # serving[w]
        BY DEF RunningDispatchExclusive
      <3>1. Kept(v) /\ Kept(w) /\ v \in Worker /\ w \in Worker
        BY DEF LInv, Running, Tending
      <3>2. serving[v] \in owned[v] /\ holder[serving[v]] = Name[v]
        BY <3>1 DEF Kept, Holds
      <3>3. serving[w] # None => holder[serving[w]] = Name[w]
        BY <3>1 DEF Kept, Holds
      <3> QED
        BY <1>1, <3>1, <3>2, <3>3 DEF DistinctNames
    <2>2. Spec => []LInv
      BY <1>1, LeaseInvariance
    <2> QED
      BY <2>1, <2>2, PTL
  <1> QED
    BY <1>1

=============================================================================
