----------------------------- MODULE TokenBucket -----------------------------
(***************************************************************************)
(* The token buckets of EventRelay: one in Redis that all processes share, *)
(* evaluated by a Lua script, and the bucket each gateway process keeps    *)
(* for the calls on which Redis answers with an error.  A bucket is        *)
(* refilled with the time stamp of the caller, taken from the caller's     *)
(* clock before the call is sent.                                          *)
(*                                                                         *)
(* The unit of time is the unit of tokens: one tick refills one unit and a *)
(* call costs Cost units, 1000 / refillRate milliseconds in the code.      *)
(* Stamps are kept relative to the true time, so that they grow old by     *)
(* counting down.                                                          *)
(***************************************************************************)
EXTENDS Integers

CONSTANTS
    Request,    \* calls under way at one time
    Process,    \* backend processes
    Shared,     \* the bucket in Redis
    Capacity,   \* a full bucket, in units
    Cost,       \* units of one call
    Ttl,        \* 60 s: EXPIRE of the Redis bucket, age of a local one
    MaxAhead,   \* bound: how far a stamp may lie in the future
    MaxLate,    \* bound: how old a stamp may be when it is used
    MaxFaults   \* bound: error replies and lost replies

\* A call costs no more than a bucket holds, and a bucket is forgotten only
\* when it has long been full: 60 s against one second of refill.
ASSUME BucketAssumption ==
    /\ Capacity \in Nat /\ Cost \in 1 .. Capacity
    /\ MaxAhead \in Nat /\ MaxLate \in Nat
    /\ Ttl \in Nat /\ Ttl >= Capacity + 2 * (MaxAhead + MaxLate)

ASSUME BucketNames == Shared \notin Process /\ MaxFaults \in Nat

Bucket == Process \union {Shared}

VARIABLES
    limiter,    \* "inbound" or "outbound"
    there,      \* buckets that exist
    tokens,     \* units in a bucket when it was last used
    stamp,      \* lastRefill, relative to the true time of that use
    idle,       \* ticks since that use
    pc,         \* of a call: "idle", "asked" or "fallback"
    at,         \* the process that makes the call
    now,        \* its stamp, relative to the present
    level,      \* history: units granted by a bucket, draining one per tick
    faults

buckets == <<there, tokens, stamp, idle, level>>
calls   == <<pc, at, now>>
vars    == <<limiter, buckets, calls, faults>>

Stamps == -MaxLate .. MaxAhead

\* Beyond this age a local bucket is full for every stamp.
Aged == Ttl + MaxAhead + MaxLate + 1

TypeOK ==
    /\ limiter \in {"inbound", "outbound"}
    /\ there \subseteq Bucket
    /\ tokens \in [Bucket -> Int]
    /\ \A b \in Bucket : tokens[b] <= Capacity
    /\ stamp \in [Bucket -> Stamps]
    /\ idle \in [Bucket -> 0 .. Aged]
    /\ pc \in [Request -> {"idle", "asked", "fallback"}]
    /\ at \in [Request -> Process]
    /\ now \in [Request -> Stamps]
    /\ level \in [Bucket -> Nat]
    /\ faults \in 0 .. MaxFaults

Init ==
    /\ limiter \in {"inbound", "outbound"}
    /\ there = {}
    /\ tokens = [b \in Bucket |-> Capacity]
    /\ stamp = [b \in Bucket |-> 0]
    /\ idle = [b \in Bucket |-> 0]
    /\ pc = [r \in Request |-> "idle"]
    /\ at \in {[r \in Request |-> p] : p \in Process}
    /\ now = [r \in Request |-> 0]
    /\ level = [b \in Bucket |-> 0]
    /\ faults = 0

-----------------------------------------------------------------------------
(* The bucket                                                              *)

AtMost(n, m) == IF m < n THEN m ELSE n

\* lastRefill as seen from the present.
LastRefill(b) == stamp[b] - idle[b]

\* Mutants of Refilled: no cap on the refill, and no refill for a stamp that
\* lies before lastRefill.
RefilledUncapped(b, s) ==
    IF b \in there THEN tokens[b] + (s - LastRefill(b)) ELSE Capacity
RefilledForward(b, s) ==
    IF b \in there
    THEN AtMost(Capacity, tokens[b] + (IF s < LastRefill(b) THEN 0 ELSE s - LastRefill(b)))
    ELSE Capacity

\* tokens after the refill: negative when the stamp lies before lastRefill of
\* a bucket that is nearly empty.
Refilled(b, s) ==
    IF b \in there THEN AtMost(Capacity, tokens[b] + (s - LastRefill(b))) ELSE Capacity

Granted(b, s) == Refilled(b, s) >= Cost

\* Mutant of Use: a refusal writes lastRefill and not the refilled tokens.
UseDropsRefill(b, s) ==
    /\ there' = there \union {b}
    /\ tokens' = IF Granted(b, s) THEN [tokens EXCEPT ![b] = Refilled(b, s) - Cost] ELSE tokens
    /\ stamp' = [stamp EXCEPT ![b] = s]
    /\ idle' = [idle EXCEPT ![b] = 0]
    /\ level' = [level EXCEPT ![b] = @ + (IF Granted(b, s) THEN Cost ELSE 0)]

\* One evaluation, by the Lua script or by the fallback code.
Use(b, s) ==
    /\ there' = there \union {b}
    /\ tokens' = [tokens EXCEPT ![b] = Refilled(b, s) - (IF Granted(b, s) THEN Cost ELSE 0)]
    /\ stamp' = [stamp EXCEPT ![b] = s]
    /\ idle' = [idle EXCEPT ![b] = 0]
    /\ level' = [level EXCEPT ![b] = @ + (IF Granted(b, s) THEN Cost ELSE 0)]

-----------------------------------------------------------------------------
(* A call                                                                  *)

\* Date.now() is read once, before the script is sent.
Call(r, p, s) ==
    /\ pc[r] = "idle"
    /\ pc' = [pc EXCEPT ![r] = "asked"]
    /\ at' = [at EXCEPT ![r] = p]
    /\ now' = [now EXCEPT ![r] = s]
    /\ UNCHANGED <<limiter, buckets, faults>>

Ends(r) == /\ pc' = [pc EXCEPT ![r] = "idle"]
           /\ now' = [now EXCEPT ![r] = 0]
           /\ UNCHANGED at

Evaluate(r) ==
    /\ pc[r] = "asked"
    /\ Use(Shared, now[r])
    /\ Ends(r)
    /\ UNCHANGED <<limiter, faults>>

Fault == faults < MaxFaults /\ faults' = faults + 1

\* The connection breaks after the script has run: the client was told to wait
\* for the connection for ever, and sends the script again.
EvaluateAgain(r) ==
    /\ pc[r] = "asked"
    /\ Fault
    /\ Use(Shared, now[r])
    /\ UNCHANGED <<limiter, calls>>

\* Redis answers with an error.  The inbound limiter turns to the bucket of the
\* process; the outbound one allows or refuses without a bucket (failClosed).
EvaluateFails(r) ==
    /\ pc[r] = "asked"
    /\ Fault
    /\ IF limiter = "inbound"
       THEN pc' = [pc EXCEPT ![r] = "fallback"] /\ UNCHANGED <<at, now>>
       ELSE Ends(r)
    /\ UNCHANGED <<limiter, buckets>>

\* The catch block uses the stamp read before the call.
UseLocal(r) ==
    /\ pc[r] = "fallback"
    /\ Use(at[r], now[r])
    /\ Ends(r)
    /\ UNCHANGED <<limiter, faults>>

-----------------------------------------------------------------------------
(* Time                                                                    *)

\* The buckets of S are deleted.
Forget(S) ==
    /\ there' = there \ S
    /\ tokens' = [b \in Bucket |-> IF b \in S THEN Capacity ELSE tokens[b]]
    /\ stamp' = [b \in Bucket |-> IF b \in S THEN 0 ELSE stamp[b]]

\* A tick passes, at whose end the key in Redis may have expired.
Tick ==
    LET expired == {b \in there \intersect {Shared} : idle[b] + 1 = Ttl} IN
    /\ \A r \in Request : pc[r] # "idle" => now[r] > -MaxLate
    /\ Forget(expired)
    /\ idle' = [b \in Bucket |-> IF b \in there \ expired THEN AtMost(Aged, idle[b] + 1) ELSE 0]
    /\ now' = [r \in Request |-> IF pc[r] # "idle" THEN now[r] - 1 ELSE now[r]]
    /\ level' = [b \in Bucket |-> IF level[b] > 0 THEN level[b] - 1 ELSE 0]
    /\ UNCHANGED <<limiter, pc, at, faults>>

\* cleanupTimer, at s by the clock of process p.
Cleanup(p, s) ==
    /\ p \in there
    /\ s - LastRefill(p) > Ttl
    /\ Forget({p})
    /\ idle' = [idle EXCEPT ![p] = 0]
    /\ UNCHANGED <<limiter, level, calls, faults>>

Next ==
    \/ \E r \in Request :
          \/ \E p \in Process, s \in Stamps : Call(r, p, s)
          \/ Evaluate(r) \/ EvaluateAgain(r) \/ EvaluateFails(r) \/ UseLocal(r)
    \/ Tick
    \/ \E p \in Process, s \in Stamps : Cleanup(p, s)

Spec == Init /\ [][Next]_vars

-----------------------------------------------------------------------------
(* Properties                                                              *)

\* Quota: in any n ticks a bucket grants at most Capacity + n units, plus what
\* stamps of skewed clocks and delayed calls can add.  It holds over expiry and
\* clean-up, and for stamps that arrive in any order (consume, rateLimit.ts).
QuotaKept == \A b \in Bucket : level[b] <= Capacity + MaxAhead + MaxLate

\* No refusal without cause: a call is refused only when the bucket has just
\* granted what the call would have to wait for, less the time by which its stamp
\* lags behind the most advanced clock.  A caller whose clock leads is refused
\* only by what was granted, whatever stamps the others send; one that lags by
\* Capacity - Cost units, about a second since a bucket is one second of refill,
\* has no such promise: the calls of a process whose clock is ahead move
\* lastRefill past it, and it may be refused although next to nothing was granted.
RefusedOnlyWhenSpent ==
    \A b \in Bucket, s \in Stamps :
        ~Granted(b, s) => level[b] > Capacity - Cost - (MaxAhead - s)

=============================================================================
