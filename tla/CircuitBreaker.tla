--------------------------- MODULE CircuitBreaker ---------------------------
(***************************************************************************)
(* The circuit breaker of one endpoint: a row of circuit_breakers that     *)
(* every worker reads and writes with separate SQL statements around its   *)
(* HTTP call.  One step is one statement; between two of them any other    *)
(* caller, an operator's reset or the passing of the cool-down may step    *)
(* in.                                                                     *)
(***************************************************************************)
EXTENDS Integers, FiniteSets

CONSTANTS
    Caller,         \* workers, each with one call to the endpoint at a time
    Threshold,      \* threshold_failures
    MaxAbandons,    \* bound: calls given up by the URL check
    MaxCrashes,     \* bound: callers that die or whose statement throws
    MaxFaults,      \* bound: statements of recordSuccess that throw
    MaxResets       \* bound: manual resets

ASSUME ThresholdAssumption == Threshold \in Nat \ {0}
ASSUME BudgetAssumption ==
    MaxAbandons \in Nat /\ MaxCrashes \in Nat /\ MaxFaults \in Nat /\ MaxResets \in Nat

VARIABLES
    circuit,    \* the row: state, failure_count, whether the cool-down is over
    pc,         \* where a caller stands between canExecute and its last write
    seen,       \* the state the caller's claim UPDATE is conditional on
    probing,    \* callers whose call is the trial probe
    claimants,  \* history: callers granted a probe since the last opening
    abandons, crashes, faults, resets    \* how much of each bound is used

budgets == <<abandons, crashes, faults, resets>>
vars == <<circuit, pc, seen, probing, claimants, budgets>>

-----------------------------------------------------------------------------

States == {"ABSENT", "CLOSED", "OPEN", "HALF_OPEN", "HALF_OPEN_PROBING"}
HalfOpen == {"HALF_OPEN", "HALF_OPEN_PROBING"}

\* failure_count is only ever compared with the threshold: counts beyond it
\* behave alike and are kept at it.
Counts == 0 .. Threshold
Bumped(n) == IF n < Threshold THEN n + 1 ELSE Threshold

Closed == [state |-> "CLOSED", failures |-> 0, cooled |-> FALSE]
NoRow  == [state |-> "ABSENT", failures |-> 0, cooled |-> FALSE]

\* getCircuit inserts the default row when createEndpoint did not get to it.
Found == IF circuit.state = "ABSENT" THEN Closed ELSE circuit

\* Type invariant: the row, the callers' local state and the bounds.
TypeOK ==
    /\ circuit \in [state : States, failures : Counts, cooled : BOOLEAN]
    /\ pc \in [Caller -> {"idle", "claiming", "calling", "ok", "closing",
                          "clearing", "failed", "tripping"}]
    /\ seen \in [Caller -> {"OPEN", "HALF_OPEN"}]
    /\ probing \subseteq Caller
    /\ claimants \subseteq Caller
    /\ abandons \in 0 .. MaxAbandons
    /\ crashes \in 0 .. MaxCrashes
    /\ faults \in 0 .. MaxFaults
    /\ resets \in 0 .. MaxResets

Init ==
    /\ circuit \in {Closed, NoRow}
    /\ pc = [c \in Caller |-> "idle"]
    /\ seen = [c \in Caller |-> "OPEN"]
    /\ probing = {} /\ claimants = {}
    /\ abandons = 0 /\ crashes = 0 /\ faults = 0 /\ resets = 0

Goto(c, step) == pc' = [pc EXCEPT ![c] = step]

\* The caller's job is over: it can take the next one.
Leave(c) == Goto(c, "idle") /\ probing' = probing \ {c}

-----------------------------------------------------------------------------
(* canExecute                                                              *)

\* Mutant of MayClaim: the cool-down of an open circuit is not looked at.
MayClaimHalfOpen(r) == r.state = "HALF_OPEN"

MayClaim(r) == r.state = "HALF_OPEN" \/ (r.state = "OPEN" /\ r.cooled)

\* The SELECT, and what is decided on the row it returned.
ReadCircuit(c) ==
    /\ pc[c] = "idle"
    /\ circuit' = Found
    /\ \/ Found.state = "CLOSED" /\ Goto(c, "calling") /\ UNCHANGED seen
       \/ /\ MayClaim(Found)
          /\ Goto(c, "claiming")
          /\ seen' = [seen EXCEPT ![c] = Found.state]
       \/ Found.state # "CLOSED" /\ ~MayClaim(Found) /\ UNCHANGED <<pc, seen>>
    /\ UNCHANGED <<probing, claimants, budgets>>

\* Mutant of ClaimMatches: the UPDATE is by endpoint only.
ClaimAlways(c) == pc[c] = "claiming"

\* The conditional UPDATE: it compares the state, not the opened_at the
\* decision was made on.
ClaimMatches(c) == circuit.state = seen[c]

Claim(c) ==
    /\ pc[c] = "claiming"
    /\ ClaimMatches(c)
    /\ circuit' = [circuit EXCEPT !.state = "HALF_OPEN_PROBING"]
    /\ probing' = probing \union {c}
    /\ claimants' = claimants \union {c}
    /\ Goto(c, "calling")
    /\ UNCHANGED <<seen, budgets>>

ClaimFails(c) ==
    /\ pc[c] = "claiming"
    /\ ~ClaimMatches(c)
    /\ Goto(c, "idle")
    /\ UNCHANGED <<circuit, seen, probing, claimants, budgets>>

-----------------------------------------------------------------------------
(* The HTTP call and recordSuccess                                         *)

CallEnds(c) ==
    /\ pc[c] = "calling"
    /\ Goto(c, "ok") \/ Goto(c, "failed")
    /\ UNCHANGED <<circuit, seen, probing, claimants, budgets>>

\* The URL check rejects the endpoint after canExecute: the job is failed and
\* acknowledged, and the breaker is told nothing.
Abandon(c) ==
    /\ pc[c] = "calling"
    /\ abandons < MaxAbandons
    /\ abandons' = abandons + 1
    /\ Leave(c)
    /\ UNCHANGED <<circuit, seen, claimants, crashes, faults, resets>>

\* Mutant of ReadAfterSuccess: the probing state is not recognised.
ReadAfterSuccessHalfOpen(c) ==
    /\ pc[c] = "ok"
    /\ circuit' = Found
    /\ IF Found.state = "HALF_OPEN" THEN Goto(c, "closing") /\ UNCHANGED probing
       ELSE Leave(c)
    /\ UNCHANGED <<seen, claimants, budgets>>

\* The SELECT of recordSuccess decides which UPDATE follows, if any.
ReadAfterSuccess(c) ==
    /\ pc[c] = "ok"
    /\ circuit' = Found
    /\ \/ Found.state \in HalfOpen /\ Goto(c, "closing") /\ UNCHANGED probing
       \/ Found.state = "CLOSED" /\ Found.failures > 0 /\ Goto(c, "clearing") /\ UNCHANGED probing
       \/ Found.state \notin HalfOpen /\ ~(Found.state = "CLOSED" /\ Found.failures > 0) /\ Leave(c)
    /\ UNCHANGED <<seen, claimants, budgets>>

Close(c) ==
    /\ pc[c] = "closing"
    /\ circuit' = Closed
    /\ Leave(c)
    /\ UNCHANGED <<seen, claimants, budgets>>

ClearCount(c) ==
    /\ pc[c] = "clearing"
    /\ circuit' = [circuit EXCEPT !.failures = 0]
    /\ Leave(c)
    /\ UNCHANGED <<seen, claimants, budgets>>

\* A statement of recordSuccess throws: processJob catches it and records a
\* failure of the endpoint instead.
RecordSuccessThrows(c) ==
    /\ pc[c] \in {"ok", "closing", "clearing"}
    /\ faults < MaxFaults
    /\ faults' = faults + 1
    /\ Goto(c, "failed")
    /\ UNCHANGED <<circuit, seen, probing, claimants, abandons, crashes, resets>>

-----------------------------------------------------------------------------
(* recordFailure                                                           *)

\* Mutant of MustTrip: the threshold compared with > .
MustTripLate(r) == r.state \in HalfOpen \/ r.failures > Threshold

MustTrip(r) == r.state \in HalfOpen \/ r.failures >= Threshold

\* The increment returns the row it wrote, on which the trip is decided; there
\* is no row to count in when none was ever inserted.
CountFailure(c) ==
    LET r == [circuit EXCEPT !.failures = Bumped(@)] IN
    /\ pc[c] = "failed"
    /\ circuit.state # "ABSENT"
    /\ circuit' = r
    /\ \/ MustTrip(r) /\ Goto(c, "tripping") /\ UNCHANGED probing
       \/ ~MustTrip(r) /\ Leave(c)
    /\ UNCHANGED <<seen, claimants, budgets>>

\* Mutant of Trip: a state that no reader of the row knows.
TripMisspelt(c) ==
    /\ pc[c] = "tripping"
    /\ circuit' = [circuit EXCEPT !.state = "OPENED", !.cooled = FALSE]
    /\ claimants' = {}
    /\ Leave(c)
    /\ UNCHANGED <<seen, budgets>>

\* The second UPDATE, whatever the row holds by now, restarts the cool-down.
Trip(c) ==
    /\ pc[c] = "tripping"
    /\ circuit' = [circuit EXCEPT !.state = "OPEN", !.cooled = FALSE]
    /\ claimants' = {}
    /\ Leave(c)
    /\ UNCHANGED <<seen, budgets>>

-----------------------------------------------------------------------------
(* Environment                                                             *)

CooldownElapses ==
    /\ circuit.state = "OPEN" /\ ~circuit.cooled
    /\ circuit' = [circuit EXCEPT !.cooled = TRUE]
    /\ UNCHANGED <<pc, seen, probing, claimants, budgets>>

ResetCircuit ==
    /\ resets < MaxResets
    /\ circuit.state # "ABSENT"
    /\ circuit' = Closed
    /\ resets' = resets + 1
    /\ UNCHANGED <<pc, seen, probing, claimants, abandons, crashes, faults>>

\* The caller dies, or a statement of canExecute or recordFailure throws.
Crash(c) ==
    /\ pc[c] # "idle"
    /\ crashes < MaxCrashes
    /\ crashes' = crashes + 1
    /\ Leave(c)
    /\ UNCHANGED <<circuit, seen, claimants, abandons, faults, resets>>

CallerStep(c) ==
    \/ ReadCircuit(c) \/ Claim(c) \/ ClaimFails(c) \/ CallEnds(c)
    \/ ReadAfterSuccess(c) \/ Close(c) \/ ClearCount(c)
    \/ CountFailure(c) \/ Trip(c)

Trouble(c) == Abandon(c) \/ RecordSuccessThrows(c) \/ Crash(c)

Next ==
    \/ \E c \in Caller : CallerStep(c) \/ Trouble(c)
    \/ CooldownElapses
    \/ ResetCircuit

Spec == Init /\ [][Next]_vars

\* Time passes, workers have deliveries to make and their statements return.
Fairness ==
    /\ \A c \in Caller : WF_vars(CallerStep(c))
    /\ WF_vars(CooldownElapses)

FairSpec == Spec /\ Fairness

-----------------------------------------------------------------------------
(* Properties                                                              *)

\* One opening of the circuit lets through at most one trial call, however
\* many workers have read that the cool-down is over (conditional UPDATE of
\* canExecute), and the HALF_OPEN state that would admit another is never
\* written: its branch in canExecute is dead code.
OneProbePerOpening ==
    /\ Cardinality(claimants) <= 1
    /\ circuit.state # "HALF_OPEN"

\* A closed circuit at its threshold is always about to open: the count and
\* the state are written by two statements, but nobody loses the trip as long
\* as no caller dies in between and no statement throws.
ThresholdTrips ==
    crashes = 0 /\ circuit.state = "CLOSED" /\ circuit.failures = Threshold
        => \E c \in Caller : pc[c] = "tripping"

\* A probing circuit with no probe under way heals only by chance; without
\* rejected URLs, crashes and resets it has one.
ProbeUnderWay ==
    abandons = 0 /\ crashes = 0 /\ circuit.state = "HALF_OPEN_PROBING" => probing # {}

\* An open circuit is eventually probed (or reset): late failures restart the
\* cool-down but cannot do so for ever.
OpenIsProbed == circuit.state = "OPEN" ~> circuit.state # "OPEN"

\* Other workers are fast-failed until the probe completes, and it completes.
ProbeResolves == circuit.state = "HALF_OPEN_PROBING" ~> circuit.state # "HALF_OPEN_PROBING"

\* The same as long as no URL is rejected and no caller dies.
UndisturbedProbeResolves ==
    circuit.state = "HALF_OPEN_PROBING" ~>
        (circuit.state # "HALF_OPEN_PROBING" \/ abandons + crashes > 0)

\* A probe is sent only after the cool-down of the opening it probes.
ProbeAfterCooldown ==
    [][circuit.state # "HALF_OPEN_PROBING" /\ circuit'.state = "HALF_OPEN_PROBING"
         => circuit.cooled]_vars

=============================================================================
