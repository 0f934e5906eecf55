------------------------ MODULE CircuitBreakerProofs ------------------------
(***************************************************************************)
(* Machine-checked proofs about CircuitBreaker, for any number of callers, *)
(* any threshold and any number of crashes, faults and resets.             *)
(***************************************************************************)
EXTENDS CircuitBreaker, FiniteSetTheorems, TLAPS

-----------------------------------------------------------------------------
(* The inductive invariant                                                 *)

\* Whoever may still move a probing circuit on.
Prober(c) == c \in probing /\ pc[c] \in {"calling", "ok", "closing", "failed", "tripping"}

\* Strengthening that every step keeps: an open circuit has had no claimant
\* yet, claims are conditional on OPEN only, and the probe in flight is not on
\* a path that leaves without writing.
CInv ==
    /\ TypeOK
    /\ circuit.state # "HALF_OPEN"
    /\ \A c \in Caller : seen[c] = "OPEN"
    /\ circuit.state = "OPEN" => claimants = {}
    /\ \A b, c \in claimants : b = c
    /\ ThresholdTrips
    /\ abandons = 0 /\ crashes = 0 /\ circuit.state = "HALF_OPEN_PROBING"
         => \E c \in Caller : Prober(c)

-----------------------------------------------------------------------------
(* Proofs                                                                  *)

\* The shape of rows, used by every action.
LEMMA RowShape ==
  ASSUME TypeOK
  PROVE  /\ circuit = [state |-> circuit.state, failures |-> circuit.failures, cooled |-> circuit.cooled]
         /\ circuit.state \in States /\ circuit.failures \in Counts /\ circuit.cooled \in BOOLEAN
         /\ Found \in [state : States, failures : Counts, cooled : BOOLEAN]
         /\ Found.state # "ABSENT"
         /\ circuit.state # "ABSENT" => Found = circuit
         /\ circuit.state = "ABSENT" => Found = Closed
         /\ Closed.state = "CLOSED" /\ Closed.failures = 0
  BY ThresholdAssumption DEF TypeOK, Found, Closed, States, Counts

LEMMA InitCInv == Init => CInv
  <1> SUFFICES ASSUME Init PROVE CInv
    OBVIOUS
  <1> DEFINE Rows == [state : States, failures : Counts, cooled : BOOLEAN]
  <1>1. Closed \in Rows /\ NoRow \in Rows
    BY ThresholdAssumption DEF Closed, NoRow, States, Counts
  <1>2. circuit.state \in {"CLOSED", "ABSENT"} /\ circuit.failures = 0
    <2>1. Closed.state = "CLOSED" /\ Closed.failures = 0
      BY DEF Closed
    <2>2. NoRow.state = "ABSENT" /\ NoRow.failures = 0
      BY DEF NoRow
    <2> QED
      BY <2>1, <2>2 DEF Init
  <1>3. TypeOK
    BY <1>1, BudgetAssumption DEF Init, TypeOK
  <1> QED
    BY <1>2, <1>3, ThresholdAssumption DEF Init, CInv, ThresholdTrips

LEMMA StepType ==
  ASSUME CInv, [Next]_vars
  PROVE  TypeOK'
  <1> USE DEF budgets, Goto, Leave
  <1>0. TypeOK
    BY DEF CInv
  <1>1. ASSUME NEW c \in Caller, CallerStep(c)
        PROVE  TypeOK'
    <2>1. CASE ReadCircuit(c)
      BY <1>0, <2>1, RowShape DEF ReadCircuit, MayClaim, TypeOK
    <2>2. CASE Claim(c)
      BY <1>0, <2>2, RowShape DEF Claim, TypeOK, States
    <2>3. CASE ClaimFails(c) \/ CallEnds(c)
      BY <1>0, <2>3 DEF ClaimFails, CallEnds, TypeOK
    <2>4. CASE ReadAfterSuccess(c)
      BY <1>0, <2>4, RowShape DEF ReadAfterSuccess, TypeOK
    <2>5. CASE Close(c)
      BY <1>0, <2>5, ThresholdAssumption DEF Close, Closed, TypeOK, States, Counts
    <2>6. CASE ClearCount(c)
      BY <1>0, <2>6, ThresholdAssumption DEF ClearCount, TypeOK, Counts
    <2>7. CASE CountFailure(c)
      <3>1. Bumped(circuit.failures) \in Counts
        BY <1>0, RowShape, ThresholdAssumption DEF Bumped, Counts
      <3> QED
        BY <1>0, <2>7, <3>1 DEF CountFailure, TypeOK
    <2>8. CASE Trip(c)
      BY <1>0, <2>8 DEF Trip, TypeOK, States
    <2> QED
      BY <1>1, <2>1, <2>2, <2>3, <2>4, <2>5, <2>6, <2>7, <2>8 DEF CallerStep
  <1>2. ASSUME NEW c \in Caller, Trouble(c)
        PROVE  TypeOK'
    BY <1>0, <1>2, BudgetAssumption DEF Trouble, Abandon, RecordSuccessThrows, Crash, TypeOK
  <1>3. CASE CooldownElapses
    BY <1>0, <1>3 DEF CooldownElapses, TypeOK
  <1>4. CASE ResetCircuit
    BY <1>0, <1>4, ThresholdAssumption, BudgetAssumption
    DEF ResetCircuit, Closed, TypeOK, States, Counts
  <1>5. CASE UNCHANGED vars
    BY <1>0, <1>5 DEF vars, TypeOK
  <1> QED
    BY <1>1, <1>2, <1>3, <1>4, <1>5 DEF Next

\* Every step keeps the inductive invariant.
LEMMA StepCInv == CInv /\ [Next]_vars => CInv'
  <1> SUFFICES ASSUME CInv, [Next]_vars PROVE CInv'
    OBVIOUS
  <1> USE DEF budgets, Goto, Leave
  <1>1. TypeOK'
    BY StepType
  <1>2. TypeOK
    BY DEF CInv
  <1>3. Threshold # 0
    BY ThresholdAssumption
  <1> DEFINE Core == /\ circuit.state # "HALF_OPEN"
                     /\ \A c \in Caller : seen[c] = "OPEN"
                     /\ circuit.state = "OPEN" => claimants = {}
                     /\ \A b, c \in claimants : b = c
             Witness == abandons = 0 /\ crashes = 0 /\ circuit.state = "HALF_OPEN_PROBING"
                          => \E c \in Caller : Prober(c)
  <1>4. Core /\ ThresholdTrips /\ Witness
    BY DEF CInv
  <1>5. SUFFICES Core' /\ ThresholdTrips' /\ Witness'
    BY <1>1 DEF CInv
  <1>6. ASSUME NEW c \in Caller, ReadCircuit(c)
        PROVE  Core' /\ ThresholdTrips' /\ Witness'
    <2>1. Core'
      BY <1>2, <1>4, <1>6, RowShape DEF ReadCircuit, MayClaim, TypeOK
    <2>2. ThresholdTrips'
      BY <1>2, <1>3, <1>4, <1>6, RowShape DEF ReadCircuit, ThresholdTrips, TypeOK
    <2>3. Witness'
      BY <1>2, <1>4, <1>6, RowShape DEF ReadCircuit, Prober, TypeOK
    <2> QED
      BY <2>1, <2>2, <2>3
  <1>7. ASSUME NEW c \in Caller, Claim(c)
        PROVE  Core' /\ ThresholdTrips' /\ Witness'
    <2>1. circuit'.state = "HALF_OPEN_PROBING"
      BY <1>2, <1>7, RowShape DEF Claim
    <2>2. claimants = {}
      BY <1>4, <1>7 DEF Claim, ClaimMatches
    <2>3. Prober(c)'
      BY <1>2, <1>7 DEF Claim, Prober, TypeOK
    <2> QED
      BY <1>4, <1>7, <2>1, <2>2, <2>3 DEF Claim, ThresholdTrips
  <1>8. ASSUME NEW c \in Caller, ClaimFails(c) \/ CallEnds(c) \/ RecordSuccessThrows(c)
        PROVE  Core' /\ ThresholdTrips' /\ Witness'
    <2>1. Core'
      BY <1>4, <1>8 DEF ClaimFails, CallEnds, RecordSuccessThrows
    <2>2. ThresholdTrips'
      BY <1>2, <1>4, <1>8 DEF ClaimFails, CallEnds, RecordSuccessThrows, ThresholdTrips, TypeOK
    <2>3. \A b \in Caller : Prober(b) => Prober(b)'
      BY <1>2, <1>8 DEF ClaimFails, CallEnds, RecordSuccessThrows, Prober, TypeOK
    <2>4. Witness'
      BY <1>4, <1>8, <2>3 DEF ClaimFails, CallEnds, RecordSuccessThrows
    <2> QED
      BY <2>1, <2>2, <2>4
  <1>9. ASSUME NEW c \in Caller, ReadAfterSuccess(c)
        PROVE  Core' /\ ThresholdTrips' /\ Witness'
    <2>1. Core'
      BY <1>2, <1>4, <1>9, RowShape DEF ReadAfterSuccess
    <2>2. ThresholdTrips'
      BY <1>2, <1>3, <1>4, <1>9, RowShape DEF ReadAfterSuccess, ThresholdTrips, TypeOK
    <2>3. Witness'
      <3>1. CASE Found.state \in HalfOpen
        <4>1. \A b \in Caller : Prober(b) => Prober(b)'
          BY <1>2, <1>9, <3>1 DEF ReadAfterSuccess, Prober, TypeOK, HalfOpen
        <4> QED
          BY <1>2, <1>4, <1>9, <3>1, <4>1, RowShape DEF ReadAfterSuccess, HalfOpen, Closed
      <3>2. CASE Found.state \notin HalfOpen
        BY <1>9, <3>2 DEF ReadAfterSuccess, HalfOpen
      <3> QED
        BY <3>1, <3>2
    <2> QED
      BY <2>1, <2>2, <2>3
  <1>10. ASSUME NEW c \in Caller, Close(c)
         PROVE  Core' /\ ThresholdTrips' /\ Witness'
    BY <1>3, <1>4, <1>10 DEF Close, Closed, ThresholdTrips
  <1>11. ASSUME NEW c \in Caller, ClearCount(c)
         PROVE  Core' /\ ThresholdTrips' /\ Witness'
    <2>1. circuit'.state = circuit.state /\ circuit'.failures = 0
      BY <1>2, <1>11 DEF ClearCount, TypeOK
    <2>2. \A b \in Caller : Prober(b) => Prober(b)'
      BY <1>2, <1>11 DEF ClearCount, Prober, TypeOK
    <2> QED
      BY <1>3, <1>4, <1>11, <2>1, <2>2 DEF ClearCount, ThresholdTrips
  <1>12. ASSUME NEW c \in Caller, CountFailure(c)
         PROVE  Core' /\ ThresholdTrips' /\ Witness'
    <2> DEFINE r == [circuit EXCEPT !.failures = Bumped(@)]
    <2>1. circuit' = r /\ r.state = circuit.state
      BY <1>2, <1>12 DEF CountFailure, TypeOK
    <2>2. Core'
      BY <1>4, <1>12, <2>1 DEF CountFailure
    <2>3. CASE MustTrip(r)
      <3>1. pc'[c] = "tripping" /\ probing' = probing
        BY <1>2, <1>12, <2>3 DEF CountFailure, TypeOK
      <3>2. \A b \in Caller : Prober(b) => Prober(b)'
        BY <1>2, <1>12, <2>3, <3>1 DEF CountFailure, Prober, TypeOK
      <3> QED
        BY <1>4, <1>12, <2>1, <2>2, <3>1, <3>2 DEF CountFailure, ThresholdTrips
    <2>4. CASE ~MustTrip(r)
      <3>1. circuit'.state \notin HalfOpen /\ circuit'.failures # Threshold
        BY <2>1, <2>4, ThresholdAssumption DEF MustTrip
      <3> QED
        BY <2>2, <3>1 DEF ThresholdTrips, HalfOpen
    <2> QED
      BY <2>3, <2>4
  <1>13. ASSUME NEW c \in Caller, Trip(c)
         PROVE  Core' /\ ThresholdTrips' /\ Witness'
    <2>1. circuit'.state = "OPEN"
      BY <1>2, <1>13 DEF Trip, TypeOK
    <2> QED
      BY <1>4, <1>13, <2>1 DEF Trip, ThresholdTrips
  <1>14. ASSUME NEW c \in Caller, Abandon(c) \/ Crash(c)
         PROVE  Core' /\ ThresholdTrips' /\ Witness'
    <2>1. Core'
      BY <1>4, <1>14 DEF Abandon, Crash
    <2>2. crashes' # 0 \/ abandons' # 0
      BY <1>2, <1>14, BudgetAssumption DEF Abandon, Crash, TypeOK
    <2>3. ThresholdTrips'
      BY <1>2, <1>4, <1>14, BudgetAssumption DEF Abandon, Crash, ThresholdTrips, TypeOK
    <2> QED
      BY <2>1, <2>2, <2>3
  <1>15. CASE CooldownElapses
    <2>1. circuit'.state = "OPEN" /\ circuit.state = "OPEN"
      BY <1>2, <1>15 DEF CooldownElapses, TypeOK
    <2> QED
      BY <1>4, <1>15, <2>1 DEF CooldownElapses, ThresholdTrips
  <1>16. CASE ResetCircuit
    BY <1>3, <1>4, <1>16 DEF ResetCircuit, Closed, ThresholdTrips
  <1>17. CASE UNCHANGED vars
    BY <1>4, <1>17 DEF vars, ThresholdTrips, Prober
  <1> QED
    BY <1>6, <1>7, <1>8, <1>9, <1>10, <1>11, <1>12, <1>13, <1>14, <1>15, <1>16, <1>17
    DEF Next, CallerStep, Trouble

-----------------------------------------------------------------------------
(* The theorems                                                            *)

THEOREM CircuitInvariance == Spec => []CInv
  BY InitCInv, StepCInv, PTL DEF Spec

\* Type correctness of the row and of the callers' local state.
THEOREM CircuitTypeCorrect == Spec => []TypeOK
  <1>1. CInv => TypeOK
    BY DEF CInv
  <1> QED
    BY <1>1, CircuitInvariance, PTL

\* Any number of workers that read an elapsed cool-down share one probe per
\* opening, and HALF_OPEN is never stored (canExecute).
THEOREM AtMostOneClaim == Spec => []OneProbePerOpening
  <1>1. ASSUME CInv
        PROVE  OneProbePerOpening
    <2>1. CASE claimants = {}
      BY <1>1, <2>1, FS_EmptySet DEF CInv, OneProbePerOpening
    <2>2. CASE claimants # {}
      <3>1. PICK c : c \in claimants
        BY <2>2
      <3>2. claimants = {c}
        BY <1>1, <3>1 DEF CInv
      <3>3. Cardinality({c}) = 1
        BY FS_Singleton
      <3> QED
        BY <1>1, <3>2, <3>3 DEF CInv, OneProbePerOpening
    <2> QED
      BY <2>1, <2>2
  <1> QED
    BY <1>1, CircuitInvariance, PTL

\* The trip of a circuit at its threshold is never lost to an interleaving of
\* recordFailure, recordSuccess and resets; only a crash can lose it.
THEOREM TripNotLost == Spec => []ThresholdTrips
  <1>1. CInv => ThresholdTrips
    BY DEF CInv
  <1> QED
    BY <1>1, CircuitInvariance, PTL

\* Without abandoned calls and crashes a probing circuit has its probe, whatever
\* late callers of the closed era write.
THEOREM ProbeIsUnderWay == Spec => []ProbeUnderWay
  <1>1. CInv => ProbeUnderWay
    BY DEF CInv, ProbeUnderWay, Prober
  <1> QED
    BY <1>1, CircuitInvariance, PTL

=============================================================================
