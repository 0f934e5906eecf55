-------------------------- MODULE TokenBucketProofs --------------------------
(***************************************************************************)
(* Machine-checked proofs about TokenBucket, for any capacity, cost,       *)
(* number of processes and calls, and any error of the stamps.             *)
(***************************************************************************)
EXTENDS TokenBucket, TLAPS

-----------------------------------------------------------------------------
(* The inductive invariant                                                 *)

\* What a bucket is short of, corrected by how far its stamp lies ahead.
Debt(b) == Capacity - tokens[b] + LastRefill(b)

\* A bucket that is not there has nothing outstanding, and one that is there
\* owes what it granted, up to the errors of the stamps.
BucketOK(b) ==
    /\ b \notin there => level[b] = 0 /\ idle[b] = 0
    /\ b \in there =>
          /\ level[b] = 0 \/ level[b] <= Debt(b) + MaxLate
          /\ level[b] >= Debt(b) - MaxAhead
          /\ Debt(b) + idle[b] <= Capacity + MaxAhead

\* Strengthening of QuotaKept and RefusedOnlyWhenSpent.
BInv == TypeOK /\ \A b \in Bucket : BucketOK(b)

-----------------------------------------------------------------------------
(* Values                                                                  *)

LEMMA Constants ==
  /\ Capacity \in Nat /\ Cost \in Nat /\ 1 <= Cost /\ Cost <= Capacity
  /\ MaxAhead \in Nat /\ MaxLate \in Nat /\ Ttl \in Nat
  /\ Ttl >= Capacity + 2 * (MaxAhead + MaxLate)
  /\ Aged \in Nat /\ Aged > Ttl
  /\ 0 \in Stamps
  /\ \A s \in Stamps : s \in Int /\ -MaxLate <= s /\ s <= MaxAhead
  BY BucketAssumption DEF Aged, Stamps

LEMMA BucketTypes ==
  ASSUME TypeOK, NEW b \in Bucket
  PROVE  /\ tokens[b] \in Int /\ tokens[b] <= Capacity
         /\ stamp[b] \in Int /\ -MaxLate <= stamp[b] /\ stamp[b] <= MaxAhead
         /\ idle[b] \in Nat /\ idle[b] <= Aged
         /\ level[b] \in Nat
  <1>1. stamp[b] \in Stamps /\ idle[b] \in 0 .. Aged
    BY DEF TypeOK
  <1> QED
    BY <1>1, Constants DEF TypeOK

LEMMA RefilledValue ==
  ASSUME TypeOK, NEW b \in Bucket, NEW s \in Stamps
  PROVE  /\ Refilled(b, s) \in Int
         /\ Refilled(b, s) <= Capacity
         /\ \/ Refilled(b, s) = Capacity
            \/ /\ b \in there
               /\ Refilled(b, s) = tokens[b] + (s - LastRefill(b))
         /\ b \in there => Refilled(b, s) <= tokens[b] + (s - LastRefill(b))
  BY Constants, BucketTypes DEF Refilled, AtMost, LastRefill

-----------------------------------------------------------------------------
(* Type correctness                                                        *)

LEMMA UseType ==
  ASSUME TypeOK, NEW b \in Bucket, NEW s \in Stamps, Use(b, s)
  PROVE  /\ there' \subseteq Bucket
         /\ tokens' \in [Bucket -> Int]
         /\ \A c \in Bucket : tokens'[c] <= Capacity
         /\ stamp' \in [Bucket -> Stamps]
         /\ idle' \in [Bucket -> 0 .. Aged]
         /\ level' \in [Bucket -> Nat]
  <1> DEFINE paid == IF Granted(b, s) THEN Cost ELSE 0
  <1>1. paid \in Nat
    BY Constants
  <1>2. Refilled(b, s) - paid \in Int /\ Refilled(b, s) - paid <= Capacity
    BY <1>1, RefilledValue, Constants
  <1>3. tokens' = [tokens EXCEPT ![b] = Refilled(b, s) - paid]
    BY DEF Use
  <1>4. tokens' \in [Bucket -> Int] /\ \A c \in Bucket : tokens'[c] <= Capacity
    BY <1>2, <1>3 DEF TypeOK
  <1>5. level' = [level EXCEPT ![b] = @ + paid]
    BY DEF Use
  <1>6. level[b] + paid \in Nat
    BY <1>1, BucketTypes
  <1>7. level' \in [Bucket -> Nat]
    BY <1>5, <1>6 DEF TypeOK
  <1>8. 0 \in 0 .. Aged
    BY Constants
  <1> QED
    BY <1>4, <1>7, <1>8 DEF Use, TypeOK

LEMMA ForgetType ==
  ASSUME TypeOK, NEW S \in SUBSET Bucket, Forget(S)
  PROVE  /\ there' \subseteq Bucket
         /\ tokens' \in [Bucket -> Int]
         /\ \A c \in Bucket : tokens'[c] <= Capacity
         /\ stamp' \in [Bucket -> Stamps]
  BY Constants, BucketTypes DEF Forget, TypeOK

LEMMA TypeStep ==
  ASSUME TypeOK, [Next]_vars
  PROVE  TypeOK'
  <1> USE DEF buckets, calls
  <1>0. Process \subseteq Bucket /\ Shared \in Bucket
    BY DEF Bucket
  <1>1. ASSUME NEW r \in Request, NEW p \in Process, NEW s \in Stamps, Call(r, p, s)
        PROVE  TypeOK'
    BY <1>1 DEF Call, TypeOK
  <1>2. ASSUME NEW r \in Request, Evaluate(r)
        PROVE  TypeOK'
    <2>1. now[r] \in Stamps
      BY DEF TypeOK
    <2> QED
      BY <1>0, <1>2, <2>1, UseType, Constants DEF Evaluate, Ends, TypeOK
  <1>3. ASSUME NEW r \in Request, EvaluateAgain(r)
        PROVE  TypeOK'
    <2>1. now[r] \in Stamps
      BY DEF TypeOK
    <2>2. faults' \in 0 .. MaxFaults
      BY <1>3, BucketNames DEF EvaluateAgain, Fault, TypeOK
    <2> QED
      BY <1>0, <1>3, <2>1, <2>2, UseType DEF EvaluateAgain, TypeOK
  <1>4. ASSUME NEW r \in Request, EvaluateFails(r)
        PROVE  TypeOK'
    <2>1. faults' \in 0 .. MaxFaults
      BY <1>4, BucketNames DEF EvaluateFails, Fault, TypeOK
    <2> QED
      BY <1>4, <2>1, Constants DEF EvaluateFails, Ends, TypeOK
  <1>5. ASSUME NEW r \in Request, UseLocal(r)
        PROVE  TypeOK'
    <2>1. now[r] \in Stamps /\ at[r] \in Bucket
      BY <1>0 DEF TypeOK
    <2> QED
      BY <1>5, <2>1, UseType, Constants DEF UseLocal, Ends, TypeOK
  <1>6. CASE Tick
    <2> DEFINE E == {b \in there \intersect {Shared} : idle[b] + 1 = Ttl}
    <2>1. E \in SUBSET Bucket /\ Forget(E)
      BY <1>6 DEF Tick, TypeOK
    <2>2. \A b \in Bucket : /\ AtMost(Aged, idle[b] + 1) \in 0 .. Aged /\ 0 \in 0 .. Aged
                            /\ (IF level[b] > 0 THEN level[b] - 1 ELSE 0) \in Nat
      BY Constants, BucketTypes DEF AtMost
    <2>3. idle' \in [Bucket -> 0 .. Aged] /\ level' \in [Bucket -> Nat]
      BY <1>6, <2>2 DEF Tick
    <2>4. \A r \in Request : pc[r] # "idle" => now[r] - 1 \in Stamps
      BY <1>6, Constants DEF Tick, TypeOK, Stamps
    <2>5. now' \in [Request -> Stamps]
      BY <1>6, <2>4 DEF Tick, TypeOK
    <2> HIDE DEF E
    <2> QED
      BY <1>6, <2>1, <2>3, <2>5, ForgetType DEF Tick, TypeOK
  <1>7. ASSUME NEW p \in Process, NEW s \in Stamps, Cleanup(p, s)
        PROVE  TypeOK'
    <2>1. {p} \in SUBSET Bucket /\ 0 \in 0 .. Aged
      BY <1>0, Constants
    <2> QED
      BY <1>7, <2>1, ForgetType DEF Cleanup, TypeOK
  <1>8. CASE UNCHANGED vars
    BY <1>8 DEF vars, TypeOK
  <1> QED
    BY <1>1, <1>2, <1>3, <1>4, <1>5, <1>6, <1>7, <1>8 DEF Next

-----------------------------------------------------------------------------
(* What a bucket owes                                                      *)

\* A bucket nothing touches stays as it is.
LEMMA BucketKept ==
  ASSUME NEW b \in Bucket, BucketOK(b), b \in there' <=> b \in there,
         tokens'[b] = tokens[b], stamp'[b] = stamp[b], idle'[b] = idle[b], level'[b] = level[b]
  PROVE  BucketOK(b)'
  BY DEF BucketOK, Debt, LastRefill

\* One evaluation adds to the debt of its bucket what it grants.
LEMMA UseOK ==
  ASSUME BInv, NEW b \in Bucket, NEW s \in Stamps, Use(b, s)
  PROVE  \A c \in Bucket : BucketOK(c)'
  <1> DEFINE paid == IF Granted(b, s) THEN Cost ELSE 0
             R == Refilled(b, s)
  <1>1. TypeOK /\ BucketOK(b)
    BY DEF BInv
  <1>2. ASSUME NEW c \in Bucket, c # b
        PROVE  BucketOK(c)'
    BY <1>1, <1>2, BucketKept DEF Use, TypeOK, BInv
  <1>3. /\ b \in there' /\ stamp'[b] = s /\ idle'[b] = 0
        /\ tokens'[b] = R - paid /\ level'[b] = level[b] + paid
    BY <1>1 DEF Use, TypeOK
  <1>4. paid \in Nat /\ R \in Int /\ R <= Capacity /\ (paid > 0 => R >= paid)
    BY <1>1, RefilledValue, Constants DEF Granted
  <1>5. Debt(b)' = Capacity - R + s + paid
    BY <1>1, <1>3, <1>4, Constants DEF Debt, LastRefill
  <1>6. /\ level[b] = 0 \/ level[b] <= Capacity - R + s + MaxLate
        /\ level[b] >= Capacity - R + s - MaxAhead
        /\ Capacity - R + s <= Capacity + MaxAhead
        /\ Capacity - R + s + MaxLate >= 0
    <2>1. CASE R = Capacity /\ b \notin there
      BY <1>1, <2>1, BucketTypes, Constants DEF BucketOK
    <2>2. CASE R = Capacity /\ b \in there
      <3>1. R <= tokens[b] + (s - LastRefill(b))
        BY <1>1, <2>2, RefilledValue
      <3> QED
        BY <1>1, <2>2, <3>1, BucketTypes, Constants DEF BucketOK, Debt, LastRefill
    <2>3. CASE R # Capacity
      <3>1. b \in there /\ R = tokens[b] + (s - LastRefill(b))
        BY <1>1, <2>3, RefilledValue
      <3> QED
        BY <1>1, <1>4, <3>1, BucketTypes, Constants DEF BucketOK, Debt, LastRefill
    <2> QED
      BY <2>1, <2>2, <2>3
  <1>7. paid > 0 => Capacity - R + s + paid <= Capacity + MaxAhead
    BY <1>4, Constants
  <1>8. BucketOK(b)'
    <2>1. level[b] \in Nat /\ s \in Int
      BY <1>1, BucketTypes, Constants
    <2>2. /\ level'[b] = 0 \/ level'[b] <= Debt(b)' + MaxLate
          /\ level'[b] >= Debt(b)' - MaxAhead
          /\ Debt(b)' + idle'[b] <= Capacity + MaxAhead
      BY <1>3, <1>4, <1>5, <1>6, <1>7, <2>1, Constants
    <2> QED
      BY <1>3, <2>2 DEF BucketOK
  <1> QED
    BY <1>2, <1>8

\* A forgotten bucket owes nothing: it was full for longer than any stamp errs.
LEMMA ForgottenOwesNothing ==
  ASSUME BInv, NEW b \in there, idle[b] >= Capacity + MaxAhead + MaxLate
  PROVE  level[b] = 0
  <1>1. TypeOK /\ b \in Bucket /\ BucketOK(b)
    BY DEF BInv, TypeOK
  <1> QED
    BY <1>1, BucketTypes, Constants DEF BucketOK, Debt, LastRefill

LEMMA TickOK ==
  ASSUME BInv, Tick
  PROVE  \A b \in Bucket : BucketOK(b)'
  <1> SUFFICES ASSUME NEW b \in Bucket
               PROVE  BucketOK(b)'
    OBVIOUS
  <1> DEFINE E == {c \in there \intersect {Shared} : idle[c] + 1 = Ttl}
  <1>1. TypeOK /\ BucketOK(b)
    BY DEF BInv
  <1>2. /\ Forget(E)
        /\ idle'[b] = IF b \in there \ E THEN AtMost(Aged, idle[b] + 1) ELSE 0
        /\ level'[b] = IF level[b] > 0 THEN level[b] - 1 ELSE 0
    BY DEF Tick
  <1>3. CASE b \in E
    <2>1. b \in there /\ idle[b] + 1 = Ttl
      BY <1>3
    <2>2. CASE Capacity + 2 * (MaxAhead + MaxLate) > Capacity + MaxAhead + MaxLate
      <3>1. level[b] = 0
        BY <1>1, <2>1, <2>2, ForgottenOwesNothing, BucketTypes, Constants
      <3> QED
        BY <1>2, <1>3, <3>1 DEF BucketOK, Forget
    <2>3. CASE ~(Capacity + 2 * (MaxAhead + MaxLate) > Capacity + MaxAhead + MaxLate)
      <3>1. level[b] = 0 \/ level[b] = 1
        BY <1>1, <2>1, <2>3, BucketTypes, Constants DEF BucketOK, Debt, LastRefill
      <3>2. level'[b] = 0
        BY <1>2, <3>1
      <3> QED
        BY <1>2, <1>3, <3>2 DEF BucketOK, Forget
    <2> QED
      BY <2>2, <2>3
  <1>4. CASE b \notin there
    BY <1>1, <1>2, <1>4 DEF BucketOK, Forget
  <1>5. CASE b \in there \ E
    <2>1. b \in there' /\ tokens'[b] = tokens[b] /\ stamp'[b] = stamp[b]
      BY <1>2, <1>5 DEF Forget
    <2>2. CASE idle[b] < Aged
      <3>1. idle'[b] = idle[b] + 1
        BY <1>1, <1>2, <1>5, <2>2, BucketTypes, Constants DEF AtMost
      <3>2. Debt(b)' = Debt(b) - 1
        BY <1>1, <2>1, <3>1, BucketTypes, Constants DEF Debt, LastRefill
      <3>3. Debt(b) \in Int
        BY <1>1, BucketTypes, Constants DEF Debt, LastRefill
      <3>4. /\ level[b] = 0 \/ level[b] <= Debt(b) + MaxLate
            /\ level[b] >= Debt(b) - MaxAhead
            /\ Debt(b) + idle[b] <= Capacity + MaxAhead
        BY <1>1, <1>5 DEF BucketOK
      <3>5. /\ level'[b] = 0 \/ level'[b] <= Debt(b)' + MaxLate
            /\ level'[b] >= Debt(b)' - MaxAhead
            /\ Debt(b)' + idle'[b] <= Capacity + MaxAhead
        BY <1>1, <1>2, <3>1, <3>2, <3>3, <3>4, BucketTypes, Constants
      <3> QED
        BY <2>1, <3>5 DEF BucketOK
    <2>3. CASE idle[b] = Aged
      <3>1. idle'[b] = idle[b]
        BY <1>1, <1>2, <1>5, <2>3, BucketTypes, Constants DEF AtMost
      <3>2. level[b] = 0 /\ level'[b] = 0
        BY <1>2, <1>5, <2>3, ForgottenOwesNothing, Constants
      <3> QED
        BY <1>1, <1>5, <2>1, <3>1, <3>2 DEF BucketOK, Debt, LastRefill
    <2> QED
      BY <1>1, <2>2, <2>3, BucketTypes, Constants
  <1> QED
    BY <1>3, <1>4, <1>5

LEMMA CleanupOK ==
  ASSUME BInv, NEW p \in Process, NEW s \in Stamps, Cleanup(p, s)
  PROVE  \A b \in Bucket : BucketOK(b)'
  <1>1. TypeOK /\ p \in Bucket /\ p \in there
    BY DEF BInv, Bucket, Cleanup
  <1>2. idle[p] >= Capacity + MaxAhead + MaxLate
    BY <1>1, BucketTypes, Constants DEF Cleanup, LastRefill
  <1>3. level[p] = 0
    BY <1>1, <1>2, ForgottenOwesNothing
  <1>4. BucketOK(p)'
    BY <1>1, <1>3 DEF BucketOK, Cleanup, Forget, TypeOK
  <1>5. ASSUME NEW b \in Bucket, b # p
        PROVE  BucketOK(b)'
    BY <1>1, <1>5, BucketKept DEF Cleanup, Forget, TypeOK, BInv
  <1> QED
    BY <1>4, <1>5

LEMMA BucketStep ==
  ASSUME BInv, [Next]_vars
  PROVE  \A b \in Bucket : BucketOK(b)'
  <1> USE DEF buckets, calls
  <1>1. TypeOK /\ Process \subseteq Bucket /\ Shared \in Bucket
    BY DEF BInv, Bucket
  <1>2. ASSUME UNCHANGED buckets
        PROVE  \A b \in Bucket : BucketOK(b)'
    BY <1>2, BucketKept DEF BInv
  <1>3. ASSUME NEW r \in Request, NEW p \in Process, NEW s \in Stamps, Call(r, p, s)
        PROVE  \A b \in Bucket : BucketOK(b)'
    BY <1>2, <1>3 DEF Call
  <1>4. ASSUME NEW r \in Request, Evaluate(r) \/ EvaluateAgain(r)
        PROVE  \A b \in Bucket : BucketOK(b)'
    <2>1. now[r] \in Stamps
      BY <1>1 DEF TypeOK
    <2> QED
      BY <1>1, <1>4, <2>1, UseOK DEF Evaluate, EvaluateAgain
  <1>5. ASSUME NEW r \in Request, EvaluateFails(r)
        PROVE  \A b \in Bucket : BucketOK(b)'
    BY <1>2, <1>5 DEF EvaluateFails
  <1>6. ASSUME NEW r \in Request, UseLocal(r)
        PROVE  \A b \in Bucket : BucketOK(b)'
    <2>1. now[r] \in Stamps /\ at[r] \in Bucket
      BY <1>1 DEF TypeOK
    <2> QED
      BY <1>6, <2>1, UseOK DEF UseLocal
  <1>7. CASE UNCHANGED vars
    BY <1>2, <1>7 DEF vars
  <1> QED
    BY <1>3, <1>4, <1>5, <1>6, <1>7, TickOK, CleanupOK DEF Next

-----------------------------------------------------------------------------
(* The theorems                                                            *)

LEMMA InitBuckets == Init => BInv
  <1> SUFFICES ASSUME Init PROVE BInv
    OBVIOUS
  <1>1. TypeOK
    BY Constants, BucketNames DEF Init, TypeOK
  <1>2. \A b \in Bucket : BucketOK(b)
    BY DEF Init, BucketOK
  <1> QED
    BY <1>1, <1>2 DEF BInv

\* Every reachable state satisfies the inductive invariant.
THEOREM BucketInvariance == Spec => []BInv
  <1>1. BInv /\ [Next]_vars => BInv'
    BY TypeStep, BucketStep DEF BInv
  <1> QED
    BY <1>1, InitBuckets, PTL DEF Spec

\* Buckets and calls keep their types, however clocks and replies err.
THEOREM BucketTypeCorrect == Spec => []TypeOK
  <1>1. BInv => TypeOK
    BY DEF BInv
  <1> QED
    BY <1>1, BucketInvariance, PTL

\* No bucket grants more than its capacity and its refill, plus the errors of
\* the stamps (the Lua scripts, the fallback of inboundRateLimiter).
THEOREM QuotaIsKept == Spec => []QuotaKept
  <1>1. BInv => QuotaKept
    <2> SUFFICES ASSUME BInv, NEW b \in Bucket
                 PROVE  level[b] <= Capacity + MaxAhead + MaxLate
      BY DEF QuotaKept
    <2>1. TypeOK /\ BucketOK(b)
      BY DEF BInv
    <2> QED
      BY <2>1, BucketTypes, Constants DEF BucketOK, Debt, LastRefill
  <1> QED
    BY <1>1, BucketInvariance, PTL

\* A call is refused for what its bucket has granted and for its lag behind the
\* most advanced clock, and for nothing else: no stamp of another caller, no
\* expiry, clean-up or repeated evaluation takes more tokens away.
THEOREM RefusalIsEarned == Spec => []RefusedOnlyWhenSpent
  <1>1. BInv => RefusedOnlyWhenSpent
    <2> SUFFICES ASSUME BInv, NEW b \in Bucket, NEW s \in Stamps, ~Granted(b, s)
                 PROVE  level[b] > Capacity - Cost - (MaxAhead - s)
      BY DEF RefusedOnlyWhenSpent
    <2>1. TypeOK /\ BucketOK(b)
      BY DEF BInv
    <2>2. Refilled(b, s) < Cost /\ Refilled(b, s) \in Int
      BY <2>1, RefilledValue, Constants DEF Granted
    <2>3. b \in there /\ Refilled(b, s) = tokens[b] + (s - LastRefill(b))
      BY <2>1, <2>2, RefilledValue, Constants
    <2>4. level[b] >= Debt(b) - MaxAhead
      BY <2>1, <2>3 DEF BucketOK
    <2> QED
      BY <2>1, <2>2, <2>3, <2>4, BucketTypes, Constants DEF Debt, LastRefill
  <1> QED
    BY <1>1, BucketInvariance, PTL

=============================================================================
