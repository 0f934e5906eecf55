--------------------------- MODULE DeliveryContract ---------------------------
(***************************************************************************)
(* What EventRelay promises about deliveries, without tables, streams and  *)
(* processes: deliveries of an event are accepted together; attempts are   *)
(* handed to workers one after the other; a delivery counts as delivered   *)
(* only on an endpoint's 2xx answer to an attempt that was handed out, and *)
(* as dead only when all attempts were.  Answers may be forgotten and      *)
(* closed deliveries reopened, which is what at-least-once leaves open.    *)
(***************************************************************************)
EXTENDS Integers

CONSTANTS Delivery, MaxRetries

VARIABLES
    stage,      \* what the status column shows of a delivery
    handed,     \* attempts that have been handed to the workers
    answered    \* deliveries with a 2xx answer that is still to be recorded

vars == <<stage, handed, answered>>

Init ==
    /\ stage = [d \in Delivery |-> "none"]
    /\ handed = [d \in Delivery |-> {}]
    /\ answered = {}

\* An event is accepted with all its deliveries or not at all.
Accept(S) ==
    /\ \A d \in S : stage[d] = "none"
    /\ stage' = [d \in Delivery |-> IF d \in S THEN "pending" ELSE stage[d]]
    /\ UNCHANGED <<handed, answered>>

HandOut(d, k) ==
    /\ stage[d] # "none"
    /\ k = 1 \/ k - 1 \in handed[d]
    /\ handed' = [handed EXCEPT ![d] = @ \union {k}]
    /\ UNCHANGED <<stage, answered>>

Answer(d) ==
    /\ handed[d] # {}
    /\ answered' = answered \union {d}
    /\ UNCHANGED <<stage, handed>>

\* Two workers may hold an answer for one delivery.
Deliver(d) ==
    /\ d \in answered
    /\ stage' = [stage EXCEPT ![d] = "delivered"]
    /\ answered' \in {answered, answered \ {d}}
    /\ UNCHANGED handed

Forget(d) ==
    /\ answered' = answered \ {d}
    /\ UNCHANGED <<stage, handed>>

GiveUp(d) ==
    /\ MaxRetries \in handed[d]
    /\ stage' = [stage EXCEPT ![d] = "dead"]
    /\ UNCHANGED <<handed, answered>>

\* A replay, or a failure recorded by a late worker.
Reopen(d) ==
    /\ stage[d] # "none"
    /\ stage' = [stage EXCEPT ![d] = "pending"]
    /\ UNCHANGED <<handed, answered>>

Next ==
    \/ \E S \in SUBSET Delivery : Accept(S)
    \/ \E d \in Delivery, k \in 1 .. MaxRetries : HandOut(d, k)
    \/ \E d \in Delivery :
          Answer(d) \/ Deliver(d) \/ Forget(d) \/ GiveUp(d) \/ Reopen(d)

Spec == Init /\ [][Next]_vars

=============================================================================
