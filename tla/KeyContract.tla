----------------------------- MODULE KeyContract -----------------------------
(***************************************************************************)
(* What EventRelay promises of one idempotency key, without transactions,  *)
(* connections and processes: whoever sends the key, the event is created  *)
(* at most once, in one step with its deliveries and their outbox rows,    *)
(* and never changed by the ingestion afterwards; a request is answered    *)
(* 201 if and only if it created the event, and names it in any case.  The *)
(* status the event was created with is meant: the one syncEventStatus     *)
(* derives from the deliveries later is the subject of EventStatus.        *)
(***************************************************************************)
EXTENDS Integers

CONSTANTS Client, Endpoint, None

VARIABLES
    event,      \* the event, or None
    deliveries, \* pairs <<event, endpoint>>
    outbox,     \* deliveries that are still to be relayed
    answers,    \* 2xx answers that were given
    makers      \* clients whose request made the event and is not answered yet

vars == <<event, deliveries, outbox, answers, makers>>

Init ==
    /\ event = None
    /\ deliveries = {} /\ outbox = {} /\ answers = {} /\ makers = {}

\* An event for endpoints F; its request may go unanswered.
Create(F) ==
    /\ event = None
    /\ event' \in [id : Nat, status : {IF F = {} THEN "NO_TARGETS" ELSE "PROCESSING"}]
    /\ deliveries' = {event'.id} \X F
    /\ outbox' = deliveries'
    /\ makers' \in {{}} \union {{c} : c \in Client}
    /\ UNCHANGED answers

Relay ==
    /\ outbox' \subseteq outbox
    /\ UNCHANGED <<event, deliveries, answers, makers>>

Answer(c) ==
    /\ event # None
    /\ answers' = answers \union
          {[client |-> c, code |-> IF c \in makers THEN 201 ELSE 200, id |-> event.id]}
    /\ makers' = makers \ {c}
    /\ UNCHANGED <<event, deliveries, outbox>>

\* The connection of the request is lost before it is answered.
Forget ==
    /\ makers' \subseteq makers
    /\ UNCHANGED <<event, deliveries, outbox, answers>>

Next ==
    \/ \E F \in SUBSET Endpoint : Create(F)
    \/ \E c \in Client : Answer(c)
    \/ Relay
    \/ Forget

Spec == Init /\ [][Next]_vars

=============================================================================
