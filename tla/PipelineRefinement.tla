-------------------------- MODULE PipelineRefinement --------------------------
(***************************************************************************)
(* DeliveryPipeline implements DeliveryContract: the abstract state is     *)
(* read off the deliveries table, the stream and the workers that have     *)
(* received a 2xx answer.                                                  *)
(***************************************************************************)
EXTENDS DeliveryPipeline

StageOf(status) ==
    CASE status = "NONE"        -> "none"
      [] status = "RETRYING"    -> "pending"
      [] status = "SUCCESS"     -> "delivered"
      [] status = "DEAD_LETTER" -> "dead"

\* Worker w stands between the 2xx answer for d and its UPDATE.
Recording(w, d) ==
    pc[w] = "ok" /\ \E m \in batch[w] : Current(w, m) /\ stream[m].d = d

Stage == [d \in Delivery |-> StageOf(row[d].status)]
Handed == [d \in Delivery |-> {k \in Attempts : Published(d, k)}]
Answered == {d \in Delivery : \E w \in Worker : Recording(w, d)}

Contract == INSTANCE DeliveryContract WITH
    stage <- Stage, handed <- Handed, answered <- Answered

\* The pipeline keeps the contract of DeliveryContract whatever crashes, throws,
\* is replayed or is overtaken: no success without an endpoint's answer, no
\* dead letter before the last attempt, no event accepted in part.
KeepsContract == Contract!Spec

=============================================================================
