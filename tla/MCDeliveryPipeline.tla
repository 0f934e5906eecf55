------------------------ MODULE MCDeliveryPipeline ------------------------
(***************************************************************************)
(* Small instances of DeliveryPipeline for TLC.                            *)
(***************************************************************************)
EXTENDS PipelineRefinement, TLC

\* Deliveries, workers and publishers are interchangeable (safety runs only).
Symmetry == Permutations(Delivery) \union Permutations(Worker)
                \union Permutations(Publisher)
=============================================================================
