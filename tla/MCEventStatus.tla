--------------------------- MODULE MCEventStatus ---------------------------
(***************************************************************************)
(* Small instances of EventStatus for TLC.                                 *)
(***************************************************************************)
EXTENDS EventStatus, TLC

Symmetry == Permutations(Delivery) \union Permutations(Worker)
=============================================================================
