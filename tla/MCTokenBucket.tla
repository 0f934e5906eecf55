--------------------------- MODULE MCTokenBucket ---------------------------
(***************************************************************************)
(* Small instances of TokenBucket for TLC.                                 *)
(***************************************************************************)
EXTENDS TokenBucket, TLC

\* Calls are interchangeable.
Symmetry == Permutations(Request)
=============================================================================
