------------------------------ MODULE MCBackend ------------------------------
(***************************************************************************)
(* Small instances of Backend for TLC.                                     *)
(***************************************************************************)
EXTENDS Backend, TLC
=============================================================================
