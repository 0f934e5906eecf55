----------------------------- MODULE MCShardLease -----------------------------
(***************************************************************************)
(* Small instances of ShardLease for TLC.                                  *)
(***************************************************************************)
EXTENDS ShardLease

\* Workers on one host, and workers that are process 1 of their containers.
HostNames == [w \in Worker |-> w]
ContainerNames == [w \in Worker |-> Worker]
=============================================================================
