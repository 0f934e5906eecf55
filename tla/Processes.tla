------------------------------ MODULE Processes ------------------------------
(***************************************************************************)
(* The backend processes of a deployment, which Migrator, Ingestion and    *)
(* Backend speak about.                                                    *)
(***************************************************************************)
CONSTANTS
    Server,     \* backend processes
    None
=============================================================================
