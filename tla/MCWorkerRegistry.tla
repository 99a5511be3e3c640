-------------------------- MODULE MCWorkerRegistry --------------------------
(* Model values and bounds for WorkerRegistry are in the .cfg files. *)
EXTENDS WorkerRegistry
=============================================================================
