---------------------------- MODULE MCWorkerJob ------------------------------
(* Model-checking instances of WorkerJob. *)
EXTENDS WorkerJob
==============================================================================
