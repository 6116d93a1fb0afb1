-------------------------- MODULE MCOutboxWorkers --------------------------
(* Small instances of the worker pool for TLC. *)
EXTENDS OutboxWorkers, TLC

WorkerSymmetry == Permutations(Workers)
============================================================================
