---------------------------- MODULE MCWorkerPool ----------------------------
(***************************************************************************)
(* Small instances of WorkerPool for TLC.                                  *)
(***************************************************************************)
EXTENDS WorkerPool, TLC

WorkerSymmetry == Permutations(Worker)

PoolSymmetry == WorkerSymmetry \cup Permutations(ScaleCallers)
=============================================================================
