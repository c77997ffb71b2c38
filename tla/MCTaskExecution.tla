-------------------------- MODULE MCTaskExecution --------------------------
(***************************************************************************)
(* Small instances of TaskExecution for TLC.                               *)
(***************************************************************************)
EXTENDS TaskExecution, TLC

CONSTANTS w1, w2, p1, p2, t1, t2

\* Two processes with one worker each.
OneWorkerEach == w1 :> p1 @@ w2 :> p2

OneType == [t \in Tasks |-> "command"]
Retry1 == [t \in Tasks |-> 1]
=============================================================================
