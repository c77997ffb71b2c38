---------------------------- MODULE MCTaskWaiter ----------------------------
(***************************************************************************)
(* A small instance of TaskWaiter for TLC: two processes with one worker   *)
(* each, and a caller that asks for one task twice.                        *)
(***************************************************************************)
EXTENDS TaskWaiter, TLC

CONSTANTS w1, w2, p1, p2, t1

OneWorkerEach == w1 :> p1 @@ w2 :> p2
OneType == [t \in Tasks |-> "command"]
Retry1 == [t \in Tasks |-> 1]
SameTwice == <<t1, t1>>
=============================================================================
