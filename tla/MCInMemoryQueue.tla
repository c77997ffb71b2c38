--------------------------- MODULE MCInMemoryQueue ---------------------------
(***************************************************************************)
(* A small instance of InMemoryQueue for TLC.                              *)
(***************************************************************************)
EXTENDS InMemoryQueue, TLC

CONSTANTS a, b, c

\* Two tasks of one priority and one that goes first and needs more.
TaskWeights == a :> 1 @@ b :> 1 @@ c :> 0
TaskNeeds == a :> [cpu |-> 1, mem |-> 1] @@ b :> [cpu |-> 1, mem |-> 2] @@
             c :> [cpu |-> 2, mem |-> 1]

\* 1.9 cores are one core for a lone caller, which excludes c, and none for
\* each of two workers, which is no limit; 2 MB are one for each, which
\* excludes b.
FreeResources == {[cpu |-> 19, mem |-> 2]}
=============================================================================
