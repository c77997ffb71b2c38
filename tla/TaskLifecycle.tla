---------------------------- MODULE TaskLifecycle ----------------------------
(***************************************************************************)
(* The life of a task as its rows show it (docs/TASK_LIFECYCLE.md), with   *)
(* nothing said of workers, processes or repository calls: a task waits,   *)
(* is claimed by one executor at a time, and comes to rest as completed or *)
(* as dead letter. Only the executor of a task changes its row, and a task *)
(* that has lost its executor stays as it is.                              *)
(***************************************************************************)
EXTENDS Naturals

CONSTANTS
  Tasks,
  MaxRetries  \* the MaxRetries field of a task

VARIABLES
  status,    \* of a task
  retries,   \* its RetryCount
  executing  \* the tasks somebody executes

vars == <<status, retries, executing>>

Init ==
  /\ status = [t \in Tasks |-> "absent"]
  /\ retries = [t \in Tasks |-> 0]
  /\ executing = {}

Becomes(t, s) == status' = [status EXCEPT ![t] = s]

Enqueue(t) ==
  /\ status[t] = "absent"
  /\ Becomes(t, "pending")
  /\ UNCHANGED <<retries, executing>>

\* A task is claimed; the one that claims it may not get to know.
Claim(t) ==
  /\ status[t] = "pending" /\ t \notin executing
  /\ Becomes(t, "running")
  /\ executing' \in {executing, executing \cup {t}}
  /\ UNCHANGED retries

\* The executor of t, and of nothing else, is done with it.
Leaves(t) ==
  /\ t \in executing
  /\ executing' = executing \ {t}

Complete(t) ==
  /\ Leaves(t) /\ status[t] = "running"
  /\ Becomes(t, "completed")
  /\ UNCHANGED retries

Requeue(t) ==
  /\ Leaves(t) /\ status[t] = "running" /\ retries[t] < MaxRetries[t]
  /\ Becomes(t, "pending")
  /\ retries' = [retries EXCEPT ![t] = @ + 1]

\* No retry is left.
Fail(t) ==
  /\ t \in executing /\ status[t] = "running" /\ retries[t] = MaxRetries[t]
  /\ Becomes(t, "failed")
  /\ UNCHANGED <<retries, executing>>

\* Also when the failed status did not get into the row.
MoveToDeadLetter(t) ==
  /\ Leaves(t) /\ status[t] \in {"running", "failed"} /\ retries[t] = MaxRetries[t]
  /\ Becomes(t, "dead_letter")
  /\ UNCHANGED retries

\* Executors go away, or give up after a failed write.
Abandon ==
  /\ executing' \in SUBSET executing
  /\ UNCHANGED <<status, retries>>

Next ==
  \/ \E t \in Tasks : \/ Enqueue(t) \/ Claim(t) \/ Complete(t) \/ Requeue(t)
                      \/ Fail(t) \/ MoveToDeadLetter(t)
  \/ Abandon

Spec == Init /\ [][Next]_vars
=============================================================================
