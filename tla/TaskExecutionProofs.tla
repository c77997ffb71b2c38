------------------------ MODULE TaskExecutionProofs ------------------------
(***************************************************************************)
(* Proofs about TaskExecution, for any number of tasks, processes, workers *)
(* and faults. The second half is about retries.                           *)
(***************************************************************************)
EXTENDS TaskExecution, TLAPS

\* A worker that is not polling has a task in its hands.
HoldsTask == \A w \in Workers : pc[w] # "poll" => held[w] \in Tasks

TypeInv == TypeOK /\ HoldsTask

USE ConstantsAssumption
-----------------------------------------------------------------------------
(* Rows. *)

\* A row stays a row, and the other columns stay what they are, when one
\* column is written.
LEMMA RowWith ==
  ASSUME NEW r \in Row
  PROVE  /\ \A s \in Statuses : [r EXCEPT !.status = s] \in Row
         /\ [r EXCEPT !.sched = "due"] \in Row
         /\ \A b \in {"fresh", "stale", "expired"} : [r EXCEPT !.beat = b] \in Row
         /\ [r EXCEPT !.ckpt = "saved"] \in Row
  BY DEF Row

\* What a handler that only sets the status makes of a row.
LEMMA RowStatus ==
  ASSUME NEW r \in Row, NEW s \in Statuses
  PROVE  LET q == [r EXCEPT !.status = s]
         IN  /\ q \in Row /\ q.status = s
             /\ q.worker = r.worker /\ q.retry = r.retry /\ q.ckpt = r.ckpt
  BY DEF Row

\* What a claim by worker w makes of a row.
LEMMA RowClaimed ==
  ASSUME NEW w \in Workers, NEW t \in Tasks, row[t] \in Row
  PROVE  /\ Claimed(t, w) \in Row
         /\ Claimed(t, w).status = "running"
         /\ Claimed(t, w).worker = w
         /\ Claimed(t, w).retry = row[t].retry
         /\ Claimed(t, w).ckpt = row[t].ckpt
  BY DEF Row, Statuses, Claimed

\* What a requeue makes of a row.
LEMMA RowRequeued ==
  ASSUME NEW r \in Row, NEW when \in {"due", "delayed"}
  PROVE  /\ Requeued(r, when) \in Row
         /\ Requeued(r, when).status = "pending"
         /\ Requeued(r, when).retry = r.retry + 1
         /\ Requeued(r, when).ckpt = r.ckpt
<1>1. ASSUME NEW n \in Nat
      PROVE  LET q == [r EXCEPT !.status = "pending", !.worker = NoWorker, !.retry = n,
                                !.sched = when, !.beat = "none"]
             IN  q \in Row /\ q.status = "pending" /\ q.retry = n /\ q.ckpt = r.ckpt
  BY <1>1 DEF Row, Statuses
<1>2. r.retry + 1 \in Nat
  BY DEF Row
<1> QED
  BY <1>1, <1>2, Zenon DEF Requeued

\* A new row.
LEMMA RowNew ==
  ASSUME NEW s \in EnqueueStatuses, NEW when \in {"due", "delayed"}
  PROVE  LET q == [NoRow EXCEPT !.status = IF s = "unset" THEN "pending" ELSE s,
                                !.sched = when]
         IN  /\ q \in Row /\ q.retry = 0 /\ q.ckpt = "none"
             /\ q.status = IF s = "unset" THEN "pending" ELSE s
  BY EnqueueAssumption DEF NoRow, Row, Statuses

\* The whole-row write of repository.Update, or its failure.
LEMMA UpdateRow ==
  ASSUME TypeOK, NEW t \in Tasks, NEW r \in Row, Update(t, r)
  PROVE  /\ row' \in [Tasks -> Row] /\ faults' \in Nat
         /\ \A u \in Tasks : u # t => row'[u] = row[u]
         /\ \/ row'[t] = r /\ faults' = faults
            \/ row'[t] = row[t] /\ faults' = faults + 1
  BY DEF TypeOK, Update, RepositoryFault

\* Update with a row that differs from r in its status only.
LEMMA UpdateStatus ==
  ASSUME TypeOK, NEW t \in Tasks, NEW r \in Row, NEW s \in Statuses,
         Update(t, [r EXCEPT !.status = s])
  PROVE  /\ \A u \in Tasks : u # t => row'[u] = row[u]
         /\ \/ /\ row'[t].status = s /\ row'[t].worker = r.worker
               /\ row'[t].retry = r.retry /\ row'[t].ckpt = r.ckpt
               /\ faults' = faults
            \/ row'[t] = row[t] /\ faults' = faults + 1
<1> DEFINE q == [r EXCEPT !.status = s]
<1>1. /\ q \in Row /\ q.status = s
      /\ q.worker = r.worker /\ q.retry = r.retry /\ q.ckpt = r.ckpt
  BY RowStatus
<1> HIDE DEF q
<1>2. Update(t, q)
  BY DEF q
<1> QED
  BY <1>1, <1>2, UpdateRow

\* Enqueue writes an absent row only.
LEMMA EnqueueRow ==
  ASSUME TypeOK, NEW t \in Tasks, NEW s \in EnqueueStatuses, NEW when \in {"due", "delayed"},
         Enqueue(t, s, when)
  PROVE  /\ row[t].status = "absent"
         /\ \A u \in Tasks : u # t => row'[u] = row[u]
         /\ \/ /\ row'[t].status = IF s = "unset" THEN "pending" ELSE s
               /\ row'[t].retry = 0 /\ row'[t].ckpt = "none"
               /\ faults' = faults
            \/ row'[t] = row[t] /\ faults' = faults + 1
<1> DEFINE q == [NoRow EXCEPT !.status = IF s = "unset" THEN "pending" ELSE s, !.sched = when]
<1>1. /\ q \in Row /\ q.retry = 0 /\ q.ckpt = "none"
      /\ q.status = IF s = "unset" THEN "pending" ELSE s
  BY RowNew
<1>2. row[t].status = "absent" /\ Update(t, q)
  BY DEF Enqueue
<1> HIDE DEF q
<1> QED
  BY <1>1, <1>2, UpdateRow
-----------------------------------------------------------------------------
(* Types. *)

\* Init establishes the type invariant.
LEMMA TypeInvInit == Init => TypeInv
  BY DEF Init, TypeInv, TypeOK, HoldsTask, Row, NoRow, WorkerSteps, Statuses

\* Every step keeps the types.
LEMMA TypeInvNext == TypeInv /\ [Next]_vars => TypeInv'
<1> SUFFICES ASSUME TypeInv, [Next]_vars PROVE TypeInv'
  OBVIOUS
<1> USE DEF TypeInv
<1>1. ASSUME NEW t \in Tasks, NEW s \in EnqueueStatuses, NEW when \in {"due", "delayed"},
             Enqueue(t, s, when)
      PROVE  TypeInv'
  <2> DEFINE r == [NoRow EXCEPT !.status = IF s = "unset" THEN "pending" ELSE s, !.sched = when]
  <2>1. r \in Row
    BY RowNew
  <2>2. row' \in [Tasks -> Row] /\ faults' \in Nat
    BY <1>1, <2>1, UpdateRow DEF Enqueue
  <2> QED
    BY <1>1, <2>2 DEF Enqueue, TypeOK, HoldsTask, workerVars, processVars
<1>2. ASSUME NEW t \in Tasks, ScheduleDue(t)
      PROVE  TypeInv'
  BY <1>2, RowWith DEF ScheduleDue, TypeOK, HoldsTask, workerVars, processVars
<1>3. ASSUME NEW t \in Tasks, HeartbeatAges(t)
      PROVE  TypeInv'
  <2>1. Older(row[t].beat) \in {"stale", "expired"}
    BY DEF Older
  <2>2. [row[t] EXCEPT !.beat = Older(row[t].beat)] \in Row
    BY <2>1, RowWith DEF TypeOK
  <2>3. row' = [row EXCEPT ![t] = [row[t] EXCEPT !.beat = Older(row[t].beat)]]
    BY <1>3 DEF HeartbeatAges
  <2>4. row' \in [Tasks -> Row]
    BY <2>2, <2>3 DEF TypeOK
  <2> QED
    BY <1>3, <2>4 DEF HeartbeatAges, RepositoryFault, TypeOK, HoldsTask,
                      workerVars, processVars
<1>4. ASSUME NEW w \in Workers, NEW t \in Tasks
      PROVE  Claimed(t, w) \in Row
  BY RowClaimed DEF TypeOK
<1>5. ASSUME NEW w \in Workers, NEW t \in Tasks, Dequeue(w, t)
      PROVE  TypeInv'
  BY <1>4, <1>5 DEF Dequeue, FirstStep, TypeOK, HoldsTask, WorkerSteps, processVars
<1>6. ASSUME NEW w \in Workers, NEW t \in Tasks, DequeueReplyLost(w, t)
      PROVE  TypeInv'
  BY <1>4, <1>6 DEF DequeueReplyLost, RepositoryFault, TypeOK, HoldsTask,
                    workerVars, processVars
<1>7. ASSUME NEW w \in Workers, HandleTask(w)
      PROVE  TypeInv'
  <2>1. CASE ExecuteReturns(w)
    BY <2>1 DEF ExecuteReturns, TypeOK, HoldsTask, WorkerSteps, processVars
  <2>2. CASE handleTaskSuccess(w)
    <3>1. held[w] \in Tasks /\ [copy[w] EXCEPT !.status = "completed"] \in Row
      BY <2>2, RowWith DEF handleTaskSuccess, TypeOK, HoldsTask, Statuses
    <3>2. row' \in [Tasks -> Row] /\ faults' \in Nat
      BY <2>2, <3>1, UpdateRow DEF handleTaskSuccess
    <3> QED
      BY <2>2, <3>1, <3>2 DEF handleTaskSuccess, TypeOK, HoldsTask, WorkerSteps, processVars
  <2>3. CASE RequeueGetByID(w)
    BY <2>3 DEF RequeueGetByID, RepositoryFault, TypeOK, HoldsTask, WorkerSteps, processVars
  <2>4. ASSUME NEW when \in {"due", "delayed"}, RequeueUpdate(w, when)
        PROVE  TypeInv'
    <3>1. held[w] \in Tasks /\ Requeued(copy[w], when) \in Row
      BY <2>4, RowRequeued DEF RequeueUpdate, TypeOK, HoldsTask
    <3>2. row' \in [Tasks -> Row] /\ faults' \in Nat
      BY <2>4, <3>1, UpdateRow DEF RequeueUpdate
    <3> QED
      BY <2>4, <3>1, <3>2 DEF RequeueUpdate, TypeOK, HoldsTask, WorkerSteps, processVars
  <2>5. CASE FailUpdate(w)
    <3>1. held[w] \in Tasks /\ [copy[w] EXCEPT !.status = "failed"] \in Row
      BY <2>5, RowWith DEF FailUpdate, TypeOK, HoldsTask, Statuses
    <3>2. row' \in [Tasks -> Row] /\ faults' \in Nat
      BY <2>5, <3>1, UpdateRow DEF FailUpdate
    <3> QED
      BY <2>5, <3>1, <3>2 DEF FailUpdate, TypeOK, HoldsTask, WorkerSteps, processVars
  <2>6. CASE MoveToDeadLetter(w)
    <3>1. held[w] \in Tasks /\ [row[held[w]] EXCEPT !.status = "dead_letter"] \in Row
      BY <2>6, RowWith DEF MoveToDeadLetter, TypeOK, HoldsTask, Statuses
    <3>2. row' \in [Tasks -> Row] /\ faults' \in Nat
      BY <2>6, <3>1, UpdateRow DEF MoveToDeadLetter
    <3> QED
      BY <2>6, <3>1, <3>2 DEF MoveToDeadLetter, TypeOK, HoldsTask, WorkerSteps, processVars
  <2>7. CASE Release(w)
    BY <2>7 DEF Release, TypeOK, HoldsTask, WorkerSteps, processVars, NoRow, Row
  <2> QED
    BY <1>7, <2>1, <2>2, <2>3, <2>4, <2>5, <2>6, <2>7 DEF HandleTask
<1>8. ASSUME NEW w \in Workers, updateHeartbeats(w) \/ ReportHeartbeat(w)
      PROVE  TypeInv'
  <2>1. held[w] \in Tasks /\ UpdateHeartbeat(w)
    BY <1>8 DEF updateHeartbeats, ReportHeartbeat, Beating, HoldsTask
  <2>2. row' \in [Tasks -> Row]
    BY <2>1, RowWith DEF UpdateHeartbeat, TypeOK
  <2> QED
    BY <2>1, <2>2 DEF UpdateHeartbeat, TypeOK, HoldsTask, workerVars, processVars
<1>9. ASSUME NEW w \in Workers, ReportCheckpoint(w)
      PROVE  TypeInv'
  BY <1>9, RowWith DEF ReportCheckpoint, TypeOK, HoldsTask, workerVars, processVars
<1>10. ASSUME NEW p \in Pools, NEW type \in TaskTypes, RegisterExecutor(p, type)
       PROVE  TypeInv'
  BY <1>10 DEF RegisterExecutor, TypeOK, HoldsTask, workerVars
<1>11. ASSUME NEW p \in Pools, checkForStuckTasks(p)
       PROVE  TypeInv'
  <2>1. StaleTasks \in SUBSET [task : Tasks, copy : Row]
    BY DEF StaleTasks, TypeOK
  <2> QED
    BY <1>11, <2>1 DEF checkForStuckTasks, TypeOK, HoldsTask, workerVars, processVars
<1>12. ASSUME NEW p \in Pools, CheckStuckTask(p)
       PROVE  TypeInv'
  <2>1. PICK s \in stale[p] :
          /\ stale' = [stale EXCEPT ![p] = @ \ {s}]
          /\ \/ FALSE \in IsStuck(s) /\ UNCHANGED <<row, faults>>
             \/ TRUE \in IsStuck(s) /\ handleStuckTask(p, s)
          /\ UNCHANGED <<workerVars, processVars, attempts>>
    BY <1>12 DEF CheckStuckTask
  <2> s \in [task : Tasks, copy : Row]
    BY DEF TypeOK
  <2>2. s.task \in Tasks /\ [s.copy EXCEPT !.status = "stuck"] \in Row
    BY RowWith DEF Statuses
  <2>3. row' \in [Tasks -> Row] /\ faults' \in Nat
    BY <2>1, <2>2, UpdateRow DEF handleStuckTask, TypeOK
  <2> QED
    BY <2>1, <2>3 DEF TypeOK, HoldsTask, workerVars, processVars
<1>13. ASSUME NEW p \in Pools, Terminate(p), outages' \in Nat
       PROVE  TypeInv'
  BY <1>13 DEF Terminate, TypeOK, HoldsTask, WorkerSteps, NoRow, Row
<1>14. ASSUME NEW p \in Pools, Stop(p) \/ Exit(p) \/ Crash(p) \/ Restart(p)
       PROVE  TypeInv'
  BY <1>13, <1>14 DEF Stop, Exit, Crash, Restart, TypeOK, HoldsTask, workerVars
<1>15. CASE UNCHANGED vars
  BY <1>15 DEF vars, TypeOK, HoldsTask
<1> QED
  BY <1>1, <1>2, <1>3, <1>5, <1>6, <1>7, <1>8, <1>9, <1>10, <1>11, <1>12, <1>14, <1>15
     DEF Next

(***************************************************************************)
(* TypeOK is an invariant: every row, copy and listed copy keeps its type, *)
(* and the counters stay natural numbers.                                  *)
(***************************************************************************)
THEOREM TypeCorrect == Spec => []TypeOK
  BY TypeInvInit, TypeInvNext, PTL DEF Spec, TypeInv
-----------------------------------------------------------------------------
(* Steps that write a column nobody decides by: time and reports. *)

\* Status, owner and retry count stay; a checkpoint appears only while its
\* executor runs.
Touch ==
  /\ \A u \in Tasks :
       /\ row'[u].status = row[u].status
       /\ row'[u].worker = row[u].worker
       /\ row'[u].retry = row[u].retry
       /\ \/ row'[u].ckpt = row[u].ckpt
          \/ /\ row'[u].ckpt = "saved"
             /\ \E w \in Workers : pc[w] = "exec" /\ held[w] = u
  /\ faults' = faults \/ faults' = faults + 1
  /\ UNCHANGED <<pool, executors, outages, pc, held, copy, stale, attempts>>

\* Writing one of these columns leaves the rest of the row alone.
LEMMA RowTouched ==
  ASSUME NEW r \in Row, NEW v
  PROVE  /\ LET q == [r EXCEPT !.sched = v]
            IN  q.status = r.status /\ q.worker = r.worker /\ q.retry = r.retry /\ q.ckpt = r.ckpt
         /\ LET q == [r EXCEPT !.beat = v]
            IN  q.status = r.status /\ q.worker = r.worker /\ q.retry = r.retry /\ q.ckpt = r.ckpt
         /\ LET q == [r EXCEPT !.ckpt = v]
            IN  q.status = r.status /\ q.worker = r.worker /\ q.retry = r.retry /\ q.ckpt = v
  BY DEF Row

\* The steps of time, of the heartbeat loop and of reporting executors touch.
LEMMA TouchSteps ==
  ASSUME TypeInv,
         \/ \E t \in Tasks : ScheduleDue(t) \/ HeartbeatAges(t)
         \/ \E w \in Workers : \/ updateHeartbeats(w) \/ ReportHeartbeat(w)
                               \/ ReportCheckpoint(w)
  PROVE  Touch
<1>1. ASSUME NEW t \in Tasks, ScheduleDue(t)
      PROVE  Touch
  <2>1. row' = [row EXCEPT ![t] = [row[t] EXCEPT !.sched = "due"]]
    BY <1>1 DEF ScheduleDue
  <2> QED
    BY <1>1, <2>1, RowTouched DEF Touch, ScheduleDue, TypeInv, TypeOK, workerVars, processVars
<1>2. ASSUME NEW t \in Tasks, HeartbeatAges(t)
      PROVE  Touch
  <2>1. row' = [row EXCEPT ![t] = [row[t] EXCEPT !.beat = Older(row[t].beat)]]
    BY <1>2 DEF HeartbeatAges
  <2> QED
    BY <1>2, <2>1, RowTouched
       DEF Touch, HeartbeatAges, RepositoryFault, TypeInv, TypeOK, workerVars, processVars
<1>3. ASSUME NEW w \in Workers, updateHeartbeats(w) \/ ReportHeartbeat(w)
      PROVE  Touch
  <2>1. held[w] \in Tasks /\ UpdateHeartbeat(w)
    BY <1>3 DEF updateHeartbeats, ReportHeartbeat, Beating, TypeInv, HoldsTask
  <2>2. row' = [row EXCEPT ![held[w]] = [row[held[w]] EXCEPT !.beat = "fresh"]]
    BY <2>1 DEF UpdateHeartbeat
  <2> QED
    BY <2>1, <2>2, RowTouched
       DEF Touch, UpdateHeartbeat, TypeInv, TypeOK, workerVars, processVars
<1>4. ASSUME NEW w \in Workers, ReportCheckpoint(w)
      PROVE  Touch
  <2>1. held[w] \in Tasks
    BY <1>4 DEF ReportCheckpoint, TypeInv, HoldsTask
  <2>2. row' = [row EXCEPT ![held[w]] = [row[held[w]] EXCEPT !.ckpt = "saved"]]
    BY <1>4 DEF ReportCheckpoint
  <2> QED
    BY <1>4, <2>1, <2>2, RowTouched
       DEF Touch, ReportCheckpoint, TypeInv, TypeOK, workerVars, processVars
<1> QED
  BY <1>1, <1>2, <1>3, <1>4
-----------------------------------------------------------------------------
(* At most one worker executes a task. *)

\* A task that a worker executes cannot be claimed or enqueued.
ExecutingNotClaimable ==
  \A w \in Workers : Executing(w) => row[held[w]].status \notin {"absent", "pending"}

ExclInv == TypeInv /\ ExecutingNotClaimable /\ ExclusiveExecution

\* Init establishes the invariant: no worker executes anything.
LEMMA ExclInvInit == Init => ExclInv
  BY TypeInvInit DEF Init, ExclInv, ExecutingNotClaimable, ExclusiveExecution, Executing

\* Every step preserves it. The writers that make a row pending are the
\* producer of an absent row and the one worker that executes the task; the
\* stuck detector's late writes never do.
LEMMA ExclInvNext == ExclInv /\ [Next]_vars => ExclInv'
<1> SUFFICES ASSUME ExclInv, [Next]_vars PROVE ExclInv'
  OBVIOUS
<1> USE DEF ExclInv
<1> TypeInv'
  BY TypeInvNext
<1> DEFINE Goal == ExecutingNotClaimable' /\ ExclusiveExecution'
<1>1. ASSUME NEW t \in Tasks, NEW s \in EnqueueStatuses, NEW when \in {"due", "delayed"},
             Enqueue(t, s, when)
      PROVE  Goal
  <2>1. \A u \in Tasks : row[u].status # "absent" => row'[u] = row[u]
    BY <1>1, EnqueueRow DEF TypeInv
  <2> QED
    BY <1>1, <2>1 DEF Enqueue, ExecutingNotClaimable, ExclusiveExecution, Executing,
                      TypeInv, TypeOK, HoldsTask, workerVars
<1>2. CASE Touch
  BY <1>2 DEF Touch, ExecutingNotClaimable, ExclusiveExecution, Executing,
              TypeInv, TypeOK, HoldsTask
<1>3. ASSUME NEW w \in Workers, NEW t \in Tasks, Dequeue(w, t)
      PROVE  Goal
  <2>1. \A v \in Workers : v # w /\ Executing(v) => held[v] # t
    BY <1>3 DEF Dequeue, Claimable, ExecutingNotClaimable
  <2>2. row'[t].status = "running" /\ \A u \in Tasks : u # t => row'[u] = row[u]
    BY <1>3, RowClaimed DEF Dequeue, TypeInv, TypeOK
  <2> QED
    BY <1>3, <2>1, <2>2 DEF Dequeue, ExecutingNotClaimable, ExclusiveExecution, Executing,
                            TypeInv, TypeOK, HoldsTask
<1>4. ASSUME NEW w \in Workers, NEW t \in Tasks, DequeueReplyLost(w, t)
      PROVE  Goal
  <2>1. row'[t].status = "running" /\ \A u \in Tasks : u # t => row'[u] = row[u]
    BY <1>4, RowClaimed DEF DequeueReplyLost, TypeInv, TypeOK
  <2> QED
    BY <1>4, <2>1 DEF DequeueReplyLost, ExecutingNotClaimable, ExclusiveExecution, Executing,
                      TypeInv, TypeOK, HoldsTask, workerVars
<1>5. ASSUME NEW w \in Workers, HandleTask(w)
      PROVE  Goal
  <2>1. /\ held' = held \/ held' = [held EXCEPT ![w] = NoTask]
        /\ \A v \in Workers : v # w => pc'[v] = pc[v] /\ held'[v] = held[v]
    BY <1>5 DEF HandleTask, ExecuteReturns, handleTaskSuccess, RequeueGetByID, RequeueUpdate,
                FailUpdate, MoveToDeadLetter, Release, TypeInv, TypeOK
  <2>2. ASSUME Executing(w)', held' = held, Executing(w),
               \A u \in Tasks : u # held[w] => row'[u] = row[u],
               row'[held[w]].status \notin {"absent", "pending"}
        PROVE  Goal
    BY <2>1, <2>2 DEF ExecutingNotClaimable, ExclusiveExecution, Executing,
                      TypeInv, TypeOK, HoldsTask
  <2>3. ASSUME ~Executing(w)', Executing(w) \/ row' = row,
               \A u \in Tasks : u # held[w] => row'[u] = row[u]
        PROVE  Goal
    <3>1. ASSUME NEW v \in Workers, Executing(v)'
          PROVE  v # w /\ Executing(v) /\ held'[v] = held[v] /\ held[v] \in Tasks
      BY <2>1, <2>3, <3>1 DEF Executing, TypeInv, HoldsTask
    <3>2. ExclusiveExecution'
      BY <3>1 DEF ExclusiveExecution
    <3>3. ExecutingNotClaimable'
      BY <2>3, <3>1 DEF ExecutingNotClaimable, ExclusiveExecution
    <3> QED
      BY <3>2, <3>3
  <2>4. CASE ExecuteReturns(w)
    BY <2>2, <2>4 DEF ExecuteReturns, Executing, ExecutingNotClaimable, TypeInv, TypeOK
  <2>5. CASE handleTaskSuccess(w)
    <3>1. \A u \in Tasks : u # held[w] => row'[u] = row[u]
      BY <2>5, UpdateStatus
         DEF handleTaskSuccess, TypeInv, TypeOK, HoldsTask, Statuses
    <3> QED
      BY <2>3, <2>5, <3>1 DEF handleTaskSuccess, Executing, TypeInv, TypeOK
  <2>6. CASE RequeueGetByID(w)
    BY <2>2, <2>3, <2>6 DEF RequeueGetByID, Executing, ExecutingNotClaimable, TypeInv, TypeOK
  <2>7. ASSUME NEW when \in {"due", "delayed"}, RequeueUpdate(w, when)
        PROVE  Goal
    <3>1. \A u \in Tasks : u # held[w] => row'[u] = row[u]
      BY <2>7, UpdateRow, RowRequeued DEF RequeueUpdate, TypeInv, TypeOK, HoldsTask
    <3> QED
      BY <2>3, <2>7, <3>1 DEF RequeueUpdate, Executing, TypeInv, TypeOK
  <2>8. CASE FailUpdate(w)
    <3>1. /\ \A u \in Tasks : u # held[w] => row'[u] = row[u]
          /\ row'[held[w]].status \in {"failed", row[held[w]].status}
      BY <2>8, UpdateStatus DEF FailUpdate, TypeInv, TypeOK, HoldsTask, Statuses
    <3> QED
      BY <2>2, <2>8, <3>1 DEF FailUpdate, Executing, ExecutingNotClaimable, TypeInv, TypeOK
  <2>9. CASE MoveToDeadLetter(w)
    <3>1. \A u \in Tasks : u # held[w] => row'[u] = row[u]
      BY <2>9, UpdateStatus DEF MoveToDeadLetter, TypeInv, TypeOK, HoldsTask, Statuses
    <3> QED
      BY <2>3, <2>9, <3>1 DEF MoveToDeadLetter, Executing, TypeInv, TypeOK
  <2>10. CASE Release(w)
    BY <2>3, <2>10 DEF Release, Executing, TypeInv, TypeOK
  <2> QED
    BY <1>5, <2>4, <2>5, <2>6, <2>7, <2>8, <2>9, <2>10 DEF HandleTask
<1>6. ASSUME NEW p \in Pools, CheckStuckTask(p)
      PROVE  Goal
  <2>1. PICK s \in stale[p] :
          /\ UNCHANGED row \/ handleStuckTask(p, s)
          /\ UNCHANGED <<workerVars, processVars, attempts>>
    BY <1>6 DEF CheckStuckTask
  <2> s \in [task : Tasks, copy : Row]
    BY DEF TypeInv, TypeOK
  <2>2. \A u \in Tasks : row'[u] = row[u] \/ row'[u].status = "stuck"
    BY <2>1, UpdateStatus DEF handleStuckTask, TypeInv, Statuses
  <2> QED
    BY <2>1, <2>2 DEF ExecutingNotClaimable, ExclusiveExecution, Executing,
                      TypeInv, TypeOK, HoldsTask, workerVars
<1>7. ASSUME NEW p \in Pools, Terminate(p)
      PROVE  Goal
  BY <1>7 DEF Terminate, ExecutingNotClaimable, ExclusiveExecution, Executing, TypeInv, TypeOK
<1>8. CASE UNCHANGED <<row, pc, held>>
  BY <1>8 DEF ExecutingNotClaimable, ExclusiveExecution, Executing
<1>9. ASSUME NEW p \in Pools,
             \/ \E type \in TaskTypes : RegisterExecutor(p, type)
             \/ checkForStuckTasks(p) \/ Stop(p) \/ Exit(p) \/ Crash(p) \/ Restart(p)
      PROVE  Goal
  BY <1>7, <1>8, <1>9 DEF RegisterExecutor, checkForStuckTasks, Stop, Exit, Crash, Restart,
                          workerVars
<1>10. CASE UNCHANGED vars
  BY <1>8, <1>10 DEF vars
<1> QED
  BY <1>1, <1>2, <1>3, <1>4, <1>5, <1>6, <1>9, <1>10, TouchSteps DEF Next

(***************************************************************************)
(* No two workers execute the same task at the same time, for any number   *)
(* of processes, workers and tasks, any mixture of failing calls, crashes, *)
(* stops and restarts, and with the stuck detector on or off.              *)
(***************************************************************************)
THEOREM Exclusive == Spec => []ExclusiveExecution
  BY ExclInvInit, ExclInvNext, PTL DEF Spec, ExclInv
-----------------------------------------------------------------------------
(* Settled rows, with the stuck detector's late writes. *)

\* The row of a task that is being executed has not settled, but for what the
\* detector or the executing worker itself has written.
ExecutingUnsettled ==
  \A w \in Workers : Executing(w) =>
    \/ row[held[w]].status \in {"running", "stuck"}
    \/ pc[w] = "dead" /\ row[held[w]].status = "failed"

SettledInv == ExclInv /\ ExecutingUnsettled

\* Init establishes the invariant: no worker executes anything.
LEMMA SettledInvInit == Init => SettledInv
  BY ExclInvInit DEF Init, SettledInv, ExecutingUnsettled, Executing

\* Every step preserves it and moves settled rows only as KeepsSettled allows:
\* producers and claims start from absent and pending rows, the detector
\* writes "stuck", and the handlers write the row of a task in execution.
LEMMA SettledInvNext ==
  ASSUME SettledInv, [Next]_vars
  PROVE  SettledInv' /\ [KeepsSettled]_vars
<1> USE DEF SettledInv
<1> ExclInv'
  BY ExclInvNext
<1>0. TypeInv /\ TypeInv' /\ ExecutingNotClaimable /\ ExclusiveExecution
  BY DEF ExclInv
<1> DEFINE Goal == ExecutingUnsettled' /\ KeepsSettled
\* Workers that execute go on as they were, and no status changes.
<1>f. ASSUME \A u \in Tasks : row'[u].status = row[u].status,
             \A v \in Workers : Executing(v)' =>
               pc'[v] = pc[v] /\ held'[v] = held[v] /\ held[v] \in Tasks
      PROVE  Goal
  BY <1>f DEF ExecutingUnsettled, Executing, KeepsSettled
<1>h. \A v \in Workers : Executing(v) => held[v] \in Tasks
  BY <1>0 DEF Executing, TypeInv, HoldsTask
<1>1. ASSUME NEW t \in Tasks, NEW s \in EnqueueStatuses, NEW when \in {"due", "delayed"},
             Enqueue(t, s, when)
      PROVE  Goal
  <2>1. \A u \in Tasks : row[u].status # "absent" => row'[u] = row[u]
    BY <1>0, <1>1, EnqueueRow DEF TypeInv
  <2>2. UNCHANGED <<pc, held>>
    BY <1>1 DEF Enqueue, workerVars
  <2> QED
    BY <1>0, <1>h, <2>1, <2>2
       DEF ExecutingUnsettled, ExecutingNotClaimable, Executing, KeepsSettled, Terminal
<1>2. CASE Touch
  BY <1>2, <1>f, <1>h DEF Touch, Executing
<1>3. ASSUME NEW w \in Workers, NEW t \in Tasks, Dequeue(w, t)
      PROVE  Goal
  <2>1. /\ row[t].status = "pending" /\ row'[t].status = "running"
        /\ \A u \in Tasks : u # t => row'[u] = row[u]
    BY <1>0, <1>3, RowClaimed DEF Dequeue, Claimable, TypeInv, TypeOK
  <2>2. /\ held'[w] = t
        /\ \A v \in Workers : v # w => pc'[v] = pc[v] /\ held'[v] = held[v]
    BY <1>0, <1>3 DEF Dequeue, TypeInv, TypeOK
  <2>3. \A v \in Workers : v # w /\ Executing(v) => held[v] # t
    BY <1>0, <2>1 DEF ExecutingNotClaimable
  <2> QED
    BY <1>h, <2>1, <2>2, <2>3 DEF ExecutingUnsettled, Executing, KeepsSettled, Terminal
<1>4. ASSUME NEW w \in Workers, NEW t \in Tasks, DequeueReplyLost(w, t)
      PROVE  Goal
  <2>1. /\ row[t].status = "pending"
        /\ \A u \in Tasks : u # t => row'[u] = row[u]
    BY <1>0, <1>4, RowClaimed DEF DequeueReplyLost, Claimable, TypeInv, TypeOK
  <2>2. UNCHANGED <<pc, held>>
    BY <1>4 DEF DequeueReplyLost, workerVars
  <2>3. \A v \in Workers : Executing(v) => held[v] # t
    BY <1>0, <2>1 DEF ExecutingNotClaimable
  <2> QED
    BY <1>h, <2>1, <2>2, <2>3 DEF ExecutingUnsettled, Executing, KeepsSettled, Terminal
<1>5. ASSUME NEW w \in Workers, HandleTask(w)
      PROVE  Goal
  <2>1. \A v \in Workers : v # w => pc'[v] = pc[v] /\ held'[v] = held[v]
    BY <1>0, <1>5
       DEF HandleTask, ExecuteReturns, handleTaskSuccess, RequeueGetByID, RequeueUpdate,
           FailUpdate, MoveToDeadLetter, Release, TypeInv, TypeOK
  <2> DEFINE t == held[w]
  \* The other workers execute other tasks.
  <2>2. ASSUME Executing(w), NEW v \in Workers, v # w, Executing(v)'
        PROVE  Executing(v) /\ held'[v] = held[v] /\ held'[v] # t /\ pc'[v] = pc[v]
    BY <1>0, <2>1, <2>2 DEF Executing, ExclusiveExecution
  \* So it is enough to look at the one row and the one worker.
  <2>3. ASSUME Executing(w),
               \A u \in Tasks : u # t => row'[u] = row[u],
               \/ row'[t].status = row[t].status
               \/ row[t].status \in {"running", "stuck"}
               \/ row[t].status = "failed" /\ row'[t].status = "dead_letter",
               Executing(w)' =>
                 /\ held'[w] = t
                 /\ \/ row'[t].status \in {"running", "stuck"}
                    \/ pc'[w] = "dead" /\ row'[t].status = "failed"
        PROVE  Goal
    <3>1. ExecutingUnsettled'
      BY <1>h, <2>2, <2>3 DEF ExecutingUnsettled
    <3>2. KeepsSettled
      BY <2>3 DEF KeepsSettled, Terminal
    <3> QED
      BY <3>1, <3>2
  <2>4. ASSUME Executing(w)
        PROVE  /\ t \in Tasks /\ row[t] \in Row /\ copy[w] \in Row
               /\ \/ row[t].status \in {"running", "stuck"}
                  \/ pc[w] = "dead" /\ row[t].status = "failed"
    BY <1>0, <1>h, <2>4 DEF ExecutingUnsettled, TypeInv, TypeOK
  <2>5. CASE ExecuteReturns(w)
    <3>1. /\ Executing(w) /\ pc[w] # "dead" /\ held'[w] = t /\ row' = row
      BY <1>0, <2>5 DEF ExecuteReturns, Executing, TypeInv, TypeOK
    <3> QED
      BY <2>3, <2>4, <3>1
  <2>6. CASE handleTaskSuccess(w)
    <3>1. Executing(w) /\ pc[w] # "dead" /\ ~Executing(w)'
      BY <1>0, <2>6 DEF handleTaskSuccess, Executing, TypeInv, TypeOK
    <3>2. \A u \in Tasks : u # t => row'[u] = row[u]
      BY <1>0, <2>4, <2>6, <3>1, UpdateStatus DEF handleTaskSuccess, TypeInv, Statuses
    <3> QED
      BY <2>3, <2>4, <3>1, <3>2
  <2>7. CASE RequeueGetByID(w)
    <3>1. /\ Executing(w) /\ pc[w] # "dead" /\ held'[w] = t /\ row' = row
      BY <1>0, <2>7 DEF RequeueGetByID, Executing, TypeInv, TypeOK
    <3> QED
      BY <2>3, <2>4, <3>1
  <2>8. ASSUME NEW when \in {"due", "delayed"}, RequeueUpdate(w, when)
        PROVE  Goal
    <3>1. Executing(w) /\ pc[w] # "dead" /\ ~Executing(w)'
      BY <1>0, <2>8 DEF RequeueUpdate, Executing, TypeInv, TypeOK
    <3>2. \A u \in Tasks : u # t => row'[u] = row[u]
      BY <1>0, <2>4, <2>8, <3>1, UpdateRow, RowRequeued DEF RequeueUpdate, TypeInv
    <3> QED
      BY <2>3, <2>4, <3>1, <3>2
  <2>9. CASE FailUpdate(w)
    <3>1. Executing(w) /\ pc[w] # "dead" /\ pc'[w] = "dead" /\ held' = held
      BY <1>0, <2>9 DEF FailUpdate, Executing, TypeInv, TypeOK
    <3>2. /\ \A u \in Tasks : u # t => row'[u] = row[u]
          /\ row'[t].status = "failed" \/ row'[t] = row[t]
      BY <1>0, <2>4, <2>9, <3>1, UpdateStatus DEF FailUpdate, TypeInv, Statuses
    <3> QED
      BY <2>3, <2>4, <3>1, <3>2
  <2>10. CASE MoveToDeadLetter(w)
    <3>1. Executing(w) /\ ~Executing(w)'
      BY <1>0, <2>10 DEF MoveToDeadLetter, Executing, TypeInv, TypeOK
    <3>2. /\ \A u \in Tasks : u # t => row'[u] = row[u]
          /\ row'[t].status = "dead_letter" \/ row'[t] = row[t]
      BY <1>0, <2>4, <2>10, <3>1, UpdateStatus DEF MoveToDeadLetter, TypeInv, Statuses
    <3> QED
      BY <2>3, <2>4, <3>1, <3>2
  <2>11. CASE Release(w)
    <3>1. row' = row /\ ~Executing(w)'
      BY <1>0, <2>11 DEF Release, Executing, TypeInv, TypeOK
    <3> QED
      BY <1>f, <1>h, <2>1, <3>1 DEF Executing
  <2> QED
    BY <1>5, <2>5, <2>6, <2>7, <2>8, <2>9, <2>10, <2>11 DEF HandleTask
<1>6. ASSUME NEW p \in Pools, CheckStuckTask(p)
      PROVE  Goal
  <2>1. PICK s \in stale[p] :
          /\ UNCHANGED row \/ handleStuckTask(p, s)
          /\ UNCHANGED <<workerVars, processVars, attempts>>
    BY <1>6 DEF CheckStuckTask
  <2> s \in [task : Tasks, copy : Row]
    BY <1>0 DEF TypeInv, TypeOK
  <2>2. \A u \in Tasks : row'[u] = row[u] \/ row'[u].status = "stuck"
    BY <1>0, <2>1, UpdateStatus DEF handleStuckTask, TypeInv, Statuses
  <2>3. UNCHANGED <<pc, held>>
    BY <2>1 DEF workerVars
  <2> QED
    BY <1>h, <2>2, <2>3 DEF ExecutingUnsettled, Executing, KeepsSettled
<1>7. ASSUME NEW p \in Pools, Terminate(p)
      PROVE  Goal
  <2>1. /\ row' = row
        /\ \A v \in Workers : \/ pc'[v] = "poll"
                              \/ pc'[v] = pc[v] /\ held'[v] = held[v]
    BY <1>7 DEF Terminate
  <2> QED
    BY <1>f, <1>h, <2>1 DEF Executing
<1>8. ASSUME UNCHANGED <<row, pc, held>>
      PROVE  Goal
  BY <1>f, <1>h, <1>8 DEF Executing
<1>9. ASSUME NEW p \in Pools,
             \/ \E type \in TaskTypes : RegisterExecutor(p, type)
             \/ checkForStuckTasks(p) \/ Stop(p) \/ Exit(p) \/ Crash(p) \/ Restart(p)
      PROVE  Goal
  BY <1>7, <1>8, <1>9 DEF RegisterExecutor, checkForStuckTasks, Stop, Exit, Crash, Restart,
                          workerVars
<1>10. CASE UNCHANGED vars
  BY <1>8, <1>10 DEF vars
<1> QED
  BY <1>0, <1>1, <1>2, <1>3, <1>4, <1>5, <1>6, <1>9, <1>10, TouchSteps DEF Next

(***************************************************************************)
(* With the detector on or off, and whatever statuses tasks are enqueued   *)
(* with: a settled row is changed by nothing but the detector's "stuck",   *)
(* the dead-lettering of a failed task, and the worker that executes a     *)
(* task declared stuck.                                                    *)
(***************************************************************************)
THEOREM SettledRows == Spec => SettledStays
<1>1. SettledInv /\ [Next]_vars => SettledInv' /\ [KeepsSettled]_vars
  BY SettledInvNext
<1> QED
  BY SettledInvInit, <1>1, PTL DEF Spec, SettledStays
-----------------------------------------------------------------------------
(* Without faults and outages a running row is in its worker's hands. *)

\* A process that is not up has been stopped or has crashed.
NoOutageAllUp == outages = 0 => \A p \in Pools : pool[p] = "up"

HeldInv == ExclInv /\ RunningIsHeld /\ NoOutageAllUp

\* Init establishes the invariant: no row is running.
LEMMA HeldInvInit == Init => HeldInv
<1>1. NoRow.status # "running"
  BY DEF NoRow
<1> QED
  BY <1>1, ExclInvInit DEF Init, HeldInv, RunningIsHeld, NoOutageAllUp

\* Every step preserves it, if no task is enqueued as running.
LEMMA HeldInvNext ==
  ASSUME "running" \notin EnqueueStatuses, HeldInv, [Next]_vars
  PROVE  HeldInv'
<1> USE DEF HeldInv
<1> ExclInv'
  BY ExclInvNext
<1>0. TypeInv /\ TypeInv' /\ ExecutingNotClaimable /\ ExclusiveExecution
  BY DEF ExclInv
<1> DEFINE Goal == RunningIsHeld' /\ NoOutageAllUp'
<1>1. ASSUME NEW t \in Tasks, NEW s \in EnqueueStatuses, NEW when \in {"due", "delayed"},
             Enqueue(t, s, when)
      PROVE  Goal
  <2>1. /\ faults' = 0 => faults = 0
        /\ \A u \in Tasks : row'[u] = row[u] \/ row'[u].status # "running"
    BY <1>0, <1>1, EnqueueRow DEF TypeInv, TypeOK
  <2> QED
    BY <1>1, <2>1 DEF Enqueue, RunningIsHeld, NoOutageAllUp, Executing, workerVars, processVars
<1>2. CASE Touch
  BY <1>0, <1>2 DEF Touch, RunningIsHeld, NoOutageAllUp, Executing, TypeInv, TypeOK
<1>3. ASSUME NEW w \in Workers, NEW t \in Tasks, Dequeue(w, t)
      PROVE  Goal
  <2>1. row'[t].worker = w /\ \A u \in Tasks : u # t => row'[u] = row[u]
    BY <1>0, <1>3, RowClaimed DEF Dequeue, TypeInv, TypeOK
  <2>2. /\ Executing(w)' /\ held'[w] = t /\ ~Executing(w)
        /\ \A v \in Workers : v # w => pc'[v] = pc[v] /\ held'[v] = held[v]
    BY <1>0, <1>3 DEF Dequeue, FirstStep, Executing, TypeInv, TypeOK
  <2> QED
    BY <1>3, <2>1, <2>2 DEF Dequeue, RunningIsHeld, NoOutageAllUp, Executing, processVars
<1>4. ASSUME NEW w \in Workers, NEW t \in Tasks, DequeueReplyLost(w, t)
      PROVE  Goal
  BY <1>0, <1>4 DEF DequeueReplyLost, RepositoryFault, RunningIsHeld, NoOutageAllUp,
                    TypeInv, TypeOK, processVars
<1>5. ASSUME NEW w \in Workers, HandleTask(w)
      PROVE  Goal
  <2>1. /\ pool' = pool /\ outages' = outages
        /\ \A v \in Workers : v # w => pc'[v] = pc[v] /\ held'[v] = held[v]
    BY <1>0, <1>5
       DEF HandleTask, ExecuteReturns, handleTaskSuccess, RequeueGetByID, RequeueUpdate,
           FailUpdate, MoveToDeadLetter, Release, TypeInv, TypeOK, processVars
  \* The worker goes on with its task ...
  <2>2. ASSUME Executing(w)', held'[w] = held[w], faults' = 0 => faults = 0,
               \A u \in Tasks : row'[u] = row[u] \/ row'[u].status # "running"
        PROVE  Goal
    BY <2>1, <2>2 DEF RunningIsHeld, NoOutageAllUp, Executing
  \* ... or lets go of it, when the row is not running any more.
  <2>3. ASSUME faults' = 0 =>
                 /\ faults = 0
                 /\ ~Executing(w) \/ row'[held[w]].status # "running"
                 /\ \A u \in Tasks : u # held[w] => row'[u] = row[u]
                 /\ row'[held[w]] = row[held[w]] \/ row'[held[w]].status # "running"
        PROVE  Goal
    BY <2>1, <2>3 DEF RunningIsHeld, NoOutageAllUp, Executing
  <2>4. CASE ExecuteReturns(w)
    BY <1>0, <2>2, <2>4 DEF ExecuteReturns, Executing, TypeInv, TypeOK
  <2>5. CASE handleTaskSuccess(w)
    <3>1. held[w] \in Tasks /\ copy[w] \in Row
      BY <1>0, <2>5 DEF handleTaskSuccess, TypeInv, TypeOK, HoldsTask
    <3>2. /\ \A u \in Tasks : u # held[w] => row'[u] = row[u]
          /\ \/ row'[held[w]].status = "completed" /\ faults' = faults
             \/ row'[held[w]] = row[held[w]] /\ faults' = faults + 1
      BY <1>0, <2>5, <3>1, UpdateStatus DEF handleTaskSuccess, TypeInv, Statuses
    <3> QED
      BY <1>0, <2>3, <2>5, <3>1, <3>2 DEF handleTaskSuccess, Executing, TypeInv, TypeOK
  <2>6. CASE RequeueGetByID(w)
    BY <1>0, <2>2, <2>3, <2>6
       DEF RequeueGetByID, RepositoryFault, Executing, TypeInv, TypeOK
  <2>7. ASSUME NEW when \in {"due", "delayed"}, RequeueUpdate(w, when)
        PROVE  Goal
    <3>1. /\ Requeued(copy[w], when) \in Row /\ held[w] \in Tasks
          /\ Requeued(copy[w], when).status = "pending"
      BY <1>0, <2>7, RowRequeued DEF RequeueUpdate, TypeInv, TypeOK, HoldsTask
    <3> QED
      BY <1>0, <2>3, <2>7, <3>1, UpdateRow DEF RequeueUpdate, TypeInv, TypeOK
  <2>8. CASE FailUpdate(w)
    <3>1. held[w] \in Tasks /\ copy[w] \in Row
      BY <1>0, <2>8 DEF FailUpdate, TypeInv, TypeOK, HoldsTask
    <3>2. /\ \A u \in Tasks : u # held[w] => row'[u] = row[u]
          /\ \/ row'[held[w]].status = "failed" /\ faults' = faults
             \/ row'[held[w]] = row[held[w]] /\ faults' = faults + 1
      BY <1>0, <2>8, <3>1, UpdateStatus DEF FailUpdate, TypeInv, Statuses
    <3> QED
      BY <1>0, <2>2, <2>8, <3>1, <3>2 DEF FailUpdate, Executing, TypeInv, TypeOK
  <2>9. CASE MoveToDeadLetter(w)
    <3>1. held[w] \in Tasks /\ row[held[w]] \in Row
      BY <1>0, <2>9 DEF MoveToDeadLetter, TypeInv, TypeOK, HoldsTask
    <3>2. /\ \A u \in Tasks : u # held[w] => row'[u] = row[u]
          /\ \/ row'[held[w]].status = "dead_letter" /\ faults' = faults
             \/ row'[held[w]] = row[held[w]] /\ faults' = faults + 1
      BY <1>0, <2>9, <3>1, UpdateStatus DEF MoveToDeadLetter, TypeInv, Statuses
    <3> QED
      BY <1>0, <2>3, <2>9, <3>1, <3>2 DEF MoveToDeadLetter, Executing, TypeInv, TypeOK
  <2>10. CASE Release(w)
    BY <1>0, <2>3, <2>10 DEF Release, Executing, TypeInv, TypeOK
  <2> QED
    BY <1>5, <2>4, <2>5, <2>6, <2>7, <2>8, <2>9, <2>10 DEF HandleTask
<1>6. ASSUME NEW p \in Pools, CheckStuckTask(p)
      PROVE  Goal
  <2>1. PICK s \in stale[p] :
          /\ UNCHANGED <<row, faults>> \/ handleStuckTask(p, s)
          /\ UNCHANGED <<workerVars, processVars, attempts>>
    BY <1>6 DEF CheckStuckTask
  <2> s \in [task : Tasks, copy : Row]
    BY <1>0 DEF TypeInv, TypeOK
  <2>2. /\ faults' = 0 => faults = 0
        /\ \A u \in Tasks : row'[u] = row[u] \/ row'[u].status # "running"
    <3>1. CASE UNCHANGED <<row, faults>>
      BY <3>1
    <3>2. CASE Update(s.task, [s.copy EXCEPT !.status = "stuck"])
      <4>1. /\ \A u \in Tasks : u # s.task => row'[u] = row[u]
            /\ \/ row'[s.task].status = "stuck" /\ faults' = faults
               \/ row'[s.task] = row[s.task] /\ faults' = faults + 1
        BY <1>0, <3>2, UpdateStatus DEF TypeInv, Statuses
      <4> QED
        BY <1>0, <4>1 DEF TypeInv, TypeOK
    <3> QED
      BY <2>1, <3>1, <3>2 DEF handleStuckTask
  <2> QED
    BY <2>1, <2>2 DEF RunningIsHeld, NoOutageAllUp, Executing, workerVars, processVars
<1>7. ASSUME NEW p \in Pools, Stop(p) \/ Exit(p) \/ Crash(p)
      PROVE  Goal
  <2>1. outages' # 0
    BY <1>0, <1>7 DEF Stop, Exit, Crash, NoOutageAllUp, TypeInv, TypeOK
  <2> QED
    BY <2>1 DEF RunningIsHeld, NoOutageAllUp
<1>8. ASSUME NEW p \in Pools, Restart(p)
      PROVE  Goal
  BY <1>0, <1>8 DEF Restart, RunningIsHeld, NoOutageAllUp, Executing, TypeInv, TypeOK,
                    workerVars
<1>9. ASSUME UNCHANGED <<row, pc, held, faults, outages, pool>>
      PROVE  Goal
  BY <1>9 DEF RunningIsHeld, NoOutageAllUp, Executing
<1>10. ASSUME NEW p \in Pools,
              checkForStuckTasks(p) \/ \E type \in TaskTypes : RegisterExecutor(p, type)
       PROVE  Goal
  BY <1>9, <1>10 DEF checkForStuckTasks, RegisterExecutor, workerVars, processVars
<1>11. CASE UNCHANGED vars
  BY <1>9, <1>11 DEF vars
<1> QED
  BY <1>0, <1>1, <1>2, <1>3, <1>4, <1>5, <1>6, <1>7, <1>8, <1>10, <1>11, TouchSteps DEF Next

(***************************************************************************)
(* As long as no repository call fails and no process goes away, a running *)
(* row is held by the worker it names, whatever executors and the stuck    *)
(* detector do; nobody enqueues a task as running.                         *)
(***************************************************************************)
THEOREM RunningHeld ==
  ASSUME "running" \notin EnqueueStatuses
  PROVE  Spec => []RunningIsHeld
<1>1. HeldInv /\ [Next]_vars => HeldInv'
  BY HeldInvNext
<1> QED
  BY HeldInvInit, <1>1, PTL DEF Spec, HeldInv
-----------------------------------------------------------------------------
(***************************************************************************)
(* Retries in a pool without a stuck detector: how often a task is         *)
(* attempted, when it is given up, and what a late write can do to its     *)
(* row. With a stuck detector none of these hold: its late writes, which   *)
(* StuckOverwrites shows, restore old values of every field.               *)
(***************************************************************************)

\* The hypotheses of what follows: no detector, and tasks enter as pending.
PlainPool ==
  /\ StuckDetection = "off"
  /\ EnqueueStatuses \subseteq {"unset", "pending"}

\* Nobody keeps listed copies of rows.
NothingListed == \A p \in Pools : stale[p] = {}

\* What the columns of a row say about the attempts made so far.
AttemptsCounted ==
  \A t \in Tasks :
    /\ row[t].retry <= MaxRetries[t]
    /\ attempts[t] <= row[t].retry + 1
    /\ row[t].status = "absent" => row[t].retry = 0 /\ row[t].ckpt = "none"
    /\ row[t].status \in {"absent", "pending"} => attempts[t] = row[t].retry
    /\ row[t].status \in {"failed", "dead_letter"} => attempts[t] = MaxRetries[t] + 1

\* The row of a task that is being executed agrees with its worker's copy,
\* and has changed its status only for a worker that gives the task up.
WorkerAgrees ==
  \A w \in Workers : Executing(w) =>
    /\ attempts[held[w]] = row[held[w]].retry + 1
    /\ copy[w].retry = row[held[w]].retry
    /\ pc[w] # "dead" => row[held[w]].status = "running"
    /\ pc[w] = "dead" => /\ row[held[w]].status \in {"running", "failed"}
                         /\ row[held[w]].retry = MaxRetries[held[w]]
    /\ pc[w] = "requeue" => /\ copy[w].ckpt = row[held[w]].ckpt
                            /\ row[held[w]].retry < MaxRetries[held[w]]

RetryInv == ExclInv /\ NothingListed /\ AttemptsCounted /\ WorkerAgrees

USE ConstantsAssumption

\* Init establishes the invariant: nothing has been attempted.
LEMMA RetryInvInit == Init => RetryInv
<1>1. NoRow.status = "absent" /\ NoRow.retry = 0 /\ NoRow.ckpt = "none"
  BY DEF NoRow
<1> QED
  BY <1>1, ExclInvInit
     DEF Init, RetryInv, NothingListed, AttemptsCounted, WorkerAgrees, Executing

\* Every step preserves it, and changes no terminal row and loses no
\* checkpoint: the only late write left is the requeue, of a row that its
\* worker has read after the executor returned.
LEMMA RetryInvNext ==
  ASSUME PlainPool, RetryInv, [Next]_vars
  PROVE  RetryInv' /\ [KeepsTerminal]_vars /\ [KeepsCheckpoint]_vars
<1> USE DEF RetryInv
<1> ExclInv'
  BY ExclInvNext
<1>0. TypeInv /\ TypeInv' /\ ExecutingNotClaimable /\ ExclusiveExecution
  BY DEF ExclInv
<1>t. ASSUME NEW t \in Tasks
      PROVE  /\ row[t].retry \in Nat /\ row'[t].retry \in Nat /\ attempts[t] \in Nat
             /\ MaxRetries[t] \in Nat /\ row[t] \in Row
  <2>1. row[t] \in Row /\ row'[t] \in Row /\ attempts[t] \in Nat
    BY <1>0 DEF TypeInv, TypeOK
  <2> QED
    BY <2>1 DEF Row
<1> DEFINE Goal == /\ NothingListed' /\ AttemptsCounted' /\ WorkerAgrees'
                   /\ KeepsTerminal /\ KeepsCheckpoint
\* Nothing that the invariant speaks of changes.
<1>f. ASSUME UNCHANGED <<row, pc, held, copy, stale, attempts>>
      PROVE  Goal
  BY <1>f DEF NothingListed, AttemptsCounted, WorkerAgrees, Executing,
              KeepsTerminal, KeepsCheckpoint
<1>1. ASSUME NEW t \in Tasks, NEW s \in EnqueueStatuses, NEW when \in {"due", "delayed"},
             Enqueue(t, s, when)
      PROVE  Goal
  <2>1. /\ row[t].status = "absent"
        /\ \A u \in Tasks : u # t => row'[u] = row[u]
        /\ \/ row'[t].status = "pending" /\ row'[t].retry = 0
           \/ row'[t] = row[t]
    BY <1>0, <1>1, EnqueueRow DEF PlainPool, TypeInv
  <2>2. UNCHANGED <<pc, held, copy, stale, attempts>>
    BY <1>1 DEF Enqueue, workerVars
  <2>3. row[t].ckpt = "none" /\ row[t].retry = 0
    BY <2>1 DEF AttemptsCounted
  <2> QED
    BY <1>0, <1>t, <2>1, <2>2, <2>3
       DEF NothingListed, AttemptsCounted, WorkerAgrees, Executing,
           ExecutingNotClaimable, KeepsTerminal, KeepsCheckpoint, Terminal,
           TypeInv, HoldsTask
<1>2. CASE Touch
  <2>1. ASSUME NEW w \in Workers, Executing(w), pc[w] = "requeue"
        PROVE  row'[held[w]].ckpt = row[held[w]].ckpt
    BY <1>0, <1>2, <2>1 DEF Touch, ExclusiveExecution, Executing, TypeInv, HoldsTask
  <2> QED
    BY <1>0, <1>2, <2>1
       DEF Touch, NothingListed, AttemptsCounted, WorkerAgrees, Executing,
           KeepsTerminal, KeepsCheckpoint, TypeInv, HoldsTask
<1>3. ASSUME NEW w \in Workers, NEW t \in Tasks, Dequeue(w, t)
      PROVE  Goal
  <2>1. /\ row[t].status = "pending"
        /\ \A u \in Tasks : u # t => row'[u] = row[u]
        /\ row'[t].status = "running" /\ row'[t].retry = row[t].retry
        /\ row'[t].ckpt = row[t].ckpt
        /\ copy'[w] = row'[t]
    BY <1>0, <1>3, RowClaimed DEF Dequeue, Claimable, TypeInv, TypeOK
  <2>2. /\ pc'[w] \in {"exec", "errored"} /\ held'[w] = t /\ stale' = stale
        /\ \A v \in Workers : v # w => /\ pc'[v] = pc[v] /\ held'[v] = held[v]
                                       /\ copy'[v] = copy[v]
        /\ attempts'[t] = attempts[t] + 1
        /\ \A u \in Tasks : u # t => attempts'[u] = attempts[u]
    BY <1>0, <1>3 DEF Dequeue, FirstStep, TypeInv, TypeOK
  <2>3. \A v \in Workers : v # w /\ Executing(v) => held[v] # t
    BY <1>0, <2>1 DEF ExecutingNotClaimable
  <2>4. AttemptsCounted' /\ KeepsTerminal /\ KeepsCheckpoint /\ NothingListed'
    BY <1>t, <2>1, <2>2
       DEF AttemptsCounted, KeepsTerminal, KeepsCheckpoint, NothingListed, Terminal
  <2>5. WorkerAgrees'
    <3>1. ASSUME NEW v \in Workers, v # w, Executing(v)'
          PROVE  Executing(v) /\ held'[v] # t /\ held'[v] \in Tasks
      BY <1>0, <2>2, <2>3, <3>1 DEF Executing, TypeInv, HoldsTask
    <3> QED
      BY <1>t, <2>1, <2>2, <3>1 DEF AttemptsCounted, WorkerAgrees, Executing
  <2> QED
    BY <2>4, <2>5
<1>4. ASSUME NEW w \in Workers, NEW t \in Tasks, DequeueReplyLost(w, t)
      PROVE  Goal
  <2>1. /\ row[t].status = "pending"
        /\ \A u \in Tasks : u # t => row'[u] = row[u]
        /\ row'[t].status = "running" /\ row'[t].retry = row[t].retry
        /\ row'[t].ckpt = row[t].ckpt
    BY <1>0, <1>4, RowClaimed DEF DequeueReplyLost, Claimable, TypeInv, TypeOK
  <2>2. UNCHANGED <<pc, held, copy, stale, attempts>>
    BY <1>4 DEF DequeueReplyLost, workerVars
  <2> QED
    BY <1>0, <1>t, <2>1, <2>2
       DEF NothingListed, AttemptsCounted, WorkerAgrees, Executing,
           ExecutingNotClaimable, KeepsTerminal, KeepsCheckpoint, Terminal,
           TypeInv, HoldsTask
<1>5. ASSUME NEW w \in Workers, HandleTask(w)
      PROVE  Goal
  <2>1. /\ stale' = stale /\ attempts' = attempts
        /\ \A v \in Workers : v # w => /\ pc'[v] = pc[v] /\ held'[v] = held[v]
                                       /\ copy'[v] = copy[v]
    BY <1>0, <1>5
       DEF HandleTask, ExecuteReturns, handleTaskSuccess, RequeueGetByID, RequeueUpdate,
           FailUpdate, MoveToDeadLetter, Release, TypeInv, TypeOK
  <2> DEFINE t == held[w]
  \* The other workers execute other tasks.
  <2>2. ASSUME Executing(w), NEW v \in Workers, v # w, Executing(v)'
        PROVE  Executing(v) /\ held'[v] # t /\ held'[v] \in Tasks
    BY <1>0, <2>1, <2>2 DEF Executing, ExclusiveExecution, TypeInv, HoldsTask
  \* So it is enough to look at the one row and the one worker.
  <2>3. ASSUME Executing(w), t \in Tasks,
               \A u \in Tasks : u # t => row'[u] = row[u],
               row'[t].retry <= MaxRetries[t],
               attempts[t] <= row'[t].retry + 1,
               row'[t].status # "absent",
               row'[t].status = "pending" => attempts[t] = row'[t].retry,
               row'[t].status \in {"failed", "dead_letter"} => attempts[t] = MaxRetries[t] + 1,
               row[t].status \in Terminal =>
                 \/ row'[t].status = row[t].status
                 \/ row[t].status = "failed" /\ row'[t].status = "dead_letter",
               row[t].ckpt = "saved" /\ row'[t].status \in {"pending", "running"} =>
                 row'[t].ckpt = "saved",
               Executing(w)' =>
                 /\ held'[w] = t
                 /\ attempts[t] = row'[t].retry + 1
                 /\ copy'[w].retry = row'[t].retry
                 /\ pc'[w] # "dead" => row'[t].status = "running"
                 /\ pc'[w] = "dead" => /\ row'[t].status \in {"running", "failed"}
                                       /\ row'[t].retry = MaxRetries[t]
                 /\ pc'[w] = "requeue" => /\ copy'[w].ckpt = row'[t].ckpt
                                          /\ row'[t].retry < MaxRetries[t]
        PROVE  Goal
    <3>1. AttemptsCounted' /\ KeepsTerminal /\ KeepsCheckpoint /\ NothingListed'
      BY <2>1, <2>3 DEF AttemptsCounted, KeepsTerminal, KeepsCheckpoint, NothingListed
    <3>2. WorkerAgrees'
      BY <2>1, <2>2, <2>3 DEF WorkerAgrees, Executing
    <3> QED
      BY <3>1, <3>2
  \* What the invariant says of a worker that has claimed its task.
  <2>4. ASSUME Executing(w)
        PROVE  /\ t \in Tasks /\ row[t] \in Row /\ copy[w] \in Row
               /\ row[t].retry \in Nat /\ MaxRetries[t] \in Nat
               /\ row[t].retry <= MaxRetries[t]
               /\ attempts[t] = row[t].retry + 1
               /\ copy[w].retry = row[t].retry
               /\ pc[w] # "dead" => row[t].status = "running"
               /\ pc[w] = "dead" => /\ row[t].status \in {"running", "failed"}
                                    /\ row[t].retry = MaxRetries[t]
               /\ pc[w] = "requeue" => /\ copy[w].ckpt = row[t].ckpt
                                       /\ row[t].retry < MaxRetries[t]
    BY <1>0, <1>t, <2>4
       DEF AttemptsCounted, WorkerAgrees, Executing, TypeInv, TypeOK, HoldsTask
  <2>5. CASE ExecuteReturns(w)
    <3>1. Executing(w) /\ pc[w] # "dead" /\ pc'[w] \in {"succeeded", "errored"}
          /\ UNCHANGED <<row, held, copy>>
      BY <1>0, <2>5 DEF ExecuteReturns, Executing, TypeInv, TypeOK
    <3> QED
      BY <2>3, <2>4, <3>1 DEF Terminal
  <2>6. CASE handleTaskSuccess(w)
    <3>1. Executing(w) /\ pc[w] # "dead" /\ pc'[w] = "done"
      BY <1>0, <2>6 DEF handleTaskSuccess, Executing, TypeInv, TypeOK
    <3>2. /\ \A u \in Tasks : u # t => row'[u] = row[u]
          /\ row'[t].status = "completed" \/ row'[t] = row[t]
          /\ row'[t].retry = row[t].retry
      BY <1>0, <2>4, <2>6, <3>1, UpdateStatus DEF handleTaskSuccess, TypeInv, Statuses
    <3> QED
      BY <2>3, <2>4, <3>1, <3>2 DEF Executing, Terminal
  <2>7. CASE RequeueGetByID(w)
    <3>1. /\ Executing(w) /\ pc[w] # "dead" /\ row' = row /\ held' = held
          /\ \/ pc'[w] = "requeue" /\ copy'[w] = row[t]
             \/ pc'[w] = "done"
          /\ copy[w].retry < MaxRetries[t]
      BY <1>0, <2>7 DEF RequeueGetByID, CanRetry, Executing, TypeInv, TypeOK
    <3> QED
      BY <2>3, <2>4, <3>1 DEF Executing, Terminal
  <2>8. ASSUME NEW when \in {"due", "delayed"}, RequeueUpdate(w, when)
        PROVE  Goal
    <3>1. Executing(w) /\ pc[w] = "requeue" /\ pc'[w] = "done"
      BY <1>0, <2>8 DEF RequeueUpdate, Executing, TypeInv, TypeOK
    <3>2. /\ \A u \in Tasks : u # t => row'[u] = row[u]
          /\ \/ /\ row'[t].status = "pending" /\ row'[t].retry = row[t].retry + 1
                /\ row'[t].ckpt = row[t].ckpt
             \/ row'[t] = row[t]
      BY <1>0, <2>4, <2>8, <3>1, UpdateRow, RowRequeued DEF RequeueUpdate, TypeInv
    <3> QED
      BY <2>3, <2>4, <3>1, <3>2 DEF Executing, Terminal
  <2>9. CASE FailUpdate(w)
    <3>1. /\ Executing(w) /\ pc[w] # "dead" /\ pc'[w] = "dead"
          /\ held' = held /\ copy' = copy /\ ~(copy[w].retry < MaxRetries[t])
      BY <1>0, <2>9 DEF FailUpdate, CanRetry, Executing, TypeInv, TypeOK
    <3>2. /\ \A u \in Tasks : u # t => row'[u] = row[u]
          /\ row'[t].status = "failed" \/ row'[t] = row[t]
          /\ row'[t].retry = row[t].retry
      BY <1>0, <2>4, <2>9, <3>1, UpdateStatus DEF FailUpdate, TypeInv, Statuses
    <3> QED
      BY <2>3, <2>4, <3>1, <3>2 DEF Executing, Terminal
  <2>10. CASE MoveToDeadLetter(w)
    <3>1. Executing(w) /\ pc[w] = "dead" /\ pc'[w] = "done"
      BY <1>0, <2>10 DEF MoveToDeadLetter, Executing, TypeInv, TypeOK
    <3>2. /\ \A u \in Tasks : u # t => row'[u] = row[u]
          /\ row'[t].status = "dead_letter" \/ row'[t] = row[t]
          /\ row'[t].retry = row[t].retry
      BY <1>0, <2>4, <2>10, <3>1, UpdateStatus DEF MoveToDeadLetter, TypeInv, Statuses
    <3> QED
      BY <2>3, <2>4, <3>1, <3>2 DEF Executing, Terminal
  <2>11. CASE Release(w)
    <3>1. row' = row /\ pc'[w] = "poll"
      BY <1>0, <2>11 DEF Release, TypeInv, TypeOK
    <3> QED
      BY <2>1, <3>1 DEF NothingListed, AttemptsCounted, WorkerAgrees, Executing,
                        KeepsTerminal, KeepsCheckpoint
  <2> QED
    BY <1>5, <2>5, <2>6, <2>7, <2>8, <2>9, <2>10, <2>11 DEF HandleTask
<1>6. ASSUME NEW p \in Pools, checkForStuckTasks(p) \/ CheckStuckTask(p)
      PROVE  Goal
  BY <1>6 DEF checkForStuckTasks, CheckStuckTask, NothingListed, PlainPool
<1>7. ASSUME NEW p \in Pools, Terminate(p)
      PROVE  Goal
  <2>1. /\ row' = row /\ attempts' = attempts
        /\ \A q \in Pools : stale'[q] = {}
        /\ \A v \in Workers : \/ pc'[v] = "poll"
                              \/ pc'[v] = pc[v] /\ held'[v] = held[v] /\ copy'[v] = copy[v]
    BY <1>0, <1>7 DEF Terminate, NothingListed, TypeInv, TypeOK
  <2> QED
    BY <2>1 DEF NothingListed, AttemptsCounted, WorkerAgrees, Executing,
                KeepsTerminal, KeepsCheckpoint
<1>8. ASSUME NEW p \in Pools,
             \/ \E type \in TaskTypes : RegisterExecutor(p, type)
             \/ Stop(p) \/ Exit(p) \/ Crash(p) \/ Restart(p)
      PROVE  Goal
  BY <1>f, <1>7, <1>8 DEF RegisterExecutor, Stop, Exit, Crash, Restart, workerVars
<1>9. CASE UNCHANGED vars
  BY <1>f, <1>9 DEF vars
<1> QED
  BY <1>0, <1>1, <1>2, <1>3, <1>4, <1>5, <1>6, <1>8, <1>9, TouchSteps DEF Next

\* The invariant holds throughout.
LEMMA RetryInvHolds ==
  ASSUME PlainPool
  PROVE  Spec => []RetryInv
<1>1. RetryInv /\ [Next]_vars => RetryInv'
  BY RetryInvNext
<1> QED
  BY RetryInvInit, <1>1, PTL DEF Spec

(***************************************************************************)
(* A task is never claimed for execution more often than MaxRetries + 1    *)
(* times, over all workers and processes, crashes, lost replies and lost   *)
(* writes included.                                                        *)
(***************************************************************************)
THEOREM WithinBudget ==
  ASSUME PlainPool
  PROVE  Spec => []AttemptsWithinBudget
<1>1. RetryInv => AttemptsWithinBudget
  <2> SUFFICES ASSUME RetryInv, NEW t \in Tasks
               PROVE  attempts[t] <= MaxRetries[t] + 1
    BY DEF AttemptsWithinBudget
  <2>1. row[t] \in Row /\ attempts[t] \in Nat
    BY DEF RetryInv, ExclInv, TypeInv, TypeOK
  <2>2. row[t].retry \in Nat
    BY <2>1 DEF Row
  <2> QED
    BY <2>1, <2>2 DEF RetryInv, AttemptsCounted
<1> QED
  BY RetryInvHolds, <1>1, PTL

(***************************************************************************)
(* handleTaskError marks a task failed, and moves it to the dead letter    *)
(* queue, only after exactly MaxRetries + 1 attempts.                      *)
(***************************************************************************)
THEOREM GivenUpExhausted ==
  ASSUME PlainPool
  PROVE  Spec => []GivenUpOnlyWhenExhausted
<1>1. RetryInv => GivenUpOnlyWhenExhausted
  BY DEF RetryInv, AttemptsCounted, GivenUpOnlyWhenExhausted
<1> QED
  BY RetryInvHolds, <1>1, PTL

(***************************************************************************)
(* A terminal row is never overwritten by a late writer, except that       *)
(* MoveToDeadLetter follows the failed write of the same worker.           *)
(***************************************************************************)
THEOREM TerminalFinal ==
  ASSUME PlainPool
  PROVE  Spec => TerminalIsFinal
<1>1. RetryInv /\ [Next]_vars => [KeepsTerminal]_vars
  BY RetryInvNext
<1> QED
  BY RetryInvHolds, <1>1, PTL DEF Spec, TerminalIsFinal

(***************************************************************************)
(* A checkpoint reported in one attempt is in the row at the next: Requeue *)
(* writes back a row that was read after the executor had returned.        *)
(***************************************************************************)
THEOREM CheckpointSurvives ==
  ASSUME PlainPool
  PROVE  Spec => CheckpointSurvivesRetry
<1>1. RetryInv /\ [Next]_vars => [KeepsCheckpoint]_vars
  BY RetryInvNext
<1> QED
  BY RetryInvHolds, <1>1, PTL DEF Spec, CheckpointSurvivesRetry
-----------------------------------------------------------------------------
(* The pool implements the life cycle of TaskLifecycle. *)

\* The tasks somebody executes.
InExecution == {t \in Tasks : \E w \in Workers : Executing(w) /\ held[w] = t}

\* Every status but that of task t stays, and t gets status s.
OnlyStatus(t, s) ==
  /\ row'[t].status = s
  /\ \A u \in Tasks : u # t => row'[u].status = row[u].status

\* No retry count changes.
SameRetries == \A u \in Tasks : row'[u].retry = row[u].retry

SameStatuses == \A u \in Tasks : row'[u].status = row[u].status

\* The abstract status of one task changes when that of its row does.
LEMMA MapsBecomes ==
  ASSUME NEW t \in Tasks, NEW s, OnlyStatus(t, s)
  PROVE  Lifecycle!Becomes(t, s)
  BY DEF OnlyStatus, Lifecycle!Becomes

\* The abstract retry counts are those of the rows.
LEMMA MapsRetries ==
  ASSUME SameRetries
  PROVE  UNCHANGED [t \in Tasks |-> row[t].retry]
  BY DEF SameRetries

\* Nothing changes in the abstract but who is executing.
LEMMA MapsAbandon ==
  ASSUME SameStatuses, SameRetries, InExecution' \subseteq InExecution
  PROVE  Lifecycle!Next
<1>1. UNCHANGED [t \in Tasks |-> row[t].status]
  BY DEF SameStatuses
<1>2. Lifecycle!Abandon
  BY <1>1, MapsRetries DEF Lifecycle!Abandon, InExecution
<1> QED
  BY <1>2 DEF Lifecycle!Next

\* A worker that stops executing takes its own task, and no other, out of
\* execution.
LEMMA MapsWorker ==
  ASSUME NEW w \in Workers, Executing(w), held[w] \in Tasks, ExclusiveExecution,
         \A v \in Workers : v # w => pc'[v] = pc[v] /\ held'[v] = held[v]
  PROVE  /\ held[w] \in InExecution
         /\ ~Executing(w)' => InExecution' = InExecution \ {held[w]}
         /\ Executing(w)' /\ held'[w] = held[w] => InExecution' = InExecution
<1>1. held[w] \in InExecution
  BY DEF InExecution
<1>2. \A v \in Workers : v # w => (Executing(v)' <=> Executing(v)) /\ held'[v] = held[v]
  BY DEF Executing
<1>3. \A v \in Workers : v # w /\ Executing(v) => held[v] # held[w]
  BY DEF ExclusiveExecution
<1> QED
  BY <1>1, <1>2, <1>3 DEF InExecution

\* What a worker's handler does to the one row maps to a step of the task's
\* life.
LEMMA MapsHandler ==
  ASSUME RetryInv, NEW w \in Workers, NEW t, t = held[w], HandleTask(w)
  PROVE  [Lifecycle!Next]_(Lifecycle!vars)
<1>0. TypeInv /\ ExclusiveExecution
  BY DEF RetryInv, ExclInv
<1>1. \A v \in Workers : v # w => pc'[v] = pc[v] /\ held'[v] = held[v]
  BY <1>0
     DEF HandleTask, ExecuteReturns, handleTaskSuccess, RequeueGetByID, RequeueUpdate,
         FailUpdate, MoveToDeadLetter, Release, TypeInv, TypeOK
\* What the invariant says of a worker that has claimed its task.
<1>2. ASSUME Executing(w)
      PROVE  /\ t \in Tasks /\ row[t] \in Row /\ copy[w] \in Row
             /\ row[t].retry \in Nat /\ MaxRetries[t] \in Nat
             /\ row[t].retry <= MaxRetries[t]
             /\ copy[w].retry = row[t].retry
             /\ pc[w] # "dead" => row[t].status = "running"
             /\ pc[w] = "dead" => /\ row[t].status \in {"running", "failed"}
                                  /\ row[t].retry = MaxRetries[t]
             /\ pc[w] = "requeue" => row[t].retry < MaxRetries[t]
  <2>1. t \in Tasks /\ row[t] \in Row /\ copy[w] \in Row
    BY <1>0, <1>2 DEF Executing, TypeInv, TypeOK, HoldsTask
  <2>2. row[t].retry \in Nat /\ MaxRetries[t] \in Nat
    BY <2>1 DEF Row
  <2> QED
    BY <1>2, <2>1, <2>2 DEF RetryInv, AttemptsCounted, WorkerAgrees
<1>3. ASSUME Executing(w)
      PROVE  /\ t \in InExecution
             /\ ~Executing(w)' => InExecution' = InExecution \ {t}
             /\ Executing(w)' /\ held'[w] = t => InExecution' = InExecution
  BY <1>0, <1>1, <1>2, <1>3, MapsWorker
\* Nothing is written, and the worker goes on or gives up.
<1>4. ASSUME Executing(w), row' = row, ~Executing(w)' \/ held'[w] = t
      PROVE  Lifecycle!Next
  BY <1>3, <1>4, MapsAbandon DEF SameStatuses, SameRetries
\* The worker leaves after a write that did, or did not, get through.
<1>5. ASSUME Executing(w), ~Executing(w)', NEW s \in {"completed", "dead_letter"},
             s = "completed" => pc[w] # "dead", s = "dead_letter" => pc[w] = "dead",
             \A u \in Tasks : u # t => row'[u] = row[u],
             \/ row'[t].status = s /\ row'[t].retry = row[t].retry
             \/ row'[t] = row[t]
      PROVE  Lifecycle!Next
  <2>1. CASE row'[t] = row[t]
    BY <1>3, <1>5, <2>1, MapsAbandon DEF SameStatuses, SameRetries
  <2>2. CASE row'[t].status = s /\ row'[t].retry = row[t].retry
    <3>1. OnlyStatus(t, s) /\ SameRetries
      BY <1>5, <2>2 DEF OnlyStatus, SameRetries
    <3>2. Lifecycle!Becomes(t, s) /\ UNCHANGED [u \in Tasks |-> row[u].retry]
      BY <1>2, <1>5, <3>1, MapsBecomes, MapsRetries
    <3>3. Lifecycle!Leaves(t)
      BY <1>3, <1>5 DEF Lifecycle!Leaves, InExecution
    <3>4. s = "completed" => Lifecycle!Complete(t)
      BY <1>2, <1>5, <3>2, <3>3 DEF Lifecycle!Complete
    <3>5. s = "dead_letter" => Lifecycle!MoveToDeadLetter(t)
      BY <1>2, <1>5, <3>2, <3>3 DEF Lifecycle!MoveToDeadLetter
    <3> QED
      BY <1>2, <1>5, <3>4, <3>5 DEF Lifecycle!Next
  <2> QED
    BY <1>5, <2>1, <2>2
<1>6. CASE ExecuteReturns(w)
  <2>1. Executing(w) /\ row' = row /\ held'[w] = t
    BY <1>6 DEF ExecuteReturns, Executing
  <2> QED
    BY <1>4, <2>1
<1>7. CASE handleTaskSuccess(w)
  <2>1. Executing(w) /\ pc[w] # "dead" /\ ~Executing(w)'
    BY <1>0, <1>7 DEF handleTaskSuccess, Executing, TypeInv, TypeOK
  <2>2. /\ \A u \in Tasks : u # t => row'[u] = row[u]
        /\ \/ row'[t].status = "completed" /\ row'[t].retry = row[t].retry
           \/ row'[t] = row[t]
    BY <1>0, <1>2, <1>7, <2>1, UpdateStatus DEF handleTaskSuccess, TypeInv, Statuses
  <2> QED
    BY <1>5, <2>1, <2>2
<1>8. CASE RequeueGetByID(w)
  <2>1. Executing(w) /\ row' = row /\ held'[w] = t
    BY <1>8 DEF RequeueGetByID, Executing
  <2> QED
    BY <1>4, <2>1
<1>9. ASSUME NEW when \in {"due", "delayed"}, RequeueUpdate(w, when)
      PROVE  Lifecycle!Next
  <2>1. Executing(w) /\ pc[w] = "requeue" /\ ~Executing(w)'
    BY <1>0, <1>9 DEF RequeueUpdate, Executing, TypeInv, TypeOK
  <2>2. /\ \A u \in Tasks : u # t => row'[u] = row[u]
        /\ \/ row'[t].status = "pending" /\ row'[t].retry = row[t].retry + 1
           \/ row'[t] = row[t]
    BY <1>0, <1>2, <1>9, <2>1, UpdateRow, RowRequeued DEF RequeueUpdate, TypeInv
  <2>3. CASE row'[t] = row[t]
    BY <1>3, <2>1, <2>2, <2>3, MapsAbandon DEF SameStatuses, SameRetries
  <2>4. CASE row'[t].status = "pending" /\ row'[t].retry = row[t].retry + 1
    <3>1. OnlyStatus(t, "pending")
      BY <2>2, <2>4 DEF OnlyStatus
    <3>2. Lifecycle!Becomes(t, "pending")
      BY <1>2, <2>1, <3>1, MapsBecomes
    <3>3. Lifecycle!Leaves(t)
      BY <1>3, <2>1 DEF Lifecycle!Leaves, InExecution
    <3>4. Lifecycle!Requeue(t)
      BY <1>2, <2>1, <2>2, <2>4, <3>2, <3>3 DEF Lifecycle!Requeue
    <3> QED
      BY <1>2, <2>1, <3>4 DEF Lifecycle!Next
  <2> QED
    BY <2>2, <2>3, <2>4
<1>10. CASE FailUpdate(w)
  <2>1. /\ Executing(w) /\ pc[w] # "dead" /\ Executing(w)' /\ held'[w] = t
        /\ ~(copy[w].retry < MaxRetries[t])
    BY <1>0, <1>10 DEF FailUpdate, CanRetry, Executing, TypeInv, TypeOK
  <2>2. /\ \A u \in Tasks : u # t => row'[u] = row[u]
        /\ \/ row'[t].status = "failed" /\ row'[t].retry = row[t].retry
           \/ row'[t] = row[t]
    <3>1. TypeOK /\ t \in Tasks /\ copy[w] \in Row /\ copy[w].retry = row[t].retry
      BY <1>0, <1>2, <2>1 DEF TypeInv
    <3>2. Update(t, [copy[w] EXCEPT !.status = "failed"])
      BY <1>10 DEF FailUpdate
    <3> QED
      BY <3>1, <3>2, UpdateStatus DEF Statuses
  <2>3. CASE row'[t] = row[t]
    BY <1>3, <2>1, <2>2, <2>3, MapsAbandon DEF SameStatuses, SameRetries
  <2>4. CASE row'[t].status = "failed" /\ row'[t].retry = row[t].retry
    <3>1. OnlyStatus(t, "failed") /\ SameRetries
      BY <2>2, <2>4 DEF OnlyStatus, SameRetries
    <3>2. Lifecycle!Becomes(t, "failed") /\ UNCHANGED [u \in Tasks |-> row[u].retry]
      BY <1>2, <2>1, <3>1, MapsBecomes, MapsRetries
    <3>3. t \in InExecution /\ UNCHANGED InExecution
      BY <1>3, <2>1
    <3>4. row[t].status = "running" /\ row[t].retry = MaxRetries[t]
      BY <1>2, <2>1
    <3>5. Lifecycle!Fail(t)
      BY <1>2, <2>1, <3>2, <3>3, <3>4 DEF Lifecycle!Fail, InExecution
    <3> QED
      BY <1>2, <2>1, <3>5 DEF Lifecycle!Next
  <2> QED
    BY <2>2, <2>3, <2>4
<1>11. CASE MoveToDeadLetter(w)
  <2>1. Executing(w) /\ pc[w] = "dead" /\ ~Executing(w)'
    BY <1>0, <1>11 DEF MoveToDeadLetter, Executing, TypeInv, TypeOK
  <2>2. /\ \A u \in Tasks : u # t => row'[u] = row[u]
        /\ \/ row'[t].status = "dead_letter" /\ row'[t].retry = row[t].retry
           \/ row'[t] = row[t]
    BY <1>0, <1>2, <1>11, <2>1, UpdateStatus DEF MoveToDeadLetter, TypeInv, Statuses
  <2> QED
    BY <1>5, <2>1, <2>2
<1>12. CASE Release(w)
  <2>1. row' = row /\ ~Executing(w) /\ ~Executing(w)'
    BY <1>0, <1>12 DEF Release, Executing, TypeInv, TypeOK
  <2>2. \A v \in Workers : Executing(v)' => Executing(v) /\ held'[v] = held[v]
    BY <1>1, <2>1 DEF Executing
  <2>3. InExecution' \subseteq InExecution
    BY <2>2 DEF InExecution
  <2> QED
    BY <2>1, <2>3, MapsAbandon DEF SameStatuses, SameRetries
<1> QED
  BY <1>6, <1>7, <1>8, <1>9, <1>10, <1>11, <1>12 DEF HandleTask

\* Every step of the pool maps to a step of the life cycle.
LEMMA MapsNext ==
  ASSUME PlainPool, RetryInv, [Next]_vars
  PROVE  [Lifecycle!Next]_(Lifecycle!vars)
<1>0. TypeInv /\ ExecutingNotClaimable /\ ExclusiveExecution
  BY DEF RetryInv, ExclInv
\* Nothing but who is executing changes.
<1>f. ASSUME SameStatuses, SameRetries,
             \A v \in Workers : Executing(v)' => Executing(v) /\ held'[v] = held[v]
      PROVE  Lifecycle!Next
  <2>1. InExecution' \subseteq InExecution
    BY <1>f DEF InExecution
  <2> QED
    BY <1>f, <2>1, MapsAbandon
<1>1. ASSUME NEW t \in Tasks, NEW s \in EnqueueStatuses, NEW when \in {"due", "delayed"},
             Enqueue(t, s, when)
      PROVE  Lifecycle!Next
  <2>1. /\ row[t].status = "absent"
        /\ \A u \in Tasks : u # t => row'[u] = row[u]
        /\ \/ row'[t].status = "pending" /\ row'[t].retry = 0
           \/ row'[t] = row[t]
    BY <1>0, <1>1, EnqueueRow DEF PlainPool, TypeInv
  <2>2. row[t].retry = 0
    BY <2>1 DEF RetryInv, AttemptsCounted
  <2>3. UNCHANGED <<pc, held>>
    BY <1>1 DEF Enqueue, workerVars
  <2>4. CASE row'[t] = row[t]
    BY <1>f, <2>1, <2>3, <2>4 DEF SameStatuses, SameRetries, Executing
  <2>5. CASE row'[t].status = "pending" /\ row'[t].retry = 0
    <3>1. OnlyStatus(t, "pending") /\ SameRetries
      BY <2>1, <2>2, <2>5 DEF OnlyStatus, SameRetries
    <3>2. UNCHANGED InExecution
      BY <2>3 DEF InExecution, Executing
    <3>3. Lifecycle!Enqueue(t)
      BY <2>1, <3>1, <3>2, MapsBecomes, MapsRetries DEF Lifecycle!Enqueue, InExecution
    <3> QED
      BY <3>3 DEF Lifecycle!Next
  <2> QED
    BY <2>1, <2>4, <2>5
<1>2. CASE Touch
  BY <1>2, <1>f DEF Touch, SameStatuses, SameRetries, Executing
\* A pending row is claimed, with or without its worker knowing.
<1>3. ASSUME NEW w \in Workers, NEW t \in Tasks, row[t].status = "pending",
             row' = [row EXCEPT ![t] = Claimed(t, w)],
             InExecution' \in {InExecution, InExecution \cup {t}}
      PROVE  Lifecycle!Next
  <2>1. /\ \A u \in Tasks : u # t => row'[u] = row[u]
        /\ row'[t].status = "running" /\ row'[t].retry = row[t].retry
    BY <1>0, <1>3, RowClaimed DEF TypeInv, TypeOK
  <2>2. OnlyStatus(t, "running") /\ SameRetries
    BY <2>1 DEF OnlyStatus, SameRetries
  <2>3. t \notin InExecution
    BY <1>0, <1>3 DEF InExecution, ExecutingNotClaimable
  <2>4. Lifecycle!Claim(t)
    BY <1>3, <2>2, <2>3, MapsBecomes, MapsRetries DEF Lifecycle!Claim, InExecution
  <2> QED
    BY <2>4 DEF Lifecycle!Next
<1>4. ASSUME NEW w \in Workers, NEW t \in Tasks, Dequeue(w, t)
      PROVE  Lifecycle!Next
  <2>1. row[t].status = "pending" /\ row' = [row EXCEPT ![t] = Claimed(t, w)]
    BY <1>4 DEF Dequeue, Claimable
  <2>2. /\ ~Executing(w) /\ Executing(w)' /\ held'[w] = t
        /\ \A v \in Workers : v # w => (Executing(v)' <=> Executing(v)) /\ held'[v] = held[v]
    BY <1>0, <1>4 DEF Dequeue, FirstStep, Executing, TypeInv, TypeOK
  <2>3. InExecution' = InExecution \cup {t}
    BY <2>2 DEF InExecution
  <2> QED
    BY <1>3, <2>1, <2>3
<1>5. ASSUME NEW w \in Workers, NEW t \in Tasks, DequeueReplyLost(w, t)
      PROVE  Lifecycle!Next
  <2>1. row[t].status = "pending" /\ row' = [row EXCEPT ![t] = Claimed(t, w)]
    BY <1>5 DEF DequeueReplyLost, Claimable
  <2>2. UNCHANGED InExecution
    BY <1>5 DEF DequeueReplyLost, workerVars, InExecution, Executing
  <2> QED
    BY <1>3, <2>1, <2>2
<1>6. ASSUME NEW p \in Pools, checkForStuckTasks(p) \/ CheckStuckTask(p)
      PROVE  Lifecycle!Next
  BY <1>6 DEF checkForStuckTasks, CheckStuckTask, RetryInv, NothingListed, PlainPool
<1>7. ASSUME NEW p \in Pools, Terminate(p)
      PROVE  Lifecycle!Next
  <2>1. /\ row' = row
        /\ \A v \in Workers : \/ pc'[v] = "poll"
                              \/ pc'[v] = pc[v] /\ held'[v] = held[v]
    BY <1>7 DEF Terminate
  <2> QED
    BY <1>f, <2>1 DEF SameStatuses, SameRetries, Executing
<1>8. ASSUME UNCHANGED <<row, pc, held>>
      PROVE  Lifecycle!Next
  BY <1>f, <1>8 DEF SameStatuses, SameRetries, Executing
<1>9. ASSUME NEW p \in Pools,
             \/ \E type \in TaskTypes : RegisterExecutor(p, type)
             \/ Stop(p) \/ Exit(p) \/ Crash(p) \/ Restart(p)
      PROVE  Lifecycle!Next
  BY <1>7, <1>8, <1>9 DEF RegisterExecutor, Stop, Exit, Crash, Restart, workerVars
<1>10. CASE UNCHANGED vars
  BY <1>8, <1>10 DEF vars
<1> QED
  BY <1>0, <1>1, <1>2, <1>4, <1>5, <1>6, <1>9, <1>10, TouchSteps, MapsHandler DEF Next

(***************************************************************************)
(* A pool without a stuck detector implements the life cycle of its tasks, *)
(* for any number of processes, workers and tasks and any crashes, lost    *)
(* replies and lost writes: a row moves only at the hands of the one       *)
(* worker that executes its task, and stays as it is once that is gone.    *)
(***************************************************************************)
THEOREM ImplementsTaskLifecycle ==
  ASSUME PlainPool
  PROVE  Spec => ImplementsLifecycle
<1>1. Init => Lifecycle!Init
  <2>1. NoRow.status = "absent" /\ NoRow.retry = 0
    BY DEF NoRow
  <2> QED
    BY <2>1 DEF Init, Lifecycle!Init, Executing
<1>2. RetryInv /\ [Next]_vars => [Lifecycle!Next]_(Lifecycle!vars)
  BY MapsNext
<1> QED
  BY <1>1, <1>2, RetryInvHolds, PTL DEF Spec, ImplementsLifecycle, Lifecycle!Spec
=============================================================================
