--------------------------- MODULE TaskExecution ---------------------------
(***************************************************************************)
(* The life of tasks in a PostgreSQL-backed deployment: the rows of the    *)
(* task repository, the workers that claim and execute them, the stuck     *)
(* detection loop and the heartbeat loop of every pool process, and the    *)
(* processes stopping, crashing and restarting around the rows.            *)
(*                                                                         *)
(* A step is one repository call together with the in-memory code around   *)
(* it, because that is what other goroutines and processes can observe:    *)
(* a worker and the stuck detector both keep a private COPY of the row and *)
(* write the whole copy back later (worker_pool.go, task_queue.go).        *)
(*                                                                         *)
(* The repository is an interface without an implementation in this        *)
(* module; it is modelled from its signatures and from how the pool and    *)
(* the queue use it: every call is atomic, Update replaces the whole row,  *)
(* Dequeue claims a pending row that is due, GetStaleTasks returns the     *)
(* running rows whose heartbeat is old, and a call may fail.               *)
(***************************************************************************)
EXTENDS Integers

CONSTANTS
  Tasks,            \* task identifiers
  Pools,            \* pool processes that share the repository
  Workers,          \* worker goroutines
  PoolOf,           \* the pool process a worker belongs to
  TaskTypes,        \* task types an executor can be registered for
  TypeOf,           \* the type of a task
  Endless,          \* tasks without heartbeat detection (Config.Endless)
  MaxRetries,       \* the MaxRetries field of a task
  EnqueueStatuses,  \* the Status values callers put in a task they enqueue
  StuckDetection,   \* "on", or "off" when the pool has no stuck detector
  NoWorker,         \* WorkerID = nil
  NoTask,           \* a worker without a current task
  MaxFaults,        \* bound: repository calls that may fail
  MaxOutages        \* bound: Stop calls and crashes

ASSUME ConstantsAssumption ==
  /\ PoolOf \in [Workers -> Pools]
  /\ TypeOf \in [Tasks -> TaskTypes]
  /\ Endless \subseteq Tasks
  /\ MaxRetries \in [Tasks -> Nat]
  /\ NoWorker \notin Workers
  /\ NoTask \notin Tasks
  /\ MaxFaults \in Nat
  /\ MaxOutages \in Nat

Statuses == {"pending", "running", "completed", "failed", "stuck", "dead_letter"}

\* isTerminalStatus, for the statuses this code writes.
Terminal == {"completed", "failed", "dead_letter"}

ASSUME EnqueueAssumption == EnqueueStatuses \subseteq (Statuses \cup {"unset"})

\* The columns that decide what happens to a task. "sched" says whether
\* ScheduledAt has passed; "beat" is the age of LastHeartbeat: none (NULL),
\* fresh, stale (older than the five minutes of GetStaleTasks) or expired
\* (older than every threshold of the stuck detector); "ckpt" says whether
\* CheckpointData holds what the executor last reported.
Row == [status : Statuses \cup {"absent"},
        worker : Workers \cup {NoWorker},
        retry  : Nat,
        sched  : {"due", "delayed"},
        beat   : {"none", "fresh", "stale", "expired"},
        ckpt   : {"none", "saved"}]

NoRow == [status |-> "absent", worker |-> NoWorker, retry |-> 0,
          sched |-> "due", beat |-> "none", ckpt |-> "none"]

VARIABLES
  row,        \* the repository: one row per task
  pool,       \* a process is up, stopping (context cancelled) or down
  executors,  \* the types registered with RegisterExecutor, per process
  pc,         \* where a worker is in workerLoop / executeTask
  held,       \* the task a worker has in its hands
  copy,       \* the worker's in-memory copy of that task
  stale,      \* what the stuck detector of a process still has to check
  faults,     \* repository calls that failed so far
  outages,    \* Stop calls and crashes so far
  attempts    \* history: how often a task was claimed for execution

vars == <<row, pool, executors, pc, held, copy, stale, faults, outages, attempts>>

\* poll: idle, asking the queue for work;  exec: inside executor.Execute;
\* succeeded, errored: Execute has returned;  requeue: Requeue has read the
\* row;  dead: the failed row is written, MoveToDeadLetter comes next;
\* done: last repository write made, status still busy.
WorkerSteps == {"poll", "exec", "succeeded", "errored", "requeue", "dead", "done"}

workerVars == <<pc, held, copy>>
processVars == <<pool, executors, outages>>

TypeOK ==
  /\ row \in [Tasks -> Row]
  /\ pool \in [Pools -> {"up", "stopping", "down"}]
  /\ executors \in [Pools -> SUBSET TaskTypes]
  /\ pc \in [Workers -> WorkerSteps]
  /\ held \in [Workers -> Tasks \cup {NoTask}]
  /\ copy \in [Workers -> Row]
  /\ stale \in [Pools -> SUBSET [task : Tasks, copy : Row]]
  /\ faults \in Nat
  /\ outages \in Nat
  /\ attempts \in [Tasks -> Nat]

Init ==
  /\ row = [t \in Tasks |-> NoRow]
  /\ pool = [p \in Pools |-> "up"]
  /\ executors = [p \in Pools |-> {}]
  /\ pc = [w \in Workers |-> "poll"]
  /\ held = [w \in Workers |-> NoTask]
  /\ copy = [w \in Workers |-> NoRow]
  /\ stale = [p \in Pools |-> {}]
  /\ faults = 0
  /\ outages = 0
  /\ attempts = [t \in Tasks |-> 0]
-----------------------------------------------------------------------------
(* The repository. *)

RepositoryFault == faults < MaxFaults /\ faults' = faults + 1

\* repository.Update: the whole row is replaced, or the call fails and the
\* caller only logs the error.
Update(t, r) ==
  \/ /\ row' = [row EXCEPT ![t] = r]
     /\ UNCHANGED faults
  \/ /\ RepositoryFault
     /\ UNCHANGED row

\* What repository.Dequeue makes of a row it claims for worker w.
Claimed(t, w) ==
  [row[t] EXCEPT !.status = "running", !.worker = w, !.beat = "fresh"]

\* Variant: the claim query does not look at the status.
ClaimableInAnyStatus(t) == row[t].status # "absent" /\ row[t].sched = "due"

Claimable(t) == row[t].status = "pending" /\ row[t].sched = "due"

\* repository.GetStaleTasks
StaleTasks ==
  {[task |-> t, copy |-> row[t]] :
     t \in {u \in Tasks : /\ row[u].status = "running"
                          /\ row[u].beat \in {"stale", "expired"}}}
-----------------------------------------------------------------------------
(* Producers and time. *)

\* PostgresTaskQueue.Enqueue: only an empty status is defaulted.
Enqueue(t, s, when) ==
  /\ row[t].status = "absent"
  /\ Update(t, [NoRow EXCEPT !.status = IF s = "unset" THEN "pending" ELSE s,
                             !.sched = when])
  /\ UNCHANGED <<workerVars, processVars, stale, attempts>>

\* ScheduledAt passes.
ScheduleDue(t) ==
  /\ row[t].status = "pending" /\ row[t].sched = "delayed"
  /\ row' = [row EXCEPT ![t].sched = "due"]
  /\ UNCHANGED <<workerVars, processVars, stale, faults, attempts>>

\* heartbeatMonitorLoop still sends heartbeats for what worker w holds.
Beating(w) == pc[w] # "poll" /\ pool[PoolOf[w]] = "up"

Older(beat) == IF beat = "fresh" THEN "stale" ELSE "expired"

\* LastHeartbeat grows old. A process that beats every ten seconds keeps a
\* row fresh, unless its UpdateHeartbeat calls fail for minutes on end.
HeartbeatAges(t) ==
  /\ row[t].status = "running" /\ row[t].beat \in {"fresh", "stale"}
  /\ row' = [row EXCEPT ![t].beat = Older(@)]
  /\ \/ /\ \A w \in Workers : held[w] = t => ~Beating(w)
        /\ UNCHANGED faults
     \/ RepositoryFault
  /\ UNCHANGED <<workerVars, processVars, stale, attempts>>
-----------------------------------------------------------------------------
(* A worker: workerLoop, executeTask and the handlers of its outcome. *)

\* Variant: without an executor executeTask just returns.
FirstStepReturning(w, t) == IF TypeOf[t] \in executors[PoolOf[w]] THEN "exec" ELSE "done"

\* executeTask looks up the executor; without one handleTaskError comes next.
FirstStep(w, t) == IF TypeOf[t] \in executors[PoolOf[w]] THEN "exec" ELSE "errored"

\* workerLoop takes a task from the queue and enters executeTask.
Dequeue(w, t) ==
  /\ pc[w] = "poll" /\ pool[PoolOf[w]] = "up"
  /\ Claimable(t)
  /\ row' = [row EXCEPT ![t] = Claimed(t, w)]
  /\ copy' = [copy EXCEPT ![w] = Claimed(t, w)]
  /\ held' = [held EXCEPT ![w] = t]
  /\ pc' = [pc EXCEPT ![w] = FirstStep(w, t)]
  /\ attempts' = [attempts EXCEPT ![t] = @ + 1]
  /\ UNCHANGED <<processVars, stale, faults>>

\* The claim is committed but its reply is lost: Dequeue returns an error
\* and workerLoop goes back to polling.
DequeueReplyLost(w, t) ==
  /\ pc[w] = "poll" /\ pool[PoolOf[w]] = "up"
  /\ Claimable(t)
  /\ RepositoryFault
  /\ row' = [row EXCEPT ![t] = Claimed(t, w)]
  /\ UNCHANGED <<workerVars, processVars, stale, attempts>>

\* executor.Execute returns nil, or an error of its own, a timeout or a
\* cancellation.
ExecuteReturns(w) ==
  /\ pc[w] = "exec"
  /\ \E outcome \in {"succeeded", "errored"} : pc' = [pc EXCEPT ![w] = outcome]
  /\ UNCHANGED <<row, held, copy, processVars, stale, faults, attempts>>

\* Variant: executeTask calls handleTaskError after handleTaskSuccess, too.
SuccessFallsThrough(w) ==
  /\ pc[w] = "succeeded"
  /\ Update(held[w], [copy[w] EXCEPT !.status = "completed"])
  /\ pc' = [pc EXCEPT ![w] = "errored"]
  /\ UNCHANGED <<held, copy, processVars, stale, attempts>>

handleTaskSuccess(w) ==
  /\ pc[w] = "succeeded"
  /\ Update(held[w], [copy[w] EXCEPT !.status = "completed"])
  /\ pc' = [pc EXCEPT ![w] = "done"]
  /\ UNCHANGED <<held, copy, processVars, stale, attempts>>

\* Variants: one retry too many, one too few.
CanRetryOnceMore(w) == copy[w].retry <= MaxRetries[held[w]]
CanRetryOnceLess(w) == copy[w].retry + 1 < MaxRetries[held[w]]

\* models.BackgroundTask.CanRetry, on the copy the worker claimed.
CanRetry(w) == copy[w].retry < MaxRetries[held[w]]

\* Variant: Requeue works on the copy the worker claimed.
RequeueWithoutRead(w) ==
  /\ pc[w] = "errored" /\ CanRetry(w)
  /\ pc' = [pc EXCEPT ![w] = "requeue"]
  /\ UNCHANGED <<row, held, copy, processVars, stale, faults, attempts>>

\* handleTaskError, retry branch: Requeue first reads the row ...
RequeueGetByID(w) ==
  /\ pc[w] = "errored" /\ CanRetry(w)
  /\ \/ /\ copy' = [copy EXCEPT ![w] = row[held[w]]]
        /\ pc' = [pc EXCEPT ![w] = "requeue"]
        /\ UNCHANGED faults
     \/ /\ RepositoryFault
        /\ pc' = [pc EXCEPT ![w] = "done"]
        /\ UNCHANGED copy
  /\ UNCHANGED <<row, held, processVars, stale, attempts>>

\* Variant: the retry counter is decremented.
RequeuedCountingDown(r, when) ==
  [r EXCEPT !.status = "pending", !.worker = NoWorker, !.retry = @ - 1,
            !.sched = when, !.beat = "none"]

\* ... and writes that back as pending, now or after RetryDelaySeconds.
Requeued(r, when) ==
  [r EXCEPT !.status = "pending", !.worker = NoWorker, !.retry = @ + 1,
            !.sched = when, !.beat = "none"]

RequeueUpdate(w, when) ==
  /\ pc[w] = "requeue"
  /\ Update(held[w], Requeued(copy[w], when))
  /\ pc' = [pc EXCEPT ![w] = "done"]
  /\ UNCHANGED <<held, copy, processVars, stale, attempts>>

\* handleTaskError, last branch: the failed copy is written ...
FailUpdate(w) ==
  /\ pc[w] = "errored" /\ ~CanRetry(w)
  /\ Update(held[w], [copy[w] EXCEPT !.status = "failed"])
  /\ pc' = [pc EXCEPT ![w] = "dead"]
  /\ UNCHANGED <<held, copy, processVars, stale, attempts>>

\* ... and the row is moved to the dead letter queue, whatever became of
\* the write before.
MoveToDeadLetter(w) ==
  /\ pc[w] = "dead"
  /\ Update(held[w], [row[held[w]] EXCEPT !.status = "dead_letter"])
  /\ pc' = [pc EXCEPT ![w] = "done"]
  /\ UNCHANGED <<held, copy, processVars, stale, attempts>>

\* executeTask returns: status idle, current task nil.
Release(w) ==
  /\ pc[w] = "done"
  /\ pc' = [pc EXCEPT ![w] = "poll"]
  /\ held' = [held EXCEPT ![w] = NoTask]
  /\ copy' = [copy EXCEPT ![w] = NoRow]
  /\ UNCHANGED <<row, processVars, stale, faults, attempts>>
-----------------------------------------------------------------------------
(* Heartbeats and stuck detection. *)

UpdateHeartbeat(w) ==
  /\ row' = [row EXCEPT ![held[w]].beat = "fresh"]
  /\ UNCHANGED <<workerVars, processVars, stale, faults, attempts>>

\* The heartbeat loop beats for every busy worker's current task, without
\* looking at the row.
updateHeartbeats(w) == Beating(w) /\ UpdateHeartbeat(w)

\* The executor reports its own heartbeat, also while the pool is stopping.
ReportHeartbeat(w) == pc[w] = "exec" /\ UpdateHeartbeat(w)

\* SaveCheckpoint changes the row only, not the copy of the worker.
ReportCheckpoint(w) ==
  /\ pc[w] = "exec"
  /\ row' = [row EXCEPT ![held[w]].ckpt = "saved"]
  /\ UNCHANGED <<workerVars, processVars, stale, faults, attempts>>

\* checkForStuckTasks takes a list of stale tasks ...
checkForStuckTasks(p) ==
  /\ StuckDetection = "on"
  /\ pool[p] = "up" /\ stale[p] = {} /\ StaleTasks # {}
  /\ stale' = [stale EXCEPT ![p] = StaleTasks]
  /\ UNCHANGED <<row, workerVars, processVars, faults, attempts>>

\* Variant: an old heartbeat alone is not enough.
IsStuckUncertain(s) == IF s.copy.beat = "expired" THEN BOOLEAN ELSE {FALSE}

\* The answers IsStuck can give for a listed copy: certainly yes once the
\* heartbeat is older than every threshold; otherwise it depends on the
\* type's own threshold, the deadline and the resource snapshots.
IsStuck(s) ==
  IF s.copy.beat = "expired" /\ s.task \notin Endless THEN {TRUE} ELSE BOOLEAN

\* Update is called with the pool's context and fails once that is cancelled.
handleStuckTask(p, s) ==
  \/ Update(s.task, [s.copy EXCEPT !.status = "stuck"])
  \/ pool[p] = "stopping" /\ UNCHANGED <<row, faults>>

\* ... and goes through it one by one.
CheckStuckTask(p) ==
  \E s \in stale[p] :
    /\ stale' = [stale EXCEPT ![p] = @ \ {s}]
    /\ \/ FALSE \in IsStuck(s) /\ UNCHANGED <<row, faults>>
       \/ TRUE \in IsStuck(s) /\ handleStuckTask(p, s)
    /\ UNCHANGED <<workerVars, processVars, attempts>>
-----------------------------------------------------------------------------
(* Processes. *)

RegisterExecutor(p, type) ==
  /\ pool[p] # "down" /\ type \notin executors[p]
  /\ executors' = [executors EXCEPT ![p] = @ \cup {type}]
  /\ UNCHANGED <<row, workerVars, pool, outages, stale, faults, attempts>>

\* Stop cancels the pool's context: nothing is claimed any more, the loops
\* end, and executors that honour their context return an error.
Stop(p) ==
  /\ pool[p] = "up" /\ outages < MaxOutages
  /\ pool' = [pool EXCEPT ![p] = "stopping"]
  /\ outages' = outages + 1
  /\ UNCHANGED <<row, executors, workerVars, stale, faults, attempts>>

\* The process ends and with it everything in its memory.
Terminate(p) ==
  /\ pool' = [pool EXCEPT ![p] = "down"]
  /\ executors' = [executors EXCEPT ![p] = {}]
  /\ stale' = [stale EXCEPT ![p] = {}]
  /\ pc' = [w \in Workers |-> IF PoolOf[w] = p THEN "poll" ELSE pc[w]]
  /\ held' = [w \in Workers |-> IF PoolOf[w] = p THEN NoTask ELSE held[w]]
  /\ copy' = [w \in Workers |-> IF PoolOf[w] = p THEN NoRow ELSE copy[w]]
  /\ UNCHANGED <<row, faults, attempts>>

\* After Stop has returned, gracefully or because its grace period is over.
Exit(p) == pool[p] = "stopping" /\ Terminate(p) /\ UNCHANGED outages

Crash(p) ==
  /\ pool[p] = "up" /\ outages < MaxOutages
  /\ outages' = outages + 1
  /\ Terminate(p)

\* A new process with a new pool; nothing in it looks at running rows.
Restart(p) ==
  /\ pool[p] = "down"
  /\ pool' = [pool EXCEPT ![p] = "up"]
  /\ UNCHANGED <<row, executors, outages, workerVars, stale, faults, attempts>>
-----------------------------------------------------------------------------
\* What a worker does once it has claimed a task.
HandleTask(w) ==
  \/ ExecuteReturns(w)
  \/ handleTaskSuccess(w)
  \/ RequeueGetByID(w)
  \/ \E when \in {"due", "delayed"} : RequeueUpdate(w, when)
  \/ FailUpdate(w)
  \/ MoveToDeadLetter(w)
  \/ Release(w)

Next ==
  \/ \E t \in Tasks : \/ \E s \in EnqueueStatuses, when \in {"due", "delayed"} :
                           Enqueue(t, s, when)
                      \/ ScheduleDue(t)
                      \/ HeartbeatAges(t)
  \/ \E w \in Workers : \/ \E t \in Tasks : \/ Dequeue(w, t)
                                            \/ DequeueReplyLost(w, t)
                        \/ HandleTask(w)
                        \/ updateHeartbeats(w)
                        \/ ReportHeartbeat(w)
                        \/ ReportCheckpoint(w)
  \/ \E p \in Pools : \/ \E type \in TaskTypes : RegisterExecutor(p, type)
                      \/ checkForStuckTasks(p)
                      \/ CheckStuckTask(p)
                      \/ Stop(p) \/ Exit(p) \/ Crash(p) \/ Restart(p)

Spec == Init /\ [][Next]_vars

(***************************************************************************)
(* Goroutines run, processes that went down are restarted, executors of    *)
(* tasks that are not endless return (their context has a timeout), time   *)
(* passes. Nobody has to enqueue, stop, crash or fail.                     *)
(***************************************************************************)
Fairness ==
  /\ \A t \in Tasks :
       /\ WF_vars(ScheduleDue(t))
       /\ WF_vars(HeartbeatAges(t) /\ UNCHANGED faults)
  /\ \A w \in Workers :
       /\ WF_vars(\E t \in Tasks : Dequeue(w, t))
       /\ WF_vars((held[w] \notin Endless \/ pc[w] # "exec") /\ HandleTask(w))
  /\ \A p \in Pools :
       /\ WF_vars(checkForStuckTasks(p)) /\ WF_vars(CheckStuckTask(p))
       /\ WF_vars(Exit(p)) /\ WF_vars(Restart(p))

FairSpec == Spec /\ Fairness
-----------------------------------------------------------------------------
(* Properties. *)

\* A worker that is between claiming a task and its last write of the row.
Executing(w) == pc[w] \notin {"poll", "done"}

(***************************************************************************)
(* Two workers, of one process or of two, never execute the same task at   *)
(* the same time: not when the stuck detector overwrites the row of a task *)
(* that is being executed with an old copy, not when a worker requeues a   *)
(* task it was declared stuck on, not after lost writes or a restart.      *)
(***************************************************************************)
ExclusiveExecution ==
  \A v, w \in Workers :
    v # w /\ Executing(v) /\ Executing(w) => held[v] # held[w]

(***************************************************************************)
(* While no repository call fails and no process is stopped, every running *)
(* row is in the hands of the worker it names: no path through executeTask *)
(* and its handlers lets go of a task without writing its outcome.         *)
(***************************************************************************)
RunningIsHeld ==
  faults = 0 /\ outages = 0 =>
    \A t \in Tasks : row[t].status = "running" =>
      \E w \in Workers : Executing(w) /\ held[w] = t /\ row[t].worker = w

(***************************************************************************)
(* A task is claimed for execution at most once more than it may be        *)
(* retried, over all workers, restarts and lost writes.                    *)
(***************************************************************************)
AttemptsWithinBudget ==
  \A t \in Tasks : attempts[t] <= MaxRetries[t] + 1

(***************************************************************************)
(* handleTaskError gives a task up (failed, then dead letter) only when    *)
(* every attempt it was entitled to has been made.                         *)
(***************************************************************************)
GivenUpOnlyWhenExhausted ==
  \A t \in Tasks : row[t].status \in {"failed", "dead_letter"} =>
    attempts[t] = MaxRetries[t] + 1

\* No row leaves a terminal status, but from failed to dead letter.
KeepsTerminal ==
  \A t \in Tasks : row[t].status \in Terminal =>
    \/ row'[t].status = row[t].status
    \/ row[t].status = "failed" /\ row'[t].status = "dead_letter"

(***************************************************************************)
(* The outcome WaitForCompletion reports to a caller is final: once a row  *)
(* has a terminal status no late writer (a requeue, an older copy) changes *)
(* it, except that a failed row still moves to the dead letter queue.      *)
(***************************************************************************)
TerminalIsFinal == [][KeepsTerminal]_vars

\* No row that can run, or runs, loses its checkpoint.
KeepsCheckpoint ==
  \A t \in Tasks : row[t].ckpt = "saved" /\ row'[t].status \in {"pending", "running"} =>
    row'[t].ckpt = "saved"

(***************************************************************************)
(* A checkpoint an executor has reported is there for the next attempt: a  *)
(* retry never puts back a copy of the row from before the report.         *)
(***************************************************************************)
CheckpointSurvivesRetry == [][KeepsCheckpoint]_vars

\* A row that has come to rest gets another status only as a failed row that
\* becomes a dead letter, as one the detector declares stuck, or, if it is
\* stuck, from the worker that executes the task all the same.
KeepsSettled ==
  \A t \in Tasks : row[t].status \in Terminal \cup {"stuck"} =>
    \/ row'[t].status \in {row[t].status, "stuck"}
    \/ row[t].status = "failed" /\ row'[t].status = "dead_letter"
    \/ row[t].status = "stuck" /\ \E w \in Workers : Executing(w) /\ held[w] = t

(***************************************************************************)
(* What is left of TerminalIsFinal when handleStuckTask writes back old    *)
(* copies: an outcome is replaced by "stuck" and by nothing else, and a    *)
(* stuck task moves on only through the worker that had claimed it before; *)
(* once that worker is gone nobody claims, requeues or finishes the task.  *)
(***************************************************************************)
SettledStays == [][KeepsSettled]_vars

\* The life of the tasks, as their rows and workers show it.
Lifecycle ==
  INSTANCE TaskLifecycle WITH
    status <- [t \in Tasks |-> row[t].status],
    retries <- [t \in Tasks |-> row[t].retry],
    executing <- {t \in Tasks : \E w \in Workers : Executing(w) /\ held[w] = t}

(***************************************************************************)
(* Without a stuck detector the pools implement the life cycle: whatever   *)
(* workers of several processes, lost replies, lost writes, crashes and    *)
(* restarts do, a row goes through it step by step, at the hands of the    *)
(* one worker that executes the task, and is never touched again once that *)
(* worker is gone.                                                         *)
(***************************************************************************)
ImplementsLifecycle == Lifecycle!Spec

(***************************************************************************)
(* Every task that is enqueued comes to rest: it is completed, given up,   *)
(* or declared stuck, in spite of lost replies, lost writes, and processes *)
(* that stop or crash with the task in their hands. An endless task has no *)
(* heartbeat check and may be orphaned for good.                           *)
(***************************************************************************)
EnqueuedTasksSettle ==
  \A t \in Tasks \ Endless :
    row[t].status \in {"pending", "running"}
      ~> row[t].status \in Terminal \cup {"stuck"}

(***************************************************************************)
(* docs/TASK_LIFECYCLE.md, "RUNNING -> STUCK": only a running task becomes *)
(* stuck.                                                                  *)
(***************************************************************************)
StuckOnlyFromRunning ==
  [][\A t \in Tasks : row'[t].status = "stuck" =>
       row[t].status \in {"running", "stuck"}]_vars
=============================================================================
