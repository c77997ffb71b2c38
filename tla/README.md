# TLA+ models of BackgroundTasks

This directory models the background-task library in `src/`: how tasks are
claimed, executed, retried and given up, what a caller that waits for them is
told, how the worker pool grows, shrinks and stops, how task events reach their
publisher and in which order, and how processes are monitored and found stuck.
TLC checks small instances, TLAPS proves every safety property the runs check
for all instances.

## The system

| Component | State | Operations | Talks to |
|---|---|---|---|
| Task repository (external, `interfaces.go`) | one row per task | Create, Update, GetByID, Dequeue, GetStaleTasks, UpdateHeartbeat, SaveCheckpoint, MoveToDeadLetter | everyone; shared by all processes |
| `PostgresTaskQueue` (`task_queue.go`) | depth cache | Enqueue, Dequeue, Requeue, MoveToDeadLetter, Peek, counts | repository |
| Task execution (`worker_pool.go`, `executeTask`, `handleTask*`) | the worker's copy of the task | execute, succeed, retry, give up | queue, repository, executors, notifier |
| Stuck detection and heartbeats (`worker_pool.go`) | the list of stale copies | checkForStuckTasks, handleStuckTask, updateHeartbeats | repository, stuck detector |
| `AdaptiveWorkerPool` life cycle (`worker_pool.go`) | `activeCount`, `workers`, `started`, the context, the wait group | Start, Stop, Scale, checkAndScale, spawnWorker, workerLoop | queue, resource monitor |
| `TaskEventPublisher` (`events.go`) | `publishCh`, `stopCh`, `enabled` | Publish, Start, Stop, SetEnabled | EventPublisher |
| Messaging adapter (`messaging_adapter.go`) | - | a delegate call, then Publish | queue, event publisher |
| `InMemoryTaskQueue` (`task_queue.go`) | `tasks`, `queue` | as the Postgres queue, plus sortQueue | - |
| `DefaultStuckDetector` (`stuck_detector.go`) | thresholds | IsStuck, AnalyzeTask, SetThreshold | - |
| `ProcessResourceMonitor` (`resource_monitor.go`) | monitors, snapshots | StartMonitoring, StopMonitoring | operating system |
| Task waiter (`worker_pool.go`) | - | WaitForCompletion, WaitForMultiple | repository |

What is hard to get right here:

- **Whole rows written from copies.** A worker and the stuck detector keep a
  copy of a row and write all of it back later. Between the read and the write
  other goroutines and other processes change the row.
- **Failure between two calls.** The claim, the outcome, `failed` and
  `dead_letter` are separate repository calls; errors are logged and ignored.
- **Crash and Stop with tasks in hand.** A new process does not look at what an
  old one left running; only heartbeat age does.
- **Check-then-act on a counter.** Start, Scale, checkAndScale and the idle timers
  decide by `activeCount` and change it later, with no common lock.
- **Shutdown.** A cancelled context, closed stop channels, a wait group and a
  grace period, against workers that are anywhere in their loop; two channels
  closed one after the other, against senders and a draining receiver.
- **Announcing after the fact.** The adapter publishes a change, and the queue
  invalidates its depth cache, after the row is written and can be seen: others
  run ahead of the announcement and of the invalidation.
- **Cleaning up by task id.** A deferred StopMonitoring comes after the task can
  be claimed again and stops whichever monitor the task has by then.

`PROJECT.json` lists these as hazards, each at its line.

## Modules

| Module | What it is |
|---|---|
| `TaskExecution` | rows, workers, stuck detection, heartbeats, processes |
| `MCTaskExecution`, `TaskDetector.cfg`, `StuckOverwrites.cfg` | its instances |
| `TaskLifecycle` | the life of a task, whoever executes it: what TaskExecution and MessagingQueue both implement |
| `TaskWaiter` | a caller of WaitForMultiple, composed with TaskExecution (EXTENDS) |
| `MCTaskWaiter`, `TaskBudget.cfg` | its instance |
| `TaskExecutionProofs`, `TaskWaiterProofs` | the theorems of both, the refinement of TaskLifecycle among them |
| `WorkerPool` | life cycle and scaling of one pool |
| `MCWorkerPool`, `PoolSafety.cfg`, `PoolStops.cfg`, `PoolRecovery.cfg` | its instances |
| `WorkerPoolProofs` | its theorems |
| `EventPublisher`, `EventDelivery.cfg` | the event publisher and its instance |
| `EventPublisherProofs` | its theorems |
| `PriorityQueue` | what a task queue promises |
| `InMemoryQueue` | the in-memory queue, which implements it |
| `MCInMemoryQueue`, `MemoryQueue.cfg`, `MemoryShares.cfg` | its instances |
| `InMemoryQueueProofs` | its theorems, the refinement among them |
| `MessagingQueue`, `Messaging.cfg`, `RetryEvent.cfg` | the messaging adapter and the queue-depth cache, composed with EventPublisher (INSTANCE), and their instances |
| `MessagingQueueProofs` | its theorems about rows and cache, and the refinement of TaskLifecycle |
| `MessagingOrderProofs` | its theorems about events |
| `StuckDetector` | IsStuck and its heuristics, as operators |
| `ResourceMonitor` | the monitors of tasks, and what the detector concludes from their snapshots |
| `MCResourceMonitor`, `Monitoring.cfg` | its instance |
| `ResourceMonitorProofs` | its theorems |

Operators marked "Variant" are plausible mistakes in the definition that
follows them. They are not part of any specification; `PROJECT.json` pairs each
with the property that catches it.

### TaskExecution

A step is one repository call with the in-memory code around it.

| State | Code |
|---|---|
| `row` | the task table: status, WorkerID, RetryCount, whether ScheduledAt has passed, the age of LastHeartbeat, whether CheckpointData holds the last report |
| `pc`, `held`, `copy` | a worker in `workerLoop`/`executeTask`, its current task, its `*BackgroundTask` |
| `stale` | what `checkForStuckTasks` of a process has listed and not yet checked |
| `pool`, `executors` | the process and its executor map |
| `faults`, `outages` | bounds on failing calls, stops and crashes |
| `attempts` | history: claims per task |

The repository is an interface whose implementation is not in the repository.
It is modelled from its signatures and use: calls are atomic, `Update` replaces
the row, `Dequeue` claims a pending row that is due, `GetStaleTasks` returns
running rows with an old heartbeat, every call may fail, and a claim may be
committed with its reply lost. (An outcome write whose reply is lost is a write
that succeeded: the code only logs the error.) Which due row is claimed is left
open, so priorities and resource limits do not restrict the behaviours.
Heartbeat age has three steps instead of a clock: fresh, stale (listed by
`GetStaleTasks`), expired (older than every threshold). A process that beats
every ten seconds keeps a row fresh unless its heartbeat calls fail.

`Enqueue` keeps a status the caller has set, as the code does; the runs use the
empty one (`"unset"`).

### TaskLifecycle

What `docs/TASK_LIFECYCLE.md` draws, as a specification: the status and the retry
count of every task, and the set of tasks somebody executes. There are no
workers, processes, copies or calls. A task is claimed when nobody executes it;
only its executor changes its row; a retry is counted; `failed` and `dead_letter`
come when no retry is left, `dead_letter` also over a row that never became
`failed`; and an executor may go away at any time and leave the row as it is.
Both models that have rows implement it (`ImplementsLifecycle`): TaskExecution,
detection off, with a worker between claim and last write as the executor, and
MessagingQueue, whose workers stop to publish at every turn. So the wrappers add
no behaviour that the pools do not have without them. Stuck detection is outside
the abstract life cycle because its late writes break it (`stuck_overwrites`);
`SettledStays` is what holds with detection on.

### WorkerPool

A step is what happens between two accesses to shared state. `loc` is where a
worker goroutine is, `step`/`left`/`fresh` where each of the goroutines is that
can spawn: the caller of Start and Stop ("control"), every caller of Scale
(`ScaleCallers`; Scale is exported and takes no lock, so any number of calls may
overlap, each acting on the counter it has read), and the scaling loop, of which
the scaling flag admits one pass at a time. Start and Stop calls come from one
goroutine, since `started` has no lock. A task is one of `pending`; what happens to its row is TaskExecution's
matter. System load may or may not permit scaling: `checkAndScale` may always
decline. Pauses are untimed: an idle timer may fire whenever its worker is at
the select.

### EventPublisher

A step is one channel operation, one read of `enabled`, or the return of one
`publisher.Publish`. `sent`, `done`, `direct` and `late` are histories. Sending
on or closing a closed channel sets `panicked`, after which nothing happens.
An error of the publisher is logged and the event is gone, as in the code, so
`done` does not distinguish success from error.

### TaskWaiter

Every step of TaskExecution, and between them the steps of one call of
WaitForMultiple in one of the processes: a goroutine per id of the list polls
the row, or its deadline passes, or the read fails; what it sends goes through a
buffered channel to the caller, which stores it by id. The call ends with its
process. A read that finds the task not finished changes nothing and is not a
step. The output of a completed task is always missing, as in the code.

### PriorityQueue and InMemoryQueue

`PriorityQueue` says what a claim may return, without a list: `waiting` is a
set, and a claim that asks for some limits takes the most urgent of the due tasks
within them, or comes back empty if there is none. The limits (`asked`) and the
result (`answer`) are part of its state, so the refinement shows for every claim
that the concrete one was made *with those limits* and returned what they allow;
a queue that ignored them would not implement it.

`InMemoryQueue` has the list, with the two loops of `sortQueue` as recursive
functions, and every method as one step, since each holds the lock throughout. The
refinement mapping (`INSTANCE PriorityQueue WITH waiting <- ..., asked <- ...`)
makes the pending tasks the waiting ones; that a task may be in the list twice, or
be there and not pending, does not show. The concrete `asked` is the reading and
the number of workers; `calculateWorkerRequirements` maps it to the limits: the
free cores and megabytes divided by the number of workers, where 0 means no limit
to Dequeue. How limits come about is no part of the queue's promise. That a worker
has sufficient resources for what it claims, as the documents say, is a property
of its own (`ClaimHasResources`), and false (`memory_shares`). Enqueue, Requeue
and MoveToDeadLetter may be called on any task at any time, as the code permits
(an operator requeues a dead letter, a worker requeues late). Two tasks may have
the same CreatedAt.

### MessagingQueue

The wrappers of the adapter around the PostgreSQL queue, the executors and the
progress reporter. A wrapper's first step changes the row; `todo` is what its
goroutine has left to do then: to invalidate the depth cache, and to publish an
event through `EventPublisher`, whose actions are used as they are. Events carry
what tells the state of a task: type, status and retry count. `retrying` and
`dead_letter` events are made from the row as it was before the change, and not
made when that read fails.

A call of the repository fails in one of two ways: nothing is written, or the
write is committed and the caller told otherwise (Create, Dequeue, the update of
Requeue, MoveToDeadLetter). In the second case the delegate returns its error
before it invalidates the cache, and the wrapper publishes nothing. What a failure
costs is booked where it happens: `unmade` are the turns a row took without an
event, `unwritten` those an event tells and no row took (an outcome is announced
before it is written), and `missed` marks the counts, cached or being read, that
nobody will invalidate. So no failure excuses more than itself.

A *turn* is a step of a task's life: task, type and the number of the attempt. The
history in `HistoryReconstructible` is one of turns: it does not say that an event
shows the row's new status, which for `retrying` the documents do and the code does
not (`RetryingShowsRequeue`, run `retry_event`).

All writers are in one process; the cache of another
process is not invalidated by them and is wrong until its TTL ends. Stuck
detection is off, so nobody but a task's worker writes its row and Requeue is one
step; TaskExecution has the other case. `premature`, `skipped` and `early` are
histories, which let `LifecycleOrder` say which events may come before their
cause and why.

`SetupMessagingForWorkerPool` does not use the pool it is given: executors are
wrapped only by a caller who does it. The model has all of them wrapped.

### StuckDetector and ResourceMonitor

`StuckDetector` has no state: `IsStuck` and what it calls, over a list of
snapshots. `ResourceMonitor` has the map of monitors, the loop goroutine of each
and the workers' StartMonitoring and deferred StopMonitoring around an
execution. Its readings become snapshots in the repository, and the two
properties about the detector are stated over the snapshot lists that come out:
from several monitors of one task, with readings that failed and stayed 0, with
a last sample of a loop that has been told to stop. Tickers fire without end: the
list slides over the newest `MaxSnapshots` (10 in the code), and what is bounded
is only what a process uses (`MaxUse`). The snapshots carry, beside
what the code has, what the process really did (`true`, `readable`).

A process counts as frozen when three of its newest five samples are idle, in any
order; `docs/ARCHITECTURE.md` speaks of consecutive ones.

## Runs

| Run | Bounds | Shows |
|---|---|---|
| `task_detector` | 1 task, 2 processes of one worker, 1 retry, 1 failing call, 2 stops or crashes, detection on | no double execution, no path drops a task, every task settles; an outcome gives way to `stuck` only, a stuck row to its own worker only |
| `task_budget` | the same, detection off, and a caller that waits for the task, named twice in its list | the pools implement the abstract life cycle; exact retry budget, final outcomes, checkpoints kept; the caller is answered, for every id, and what it is told stays true |
| `stuck_overwrites` | 1 task, no failing call, 1 stop | a violation, see below |
| `pool_safety` | 4 workers, Min 0, Max 1, two callers of Scale, to 1 or 4, 3 pending, 1 start | exact counter; the overshoot is bounded by those who decide at once |
| `pool_stops` | 2 workers, Min = Max = 1, one caller of Scale, 3 pending, 2 starts | workers that are told to stop leave, no task after a graceful stop |
| `pool_recovery` | 2 workers, Min 1, Max 2, one caller of Scale, 3 pending | a violation, see below |
| `event_delivery` | 3 events, 2 callers, 2 loops, a buffer of 2 | flush on Stop, order, every accepted event published, none twice, Stop returns |
| `memory_queue` | 3 tasks of 2 priorities, a reading of the free resources or none, no or 2 workers, CreatedAt up to 1, 4 entries | the list is sorted, Peek and the counts agree on what is pending, and the queue implements the priority queue |
| `memory_shares` | the same | a violation, see below |
| `messaging` | 1 task, 2 workers, 1 retry, a buffer of 1, one failing call (nothing written, or its reply lost) or one switch of the publisher | the same abstract life cycle, every turn of it announced once, which events come out of order and why, what a failed call costs the history, when a cached depth is wrong |
| `retry_event` | the same, nothing fails | a violation, see below |
| `monitoring` | 1 task, 2 workers, 2 monitors, the newest 6 snapshots of any number; a process that does nothing, only writes, or works while its counters cannot be read, at most once each of the last two | monitors and goroutines agree, none is left behind, when an execution is unmonitored, what the detector concludes |

Why the bounds suffice. The task properties relate two workers, or a worker
and a detector, over one row: one task and two processes give every pair, one
retry gives a first, a middle and a last attempt, and one lost write plus two
outages let a crash follow a lost write of a second attempt. In `pool_safety`
the bound is 3: the two callers and the loop each bring one worker, and a fourth is
there to break it; three pending tasks are the least at which the scaling loop
acts on an empty pool. In `pool_stops` Scale and the scaling loop, or Scale and a
second Start, spawn beside a worker that is leaving. A buffer of 2 with three events
has an event meet an empty, a half-full and a full buffer, and order among the
buffered ones. Four entries for three tasks are the least that hold a task twice
beside both others; 1.9 free cores and 2 megabytes give, for no worker and for two, a
limit that excludes a task by its cores, one that excludes one by its memory, one
that divides to 0, and with no reading none. The caller's list names the
task twice because that is where results and entries differ in number. In
`messaging` a task goes through a first attempt, a retry and the dead letter
queue; two workers let the next claim overtake the announcement of the requeue,
and with a buffer of 1 the second event that comes is the one that finds it full.
In `monitoring` two executions overlap or follow one another, a list of six has one
more than the endless path looks at, and the kinds of reading come in every order.
The larger passing runs reach up to 3.6 million states.

The task runs, `event_delivery`, `messaging` and `monitoring` do not check for
deadlock: with every task settled, every event published or every snapshot taken
the system rests. The other runs check it.

**Fairness.** Weak fairness of single steps, never of a choice of outcome.
TaskExecution: due times and heartbeat ages pass, workers poll and handle what
they hold, an executor returns unless the task is endless (its context has a
timeout, 30 minutes by default), the detector loop runs, a stopping process
exits (`Stop` has a grace period) and a process that is down is restarted, as a
supervised deployment does. Nothing makes anyone enqueue, fail, stop or crash,
or report a heartbeat. WorkerPool: every goroutine keeps running and executors
return. EventPublisher: every goroutine keeps running and the publisher returns.
TaskWaiter: deadlines pass and the caller's goroutine runs; nothing is assumed of
the tasks. ResourceMonitor: a loop saves what it has sampled, and strong fairness
of its end: the select of a loop whose stop channel is closed is offered the end
again and again, between ticks, and Go's select chooses at random. The ticks have
no bound, so weak fairness would not do. `pool_recovery` alone also assumes that
the scaling loop acts whenever its conditions hold, the system's load included.

### What the violations show

- `stuck_overwrites`: `docs/TASK_LIFECYCLE.md` has tasks become stuck from
  running only. Process 1 stops while it executes a task and no longer beats;
  process 2 lists the stale row; the worker's context error requeues the task;
  process 2 writes its copy back as stuck. The retry is lost. The same happens to
  a task that has completed. The copy carries an old `retry_count`, too: when the task has been claimed
  again in between, the next Requeue counts from there, and a task is executed more
  than `max_retries + 1` times. `AttemptsWithinBudget` is therefore checked and
  proved for detection off only.
- `pool_recovery`: two workers' idle timers fire, both see a count above MinWorkers,
  both leave, and the pool does not come back to MinWorkers: with no worker left
  the scaling loop acts only at three or more pending tasks, and one waits for ever.
- `memory_shares`: two workers share 1.9 free cores; each share is 0 whole cores,
  Dequeue reads 0 as no limit, and a worker is given the task that needs 2 cores.
  `docs/TASK_LIFECYCLE.md` promises sufficient resources. `ResourcesSuffice` proves
  that this division is the only way.
- `retry_event`: the `retrying` event of the first retry carries status running and
  retry count 0, from the row read before the write; the event flow example of
  `docs/TASK_LIFECYCLE.md` shows pending and 1.

## Proofs

| Theorem | States | Assumes |
|---|---|---|
| `TaskExecutionProofs!TypeCorrect` | `TypeOK` | the constants' types |
| `TaskExecutionProofs!Exclusive` | `ExclusiveExecution` | the same; detection on or off |
| `TaskExecutionProofs!RunningHeld` | `RunningIsHeld` | nobody enqueues a task as running |
| `TaskExecutionProofs!WithinBudget` | `AttemptsWithinBudget` | no stuck detector; tasks are enqueued as pending |
| `TaskExecutionProofs!GivenUpExhausted` | `GivenUpOnlyWhenExhausted` | the same |
| `TaskExecutionProofs!TerminalFinal` | `TerminalIsFinal` | the same |
| `TaskExecutionProofs!CheckpointSurvives` | `CheckpointSurvivesRetry` | the same |
| `TaskExecutionProofs!SettledRows` | `SettledStays` | the constants' types; detection on or off |
| `TaskExecutionProofs!ImplementsTaskLifecycle` | `ImplementsLifecycle` | no stuck detector; tasks are enqueued as pending |
| `WorkerPoolProofs!TypeCorrect` | `TypeOK` | finitely many workers and callers of Scale |
| `WorkerPoolProofs!CounterIsExact` | `CounterExact` | the same |
| `WorkerPoolProofs!DrainedPoolIsIdle` | `NoTaskAfterGracefulStop` | the same |
| `WorkerPoolProofs!Overshoot` | `OvershootBound` | the same |
| `EventPublisherProofs!TypeCorrect` | `TypeOK` | the constants' types |
| `EventPublisherProofs!Flushed` | `StopFlushes` | the same |
| `EventPublisherProofs!Ordered` | `BufferedInOrder` | the same |
| `EventPublisherProofs!Once` | `HandedOverOnce` | the same |
| `TaskWaiterProofs!WaitTypeCorrect` | `WaitTypeOK` | the constants' types |
| `TaskWaiterProofs!OutcomeStands` | `ReportedOutcomeStands` | no stuck detector; tasks are enqueued as pending |
| `TaskWaiterProofs!ReturnedComplete` | `ReturnedIsComplete` | the constants' types; detection on or off |
| `InMemoryQueueProofs!SortQueueSorts` | what `sortQueue` computes | a list of tasks with ages |
| `InMemoryQueueProofs!AlwaysSorted` | `QueueIsSorted` | the constants' types |
| `InMemoryQueueProofs!CountsMatch` | `CountsMatchList` | the same |
| `InMemoryQueueProofs!Implements` | `ImplementsPriorityQueue` | the same |
| `InMemoryQueueProofs!SharesFit` | what the limits admit | a whole core and a megabyte free for each worker |
| `InMemoryQueueProofs!ResourcesSuffice` | `ClaimHasResources` | the same of every reading and number of workers |
| `MessagingQueueProofs!TypeCorrect` | `TypeOK` | the constants' types; Start is called once |
| `MessagingQueueProofs!DepthExplained` | `StaleDepthExplained` | the same |
| `MessagingQueueProofs!KeepsLifecycle` | `ImplementsLifecycle` | the same |
| `MessagingOrderProofs!EventsInOrder` | `LifecycleOrder` | the same |
| `MessagingOrderProofs!EventsMadeOnce` | `AnnouncedOnce` | the same |
| `MessagingOrderProofs!HistoryTold` | `HistoryReconstructible` | the same |
| `ResourceMonitorProofs!TypeCorrect` | `TypeOK` | the constants' types |
| `ResourceMonitorProofs!MapMatchesLoops` | `MonitorsMatchLoops` | the constants' types |
| `ResourceMonitorProofs!MonitorHasExecution` | `NoMonitorWithoutExecution` | the same |
| `ResourceMonitorProofs!UnmonitoredOverlaps` | `UnmonitoredOnlyAfterOverlap` | the same |
| `ResourceMonitorProofs!SilentFound` | `SilentIsStuck` | the same |
| `ResourceMonitorProofs!EndlessStricter` | `EndlessIsStricter` | the same |

They hold for any number of tasks, workers, processes, faults and outages, for
any number of events, callers and loops and any size of a buffer, and for lists of
ids, entries and snapshots of any length.

- *Exclusive.* Not inductive alone. `ExclInv` adds that a task some worker
  executes is neither absent nor pending (`ExecutingNotClaimable`): the stuck
  detector's late writes make rows stuck, never pending, and of the workers only
  the one that executes the task makes it pending, in its last write.
- *RunningHeld.* `HeldInv` adds to that: without outages every process is up
  (`NoOutageAllUp`), so every held row is kept fresh and none is listed as stale.
- *Retry theorems.* `RetryInv` relates row, copy and history. `AttemptsCounted`: a
  row that can be claimed has had as many attempts as its retry count says, any
  other row at most one more. `WorkerAgrees`: the row of a task that is being
  executed has the retry count of its worker's copy, is running unless the worker
  is giving it up, and has the copy's checkpoint once Requeue has read it.
  With a stuck detector they are false (see `stuck_overwrites`), hence the hypothesis.
- *SettledRows.* `SettledInv` is `ExclInv` and that the row of a task under
  execution is not at rest unless it is `stuck`, or `failed` on the way to the
  dead-letter queue (`ExecutingUnsettled`): so the last write of a worker never
  meets an outcome of somebody else. It needs no hypothesis on the detector.
- *ImplementsTaskLifecycle.* Step by step from `RetryInv`: what the worker's copy
  says (`WorkerAgrees`) is what the row says, so a write of the whole copy changes
  the status of one task only, from the status the abstract step asks for, and
  CanRetry of the copy decides as the row would. Heartbeats, checkpoints, failing
  calls and restarts are stuttering steps; a stop or a crash abandons the
  executions of its process.
- *TaskWaiter.* `TruthInv`: `RetryInv`, and every result the caller has *or that
  is still in the channel* names a terminal status the row still has, or `failed`
  when it has moved on to `dead_letter`. The waiter never writes a row, so the
  rest is that a terminal row stays one. `CompleteInv`: the goroutines that poll,
  the results in the channel and those received are together as many as ids, and
  every id is in one of the three places. It needs nothing of the pool.
- *WorkerPool.* `PoolInv`: the counter is the number of counted goroutines, a
  spawner that has inserted a worker is the only one to launch it, Stop has
  cancelled the context before it waits, and a drained pool has no context.
  `Overshoot` needs `GrowthInv`: the workers alive and the ones that spawners have
  decided on and not launched stay within the bound together. As the callers of
  Scale are a set of any size, what they owe is the cardinality of a set of pairs
  (`Debts`): a decision is made by a counter of at most all the others' shares, and
  adds at most its own.
- *EventPublisher.* `ChannelInv`: every event sent is published, held by a loop or
  in the buffer; a loop exits only when the channel is closed and empty, which it
  then stays; and Stop has waited for every loop started in time. `OrderInv`: with
  one loop, what was sent is what was published, then what the loop holds, then
  the buffer. `OnceInv`, for any number of loops: no event is in two of the places
  it passes through (a caller's hand, the buffer, a loop's hand, `done`, `direct`)
  or twice in one.
- *InMemoryQueue.* `SortQueueSorts` goes through the two loops: after step j of
  the inner loop, no entry up to j belongs before the i-th, and the first i - 1 are
  in place; after step i of the outer loop, no later entry belongs before one of
  the first i. Both are shown by induction on the counter, and so is that the
  recursive definitions define functions at all. The provers cannot be handed a
  predicate to do induction with, but they can be handed a set: `SetInduction`,
  from the well-foundedness of less-than. `QueueInv` then is: the list is sorted,
  every pending task has an entry, no task was created in the future. In the
  refinement, the tests of Dequeue are those of the limits it was called with
  (`Limits`), and the first candidate of a sorted list is one that no other precedes.
  `ResourcesSuffice` needs that the last answer is within the limits asked for
  (`AnswerFits`), and of the two integer divisions what `SharesFit` says.
- *MessagingQueue.* The composition uses the publisher's own invariants through
  an instance of its proof module: every step is a step of the publisher or leaves
  it alone. `DepthInv` says of the counts a GetQueueDepth has read what the
  property says of the cached ones, which they become; a step that changes what is
  pending leaves an invalidation to do or marks both. `LedgerTyped`: the turns
  booked as unmade and unwritten are together no more than the failed calls. `KeepsLifecycle` maps its
  steps to those of TaskLifecycle as above, from `LifeInv`: a worker goes to the
  dead-letter queue only with its retries used up.
- *EventsInOrder.* `EventInv` gives every event and every task a place on a line,
  three steps for every attempt. An event that has been made is behind its task
  (`Ranked`); when it is made, its cause has left the hands
  of its goroutine (`CauseGone`) unless the task was claimed early; what is sent
  is sent after its cause (`SentInOrder`), and the one loop keeps that order.
  `OwnAttempt` is why the cause is gone: of one attempt only its worker has events
  to publish, one at a time.
- *EventsMadeOnce.* From the same invariant: the task itself only goes forward,
  whatever fails, and every event but progress is made where the task is and leaves
  it behind. So a made event is not made again, is in one goroutine's hands at most
  and, while it is there, has been neither published nor swallowed (`OneHand`).
  The publisher's model lets an event be published once; this theorem is why that
  never keeps a wrapper from publishing.
- *HistoryTold.* The property speaks of a system at rest and cannot be inductive.
  `HistoryInv` speaks of any time: the turns of the events made (`Told`) are those of
  the rows (`Past`) without the unmade ones, the unwritten ones, and the outcomes
  announced and not yet written (`UnderWay`). Every wrapper step adds one turn to
  `Told`, moves one from `UnderWay` to `Past`, or books the difference.
- *ResourceMonitor.* `MapInv`: the map has a loop only for its own task, every
  loop that is not told to stop is in the map, and a task in the map has a worker
  that still has to stop it. `OverlapInv`: of two workers that hold one task at
  most one is in the execution, and if the other has its deferred call to make the
  overlap is on record. The two theorems about the detector rest on an invariant
  of the readings only, and are about lists of any length up to `MaxSnapshots`.

The assumptions on constants say: `NoTask`, `NoWorker`, `NoEvent` and `None` are
none of the values they stand beside; bounds are naturals; in MessagingQueue the
goroutine that enqueues is no worker, and there is at most one loop, since Start is
called once; in ResourceMonitor what a process does is measured in naturals.

Only model-checked are the liveness properties (`EnqueuedTasksSettle`,
`ToldWorkersLeave`, `AcceptedIsPublished`, `StopTerminates`,
`WaitMultipleReturns`, `StoppedLoopsExit`), since the prover reasons about neither
fairness nor ENABLED. The violations are counterexamples TLC finds.

## Not modelled

- Event-log entries, notifications, metrics, translations and log messages:
  nothing reads them back.
- Resource limits of a claim in TaskExecution (any due task may be claimed;
  `InMemoryQueue` has them), Peek and the counts of the PostgreSQL queue.
- Pausing, resuming and cancelling, in the pool and in the executor wrapper:
  declared and documented, called by no code in the library.
- `GetSystemResources` with its short-lived cache, `GetLatestSnapshot`, and
  `IsResourceAvailable`, which no code calls, although
  `docs/INTEGRATION_GUIDE.md` has workers pause by it. `calculateWorkerRequirements`
  takes any reading.
- `AnalyzeTask`, which describes the heuristics' numbers in words, and
  `SetThreshold`.
- Resource monitoring failures that the loop skips: a process that is gone, or a
  snapshot that cannot be saved, is a tick that does not come.
- Hung executors that ignore their context: fairness has every execution return.
- Events overtaken past a full buffer, and Publish during or after Stop: the model
  has both (`direct`, `panicked`), but no property says more than that the first is
  still handed over once; nothing in the documents promises more.
- The challenge runner and the scripts: a test harness.

## State of the project

Every invariant, action property and refinement that a passing run checks is also
a theorem (and so are the types of a WaitForMultiple call, which no run checks); the liveness properties are checked by TLC only. What could come next:

- The safety half of the liveness properties: in every reachable state in which
  an enqueued task is not settled, or an accepted event not published, the guard
  of some fair step for it holds. The guards can be written out without ENABLED;
  the step from there to liveness stays with TLC.
- A life cycle with `stuck` in it that TaskExecution implements with detection on.
  It would have to allow every status to become `stuck`, and a stuck row to come
  back, which is what the two violations show.
