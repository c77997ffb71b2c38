----------------------------- MODULE WorkerPool -----------------------------
(***************************************************************************)
(* How AdaptiveWorkerPool (worker_pool.go) grows, shrinks and stops: the   *)
(* counter activeCount, the map of workers and the goroutines themselves,  *)
(* changed by four kinds of goroutine that share no lock over a decision:  *)
(* the caller of Start and Stop, the callers of Scale, any number of them  *)
(* at once, the scaling loop, and every worker leaving on its own idle     *)
(* timer.                                                                  *)
(*                                                                         *)
(* A step is what happens between two accesses to shared state: inserting  *)
(* a worker in the map and launching it are two steps, and so are deciding *)
(* to leave, counting down and deleting the map entry. What a task does to *)
(* its row is in TaskExecution; here a task is one of "pending".           *)
(***************************************************************************)
EXTENDS Integers, FiniteSets

CONSTANTS
  Worker,       \* worker goroutines; one that is gone may be spawned afresh
  NoOne,        \* not a worker
  MinWorkers,   \* WorkerPoolConfig.MinWorkers
  MaxWorkers,   \* WorkerPoolConfig.MaxWorkers
  ScaleCallers, \* goroutines that call Scale, each as often as it likes
  Targets,      \* the arguments Scale is called with
  MaxPending,   \* bound: tasks waiting in the queue
  MaxStarts     \* bound: successful calls of Start

ASSUME PoolAssumption ==
  /\ IsFiniteSet(Worker)
  /\ NoOne \notin Worker
  /\ MinWorkers \in Nat
  /\ MaxWorkers \in Nat
  /\ IsFiniteSet(ScaleCallers)
  /\ ScaleCallers \cap {"control", "scaler"} = {}
  /\ Targets \subseteq Int
  /\ MaxPending \in Nat
  /\ MaxStarts \in Nat

\* Who spawns workers: the goroutine in Start or Stop, those in Scale, and
\* the scaling loop, which the scaling flag keeps to one pass at a time.
Spawners == {"control", "scaler"} \cup ScaleCallers

LoopNames == {"scaling", "stuckDetection", "heartbeatMonitor"}

\* unused: no such goroutine;  inserted: in the map, not launched;  loop: at
\* the select;  polling: in Dequeue;  sleep: in sleepOrCancel;  busy: in
\* executeTask;  leaving: workerLoop returns;  removing: counted down, still
\* in the map.
Locations ==
  {"unused", "inserted", "loop", "polling", "sleep", "busy", "leaving", "removing"}

VARIABLES
  activeCount,  \* the atomic counter
  workers,      \* the keys of the workers map
  loc,          \* where a worker goroutine is
  signalled,    \* workers whose stopChan is closed
  cancelled,    \* the pool's context
  started,      \* the started flag
  loops,        \* how many goroutines of each loop are alive
  step,         \* where a spawner is
  left,         \* how many workers it still has to spawn, or to signal
  fresh,        \* the worker it has inserted and not launched
  pending,      \* tasks in the queue
  starts,       \* how often Start got past its check
  drained       \* history: a Stop has returned within its grace period

vars == <<activeCount, workers, loc, signalled, cancelled, started, loops,
          step, left, fresh, pending, starts, drained>>

spawnVars == <<step, left, fresh>>
lifeVars == <<cancelled, started, loops, starts, drained>>

TypeOK ==
  /\ activeCount \in Int
  /\ workers \subseteq Worker
  /\ loc \in [Worker -> Locations]
  /\ signalled \subseteq Worker
  /\ cancelled \in BOOLEAN /\ started \in BOOLEAN /\ drained \in BOOLEAN
  /\ loops \in [LoopNames -> Nat]
  /\ step \in [Spawners -> {"idle", "spawning", "signalling", "waiting"}]
  /\ left \in [Spawners -> Nat]
  /\ fresh \in [Spawners -> Worker \cup {NoOne}]
  /\ pending \in Nat
  /\ starts \in Nat

Init ==
  /\ activeCount = 0
  /\ workers = {}
  /\ loc = [w \in Worker |-> "unused"]
  /\ signalled = {}
  /\ cancelled = FALSE /\ started = FALSE /\ drained = FALSE
  /\ loops = [l \in LoopNames |-> 0]
  /\ step = [s \in Spawners |-> "idle"]
  /\ left = [s \in Spawners |-> 0]
  /\ fresh = [s \in Spawners |-> NoOne]
  /\ pending = 0
  /\ starts = 0
-----------------------------------------------------------------------------
(* spawnWorker, in the goroutine of a spawner. *)

\* Spawner s sets out to spawn n workers.
Spawn(s, n) ==
  /\ step' = [step EXCEPT ![s] = "spawning"]
  /\ left' = [left EXCEPT ![s] = n]
  /\ UNCHANGED fresh

SpawnInsert(s, w) ==
  /\ step[s] = "spawning" /\ left[s] > 0 /\ fresh[s] = NoOne
  /\ loc[w] = "unused"
  /\ workers' = workers \cup {w}
  /\ loc' = [loc EXCEPT ![w] = "inserted"]
  /\ fresh' = [fresh EXCEPT ![s] = w]
  /\ UNCHANGED <<activeCount, signalled, step, left, pending, lifeVars>>

\* After the last one Scale or checkAndScale returns, and Start goes on.
SpawnLaunch(s) ==
  /\ fresh[s] # NoOne
  /\ activeCount' = activeCount + 1
  /\ loc' = [loc EXCEPT ![fresh[s]] = "loop"]
  /\ left' = [left EXCEPT ![s] = @ - 1]
  /\ fresh' = [fresh EXCEPT ![s] = NoOne]
  /\ step' = [step EXCEPT ![s] = IF left[s] = 1 /\ s # "control" THEN "idle" ELSE @]
  /\ UNCHANGED <<workers, signalled, pending, lifeVars>>
-----------------------------------------------------------------------------
(* Start and Stop. *)

Start ==
  /\ step["control"] = "idle" /\ ~started /\ starts < MaxStarts
  /\ Spawn("control", MinWorkers)
  /\ starts' = starts + 1
  /\ UNCHANGED <<activeCount, workers, loc, signalled, pending,
                 cancelled, started, loops, drained>>

\* The three loops are launched once the workers are.
StartLoops ==
  /\ step["control"] = "spawning" /\ left["control"] = 0
  /\ loops' = [l \in LoopNames |-> loops[l] + 1]
  /\ started' = TRUE
  /\ step' = [step EXCEPT !["control"] = "idle"]
  /\ UNCHANGED <<activeCount, workers, loc, signalled, left, fresh, pending,
                 cancelled, starts, drained>>

\* Stop does not ask whether the pool is started.
StopCancel ==
  /\ step["control"] = "idle"
  /\ cancelled' = TRUE
  /\ step' = [step EXCEPT !["control"] = "signalling"]
  /\ UNCHANGED <<activeCount, workers, loc, signalled, left, fresh, pending,
                 started, loops, starts, drained>>

StopSignal ==
  /\ step["control"] = "signalling"
  /\ signalled' = signalled \cup workers
  /\ step' = [step EXCEPT !["control"] = "waiting"]
  /\ UNCHANGED <<activeCount, workers, loc, left, fresh, pending, lifeVars>>

\* What wg.Wait waits for: launched workers that have not returned, and loops.
WaitGroupEmpty ==
  /\ \A w \in Worker : loc[w] \in {"unused", "inserted"}
  /\ \A l \in LoopNames : loops[l] = 0

\* Stop returns: gracefully, or because the grace period is over.
StopReturn(graceful) ==
  /\ step["control"] = "waiting"
  /\ graceful => WaitGroupEmpty
  /\ started' = FALSE
  /\ drained' = (drained \/ graceful)
  /\ step' = [step EXCEPT !["control"] = "idle"]
  /\ UNCHANGED <<activeCount, workers, loc, signalled, left, fresh, pending,
                 cancelled, loops, starts>>

\* A loop sees the cancelled context, the scaling loop not before
\* checkAndScale has returned.
LoopExit(l) ==
  /\ cancelled /\ loops[l] > 0
  /\ l = "scaling" => step["scaler"] = "idle"
  /\ loops' = [loops EXCEPT ![l] = @ - 1]
  /\ UNCHANGED <<activeCount, workers, loc, signalled, spawnVars, pending,
                 cancelled, started, starts, drained>>
-----------------------------------------------------------------------------
(* Scale and checkAndScale. *)

Lesser(a, b) == IF a < b THEN a ELSE b
Greater(a, b) == IF a > b THEN a ELSE b

\* Variant: the upper limit is not applied.
ClampedBelow(target) == Greater(target, MinWorkers)

Clamped(target) == Lesser(Greater(target, MinWorkers), MaxWorkers)

\* Variant: the number of workers to stop has the wrong sign.
ScaleWithoutNegation(c, target) ==
  LET diff == Clamped(target) - activeCount IN
  /\ step[c] = "idle" /\ diff # 0
  /\ \/ diff > 0 /\ Spawn(c, diff)
     \/ /\ diff < 0
        /\ step' = [step EXCEPT ![c] = "signalling"]
        /\ left' = [left EXCEPT ![c] = diff]
        /\ UNCHANGED fresh
  /\ UNCHANGED <<activeCount, workers, loc, signalled, pending, lifeVars>>

\* Scale reads the counter once and decides by it. It takes neither a lock
\* nor the scaling flag.
Scale(c, target) ==
  LET diff == Clamped(target) - activeCount IN
  /\ step[c] = "idle" /\ diff # 0
  /\ \/ diff > 0 /\ Spawn(c, diff)
     \/ /\ diff < 0
        /\ step' = [step EXCEPT ![c] = "signalling"]
        /\ left' = [left EXCEPT ![c] = -diff]
        /\ UNCHANGED fresh
  /\ UNCHANGED <<activeCount, workers, loc, signalled, pending, lifeVars>>

\* Workers whose status is idle, a status they keep until they are out of
\* the map, and whose stopChan is open.
Signallable == {w \in workers : loc[w] # "busy"} \ signalled

\* Under the lock, in the map's arbitrary order.
ScaleDown(c) ==
  /\ step[c] = "signalling"
  /\ \E S \in SUBSET Signallable :
       /\ Cardinality(S) = Lesser(left[c], Cardinality(Signallable))
       /\ signalled' = signalled \cup S
  /\ step' = [step EXCEPT ![c] = "idle"]
  /\ left' = [left EXCEPT ![c] = 0]
  /\ UNCHANGED <<activeCount, workers, loc, fresh, pending, lifeVars>>

\* How many workers checkAndScale adds at a queue pressure above 2.
WorkersToAdd ==
  Lesser(Lesser(MaxWorkers - activeCount, pending \div (activeCount + 1)), 3)

\* checkAndScale, when the system's load permits it; it may not.
checkAndScale ==
  /\ step["scaler"] = "idle" /\ loops["scaling"] > 0 /\ ~cancelled
  /\ pending > 2 * (activeCount + 1) /\ activeCount < MaxWorkers
  /\ Spawn("scaler", WorkersToAdd)
  /\ UNCHANGED <<activeCount, workers, loc, signalled, pending, lifeVars>>
-----------------------------------------------------------------------------
(* workerLoop. *)

Told(w) == cancelled \/ w \in signalled

Move(w, from, to) ==
  /\ loc[w] = from
  /\ loc' = [loc EXCEPT ![w] = to]

\* The select, or sleepOrCancel, finds the context or stopChan closed.
Return(w) ==
  /\ Told(w)
  /\ Move(w, "loop", "leaving") \/ Move(w, "sleep", "leaving")
  /\ UNCHANGED <<activeCount, workers, signalled, pending, lifeVars, spawnVars>>

canScaleDown == activeCount > MinWorkers

\* The idle timer fires; the worker leaves if the counter allows it. When
\* it does not, the timer is reset and nothing has changed.
IdleTimeout(w) ==
  /\ Told(w) \/ canScaleDown
  /\ Move(w, "loop", "leaving")
  /\ UNCHANGED <<activeCount, workers, signalled, pending, lifeVars, spawnVars>>

\* Variants: the worker looks at stopChan only, or at neither.
PollIgnoringContext(w) ==
  /\ w \notin signalled
  /\ Move(w, "loop", "polling")
  /\ UNCHANGED <<activeCount, workers, signalled, pending, lifeVars, spawnVars>>

PollAlways(w) ==
  /\ Move(w, "loop", "polling")
  /\ UNCHANGED <<activeCount, workers, signalled, pending, lifeVars, spawnVars>>

\* The default case, taken only when nothing else is ready.
Poll(w) ==
  /\ ~Told(w)
  /\ Move(w, "loop", "polling")
  /\ UNCHANGED <<activeCount, workers, signalled, pending, lifeVars, spawnVars>>

Dequeue(w) ==
  /\ pending > 0
  /\ Move(w, "polling", "busy")
  /\ pending' = pending - 1
  /\ UNCHANGED <<activeCount, workers, signalled, lifeVars, spawnVars>>

\* There is no task, or the call fails.
DequeueNothing(w) ==
  /\ Move(w, "polling", "sleep")
  /\ UNCHANGED <<activeCount, workers, signalled, pending, lifeVars, spawnVars>>

Wake(w) ==
  /\ Move(w, "sleep", "loop")
  /\ UNCHANGED <<activeCount, workers, signalled, pending, lifeVars, spawnVars>>

\* executeTask returns, and the status is idle again.
TaskDone(w) ==
  /\ Move(w, "busy", "loop")
  /\ UNCHANGED <<activeCount, workers, signalled, pending, lifeVars, spawnVars>>

\* Variant: only a worker that leaves on its idle timer is counted down.
CountDownWhenIdle(w) ==
  /\ Move(w, "leaving", "removing")
  /\ activeCount' = IF w \in signalled THEN activeCount ELSE activeCount - 1
  /\ UNCHANGED <<workers, signalled, pending, lifeVars, spawnVars>>

\* The deferred function: count down first ...
CountDown(w) ==
  /\ Move(w, "leaving", "removing")
  /\ activeCount' = activeCount - 1
  /\ UNCHANGED <<workers, signalled, pending, lifeVars, spawnVars>>

\* ... then leave the map; wg.Done comes last.
Remove(w) ==
  /\ Move(w, "removing", "unused")
  /\ workers' = workers \ {w}
  /\ signalled' = signalled \ {w}
  /\ UNCHANGED <<activeCount, pending, lifeVars, spawnVars>>

WorkerStep(w) ==
  \/ Return(w) \/ IdleTimeout(w) \/ Poll(w)
  \/ Dequeue(w) \/ DequeueNothing(w) \/ Wake(w) \/ TaskDone(w)
  \/ CountDown(w) \/ Remove(w)

\* A task is enqueued.
Arrive ==
  /\ pending < MaxPending
  /\ pending' = pending + 1
  /\ UNCHANGED <<activeCount, workers, loc, signalled, lifeVars, spawnVars>>

SpawnStep(s) ==
  \/ \E w \in Worker : SpawnInsert(s, w)
  \/ SpawnLaunch(s)

Next ==
  \/ Start \/ StartLoops
  \/ StopCancel \/ StopSignal \/ \E graceful \in BOOLEAN : StopReturn(graceful)
  \/ \E l \in LoopNames : LoopExit(l)
  \/ \E c \in ScaleCallers : ScaleDown(c) \/ \E target \in Targets : Scale(c, target)
  \/ checkAndScale
  \/ \E s \in Spawners : SpawnStep(s)
  \/ \E w \in Worker : WorkerStep(w)
  \/ Arrive

Spec == Init /\ [][Next]_vars

(***************************************************************************)
(* Goroutines run, and executors return. Nobody has to call Start, Stop or *)
(* Scale, and no task has to arrive.                                       *)
(***************************************************************************)
Fairness ==
  /\ \A w \in Worker : WF_vars(WorkerStep(w))
  /\ \A s \in Spawners : WF_vars(SpawnStep(s))
  /\ \A l \in LoopNames : WF_vars(LoopExit(l))
  /\ \A c \in ScaleCallers : WF_vars(ScaleDown(c))
  /\ WF_vars(StartLoops) /\ WF_vars(StopSignal)

FairSpec == Spec /\ Fairness

\* The scaling loop's ticker fires too, and the system's load permits scaling.
ScalingSpec == FairSpec /\ WF_vars(checkAndScale)
-----------------------------------------------------------------------------
(* Properties. *)

\* Goroutines the counter stands for.
Counted == {w \in Worker : loc[w] \in {"loop", "polling", "sleep", "busy", "leaving"}}

(***************************************************************************)
(* The counter every scaling decision reads is exact: it is the number of  *)
(* worker goroutines that have been launched and have not counted down,    *)
(* however spawns and departures interleave; and the map holds just the    *)
(* workers that are somewhere between spawnWorker and their last step.     *)
(***************************************************************************)
CounterExact ==
  /\ activeCount = Cardinality(Counted)
  /\ workers = {w \in Worker : loc[w] # "unused"}

(***************************************************************************)
(* What holds instead of the "Maximum workers allowed" that                *)
(* docs/ARCHITECTURE.md says MaxWorkers is: every goroutine that is in     *)
(* Scale, and a pass of checkAndScale, can bring MaxWorkers of its own,    *)
(* and Start adds MinWorkers without looking. The callers of Scale are not *)
(* limited by the pool, so neither is the bound; but one caller that calls *)
(* it again and again adds nothing.                                        *)
(***************************************************************************)
OvershootBound ==
  activeCount <= (Cardinality(ScaleCallers) + 1) * MaxWorkers + MinWorkers * starts

(***************************************************************************)
(* Once Stop has returned within its grace period no worker takes or runs  *)
(* a task any more, whatever Scale, a late scaling pass or another Start   *)
(* still spawns.                                                           *)
(***************************************************************************)
NoTaskAfterGracefulStop ==
  drained => \A w \in Worker : loc[w] \notin {"polling", "busy"}

(***************************************************************************)
(* A worker that Scale or Stop tells to stop does leave, also when it was  *)
(* told between its select and its Dequeue, or during a task.              *)
(***************************************************************************)
ToldWorkersLeave ==
  \A w \in Worker : Told(w) /\ loc[w] # "unused" ~> loc[w] = "unused"

(***************************************************************************)
(* docs/ARCHITECTURE.md, MinWorkers: "Minimum workers maintained". Idle    *)
(* workers that leave together break it at once; this says that it is kept *)
(* at least in the end: a pool that is below MinWorkers comes back to it,  *)
(* or is stopped. Only a scaling pass could do it without being called,    *)
(* and what the load permits is granted.                                   *)
(***************************************************************************)
MinWorkersRestored ==
  started /\ ~cancelled /\ activeCount < MinWorkers ~> activeCount >= MinWorkers \/ cancelled
=============================================================================
