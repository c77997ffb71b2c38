-------------------------- MODULE WorkerPoolProofs --------------------------
(***************************************************************************)
(* Proofs about WorkerPool, for any number of workers, any limits and any  *)
(* interleaving of Start, Stop, Scale, the scaling loop and the workers.   *)
(***************************************************************************)
EXTENDS WorkerPool, FiniteSetTheorems, TLAPS

USE PoolAssumption

\* A spawner that has inserted a worker is about to launch that very worker.
FreshInserted ==
  /\ \A s \in Spawners : fresh[s] # NoOne =>
       step[s] = "spawning" /\ left[s] > 0 /\ loc[fresh[s]] = "inserted"
  /\ \A s, q \in Spawners : s # q /\ fresh[s] # NoOne => fresh[s] # fresh[q]

\* Stop has cancelled the context before it does anything else.
StopCancels == step["control"] \in {"signalling", "waiting"} => cancelled

\* A pool that was drained stays without context and without tasks.
DrainedStaysIdle ==
  drained => cancelled /\ \A w \in Worker : loc[w] \notin {"polling", "busy"}

\* The flags of TypeOK, and everything else in it.
Flags == cancelled \in BOOLEAN /\ started \in BOOLEAN /\ drained \in BOOLEAN

Shape ==
  /\ activeCount \in Int
  /\ workers \subseteq Worker
  /\ loc \in [Worker -> Locations]
  /\ signalled \subseteq Worker
  /\ loops \in [LoopNames -> Nat]
  /\ step \in [Spawners -> {"idle", "spawning", "signalling", "waiting"}]
  /\ left \in [Spawners -> Nat]
  /\ fresh \in [Spawners -> Worker \cup {NoOne}]
  /\ pending \in Nat
  /\ starts \in Nat

PoolInv == Shape /\ CounterExact /\ FreshInserted /\ StopCancels /\ DrainedStaysIdle

\* Init establishes the invariant.
LEMMA PoolInvInit == Init => Flags /\ PoolInv
<1> SUFFICES ASSUME Init PROVE Flags /\ PoolInv
  OBVIOUS
<1>1. Flags
  BY DEF Init, Flags
<1>2. Shape
  BY DEF Init, Shape, Locations
<1>3. FreshInserted
  BY DEF Init, FreshInserted
<1>4. StopCancels
  BY DEF Init, StopCancels, Spawners
<1>5. DrainedStaysIdle
  BY DEF Init, DrainedStaysIdle
<1>6. Counted = {} /\ workers = {w \in Worker : loc[w] # "unused"}
  BY DEF Init, Counted
<1> QED
  BY <1>1, <1>2, <1>3, <1>4, <1>5, <1>6, FS_EmptySet DEF PoolInv, CounterExact, Init

\* The counted workers are finitely many.
LEMMA CountedFinite == IsFiniteSet(Counted) /\ Cardinality(Counted) \in Nat
  BY FS_Subset, FS_CardinalityType DEF Counted

\* The locations of a worker the counter stands for.
CountedAt == {"loop", "polling", "sleep", "busy", "leaving"}

\* Moving one worker changes the number of counted workers by at most one.
LEMMA CountedMove ==
  ASSUME NEW w \in Worker, NEW to, loc \in [Worker -> Locations],
         loc' = [loc EXCEPT ![w] = to]
  PROVE  /\ (loc[w] \in CountedAt <=> to \in CountedAt) =>
              Cardinality(Counted') = Cardinality(Counted)
         /\ loc[w] \notin CountedAt /\ to \in CountedAt =>
              Cardinality(Counted') = Cardinality(Counted) + 1
         /\ loc[w] \in CountedAt /\ to \notin CountedAt =>
              Cardinality(Counted') = Cardinality(Counted) - 1
<1>1. ASSUME (loc[w] \in CountedAt) = (to \in CountedAt)
      PROVE  Counted' = Counted
  BY <1>1 DEF Counted, CountedAt
<1>2. ASSUME loc[w] \notin CountedAt, to \in CountedAt
      PROVE  Counted' = Counted \cup {w} /\ w \notin Counted
  BY <1>2 DEF Counted, CountedAt
<1>3. ASSUME loc[w] \in CountedAt, to \notin CountedAt
      PROVE  Counted' = Counted \ {w} /\ w \in Counted
  BY <1>3 DEF Counted, CountedAt
<1>4. IsFiniteSet(Counted) /\ Cardinality(Counted) \in Nat
  BY CountedFinite
<1>5. ASSUME loc[w] \notin CountedAt, to \in CountedAt
      PROVE  Cardinality(Counted') = Cardinality(Counted) + 1
  BY <1>2, <1>4, <1>5, FS_AddElement
<1>6. ASSUME loc[w] \in CountedAt, to \notin CountedAt
      PROVE  Cardinality(Counted') = Cardinality(Counted) - 1
  BY <1>3, <1>4, <1>6, FS_RemoveElement
<1>7. ASSUME loc[w] \in CountedAt <=> to \in CountedAt
      PROVE  Cardinality(Counted') = Cardinality(Counted)
  BY <1>1, <1>7
<1> QED
  BY <1>5, <1>6, <1>7
-----------------------------------------------------------------------------
(* Steps by kind. *)

\* A worker goes on inside its loop, or decides to leave it.
LoopMove(w, to) ==
  /\ loc[w] \in CountedAt /\ to \in CountedAt
  /\ loc' = [loc EXCEPT ![w] = to]
  /\ to = "polling" => ~cancelled
  /\ to = "busy" => loc[w] = "polling"
  /\ pending' \in Nat
  /\ UNCHANGED <<activeCount, workers, signalled, lifeVars, spawnVars>>

\* All that a worker does before it counts down is a loop move.
LEMMA LoopMoves ==
  ASSUME PoolInv, NEW w \in Worker,
         \/ Return(w) \/ IdleTimeout(w) \/ Poll(w) \/ Dequeue(w)
         \/ DequeueNothing(w) \/ Wake(w) \/ TaskDone(w)
  PROVE  \E to \in CountedAt : LoopMove(w, to)
<1> USE DEF LoopMove, Move, CountedAt, PoolInv, Shape
<1>1. CASE Return(w)
  BY <1>1 DEF Return
<1>2. CASE IdleTimeout(w)
  BY <1>2 DEF IdleTimeout
<1>3. CASE Poll(w)
  BY <1>3 DEF Poll, Told
<1>4. CASE Dequeue(w)
  BY <1>4 DEF Dequeue
<1>5. CASE DequeueNothing(w)
  BY <1>5 DEF DequeueNothing
<1>6. CASE Wake(w)
  BY <1>6 DEF Wake
<1>7. CASE TaskDone(w)
  BY <1>7 DEF TaskDone
<1> QED
  BY <1>1, <1>2, <1>3, <1>4, <1>5, <1>6, <1>7

\* What Start, Stop, Scale, the scaling loop and the producer do to the pool
\* without touching a worker or the counter.
ControlStep ==
  \/ Start \/ StartLoops \/ StopCancel \/ StopSignal
  \/ \E graceful \in BOOLEAN : StopReturn(graceful)
  \/ \E l \in LoopNames : LoopExit(l)
  \/ \E c \in ScaleCallers, target \in Targets : Scale(c, target)
  \/ \E c \in ScaleCallers : ScaleDown(c)
  \/ checkAndScale \/ Arrive

\* Every step is of one of these kinds.
LEMMA StepKinds ==
  ASSUME PoolInv, [Next]_vars
  PROVE  \/ ControlStep
         \/ \E s \in Spawners, w \in Worker : SpawnInsert(s, w)
         \/ \E s \in Spawners : SpawnLaunch(s)
         \/ \E w \in Worker, to \in CountedAt : LoopMove(w, to)
         \/ \E w \in Worker : CountDown(w)
         \/ \E w \in Worker : Remove(w)
         \/ UNCHANGED vars
  BY LoopMoves DEF Next, SpawnStep, WorkerStep, ControlStep

\* A control step leaves workers and counter alone and spawns no negative
\* number of workers.
LEMMA ControlFrame ==
  ASSUME PoolInv, ControlStep
  PROVE  /\ Shape'
         /\ UNCHANGED <<activeCount, workers, loc, fresh>>
         /\ \A s \in Spawners : fresh[s] # NoOne => step'[s] = step[s] /\ left'[s] = left[s]
<1> USE DEF PoolInv, Shape, FreshInserted
<1>0. activeCount \in Nat
  BY CountedFinite DEF CounterExact
<1>1. CASE Start
  BY <1>1 DEF Start, Spawn, Spawners
<1>2. CASE StartLoops
  BY <1>2 DEF StartLoops, Spawners
<1>3. CASE StopCancel
  BY <1>3 DEF StopCancel, Spawners
<1>4. CASE StopSignal
  BY <1>4 DEF StopSignal, Spawners, lifeVars
<1>5. ASSUME NEW graceful \in BOOLEAN, StopReturn(graceful)
      PROVE  /\ Shape'
             /\ UNCHANGED <<activeCount, workers, loc, fresh>>
             /\ \A s \in Spawners : fresh[s] # NoOne => step'[s] = step[s] /\ left'[s] = left[s]
  BY <1>5 DEF StopReturn, Spawners
<1>6. ASSUME NEW l \in LoopNames, LoopExit(l)
      PROVE  /\ Shape'
             /\ UNCHANGED <<activeCount, workers, loc, fresh>>
             /\ \A s \in Spawners : fresh[s] # NoOne => step'[s] = step[s] /\ left'[s] = left[s]
  BY <1>6 DEF LoopExit, spawnVars
<1>7. ASSUME NEW c \in ScaleCallers, NEW target \in Targets, Scale(c, target)
      PROVE  /\ Shape'
             /\ UNCHANGED <<activeCount, workers, loc, fresh>>
             /\ \A s \in Spawners : fresh[s] # NoOne => step'[s] = step[s] /\ left'[s] = left[s]
  <2>1. Clamped(target) \in Int
    BY DEF Clamped, Lesser, Greater
  <2>2. c \in Spawners /\ fresh[c] = NoOne
    BY <1>7 DEF Scale, Spawners
  <2>3. CASE Clamped(target) - activeCount > 0
    BY <1>0, <1>7, <2>1, <2>2, <2>3 DEF Scale, Spawn, lifeVars
  <2>4. CASE Clamped(target) - activeCount < 0
    BY <1>0, <1>7, <2>1, <2>2, <2>4 DEF Scale, Spawn, lifeVars
  <2> QED
    BY <1>0, <1>7, <2>1, <2>3, <2>4 DEF Scale
<1>8. ASSUME NEW c \in ScaleCallers, ScaleDown(c)
      PROVE  /\ Shape'
             /\ UNCHANGED <<activeCount, workers, loc, fresh>>
             /\ \A s \in Spawners : fresh[s] # NoOne => step'[s] = step[s] /\ left'[s] = left[s]
  <2>1. signalled' \subseteq Worker
    BY <1>8 DEF ScaleDown, Signallable
  <2> QED
    BY <1>8, <2>1 DEF ScaleDown, Spawners, lifeVars
<1>9. CASE checkAndScale
  <2>1. pending \div (activeCount + 1) \in Nat
    BY <1>0
  <2>2. WorkersToAdd \in Nat
    BY <1>0, <1>9, <2>1 DEF checkAndScale, WorkersToAdd, Lesser
  <2> QED
    BY <1>9, <2>2 DEF checkAndScale, Spawn, Spawners, lifeVars
<1>10. CASE Arrive
  BY <1>10 DEF Arrive, lifeVars, spawnVars
<1> QED
  BY <1>1, <1>2, <1>3, <1>4, <1>5, <1>6, <1>7, <1>8, <1>9, <1>10 DEF ControlStep

\* What a control step means for shutting down: a context once cancelled
\* stays so, and a pool is drained when nothing is left to run.
LEMMA ControlShutdown ==
  ASSUME PoolInv, ControlStep
  PROVE  StopCancels' /\ DrainedStaysIdle'
<1>1. UNCHANGED loc
  BY ControlFrame
<1> USE DEF PoolInv, Shape, StopCancels, DrainedStaysIdle
<1>2. CASE Start \/ StartLoops
  BY <1>1, <1>2 DEF Start, StartLoops, Spawn, Spawners
<1>3. CASE StopCancel \/ StopSignal
  BY <1>1, <1>3 DEF StopCancel, StopSignal, Spawners, lifeVars
<1>4. ASSUME NEW graceful \in BOOLEAN, StopReturn(graceful)
      PROVE  StopCancels' /\ DrainedStaysIdle'
  <2>1. step'["control"] = "idle" /\ cancelled /\ cancelled' = cancelled
    BY <1>4 DEF StopReturn, Spawners
  <2>2. CASE graceful
    <3>1. \A w \in Worker : loc[w] \in {"unused", "inserted"}
      BY <1>4, <2>2 DEF StopReturn, WaitGroupEmpty
    <3> QED
      BY <1>1, <2>1, <3>1
  <2>3. CASE ~graceful
    <3>1. drained' => drained
      BY <1>4, <2>3 DEF StopReturn
    <3> QED
      BY <1>1, <2>1, <3>1
  <2> QED
    BY <2>2, <2>3
<1>5. ASSUME NEW l \in LoopNames, LoopExit(l)
      PROVE  StopCancels' /\ DrainedStaysIdle'
  BY <1>1, <1>5 DEF LoopExit, spawnVars
<1>6. ASSUME NEW c \in ScaleCallers, NEW target \in Targets, Scale(c, target)
      PROVE  StopCancels' /\ DrainedStaysIdle'
  BY <1>1, <1>6 DEF Scale, Spawn, Spawners, lifeVars
<1>7. ASSUME NEW c \in ScaleCallers, ScaleDown(c)
      PROVE  StopCancels' /\ DrainedStaysIdle'
  BY <1>1, <1>7 DEF ScaleDown, Spawners, lifeVars
<1>8. CASE checkAndScale
  BY <1>1, <1>8 DEF checkAndScale, Spawn, Spawners, lifeVars
<1>9. CASE Arrive
  BY <1>1, <1>9 DEF Arrive, lifeVars, spawnVars
<1> QED
  BY <1>2, <1>3, <1>4, <1>5, <1>6, <1>7, <1>8, <1>9 DEF ControlStep

\* Every step preserves the invariant.
LEMMA PoolInvNext == PoolInv /\ [Next]_vars => PoolInv'
<1> SUFFICES ASSUME PoolInv, [Next]_vars PROVE PoolInv'
  OBVIOUS
<1>0. Shape /\ CounterExact /\ FreshInserted /\ StopCancels /\ DrainedStaysIdle
  BY DEF PoolInv
<1>1. CASE ControlStep
  <2>1. /\ Shape' /\ UNCHANGED <<activeCount, workers, loc, fresh>>
        /\ \A s \in Spawners : fresh[s] # NoOne => step'[s] = step[s] /\ left'[s] = left[s]
    BY <1>1, ControlFrame
  <2>2. CounterExact'
    BY <1>0, <2>1 DEF CounterExact, Counted
  <2>3. FreshInserted'
    BY <1>0, <2>1 DEF FreshInserted
  <2> QED
    BY <1>1, <2>1, <2>2, <2>3, ControlShutdown DEF PoolInv
<1>2. ASSUME NEW s \in Spawners, NEW w \in Worker, SpawnInsert(s, w)
      PROVE  PoolInv'
  <2>1. Shape'
    BY <1>0, <1>2 DEF SpawnInsert, Shape, Locations, lifeVars
  <2>2. loc[w] \notin CountedAt /\ "inserted" \notin CountedAt
    BY <1>2 DEF SpawnInsert, CountedAt
  <2>3. Cardinality(Counted') = Cardinality(Counted)
    BY <1>0, <1>2, <2>2, CountedMove DEF SpawnInsert, Shape
  <2>4. workers' = {v \in Worker : loc'[v] # "unused"}
    BY <1>0, <1>2 DEF SpawnInsert, Shape, CounterExact
  <2>5. CounterExact'
    BY <1>0, <1>2, <2>3, <2>4 DEF SpawnInsert, CounterExact
  <2>6. FreshInserted'
    BY <1>0, <1>2 DEF SpawnInsert, Shape, FreshInserted
  <2>7. StopCancels' /\ DrainedStaysIdle'
    BY <1>0, <1>2 DEF SpawnInsert, Shape, StopCancels, DrainedStaysIdle, lifeVars
  <2> QED
    BY <2>1, <2>5, <2>6, <2>7 DEF PoolInv
<1>3. ASSUME NEW s \in Spawners, SpawnLaunch(s)
      PROVE  PoolInv'
  <2>0. /\ fresh[s] \in Worker /\ loc[fresh[s]] = "inserted"
        /\ step[s] = "spawning" /\ left[s] > 0
    BY <1>0, <1>3 DEF SpawnLaunch, Shape, FreshInserted
  <2>1. Shape'
    BY <1>0, <1>3, <2>0 DEF SpawnLaunch, Shape, Locations, lifeVars
  <2>2. loc[fresh[s]] \notin CountedAt /\ "loop" \in CountedAt
    BY <2>0 DEF CountedAt
  <2>3. Cardinality(Counted') = Cardinality(Counted) + 1
    BY <1>0, <1>3, <2>0, <2>2, CountedMove DEF SpawnLaunch, Shape
  <2>4. workers' = {v \in Worker : loc'[v] # "unused"}
    BY <1>0, <1>3, <2>0 DEF SpawnLaunch, Shape, CounterExact
  <2>5. CounterExact'
    BY <1>0, <1>3, <2>3, <2>4 DEF SpawnLaunch, CounterExact
  <2>6. FreshInserted'
    BY <1>0, <1>3, <2>0 DEF SpawnLaunch, Shape, FreshInserted
  <2>7. StopCancels' /\ DrainedStaysIdle'
    BY <1>0, <1>3, <2>0
       DEF SpawnLaunch, Shape, StopCancels, DrainedStaysIdle, Spawners, lifeVars
  <2> QED
    BY <2>1, <2>5, <2>6, <2>7 DEF PoolInv
<1>4. ASSUME NEW w \in Worker, NEW to \in CountedAt, LoopMove(w, to)
      PROVE  PoolInv'
  <2>0. to \in Locations /\ to # "unused" /\ to # "inserted" /\ loc[w] # "inserted"
        /\ loc[w] # "unused"
    BY <1>4 DEF LoopMove, CountedAt, Locations
  <2>1. Shape'
    BY <1>0, <1>4, <2>0 DEF LoopMove, Shape, lifeVars, spawnVars
  <2>2. Cardinality(Counted') = Cardinality(Counted)
    BY <1>0, <1>4, CountedMove DEF LoopMove, Shape
  <2>3. workers' = {v \in Worker : loc'[v] # "unused"}
    BY <1>0, <1>4, <2>0 DEF LoopMove, Shape, CounterExact
  <2>4. CounterExact'
    BY <1>0, <1>4, <2>2, <2>3 DEF LoopMove, CounterExact
  <2>5. FreshInserted'
    BY <1>0, <1>4, <2>0 DEF LoopMove, Shape, FreshInserted, spawnVars
  <2>6. StopCancels' /\ DrainedStaysIdle'
    BY <1>0, <1>4 DEF LoopMove, Shape, StopCancels, DrainedStaysIdle, lifeVars, spawnVars
  <2> QED
    BY <2>1, <2>4, <2>5, <2>6 DEF PoolInv
<1>5. ASSUME NEW w \in Worker, CountDown(w)
      PROVE  PoolInv'
  <2>0. loc[w] = "leaving" /\ loc' = [loc EXCEPT ![w] = "removing"]
    BY <1>5 DEF CountDown, Move
  <2>1. Shape'
    BY <1>0, <1>5, <2>0 DEF CountDown, Shape, Locations, lifeVars, spawnVars
  <2>2. loc[w] \in CountedAt /\ "removing" \notin CountedAt
    BY <2>0 DEF CountedAt
  <2>3. Cardinality(Counted') = Cardinality(Counted) - 1
    BY <1>0, <2>0, <2>2, CountedMove DEF Shape
  <2>4. workers' = {v \in Worker : loc'[v] # "unused"}
    BY <1>0, <1>5, <2>0 DEF CountDown, Shape, CounterExact
  <2>5. CounterExact'
    BY <1>0, <1>5, <2>3, <2>4 DEF CountDown, CounterExact
  <2>6. FreshInserted'
    BY <1>0, <1>5, <2>0 DEF CountDown, Shape, FreshInserted, spawnVars
  <2>7. StopCancels' /\ DrainedStaysIdle'
    BY <1>0, <1>5, <2>0
       DEF CountDown, Shape, StopCancels, DrainedStaysIdle, lifeVars, spawnVars
  <2> QED
    BY <2>1, <2>5, <2>6, <2>7 DEF PoolInv
<1>6. ASSUME NEW w \in Worker, Remove(w)
      PROVE  PoolInv'
  <2>0. loc[w] = "removing" /\ loc' = [loc EXCEPT ![w] = "unused"]
    BY <1>6 DEF Remove, Move
  <2>1. Shape'
    BY <1>0, <1>6, <2>0 DEF Remove, Shape, Locations, lifeVars, spawnVars
  <2>2. loc[w] \notin CountedAt /\ "unused" \notin CountedAt
    BY <2>0 DEF CountedAt
  <2>3. Cardinality(Counted') = Cardinality(Counted)
    BY <1>0, <2>0, <2>2, CountedMove DEF Shape
  <2>4. workers' = {v \in Worker : loc'[v] # "unused"}
    BY <1>0, <1>6, <2>0 DEF Remove, Shape, CounterExact
  <2>5. CounterExact'
    BY <1>0, <1>6, <2>3, <2>4 DEF Remove, CounterExact
  <2>6. FreshInserted'
    BY <1>0, <1>6, <2>0 DEF Remove, Shape, FreshInserted, spawnVars
  <2>7. StopCancels' /\ DrainedStaysIdle'
    BY <1>0, <1>6, <2>0
       DEF Remove, Shape, StopCancels, DrainedStaysIdle, lifeVars, spawnVars
  <2> QED
    BY <2>1, <2>5, <2>6, <2>7 DEF PoolInv
<1>7. CASE UNCHANGED vars
  BY <1>0, <1>7
     DEF vars, PoolInv, Shape, CounterExact, Counted, FreshInserted, StopCancels,
         DrainedStaysIdle
<1> QED
  BY <1>1, <1>2, <1>3, <1>4, <1>5, <1>6, <1>7, StepKinds

\* The flags keep their type.
LEMMA FlagsNext ==
  ASSUME PoolInv, Flags, [Next]_vars
  PROVE  Flags'
<1> USE DEF Flags
<1>1. CASE ControlStep
  BY <1>1 DEF ControlStep, Start, StartLoops, StopCancel, StopSignal, StopReturn, LoopExit,
              Scale, ScaleDown, checkAndScale, Arrive, lifeVars
<1>2. CASE UNCHANGED lifeVars
  BY <1>2 DEF lifeVars
<1> QED
  BY <1>1, <1>2, StepKinds
     DEF SpawnInsert, SpawnLaunch, LoopMove, CountDown, Remove, vars, lifeVars

\* The invariant holds throughout.
LEMMA PoolInvHolds == Spec => [](Flags /\ PoolInv)
<1>1. (Flags /\ PoolInv) /\ [Next]_vars => (Flags /\ PoolInv)'
  BY PoolInvNext, FlagsNext
<1> QED
  BY PoolInvInit, <1>1, PTL DEF Spec

(***************************************************************************)
(* TypeOK is an invariant; in particular no spawner ever owes a negative   *)
(* number of workers and no loop ends twice.                               *)
(***************************************************************************)
THEOREM TypeCorrect == Spec => []TypeOK
<1>1. Flags /\ PoolInv => TypeOK
  BY DEF Flags, PoolInv, Shape, TypeOK
<1> QED
  BY <1>1, PoolInvHolds, PTL

(***************************************************************************)
(* activeCount is exactly the number of launched workers that have not     *)
(* counted down, and the map holds exactly the workers between insertion   *)
(* and removal, under every interleaving.                                  *)
(***************************************************************************)
THEOREM CounterIsExact == Spec => []CounterExact
  BY PoolInvHolds, PTL DEF PoolInv

(***************************************************************************)
(* After a Stop that returned within its grace period no worker polls or   *)
(* runs a task, whatever is spawned into the pool later.                   *)
(***************************************************************************)
THEOREM DrainedPoolIsIdle == Spec => []NoTaskAfterGracefulStop
<1>1. PoolInv => NoTaskAfterGracefulStop
  BY DEF PoolInv, DrainedStaysIdle, NoTaskAfterGracefulStop
<1> QED
  BY <1>1, PoolInvHolds, PTL
-----------------------------------------------------------------------------
(* How far the pool can grow. *)

\* The workers a spawner has decided to spawn and has not launched.
Owed(s) == IF step[s] = "spawning" THEN left[s] ELSE 0

\* Those who decide by the counter: the callers of Scale, and the scaling loop.
Deciders == ScaleCallers \cup {"scaler"}

\* The workers they owe together, as pairs: one for each worker of each.
Debts == {d \in Deciders \X (1 .. MaxWorkers) : d[2] <= Owed(d[1])}

\* No decider owes more than MaxWorkers, Start no more than MinWorkers for
\* each time it ran, and with the workers that live they stay in the bound.
GrowthInv ==
  /\ \A s \in Deciders : Owed(s) <= MaxWorkers
  /\ Owed("control") <= MinWorkers * starts
  /\ activeCount + Owed("control") + Cardinality(Debts)
       <= Cardinality(Deciders) * MaxWorkers + MinWorkers * starts

\* There is one decider more than there are callers of Scale.
LEMMA DecidersCount ==
  /\ IsFiniteSet(Deciders) /\ Cardinality(Deciders) \in Nat
  /\ Cardinality(Deciders) = Cardinality(ScaleCallers) + 1
<1>1. "scaler" \notin ScaleCallers
  OBVIOUS
<1> QED
  BY <1>1, FS_AddElement, FS_CardinalityType DEF Deciders

\* Any set of pairs of some deciders and numbers up to n is finite, and all
\* of them together are as many as n times the deciders.
LEMMA PairsCount ==
  ASSUME NEW S \in SUBSET Deciders, NEW n \in Nat
  PROVE  /\ IsFiniteSet(S \X (1 .. n))
         /\ Cardinality(S \X (1 .. n)) = Cardinality(S) * n
<1>1. IsFiniteSet(S)
  BY DecidersCount, FS_Subset
<1>2. IsFiniteSet(1 .. n) /\ Cardinality(1 .. n) = n
  BY FS_Interval
<1> QED
  BY <1>1, <1>2, FS_Product

\* The debts are finitely many.
LEMMA DebtsFinite == IsFiniteSet(Debts) /\ Cardinality(Debts) \in Nat
<1>1. IsFiniteSet(Deciders \X (1 .. MaxWorkers))
  BY PairsCount
<1> QED
  BY <1>1, FS_Subset, FS_CardinalityType DEF Debts

\* Init establishes the bound: no worker lives and none is owed.
LEMMA GrowthInit == Init => GrowthInv
<1> SUFFICES ASSUME Init PROVE GrowthInv
  OBVIOUS
<1>1. Owed("control") = 0 /\ \A s \in Deciders : Owed(s) = 0
  BY DEF Init, Owed, Spawners, Deciders
<1>2. Debts = {}
  BY <1>1 DEF Debts
<1>3. Cardinality(Debts) = 0
  BY <1>2, FS_EmptySet
<1>4. /\ Cardinality(Deciders) * MaxWorkers \in Nat
      /\ activeCount = 0 /\ MinWorkers * starts = 0
  BY DecidersCount DEF Init
<1> QED
  BY <1>1, <1>3, <1>4 DEF GrowthInv

\* A decider that sees the counter within the limit, and fills up to it,
\* leaves the others with their own MaxWorkers at most.
LEMMA Decision ==
  ASSUME PoolInv, PoolInv', GrowthInv, NEW c \in Deciders, NEW n \in Nat,
         Owed(c)' = n, n > 0 => activeCount + n <= MaxWorkers,
         \A s \in Spawners \ {c} : Owed(s)' = Owed(s),
         UNCHANGED <<activeCount, starts>>
  PROVE  GrowthInv'
<1>0. /\ activeCount \in Nat /\ starts \in Nat
      /\ \A s \in Spawners : Owed(s) \in Nat /\ Owed(s)' \in Nat
      /\ Deciders \subseteq Spawners /\ "control" \in Spawners \ Deciders
  BY CountedFinite DEF PoolInv, CounterExact, Shape, Owed, Deciders, Spawners
<1>1. n <= MaxWorkers
  BY <1>0
<1>2. \A s \in Deciders : Owed(s)' <= MaxWorkers
  BY <1>0, <1>1 DEF GrowthInv
<1>3. Owed("control")' = Owed("control")
  BY <1>0
<1>4. MinWorkers * starts \in Nat
  BY <1>0
<1>5. CASE n = 0
  <2>1. Debts' \subseteq Debts
    BY <1>0, <1>5 DEF Debts
  <2>2. Cardinality(Debts') <= Cardinality(Debts)
    BY <2>1, DebtsFinite, FS_Subset
  <2>3. Cardinality(Debts') \in Nat
    BY <2>1, DebtsFinite, FS_Subset, FS_CardinalityType
  <2>4. Cardinality(Deciders) * MaxWorkers \in Nat
    BY DecidersCount
  <2> HIDE DEF Owed
  <2> QED
    BY <1>0, <1>2, <1>3, <1>4, <2>2, <2>3, <2>4, DebtsFinite DEF GrowthInv
<1>6. CASE n > 0
  <2> DEFINE mine == {c} \X (1 .. n)
             rest == (Deciders \ {c}) \X (1 .. MaxWorkers)
  <2>1. Debts' \subseteq mine \cup rest
    BY <1>0 DEF Debts
  <2>2. IsFiniteSet(mine) /\ Cardinality(mine) = n
    <3>1. Cardinality({c}) = 1
      BY FS_Singleton
    <3> QED
      BY <3>1, PairsCount
  <2>3. /\ Cardinality(Deciders \ {c}) = Cardinality(Deciders) - 1
        /\ Cardinality(Deciders \ {c}) \in Nat
    BY DecidersCount, FS_RemoveElement, FS_Subset, FS_CardinalityType
  <2>4. /\ IsFiniteSet(rest)
        /\ Cardinality(rest) = Cardinality(Deciders \ {c}) * MaxWorkers
    BY PairsCount
  <2>5. Cardinality(Deciders) * MaxWorkers = Cardinality(rest) + MaxWorkers
    BY <2>3, <2>4, DecidersCount
  <2>6. /\ IsFiniteSet(mine \cup rest)
        /\ Cardinality(mine \cup rest) <= n + Cardinality(rest)
    <3>1. /\ IsFiniteSet(mine \cup rest)
          /\ Cardinality(mine \cup rest)
               = Cardinality(mine) + Cardinality(rest) - Cardinality(mine \cap rest)
      BY <2>2, <2>4, FS_Union
    <3>2. Cardinality(mine \cap rest) \in Nat
      BY <2>2, FS_Intersection, FS_CardinalityType
    <3>3. Cardinality(rest) \in Nat
      BY <2>4, FS_CardinalityType
    <3> QED
      BY <2>2, <3>1, <3>2, <3>3
  <2>7. Cardinality(Debts') <= n + Cardinality(rest) /\ Cardinality(Debts') \in Nat
    <3>1. /\ IsFiniteSet(Debts') /\ Cardinality(Debts') <= Cardinality(mine \cup rest)
          /\ Cardinality(Debts') \in Nat /\ Cardinality(mine \cup rest) \in Nat
          /\ Cardinality(rest) \in Nat
      BY <2>1, <2>4, <2>6, FS_Subset, FS_CardinalityType
    <3> QED
      BY <2>6, <3>1
  <2>8. Cardinality(rest) \in Nat
    BY <2>4, FS_CardinalityType
  <2> HIDE DEF Owed, mine, rest
  <2> QED
    BY <1>0, <1>2, <1>3, <1>4, <1>6, <2>5, <2>7, <2>8 DEF GrowthInv
<1> QED
  BY <1>5, <1>6

\* What launches no worker and decides on none keeps the bound.
LEMMA Quiet ==
  ASSUME PoolInv, PoolInv', GrowthInv, activeCount' <= activeCount, starts' = starts,
         \A s \in Spawners : Owed(s)' \in {0, Owed(s)}
  PROVE  GrowthInv'
<1>0. /\ activeCount \in Nat /\ activeCount' \in Int /\ starts \in Nat
      /\ \A s \in Spawners : Owed(s) \in Nat
      /\ Deciders \subseteq Spawners /\ "control" \in Spawners
      /\ MinWorkers * starts \in Nat
  BY CountedFinite DEF PoolInv, CounterExact, Shape, Owed, Deciders, Spawners
<1>1. Debts' \subseteq Debts
  BY <1>0 DEF Debts
<1>2. Cardinality(Debts') <= Cardinality(Debts) /\ Cardinality(Debts') \in Nat
  BY <1>1, DebtsFinite, FS_Subset, FS_CardinalityType
<1>3. Cardinality(Deciders) * MaxWorkers \in Nat
  BY DecidersCount
<1> HIDE DEF Owed
<1> QED
  BY <1>0, <1>2, <1>3, DebtsFinite DEF GrowthInv

\* Every step preserves the bound.
LEMMA GrowthNext ==
  ASSUME PoolInv, PoolInv', GrowthInv, [Next]_vars
  PROVE  GrowthInv'
<1>0. Shape /\ Shape' /\ FreshInserted
  BY DEF PoolInv
<1>1. /\ activeCount \in Nat /\ starts \in Nat /\ MinWorkers * starts \in Nat
      /\ \A s \in Spawners : left[s] \in Nat /\ left'[s] \in Nat /\ Owed(s) \in Nat
      /\ Deciders \subseteq Spawners
      /\ "control" \in Spawners \ Deciders /\ Spawners = Deciders \cup {"control"}
  <2>1. activeCount \in Nat
    BY CountedFinite DEF PoolInv, CounterExact
  <2> QED
    BY <1>0, <2>1 DEF Shape, Owed, Deciders, Spawners
<1>2. CASE Start
  <2>1. starts' = starts + 1 /\ MinWorkers * starts' = MinWorkers * starts + MinWorkers
    BY <1>1, <1>2 DEF Start
  <2>2. /\ Owed("control") = 0 /\ Owed("control")' = MinWorkers
        /\ \A s \in Deciders : Owed(s)' = Owed(s)
        /\ activeCount' = activeCount
    BY <1>0, <1>1, <1>2 DEF Start, Spawn, Owed, Shape
  <2>3. Debts' = Debts
    BY <2>2 DEF Debts
  <2>4. MinWorkers * starts' \in Nat /\ Cardinality(Deciders) * MaxWorkers \in Nat
    BY <1>1, <2>1, DecidersCount
  <2> HIDE DEF Owed
  <2> QED
    BY <1>1, <2>1, <2>2, <2>3, <2>4, DebtsFinite DEF GrowthInv
<1>3. ASSUME NEW c \in ScaleCallers, NEW target \in Targets, Scale(c, target)
      PROVE  GrowthInv'
  <2>0. c \in Deciders /\ c \in Spawners
    BY DEF Deciders, Spawners
  <2>1. Clamped(target) \in Int /\ Clamped(target) <= MaxWorkers
    BY DEF Clamped, Lesser, Greater
  <2>2. UNCHANGED <<activeCount, starts>> /\ \A s \in Spawners \ {c} : Owed(s)' = Owed(s)
    BY <1>0, <1>3, <2>0 DEF Scale, Spawn, Owed, Shape, lifeVars
  <2>3. CASE Clamped(target) - activeCount > 0
    <3>1. Owed(c)' = Clamped(target) - activeCount
      BY <1>0, <1>1, <1>3, <2>0, <2>1, <2>3 DEF Scale, Spawn, Owed, Shape
    <3>2. Clamped(target) - activeCount \in Nat
      BY <1>1, <2>1, <2>3
    <3>3. activeCount + (Clamped(target) - activeCount) <= MaxWorkers
      BY <1>1, <2>1
    <3> QED
      BY <2>0, <2>2, <3>1, <3>2, <3>3, Decision
  <2>4. CASE ~(Clamped(target) - activeCount > 0)
    <3>1. Owed(c)' = 0
      BY <1>0, <1>1, <1>3, <2>0, <2>1, <2>4 DEF Scale, Spawn, Owed, Shape
    <3> QED
      BY <2>0, <2>2, <3>1, Decision
  <2> QED
    BY <2>3, <2>4
<1>4. CASE checkAndScale
  <2>1. WorkersToAdd <= MaxWorkers - activeCount /\ WorkersToAdd \in Nat
    <3>1. pending \div (activeCount + 1) \in Nat
      BY <1>0, <1>1 DEF Shape
    <3> QED
      BY <1>1, <1>4, <3>1 DEF checkAndScale, WorkersToAdd, Lesser
  <2>2. /\ UNCHANGED <<activeCount, starts>> /\ Owed("scaler")' = WorkersToAdd
        /\ \A s \in Spawners \ {"scaler"} : Owed(s)' = Owed(s)
    BY <1>0, <1>4 DEF checkAndScale, Spawn, Owed, Shape, Spawners, lifeVars
  <2>3. "scaler" \in Deciders /\ activeCount + WorkersToAdd <= MaxWorkers
    BY <1>1, <2>1 DEF Deciders
  <2> QED
    BY <2>1, <2>2, <2>3, Decision
<1>5. ASSUME NEW s \in Spawners, SpawnLaunch(s)
      PROVE  GrowthInv'
  <2>1. step[s] = "spawning" /\ left[s] > 0
    BY <1>0, <1>5 DEF SpawnLaunch, FreshInserted
  <2>2. /\ Owed(s)' = Owed(s) - 1 /\ Owed(s) > 0
        /\ activeCount' = activeCount + 1 /\ starts' = starts
        /\ \A q \in Spawners : q # s => Owed(q)' = Owed(q)
    BY <1>0, <1>1, <1>5, <2>1 DEF SpawnLaunch, Owed, Shape, lifeVars
  <2>3. Cardinality(Deciders) * MaxWorkers \in Nat
    BY DecidersCount
  <2>4. CASE s = "control"
    <3>1. Debts' = Debts
      BY <1>1, <2>2, <2>4 DEF Debts
    <3> HIDE DEF Owed
    <3> QED
      BY <1>1, <2>2, <2>3, <2>4, <3>1, DebtsFinite DEF GrowthInv
  <2>5. CASE s # "control"
    <3>1. s \in Deciders /\ Owed(s) \in 1 .. MaxWorkers
      BY <1>1, <2>2, <2>5 DEF GrowthInv
    <3>2. <<s, Owed(s)>> \in Debts
      BY <3>1 DEF Debts
    <3>3. Debts' = Debts \ {<<s, Owed(s)>>}
      <4>1. ASSUME NEW d \in Deciders \X (1 .. MaxWorkers)
            PROVE  d[2] <= Owed(d[1])' <=> d[2] <= Owed(d[1]) /\ d # <<s, Owed(s)>>
        <5>0. d = <<d[1], d[2]>> /\ d[1] \in Deciders /\ d[2] \in 1 .. MaxWorkers
          BY <4>1
        <5>1. CASE d[1] = s
          <6>1. Owed(d[1])' = Owed(s) - 1 /\ Owed(s) \in Nat
            BY <1>1, <2>2, <5>1
          <6>2. d # <<s, Owed(s)>> <=> d[2] # Owed(s)
            BY <5>0, <5>1
          <6> QED
            BY <5>0, <5>1, <6>1, <6>2
        <5>2. CASE d[1] # s
          BY <1>1, <2>2, <5>0, <5>2
        <5> QED
          BY <5>1, <5>2
      <4> QED
        BY <4>1 DEF Debts
    <3>4. Cardinality(Debts') = Cardinality(Debts) - 1
      BY <3>2, <3>3, DebtsFinite, FS_RemoveElement
    <3>5. Owed("control")' = Owed("control") /\ \A q \in Deciders : Owed(q)' <= MaxWorkers
      BY <1>1, <2>2, <2>5, <3>1 DEF GrowthInv
    <3> HIDE DEF Owed
    <3> QED
      BY <1>1, <2>2, <2>3, <3>4, <3>5, DebtsFinite DEF GrowthInv
  <2> QED
    BY <2>4, <2>5
<1>6. CASE StartLoops \/ StopCancel \/ StopSignal
  <2>1. activeCount' = activeCount /\ starts' = starts
    BY <1>6 DEF StartLoops, StopCancel, StopSignal, lifeVars
  <2>2. \A s \in Spawners : Owed(s)' \in {0, Owed(s)}
    BY <1>0, <1>6 DEF StartLoops, StopCancel, StopSignal, Owed, Shape
  <2> QED
    BY <1>1, <2>1, <2>2, Quiet
<1>7. ASSUME NEW graceful \in BOOLEAN, StopReturn(graceful)
      PROVE  GrowthInv'
  <2>1. activeCount' = activeCount /\ starts' = starts
    BY <1>7 DEF StopReturn
  <2>2. \A s \in Spawners : Owed(s)' \in {0, Owed(s)}
    BY <1>0, <1>7 DEF StopReturn, Owed, Shape
  <2> QED
    BY <1>1, <2>1, <2>2, Quiet
<1>8. ASSUME NEW c \in ScaleCallers, ScaleDown(c)
      PROVE  GrowthInv'
  <2>1. activeCount' = activeCount /\ starts' = starts
    BY <1>8 DEF ScaleDown, lifeVars
  <2>2. \A s \in Spawners : Owed(s)' \in {0, Owed(s)}
    BY <1>0, <1>8 DEF ScaleDown, Owed, Shape
  <2> QED
    BY <1>1, <2>1, <2>2, Quiet
<1>9. ASSUME activeCount' <= activeCount, UNCHANGED <<starts, step, left>>
      PROVE  GrowthInv'
  BY <1>9, Quiet DEF Owed
<1>10. ASSUME NEW l \in LoopNames, LoopExit(l)
       PROVE  GrowthInv'
  BY <1>1, <1>9, <1>10 DEF LoopExit, spawnVars
<1>11. CASE Arrive
  BY <1>1, <1>9, <1>11 DEF Arrive, lifeVars, spawnVars
<1>12. ASSUME NEW s \in Spawners, NEW w \in Worker, SpawnInsert(s, w)
       PROVE  GrowthInv'
  BY <1>1, <1>9, <1>12 DEF SpawnInsert, lifeVars
<1>13. ASSUME NEW w \in Worker, NEW to \in CountedAt, LoopMove(w, to)
       PROVE  GrowthInv'
  BY <1>1, <1>9, <1>13 DEF LoopMove, lifeVars, spawnVars
<1>14. ASSUME NEW w \in Worker, CountDown(w) \/ Remove(w)
       PROVE  GrowthInv'
  BY <1>1, <1>9, <1>14 DEF CountDown, Remove, lifeVars, spawnVars
<1>15. CASE UNCHANGED vars
  BY <1>1, <1>9, <1>15 DEF vars
<1> QED
  BY <1>2, <1>3, <1>4, <1>5, <1>6, <1>7, <1>8, <1>10, <1>11, <1>12, <1>13, <1>14, <1>15,
     StepKinds DEF ControlStep

(***************************************************************************)
(* The number of workers never exceeds MaxWorkers for the scaling loop and *)
(* for each goroutine that calls Scale, plus MinWorkers for every Start,   *)
(* however many calls of Scale there are at once and however they overlap  *)
(* with the loop and with Start.                                           *)
(***************************************************************************)
THEOREM Overshoot == Spec => []OvershootBound
<1>1. Flags /\ PoolInv /\ GrowthInv => OvershootBound
  <2> SUFFICES ASSUME PoolInv, GrowthInv PROVE OvershootBound
    OBVIOUS
  <2>1. /\ activeCount \in Int /\ starts \in Nat /\ MinWorkers * starts \in Nat
        /\ Owed("control") \in Nat
    BY DEF PoolInv, Shape, Owed, Spawners
  <2>2. Cardinality(Deciders) * MaxWorkers \in Nat
    BY DecidersCount
  <2>3. Cardinality(Deciders) = Cardinality(ScaleCallers) + 1
    BY DecidersCount
  <2> HIDE DEF Owed
  <2> QED
    BY <2>1, <2>2, <2>3, DebtsFinite DEF GrowthInv, OvershootBound
<1>2. PoolInv /\ PoolInv' /\ GrowthInv /\ [Next]_vars => GrowthInv'
  BY GrowthNext
<1> QED
  BY <1>1, <1>2, GrowthInit, PoolInvHolds, PTL DEF Spec
=============================================================================
