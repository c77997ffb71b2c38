------------------------ MODULE ResourceMonitorProofs ------------------------
(***************************************************************************)
(* Proofs about the resource monitor and the stuck detector's judgement of *)
(* its snapshots, for any tasks, workers, loops and activities. A task may *)
(* be claimed again before the worker that wrote its outcome has made its  *)
(* deferred StopMonitoring; the invariants say what remains true of the    *)
(* map of monitors and its goroutines when such executions overlap.        *)
(***************************************************************************)
EXTENDS ResourceMonitor, FiniteSetTheorems, TLAPS

USE MonitorAssumption

\* What a process has used.
Use == [time : Nat, read : Nat, write : Nat, net : Nat, rss : Nat]

\* A reading: counters that could be read are those of the process.
Reading ==
  {r \in [cpu : Nat, mem : Nat, conns : Nat, fds : Nat, threads : Nat, time : Nat, rss : Nat,
          read : Nat, write : Nat, net : Nat, state : STRING, true : Use, readable : BOOLEAN] :
     r.readable => r.time = r.true.time /\ SameIO(r, r.true)}

\* What is used only grows by what is done.
LEMMA UsedType ==
  ASSUME NEW u \in Use, NEW a \in Activities
  PROVE  Used(u, a) \in Use
  BY DEF Use, Used, Activity

\* GetProcessResources gives a reading.
LEMMA ReadingType ==
  ASSUME NEW u \in Use, NEW a \in Activities
  PROVE  GetProcessResources(u, a) \in Reading
<1>1. a \in Activity
  OBVIOUS
<1> QED
  BY <1>1 DEF Use, GetProcessResources, Activity, Reading, SameIO

\* The newest of a list of readings: no more than are asked for.
LEMMA NewestType ==
  ASSUME NEW s \in Seq(Reading)
  PROVE  Newest(s) \in Seq(Reading) /\ Len(Newest(s)) <= MaxSnapshots
<1> DEFINE n == Lesser(MaxSnapshots, Len(s))
<1>1. n \in Nat /\ n <= Len(s) /\ n <= MaxSnapshots
  BY DEF Lesser
<1> HIDE DEF n
<1>2. SubSeq(s, 1, n) \in Seq(Reading) /\ Len(SubSeq(s, 1, n)) = n
  BY <1>1
<1> QED
  BY <1>1, <1>2 DEF Newest, n
-----------------------------------------------------------------------------
(* Types. *)

Shape ==
  /\ status \in [Tasks -> {"pending", "running", "done"}]
  /\ pc \in [Workers -> {"poll", "claimed", "run", "written"}]
  /\ held \in [Workers -> Tasks \cup {None}]
  /\ monitors \in [Tasks -> Loops \cup {None}]
  /\ loop \in [Loops -> {"none", "select", "sampled", "exited"}]
  /\ subject \in [Loops -> Tasks \cup {None}]
  /\ told \subseteq Loops /\ overlap \subseteq Workers

\* A worker that is not polling holds a task; a loop that was launched has one.
Holding ==
  /\ \A w \in Workers : pc[w] # "poll" => held[w] \in Tasks
  /\ \A w \in Workers : pc[w] = "poll" => held[w] = None
  /\ \A l \in Loops : loop[l] # "none" => subject[l] \in Tasks

\* Processes, readings and snapshots.
DataTyped ==
  /\ process \in [Tasks -> Use]
  /\ sample \in [Loops -> Reading \cup {None}]
  /\ snapshots \in [Tasks -> Seq(Reading)]
  /\ \A t \in Tasks : Len(snapshots[t]) <= MaxSnapshots
  /\ \A l \in Loops : loop[l] = "sampled" => sample[l] \in Reading

TypeInv == Shape /\ Holding /\ DataTyped

\* Every step keeps the types.
LEMMA TypeInvNext == TypeInv /\ [Next]_vars => TypeInv'
<1> SUFFICES ASSUME TypeInv, [Next]_vars PROVE TypeInv'
  OBVIOUS
<1> USE DEF TypeInv
<1>1. ASSUME NEW w \in Workers, NEW t \in Tasks, Claim(w, t)
      PROVE  TypeInv'
  <2>1. Shape'
    BY <1>1 DEF Claim, Shape, loopVars
  <2>2. Holding'
    BY <1>1 DEF Claim, Shape, Holding, loopVars
  <2> QED
    BY <1>1, <2>1, <2>2 DEF Claim, DataTyped, loopVars
<1>2. ASSUME NEW w \in Workers, StartMonitoring(w)
      PROVE  TypeInv'
  <2>1. Shape'
    BY <1>2 DEF StartMonitoring, Launch, Shape
  <2>2. Holding'
    BY <1>2 DEF StartMonitoring, Launch, Shape, Holding
  <2> QED
    BY <1>2, <2>1, <2>2 DEF StartMonitoring, Launch, Shape, DataTyped
<1>3. ASSUME NEW w \in Workers, WriteOutcome(w)
      PROVE  TypeInv'
  <2>1. Shape'
    BY <1>3 DEF WriteOutcome, Shape, loopVars
  <2>2. Holding'
    BY <1>3 DEF WriteOutcome, Shape, Holding, loopVars
  <2> QED
    BY <1>3, <2>1, <2>2 DEF WriteOutcome, DataTyped, loopVars
<1>4. ASSUME NEW w \in Workers, StopMonitoring(w)
      PROVE  TypeInv'
  <2>1. held[w] \in Tasks
    BY <1>4 DEF StopMonitoring, Holding, Shape
  <2>2. Shape'
    BY <1>4, <2>1 DEF StopMonitoring, Release, Shape
  <2>3. Holding'
    BY <1>4 DEF StopMonitoring, Release, Shape, Holding
  <2> QED
    BY <1>4, <2>2, <2>3 DEF StopMonitoring, DataTyped
<1>5. ASSUME NEW l \in Loops, NEW a \in Activities, Tick(l, a)
      PROVE  TypeInv'
  <2>1. subject[l] \in Tasks
    BY <1>5 DEF Tick, Holding, Shape
  <2>2. Used(process[subject[l]], a) \in Use
    BY <2>1, UsedType DEF DataTyped
  <2>3. process' = [process EXCEPT ![subject[l]] = Used(process[subject[l]], a)]
    BY <1>5 DEF Tick
  <2>4. process'[subject[l]] \in Use /\ process' \in [Tasks -> Use]
    BY <2>1, <2>2, <2>3 DEF DataTyped
  <2>5. GetProcessResources(process'[subject[l]], a) \in Reading
    BY <2>4, ReadingType
  <2>6. sample' = [sample EXCEPT ![l] = GetProcessResources(process'[subject[l]], a)]
    BY <1>5 DEF Tick
  <2>7. DataTyped'
    BY <1>5, <2>4, <2>5, <2>6 DEF Tick, DataTyped, Shape
  <2> QED
    BY <1>5, <2>7 DEF Tick, Shape, Holding, workerVars
<1>6. ASSUME NEW l \in Loops, Save(l)
      PROVE  TypeInv'
  <2>1. subject[l] \in Tasks /\ sample[l] \in Reading
    BY <1>6 DEF Save, Holding, Shape, DataTyped
  <2> DEFINE s == <<sample[l]>> \o snapshots[subject[l]]
  <2>2. s \in Seq(Reading)
    BY <2>1 DEF DataTyped
  <2>3. snapshots' = [snapshots EXCEPT ![subject[l]] = Newest(s)]
    BY <1>6 DEF Save
  <2> HIDE DEF s
  <2>4. Newest(s) \in Seq(Reading) /\ Len(Newest(s)) <= MaxSnapshots
    BY <2>2, NewestType
  <2>5. /\ snapshots' \in [Tasks -> Seq(Reading)]
        /\ \A t \in Tasks : Len(snapshots'[t]) <= MaxSnapshots
    BY <2>1, <2>3, <2>4 DEF DataTyped
  <2>6. DataTyped'
    BY <1>6, <2>1, <2>5 DEF Save, DataTyped, Shape
  <2> QED
    BY <1>6, <2>6 DEF Save, Shape, Holding, workerVars
<1>7. ASSUME NEW l \in Loops, LoopStops(l)
      PROVE  TypeInv'
  BY <1>7 DEF LoopStops, Shape, Holding, DataTyped, workerVars
<1>8. CASE UNCHANGED vars
  BY <1>8 DEF vars, Shape, Holding, DataTyped
<1> QED
  BY <1>1, <1>2, <1>3, <1>4, <1>5, <1>6, <1>7, <1>8 DEF Next

\* Init establishes them.
LEMMA TypeInvInit == Init => TypeInv
<1> SUFFICES ASSUME Init PROVE TypeInv
  OBVIOUS
<1>1. NoUse \in Use
  BY DEF NoUse, Use
<1>2. \A S : <<>> \in Seq(S)
  OBVIOUS
<1> QED
  BY <1>1, <1>2 DEF Init, TypeInv, Shape, Holding, DataTyped

\* They hold throughout.
LEMMA TypeInvHolds == Spec => []TypeInv
  BY TypeInvInit, TypeInvNext, PTL DEF Spec

(***************************************************************************)
(* The monitor's map, its goroutines and the workers keep their types, and *)
(* the detector never sees more snapshots of a task than it asked for,     *)
(* however often the tickers fire.                                         *)
(***************************************************************************)
THEOREM TypeCorrect == Spec => []TypeOK
<1>1. TypeInv => TypeOK
  BY DEF TypeInv, Shape, DataTyped, TypeOK
<1> QED
  BY <1>1, TypeInvHolds, PTL
-----------------------------------------------------------------------------
(* The map of monitors and its goroutines. *)

\* A loop has an entry in the map under its own task only, and only a loop
\* that was launched is told to stop.
EntriesAreOwn ==
  /\ \A t \in Tasks : monitors[t] # None => subject[monitors[t]] = t
  /\ \A l \in told : loop[l] # "none"

MapInv == TypeInv /\ MonitorsMatchLoops /\ EntriesAreOwn /\ NoMonitorWithoutExecution

\* Every step preserves it: StartMonitoring launches a loop only where there
\* is none, and StopMonitoring tells the one it deletes.
LEMMA MapInvNext == MapInv /\ [Next]_vars => MapInv'
<1> SUFFICES ASSUME MapInv, [Next]_vars PROVE MapInv'
  OBVIOUS
<1>0. TypeInv /\ TypeInv'
  BY TypeInvNext DEF MapInv
<1> DEFINE Goal == MonitorsMatchLoops' /\ EntriesAreOwn' /\ NoMonitorWithoutExecution'
<1>1. ASSUME NEW w \in Workers, NEW t \in Tasks, Claim(w, t)
      PROVE  Goal
  BY <1>0, <1>1 DEF Claim, loopVars, MapInv, MonitorsMatchLoops, EntriesAreOwn,
                    NoMonitorWithoutExecution, Active, TypeInv, Shape, Holding
<1>2. ASSUME NEW w \in Workers, StartMonitoring(w)
      PROVE  Goal
  <2>1. /\ held[w] \in Tasks /\ UNCHANGED <<held, told>>
        /\ pc'[w] = "run" /\ \A v \in Workers : v # w => pc'[v] = pc[v]
        /\ pc[w] = "claimed"
    BY <1>0, <1>2 DEF StartMonitoring, TypeInv, Shape, Holding
  <2>2. CASE UNCHANGED <<monitors, loop, subject>>
    BY <1>0, <2>1, <2>2 DEF MapInv, MonitorsMatchLoops, EntriesAreOwn,
                            NoMonitorWithoutExecution, Active
  <2>3. ASSUME monitors[held[w]] = None, NEW l \in Loops, loop[l] = "none",
               monitors' = [monitors EXCEPT ![held[w]] = l],
               loop' = [loop EXCEPT ![l] = "select"],
               subject' = [subject EXCEPT ![l] = held[w]]
        PROVE  Goal
    <3>1. l \notin Active /\ Active' = Active \cup {l} /\ l \notin told
      BY <1>0, <2>1, <2>3 DEF Active, MapInv, EntriesAreOwn, TypeInv, Shape
    <3>2. /\ monitors'[held[w]] = l /\ subject'[l] = held[w] /\ l # None
          /\ \A t \in Tasks : t # held[w] => monitors'[t] = monitors[t]
          /\ \A k \in Loops : k # l => subject'[k] = subject[k] /\ loop'[k] = loop[k]
      BY <1>0, <2>1, <2>3 DEF TypeInv, Shape
    <3>3. \A k \in Active : subject[k] \in Tasks /\ subject[k] # held[w] /\ k \in Loops
      BY <1>0, <2>3 DEF Active, MapInv, MonitorsMatchLoops, TypeInv, Holding
    <3>4. MonitorsMatchLoops'
      BY <3>1, <3>2, <3>3 DEF MapInv, MonitorsMatchLoops
    <3>5. EntriesAreOwn'
      BY <1>0, <2>1, <3>1, <3>2
         DEF MapInv, EntriesAreOwn, MonitorsMatchLoops, Active, TypeInv, Shape
    <3>6. NoMonitorWithoutExecution'
      BY <2>1, <3>2 DEF MapInv, NoMonitorWithoutExecution
    <3> QED
      BY <3>4, <3>5, <3>6
  <2> QED
    BY <1>2, <2>2, <2>3 DEF StartMonitoring, Launch
<1>3. ASSUME NEW w \in Workers, WriteOutcome(w)
      PROVE  Goal
  BY <1>0, <1>3 DEF WriteOutcome, loopVars, MapInv, MonitorsMatchLoops, EntriesAreOwn,
                    NoMonitorWithoutExecution, Active, TypeInv, Shape
<1>4. ASSUME NEW w \in Workers, StopMonitoring(w)
      PROVE  Goal
  <2>1. /\ held[w] \in Tasks /\ UNCHANGED <<loop, subject>>
        /\ told' = told \cup ({monitors[held[w]]} \ {None})
        /\ monitors'[held[w]] = None
        /\ \A t \in Tasks : t # held[w] => monitors'[t] = monitors[t]
        /\ \A v \in Workers : v # w => pc'[v] = pc[v] /\ held'[v] = held[v]
    BY <1>0, <1>4 DEF StopMonitoring, Release, TypeInv, Shape, Holding
  <2>2. Active' = Active \ {monitors[held[w]]}
    BY <1>0, <2>1 DEF Active, TypeInv, Shape
  <2>3. MonitorsMatchLoops'
    <3>1. ASSUME NEW l \in Active'
          PROVE  monitors'[subject'[l]] = l
      BY <1>0, <2>1, <2>2 DEF MapInv, MonitorsMatchLoops, Active, TypeInv, Holding
    <3>2. ASSUME NEW t \in Tasks, monitors'[t] # None
          PROVE  monitors'[t] \in Active'
      BY <2>1, <2>2, <3>2 DEF MapInv, MonitorsMatchLoops, EntriesAreOwn
    <3> QED
      BY <3>1, <3>2 DEF MonitorsMatchLoops
  <2>4. EntriesAreOwn'
    BY <2>1 DEF MapInv, EntriesAreOwn, MonitorsMatchLoops, Active
  <2>5. NoMonitorWithoutExecution'
    BY <2>1 DEF MapInv, NoMonitorWithoutExecution
  <2> QED
    BY <2>3, <2>4, <2>5
<1>5. ASSUME NEW l \in Loops,
             \/ \E a \in Activities : Tick(l, a)
             \/ Save(l) \/ LoopStops(l)
      PROVE  Goal
  <2>1. /\ UNCHANGED <<pc, held, monitors, subject, told>>
        /\ \A k \in Loops : k # l => loop'[k] = loop[k]
        /\ loop[l] \in {"select", "sampled"} /\ loop'[l] # "none"
        /\ loop'[l] \in {"select", "sampled"} \/ l \in told
    BY <1>0, <1>5 DEF Tick, Save, LoopStops, workerVars, TypeInv, Shape
  <2>2. Active' = Active
    BY <2>1 DEF Active
  <2> QED
    BY <1>0, <2>1, <2>2 DEF MapInv, MonitorsMatchLoops, EntriesAreOwn,
                            NoMonitorWithoutExecution, TypeInv, Shape
<1>6. CASE UNCHANGED vars
  <2>1. UNCHANGED <<pc, held, monitors, loop, subject, told>>
    BY <1>6 DEF vars
  <2>2. Active' = Active
    BY <2>1 DEF Active
  <2> QED
    BY <1>0, <2>1, <2>2 DEF MapInv, MonitorsMatchLoops, EntriesAreOwn, NoMonitorWithoutExecution
<1> QED
  BY <1>0, <1>1, <1>2, <1>3, <1>4, <1>5, <1>6 DEF Next, MapInv

\* It holds throughout.
LEMMA MapInvHolds == Spec => []MapInv
<1>1. Init => MapInv
  <2> SUFFICES ASSUME Init PROVE MapInv
    OBVIOUS
  <2>1. Active = {}
    BY DEF Init, Active
  <2> QED
    BY <2>1, TypeInvInit DEF Init, MapInv, MonitorsMatchLoops, EntriesAreOwn,
                             NoMonitorWithoutExecution
<1> QED
  BY <1>1, MapInvNext, PTL DEF Spec

(***************************************************************************)
(* The map of monitors and the loop goroutines agree, however executions   *)
(* of a task overlap: each task has at most one loop that is not told to   *)
(* stop, the one the map has for it.                                       *)
(***************************************************************************)
THEOREM MapMatchesLoops == Spec => []MonitorsMatchLoops
<1>1. MapInv => MonitorsMatchLoops
  BY DEF MapInv
<1> QED
  BY <1>1, MapInvHolds, PTL

(***************************************************************************)
(* A task has an entry in the map only while some worker still has to make *)
(* its deferred StopMonitoring for it.                                     *)
(***************************************************************************)
THEOREM MonitorHasExecution == Spec => []NoMonitorWithoutExecution
<1>1. MapInv => NoMonitorWithoutExecution
  BY DEF MapInv
<1> QED
  BY <1>1, MapInvHolds, PTL
-----------------------------------------------------------------------------
(* Overlapping executions. *)

\* Between Claim and WriteOutcome a worker is the only one with its task.
Runs(w) == pc[w] \in {"claimed", "run"}

OneRuns ==
  /\ \A w \in Workers : Runs(w) => status[held[w]] = "running"
  /\ \A v, w \in Workers : v # w /\ Runs(v) /\ Runs(w) => held[v] # held[w]

\* A worker whose task another one has yet to make its deferred call for is
\* known to overlap.
OverlapKnown ==
  \A v, w \in Workers :
    v # w /\ pc[v] = "written" /\ Runs(w) /\ held[v] = held[w] => w \in overlap

OverlapInv == MapInv /\ OneRuns /\ OverlapKnown /\ UnmonitoredOnlyAfterOverlap

\* Every step preserves it.
LEMMA OverlapInvNext == OverlapInv /\ [Next]_vars => OverlapInv'
<1> SUFFICES ASSUME OverlapInv, [Next]_vars PROVE OverlapInv'
  OBVIOUS
<1>0. MapInv /\ MapInv' /\ TypeInv /\ Shape /\ Holding
  BY MapInvNext DEF OverlapInv, MapInv, TypeInv
<1> DEFINE Goal == OneRuns' /\ OverlapKnown' /\ UnmonitoredOnlyAfterOverlap'
<1>1. ASSUME NEW w \in Workers, NEW t \in Tasks, Claim(w, t)
      PROVE  Goal
  <2>1. /\ pc[w] = "poll" /\ status[t] = "pending" /\ status'[t] = "running"
        /\ \A u \in Tasks : u # t => status'[u] = status[u]
        /\ pc'[w] = "claimed" /\ held'[w] = t /\ monitors' = monitors
        /\ \A v \in Workers : v # w => pc'[v] = pc[v] /\ held'[v] = held[v]
        /\ overlap \subseteq overlap'
        /\ \A v \in Workers : held[v] = t => w \in overlap'
    BY <1>0, <1>1 DEF Claim, Shape
  <2>2. \A v \in Workers : Runs(v) => held[v] \in Tasks /\ held[v] # t
    BY <1>0, <2>1 DEF Runs, OverlapInv, OneRuns, Holding
  <2>3. OneRuns'
    BY <2>1, <2>2 DEF Runs, OverlapInv, OneRuns
  <2>4. OverlapKnown'
    BY <2>1 DEF Runs, OverlapInv, OverlapKnown
  <2>5. UnmonitoredOnlyAfterOverlap'
    BY <2>1 DEF OverlapInv, UnmonitoredOnlyAfterOverlap
  <2> QED
    BY <2>3, <2>4, <2>5
<1>2. ASSUME NEW w \in Workers, StartMonitoring(w)
      PROVE  Goal
  <2>1. /\ pc[w] = "claimed" /\ pc'[w] = "run" /\ UNCHANGED <<status, held, overlap>>
        /\ \A v \in Workers : v # w => pc'[v] = pc[v]
        /\ held[w] \in Tasks
    BY <1>0, <1>2 DEF StartMonitoring, Shape, Holding
  <2>2. /\ monitors'[held[w]] # None
        /\ \A u \in Tasks : u # held[w] => monitors'[u] = monitors[u]
    BY <1>0, <1>2, <2>1 DEF StartMonitoring, Launch, Shape
  <2>3. OneRuns' /\ OverlapKnown'
    BY <2>1 DEF Runs, OverlapInv, OneRuns, OverlapKnown
  <2>4. UnmonitoredOnlyAfterOverlap'
    BY <1>0, <2>1, <2>2 DEF OverlapInv, UnmonitoredOnlyAfterOverlap, Holding
  <2> QED
    BY <2>3, <2>4
<1>3. ASSUME NEW w \in Workers, WriteOutcome(w)
      PROVE  Goal
  <2>1. /\ pc[w] = "run" /\ pc'[w] = "written" /\ UNCHANGED <<held, overlap, monitors>>
        /\ \A v \in Workers : v # w => pc'[v] = pc[v]
        /\ \A u \in Tasks : u # held[w] => status'[u] = status[u]
    BY <1>0, <1>3 DEF WriteOutcome, Shape
  <2>2. \A v \in Workers : v # w /\ Runs(v) => held[v] \in Tasks /\ held[v] # held[w]
    BY <1>0, <2>1 DEF Runs, OverlapInv, OneRuns, Holding
  <2>3. OneRuns'
    BY <2>1, <2>2 DEF Runs, OverlapInv, OneRuns
  <2>4. OverlapKnown'
    BY <2>1, <2>2 DEF Runs, OverlapInv, OverlapKnown
  <2>5. UnmonitoredOnlyAfterOverlap'
    BY <2>1 DEF OverlapInv, UnmonitoredOnlyAfterOverlap
  <2> QED
    BY <2>3, <2>4, <2>5
<1>4. ASSUME NEW w \in Workers, StopMonitoring(w)
      PROVE  Goal
  <2>1. /\ pc[w] = "written" /\ pc'[w] = "poll" /\ status' = status
        /\ \A v \in Workers : v # w => pc'[v] = pc[v] /\ held'[v] = held[v]
        /\ overlap' = overlap \ {w} /\ held[w] \in Tasks
        /\ \A u \in Tasks : u # held[w] => monitors'[u] = monitors[u]
    BY <1>0, <1>4 DEF StopMonitoring, Release, Shape, Holding
  <2>2. OneRuns' /\ OverlapKnown'
    BY <2>1 DEF Runs, OverlapInv, OneRuns, OverlapKnown
  \* Whoever runs the task whose monitor goes is known to overlap.
  <2>3. ASSUME NEW v \in Workers, pc'[v] = "run", monitors'[held'[v]] = None
        PROVE  v \in overlap'
    <3>1. v # w /\ pc[v] = "run" /\ held'[v] = held[v] /\ held[v] \in Tasks
      BY <1>0, <2>1, <2>3 DEF Holding
    <3>2. CASE held[v] = held[w]
      BY <2>1, <3>1, <3>2 DEF OverlapInv, OverlapKnown, Runs
    <3>3. CASE held[v] # held[w]
      BY <2>1, <2>3, <3>1, <3>3 DEF OverlapInv, UnmonitoredOnlyAfterOverlap
    <3> QED
      BY <3>2, <3>3
  <2> QED
    BY <2>2, <2>3 DEF UnmonitoredOnlyAfterOverlap
<1>5. ASSUME UNCHANGED <<workerVars, monitors>>
      PROVE  Goal
  BY <1>5 DEF workerVars, OverlapInv, OneRuns, Runs, OverlapKnown, UnmonitoredOnlyAfterOverlap
<1>6. ASSUME NEW l \in Loops,
             \/ \E a \in Activities : Tick(l, a)
             \/ Save(l) \/ LoopStops(l)
      PROVE  Goal
  BY <1>5, <1>6 DEF Tick, Save, LoopStops
<1>7. CASE UNCHANGED vars
  <2>1. UNCHANGED <<status, pc, held, overlap, monitors>>
    BY <1>7 DEF vars
  <2> QED
    BY <1>0, <1>5, <2>1 DEF OverlapInv, workerVars
<1> QED
  BY <1>0, <1>1, <1>2, <1>3, <1>4, <1>6, <1>7 DEF Next, OverlapInv

(***************************************************************************)
(* A task runs without a monitor only in an execution that was claimed     *)
(* before the previous worker of the task made its deferred StopMonitoring:*)
(* that overlap is the one way to lose the monitor.                        *)
(***************************************************************************)
THEOREM UnmonitoredOverlaps == Spec => []UnmonitoredOnlyAfterOverlap
<1>1. Init => OneRuns /\ OverlapKnown /\ UnmonitoredOnlyAfterOverlap
  BY DEF Init, OneRuns, Runs, OverlapKnown, UnmonitoredOnlyAfterOverlap
<1>2. Init /\ MapInv => OverlapInv
  BY <1>1 DEF OverlapInv
<1>3. OverlapInv => UnmonitoredOnlyAfterOverlap
  BY DEF OverlapInv
<1> QED
  BY <1>2, <1>3, MapInvHolds, OverlapInvNext, PTL DEF Spec
-----------------------------------------------------------------------------
(* The judgement of the stuck detector. *)

\* The newest five of five or more.
LEMMA LesserFive ==
  ASSUME NEW n \in Nat, n >= 5
  PROVE  Lesser(5, n) = 5
  BY DEF Lesser

\* Five idle snapshots in front are enough for the count of isProcessFrozen.
LEMMA FiveIdle ==
  ASSUME NEW s \in Seq(Reading), Len(s) >= 5, \A i \in 1 .. 5 : s[i].cpu = 0,
         s[1].time - s[Len(s)].time <= 1
  PROVE  isProcessFrozen(s)
<1> DEFINE n == Len(s)
           Idle == {i \in 1 .. Lesser(5, n) : s[i].cpu < 10}
<1>1. n \in Nat
  OBVIOUS
<1>2. Lesser(5, n) = 5
  BY <1>1, LesserFive
<1>3. Idle = 1 .. 5
  BY <1>2
<1>4. Cardinality(Idle) = 5
  <2>1. 1 \in Int /\ 5 \in Int /\ ~(1 > 5) /\ 5 - 1 + 1 = 5
    OBVIOUS
  <2> QED
    BY <1>3, <2>1, FS_Interval
<1> HIDE DEF n
<1>5. Cardinality(Idle) >= 3 /\ n >= 3
  BY <1>1, <1>4 DEF n
<1> QED
  BY <1>5 DEF isProcessFrozen, n

\* The elements of a list of readings.
LEMMA ReadingAt ==
  ASSUME NEW s \in Seq(Reading), NEW i \in 1 .. Len(s)
  PROVE  /\ s[i].mem \in Nat /\ s[i].time \in Nat /\ s[i].cpu \in Nat
         /\ s[i].readable => s[i].time = s[i].true.time /\ SameIO(s[i], s[i].true)
<1>1. s[i] \in Reading
  OBVIOUS
<1> QED
  BY <1>1 DEF Reading

\* The two paths of IsStuck, as far as the properties need them.
LEMMA IsStuckPaths ==
  ASSUME NEW task, NEW s
  PROVE  /\ task.endless /\ isEndlessTaskStuck(s) => IsStuck(Thresholds, task, s)
         /\ ~task.endless /\ Len(s) >= 3 /\ (isProcessFrozen(s) \/ checkResourceExhaustion(s)) =>
              IsStuck(Thresholds, task, s)
  BY DEF IsStuck

(***************************************************************************)
(* However long the list of snapshots is, and whichever loops saved them:  *)
(* a process that did nothing over five or more readable snapshots is      *)
(* found by the ordinary path and by the endless one. That GetProcess-     *)
(* Resources reports the counters it can read unchanged is an invariant of *)
(* the readings (DataTyped).                                               *)
(***************************************************************************)
THEOREM SilentFound == Spec => []SilentIsStuck
<1>1. TypeInv => SilentIsStuck
  <2> SUFFICES ASSUME TypeInv, NEW t \in Tasks, Len(snapshots[t]) >= 5, Silent(snapshots[t]),
                      NEW endless \in BOOLEAN
               PROVE  IsStuck(Thresholds, [Ordinary EXCEPT !.endless = endless], snapshots[t])
    BY DEF SilentIsStuck
  <2> DEFINE s == snapshots[t]
  <2>1. s \in Seq(Reading) /\ Len(s) \in Nat /\ DOMAIN s = 1 .. Len(s)
    BY DEF TypeInv, DataTyped
  <2> HIDE DEF s
  <2>2. Len(s) >= 5 /\ Silent(s)
    BY DEF s
  <2>3. \A i \in 1 .. Len(s) : /\ s[i].cpu = 0 /\ s[i].time = s[1].true.time
                               /\ SameIO(s[i], s[1].true) /\ s[i].time \in Nat
    BY <2>1, <2>2, ReadingAt DEF Silent
  <2>4. \A i \in 1 .. 5 : s[i].cpu = 0 /\ SameIO(s[i], s[1].true)
    BY <2>1, <2>2, <2>3
  <2>5. isEndlessTaskStuck(s)
    <3>1. \A i \in 1 .. 5 : i > 1 => SameIO(s[i], s[i - 1])
      BY <2>4 DEF SameIO
    <3>2. s # <<>>
      BY <2>1, <2>2
    <3> QED
      BY <2>2, <2>4, <3>1, <3>2 DEF isEndlessTaskStuck
  <2>6. s[1].time - s[Len(s)].time <= 1
    BY <2>1, <2>2, <2>3
  <2>7. isProcessFrozen(s)
    BY <2>1, <2>2, <2>4, <2>6, FiveIdle
  <2>8. Len(s) >= 3
    BY <2>1, <2>2
  <2> DEFINE task == [Ordinary EXCEPT !.endless = endless]
  <2>9. task.endless = endless
    BY DEF Ordinary
  <2> HIDE DEF task
  <2>10. IsStuck(Thresholds, task, s)
    BY <2>5, <2>7, <2>8, <2>9, IsStuckPaths
  <2> QED
    BY <2>10 DEF s, task
<1> QED
  BY <1>1, TypeInvHolds, PTL

(***************************************************************************)
(* What isEndlessTaskStuck concludes from a list of any length, the        *)
(* ordinary path concludes too, except for zombies and for processes that  *)
(* used CPU time over the list.                                            *)
(***************************************************************************)
THEOREM EndlessStricter == Spec => []EndlessIsStricter
<1>1. TypeInv => EndlessIsStricter
  <2> SUFFICES ASSUME TypeInv, NEW t \in Tasks,
                      Len(snapshots[t]) >= 3, isEndlessTaskStuck(snapshots[t]),
                      snapshots[t][1].state # "zombie",
                      \/ snapshots[t][1].mem > 98
                      \/ snapshots[t][1].time <= snapshots[t][Len(snapshots[t])].time + 1
               PROVE  IsStuck(Thresholds, Ordinary, snapshots[t])
    BY DEF EndlessIsStricter
  <2> DEFINE s == snapshots[t]
  <2>1. s \in Seq(Reading) /\ Len(s) \in Nat
    BY DEF TypeInv, DataTyped
  <2> HIDE DEF s
  <2>2. /\ Len(s) >= 3 /\ isEndlessTaskStuck(s) /\ s[1].state # "zombie"
        /\ s[1].mem > 98 \/ s[1].time <= s[Len(s)].time + 1
    BY DEF s
  <2>3. s[1].mem \in Nat /\ s[1].time \in Nat /\ s[Len(s)].time \in Nat
    <3>1. 1 \in 1 .. Len(s) /\ Len(s) \in 1 .. Len(s)
      BY <2>1, <2>2
    <3> QED
      BY <2>1, <3>1, ReadingAt
  <2>4. isProcessFrozen(s) \/ checkResourceExhaustion(s)
    <3>1. CASE s[1].mem > 98
      BY <2>2, <2>3, <3>1 DEF isEndlessTaskStuck, checkResourceExhaustion
    <3>2. CASE ~(s[1].mem > 98)
      <4>1. Len(s) >= 5 /\ \A i \in 1 .. 5 : s[i].cpu = 0
        BY <2>2, <3>2 DEF isEndlessTaskStuck
      <4>2. s[1].time - s[Len(s)].time <= 1
        BY <2>2, <2>3, <3>2
      <4> QED
        BY <2>1, <4>1, <4>2, FiveIdle
    <3> QED
      BY <3>1, <3>2
  <2>5. ~Ordinary.endless
    BY DEF Ordinary
  <2>6. IsStuck(Thresholds, Ordinary, s)
    BY <2>2, <2>4, <2>5, IsStuckPaths
  <2> QED
    BY <2>6 DEF s
<1> QED
  BY <1>1, TypeInvHolds, PTL
=============================================================================
