--------------------------- MODULE ResourceMonitor ---------------------------
(***************************************************************************)
(* ProcessResourceMonitor (resource_monitor.go) as the workers of one pool *)
(* use it: executeTask starts monitoring the process of its task, by task  *)
(* id, and stops it in a deferred call that comes after the outcome has    *)
(* been written. The task may be claimed again in between, so that two     *)
(* executions share, or lose, one monitor. A loop goroutine per monitor    *)
(* takes readings and saves them as the task's snapshots, from which the   *)
(* stuck detector judges it.                                               *)
(***************************************************************************)
EXTENDS StuckDetector

CONSTANTS
  Tasks, Workers,
  Loops,         \* goroutines StartMonitoring can launch, one per call
  None,          \* no task, no loop
  Activities,    \* what a process may have done since its last reading
  MaxSnapshots,  \* the newest snapshots that are asked for: 10 in the code
  MaxUse         \* bound: what a process may use of anything; not how often it is sampled

\* What a process may have done, and how the reading of it went.
Activity ==
  [cpu : Nat, time : Nat, read : Nat, write : Nat, net : Nat, rss : Nat, mem : Nat,
   conns : Nat, fds : Nat, threads : Nat, state : STRING, readable : BOOLEAN]

ASSUME MonitorAssumption ==
  /\ None \notin Tasks \cup Loops
  /\ Activities \subseteq Activity
  /\ MaxSnapshots \in 0 .. 10 /\ MaxUse \in Nat

VARIABLES
  status,    \* the row: pending, running or done
  pc,        \* a worker: poll, claimed, run, written (the row, not yet stopped)
  held,      \* its task
  monitors,  \* the map of monitors, by task
  loop,      \* where a loop goroutine is: none, select, sampled, exited
  subject,   \* the task it monitors
  told,      \* the loops whose stopChan is closed
  sample,    \* the reading a loop has not yet saved
  process,   \* what the process of a task has used so far
  snapshots, \* the repository: the newest of a task's saved snapshots, newest first
  overlap    \* history: workers that claimed a task whose previous worker had
             \* not yet made its deferred call

vars == <<status, pc, held, monitors, loop, subject, told, sample, process, snapshots, overlap>>
workerVars == <<status, pc, held, overlap>>
loopVars == <<loop, subject, told, sample, process, snapshots>>

NoUse == [time |-> 0, read |-> 0, write |-> 0, net |-> 0, rss |-> 0]

Init ==
  /\ status = [t \in Tasks |-> "pending"]
  /\ pc = [w \in Workers |-> "poll"]
  /\ held = [w \in Workers |-> None]
  /\ monitors = [t \in Tasks |-> None]
  /\ loop = [l \in Loops |-> "none"]
  /\ subject = [l \in Loops |-> None]
  /\ told = {}
  /\ sample = [l \in Loops |-> None]
  /\ process = [t \in Tasks |-> NoUse]
  /\ snapshots = [t \in Tasks |-> <<>>]
  /\ overlap = {}
-----------------------------------------------------------------------------
(* executeTask. *)

Claim(w, t) ==
  /\ pc[w] = "poll" /\ status[t] = "pending"
  /\ status' = [status EXCEPT ![t] = "running"]
  /\ pc' = [pc EXCEPT ![w] = "claimed"]
  /\ held' = [held EXCEPT ![w] = t]
  /\ overlap' = IF \E v \in Workers : held[v] = t THEN overlap \cup {w} ELSE overlap
  /\ UNCHANGED <<monitors, loopVars>>

\* The map gets a monitor for the worker's task, and its goroutine is launched.
Launch(w) ==
  \E l \in Loops :
    /\ loop[l] = "none"
    /\ monitors' = [monitors EXCEPT ![held[w]] = l]
    /\ loop' = [loop EXCEPT ![l] = "select"]
    /\ subject' = [subject EXCEPT ![l] = held[w]]

\* Variants: a monitor that is there is replaced; a loop that has yet to exit
\* counts as one that is there.
StartMonitoringAnew(w) ==
  /\ pc[w] = "claimed"
  /\ pc' = [pc EXCEPT ![w] = "run"]
  /\ Launch(w)
  /\ UNCHANGED <<status, held, overlap, told, sample, process, snapshots>>
StartMonitoringOnceQuiet(w) ==
  /\ pc[w] = "claimed"
  /\ pc' = [pc EXCEPT ![w] = "run"]
  /\ IF \E l \in Loops : subject[l] = held[w] /\ loop[l] # "exited"
     THEN UNCHANGED <<monitors, loop, subject>>
     ELSE Launch(w)
  /\ UNCHANGED <<status, held, overlap, told, sample, process, snapshots>>

\* A task that is already monitored is an error, which is only logged.
StartMonitoring(w) ==
  /\ pc[w] = "claimed"
  /\ pc' = [pc EXCEPT ![w] = "run"]
  /\ \/ /\ monitors[held[w]] # None
        /\ UNCHANGED <<monitors, loop, subject>>
     \/ monitors[held[w]] = None /\ Launch(w)
  /\ UNCHANGED <<status, held, overlap, told, sample, process, snapshots>>

\* Execute returns and its outcome is written: the task is requeued, if there
\* is a loop left for the next execution, or done.
WriteOutcome(w) ==
  /\ pc[w] = "run"
  /\ pc' = [pc EXCEPT ![w] = "written"]
  /\ \/ /\ \E l \in Loops : loop[l] = "none"
        /\ status' = [status EXCEPT ![held[w]] = "pending"]
     \/ status' = [status EXCEPT ![held[w]] = "done"]
  /\ UNCHANGED <<held, overlap, monitors, loopVars>>

Release(w) ==
  /\ pc' = [pc EXCEPT ![w] = "poll"]
  /\ held' = [held EXCEPT ![w] = None]
  /\ overlap' = overlap \ {w}

\* Variants: the deferred call is made for tasks that are done only; the entry
\* is deleted and stopChan left open.
StopMonitoringIfDone(w) ==
  /\ pc[w] = "written"
  /\ LET over == {monitors[t] : t \in {u \in {held[w]} : status[u] = "done"}} \ {None} IN
     /\ told' = told \cup over
     /\ monitors' = [t \in Tasks |-> IF monitors[t] \in over THEN None ELSE monitors[t]]
  /\ Release(w)
  /\ UNCHANGED <<status, loop, subject, sample, process, snapshots>>
StopMonitoringSilently(w) ==
  /\ pc[w] = "written"
  /\ monitors' = [monitors EXCEPT ![held[w]] = None]
  /\ Release(w)
  /\ UNCHANGED <<status, told, loop, subject, sample, process, snapshots>>

\* By task id: whichever monitor the task has now.
StopMonitoring(w) ==
  /\ pc[w] = "written"
  /\ told' = told \cup ({monitors[held[w]]} \ {None})
  /\ monitors' = [monitors EXCEPT ![held[w]] = None]
  /\ Release(w)
  /\ UNCHANGED <<status, loop, subject, sample, process, snapshots>>
-----------------------------------------------------------------------------
(* monitorLoop. *)

\* What a process has used once it has done a.
Used(u, a) ==
  [time |-> u.time + a.time, read |-> u.read + a.read, write |-> u.write + a.write,
   net |-> u.net + a.net, rss |-> u.rss + a.rss]

\* GetProcessResources: a reading that fails leaves its field 0. The fields true
\* and readable are not in the code's snapshot: what the process really used,
\* and whether the counters could be read.
GetProcessResources(u, a) ==
  [cpu |-> a.cpu, mem |-> a.mem, conns |-> a.conns, fds |-> a.fds, threads |-> a.threads,
   time |-> IF a.readable THEN u.time ELSE 0, rss |-> IF a.readable THEN u.rss ELSE 0,
   read |-> IF a.readable THEN u.read ELSE 0, write |-> IF a.readable THEN u.write ELSE 0,
   net |-> u.net, state |-> a.state, true |-> u, readable |-> a.readable]

\* The ticker fires, as often as it likes, and the select takes it even if
\* stopChan is closed. When the process is gone the loop just goes on.
Tick(l, a) ==
  LET t == subject[l] IN
  /\ loop[l] = "select"
  /\ \A what \in DOMAIN NoUse : Used(process[t], a)[what] <= MaxUse
  /\ loop' = [loop EXCEPT ![l] = "sampled"]
  /\ process' = [process EXCEPT ![t] = Used(@, a)]
  /\ sample' = [sample EXCEPT ![l] = GetProcessResources(process'[t], a)]
  /\ UNCHANGED <<workerVars, monitors, subject, told, snapshots>>

\* The newest of the list s, as many as GetResourceSnapshots is asked for.
Newest(s) == SubSeq(s, 1, Lesser(MaxSnapshots, Len(s)))

\* Variant: the oldest is left out before the new one is added.
SaveBeyondLimit(l) ==
  /\ loop[l] = "sampled"
  /\ loop' = [loop EXCEPT ![l] = "select"]
  /\ snapshots' = [snapshots EXCEPT ![subject[l]] = <<sample[l]>> \o Newest(@)]
  /\ sample' = [sample EXCEPT ![l] = None]
  /\ UNCHANGED <<workerVars, monitors, subject, told, process>>

\* SaveResourceSnapshot, of which the newest are kept that the detector asks
\* for. When it fails, what the process did shows in the next reading: that is
\* a tick that did not come, and not a step of its own.
Save(l) ==
  /\ loop[l] = "sampled"
  /\ loop' = [loop EXCEPT ![l] = "select"]
  /\ snapshots' = [snapshots EXCEPT ![subject[l]] = Newest(<<sample[l]>> \o @)]
  /\ sample' = [sample EXCEPT ![l] = None]
  /\ UNCHANGED <<workerVars, monitors, subject, told, process>>

\* stopChan is closed.
LoopStops(l) ==
  /\ loop[l] = "select" /\ l \in told
  /\ loop' = [loop EXCEPT ![l] = "exited"]
  /\ UNCHANGED <<workerVars, monitors, subject, told, sample, process, snapshots>>
-----------------------------------------------------------------------------
Next ==
  \/ \E w \in Workers : \/ \E t \in Tasks : Claim(w, t)
                        \/ StartMonitoring(w) \/ WriteOutcome(w) \/ StopMonitoring(w)
  \/ \E l \in Loops : (\E a \in Activities : Tick(l, a)) \/ Save(l) \/ LoopStops(l)

Spec == Init /\ [][Next]_vars

(***************************************************************************)
(* Loop goroutines run. A select that is offered a closed stopChan and a   *)
(* tick chooses at random: it does not choose the tick for ever.           *)
(***************************************************************************)
FairSpec == Spec /\ \A l \in Loops : WF_vars(Save(l)) /\ SF_vars(LoopStops(l))
-----------------------------------------------------------------------------
(* Properties. *)

TypeOK ==
  /\ status \in [Tasks -> {"pending", "running", "done"}]
  /\ pc \in [Workers -> {"poll", "claimed", "run", "written"}]
  /\ held \in [Workers -> Tasks \cup {None}]
  /\ monitors \in [Tasks -> Loops \cup {None}]
  /\ loop \in [Loops -> {"none", "select", "sampled", "exited"}]
  /\ subject \in [Loops -> Tasks \cup {None}]
  /\ told \subseteq Loops /\ overlap \subseteq Workers
  /\ \A t \in Tasks : Len(snapshots[t]) <= MaxSnapshots

\* Loops that run and have not been told to stop.
Active == {l \in Loops : loop[l] \in {"select", "sampled"} /\ l \notin told}

(***************************************************************************)
(* The map of monitors and the goroutines agree: every loop that is not    *)
(* told to stop is the one its task has in the map, so a task is never     *)
(* sampled by two loops for good and no loop is beyond the reach of        *)
(* StopMonitoring, whatever executions of the task overlap.                *)
(***************************************************************************)
MonitorsMatchLoops ==
  /\ \A l \in Active : monitors[subject[l]] = l
  /\ \A t \in Tasks : monitors[t] # None => monitors[t] \in Active

(***************************************************************************)
(* No monitor outlives the executions of its task: as long as a task has   *)
(* an entry in the map, a worker still has to make its deferred            *)
(* StopMonitoring for it. (An entry left behind would keep every later     *)
(* execution from being monitored by a loop of its own.)                   *)
(***************************************************************************)
NoMonitorWithoutExecution ==
  \A t \in Tasks : monitors[t] # None =>
    \E w \in Workers : held[w] = t /\ pc[w] \in {"run", "written"}

(***************************************************************************)
(* A task runs unmonitored only if it was claimed before its previous      *)
(* worker had made its deferred StopMonitoring, which then stops the       *)
(* monitor of the new execution.                                           *)
(***************************************************************************)
UnmonitoredOnlyAfterOverlap ==
  \A w \in Workers : pc[w] = "run" /\ monitors[held[w]] = None => w \in overlap

(***************************************************************************)
(* A loop that has lost its entry in the map ends: StopMonitoring leaves   *)
(* no goroutine behind, also when the ticker keeps firing.                 *)
(***************************************************************************)
StoppedLoopsExit ==
  \A l \in Loops :
    loop[l] # "none" /\ monitors[subject[l]] # l ~> loop[l] = "exited"

Ordinary == [endless |-> FALSE, type |-> "command", threshold |-> 0, beat |-> "some",
             age |-> 0, overdue |-> FALSE]
Thresholds == [default |-> 300, command |-> 180]

\* Over the snapshots s the process was idle and its counters were read.
Silent(s) == \A i \in DOMAIN s : s[i].readable /\ s[i].cpu = 0 /\ s[i].true = s[1].true

(***************************************************************************)
(* A process that does nothing is found by both paths of the detector, the *)
(* one for endless tasks too, which has no heartbeat check, as soon as     *)
(* there are five snapshots of it, whichever monitors and executions they  *)
(* come from and whichever readings before them were lost.                 *)
(***************************************************************************)
SilentIsStuck ==
  \A t \in Tasks :
    LET s == snapshots[t] IN
    Len(s) >= 5 /\ Silent(s) =>
      \A endless \in BOOLEAN : IsStuck(Thresholds, [Ordinary EXCEPT !.endless = endless], s)

(***************************************************************************)
(* The endless path is the more patient one: what it calls stuck, the      *)
(* ordinary path calls stuck too, once it has the three snapshots it needs *)
(* and unless the process is a zombie or used CPU time since the oldest.   *)
(***************************************************************************)
EndlessIsStricter ==
  \A t \in Tasks :
    LET s == snapshots[t] IN
    /\ Len(s) >= 3 /\ isEndlessTaskStuck(s)
    /\ s[1].state # "zombie" /\ (s[1].mem > 98 \/ s[1].time <= s[Len(s)].time + 1)
    => IsStuck(Thresholds, Ordinary, s)
=============================================================================
