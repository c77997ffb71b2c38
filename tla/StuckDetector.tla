---------------------------- MODULE StuckDetector ----------------------------
(***************************************************************************)
(* DefaultStuckDetector (stuck_detector.go): what IsStuck concludes from a *)
(* task and its resource snapshots, newest first. Percentages of CPU are   *)
(* in hundredths of a percent, CPU times in hundredths of a second.        *)
(***************************************************************************)
EXTENDS Integers, Sequences, FiniteSets

Snapshot ==
  [cpu : Nat, time : Nat, mem : Nat, rss : Nat, read : Nat, write : Nat,
   net : Nat, conns : Nat, fds : Nat, threads : Nat, state : {"", "sleep", "zombie"}]

Lesser(a, b) == IF a < b THEN a ELSE b

\* GetStuckThreshold: a type without a threshold has the default one.
GetStuckThreshold(thresholds, type) ==
  IF type \in DOMAIN thresholds THEN thresholds[type] ELSE thresholds["default"]

\* The age of the heartbeat against the threshold of the type, 0 being none,
\* or of the task. A task that never had a heartbeat has no age.
checkHeartbeatTimeout(thresholds, task) ==
  LET byType == GetStuckThreshold(thresholds, task.type)
      threshold == IF task.threshold > 0 THEN task.threshold ELSE byType IN
  byType # 0 /\ (task.beat = "none" \/ task.age > threshold)

\* Idle in three of the newest five, and no CPU time used over the whole list.
isProcessFrozen(s) ==
  /\ Len(s) >= 3
  /\ Cardinality({i \in 1 .. Lesser(5, Len(s)) : s[i].cpu < 10}) >= 3
  /\ s[1].time - s[Len(s)].time <= 1

\* Variant: the limits of the endless path.
ExhaustedSeverely(s) == s # <<>> /\ (s[1].mem > 99 \/ s[1].fds > 10000 \/ s[1].threads > 1000)

checkResourceExhaustion(s) ==
  s # <<>> /\ (s[1].mem > 95 \/ s[1].fds > 10000 \/ s[1].threads > 1000)

\* The snapshot three before the newest, or the oldest.
Earlier(s) == s[Lesser(3, Len(s) - 1) + 1]

\* Bytes read and bytes written are taken together, as those sent and received
\* are (net is their sum).
isIOStarved(s) ==
  /\ Len(s) >= 3 /\ s[1].cpu \in 1 .. 99
  /\ s[1].read + s[1].write = Earlier(s).read + Earlier(s).write

isNetworkHung(s) ==
  Len(s) >= 3 /\ s[1].conns > 0 /\ s[1].net = Earlier(s).net /\ s[1].cpu < 100

\* Memory grew in more than 80% of the intervals, and by more than half.
hasMemoryLeak(s) ==
  LET n == Len(s)
      increasing == Cardinality({i \in 1 .. n - 1 : s[i].rss > s[i + 1].rss}) IN
  /\ n >= 5
  /\ 10 * increasing > 8 * (n - 1)
  /\ s[n].rss > 0 /\ 2 * (s[1].rss - s[n].rss) > s[n].rss

\* Each of the two counters of I/O is compared.
SameIO(r, q) == r.read = q.read /\ r.write = q.write

\* Variant: one snapshot more is needed.
EndlessStuckLater(s) ==
  s # <<>> /\ \/ s[1].state = "zombie"
              \/ s[1].mem > 98
              \/ /\ Len(s) > 5
                 /\ \A i \in 1 .. 5 : s[i].cpu = 0 /\ (i > 1 => SameIO(s[i], s[i - 1]))

\* Zombie, out of memory, or no activity over the newest five.
isEndlessTaskStuck(s) ==
  s # <<>> /\ \/ s[1].state = "zombie"
              \/ s[1].mem > 98
              \/ /\ Len(s) >= 5
                 /\ \A i \in 1 .. 5 : s[i].cpu = 0 /\ (i > 1 => SameIO(s[i], s[i - 1]))

IsStuck(thresholds, task, s) ==
  IF task.endless THEN isEndlessTaskStuck(s)
  ELSE \/ checkHeartbeatTimeout(thresholds, task)
       \/ task.overdue
       \/ /\ Len(s) >= 3
          /\ \/ isProcessFrozen(s) \/ checkResourceExhaustion(s) \/ isIOStarved(s)
             \/ isNetworkHung(s) \/ hasMemoryLeak(s)
=============================================================================
