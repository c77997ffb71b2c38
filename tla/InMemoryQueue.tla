---------------------------- MODULE InMemoryQueue ----------------------------
(***************************************************************************)
(* InMemoryTaskQueue (task_queue.go): a map of tasks and a list of         *)
(* pointers to them that an exchange sort keeps ordered. The list is       *)
(* cleaned of a task only when the task is claimed: Requeue and Enqueue    *)
(* append without looking, MoveToDeadLetter and the outcome handlers of    *)
(* the pool change the shared task and leave the list alone, so the list   *)
(* may hold a task several times, and tasks that are not pending.          *)
(*                                                                         *)
(* Every method runs under the queue's lock and is one step. The worker    *)
(* that holds a claimed task writes its Status without the lock.           *)
(***************************************************************************)
EXTENDS Integers, Sequences, FiniteSets, Functions

CONSTANTS
  Tasks, Weight, Need, Readings, NoReading, WorkerCounts, NoTask,
  MaxClock,    \* bound: CreatedAt
  MaxEntries   \* bound: entries in the list

ASSUME QueueAssumption ==
  /\ Weight \in [Tasks -> Nat]
  /\ Need \in [Tasks -> [cpu : Nat, mem : Nat]]
  /\ Readings \subseteq [cpu : Nat, mem : Nat]
  /\ NoReading \notin Readings /\ WorkerCounts \subseteq Nat
  /\ NoTask \notin Tasks
  /\ MaxClock \in Nat /\ MaxEntries \in Nat

VARIABLES
  status,   \* the tasks map: Status of each; absent: not in it
  due,      \* the tasks whose ScheduledAt has passed
  created,  \* CreatedAt
  asked,    \* history: the reading the last Dequeue was made from, and the
            \* number of workers that shared it
  answer,   \* what that Dequeue returned
  clock,    \* time.Now, as far as CreatedAt tells it apart
  queue     \* the list

vars == <<status, due, created, asked, answer, clock, queue>>

\* Who shares a reading: all workers, or a lone caller that is no worker.
Sharers(n) == IF n = 0 THEN 1 ELSE n

\* What a worker asks for: its share of what is free, in whole cores and
\* megabytes. 0 is no limit, also when a share is less than 1.
calculateWorkerRequirements(free, n) ==
  IF free = NoReading THEN [cpu |-> 0, mem |-> 0]
  ELSE [cpu |-> (free.cpu \div 10) \div Sharers(n), mem |-> free.mem \div Sharers(n)]

Requirements ==
  {calculateWorkerRequirements(free, n) : free \in Readings \cup {NoReading}, n \in WorkerCounts}

\* A task waits while its status is pending, wherever the list has it.
Abstract == INSTANCE PriorityQueue
  WITH waiting <- {t \in Tasks : status[t] = "pending"},
       asked <- calculateWorkerRequirements(asked.free, asked.n)

Init ==
  /\ status = [t \in Tasks |-> "absent"]
  /\ due = {}
  /\ created = [t \in Tasks |-> 0]
  /\ asked = [free |-> NoReading, n |-> 0] /\ answer = NoTask
  /\ clock = 0
  /\ queue = <<>>
-----------------------------------------------------------------------------
(* The list. *)

\* With CreatedAt given by age.
shouldSwap(age, a, b) ==
  IF Weight[a] # Weight[b] THEN Weight[a] > Weight[b] ELSE age[a] > age[b]

Swapped(s, i, j) == [s EXCEPT ![i] = s[j], ![j] = s[i]]

\* Variant: one pass over the neighbours.
SortedOnce(age, q) ==
  LET at[i \in 0 .. Len(q)] ==
        IF i < 2 THEN q
        ELSE LET s == at[i - 1]
             IN  IF shouldSwap(age, s[i - 1], s[i]) THEN Swapped(s, i - 1, i) ELSE s
  IN  at[Len(q)]

\* The body of the double loop.
Exchange(age, s, i, j) ==
  IF i < j /\ shouldSwap(age, s[i], s[j]) THEN Swapped(s, i, j) ELSE s

\* The inner loop: at[j] is the list after its step j.
InnerLoop(age, q, i) ==
  LET at[j \in 0 .. Len(q)] == IF j = 0 THEN q ELSE Exchange(age, at[j - 1], i, j)
  IN  at[Len(q)]

\* The outer loop: at[i] is the list after its step i.
sortQueue(age, q) ==
  LET at[i \in 0 .. Len(q)] == IF i = 0 THEN q ELSE InnerLoop(age, at[i - 1], i)
  IN  at[Len(q)]

\* The list without its i-th entry.
Without(s, i) == SubSeq(s, 1, i - 1) \o SubSeq(s, i + 1, Len(s))
-----------------------------------------------------------------------------
\* The caller chose ScheduledAt; CreatedAt is now, which need not differ
\* from the CreatedAt of the task before.
Enqueue(t, now) ==
  /\ now \in {clock, clock + 1} /\ now <= MaxClock
  /\ Len(queue) < MaxEntries
  /\ clock' = now
  /\ status' = [status EXCEPT ![t] = "pending"]
  /\ created' = [created EXCEPT ![t] = now]
  /\ due' \in {due \cup {t}, due \ {t}}
  /\ queue' = sortQueue(created', Append(queue, t))
  /\ UNCHANGED <<asked, answer>>

\* The entries Dequeue may claim.
Candidates(r) ==
  {i \in DOMAIN queue : /\ status[queue[i]] = "pending"
                        /\ queue[i] \in due
                        /\ r.cpu > 0 => Need[queue[i]].cpu <= r.cpu
                        /\ r.mem > 0 => Need[queue[i]].mem <= r.mem}

\* Variant: Dequeue gives up at a task that does not fit.
DequeueHeadOnly(free, n) ==
  LET r == calculateWorkerRequirements(free, n)
      eligible == Candidates([cpu |-> 0, mem |-> 0])
      first == {i \in eligible \cap Candidates(r) : \A j \in eligible : i <= j} IN
  /\ \/ \E i \in first :
          /\ status' = [status EXCEPT ![queue[i]] = "running"]
          /\ answer' = queue[i]
          /\ queue' = Without(queue, i)
     \/ first = {} /\ answer' = NoTask /\ UNCHANGED <<status, queue>>
  /\ asked' = [free |-> free, n |-> n]
  /\ UNCHANGED <<due, created, clock>>

\* The first of them is claimed and its entry removed.
Dequeue(free, n) ==
  LET r == calculateWorkerRequirements(free, n) IN
  /\ \/ \E i \in Candidates(r) :
          /\ \A j \in Candidates(r) : i <= j
          /\ status' = [status EXCEPT ![queue[i]] = "running"]
          /\ answer' = queue[i]
          /\ queue' = Without(queue, i)
     \/ /\ Candidates(r) = {}
        /\ answer' = NoTask
        /\ UNCHANGED <<status, queue>>
  /\ asked' = [free |-> free, n |-> n]
  /\ UNCHANGED <<due, created, clock>>

\* Variant: a task that is running is taken to have an entry still.
RequeueUnlessRunning(t) ==
  /\ status[t] # "absent" /\ Len(queue) < MaxEntries
  /\ status' = [status EXCEPT ![t] = "pending"]
  /\ due' \in {due \cup {t}, due \ {t}}
  /\ queue' = IF status[t] = "running" THEN queue ELSE sortQueue(created, Append(queue, t))
  /\ UNCHANGED <<created, asked, answer, clock>>

\* Whatever the status of the task is. It keeps its CreatedAt.
Requeue(t) ==
  /\ status[t] # "absent" /\ Len(queue) < MaxEntries
  /\ status' = [status EXCEPT ![t] = "pending"]
  /\ due' \in {due \cup {t}, due \ {t}}
  /\ queue' = sortQueue(created, Append(queue, t))
  /\ UNCHANGED <<created, asked, answer, clock>>

MoveToDeadLetter(t) ==
  /\ status[t] # "absent"
  /\ status' = [status EXCEPT ![t] = "dead_letter"]
  /\ UNCHANGED <<due, created, asked, answer, clock, queue>>

\* handleTaskSuccess and handleTaskError write the outcome to the task.
Finish(t, outcome) ==
  /\ status[t] = "running"
  /\ status' = [status EXCEPT ![t] = outcome]
  /\ UNCHANGED <<due, created, asked, answer, clock, queue>>

\* ScheduledAt passes.
ScheduleDue(t) ==
  /\ status[t] # "absent" /\ t \notin due
  /\ due' = due \cup {t}
  /\ UNCHANGED <<status, created, asked, answer, clock, queue>>

-----------------------------------------------------------------------------
(* What the callers see. *)

\* The pending ones of the first count entries.
Peek(count) ==
  LET result[i \in 0 .. Len(queue)] ==
        IF i = 0 THEN <<>>
        ELSE IF i <= count /\ status[queue[i]] = "pending" THEN Append(result[i - 1], queue[i])
        ELSE result[i - 1]
  IN  result[Len(queue)]

GetPendingCount == Cardinality({t \in Tasks : status[t] = "pending"})

\* By priority, which has one weight each.
GetQueueDepth ==
  [w \in Range(Weight) |-> Cardinality({t \in Tasks : status[t] = "pending" /\ Weight[t] = w})]
-----------------------------------------------------------------------------
Next ==
  \/ \E t \in Tasks :
       \/ \E now \in 0 .. MaxClock : Enqueue(t, now)
       \/ Requeue(t) \/ MoveToDeadLetter(t) \/ ScheduleDue(t)
       \/ \E outcome \in {"completed", "failed"} : Finish(t, outcome)
  \/ \E free \in Readings \cup {NoReading}, n \in WorkerCounts : Dequeue(free, n)

Spec == Init /\ [][Next]_vars
-----------------------------------------------------------------------------
(* Properties. *)

(***************************************************************************)
(* The list implements the abstract queue: although it holds duplicates    *)
(* and leftovers, Dequeue always claims a pending and due task within the  *)
(* limits it was called with that no other such task precedes by priority  *)
(* and age, and returns nil only when there is none.                       *)
(***************************************************************************)
ImplementsPriorityQueue == Abstract!Spec

(***************************************************************************)
(* docs/TASK_LIFECYCLE.md on a claim, "Worker must have sufficient         *)
(* resources for the task's ResourceRequirements"; docs/ARCHITECTURE.md,   *)
(* the pool checks "whether the system has sufficient resources to satisfy *)
(* the task's ResourceRequirements". Even for the worker alone, all the    *)
(* free cores and megabytes it has read are enough for what it has claimed.*)
(***************************************************************************)
ClaimHasResources ==
  answer # NoTask /\ asked.free # NoReading =>
    Need[answer].cpu * 10 <= asked.free.cpu /\ Need[answer].mem <= asked.free.mem

(***************************************************************************)
(* The two records of what is pending agree: Peek, asked for the whole     *)
(* list, shows exactly the tasks that GetQueueDepth counts from the map,   *)
(* by priority. A counted task that the list has lost could never be       *)
(* claimed, and the pool would scale up for it for ever.                   *)
(***************************************************************************)
CountsMatchList ==
  LET shown == Range(Peek(Len(queue))) IN
  /\ GetPendingCount = Cardinality(shown)
  /\ \A w \in Range(Weight) :
       GetQueueDepth[w] = Cardinality({t \in shown : Weight[t] = w})

(***************************************************************************)
(* sortQueue sorts: no entry of the list should be swapped with a later    *)
(* one, also after an entry was taken out of the middle, and with equal    *)
(* tasks in the list.                                                      *)
(***************************************************************************)
QueueIsSorted ==
  \A i, j \in DOMAIN queue : i < j => ~shouldSwap(created, queue[i], queue[j])
=============================================================================
