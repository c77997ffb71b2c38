--------------------------- MODULE MessagingQueue ---------------------------
(***************************************************************************)
(* The messaging adapter (messaging_adapter.go) around the PostgreSQL      *)
(* queue and the executors of a pool, composed with the TaskEventPublisher *)
(* they announce every change through, and the queue-depth cache the       *)
(* PostgreSQL queue keeps (task_queue.go).                                 *)
(*                                                                         *)
(* Every wrapper first lets its delegate change the row and then, call by  *)
(* call, invalidates the cache and publishes an event. The task can be     *)
(* claimed as soon as the row is written, so the goroutine that claims it  *)
(* runs ahead of the one that still announces it. todo holds what is left  *)
(* of a wrapper's work once the row is written; a goroutine does nothing   *)
(* else before that is done.                                               *)
(*                                                                         *)
(* Stuck detection is off, so nobody writes the row of a task but the      *)
(* worker that has it, and Requeue is one step. All executors are wrapped. *)
(***************************************************************************)
EXTENDS Integers, Sequences, FiniteSets, Functions, TLC

CONSTANTS
  Tasks,        \* also names the goroutine that enqueues the task
  Workers,      \* worker goroutines
  Loops, NoEvent, BufferSize,  \* as in EventPublisher
  NoTask,
  MaxRetries,   \* of every task
  MaxDisturbances  \* bound: repository calls that fail and calls of SetEnabled

\* Workers are interchangeable.
WorkerSymmetry == Permutations(Workers)

Goroutines == Tasks \cup Workers

Statuses == {"absent", "pending", "running", "completed", "failed", "dead_letter"}
EventTypes ==
  {"created", "started", "progress", "completed", "failed", "retrying", "dead_letter"}

\* NewBackgroundTaskEvent: the fields that tell the state of the task.
Events == [task : Tasks, type : EventTypes, status : Statuses, retry : 0 .. MaxRetries]
Event(type, t, status, retry) ==
  [task |-> t, type |-> type, status |-> status, retry |-> retry]

\* A turn in a task's life, whatever status the event about it shows: that of
\* its n-th retry (0: the first attempt).
Turns == Tasks \X EventTypes \X (0 .. MaxRetries)
TurnOf(e) == <<e.task, e.type, e.retry>>

\* The goroutine that enqueues is no worker, and Start is called once.
ASSUME MessagingAssumption ==
  /\ NoTask \notin Tasks /\ NoEvent \notin Events
  /\ MaxRetries \in Nat /\ MaxDisturbances \in Nat /\ BufferSize \in Nat
  /\ Tasks \cap Workers = {}
  /\ \A k, l \in Loops : k = l

VARIABLES
  row,       \* the repository: status and retry count of a task
  pc,        \* a worker: poll, run, succeeded, errored or dead
  held,      \* the task of a worker
  retry,     \* RetryCount in the worker's copy of it
  todo,      \* what a goroutine still has to do: to invalidate the cache, and
             \* then to publish an event
  cache,     \* the tasks cachedDepth counts while it can be served, and two history
             \* flags: they were read before an invalidation and stored after it
             \* (overtaken), or before a committed write that its caller was told
             \* had failed (missed)
  fetch,     \* what a GetQueueDepth has read and not yet stored
  faults, switches,
  unmade,    \* history: turns a row took whose event was never made, as a call of
             \* the repository failed
  unwritten, \* history: turns an event tells that no row took, as the write failed
  premature, \* history: events handed over before the event that caused them
  skipped,   \* history: events not published because the flag was off
  early      \* history: the started events of tasks that were claimed before
             \* the event that explains the claim was published

VARIABLES enabled, buffer, stop, loop, taken, call, arg, panicked, sent, done, direct, late

pubVars == <<enabled, buffer, stop, loop, taken, call, arg, panicked, sent, done, direct, late>>

Pub == INSTANCE EventPublisher WITH Callers <- Goroutines, AsyncPublish <- TRUE

faultVars == <<faults, unmade, unwritten>>
rowVars == <<row, faultVars>>
workerVars == <<pc, held, retry>>
cacheVars == <<cache, fetch>>
noteVars == <<premature, skipped, early>>
vars == <<rowVars, workerVars, todo, cacheVars, switches, noteVars, pubVars>>

Nothing == [invalidate |-> FALSE, event |-> NoEvent]
Publish(e) == [invalidate |-> FALSE, event |-> e]
InvalidateAndPublish(e) == [invalidate |-> TRUE, event |-> e]

\* No counts, or counts past their TTL or invalidated, are never served.
NoCache == [counts |-> {}, overtaken |-> FALSE, missed |-> FALSE]

\* SetupMessagingForWorkerPool: one loop runs.
Init ==
  /\ row = [t \in Tasks |-> [status |-> "absent", retry |-> 0]]
  /\ pc = [w \in Workers |-> "poll"]
  /\ held = [w \in Workers |-> NoTask]
  /\ retry = [w \in Workers |-> 0]
  /\ todo = [g \in Goroutines |-> Nothing]
  /\ cache = NoCache
  /\ fetch = NoCache
  /\ faults = 0 /\ switches = 0
  /\ unmade = {} /\ unwritten = {}
  /\ premature = {} /\ skipped = {} /\ early = {}
  /\ enabled = TRUE
  /\ buffer = <<>> /\ stop = "no"
  /\ loop = [l \in Loops |-> "select"]
  /\ taken = [l \in Loops |-> NoEvent]
  /\ call = [g \in Goroutines |-> "idle"]
  /\ arg = [g \in Goroutines |-> NoEvent]
  /\ panicked = FALSE
  /\ sent = <<>> /\ done = <<>> /\ direct = {} /\ late = {}
-----------------------------------------------------------------------------
(* The publisher and the cache, as the wrappers use them. *)

\* Type and retry count of the event that comes before e in a task's life.
CauseOf(e) ==
  CASE e.type = "started" -> IF e.retry = 0 THEN <<"created", 0>> ELSE <<"retrying", e.retry - 1>>
    [] e.type \in {"progress", "completed", "failed"} -> <<"started", e.retry>>
    [] e.type \in {"retrying", "dead_letter"} -> <<"failed", e.retry>>
    [] OTHER -> <<"none", 0>>

IsCause(c, e) == c.task = e.task /\ <<c.type, c.retry>> = CauseOf(e)

\* The events publisher.Publish has returned for.
Delivered == Range(done) \cup direct

\* A step of the publisher. Events it hands over before their cause are noted.
PublisherStep ==
  /\ \/ \E g \in Goroutines : Pub!CallStep(g)
     \/ \E l \in Loops : Pub!LoopStep(l)
  /\ premature' = premature \cup
       {e \in Delivered' \ Delivered : ~\E c \in Delivered : IsCause(c, e)}
  /\ UNCHANGED <<rowVars, workerVars, todo, cacheVars, switches, skipped, early>>

Disturbable == faults + switches < MaxDisturbances

SetEnabled ==
  /\ Disturbable
  /\ switches' = switches + 1
  /\ \E b \in BOOLEAN : Pub!SetEnabled(b)
  /\ UNCHANGED <<rowVars, workerVars, todo, cacheVars, noteVars>>

Pending == {t \in Tasks : row[t].status = "pending"}

\* PostgresTaskQueue.invalidateCache
invalidateCache(g) ==
  /\ todo[g].invalidate
  /\ todo' = [todo EXCEPT ![g].invalidate = FALSE]
  /\ cache' = NoCache
  /\ fetch' = [fetch EXCEPT !.overtaken = fetch # NoCache]
  /\ UNCHANGED <<rowVars, workerVars, switches, noteVars, pubVars>>

\* TaskEventPublisher.Publish, which does nothing when it is disabled.
PublishEvent(g) ==
  /\ ~todo[g].invalidate /\ todo[g].event # NoEvent
  /\ todo' = [todo EXCEPT ![g] = Nothing]
  /\ \/ Pub!PublishCheck(g, todo[g].event) /\ UNCHANGED skipped
     \/ /\ ~enabled
        /\ skipped' = skipped \cup {todo[g].event}
        /\ UNCHANGED pubVars
  /\ UNCHANGED <<rowVars, workerVars, cacheVars, switches, premature, early>>

\* A goroutine may make its next call.
Free(g) == todo[g] = Nothing /\ call[g] = "idle"

\* GetQueueDepth without a cached answer reads the pending tasks (when there
\* are none, what it stores is never served) ...
GetQueueDepthFetch ==
  /\ cache = NoCache /\ fetch = NoCache /\ Pending # {}
  /\ fetch' = [counts |-> Pending, overtaken |-> FALSE, missed |-> FALSE]
  /\ UNCHANGED <<rowVars, workerVars, todo, cache, switches, noteVars, pubVars>>

\* ... and stores what it counted.
GetQueueDepthStore ==
  /\ fetch # NoCache
  /\ cache' = fetch
  /\ fetch' = NoCache
  /\ UNCHANGED <<rowVars, workerVars, todo, switches, noteVars, pubVars>>

\* depthCacheTTL passes.
CacheExpires ==
  /\ cache # NoCache
  /\ cache' = NoCache
  /\ UNCHANGED <<rowVars, workerVars, todo, fetch, switches, noteVars, pubVars>>
-----------------------------------------------------------------------------
(* The wrappers. A goroutine changes a row and has the rest left to do. *)

Fault == Disturbable /\ faults' = faults + 1

\* Goroutine g gives t the row r; then it goes on with the steps in rest.
Write(g, t, r, rest) ==
  /\ row' = [row EXCEPT ![t] = r]
  /\ todo' = [todo EXCEPT ![g] = rest]
  /\ UNCHANGED faultVars

\* Turn x is in t's row r and its event will not be made.
Untold(t, r, x) ==
  /\ Fault
  /\ row' = [row EXCEPT ![t] = r]
  /\ unmade' = unmade \cup {x}
  /\ UNCHANGED unwritten

\* The row stays as it is, and the turns in told are in no row.
NotWritten(told) ==
  /\ Fault
  /\ unwritten' = unwritten \cup told
  /\ UNCHANGED <<row, todo, unmade>>

\* Nobody will invalidate the counts there are.
CountsMissed ==
  /\ cache' = [cache EXCEPT !.missed = cache # NoCache]
  /\ fetch' = [fetch EXCEPT !.missed = fetch # NoCache]

announceVars == <<switches, premature, skipped, pubVars>>
otherVars == <<cacheVars, announceVars>>

Goto(w, to) == pc' = [pc EXCEPT ![w] = to] /\ UNCHANGED <<held, retry>>

\* The worker is free for the next task.
Release(w) ==
  /\ pc' = [pc EXCEPT ![w] = "poll"]
  /\ held' = [held EXCEPT ![w] = NoTask]
  /\ retry' = [retry EXCEPT ![w] = 0]

Enqueue(t) ==
  /\ row[t].status = "absent"
  /\ Write(t, t, [status |-> "pending", retry |-> 0],
           InvalidateAndPublish(Event("created", t, "pending", 0)))
  /\ UNCHANGED <<workerVars, early, otherVars>>

\* The write is committed and its reply lost: the caller is told that it failed,
\* and neither step follows. So too in Dequeue, Requeue and MoveToDeadLetter.
EnqueueReplyLost(t) ==
  /\ row[t].status = "absent"
  /\ Untold(t, [status |-> "pending", retry |-> 0], <<t, "created", 0>>)
  /\ CountsMissed
  /\ UNCHANGED <<workerVars, todo, early, announceVars>>

Published == Range(sent) \cup direct

\* A free worker w takes t, and goroutine g goes on with the steps in rest.
ClaimBy(w, t, g, rest) ==
  /\ pc[w] = "poll" /\ Free(w) /\ row[t].status = "pending"
  /\ Write(g, t, [row[t] EXCEPT !.status = "running"], rest)
  /\ pc' = [pc EXCEPT ![w] = "run"]
  /\ held' = [held EXCEPT ![w] = t]
  /\ retry' = [retry EXCEPT ![w] = row[t].retry]
  /\ early' = early \cup {e \in {Event("started", t, "running", row[t].retry)} :
                              ~\E c \in Published : IsCause(c, e)}
  /\ UNCHANGED otherVars

\* Variants: the delegate does not invalidate the cache; the event is published
\* by a goroutine of its own, while the worker goes on.
DequeueKeepsCache(w, t) ==
  ClaimBy(w, t, w, Publish(Event("started", t, "running", row[t].retry)))
DequeueDetached(w, t) ==
  Free(t) /\ ClaimBy(w, t, t, InvalidateAndPublish(Event("started", t, "running", row[t].retry)))

Dequeue(w, t) ==
  ClaimBy(w, t, w, InvalidateAndPublish(Event("started", t, "running", row[t].retry)))

DequeueReplyLost(w, t) ==
  /\ pc[w] = "poll" /\ Free(w) /\ row[t].status = "pending"
  /\ Untold(t, [row[t] EXCEPT !.status = "running"], <<t, "started", row[t].retry>>)
  /\ CountsMissed
  /\ UNCHANGED <<workerVars, todo, early, announceVars>>

Announced(e) ==
  e \in Published \cup skipped \cup UNION {{todo[g].event, arg[g]} : g \in Goroutines}

\* MessagingProgressReporter.ReportProgress, once per task here.
ReportProgress(w) ==
  LET e == Event("progress", held[w], "running", retry[w]) IN
  /\ pc[w] = "run" /\ Free(w) /\ retry[w] = 0 /\ ~Announced(e)
  /\ todo' = [todo EXCEPT ![w] = Publish(e)]
  /\ UNCHANGED <<rowVars, workerVars, early, otherVars>>

\* MessagingTaskExecutorWrapper.Execute announces the outcome before the pool
\* writes it.
Execute(w) ==
  /\ pc[w] = "run" /\ Free(w)
  /\ \/ /\ Goto(w, "succeeded")
        /\ todo' = [todo EXCEPT ![w] = Publish(Event("completed", held[w], "completed", retry[w]))]
     \/ /\ Goto(w, "errored")
        /\ todo' = [todo EXCEPT ![w] = Publish(Event("failed", held[w], "failed", retry[w]))]
  /\ UNCHANGED <<rowVars, early, otherVars>>

handleTaskSuccess(w) ==
  /\ pc[w] = "succeeded" /\ Free(w)
  /\ \/ Write(w, held[w], [row[held[w]] EXCEPT !.status = "completed"], Nothing)
     \/ NotWritten({<<held[w], "completed", retry[w]>>})
  /\ Release(w)
  /\ UNCHANGED <<early, otherVars>>

\* Variants: the delegate is not recognised, so there is no row to make an
\* event from; the check for retries left is off by one; the retry is not
\* counted.
RequeueWithoutEvent(w) ==
  /\ pc[w] = "errored" /\ Free(w) /\ retry[w] < MaxRetries
  /\ Write(w, held[w], [status |-> "pending", retry |-> row[held[w]].retry + 1],
           InvalidateAndPublish(NoEvent))
  /\ Release(w)
  /\ UNCHANGED <<early, otherVars>>
RequeueUncounted(w) ==
  LET t == held[w] IN
  /\ pc[w] = "errored" /\ Free(w) /\ retry[w] < MaxRetries
  /\ Write(w, t, [row[t] EXCEPT !.status = "pending"],
           InvalidateAndPublish(Event("retrying", t, row[t].status, row[t].retry)))
  /\ Release(w)
  /\ UNCHANGED <<early, otherVars>>
RequeueOnceMore(w) ==
  /\ pc[w] = "errored" /\ Free(w) /\ retry[w] <= MaxRetries
  /\ Write(w, held[w], [status |-> "pending", retry |-> row[held[w]].retry + 1],
           InvalidateAndPublish(NoEvent))
  /\ Release(w)
  /\ UNCHANGED <<early, otherVars>>

Retrying(t) == [status |-> "pending", retry |-> row[t].retry + 1]

\* Requeue: the event is made from the row as it was before the delegate's
\* write, so it names the attempt that has failed; without that row there is no
\* event, and neither when the delegate fails.
Requeue(w) ==
  LET t == held[w] IN
  /\ pc[w] = "errored" /\ Free(w) /\ retry[w] < MaxRetries
  /\ \/ Write(w, t, Retrying(t),
              InvalidateAndPublish(Event("retrying", t, row[t].status, row[t].retry)))
     \/ /\ Untold(t, Retrying(t), <<t, "retrying", row[t].retry>>)
        /\ todo' = [todo EXCEPT ![w] = InvalidateAndPublish(NoEvent)]
     \/ NotWritten({<<t, "failed", retry[w]>>})
  /\ Release(w)
  /\ UNCHANGED <<early, otherVars>>

RequeueReplyLost(w) ==
  LET t == held[w] IN
  /\ pc[w] = "errored" /\ Free(w) /\ retry[w] < MaxRetries
  /\ Untold(t, Retrying(t), <<t, "retrying", row[t].retry>>)
  /\ CountsMissed
  /\ Release(w)
  /\ UNCHANGED <<todo, early, announceVars>>

\* handleTaskError writes the failed row ...
FailUpdate(w) ==
  /\ pc[w] = "errored" /\ Free(w) /\ retry[w] >= MaxRetries
  /\ \/ Write(w, held[w], [row[held[w]] EXCEPT !.status = "failed"], Nothing)
     \/ NotWritten({})
  /\ Goto(w, "dead")
  /\ UNCHANGED <<early, otherVars>>

\* ... and MoveToDeadLetter follows, with an event made like Requeue's. When
\* neither writes, no row shows the failure that was announced.
MoveToDeadLetter(w) ==
  LET t == held[w]
      moved == [row[t] EXCEPT !.status = "dead_letter"] IN
  /\ pc[w] = "dead" /\ Free(w)
  /\ \/ Write(w, t, moved,
              InvalidateAndPublish(Event("dead_letter", t, row[t].status, row[t].retry)))
     \/ /\ Untold(t, moved, <<t, "dead_letter", row[t].retry>>)
        /\ todo' = [todo EXCEPT ![w] = InvalidateAndPublish(NoEvent)]
     \/ NotWritten({x \in {<<t, "failed", retry[w]>>} : row[t].status = "running"})
  /\ Release(w)
  /\ UNCHANGED <<early, otherVars>>

\* The counts are right without the invalidation: the task was not pending.
MoveToDeadLetterReplyLost(w) ==
  LET t == held[w] IN
  /\ pc[w] = "dead" /\ Free(w)
  /\ Untold(t, [row[t] EXCEPT !.status = "dead_letter"], <<t, "dead_letter", row[t].retry>>)
  /\ Release(w)
  /\ UNCHANGED <<todo, early, otherVars>>
-----------------------------------------------------------------------------
WorkerStep(w) ==
  \/ \E t \in Tasks : Dequeue(w, t) \/ DequeueReplyLost(w, t)
  \/ ReportProgress(w) \/ Execute(w) \/ handleTaskSuccess(w)
  \/ Requeue(w) \/ RequeueReplyLost(w)
  \/ FailUpdate(w) \/ MoveToDeadLetter(w) \/ MoveToDeadLetterReplyLost(w)

Next ==
  \/ \E t \in Tasks : Enqueue(t) \/ EnqueueReplyLost(t)
  \/ \E w \in Workers : WorkerStep(w)
  \/ \E g \in Goroutines : invalidateCache(g) \/ PublishEvent(g)
  \/ PublisherStep \/ SetEnabled
  \/ GetQueueDepthFetch \/ GetQueueDepthStore \/ CacheExpires

Spec == Init /\ [][Next]_vars
-----------------------------------------------------------------------------
(* Properties. *)

TypeOK ==
  /\ row \in [Tasks -> [status : Statuses, retry : 0 .. MaxRetries]]
  /\ pc \in [Workers -> {"poll", "run", "succeeded", "errored", "dead"}]
  /\ held \in [Workers -> Tasks \cup {NoTask}]
  /\ retry \in [Workers -> 0 .. MaxRetries]
  /\ todo \in [Goroutines -> [invalidate : BOOLEAN, event : Events \cup {NoEvent}]]
  /\ {cache, fetch} \subseteq [counts : SUBSET Tasks, overtaken : BOOLEAN, missed : BOOLEAN]
  /\ faults \in 0 .. MaxDisturbances /\ switches \in 0 .. MaxDisturbances
  /\ unmade \subseteq Turns /\ unwritten \subseteq Turns
  /\ premature \subseteq Events /\ skipped \subseteq Events /\ early \subseteq Events
  /\ Pub!TypeOK

(***************************************************************************)
(* Events of a task are handed over in the order of its life: an event     *)
(* precedes the one that caused it only if it found the buffer full and    *)
(* went past it, or if the task was claimed while the goroutine that had   *)
(* enqueued or requeued it was still on its way to announce that.          *)
(***************************************************************************)
LifecycleOrder ==
  \A e \in premature, c \in Delivered : IsCause(c, e) => e \in direct \cup early

(***************************************************************************)
(* Every turn in a task's life is announced at most once: what a goroutine *)
(* has left to publish was not published, handed to the publisher or       *)
(* swallowed before, and no other goroutine is about to publish it; over   *)
(* requeues, lost replies, lost writes and calls that failed half way.     *)
(* (Progress is no such turn: an executor reports it as often as it likes.)*)
(***************************************************************************)
AnnouncedOnce ==
  \A g \in Goroutines :
    LET e == todo[g].event IN
    e # NoEvent /\ e.type # "progress" =>
      /\ e \notin Published \cup skipped
      /\ \A h \in Goroutines : arg[h] # e /\ (h # g => todo[h].event # e)

\* Nobody has anything left to do.
Quiet ==
  /\ \A g \in Goroutines : Free(g)
  /\ \A w \in Workers : pc[w] = "poll"
  /\ buffer = <<>> /\ \A l \in Loops : taken[l] = NoEvent

\* The turns in the life of a task whose row has status s and retry count n:
\* those of the attempts before the n-th, and those of the n-th.
LastTurns(s) ==
  CASE s = "running" -> {"started"}
    [] s = "completed" -> {"started", "completed"}
    [] s = "failed" -> {"started", "failed"}
    [] s = "dead_letter" -> {"started", "failed", "dead_letter"}
    [] OTHER -> {}
History(t, s, n) ==
  (IF s = "absent" THEN {} ELSE {<<t, "created", 0>>})
  \cup ({t} \X {"started", "failed", "retrying"} \X (0 .. n - 1))
  \cup ({t} \X LastTurns(s) \X {n})

\* The turns the rows show.
TakenTurns == UNION {History(t, row[t].status, row[t].retry) : t \in Tasks}

\* The turns the events handed over tell, with those a switched-off publisher
\* swallowed.
ToldTurns == {TurnOf(e) : e \in {d \in Delivered \cup skipped : d.type # "progress"}}

(***************************************************************************)
(* docs/TASK_LIFECYCLE.md, "Event Flow Example": the events allow the full *)
(* reconstruction of a task's history. When everything is quiet, they tell *)
(* the turns in the rows; what they leave out, and what they tell and no   *)
(* row shows, is the doing of a repository call that failed, and each such *)
(* call accounts for one turn at most.                                     *)
(***************************************************************************)
HistoryReconstructible ==
  Quiet =>
    /\ ToldTurns = (TakenTurns \ unmade) \cup unwritten
    /\ Cardinality(unmade) + Cardinality(unwritten) <= faults

(***************************************************************************)
(* docs/TASK_LIFECYCLE.md:329, in the same example: "7. Retry decision ->  *)
(* task.retrying (status: pending, retry_count: 1)". Not so: Requeue makes *)
(* the event from the row it read before the delegate's write.             *)
(***************************************************************************)
RetryingShowsRequeue ==
  \A e \in Delivered : e.type = "retrying" => e.status = "pending" /\ e.retry >= 1

\* The life of the tasks, as their rows and workers show it.
Lifecycle ==
  INSTANCE TaskLifecycle WITH
    MaxRetries <- [t \in Tasks |-> MaxRetries],
    status <- [t \in Tasks |-> row[t].status],
    retries <- [t \in Tasks |-> row[t].retry],
    executing <- {t \in Tasks : \E w \in Workers : pc[w] # "poll" /\ held[w] = t}

(***************************************************************************)
(* The wrappers around queue and executors change nothing of a task's life *)
(* cycle, although the worker stops to publish at every turn of it: it is  *)
(* the one the pools have without them.                                    *)
(***************************************************************************)
ImplementsLifecycle == Lifecycle!Spec

(***************************************************************************)
(* The queue depth a caller is given from the cache is out of date only    *)
(* while a goroutine that changed a row has not yet invalidated the cache; *)
(* or, until the TTL ends it, when these counts were read before an        *)
(* invalidation and stored after it, or read before a committed write      *)
(* whose reply was lost, for which nobody invalidates.                     *)
(***************************************************************************)
StaleDepthExplained ==
  cache.counts \notin {{}, Pending} =>
    \/ cache.overtaken \/ cache.missed
    \/ \E g \in Goroutines : todo[g].invalidate
=============================================================================
