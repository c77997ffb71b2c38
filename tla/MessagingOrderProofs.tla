------------------------ MODULE MessagingOrderProofs ------------------------
(***************************************************************************)
(* What subscribers of the messaging adapter can rely on: the order in     *)
(* which the events of a task are published, and that they tell the turns  *)
(* of its life but for those the failed calls account for. Both follow one *)
(* event on its way: made by the wrapper that changed the row (todo), in   *)
(* Publish (arg), in the buffer or with the loop, and published (done).    *)
(***************************************************************************)
EXTENDS MessagingQueueProofs

USE MessagingAssumption
-----------------------------------------------------------------------------
(* The life of a task as a line: every event, and the task itself, has a   *)
(* place on it.                                                            *)

Phase(e) ==
  IF e.type = "created" THEN 0
  ELSE IF e.type = "started" THEN 1
  ELSE IF e.type \in {"progress", "completed", "failed"} THEN 2
  ELSE 3

\* The place of an event: three steps for every attempt.
Rank(e) == 3 * e.retry + Phase(e)

Runs(t) == \E w \in Workers : pc[w] = "run" /\ held[w] = t

\* The place of a task: that of the next event somebody makes of it.
Stage(t) ==
  IF row[t].status = "absent" THEN 0
  ELSE IF row[t].status = "pending" THEN 3 * row[t].retry + 1
  ELSE IF row[t].status = "dead_letter" THEN 3 * row[t].retry + 4
  ELSE IF Runs(t) THEN 3 * row[t].retry + 2
  ELSE 3 * row[t].retry + 3

\* Places are numbers.
LEMMA PlacesAreNumbers ==
  ASSUME TypeInv
  PROVE  /\ \A e \in Events : Rank(e) \in Nat /\ e.task \in Tasks /\ e.retry \in Nat
         /\ \A t \in Tasks : Stage(t) \in Nat
<1>1. \A t \in Tasks : row[t].retry \in Nat
  BY DEF TypeInv, WorkersTyped, Rows
<1> QED
  BY <1>1 DEF Rank, Phase, Stage, Events

\* What an event was caused by.
LEMMA CauseTypes ==
  ASSUME NEW c \in Events, NEW e \in Events, IsCause(c, e)
  PROVE  /\ c.task = e.task /\ e.type # "created"
         /\ e.type = "started" =>
              /\ c.type = (IF e.retry = 0 THEN "created" ELSE "retrying")
              /\ c.retry = (IF e.retry = 0 THEN 0 ELSE e.retry - 1)
         /\ e.type \in {"progress", "completed", "failed"} =>
              c.type = "started" /\ c.retry = e.retry
         /\ e.type \in {"retrying", "dead_letter"} => c.type = "failed" /\ c.retry = e.retry
<1>1. /\ c.task = e.task /\ <<c.type, c.retry>> = CauseOf(e)
      /\ e.type \in EventTypes /\ c.type \in EventTypes /\ e.retry \in Nat /\ c.retry \in Nat
  BY DEF IsCause, Events
<1>2. ASSUME e.type = "started"
      PROVE  /\ c.type = (IF e.retry = 0 THEN "created" ELSE "retrying")
             /\ c.retry = (IF e.retry = 0 THEN 0 ELSE e.retry - 1)
  <2>1. CauseOf(e) = IF e.retry = 0 THEN <<"created", 0>> ELSE <<"retrying", e.retry - 1>>
    BY <1>2 DEF CauseOf
  <2> QED
    BY <1>1, <2>1
<1>3. ASSUME e.type \in {"progress", "completed", "failed"}
      PROVE  c.type = "started" /\ c.retry = e.retry
  <2>1. CauseOf(e) = <<"started", e.retry>>
    BY <1>3 DEF CauseOf
  <2> QED
    BY <1>1, <2>1
<1>4. ASSUME e.type \in {"retrying", "dead_letter"}
      PROVE  c.type = "failed" /\ c.retry = e.retry
  <2>1. CauseOf(e) = <<"failed", e.retry>>
    BY <1>4 DEF CauseOf
  <2> QED
    BY <1>1, <2>1
<1>5. e.type # "created"
  <2> SUFFICES ASSUME e.type = "created" PROVE FALSE
    OBVIOUS
  <2>1. CauseOf(e) = <<"none", 0>>
    BY DEF CauseOf
  <2> QED
    BY <1>1, <2>1 DEF EventTypes
<1> QED
  BY <1>1, <1>2, <1>3, <1>4, <1>5
\* An event is one place after the event that caused it.
LEMMA CauseRank ==
  ASSUME NEW c \in Events, NEW e \in Events, IsCause(c, e)
  PROVE  c.task = e.task /\ Rank(e) = Rank(c) + 1
<1>1. e.type \in EventTypes /\ e.retry \in Nat /\ c.retry \in Nat
  BY DEF Events
<1>2. CASE e.type = "started" /\ e.retry = 0
  BY <1>1, <1>2, CauseTypes DEF Rank, Phase
<1>3. CASE e.type = "started" /\ e.retry # 0
  BY <1>1, <1>3, CauseTypes DEF Rank, Phase
<1>4. CASE e.type # "started"
  BY <1>1, <1>4, CauseTypes DEF Rank, Phase, EventTypes
<1> QED
  BY <1>2, <1>3, <1>4
-----------------------------------------------------------------------------
(* Events in the hands of goroutines. *)

\* Goroutine g has made e and not yet published it.
InHand(g, e) == todo[g].event = e \/ arg[g] = e

\* e has been published, or swallowed by a publisher that was switched off.
Gone == Published \cup skipped

\* e has been made.
Made(e) == e \in Gone \/ \E g \in Goroutines : InHand(g, e)

\* Made events are behind their task, or as far as it.
Ranked ==
  \A e \in Events : Made(e) =>
    \/ Rank(e) < Stage(e.task)
    \/ Rank(e) = Stage(e.task) /\ e.type = "progress"

\* When e has been made, nobody is still on the way to publish its cause;
\* unless its task was claimed early.
CauseGone ==
  \A e, c \in Events, g \in Goroutines :
    Made(e) /\ e \notin early /\ IsCause(c, e) => ~InHand(g, c)

\* The event of a turn in a task's life is made once.
OneHand ==
  \A c \in Events, g \in Goroutines :
    InHand(g, c) /\ c.type # "progress" =>
      c \notin Gone /\ \A h \in Goroutines : InHand(h, c) => h = g

\* The events that let a task be claimed have one status only: nothing but task
\* and attempt tells them apart.
StatusOf ==
  \A e \in Events : Made(e) =>
    /\ e.type = "created" => e.status = "pending"
    /\ e.type = "retrying" => e.status = "running"

\* The worker of a task is the only one that can be on the way to publish that
\* the task was started, or failed, this time.
OwnAttempt ==
  \A w \in Workers, g \in Goroutines, e \in Events :
    /\ pc[w] # "poll" /\ InHand(g, e)
    /\ e.task = held[w] /\ e.retry = retry[w] /\ e.type \in {"started", "failed"}
    => g = w

\* What is sent comes after its cause.
SentInOrder ==
  \A i, j \in 1 .. Len(sent) : sent[j] \notin early /\ IsCause(sent[i], sent[j]) => i < j

\* The cause of a premature event that nothing excuses is never published.
PrematureAlone ==
  \A e \in premature : e \notin direct /\ e \notin early =>
    e \in Published /\ ~\E c \in Published : IsCause(c, e)

\* A goroutine publishes one event at a time, and the one that enqueues a task
\* does nothing before.
OneThing ==
  /\ \A g \in Goroutines : todo[g].event # NoEvent => call[g] = "idle"
  /\ \A t \in Tasks : row[t].status = "absent" => call[t] = "idle" /\ todo[t] = Nothing

Making == Ranked /\ CauseGone /\ OneHand /\ StatusOf /\ SentInOrder /\ PrematureAlone

EventInv == Making /\ OwnAttempt /\ OneThing

\* A step puts e, and nothing else, into the hand of g; or nothing at all.
Makes(g, e) ==
  \A h \in Goroutines, x \in Events : InHand(h, x)' <=> InHand(h, x) \/ (h = g /\ x = e)
MakesNone ==
  \A h \in Goroutines, x \in Events : InHand(h, x)' <=> InHand(h, x)

\* The latter, or what was in a hand is not any more.
NoneAdded == \A h \in Goroutines, x \in Events : InHand(h, x)' => InHand(h, x)

\* It does when g had nothing to do, and now has e to publish.
LEMMA TodoMakes ==
  ASSUME NEW g \in Goroutines, NEW e \in Events,
         todo[g].event = NoEvent, todo'[g].event = e, OtherTodos(g), arg' = arg
  PROVE  Makes(g, e)
  BY DEF Makes, InHand, OtherTodos

\* It does not when what g has to publish stays the same.
LEMMA TodoMakesNone ==
  ASSUME NEW g \in Goroutines, todo'[g].event = todo[g].event, OtherTodos(g), arg' = arg
  PROVE  MakesNone
  BY DEF MakesNone, InHand, OtherTodos

\* A step that makes no event keeps what is known of the events made and sent,
\* if tasks only go forward.
LEMMA NoneAddedKeeps ==
  ASSUME TypeInv, Making, NoneAdded, UNCHANGED <<sent, direct, skipped, early>>,
         \A t \in Tasks : Stage(t)' >= Stage(t), \A t \in Tasks : Stage(t)' \in Nat
  PROVE  Ranked' /\ CauseGone' /\ OneHand' /\ StatusOf' /\ SentInOrder'
<1>0. /\ \A e \in Events : Rank(e) \in Nat /\ e.task \in Tasks
      /\ \A t \in Tasks : Stage(t) \in Nat
  BY PlacesAreNumbers
<1>1. Published' = Published /\ Gone' = Gone
  BY DEF Published, Gone
<1>2. ASSUME NEW e \in Events PROVE Made(e)' => Made(e)
  BY <1>1 DEF Made, NoneAdded
<1>3. Ranked'
  <2> SUFFICES ASSUME NEW e \in Events, Made(e)'
               PROVE  \/ Rank(e) < Stage(e.task)'
                      \/ Rank(e) = Stage(e.task)' /\ e.type = "progress"
    BY DEF Ranked, Rank, Phase
  <2> QED
    BY <1>0, <1>2 DEF Making, Ranked
<1>4. CauseGone' /\ OneHand' /\ StatusOf'
  BY <1>1, <1>2 DEF Making, CauseGone, OneHand, StatusOf, NoneAdded, IsCause
<1>5. SentInOrder'
  BY DEF Making, SentInOrder, IsCause
<1> QED
  BY <1>3, <1>4, <1>5

\* And all that is known, if it hands over none.
LEMMA NoNewEvent ==
  ASSUME TypeInv, Making, NoneAdded, UNCHANGED <<sent, direct, premature, skipped, early>>,
         \A t \in Tasks : Stage(t)' >= Stage(t), \A t \in Tasks : Stage(t)' \in Nat
  PROVE  Making'
<1>1. Published' = Published /\ Gone' = Gone
  BY DEF Published, Gone
<1>2. PrematureAlone'
  BY <1>1 DEF Making, PrematureAlone, IsCause
<1> QED
  BY <1>2, NoneAddedKeeps DEF Making

\* So does one that makes an event where the task is, with no cause on its way.
LEMMA NewEvent ==
  ASSUME TypeInv, Making, NEW g \in Goroutines, NEW e \in Events, Makes(g, e),
         UNCHANGED <<sent, direct, premature, skipped>>, early \subseteq early',
         \A t \in Tasks : Stage(t)' >= Stage(t), \A t \in Tasks : Stage(t)' \in Nat,
         Rank(e) = Stage(e.task),
         Stage(e.task)' > Stage(e.task) \/ e.type = "progress",
         \A c \in Events, h \in Goroutines : IsCause(c, e) /\ InHand(h, c) => e \in early',
         e.type = "created" => e.status = "pending",
         e.type = "retrying" => e.status = "running"
  PROVE  Making'
<1>0. /\ \A x \in Events : Rank(x) \in Nat /\ x.task \in Tasks
      /\ \A t \in Tasks : Stage(t) \in Nat
  BY PlacesAreNumbers
<1>1. Published' = Published /\ Gone' = Gone
  BY DEF Published, Gone
<1>2. ASSUME NEW x \in Events PROVE Made(x)' <=> Made(x) \/ x = e
  BY <1>1 DEF Made, Makes
<1>3. Ranked'
  <2> SUFFICES ASSUME NEW x \in Events, Made(x)'
               PROVE  \/ Rank(x) < Stage(x.task)'
                      \/ Rank(x) = Stage(x.task)' /\ x.type = "progress"
    BY DEF Ranked, Rank, Phase
  <2>1. CASE x = e
    BY <1>0, <2>1
  <2>2. CASE Made(x)
    BY <1>0, <2>2 DEF Making, Ranked
  <2> QED
    BY <1>2, <2>1, <2>2
<1>4. CauseGone'
  <2> SUFFICES ASSUME NEW x \in Events, NEW c \in Events, NEW h \in Goroutines,
                      Made(x)', x \notin early', IsCause(c, x), InHand(h, c)'
               PROVE  FALSE
    BY DEF CauseGone, IsCause
  <2>1. Rank(x) = Rank(c) + 1 /\ c.task = x.task
    BY CauseRank
  <2>2. CASE c = e
    <3>1. x # e /\ Made(x)
      BY <1>0, <1>2, <2>1, <2>2
    <3> QED
      BY <1>0, <2>1, <2>2, <3>1 DEF Making, Ranked
  <2>3. CASE c # e
    <3>1. InHand(h, c)
      BY <2>3 DEF Makes
    <3>2. x # e
      BY <3>1
    <3> QED
      BY <1>2, <3>1, <3>2 DEF Making, CauseGone
  <2> QED
    BY <2>2, <2>3
<1>5. OneHand'
  <2> SUFFICES ASSUME NEW c \in Events, NEW h \in Goroutines, InHand(h, c)',
                      c.type # "progress"
               PROVE  c \notin Gone /\ \A k \in Goroutines : InHand(k, c)' => k = h
    BY <1>1 DEF OneHand
  <2>1. CASE c = e
    <3>1. ~Made(e)
      BY <1>0, <2>1 DEF Making, Ranked
    <3> QED
      BY <2>1, <3>1 DEF Made, Makes
  <2>2. CASE c # e
    BY <2>2 DEF Makes, Making, OneHand
  <2> QED
    BY <2>1, <2>2
<1>6. StatusOf'
  BY <1>2 DEF StatusOf, Making
<1>7. SentInOrder' /\ PrematureAlone'
  BY <1>1 DEF Making, SentInOrder, PrematureAlone, IsCause
<1> QED
  BY <1>3, <1>4, <1>5, <1>6, <1>7 DEF Making
-----------------------------------------------------------------------------
(* Where the tasks are. *)

\* The place of a task depends on its row, and on whether somebody runs it.
LEMMA StageForward ==
  ASSUME row' \in [Tasks -> Rows], TypeInv, NEW t \in Tasks, OtherRows(t),
         \A u \in Tasks : u # t => (Runs(u)' <=> Runs(u)), Stage(t)' >= Stage(t)
  PROVE  /\ \A u \in Tasks : Stage(u)' >= Stage(u)
         /\ \A u \in Tasks : Stage(u)' \in Nat
<1>1. \A u \in Tasks : row'[u].retry \in Nat /\ Stage(u) \in Nat
  BY PlacesAreNumbers DEF Rows
<1>2. \A u \in Tasks : Stage(u)' \in Nat
  BY <1>1 DEF Stage
<1>3. ASSUME NEW u \in Tasks, u # t PROVE Stage(u)' = Stage(u)
  BY <1>3 DEF Stage, OtherRows
<1> QED
  BY <1>1, <1>2, <1>3

\* A step that leaves rows and workers alone moves no task.
LEMMA StageStill ==
  ASSUME TypeInv, UNCHANGED <<row, pc, held>>
  PROVE  /\ \A u \in Tasks : Stage(u)' = Stage(u)
         /\ \A u \in Tasks : Stage(u)' \in Nat
<1>1. \A u \in Tasks : Stage(u)' = Stage(u)
  BY DEF Stage, Runs
<1> QED
  BY <1>1, PlacesAreNumbers

\* Worker w neither starts nor stops to run u.
LEMMA RunsSame ==
  ASSUME NEW w \in Workers, OtherWorkers(w), NEW u \in Tasks,
         ~(pc[w] = "run" /\ held[w] = u), ~(pc'[w] = "run" /\ held'[w] = u)
  PROVE  Runs(u)' <=> Runs(u)
  BY DEF Runs, OtherWorkers

\* The place of a task that a worker has.
LEMMA StageHeld ==
  ASSUME TypeInv, NEW w \in Workers, pc[w] # "poll"
  PROVE  /\ Stage(held[w]) = 3 * retry[w] + (IF pc[w] = "run" THEN 2 ELSE 3)
         /\ \A v \in Workers : v # w /\ pc[v] # "poll" => held[v] # held[w]
<1>1. \A v \in Workers : v # w /\ pc[v] # "poll" => held[v] # held[w]
  BY DEF TypeInv, HasRow
<1>2. Runs(held[w]) <=> pc[w] = "run"
  BY <1>1 DEF Runs
<1>3. /\ held[w] \in Tasks /\ retry[w] = row[held[w]].retry
      /\ row[held[w]].status \in {"running", "failed"}
  BY HeldTask
<1> QED
  BY <1>1, <1>2, <1>3 DEF Stage
-----------------------------------------------------------------------------
(* What the workers' steps have in common. *)

\* A worker that is free has no event in its hand.
LEMMA FreeHand ==
  ASSUME TypeInv, NEW g \in Goroutines, Free(g), NEW x \in Events
  PROVE  ~InHand(g, x)
<1>1. todo[g].event = NoEvent /\ arg[g] = NoEvent
  <2>1. todo[g].event = NoEvent /\ call[g] = "idle"
    BY DEF Free, Nothing
  <2> QED
    BY <2>1, PubFacts DEF TypeInv
<1> QED
  BY <1>1 DEF InHand

\* So nobody has the cause of what it announces next of its task.
LEMMA CausePublished ==
  ASSUME TypeInv, OwnAttempt, NEW w \in Workers, pc[w] # "poll", Free(w), NEW e \in Events,
         e.task = held[w], e.retry = retry[w], e.type \notin {"created", "started"},
         NEW c \in Events, NEW h \in Goroutines, IsCause(c, e)
  PROVE  ~InHand(h, c)
<1> SUFFICES ASSUME InHand(h, c) PROVE FALSE
  OBVIOUS
<1>1. c.task = held[w] /\ c.retry = retry[w] /\ c.type \in {"started", "failed"}
  <2>1. e.type \in EventTypes
    BY DEF Events
  <2> QED
    BY <2>1, CauseTypes DEF EventTypes
<1>2. h = w
  BY <1>1 DEF OwnAttempt
<1> QED
  BY <1>2, FreeHand

\* A worker that gets no task, and makes no such event, leaves this as it is.
LEMMA OwnKept ==
  ASSUME OwnAttempt,
         \A h \in Goroutines, x \in Events :
           InHand(h, x)' /\ x.type \in {"started", "failed"} => InHand(h, x),
         \A v \in Workers : pc'[v] # "poll" =>
           pc[v] # "poll" /\ held'[v] = held[v] /\ retry'[v] = retry[v]
  PROVE  OwnAttempt'
  BY DEF OwnAttempt

\* A step of a worker that had nothing to do.
LEMMA OneThingKept ==
  ASSUME OneThing, NEW w \in Workers, Free(w), OtherTodos(w), UNCHANGED call,
         \A t \in Tasks : row'[t].status = "absent" => row[t].status = "absent"
  PROVE  OneThing'
<1>1. \A t \in Tasks : t # w /\ t \in Goroutines
  BY DEF Goroutines
<1>2. ASSUME NEW t \in Tasks, row'[t].status = "absent"
      PROVE  call'[t] = "idle" /\ todo'[t] = Nothing
  BY <1>1, <1>2 DEF OneThing, OtherTodos
<1>3. ASSUME NEW g \in Goroutines, todo'[g].event # NoEvent
      PROVE  call'[g] = "idle"
  BY <1>3 DEF OneThing, OtherTodos, Free
<1> QED
  BY <1>2, <1>3 DEF OneThing
-----------------------------------------------------------------------------
(* The actions. *)

\* Enqueue makes the first event of a task.
LEMMA EnqueueEvents ==
  ASSUME TypeInv, EventInv, NEW t \in Tasks, Enqueue(t)
  PROVE  EventInv'
<1> DEFINE e == Event("created", t, "pending", 0)
<1>1. /\ row[t].status = "absent" /\ row' \in [Tasks -> Rows] /\ OtherRows(t)
      /\ row'[t].status = "pending" /\ row'[t].retry = 0
      /\ OtherTodos(t) /\ todo'[t] = InvalidateAndPublish(e)
      /\ UNCHANGED <<pc, held, retry, early>> /\ Apart
  BY EnqueueEffect
<1>2. UNCHANGED <<sent, direct, premature, skipped, arg, call>>
  BY <1>1, OtherVars
<1>3. /\ e \in Events /\ e.task = t /\ e.type = "created" /\ e.status = "pending"
      /\ e.retry = 0 /\ t \in Goroutines
  <2>1. "created" \in EventTypes /\ "pending" \in Statuses /\ 0 \in 0 .. MaxRetries
    BY DEF EventTypes, Statuses
  <2> QED
    BY <2>1, EventType DEF Goroutines
<1> HIDE DEF e
<1>4. todo[t] = Nothing /\ call[t] = "idle" /\ todo[t].event = NoEvent /\ todo'[t].event = e
  BY <1>1, <1>3, TodoParts DEF EventInv, OneThing
<1>5. Makes(t, e)
  BY <1>1, <1>2, <1>3, <1>4, TodoMakes
<1>6. Stage(t) = 0 /\ Stage(t)' = 1 /\ Rank(e) = 0
  BY <1>1, <1>3 DEF Stage, Rank, Phase
<1>7. /\ \A u \in Tasks : Stage(u)' >= Stage(u)
      /\ \A u \in Tasks : Stage(u)' \in Nat
  <2>1. \A u \in Tasks : Runs(u)' <=> Runs(u)
    BY <1>1 DEF Runs
  <2> QED
    BY <1>1, <1>6, <2>1, StageForward
<1>8. \A c \in Events : ~IsCause(c, e)
  BY <1>3, CauseTypes
<1>9. Making'
  BY <1>1, <1>2, <1>3, <1>5, <1>6, <1>7, <1>8, NewEvent DEF EventInv
<1>10. OwnAttempt'
  BY <1>1, <1>3, <1>5, OwnKept DEF EventInv, Makes
<1>11. OneThing'
  <2>1. ASSUME NEW u \in Tasks, row'[u].status = "absent"
        PROVE  call'[u] = "idle" /\ todo'[u] = Nothing
    <3>1. u # t /\ u \in Goroutines
      BY <1>1, <2>1 DEF Goroutines
    <3> QED
      BY <1>1, <1>2, <2>1, <3>1 DEF EventInv, OneThing, OtherRows, OtherTodos
  <2>2. ASSUME NEW g \in Goroutines, todo'[g].event # NoEvent
        PROVE  call'[g] = "idle"
    BY <1>1, <1>2, <1>4, <2>2 DEF EventInv, OneThing, OtherTodos
  <2> QED
    BY <2>1, <2>2 DEF OneThing
<1> QED
  BY <1>9, <1>10, <1>11 DEF EventInv

\* Events that agree in all fields are the same.
LEMMA SameEvent ==
  ASSUME NEW c \in Events, NEW d \in Events,
         c.task = d.task, c.type = d.type, c.status = d.status, c.retry = d.retry
  PROVE  c = d
  BY DEF Events

\* Dequeue makes the event that an attempt was started. It is early, unless its
\* cause has been published; and then nobody has that any more.
LEMMA DequeueEvents ==
  ASSUME TypeInv, EventInv, NEW w \in Workers, NEW t \in Tasks, Dequeue(w, t)
  PROVE  EventInv'
<1>n. PICK n : n = row[t].retry
  OBVIOUS
<1>e. PICK e : e = Event("started", t, "running", n)
  OBVIOUS
<1>1. /\ pc[w] = "poll" /\ Free(w) /\ row[t].status = "pending"
      /\ row' \in [Tasks -> Rows] /\ OtherRows(t)
      /\ row'[t].status = "running" /\ row'[t].retry = n
      /\ OtherTodos(w) /\ todo'[w] = InvalidateAndPublish(e)
      /\ pc'[w] = "run" /\ held'[w] = t /\ retry'[w] = n /\ OtherWorkers(w)
      /\ e \in Events
      /\ early' = early \cup {x \in {e} : ~\E c \in Published : IsCause(c, x)}
      /\ Apart
  BY <1>n, <1>e, DequeueEffect
<1>2. UNCHANGED <<sent, direct, premature, skipped, arg, call>>
  BY <1>1, OtherVars
<1>3. /\ e.task = t /\ e.type = "started" /\ e.status = "running" /\ e.retry = n
      /\ w \in Goroutines /\ n \in Nat
  <2>1. n \in Nat
    BY <1>n DEF TypeInv, WorkersTyped, Rows
  <2> QED
    BY <1>e, <2>1 DEF Event, Goroutines
<1>4. todo[w].event = NoEvent /\ todo'[w].event = e
  BY <1>1, TodoParts DEF Free
<1>5. Makes(w, e)
  BY <1>1, <1>2, <1>3, <1>4, TodoMakes
<1>6. Stage(t) = 3 * n + 1 /\ Stage(t)' = 3 * n + 2 /\ Rank(e) = 3 * n + 1
  <2>1. Runs(t)'
    BY <1>1 DEF Runs
  <2> QED
    BY <1>1, <1>3, <1>n, <2>1 DEF Stage, Rank, Phase
<1>7. /\ \A u \in Tasks : Stage(u)' >= Stage(u)
      /\ \A u \in Tasks : Stage(u)' \in Nat
  <2>1. \A u \in Tasks : u # t => (Runs(u)' <=> Runs(u))
    BY <1>1, RunsSame
  <2> QED
    BY <1>1, <1>3, <1>6, <2>1, StageForward
<1>8. ASSUME NEW c \in Events, NEW h \in Goroutines, IsCause(c, e), InHand(h, c)
      PROVE  e \in early'
  <2> SUFFICES ASSUME NEW d \in Published, IsCause(d, e) PROVE FALSE
    BY <1>1
  <2>1. d \in Events
    <3>1. sent \in Seq(Events) /\ direct \subseteq Events
      BY PubFacts DEF TypeInv
    <3>2. \A i \in DOMAIN sent : sent[i] \in Events
      BY <3>1
    <3> QED
      BY <3>1, <3>2 DEF Published, Range
  <2>2. Made(c) /\ Made(d)
    BY <1>8 DEF Made, Gone
  <2>3. /\ c.task = d.task /\ c.type = d.type /\ c.retry = d.retry
        /\ c.type \in {"created", "retrying"}
    BY <1>1, <1>3, <1>8, <2>1, CauseTypes
  <2>4. c.status = d.status
    BY <2>1, <2>2, <2>3 DEF EventInv, Making, StatusOf
  <2>5. c = d
    BY <2>1, <2>3, <2>4, SameEvent
  <2> QED
    BY <1>8, <2>3, <2>5 DEF EventInv, Making, OneHand, Gone
<1>9. Making'
  <2>1. early \subseteq early' /\ Stage(e.task)' > Stage(e.task) /\ Rank(e) = Stage(e.task)
    BY <1>1, <1>3, <1>6
  <2> QED
    BY <1>1, <1>2, <1>3, <1>5, <1>7, <1>8, <2>1, NewEvent DEF EventInv
<1>10. OwnAttempt'
  <2> SUFFICES ASSUME NEW v \in Workers, NEW h \in Goroutines, NEW x \in Events,
                      pc'[v] # "poll", InHand(h, x)', x.task = held'[v],
                      x.retry = retry'[v], x.type \in {"started", "failed"}
               PROVE  h = v
    BY DEF OwnAttempt
  <2>1. CASE v = w
    <3>1. Rank(x) >= Stage(t) /\ x.type # "progress" /\ x.task = t
      BY <1>1, <1>3, <1>6, <2>1 DEF Rank, Phase
    <3>2. ~Made(x)
      BY <1>3, <1>6, <3>1, PlacesAreNumbers DEF EventInv, Making, Ranked
    <3> QED
      BY <1>5, <2>1, <3>2 DEF Made, Makes
  <2>2. CASE v # w
    <3>1. pc[v] # "poll" /\ held'[v] = held[v] /\ retry'[v] = retry[v]
      BY <1>1, <2>2 DEF OtherWorkers
    <3>2. held[v] # t
      BY <1>1, <3>1 DEF TypeInv, HasRow
    <3> QED
      BY <1>3, <1>5, <3>1, <3>2 DEF EventInv, OwnAttempt, Makes
  <2> QED
    BY <2>1, <2>2
<1>11. OneThing'
  BY <1>1, <1>2, OneThingKept DEF EventInv, OtherRows
<1> QED
  BY <1>9, <1>10, <1>11 DEF EventInv

\* When the reply to Enqueue or Dequeue is lost no event is made: the task is
\* past that turn.
LEMMA ReplyLostEvents ==
  ASSUME TypeInv, EventInv, NEW t \in Tasks,
         EnqueueReplyLost(t) \/ \E w \in Workers : DequeueReplyLost(w, t)
  PROVE  EventInv'
<1>1. /\ \/ row[t].status = "absent" /\ row'[t].status = "pending" /\ row'[t].retry = 0
         \/ /\ row[t].status = "pending" /\ row'[t].status = "running"
            /\ row'[t].retry = row[t].retry
      /\ row' \in [Tasks -> Rows] /\ OtherRows(t)
      /\ UNCHANGED <<pc, held, retry, todo, early>> /\ Apart
  BY EnqueueLostEffect, DequeueLostEffect
<1>2. UNCHANGED <<sent, direct, premature, skipped, arg, call>>
  BY <1>1, OtherVars
<1>3. NoneAdded
  BY <1>1, <1>2 DEF NoneAdded, InHand
<1>4. /\ \A u \in Tasks : Stage(u)' >= Stage(u)
      /\ \A u \in Tasks : Stage(u)' \in Nat
  <2>1. \A u \in Tasks : Runs(u)' <=> Runs(u)
    BY <1>1 DEF Runs
  <2>2. Stage(t)' >= Stage(t)
    <3>1. row[t].retry \in Nat
      BY DEF TypeInv, WorkersTyped, Rows
    <3> QED
      BY <1>1, <3>1 DEF Stage
  <2> QED
    BY <1>1, <2>1, <2>2, StageForward
<1>5. Making'
  BY <1>1, <1>2, <1>3, <1>4, NoNewEvent DEF EventInv
<1>6. OwnAttempt'
  BY <1>1, <1>3, OwnKept DEF EventInv, NoneAdded
<1>7. OneThing'
  BY <1>1, <1>2 DEF EventInv, OneThing, OtherRows
<1> QED
  BY <1>5, <1>6, <1>7 DEF EventInv

\* ReportProgress.
LEMMA ProgressEvents ==
  ASSUME TypeInv, EventInv, NEW w \in Workers, ReportProgress(w)
  PROVE  EventInv'
<1> DEFINE e == Event("progress", held[w], "running", retry[w])
<1>1. /\ pc[w] = "run" /\ Free(w) /\ e \in Events
      /\ OtherTodos(w) /\ todo'[w] = Publish(e)
      /\ UNCHANGED <<row, pc, held, retry, early>> /\ Apart
  BY ProgressEffect
<1>2. UNCHANGED <<sent, direct, premature, skipped, arg, call>>
  BY <1>1, OtherVars
<1>3. /\ e.task = held[w] /\ e.type = "progress" /\ e.retry = retry[w] /\ w \in Goroutines
  BY DEF Event, Goroutines
<1> HIDE DEF e
<1>4. todo[w].event = NoEvent /\ todo'[w].event = e
  BY <1>1, TodoParts DEF Free
<1>5. Makes(w, e)
  BY <1>1, <1>2, <1>3, <1>4, TodoMakes
<1>6. Stage(e.task) = 3 * retry[w] + 2 /\ Rank(e) = 3 * retry[w] + 2
  BY <1>1, <1>3, StageHeld DEF Rank, Phase
<1>7. /\ \A u \in Tasks : Stage(u)' >= Stage(u)
      /\ \A u \in Tasks : Stage(u)' \in Nat
  BY <1>1, StageStill, PlacesAreNumbers
<1>8. \A c \in Events, h \in Goroutines : IsCause(c, e) => ~InHand(h, c)
  BY <1>1, <1>3, CausePublished DEF EventInv
<1>9. Making'
  BY <1>1, <1>2, <1>3, <1>5, <1>6, <1>7, <1>8, NewEvent DEF EventInv
<1>10. OwnAttempt'
  BY <1>1, <1>3, <1>5, OwnKept DEF EventInv, Makes
<1>11. OneThing'
  BY <1>1, <1>2, OneThingKept DEF EventInv
<1> QED
  BY <1>9, <1>10, <1>11 DEF EventInv

\* Execute makes the event of the outcome.
LEMMA ExecuteEvents ==
  ASSUME TypeInv, EventInv, NEW w \in Workers, Execute(w)
  PROVE  EventInv'
<1>0. PICK outcome \in {"completed", "failed"} :
        LET e == Event(outcome, held[w], outcome, retry[w]) IN
        /\ pc[w] = "run" /\ Free(w) /\ e \in Events
        /\ pc'[w] = IF outcome = "completed" THEN "succeeded" ELSE "errored"
        /\ held'[w] = held[w] /\ retry'[w] = retry[w] /\ OtherWorkers(w)
        /\ OtherTodos(w) /\ todo'[w] = Publish(e)
        /\ UNCHANGED <<row, early>> /\ Apart
  BY ExecuteEffect
<1>e. PICK e : e = Event(outcome, held[w], outcome, retry[w])
  OBVIOUS
<1>t. PICK t : t = held[w]
  OBVIOUS
<1>1. /\ pc[w] = "run" /\ Free(w) /\ e \in Events
      /\ pc'[w] \in {"succeeded", "errored"}
      /\ held'[w] = t /\ retry'[w] = retry[w] /\ OtherWorkers(w)
      /\ OtherTodos(w) /\ todo'[w] = Publish(e)
      /\ UNCHANGED <<row, early>> /\ Apart
  BY <1>0, <1>e, <1>t
<1>2. UNCHANGED <<sent, direct, premature, skipped, arg, call>>
  BY <1>1, OtherVars
<1>3. /\ e.task = t /\ e.type \in {"completed", "failed"} /\ e.retry = retry[w]
      /\ w \in Goroutines
  BY <1>e, <1>t DEF Event, Goroutines
<1>4. todo[w].event = NoEvent /\ todo'[w].event = e
  BY <1>1, TodoParts DEF Free
<1>5. Makes(w, e)
  BY <1>1, <1>2, <1>3, <1>4, TodoMakes
<1>6. /\ t \in Tasks /\ retry[w] = row[t].retry /\ retry[w] \in Nat /\ row[t].status = "running"
      /\ \A v \in Workers : v # w /\ pc[v] # "poll" => held[v] # t
  BY <1>1, <1>t, HeldTask, StageHeld
<1>7. /\ Stage(t) = 3 * retry[w] + 2 /\ Rank(e) = 3 * retry[w] + 2
      /\ Stage(t)' = 3 * retry[w] + 3
  <2>1. ~Runs(t)'
    BY <1>1, <1>6 DEF Runs, OtherWorkers
  <2>2. Stage(t) = 3 * retry[w] + 2
    BY <1>1, <1>t, StageHeld
  <2>3. Stage(t)' = 3 * retry[w] + 3
    BY <1>1, <1>6, <2>1 DEF Stage
  <2> QED
    BY <1>3, <2>2, <2>3 DEF Rank, Phase
<1>8. /\ \A u \in Tasks : Stage(u)' >= Stage(u)
      /\ \A u \in Tasks : Stage(u)' \in Nat
  <2>1. \A u \in Tasks : u # t => (Runs(u)' <=> Runs(u))
    BY <1>1, <1>t, RunsSame
  <2>2. row' \in [Tasks -> Rows] /\ OtherRows(t)
    BY <1>1 DEF TypeInv, WorkersTyped, OtherRows
  <2> QED
    BY <1>6, <1>7, <2>1, <2>2, StageForward
<1>9. \A c \in Events, h \in Goroutines : IsCause(c, e) => ~InHand(h, c)
  BY <1>1, <1>3, <1>t, CausePublished DEF EventInv
<1>10. Making'
  <2>1. Stage(e.task)' > Stage(e.task) /\ Rank(e) = Stage(e.task) /\ early \subseteq early'
    BY <1>1, <1>3, <1>6, <1>7
  <2> QED
    BY <1>1, <1>2, <1>3, <1>5, <1>8, <1>9, <2>1, NewEvent DEF EventInv
<1>11. OwnAttempt'
  <2> SUFFICES ASSUME NEW v \in Workers, NEW h \in Goroutines, NEW x \in Events,
                      pc'[v] # "poll", InHand(h, x)', x.task = held'[v],
                      x.retry = retry'[v], x.type \in {"started", "failed"}
               PROVE  h = v
    BY DEF OwnAttempt
  <2>1. pc[v] # "poll" /\ held'[v] = held[v] /\ retry'[v] = retry[v]
    BY <1>1, <1>t DEF OtherWorkers
  <2>2. CASE InHand(h, x)
    BY <2>1, <2>2 DEF EventInv, OwnAttempt
  <2>3. CASE h = w /\ x = e
    BY <1>3, <1>6, <1>t, <2>1, <2>3
  <2> QED
    BY <1>5, <2>2, <2>3 DEF Makes
<1>12. OneThing'
  BY <1>1, <1>2, OneThingKept DEF EventInv
<1> QED
  BY <1>10, <1>11, <1>12 DEF EventInv

\* A worker that writes an outcome makes no event.
LEMMA OutcomeEvents ==
  ASSUME TypeInv, EventInv, NEW w \in Workers, handleTaskSuccess(w) \/ FailUpdate(w)
  PROVE  EventInv'
<1>t. PICK t : t = held[w]
  OBVIOUS
<1>1. /\ pc[w] \in {"succeeded", "errored"} /\ Free(w) /\ SameTodos
      /\ Wrote(w, "completed") \/ Wrote(w, "failed")
      /\ pc'[w] \in {"poll", "dead"} /\ OtherWorkers(w) /\ WorkersTyped'
      /\ pc'[w] # "poll" => held'[w] = held[w] /\ retry'[w] = retry[w]
      /\ UNCHANGED early /\ Apart
  BY SuccessEffect, FailEffect
<1>2. UNCHANGED <<sent, direct, premature, skipped, arg, call>>
  BY <1>1, OtherVars
<1>3. /\ t \in Tasks /\ row[t].status = "running" /\ row[t].retry \in Nat
  BY <1>1, <1>t, HeldTask
<1>4. /\ row'[t].status \in {"running", "completed", "failed"} /\ row'[t].retry = row[t].retry
      /\ OtherRows(t) /\ row' \in [Tasks -> Rows]
  BY <1>1, <1>3, <1>t DEF Wrote, OtherRows, WorkersTyped
<1>5. NoneAdded
  BY <1>1, <1>2 DEF NoneAdded, InHand, SameTodos
<1>6. \A u \in Tasks : Runs(u)' <=> Runs(u)
  BY <1>1, RunsSame
<1>7. /\ \A u \in Tasks : Stage(u)' >= Stage(u)
      /\ \A u \in Tasks : Stage(u)' \in Nat
  <2>1. Stage(t)' >= Stage(t)
    BY <1>3, <1>4, <1>6 DEF Stage
  <2> QED
    BY <1>3, <1>4, <1>6, <2>1, StageForward
<1>8. Making'
  BY <1>1, <1>2, <1>5, <1>7, NoNewEvent DEF EventInv
<1>9. OwnAttempt'
  <2>1. \A v \in Workers : pc'[v] # "poll" =>
          pc[v] # "poll" /\ held'[v] = held[v] /\ retry'[v] = retry[v]
    BY <1>1 DEF OtherWorkers
  <2> QED
    BY <1>5, <2>1, OwnKept DEF EventInv, NoneAdded
<1>10. OneThing'
  BY <1>1, <1>2, <1>4, OneThingKept DEF EventInv, OtherRows, OtherTodos, SameTodos
<1> QED
  BY <1>8, <1>9, <1>10 DEF EventInv

\* A call that writes the row and then announces it, in all the ways it can end,
\* when the new row is no less far than the event.
LEMMA AnnounceEvents ==
  ASSUME TypeInv, EventInv, NEW w \in Workers, pc[w] \in {"errored", "dead"}, Free(w),
         NEW s, NEW n \in Nat, NEW e \in Events, Announces(w, s, n, e),
         e.task = held[w], e.retry = retry[w], e.type \in {"retrying", "dead_letter"},
         e.type = "retrying" => e.status = "running",
         \/ s = "pending" /\ n = retry[w] + 1
         \/ s = "dead_letter" /\ n = retry[w] /\ e.type = "dead_letter",
         pc'[w] = "poll", OtherWorkers(w), WorkersTyped', UNCHANGED early, Apart
  PROVE  EventInv'
<1>t. PICK t : t = held[w]
  OBVIOUS
<1>1. UNCHANGED <<sent, direct, premature, skipped, arg, call>> /\ w \in Goroutines
  BY OtherVars DEF Goroutines
<1>2. /\ t \in Tasks /\ retry[w] = row[t].retry /\ retry[w] \in Nat
      /\ row[t].status \in {"running", "failed"} /\ Stage(t) = 3 * retry[w] + 3
  BY <1>t, HeldTask, StageHeld
<1>3. Rank(e) = 3 * retry[w] + 3 /\ e.task = t
  BY <1>2, <1>t DEF Rank, Phase
<1>4. todo[w] = Nothing /\ todo[w].event = NoEvent
  BY TodoParts DEF Free
<1>5. OwnAttempt' /\ \A u \in Tasks : Runs(u)' <=> Runs(u)
  <2>1. \A v \in Workers : pc'[v] # "poll" =>
          pc[v] # "poll" /\ held'[v] = held[v] /\ retry'[v] = retry[v]
    BY DEF OtherWorkers
  <2>2. \A h \in Goroutines, x \in Events :
           InHand(h, x)' /\ x.type \in {"started", "failed"} => InHand(h, x)
    <3>1. todo'[w].event \in {e, NoEvent} /\ OtherTodos(w)
      BY <1>4, TodoParts DEF Announces, OtherTodos
    <3> QED
      BY <1>1, <3>1 DEF InHand, OtherTodos
  <2>3. \A u \in Tasks : Runs(u)' <=> Runs(u)
    BY RunsSame
  <2> QED
    BY <2>1, <2>2, <2>3, OwnKept DEF EventInv
\* The row, where it is written, goes forward.
<1>6. ASSUME row'[t].status = s, row'[t].retry = n, OtherRows(t)
      PROVE  /\ \A u \in Tasks : Stage(u)' >= Stage(u)
             /\ \A u \in Tasks : Stage(u)' \in Nat
             /\ Stage(t)' > Stage(t)
             /\ \A u \in Tasks : row'[u].status = "absent" => row[u].status = "absent"
  <2>1. ~Runs(t)
    BY <1>2, <1>t, StageHeld DEF Runs
  <2>2. Stage(t)' > Stage(t) /\ Stage(t)' >= Stage(t)
    BY <1>2, <1>5, <1>6, <1>t, <2>1 DEF Stage
  <2>3. row' \in [Tasks -> Rows]
    BY DEF WorkersTyped
  <2> QED
    BY <1>2, <1>5, <1>6, <1>t, <2>2, <2>3, StageForward DEF OtherRows
<1>7. CASE /\ row'[t].status = s /\ row'[t].retry = n /\ OtherRows(t)
           /\ todo'[w] = InvalidateAndPublish(e) /\ OtherTodos(w)
  <2>1. Makes(w, e)
    <3>1. todo'[w].event = e
      BY <1>7, TodoParts
    <3> QED
      BY <1>1, <1>4, <1>7, <3>1, TodoMakes
  <2>2. \A c \in Events, h \in Goroutines : IsCause(c, e) => ~InHand(h, c)
    BY CausePublished DEF EventInv
  <2>3. Making'
    <3>1. Rank(e) = Stage(e.task) /\ e.type # "created" /\ early \subseteq early'
      BY <1>2, <1>3
    <3>2. Stage(e.task)' > Stage(e.task)
      BY <1>3, <1>6, <1>7
    <3> QED
      BY <1>1, <1>6, <1>7, <2>1, <2>2, <3>1, <3>2, NewEvent DEF EventInv
  <2>4. OneThing'
    BY <1>1, <1>6, <1>7, OneThingKept DEF EventInv
  <2> QED
    BY <1>5, <2>3, <2>4 DEF EventInv
<1>8. CASE /\ row'[t].status = s /\ row'[t].retry = n /\ OtherRows(t)
           /\ todo'[w] \in {InvalidateAndPublish(NoEvent), todo[w]} /\ OtherTodos(w)
  <2>1. NoneAdded
    <3>1. todo'[w].event = NoEvent
      BY <1>4, <1>8, TodoParts
    <3> QED
      BY <1>1, <1>4, <1>8, <3>1, TodoMakesNone DEF NoneAdded, MakesNone
  <2>2. Making'
    BY <1>1, <1>6, <1>8, <2>1, NoNewEvent DEF EventInv
  <2>3. OneThing'
    BY <1>1, <1>6, <1>8, OneThingKept DEF EventInv
  <2> QED
    BY <1>5, <2>2, <2>3 DEF EventInv
<1>9. CASE row' = row /\ todo' = todo
  <2>1. NoneAdded
    BY <1>1, <1>9 DEF NoneAdded, InHand
  <2>2. /\ \A u \in Tasks : Stage(u)' = Stage(u)
        /\ \A u \in Tasks : Stage(u)' \in Nat
    <3>1. \A u \in Tasks : Stage(u)' = Stage(u)
      BY <1>5, <1>9 DEF Stage
    <3> QED
      BY <3>1, PlacesAreNumbers
  <2>3. Making'
    BY <1>1, <2>1, <2>2, NoNewEvent DEF EventInv
  <2>4. OneThing'
    BY <1>1, <1>9 DEF EventInv, OneThing
  <2> QED
    BY <1>5, <2>3, <2>4 DEF EventInv
<1> QED
  BY <1>7, <1>8, <1>9, <1>t DEF Announces, OtherTodos

\* Requeue makes the event that lets the task be claimed again.
LEMMA RequeueEvents ==
  ASSUME TypeInv, EventInv, NEW w \in Workers, Requeue(w) \/ RequeueReplyLost(w)
  PROVE  EventInv'
<1>e. PICK e : e = Event("retrying", held[w], "running", retry[w])
  OBVIOUS
<1>1. /\ pc[w] = "errored" /\ Free(w) /\ e \in Events
      /\ Announces(w, "pending", retry[w] + 1, e)
      /\ pc'[w] = "poll" /\ OtherWorkers(w) /\ WorkersTyped' /\ UNCHANGED early /\ Apart
  BY <1>e, RequeueEffect
<1>2. /\ e.task = held[w] /\ e.type = "retrying" /\ e.status = "running" /\ e.retry = retry[w]
  BY <1>e DEF Event
<1>3. retry[w] + 1 \in Nat
  BY <1>1, HeldTask
<1>4. PICK n \in Nat : n = retry[w] + 1
  BY <1>3
<1>5. Announces(w, "pending", n, e)
  BY <1>1, <1>4
<1> QED
  BY <1>1, <1>2, <1>4, <1>5, AnnounceEvents

\* MoveToDeadLetter makes the last event of a task.
LEMMA DeadLetterEvents ==
  ASSUME TypeInv, EventInv, NEW w \in Workers,
         MoveToDeadLetter(w) \/ MoveToDeadLetterReplyLost(w)
  PROVE  EventInv'
<1>e. PICK e : e = Event("dead_letter", held[w], row[held[w]].status, retry[w])
  OBVIOUS
<1>1. /\ pc[w] = "dead" /\ Free(w) /\ e \in Events
      /\ Announces(w, "dead_letter", retry[w], e)
      /\ pc'[w] = "poll" /\ OtherWorkers(w) /\ WorkersTyped' /\ UNCHANGED early /\ Apart
  BY <1>e, DeadLetterEffect
<1>2. e.task = held[w] /\ e.type = "dead_letter" /\ e.retry = retry[w]
  BY <1>e DEF Event
<1>3. retry[w] \in Nat
  BY <1>1, HeldTask
<1>4. PICK n \in Nat : n = retry[w]
  BY <1>3
<1>5. Announces(w, "dead_letter", n, e)
  BY <1>1, <1>4
<1> QED
  BY <1>1, <1>2, <1>4, <1>5, AnnounceEvents

\* Steps of the cache make and publish nothing.
LEMMA CacheEvents ==
  ASSUME TypeInv, EventInv, UNCHANGED <<row, pc, held, retry, premature, skipped, early>>,
         UNCHANGED pubVars,
         \/ UNCHANGED todo
         \/ \E g \in Goroutines :
              todo[g].invalidate /\ todo'[g].event = todo[g].event /\ OtherTodos(g)
  PROVE  EventInv'
<1>1. UNCHANGED <<sent, direct, arg, call>>
  BY DEF pubVars
<1>2. \A g \in Goroutines : todo'[g].event = todo[g].event
  BY DEF OtherTodos
<1>3. NoneAdded
  BY <1>1, <1>2 DEF NoneAdded, InHand
<1>4. Making'
  BY <1>1, <1>3, StageStill, PlacesAreNumbers, NoNewEvent DEF EventInv
<1>5. OwnAttempt'
  BY <1>3, OwnKept DEF EventInv, NoneAdded
<1>6. OneThing'
  <2>1. \A t \in Tasks : t \in Goroutines /\ ~Nothing.invalidate
    BY TodoParts DEF Goroutines
  <2>2. \A t \in Tasks : row[t].status = "absent" => todo'[t] = todo[t]
    BY <2>1 DEF EventInv, OneThing, OtherTodos
  <2> QED
    BY <1>1, <1>2, <2>2 DEF EventInv, OneThing
<1> QED
  BY <1>4, <1>5, <1>6 DEF EventInv

\* An event leaves a goroutine's hand when it is published or swallowed, and
\* nothing else that is known of events changes.
LEMMA EventLeaves ==
  ASSUME TypeInv, Making, NEW g \in Goroutines, NEW e \in Events, NoneAdded,
         InHand(g, e), ~InHand(g, e)', Gone' = Gone \cup {e},
         UNCHANGED <<row, pc, held, early>>
  PROVE  Ranked' /\ CauseGone' /\ OneHand' /\ StatusOf'
<1>1. ASSUME NEW x \in Events PROVE Made(x)' => Made(x)
  BY DEF Made, NoneAdded
<1>2. \A t \in Tasks : Stage(t)' = Stage(t)
  BY StageStill
<1>3. Ranked'
  <2> SUFFICES ASSUME NEW x \in Events, Made(x)'
               PROVE  \/ Rank(x) < Stage(x.task)'
                      \/ Rank(x) = Stage(x.task)' /\ x.type = "progress"
    BY DEF Ranked, Rank, Phase
  <2> QED
    BY <1>1, <1>2, PlacesAreNumbers DEF Making, Ranked
<1>4. CauseGone' /\ StatusOf'
  BY <1>1 DEF Making, CauseGone, StatusOf, NoneAdded, IsCause
<1>5. OneHand'
  <2> SUFFICES ASSUME NEW c \in Events, NEW h \in Goroutines, InHand(h, c)',
                      c.type # "progress"
               PROVE  c \notin Gone' /\ \A k \in Goroutines : InHand(k, c)' => k = h
    BY DEF OneHand
  <2>1. InHand(h, c) /\ \A k \in Goroutines : InHand(k, c)' => InHand(k, c)
    BY DEF NoneAdded
  <2>2. c \notin Gone /\ \A k \in Goroutines : InHand(k, c) => k = h
    BY <2>1 DEF Making, OneHand
  <2>3. c # e
    BY <2>2
  <2> QED
    BY <2>1, <2>2, <2>3
<1> QED
  BY <1>3, <1>4, <1>5

\* PublishEvent moves an event within its goroutine's hand, or drops it.
LEMMA PublishEvents ==
  ASSUME TypeInv, EventInv, NEW g \in Goroutines, PublishEvent(g)
  PROVE  EventInv'
<1>1. /\ todo[g].event \in Events /\ OtherTodos(g) /\ todo'[g] = Nothing
      /\ \/ Pub!PublishCheck(g, todo[g].event) /\ UNCHANGED skipped
         \/ skipped' = skipped \cup {todo[g].event} /\ UNCHANGED pubVars
      /\ UNCHANGED <<row, pc, held, retry, premature, early>>
  BY PublishEffect
<1>2. /\ UNCHANGED <<sent, direct>>
      /\ \/ arg'[g] = todo[g].event /\ call[g] = "idle"
         \/ UNCHANGED <<arg, call>>
      /\ \A h \in Goroutines : h # g => arg'[h] = arg[h] /\ call'[h] = call[h]
  <2>1. /\ arg \in [Goroutines -> Events \cup {NoEvent}]
        /\ call \in [Goroutines -> {"idle", "sending", "direct"}]
    BY PubFacts DEF TypeInv
  <2>2. CASE Pub!PublishCheck(g, todo[g].event)
    BY <2>1, <2>2 DEF Pub!PublishCheck
  <2>3. CASE UNCHANGED pubVars
    BY <2>3 DEF pubVars
  <2> QED
    BY <1>1, <2>2, <2>3
<1>3. todo'[g].event = NoEvent /\ todo[g] # Nothing
  BY <1>1, TodoParts
<1>4. NoneAdded
  <2>1. ASSUME NEW h \in Goroutines, NEW x \in Events, InHand(h, x)'
        PROVE  InHand(h, x)
    <3>1. CASE h = g
      BY <1>2, <1>3, <2>1, <3>1 DEF InHand
    <3>2. CASE h # g
      BY <1>1, <1>2, <2>1, <3>2 DEF InHand, OtherTodos
    <3> QED
      BY <3>1, <3>2
  <2> QED
    BY <2>1 DEF NoneAdded
<1>5. Making'
  <2>1. CASE UNCHANGED skipped
    BY <1>1, <1>2, <1>4, <2>1, StageStill, PlacesAreNumbers, NoNewEvent DEF EventInv
  <2>2. CASE skipped' = skipped \cup {todo[g].event} /\ UNCHANGED pubVars
    <3>e. PICK e \in Events : e = todo[g].event
      BY <1>1
    <3>1. Published' = Published /\ arg' = arg
      BY <1>2, <2>2 DEF Published, pubVars
    <3>2. Gone' = Gone \cup {e}
      BY <2>2, <3>1, <3>e DEF Gone
    <3>3. InHand(g, e) /\ ~InHand(g, e)'
      <4>1. arg[g] = NoEvent
        BY <1>1, PubFacts DEF EventInv, OneThing, TypeInv
      <4> QED
        BY <1>3, <3>1, <3>e, <4>1 DEF InHand
    <3>4. Ranked' /\ CauseGone' /\ OneHand' /\ StatusOf'
      BY <1>1, <1>4, <3>2, <3>3, EventLeaves DEF EventInv
    <3>5. SentInOrder' /\ PrematureAlone'
      BY <1>1, <1>2, <3>1 DEF EventInv, Making, SentInOrder, PrematureAlone, IsCause
    <3> QED
      BY <3>4, <3>5 DEF Making
  <2> QED
    BY <1>1, <2>1, <2>2
<1>6. OwnAttempt'
  BY <1>1, <1>4, OwnKept DEF EventInv, NoneAdded
<1>7. OneThing'
  <2>1. ASSUME NEW t \in Tasks, row'[t].status = "absent"
        PROVE  call'[t] = "idle" /\ todo'[t] = Nothing
    <3>1. todo[t] = Nothing /\ call[t] = "idle" /\ t \in Goroutines
      BY <1>1, <2>1 DEF EventInv, OneThing, Goroutines
    <3>2. t # g
      BY <1>3, <3>1
    <3> QED
      BY <1>1, <1>2, <3>1, <3>2 DEF OtherTodos
  <2>2. ASSUME NEW h \in Goroutines, todo'[h].event # NoEvent
        PROVE  call'[h] = "idle"
    <3>1. h # g
      BY <1>3, <2>2
    <3> QED
      BY <1>1, <1>2, <2>2, <3>1 DEF EventInv, OneThing, OtherTodos
  <2> QED
    BY <2>1, <2>2 DEF OneThing
<1> QED
  BY <1>5, <1>6, <1>7 DEF EventInv

\* The hand of a goroutine inside Publish holds the event it publishes, only.
\* The event leaves it for the channel or the broker, and the rest is kept.
LEMMA EventPublished ==
  ASSUME TypeInv, EventInv, NEW g \in Goroutines, NEW e \in Events, call[g] # "idle",
         arg[g] = e, arg' = [arg EXCEPT ![g] = NoEvent], call' = [call EXCEPT ![g] = "idle"],
         Published' = Published \cup {e},
         UNCHANGED <<row, pc, held, retry, todo, skipped, early>>
  PROVE  /\ Ranked' /\ CauseGone' /\ OneHand' /\ StatusOf' /\ OwnAttempt' /\ OneThing'
         /\ \A x \in premature : x \notin direct /\ x \notin early =>
              x \in Published' /\ ~\E c \in Published' : IsCause(c, x)
<1>0. /\ arg \in [Goroutines -> Events \cup {NoEvent}]
      /\ call \in [Goroutines -> {"idle", "sending", "direct"}]
  BY PubFacts DEF TypeInv
<1>1. todo[g].event = NoEvent
  BY DEF EventInv, OneThing
<1>2. NoneAdded /\ InHand(g, e) /\ ~InHand(g, e)'
  BY <1>0, <1>1 DEF NoneAdded, InHand
<1>3. Ranked' /\ CauseGone' /\ OneHand' /\ StatusOf'
  <2>1. Gone' = Gone \cup {e}
    BY DEF Gone
  <2> QED
    BY <1>2, <2>1, EventLeaves DEF EventInv
<1>4. OwnAttempt'
  BY <1>2, OwnKept DEF EventInv, NoneAdded
<1>5. OneThing'
  BY <1>0, <1>1 DEF EventInv, OneThing, Goroutines
<1>6. ASSUME NEW x \in premature, x \notin direct, x \notin early
       PROVE  x \in Published' /\ ~\E c \in Published' : IsCause(c, x)
  <2>1. x \in Published /\ ~\E c \in Published : IsCause(c, x)
    BY <1>6 DEF EventInv, Making, PrematureAlone
  <2>2. x \in Events /\ Made(x)
    BY <2>1 DEF Made, Gone, TypeInv, NotesTyped
  <2>3. ~IsCause(e, x)
    BY <1>2, <1>6, <2>2 DEF EventInv, Making, CauseGone
  <2> QED
    BY <2>1, <2>3
<1> QED
  BY <1>3, <1>4, <1>5, <1>6

\* Nothing is handed over, so nothing is premature.
LEMMA NothingDelivered ==
  ASSUME PublisherStep, UNCHANGED <<done, direct>>
  PROVE  premature' = premature
<1>1. Delivered' = Delivered
  BY DEF Delivered
<1> QED
  BY <1>1, PublisherEffect

\* The send: what is sent comes after its causes, as nobody has one any more.
LEMMA SendEvents ==
  ASSUME TypeInv, EventInv, PublisherStep, NEW g \in Goroutines, Pub!PublishSend(g)
  PROVE  EventInv'
<1>e. PICK e : e = arg[g]
  OBVIOUS
<1>1. /\ sent \in Seq(Events) /\ arg \in [Goroutines -> Events \cup {NoEvent}]
      /\ \A h \in Goroutines : call[h] = "idle" <=> arg[h] = NoEvent
  BY PubFacts DEF TypeInv
<1>2. /\ call[g] = "sending" /\ sent' = Append(sent, e)
      /\ call' = [call EXCEPT ![g] = "idle"] /\ arg' = [arg EXCEPT ![g] = NoEvent]
      /\ UNCHANGED <<done, direct>>
  BY <1>e DEF Pub!PublishSend
<1>3. e \in Events
  BY <1>1, <1>2, <1>e
<1>4. UNCHANGED <<row, pc, held, retry, todo, skipped, early>> /\ premature' = premature
  BY <1>2, PublisherEffect, NothingDelivered
<1>5. /\ Len(sent) \in Nat /\ Len(sent') = Len(sent) + 1 /\ sent'[Len(sent) + 1] = e
      /\ \A i \in 1 .. Len(sent) : sent'[i] = sent[i] /\ sent[i] \in Events
      /\ DOMAIN sent = 1 .. Len(sent) /\ DOMAIN sent' = 1 .. Len(sent) + 1
  BY <1>1, <1>2, <1>3
<1>6. Published' = Published \cup {e}
  <2>1. Range(sent') = Range(sent) \cup {e}
    BY <1>5 DEF Range
  <2> QED
    BY <1>2, <2>1 DEF Published
<1>7. /\ Ranked' /\ CauseGone' /\ OneHand' /\ StatusOf' /\ OwnAttempt' /\ OneThing'
      /\ \A x \in premature : x \notin direct /\ x \notin early =>
           x \in Published' /\ ~\E c \in Published' : IsCause(c, x)
  BY <1>2, <1>3, <1>4, <1>6, <1>e, EventPublished
<1>8. PrematureAlone'
  BY <1>2, <1>4, <1>7 DEF PrematureAlone, IsCause
<1>9. SentInOrder'
  <2> SUFFICES ASSUME NEW i \in 1 .. Len(sent) + 1, NEW j \in 1 .. Len(sent) + 1,
                      sent'[j] \notin early, IsCause(sent'[i], sent'[j])
               PROVE  i < j
    BY <1>4, <1>5 DEF SentInOrder, IsCause
  <2>1. CASE i \in 1 .. Len(sent) /\ j \in 1 .. Len(sent)
    BY <1>5, <2>1 DEF EventInv, Making, SentInOrder
  <2>2. CASE i # Len(sent) + 1 /\ j = Len(sent) + 1
    BY <1>5, <2>2
  <2>3. CASE i = Len(sent) + 1 /\ j = Len(sent) + 1
    <3>1. IsCause(e, e)
      BY <1>5, <2>3
    <3> QED
      BY <1>3, <3>1, CauseRank, PlacesAreNumbers
  <2>4. CASE i = Len(sent) + 1 /\ j \in 1 .. Len(sent)
    <3>1. IsCause(e, sent[j]) /\ sent[j] \in Events /\ sent[j] \notin early
      BY <1>5, <2>4
    <3>2. Made(sent[j])
      BY <1>5, <2>4 DEF Made, Gone, Published, Range
    <3>3. InHand(g, e)
      BY <1>e DEF InHand
    <3> QED
      BY <1>3, <3>1, <3>2, <3>3 DEF EventInv, Making, CauseGone
  <2> QED
    BY <1>5, <2>1, <2>2, <2>3, <2>4
<1> QED
  BY <1>7, <1>8, <1>9 DEF EventInv, Making

\* An event that went past a full buffer.
LEMMA DirectEvents ==
  ASSUME TypeInv, EventInv, PublisherStep, NEW g \in Goroutines, Pub!DirectReturns(g)
  PROVE  EventInv'
<1>e. PICK e : e = arg[g]
  OBVIOUS
<1>1. /\ arg \in [Goroutines -> Events \cup {NoEvent}]
      /\ \A h \in Goroutines : call[h] = "idle" <=> arg[h] = NoEvent
  BY PubFacts DEF TypeInv
<1>2. /\ call[g] = "direct" /\ direct' = direct \cup {e}
      /\ call' = [call EXCEPT ![g] = "idle"] /\ arg' = [arg EXCEPT ![g] = NoEvent]
      /\ UNCHANGED <<sent, done>>
  BY <1>e DEF Pub!DirectReturns
<1>3. e \in Events
  BY <1>1, <1>2, <1>e
<1>4. /\ UNCHANGED <<row, pc, held, retry, todo, skipped, early>>
      /\ premature' = premature \cup
           {x \in Delivered' \ Delivered : ~\E c \in Delivered : IsCause(c, x)}
  BY PublisherEffect
<1>5. Published' = Published \cup {e} /\ Delivered' = Delivered \cup {e}
  BY <1>2 DEF Published, Delivered
<1>6. /\ Ranked' /\ CauseGone' /\ OneHand' /\ StatusOf' /\ OwnAttempt' /\ OneThing'
      /\ \A x \in premature : x \notin direct /\ x \notin early =>
           x \in Published' /\ ~\E c \in Published' : IsCause(c, x)
  BY <1>2, <1>3, <1>4, <1>5, <1>e, EventPublished
<1>7. PrematureAlone'
  <2>1. premature' \subseteq premature \cup {e} /\ e \in direct' /\ direct \subseteq direct'
    BY <1>2, <1>4, <1>5
  <2> QED
    BY <1>4, <1>6, <2>1 DEF PrematureAlone, IsCause
<1>8. SentInOrder'
  BY <1>2, <1>4 DEF EventInv, Making, SentInOrder, IsCause
<1> QED
  BY <1>6, <1>7, <1>8 DEF EventInv, Making

\* The rest of the publisher's steps neither take an event out of a hand nor
\* hand one over.
LEMMA QuietPublisherEvents ==
  ASSUME TypeInv, EventInv, UNCHANGED <<row, pc, held, retry, todo, early, premature, skipped>>,
         UNCHANGED <<sent, direct, arg>>,
         \A g \in Goroutines : call[g] = "idle" => call'[g] = "idle"
  PROVE  EventInv'
<1>1. NoneAdded
  BY DEF NoneAdded, InHand
<1>2. Making'
  BY <1>1, StageStill, PlacesAreNumbers, NoNewEvent DEF EventInv
<1>3. OwnAttempt'
  BY <1>1, OwnKept DEF EventInv, NoneAdded
<1>4. OneThing'
  BY DEF EventInv, OneThing, Goroutines
<1> QED
  BY <1>2, <1>3, <1>4 DEF EventInv

\* The loop hands over the event it took. A cause of it that has been sent was
\* sent before it, and has been handed over.
LEMMA LoopEvents ==
  ASSUME TypeInv, EventInv, PublisherStep, NEW l \in Loops, Pub!LoopPublished(l)
  PROVE  EventInv'
<1>e. PICK e : e = taken[l]
  OBVIOUS
<1>1. /\ sent \in Seq(Events) /\ done \in Seq(Events)
      /\ taken \in [Loops -> Events \cup {NoEvent}]
  BY PubFacts DEF TypeInv
<1>2. /\ done' = Append(done, e) /\ UNCHANGED <<sent, direct, arg, call>>
      /\ loop[l] \in {"publish", "drainPublish"}
  BY <1>e DEF Pub!LoopPublished, Pub!Goto, Pub!callVars
<1>3. /\ Len(sent) \in Nat /\ Len(done) \in Nat
      /\ Len(sent) >= Len(done) + 1 /\ e = sent[Len(done) + 1]
      /\ \A i \in 1 .. Len(done) : done[i] = sent[i]
  <2>1. PubProofs!InOrder
    <3>1. PubProofs!OneLoop
      BY DEF PubProofs!OneLoop, PubProofs!Launched
    <3> QED
      BY <3>1 DEF TypeInv, PubInv, PubProofs!OrderInv
  <2>2. PubProofs!Busy(l)
    BY <1>2 DEF PubProofs!Busy
  <2>3. buffer \in Seq(Events)
    BY PubFacts DEF TypeInv
  <2> QED
    BY <1>1, <1>e, <2>1, <2>2, <2>3 DEF PubProofs!InOrder
<1>4. e \in Events /\ e \in Published
  BY <1>1, <1>3 DEF Published, Range
<1>5. /\ UNCHANGED <<row, pc, held, retry, todo, skipped, early>>
      /\ premature' = premature \cup
           {x \in Delivered' \ Delivered : ~\E c \in Delivered : IsCause(c, x)}
  BY PublisherEffect
<1>6. Delivered' \subseteq Delivered \cup {e}
  <2>1. /\ DOMAIN done = 1 .. Len(done) /\ DOMAIN done' = 1 .. Len(done) + 1
        /\ \A i \in 1 .. Len(done) : done'[i] = done[i]
        /\ done'[Len(done) + 1] = e
    BY <1>1, <1>2, <1>3, <1>4
  <2> QED
    BY <1>2, <1>3, <2>1 DEF Delivered, Range
<1>7. NoneAdded
  BY <1>2, <1>5 DEF NoneAdded, InHand
<1>8. ASSUME e \notin direct, e \notin early, ~\E c \in Delivered : IsCause(c, e)
      PROVE  ~\E c \in Published : IsCause(c, e)
  <2> SUFFICES ASSUME NEW c \in Published, IsCause(c, e) PROVE FALSE
    OBVIOUS
  <2>1. CASE c \in direct
    BY <1>8, <2>1 DEF Delivered
  <2>2. CASE c \in Range(sent)
    <3>1. PICK i \in 1 .. Len(sent) : c = sent[i]
      BY <1>1, <2>2 DEF Range
    <3>2. Len(done) + 1 \in 1 .. Len(sent) /\ i < Len(done) + 1
      BY <1>3, <1>8, <3>1 DEF EventInv, Making, SentInOrder
    <3>3. c \in Delivered
      BY <1>1, <1>3, <3>1, <3>2 DEF Delivered, Range
    <3> QED
      BY <1>8, <3>3
  <2> QED
    BY <2>1, <2>2 DEF Published
<1>9. PrematureAlone'
  <2>1. Published' = Published
    BY <1>2 DEF Published
  <2>2. ASSUME NEW x \in premature', x \notin direct, x \notin early
        PROVE  x \in Published /\ ~\E c \in Published : IsCause(c, x)
    <3>1. CASE x \in premature
      BY <2>2, <3>1 DEF EventInv, Making, PrematureAlone
    <3>2. CASE x \notin premature
      <4>1. x = e /\ ~\E c \in Delivered : IsCause(c, e)
        BY <1>5, <1>6, <3>2
      <4> QED
        BY <1>4, <1>8, <2>2, <4>1
    <3> QED
      BY <3>1, <3>2
  <2> QED
    BY <1>2, <1>5, <2>1, <2>2 DEF PrematureAlone, IsCause
<1>10. Ranked' /\ CauseGone' /\ OneHand' /\ StatusOf' /\ SentInOrder'
  BY <1>2, <1>5, <1>7, StageStill, PlacesAreNumbers, NoneAddedKeeps DEF EventInv
<1>11. OwnAttempt' /\ OneThing'
  BY <1>2, <1>5, <1>7, OwnKept DEF EventInv, NoneAdded, OneThing
<1> QED
  BY <1>9, <1>10, <1>11 DEF EventInv, Making

\* Every step keeps it.
LEMMA EventInvNext == TypeInv /\ EventInv /\ [Next]_vars => EventInv'
<1> SUFFICES ASSUME TypeInv, EventInv, [Next]_vars PROVE EventInv'
  OBVIOUS
<1>1. ASSUME NEW t \in Tasks, Enqueue(t) \/ EnqueueReplyLost(t) PROVE EventInv'
  BY <1>1, EnqueueEvents, ReplyLostEvents
<1>2. ASSUME NEW w \in Workers, WorkerStep(w) PROVE EventInv'
  BY <1>2, DequeueEvents, ReplyLostEvents, ProgressEvents, ExecuteEvents, OutcomeEvents,
     RequeueEvents, DeadLetterEvents DEF WorkerStep
<1>3. ASSUME NEW g \in Goroutines, invalidateCache(g) PROVE EventInv'
  <2>1. todo[g].invalidate
    BY <1>3 DEF invalidateCache
  <2>2. /\ OtherTodos(g) /\ todo'[g].event = todo[g].event
        /\ UNCHANGED <<row, pc, held, retry, premature, skipped, early>> /\ UNCHANGED pubVars
    BY <1>3, InvalidateEffect
  <2> QED
    BY <2>1, <2>2, CacheEvents
<1>4. ASSUME NEW g \in Goroutines, PublishEvent(g) PROVE EventInv'
  BY <1>4, PublishEvents
<1>5. CASE GetQueueDepthFetch \/ GetQueueDepthStore \/ CacheExpires \/ UNCHANGED vars
  <2>1. UNCHANGED <<row, pc, held, retry, todo, premature, skipped, early>> /\ UNCHANGED pubVars
    BY <1>5 DEF GetQueueDepthFetch, GetQueueDepthStore, CacheExpires, rowVars, workerVars,
                noteVars, vars
  <2> QED
    BY <2>1, CacheEvents
<1>6. CASE SetEnabled
  <2>1. /\ UNCHANGED <<row, pc, held, retry, todo, premature, skipped, early>>
        /\ UNCHANGED <<sent, direct, arg, call>>
    BY <1>6 DEF SetEnabled, rowVars, workerVars, noteVars, Pub!SetEnabled, Pub!callVars
  <2> QED
    BY <2>1, QuietPublisherEvents
<1>7. CASE PublisherStep
  <2>0. /\ UNCHANGED <<row, pc, held, retry, todo, skipped, early>>
        /\ stop = "no" /\ call \in [Goroutines -> {"idle", "sending", "direct"}]
    BY <1>7, PublisherEffect, PubFacts DEF TypeInv, PubInv, PubOpen
  <2>1. ASSUME NEW g \in Goroutines, Pub!PublishFull(g) PROVE EventInv'
    <3>1. /\ UNCHANGED <<sent, direct, arg, done>> /\ call[g] = "sending"
          /\ call' = [call EXCEPT ![g] = "direct"]
      BY <2>1 DEF Pub!PublishFull
    <3>2. premature' = premature
      BY <1>7, <3>1, NothingDelivered
    <3> QED
      BY <2>0, <3>1, <3>2, QuietPublisherEvents
  <2>2. ASSUME NEW g \in Goroutines PROVE ~Pub!PublishPanics(g)
    BY <2>0 DEF Pub!PublishPanics, Pub!ChannelClosed
  <2>3. ASSUME NEW l \in Loops, Pub!Receive(l) \/ Pub!LoopStops(l) \/ Pub!LoopExits(l)
        PROVE  EventInv'
    <3>1. UNCHANGED <<sent, direct, arg, done, call>>
      BY <2>3 DEF Pub!Receive, Pub!LoopStops, Pub!LoopExits, Pub!callVars
    <3>2. premature' = premature
      BY <1>7, <3>1, NothingDelivered
    <3> QED
      BY <2>0, <3>1, <3>2, QuietPublisherEvents
  <2> QED
    BY <1>7, <2>1, <2>2, <2>3, SendEvents, DirectEvents, LoopEvents
       DEF PublisherStep, Pub!CallStep, Pub!LoopStep
<1> QED
  BY <1>1, <1>2, <1>3, <1>4, <1>5, <1>6, <1>7 DEF Next

\* Init establishes it: there is no event.
LEMMA EventInvInit == Init => EventInv
<1> SUFFICES ASSUME Init PROVE EventInv
  OBVIOUS
<1>1. \A g \in Goroutines : todo[g].event = NoEvent /\ arg[g] = NoEvent
  BY DEF Init, Nothing
<1>2. Gone = {}
  BY DEF Init, Gone, Published, Range
<1>3. \A e \in Events : ~Made(e) /\ \A g \in Goroutines : ~InHand(g, e)
  BY <1>1, <1>2 DEF Made, InHand
<1>4. Making /\ OwnAttempt
  BY <1>3 DEF Init, Making, Ranked, CauseGone, OneHand, StatusOf, SentInOrder, PrematureAlone,
              OwnAttempt
<1>5. OneThing
  BY DEF Init, OneThing, Goroutines, Nothing
<1> QED
  BY <1>4, <1>5 DEF EventInv

(***************************************************************************)
(* The events of a task are handed over in the order of its life, unless   *)
(* one went past a full buffer or the task was claimed while its claim was *)
(* not yet announced: a worker publishes one event before it makes the     *)
(* next, nobody else has one of the same attempt (OwnAttempt), so when an  *)
(* event is made its cause has left its goroutine's hands (CauseGone), and *)
(* the one loop hands over in the order of the channel (SentInOrder).      *)
(***************************************************************************)
THEOREM EventsInOrder == Spec => []LifecycleOrder
<1>1. TypeInv /\ EventInv => LifecycleOrder
  <2> SUFFICES ASSUME TypeInv, EventInv, NEW e \in premature, NEW c \in Delivered,
                      IsCause(c, e), e \notin direct, e \notin early
               PROVE  FALSE
    BY DEF LifecycleOrder
  <2>1. Delivered \subseteq Published
    <3>1. PubProofs!InOrder
      <4>1. PubProofs!OneLoop
        BY DEF PubProofs!OneLoop, PubProofs!Launched
      <4> QED
        BY <4>1 DEF TypeInv, PubInv, PubProofs!OrderInv
    <3>2. /\ sent \in Seq(Events) /\ done \in Seq(Events) /\ buffer \in Seq(Events)
          /\ \A i \in 1 .. Len(done) : done[i] = sent[i]
      BY <3>1, PubFacts DEF TypeInv, PubProofs!InOrder
    <3>3. Len(done) <= Len(sent)
      BY <3>1, <3>2 DEF PubProofs!InOrder
    <3> QED
      BY <3>2, <3>3 DEF Delivered, Published, Range
  <2> QED
    BY <2>1 DEF EventInv, Making, PrematureAlone
<1> QED
  BY <1>1, TypeInvHolds, EventInvInit, EventInvNext, PTL DEF Spec

(***************************************************************************)
(* A goroutine never has an event to publish that was announced before, or *)
(* that another is about to announce: a task only goes forward on its      *)
(* line, whatever fails, and each of its events is made where the task is  *)
(* and leaves it behind (Ranked), so it is in one hand at most and has not *)
(* left it yet (OneHand).                                                  *)
(***************************************************************************)
THEOREM EventsMadeOnce == Spec => []AnnouncedOnce
<1>1. TypeInv /\ EventInv => AnnouncedOnce
  <2> SUFFICES ASSUME TypeInv, EventInv, NEW g \in Goroutines,
                      todo[g].event # NoEvent, todo[g].event.type # "progress"
               PROVE  /\ todo[g].event \notin Published \cup skipped
                      /\ \A h \in Goroutines :
                           /\ arg[h] # todo[g].event
                           /\ h # g => todo[h].event # todo[g].event
    BY DEF AnnouncedOnce
  <2>1. todo[g].event \in Events /\ InHand(g, todo[g].event)
    BY DEF TypeInv, TodosTyped, Todos, InHand
  <2>2. arg[g] = NoEvent
    BY PubFacts DEF EventInv, OneThing, TypeInv
  <2>3. /\ todo[g].event \notin Gone
        /\ \A h \in Goroutines : InHand(h, todo[g].event) => h = g
    BY <2>1 DEF EventInv, Making, OneHand
  <2> QED
    BY <2>2, <2>3 DEF Gone, InHand
<1> QED
  BY <1>1, TypeInvHolds, EventInvInit, EventInvNext, PTL DEF Spec
-----------------------------------------------------------------------------
(* The history the events tell, turn by turn. *)

Outcomes == {"completed", "failed"}

\* A task whose row has status s and retry count n has taken this turn.
Took(s, n, type, k) ==
  \/ type = "created" /\ k = 0 /\ s # "absent"
  \/ type \in {"started", "failed", "retrying"} /\ k < n
  \/ k = n /\ type \in LastTurns(s)

\* The turns in the rows.
Past == {x \in Turns : Took(row[x[1]].status, row[x[1]].retry, x[2], x[3])}

\* The turns somebody has made an event of.
Told == {TurnOf(e) : e \in {d \in Events : Made(d) /\ d.type # "progress"}}

\* The outcomes that workers have announced and the rows need not show yet.
UnderWayBy(w) ==
  {x \in {<<held[w], IF pc[w] = "succeeded" THEN "completed" ELSE "failed", retry[w]>>} :
     pc[w] \in {"succeeded", "errored", "dead"}}
UnderWay == UNION {UnderWayBy(w) : w \in Workers}

\* Events were made of the turns in the rows and under way, but for those booked
\* as unmade; and of those booked as unwritten.
HistoryInv ==
  /\ Told = (Past \ unmade) \cup unwritten \cup UnderWay
  /\ unmade \subseteq Past /\ \A x \in unmade : x[2] \notin Outcomes
  /\ \A x \in unwritten : x[2] \in Outcomes
  /\ \A t \in Tasks : row[t].status = "absent" => row[t].retry = 0

\* A turn is its three parts.
LEMMA TurnParts ==
  /\ \A x \in Turns :
       /\ x[1] \in Tasks /\ x[2] \in EventTypes /\ x[3] \in 0 .. MaxRetries
       /\ x = <<x[1], x[2], x[3]>>
  /\ \A t, type, k : /\ <<t, type, k>>[1] = t /\ <<t, type, k>>[2] = type
                     /\ <<t, type, k>>[3] = k
  BY DEF Turns

\* The two ways to say what the turns in the rows are.
LEMMA HistoryIsPast ==
  ASSUME TypeInv
  PROVE  TakenTurns = Past
<1>1. ASSUME NEW t \in Tasks
      PROVE  row[t].status \in Statuses /\ row[t].retry \in 0 .. MaxRetries
  BY DEF TypeInv, WorkersTyped, Rows
<1>2. ASSUME NEW s PROVE LastTurns(s) \subseteq EventTypes
  <2>1. LastTurns(s) \in {{}, {"started"}, {"started", "completed"}, {"started", "failed"},
                          {"started", "failed", "dead_letter"}}
    BY DEF LastTurns
  <2> QED
    BY <2>1 DEF EventTypes
<1>3. ASSUME NEW t \in Tasks, NEW s, NEW n \in 0 .. MaxRetries, NEW x
      PROVE  x \in History(t, s, n) <=> x \in Turns /\ x[1] = t /\ Took(s, n, x[2], x[3])
  <2>1. x \in (IF s = "absent" THEN {} ELSE {<<t, "created", 0>>}) <=>
          x \in Turns /\ x[1] = t /\ x[2] = "created" /\ x[3] = 0 /\ s # "absent"
    BY TurnParts DEF Turns, EventTypes
  <2>2. x \in {t} \X {"started", "failed", "retrying"} \X (0 .. n - 1) <=>
          x \in Turns /\ x[1] = t /\ x[2] \in {"started", "failed", "retrying"} /\ x[3] < n
    BY DEF Turns, EventTypes
  <2>3. x \in {t} \X LastTurns(s) \X {n} <=>
          x \in Turns /\ x[1] = t /\ x[2] \in LastTurns(s) /\ x[3] = n
    BY <1>2 DEF Turns
  <2> QED
    BY <2>1, <2>2, <2>3 DEF History, Took
<1>4. ASSUME NEW x
      PROVE  x \in TakenTurns <=> x \in Past
  <2>1. x \in Past <=> \E t \in Tasks : x \in Turns /\ x[1] = t
                                          /\ Took(row[t].status, row[t].retry, x[2], x[3])
    BY TurnParts DEF Past
  <2> QED
    BY <1>1, <1>3, <2>1 DEF TakenTurns
<1> QED
  BY <1>4

\* The turns G of t are those between these rows of it.
Between(t, s, n, r, m, G) ==
  /\ \A x \in G : x \in Turns /\ x[1] = t
  /\ \A x \in Turns : x[1] = t =>
       (Took(r, m, x[2], x[3]) <=> Took(s, n, x[2], x[3]) \/ x \in G)

\* A step that writes one row gains the turns that are new in that row.
LEMMA PastGains ==
  ASSUME NEW t \in Tasks, OtherRows(t), NEW G,
         Between(t, row[t].status, row[t].retry, row'[t].status, row'[t].retry, G)
  PROVE  Past' = Past \cup G
<1> SUFFICES ASSUME NEW x \in Turns PROVE x \in Past' <=> x \in Past \/ x \in G
  BY DEF Past, Between
<1>1. x[1] \in Tasks
  BY TurnParts
<1>2. (x \in Past <=> Took(row[x[1]].status, row[x[1]].retry, x[2], x[3]))
      /\ (x \in Past' <=> Took(row'[x[1]].status, row'[x[1]].retry, x[2], x[3]))
  BY DEF Past, Took
<1>3. CASE x[1] = t
  BY <1>2, <1>3 DEF Between
<1>4. CASE x[1] # t
  BY <1>1, <1>2, <1>4 DEF OtherRows, Between
<1> QED
  BY <1>3, <1>4

\* A step that makes the event of a turn adds it to what is told.
LEMMA ToldMore ==
  ASSUME NEW g \in Goroutines, NEW e \in Events, Makes(g, e), UNCHANGED <<sent, direct, skipped>>
  PROVE  /\ \A x \in Events : Made(x)' <=> Made(x) \/ x = e
         /\ e.type # "progress" => Told' = Told \cup {TurnOf(e)}
<1>1. Published' = Published
  BY DEF Published
<1>2. \A x \in Events : Made(x)' <=> Made(x) \/ x = e
  BY <1>1 DEF Made, Gone, Makes
<1> QED
  BY <1>2 DEF Told, TurnOf

\* What is told depends on the events made.
LEMMA ToldKept ==
  ASSUME \A x \in Events : x.type # "progress" => (Made(x)' <=> Made(x))
  PROVE  Told' = Told \cup {}
  BY DEF Told, TurnOf

\* A step that makes none.
LEMMA ToldSame ==
  ASSUME MakesNone, UNCHANGED <<sent, direct, skipped>>
  PROVE  (\A x \in Events : Made(x)' <=> Made(x)) /\ Told' = Told \cup {}
<1>1. Published' = Published
  BY DEF Published
<1>2. \A x \in Events : Made(x)' <=> Made(x)
  BY <1>1 DEF Made, Gone, MakesNone
<1> QED
  BY <1>2, ToldKept

\* What is under way for the other workers stays so.
LEMMA UnderWayStep ==
  ASSUME NEW w \in Workers, OtherWorkers(w)
  PROVE  /\ UnderWay \subseteq UnderWay' \cup UnderWayBy(w)
         /\ UnderWay' \subseteq UnderWay \cup UnderWayBy(w)'
         /\ UnderWayBy(w) \subseteq UnderWay /\ UnderWayBy(w)' \subseteq UnderWay'
<1>1. \A v \in Workers : v # w => UnderWayBy(v)' = UnderWayBy(v)
  BY DEF OtherWorkers, UnderWayBy
<1> QED
  BY <1>1 DEF UnderWay

\* What is under way are outcomes.
LEMMA UnderWayOutcomes ==
  \A x \in UnderWay \cup UnderWay' : x[2] \in Outcomes
<1>1. \A w \in Workers : \A x \in UnderWayBy(w) \cup UnderWayBy(w)' : x[2] \in Outcomes
  BY TurnParts DEF UnderWayBy, Outcomes
<1> QED
  BY <1>1 DEF UnderWay

(***************************************************************************)
(* A step gains the turns G, makes events of the turns M, and books U and  *)
(* W. What it gains is made into events, was made into events before, or   *)
(* is booked; what it makes an event of is new, or an outcome.             *)
(***************************************************************************)
Takes(G, M, U, W) ==
  /\ Past' = Past \cup G /\ Told' = Told \cup M
  /\ unmade' = unmade \cup U /\ unwritten' = unwritten \cup W
  /\ M \subseteq (G \ U) \cup UnderWay' /\ \A x \in M : x \notin Past \/ x[2] \in Outcomes
  /\ U \subseteq G /\ \A x \in U : x \notin Past /\ x[2] \notin Outcomes
  /\ G \subseteq M \cup U \cup UnderWay /\ W \subseteq UnderWay
  /\ UnderWay \subseteq UnderWay' \cup Past' \cup W /\ UnderWay' \subseteq UnderWay \cup M
  /\ \A t \in Tasks : row'[t].status = "absent" => row'[t].retry = 0

\* Such a step keeps it.
LEMMA HistoryStep ==
  ASSUME HistoryInv, NEW G, NEW M, NEW U, NEW W, Takes(G, M, U, W)
  PROVE  HistoryInv'
<1>0. /\ Past' = Past \cup G /\ Told' = Told \cup M
      /\ unmade' = unmade \cup U /\ unwritten' = unwritten \cup W
      /\ M \subseteq (G \ U) \cup UnderWay' /\ \A x \in M : x \notin Past \/ x[2] \in Outcomes
      /\ U \subseteq G /\ \A x \in U : x \notin Past /\ x[2] \notin Outcomes
      /\ G \subseteq M \cup U \cup UnderWay /\ W \subseteq UnderWay
      /\ UnderWay \subseteq UnderWay' \cup Past' \cup W /\ UnderWay' \subseteq UnderWay \cup M
      /\ \A t \in Tasks : row'[t].status = "absent" => row'[t].retry = 0
  BY DEF Takes
<1>1. \A x \in UnderWay \cup UnderWay' \cup unwritten : x[2] \in Outcomes
  BY UnderWayOutcomes DEF HistoryInv
<1>2. ASSUME NEW x \in Told' PROVE x \in (Past' \ unmade') \cup unwritten' \cup UnderWay'
  <2>1. CASE x \in M
    BY <1>0, <2>1 DEF HistoryInv
  <2>2. CASE x \in Past \ unmade
    BY <1>0, <1>1, <2>2
  <2>3. CASE x \in unwritten
    BY <1>0, <2>3
  <2>4. CASE x \in UnderWay
    BY <1>0, <1>1, <2>4 DEF HistoryInv
  <2> QED
    BY <1>0, <1>2, <2>1, <2>2, <2>3, <2>4 DEF HistoryInv
<1>3. ASSUME NEW x \in (Past' \ unmade') \cup unwritten' \cup UnderWay' PROVE x \in Told'
  BY <1>0, <1>3 DEF HistoryInv
<1>4. /\ unmade' \subseteq Past' /\ \A x \in unmade' : x[2] \notin Outcomes
      /\ \A x \in unwritten' : x[2] \in Outcomes
  BY <1>0, <1>1 DEF HistoryInv
<1> QED
  BY <1>0, <1>2, <1>3, <1>4 DEF HistoryInv

\* Steps that leave rows and workers alone, and lose or invent no event.
LEMMA ToldStill ==
  ASSUME HistoryInv, UNCHANGED <<row, pc, held, retry, faultVars>>, Told' = Told \cup {}
  PROVE  HistoryInv'
<1>1. Past' = Past \cup {} /\ UnderWay' = UnderWay
  BY DEF Past, UnderWay, UnderWayBy
<1>2. unmade' = unmade \cup {} /\ unwritten' = unwritten \cup {}
  BY DEF faultVars
<1>3. \A t \in Tasks : row'[t].status = "absent" => row'[t].retry = 0
  BY DEF HistoryInv
<1> QED
  BY <1>1, <1>2, <1>3 DEF HistoryInv, Past

\* Enqueue: the row's first turn, and its event unless the reply was lost.
LEMMA EnqueueTold ==
  ASSUME TypeInv, EventInv, HistoryInv, NEW t \in Tasks, Enqueue(t) \/ EnqueueReplyLost(t)
  PROVE  HistoryInv'
<1> DEFINE x == <<t, "created", 0>>
<1>1. /\ row[t].status = "absent" /\ row[t].retry = 0 /\ OtherRows(t)
      /\ row'[t].status = "pending" /\ row'[t].retry = 0
      /\ UNCHANGED <<pc, held, retry>> /\ Apart
  BY EnqueueEffect, EnqueueLostEffect DEF HistoryInv
<1>2. UNCHANGED <<sent, direct, skipped, arg>>
  BY <1>1, OtherVars
<1>3. x \in Turns
  <2>1. "created" \in EventTypes /\ 0 \in 0 .. MaxRetries
    BY DEF EventTypes
  <2> QED
    BY <2>1, TurnType
<1>4. Past' = Past \cup {x} /\ x \notin Past
  <2>1. ASSUME NEW y \in Turns, y[1] = t
        PROVE  /\ ~Took("absent", 0, y[2], y[3])
               /\ Took("pending", 0, y[2], y[3]) <=> Took("absent", 0, y[2], y[3]) \/ y \in {x}
    <3>1. y[3] \in Nat /\ y = <<t, y[2], y[3]>>
      BY <2>1, TurnParts
    <3> QED
      BY <3>1, TurnParts DEF Took, LastTurns
  <2>2. \A y \in {x} : y \in Turns /\ y[1] = t
    BY <1>3, TurnParts
  <2>3. x \notin Past
    BY <1>1, <1>3, <2>1, <2>2 DEF Past
  <2>4. Between(t, "absent", 0, "pending", 0, {x})
    BY <2>1, <2>2 DEF Between
  <2> QED
    BY <1>1, <2>3, <2>4, PastGains
<1>5. UnderWay' = UnderWay /\ x[2] \notin Outcomes
  BY <1>1 DEF UnderWay, UnderWayBy, Outcomes
<1>6. \A u \in Tasks : row'[u].status = "absent" => row'[u].retry = 0
  BY <1>1 DEF HistoryInv, OtherRows
<1>7. CASE Enqueue(t)
  <2>1. /\ OtherTodos(t) /\ todo'[t] = InvalidateAndPublish(Event("created", t, "pending", 0))
        /\ UNCHANGED faultVars
    BY <1>7, EnqueueEffect
  <2>e. PICK e : e = Event("created", t, "pending", 0)
    OBVIOUS
  <2>2. e \in Events /\ e.type # "progress" /\ TurnOf(e) = x /\ t \in Goroutines
    <3>1. "created" \in EventTypes /\ "pending" \in Statuses /\ 0 \in 0 .. MaxRetries
      BY DEF EventTypes, Statuses
    <3> QED
      BY <2>e, <3>1, EventType DEF Goroutines, TurnOf
  <2>3. todo[t].event = NoEvent /\ todo'[t].event = e
    BY <1>1, <2>1, <2>2, <2>e, TodoParts DEF EventInv, OneThing
  <2>4. Told' = Told \cup {x}
    BY <1>2, <2>1, <2>2, <2>3, TodoMakes, ToldMore
  <2>5. unmade' = unmade \cup {} /\ unwritten' = unwritten \cup {}
    BY <2>1 DEF faultVars
  <2>t. Takes({x}, {x}, {}, {})
    BY <1>4, <1>5, <1>6, <2>4, <2>5 DEF Takes
  <2> QED
    BY <2>t, HistoryStep
<1>8. CASE EnqueueReplyLost(t)
  <2>1. todo' = todo /\ unmade' = unmade \cup {x} /\ unwritten' = unwritten \cup {}
    BY <1>8, EnqueueLostEffect
  <2>2. Told' = Told \cup {}
    BY <1>2, <2>1, ToldSame DEF MakesNone, InHand
  <2>t. Takes({x}, {}, {x}, {})
    BY <1>4, <1>5, <1>6, <2>1, <2>2 DEF Takes
  <2> QED
    BY <2>t, HistoryStep
<1> QED
  BY <1>7, <1>8

\* Dequeue: the row takes the turn its event tells; or nobody is told.
LEMMA DequeueTold ==
  ASSUME TypeInv, HistoryInv, NEW w \in Workers, NEW t \in Tasks,
         Dequeue(w, t) \/ DequeueReplyLost(w, t)
  PROVE  HistoryInv'
<1>n. PICK n : n = row[t].retry
  OBVIOUS
<1> DEFINE x == <<t, "started", n>>
<1>1. /\ row[t].status = "pending" /\ OtherRows(t) /\ n \in 0 .. MaxRetries
      /\ row'[t].status = "running" /\ row'[t].retry = n /\ Apart
  BY <1>n, DequeueEffect, DequeueLostEffect DEF TypeInv, WorkersTyped, Rows
<1>2. UNCHANGED <<sent, direct, skipped, arg>>
  BY <1>1, OtherVars
<1>3. x \in Turns
  <2>1. "started" \in EventTypes
    BY DEF EventTypes
  <2> QED
    BY <1>1, <2>1, TurnType
<1>4. Past' = Past \cup {x} /\ x \notin Past
  <2>1. ASSUME NEW y \in Turns, y[1] = t
        PROVE  /\ Took("running", n, y[2], y[3]) <=> Took("pending", n, y[2], y[3]) \/ y \in {x}
               /\ y = x => ~Took("pending", n, y[2], y[3])
    <3>1. y[3] \in Nat /\ y = <<t, y[2], y[3]>>
      BY <2>1, TurnParts
    <3> QED
      BY <1>1, <3>1, TurnParts DEF Took, LastTurns
  <2>2. \A y \in {x} : y \in Turns /\ y[1] = t
    BY <1>3, TurnParts
  <2>3. x \notin Past
    BY <1>1, <1>3, <1>n, <2>1, <2>2 DEF Past
  <2>4. Between(t, "pending", n, "running", n, {x})
    BY <2>1, <2>2 DEF Between
  <2> QED
    BY <1>1, <1>n, <2>3, <2>4, PastGains
<1>5. x[2] \notin Outcomes
  BY DEF Outcomes
<1>6. \A u \in Tasks : row'[u].status = "absent" => row'[u].retry = 0
  BY <1>1 DEF HistoryInv, OtherRows
<1>7. CASE Dequeue(w, t)
  <2>e. PICK e : e = Event("started", t, "running", n)
    OBVIOUS
  <2>1. /\ pc[w] = "poll" /\ pc'[w] = "run" /\ OtherWorkers(w) /\ Free(w) /\ w \in Goroutines
        /\ OtherTodos(w) /\ todo'[w] = InvalidateAndPublish(e) /\ e \in Events
        /\ UNCHANGED faultVars
    BY <1>7, <1>n, <2>e, DequeueEffect DEF Goroutines
  <2>2. e.type # "progress" /\ TurnOf(e) = x
    BY <2>e DEF Event, TurnOf
  <2>3. todo[w].event = NoEvent /\ todo'[w].event = e
    BY <2>1, TodoParts DEF Free
  <2>4. Told' = Told \cup {x}
    BY <1>2, <2>1, <2>2, <2>3, TodoMakes, ToldMore
  <2>5. unmade' = unmade \cup {} /\ unwritten' = unwritten \cup {}
    BY <2>1 DEF faultVars
  <2>6. UnderWay' = UnderWay
    <3>1. UnderWayBy(w) = {} /\ UnderWayBy(w)' = {}
      BY <2>1 DEF UnderWayBy
    <3> QED
      BY <2>1, <3>1, UnderWayStep
  <2>t. Takes({x}, {x}, {}, {})
    BY <1>4, <1>5, <1>6, <2>4, <2>5, <2>6 DEF Takes
  <2> QED
    BY <2>t, HistoryStep
<1>8. CASE DequeueReplyLost(w, t)
  <2>1. /\ unmade' = unmade \cup {x} /\ unwritten' = unwritten \cup {}
        /\ UNCHANGED <<pc, held, retry, todo>>
    BY <1>8, <1>n, DequeueLostEffect
  <2>2. Told' = Told \cup {}
    BY <1>2, <2>1, ToldSame DEF MakesNone, InHand
  <2>3. UnderWay' = UnderWay
    BY <2>1 DEF UnderWay, UnderWayBy
  <2>t. Takes({x}, {}, {x}, {})
    BY <1>4, <1>5, <1>6, <2>1, <2>2, <2>3 DEF Takes
  <2> QED
    BY <2>t, HistoryStep
<1> QED
  BY <1>7, <1>8

\* Execute: the event says what came of it, and that is under way.
LEMMA ExecuteTold ==
  ASSUME TypeInv, HistoryInv, NEW w \in Workers, Execute(w)
  PROVE  HistoryInv'
<1>0. PICK outcome \in {"completed", "failed"} :
        LET e == Event(outcome, held[w], outcome, retry[w]) IN
        /\ pc[w] = "run" /\ Free(w) /\ e \in Events
        /\ pc'[w] = IF outcome = "completed" THEN "succeeded" ELSE "errored"
        /\ held'[w] = held[w] /\ retry'[w] = retry[w] /\ OtherWorkers(w)
        /\ OtherTodos(w) /\ todo'[w] = Publish(e)
        /\ UNCHANGED <<row, faultVars>> /\ Apart
  BY ExecuteEffect
<1>e. PICK e : e = Event(outcome, held[w], outcome, retry[w])
  OBVIOUS
<1> DEFINE x == <<held[w], outcome, retry[w]>>
<1>1. /\ Free(w) /\ e \in Events /\ OtherWorkers(w) /\ OtherTodos(w) /\ todo'[w] = Publish(e)
      /\ UNCHANGED <<row, faultVars>> /\ Apart /\ w \in Goroutines
  BY <1>0, <1>e DEF Goroutines
<1>2. UNCHANGED <<sent, direct, skipped, arg>>
  BY <1>1, OtherVars
<1>3. e.type # "progress" /\ TurnOf(e) = x /\ x[2] \in Outcomes
  BY <1>e DEF Event, TurnOf, Outcomes
<1>4. todo[w].event = NoEvent /\ todo'[w].event = e
  BY <1>1, TodoParts DEF Free
<1>5. Told' = Told \cup {x}
  BY <1>1, <1>2, <1>3, <1>4, TodoMakes, ToldMore
<1>6. UnderWay \subseteq UnderWay' /\ UnderWay' \subseteq UnderWay \cup {x} /\ x \in UnderWay'
  <2>1. UnderWayBy(w) = {} /\ UnderWayBy(w)' = {x}
    BY <1>0 DEF UnderWayBy
  <2> QED
    BY <1>1, <2>1, UnderWayStep
<1>7. /\ Past' = Past \cup {} /\ unmade' = unmade \cup {} /\ unwritten' = unwritten \cup {}
      /\ \A t \in Tasks : row'[t].status = "absent" => row'[t].retry = 0
  BY <1>1 DEF Past, faultVars, HistoryInv
<1>t. Takes({}, {x}, {}, {})
  BY <1>3, <1>5, <1>6, <1>7 DEF Takes
<1> QED
  BY <1>t, HistoryStep

\* Worker w is past its executor with that outcome of that attempt ...
Ends(w, t, type, n) ==
  /\ held[w] = t /\ retry[w] = n
  /\ \/ pc[w] = "succeeded" /\ type = "completed"
     \/ pc[w] \in {"errored", "dead"} /\ type = "failed"

\* ... and has it under way.
LEMMA UnderWayHeld ==
  ASSUME TypeInv, HistoryInv, NEW w \in Workers, NEW t, NEW n, NEW type,
         Ends(w, t, type, n)
  PROVE  /\ UnderWayBy(w) = {<<t, type, n>>} /\ <<t, type, n>> \in UnderWay
         /\ t \in Tasks /\ n \in 0 .. MaxRetries /\ row[t].retry = n
         /\ row[t].status \in {"running", "failed"}
         /\ pc[w] # "dead" => row[t].status = "running"
         /\ <<t, type, n>> \in Turns /\ <<t, type, n>>[2] \in Outcomes
<1>1. UnderWayBy(w) = {<<t, type, n>>}
  BY DEF UnderWayBy, Ends
<1>2. /\ t \in Tasks /\ n \in 0 .. MaxRetries /\ row[t].retry = n
      /\ row[t].status \in {"running", "failed"}
      /\ pc[w] # "dead" => row[t].status = "running"
  BY HeldTask DEF Ends
<1>3. type \in EventTypes /\ type \in Outcomes
  BY DEF EventTypes, Outcomes, Ends
<1> QED
  BY <1>1, <1>2, <1>3, TurnType, TurnParts DEF UnderWay

\* The write of an outcome: what is under way becomes the row's. A failed row
\* that is not written leaves the failure under way.
LEMMA OutcomeTold ==
  ASSUME TypeInv, HistoryInv, NEW w \in Workers,
         handleTaskSuccess(w) \/ FailUpdate(w)
  PROVE  HistoryInv'
<1>t. PICK t : t = held[w]
  OBVIOUS
<1>n. PICK n : n = retry[w]
  OBVIOUS
<1>s. PICK s \in Outcomes : s = (IF pc[w] = "succeeded" THEN "completed" ELSE "failed")
  BY DEF Outcomes
<1> DEFINE x == <<t, s, n>>
<1>1. /\ pc[w] \in {"succeeded", "errored"} /\ Wrote(w, s) /\ SameTodos /\ OtherWorkers(w)
      /\ s = "failed" => pc'[w] = "dead" /\ held'[w] = t /\ retry'[w] = n
      /\ s = "completed" => pc'[w] = "poll"
      /\ Apart
  BY <1>t, <1>n, <1>s, SuccessEffect, FailEffect
<1>2. UNCHANGED <<sent, direct, skipped, arg>>
  BY <1>1, OtherVars
<1>3. /\ UnderWayBy(w) = {x} /\ x \in UnderWay /\ t \in Tasks /\ row[t].retry = n
      /\ row[t].status = "running" /\ x \in Turns /\ x[2] \in Outcomes
      /\ n \in 0 .. MaxRetries
  <2>1. Ends(w, t, s, n) /\ pc[w] # "dead" /\ pc[w] # "poll"
    BY <1>1, <1>t, <1>n, <1>s DEF Ends
  <2> QED
    BY <2>1, UnderWayHeld
<1>4. Told' = Told \cup {}
  <2>1. MakesNone
    BY <1>1, <1>2 DEF MakesNone, InHand, SameTodos
  <2> QED
    BY <1>2, <2>1, ToldSame
<1>5. /\ UnderWay \subseteq UnderWay' \cup {x} /\ UnderWay' \subseteq UnderWay
      /\ s = "failed" => UnderWay \subseteq UnderWay'
  <2>1. UnderWayBy(w)' \subseteq {x} /\ (s = "failed" => UnderWayBy(w)' = {x})
    <3>1. CASE s = "failed"
      BY <1>1, <1>3, <3>1 DEF UnderWayBy
    <3>2. CASE s = "completed"
      BY <1>1, <3>2 DEF UnderWayBy
    <3> QED
      BY <3>1, <3>2 DEF Outcomes
  <2> QED
    BY <1>1, <1>3, <2>1, UnderWayStep
<1>6. CASE /\ row'[t].status = s /\ row'[t].retry = n /\ OtherRows(t) /\ UNCHANGED faultVars
  <2>1. Past' = Past \cup {x}
    <3>1. ASSUME NEW y \in Turns, y[1] = t
          PROVE  Took(s, n, y[2], y[3]) <=> Took("running", n, y[2], y[3]) \/ y \in {x}
      <4>1. y[3] \in Nat /\ y = <<t, y[2], y[3]>>
        BY <3>1, TurnParts
      <4>2. CASE s = "completed"
        BY <1>3, <4>1, <4>2, TurnParts DEF Took, LastTurns
      <4>3. CASE s = "failed"
        BY <1>3, <4>1, <4>3, TurnParts DEF Took, LastTurns
      <4> QED
        BY <4>2, <4>3 DEF Outcomes
    <3>2. \A y \in {x} : y \in Turns /\ y[1] = t
      BY <1>3, TurnParts
    <3>3. Between(t, "running", n, s, n, {x})
      BY <3>1, <3>2 DEF Between
    <3> QED
      BY <1>3, <1>6, <3>3, PastGains
  <2>2. unmade' = unmade \cup {} /\ unwritten' = unwritten \cup {}
    BY <1>6 DEF faultVars
  <2>3. \A u \in Tasks : row'[u].status = "absent" => row'[u].retry = 0
    BY <1>6 DEF HistoryInv, OtherRows, Outcomes
  <2>4. Takes({x}, {}, {}, {})
    BY <1>3, <1>4, <1>5, <2>1, <2>2, <2>3 DEF Takes
  <2> QED
    BY <2>4, HistoryStep
<1>7. CASE row' = row /\ unmade' = unmade /\ unwritten' = unwritten \cup Lost(w, s, s # "completed")
  <2>1. Past' = Past \cup {} /\ \A u \in Tasks : row'[u].status = "absent" => row'[u].retry = 0
    BY <1>7 DEF Past, HistoryInv
  <2>2. unmade' = unmade \cup {}
    BY <1>7
  <2>3. CASE s = "completed"
    <3>1. unwritten' = unwritten \cup {x}
      BY <1>7, <1>t, <1>n, <2>3 DEF Lost
    <3>2. Takes({}, {}, {}, {x})
      BY <1>3, <1>4, <1>5, <2>1, <2>2, <3>1 DEF Takes
    <3> QED
      BY <3>2, HistoryStep
  <2>4. CASE s = "failed"
    <3>1. unwritten' = unwritten \cup {}
      BY <1>7, <2>4 DEF Lost
    <3>2. Takes({}, {}, {}, {})
      BY <1>4, <1>5, <2>1, <2>2, <2>4, <3>1 DEF Takes
    <3> QED
      BY <3>2, HistoryStep
  <2> QED
    BY <2>3, <2>4 DEF Outcomes
<1>8. \/ row'[t].status = s /\ row'[t].retry = n /\ OtherRows(t) /\ UNCHANGED faultVars
      \/ row' = row /\ unmade' = unmade /\ unwritten' = unwritten \cup Lost(w, s, s # "completed")
  BY <1>1, <1>3, <1>t DEF Wrote
<1> QED
  BY <1>6, <1>7, <1>8

\* Requeue and MoveToDeadLetter end the attempt: the row takes over what was
\* under way, and the turn of the event; unless nothing is written.
LEMMA AnnounceTold ==
  ASSUME TypeInv, HistoryInv, NEW w \in Workers, pc[w] \in {"errored", "dead"}, Free(w),
         NEW s \in {"pending", "dead_letter"}, NEW n \in 0 .. MaxRetries,
         NEW m \in 0 .. MaxRetries, NEW type \in {"retrying", "dead_letter"}, NEW e \in Events,
         e.task = held[w], e.type = type, e.retry = n, n = retry[w], Announces(w, s, m, e),
         \/ s = "pending" /\ m = n + 1 /\ type = "retrying" /\ pc[w] = "errored"
         \/ s = "dead_letter" /\ m = n /\ type = "dead_letter",
         pc'[w] = "poll", OtherWorkers(w), Apart
  PROVE  HistoryInv'
<1>t. PICK t : t = held[w]
  OBVIOUS
<1> DEFINE f == <<t, "failed", n>>
           x == <<t, type, n>>
<1>1. UNCHANGED <<sent, direct, skipped, arg>>
  BY OtherVars
<1>2. /\ UnderWayBy(w) = {f} /\ f \in UnderWay /\ t \in Tasks /\ row[t].retry = n
      /\ row[t].status \in {"running", "failed"}
      /\ s = "pending" => row[t].status = "running"
      /\ f \in Turns /\ f[2] \in Outcomes
  <2>1. Ends(w, t, "failed", n)
    BY <1>t DEF Ends
  <2> QED
    BY <2>1, UnderWayHeld
<1>3. /\ TurnOf(e) = x /\ e.type # "progress" /\ w \in Goroutines
      /\ x \in Turns /\ x[2] \notin Outcomes
  <2>1. type \in EventTypes /\ type \notin Outcomes
    BY DEF EventTypes, Outcomes
  <2> QED
    BY <1>2, <1>t, <2>1, TurnType, TurnParts DEF TurnOf, Goroutines
<1>4. UnderWay \subseteq UnderWay' \cup {f} /\ UnderWay' \subseteq UnderWay
  <2>1. UnderWayBy(w)' = {}
    BY DEF UnderWayBy
  <2> QED
    BY <1>2, <2>1, UnderWayStep
<1>5. ASSUME row'[t].status = s, row'[t].retry = m, OtherRows(t)
      PROVE  /\ Past' = Past \cup {f, x} /\ x \notin Past
             /\ \A u \in Tasks : row'[u].status = "absent" => row'[u].retry = 0
  <2>r. PICK r \in {"running", "failed"} : r = row[t].status
    BY <1>2
  <2>1. ASSUME NEW y \in Turns, y[1] = t
        PROVE  /\ Took(s, m, y[2], y[3]) <=> Took(r, n, y[2], y[3]) \/ y \in {f, x}
               /\ y = x => ~Took(r, n, y[2], y[3])
    <3>1. y[3] \in Nat /\ y = <<t, y[2], y[3]>>
      BY <2>1, TurnParts
    <3>2. (y = f <=> y[2] = "failed" /\ y[3] = n) /\ (y = x <=> y[2] = type /\ y[3] = n)
      BY <3>1, TurnParts
    <3>3. ~(y[2] = type /\ y[3] = n /\ Took(r, n, y[2], y[3]))
      BY DEF Took, LastTurns
    <3>4. CASE s = "pending"
      <4>1. r = "running" /\ type = "retrying" /\ m = n + 1
        BY <1>2, <2>r, <3>4
      <4>2. y[3] < m <=> y[3] < n \/ y[3] = n
        BY <3>1, <4>1
      <4>3. Took(s, m, y[2], y[3]) <=>
              \/ y[2] = "created" /\ y[3] = 0
              \/ y[2] \in {"started", "failed", "retrying"} /\ (y[3] < n \/ y[3] = n)
        BY <3>4, <4>2 DEF Took, LastTurns
      <4>4. Took(r, n, y[2], y[3]) <=>
              \/ y[2] = "created" /\ y[3] = 0
              \/ y[2] \in {"started", "failed", "retrying"} /\ y[3] < n
              \/ y[3] = n /\ y[2] = "started"
        BY <4>1 DEF Took, LastTurns
      <4> QED
        BY <3>2, <3>3, <4>1, <4>3, <4>4
    <3>5. CASE s = "dead_letter"
      BY <3>2, <3>3, <3>5 DEF Took, LastTurns
    <3> QED
      BY <3>4, <3>5
  <2>2. \A y \in {f, x} : y \in Turns /\ y[1] = t
    BY <1>2, <1>3, TurnParts
  <2>3. x \notin Past
    BY <1>2, <1>3, <2>1, <2>2, <2>r DEF Past
  <2>4. Between(t, r, n, s, m, {f, x})
    BY <2>1, <2>2 DEF Between
  <2>5. \A u \in Tasks : row'[u].status = "absent" => row'[u].retry = 0
    BY <1>5 DEF HistoryInv, OtherRows
  <2> QED
    BY <1>2, <1>5, <2>3, <2>4, <2>5, <2>r, PastGains
<1>6. CASE /\ row'[t].status = s /\ row'[t].retry = m /\ OtherRows(t)
           /\ todo'[w] = InvalidateAndPublish(e) /\ OtherTodos(w) /\ UNCHANGED faultVars
  <2>1. todo[w].event = NoEvent /\ todo'[w].event = e
    BY <1>6, TodoParts DEF Free
  <2>2. Told' = Told \cup {x}
    BY <1>1, <1>3, <1>6, <2>1, TodoMakes, ToldMore
  <2>3. unmade' = unmade \cup {} /\ unwritten' = unwritten \cup {}
    BY <1>6 DEF faultVars
  <2>4. Takes({f, x}, {x}, {}, {})
    BY <1>2, <1>3, <1>4, <1>5, <1>6, <2>2, <2>3 DEF Takes
  <2> QED
    BY <2>4, HistoryStep
<1>7. CASE /\ row'[t].status = s /\ row'[t].retry = m /\ OtherRows(t)
           /\ \/ todo'[w] = InvalidateAndPublish(NoEvent) /\ OtherTodos(w)
              \/ todo' = todo
           /\ unmade' = unmade \cup {x} /\ unwritten' = unwritten
  <2>1. Told' = Told \cup {}
    <3>1. todo[w].event = NoEvent /\ todo'[w].event = NoEvent /\ OtherTodos(w)
      BY <1>7, TodoParts DEF Free, OtherTodos
    <3>2. MakesNone
      BY <1>1, <1>3, <3>1, TodoMakesNone
    <3> QED
      BY <1>1, <3>2, ToldSame
  <2>2. unwritten' = unwritten \cup {}
    BY <1>7
  <2>3. Takes({f, x}, {}, {x}, {})
    BY <1>2, <1>3, <1>4, <1>5, <1>7, <2>1, <2>2 DEF Takes
  <2> QED
    BY <2>3, HistoryStep
<1>8. CASE /\ row' = row /\ todo' = todo /\ unmade' = unmade
           /\ unwritten' = unwritten \cup Lost(w, "failed", row[t].status = "failed")
  <2>1. /\ Past' = Past \cup {} /\ unmade' = unmade \cup {}
        /\ \A u \in Tasks : row'[u].status = "absent" => row'[u].retry = 0
    BY <1>8 DEF Past, HistoryInv
  <2>2. Told' = Told \cup {}
    BY <1>1, <1>8, ToldSame DEF MakesNone, InHand
  <2>3. CASE row[t].status = "running"
    <3>1. unwritten' = unwritten \cup {f}
      BY <1>8, <1>t, <2>3 DEF Lost
    <3>2. Takes({}, {}, {}, {f})
      BY <1>2, <1>4, <2>1, <2>2, <3>1 DEF Takes
    <3> QED
      BY <3>2, HistoryStep
  <2>4. CASE row[t].status = "failed"
    <3>1. unwritten' = unwritten \cup {}
      BY <1>8, <2>4 DEF Lost
    <3>2. f \in Past'
      BY <1>2, <1>8, <2>4, TurnParts DEF Past, Took, LastTurns
    <3>3. Takes({}, {}, {}, {})
      BY <1>4, <2>1, <2>2, <3>1, <3>2 DEF Takes
    <3> QED
      BY <3>3, HistoryStep
  <2> QED
    BY <1>2, <2>3, <2>4
<1> QED
  BY <1>3, <1>6, <1>7, <1>8, <1>t DEF Announces

\* Every step keeps it.
LEMMA HistoryInvNext == TypeInv /\ EventInv /\ HistoryInv /\ [Next]_vars => HistoryInv'
<1> SUFFICES ASSUME TypeInv, EventInv, HistoryInv, [Next]_vars PROVE HistoryInv'
  OBVIOUS
<1>1. ASSUME NEW w \in Workers, Requeue(w) \/ RequeueReplyLost(w) PROVE HistoryInv'
  <2>n. PICK n : n = retry[w]
    OBVIOUS
  <2>e. PICK e : e = Event("retrying", held[w], "running", n)
    OBVIOUS
  <2>1. /\ pc[w] = "errored" /\ Free(w) /\ e \in Events /\ n < MaxRetries
        /\ Announces(w, "pending", n + 1, e)
        /\ pc'[w] = "poll" /\ OtherWorkers(w) /\ Apart
    BY <1>1, <2>n, <2>e, RequeueEffect
  <2>2. n \in 0 .. MaxRetries /\ n + 1 \in 0 .. MaxRetries
    BY <2>1, <2>n, HeldTask
  <2>3. PICK m \in 0 .. MaxRetries : m = n + 1
    BY <2>2
  <2>4. Announces(w, "pending", m, e)
    BY <2>1, <2>3
  <2>5. e.task = held[w] /\ e.type = "retrying" /\ e.retry = n
    BY <2>e DEF Event
  <2> QED
    BY <2>n, <2>1, <2>2, <2>3, <2>4, <2>5, AnnounceTold
<1>2. ASSUME NEW w \in Workers, MoveToDeadLetter(w) \/ MoveToDeadLetterReplyLost(w)
      PROVE  HistoryInv'
  <2>n. PICK n : n = retry[w]
    OBVIOUS
  <2>e. PICK e : e = Event("dead_letter", held[w], row[held[w]].status, n)
    OBVIOUS
  <2>1. /\ pc[w] = "dead" /\ Free(w) /\ e \in Events
        /\ Announces(w, "dead_letter", n, e)
        /\ pc'[w] = "poll" /\ OtherWorkers(w) /\ Apart
    BY <1>2, <2>n, <2>e, DeadLetterEffect
  <2>2. n \in 0 .. MaxRetries
    BY <2>1, <2>n, HeldTask
  <2>3. e.task = held[w] /\ e.type = "dead_letter" /\ e.retry = n
    BY <2>e DEF Event
  <2> QED
    BY <2>n, <2>1, <2>2, <2>3, AnnounceTold
<1>3. ASSUME NEW w \in Workers, ReportProgress(w) PROVE HistoryInv'
  <2>e. PICK e : e = Event("progress", held[w], "running", retry[w])
    OBVIOUS
  <2>1. /\ Free(w) /\ e \in Events /\ OtherTodos(w) /\ todo'[w] = Publish(e)
        /\ UNCHANGED <<row, pc, held, retry, faultVars>> /\ Apart
    BY <1>3, <2>e, ProgressEffect
  <2>2. UNCHANGED <<sent, direct, skipped, arg>> /\ e.type = "progress" /\ w \in Goroutines
    BY <2>1, <2>e, OtherVars DEF Event, Goroutines
  <2>3. todo[w].event = NoEvent /\ todo'[w].event = e
    BY <2>1, TodoParts DEF Free
  <2>4. \A x \in Events : Made(x)' <=> Made(x) \/ x = e
    BY <2>1, <2>2, <2>3, TodoMakes, ToldMore
  <2>5. Told' = Told \cup {}
    BY <2>2, <2>4, ToldKept
  <2> QED
    BY <2>1, <2>5, ToldStill
<1>4. ASSUME NEW g \in Goroutines, invalidateCache(g) PROVE HistoryInv'
  <2>1. /\ OtherTodos(g) /\ todo'[g].event = todo[g].event
        /\ UNCHANGED <<row, faultVars, pc, held, retry, skipped>> /\ UNCHANGED pubVars
    BY <1>4, InvalidateEffect
  <2>2. UNCHANGED <<sent, direct, arg>>
    BY <2>1 DEF pubVars
  <2>3. Told' = Told \cup {}
    BY <2>1, <2>2, TodoMakesNone, ToldSame
  <2> QED
    BY <2>1, <2>3, ToldStill
<1>5. ASSUME NEW g \in Goroutines, PublishEvent(g) PROVE HistoryInv'
  <2>e. PICK e : e = todo[g].event
    OBVIOUS
  <2>1. /\ e \in Events /\ OtherTodos(g) /\ todo'[g] = Nothing
        /\ \/ Pub!PublishCheck(g, e) /\ UNCHANGED skipped
           \/ skipped' = skipped \cup {e} /\ UNCHANGED pubVars
        /\ UNCHANGED <<row, faultVars, pc, held, retry>>
    BY <1>5, <2>e, PublishEffect
  <2>2. /\ todo'[g].event = NoEvent /\ arg \in [Goroutines -> Events \cup {NoEvent}]
        /\ call[g] = "idle" => arg[g] = NoEvent
    BY <2>1, TodoParts, PubFacts DEF TypeInv
  <2>3. CASE Pub!PublishCheck(g, e) /\ UNCHANGED skipped
    <3>1. /\ arg' = [arg EXCEPT ![g] = e] /\ UNCHANGED <<sent, direct>> /\ arg[g] = NoEvent
      BY <2>2, <2>3 DEF Pub!PublishCheck
    <3>2. MakesNone
      <4>1. ASSUME NEW h \in Goroutines, NEW x \in Events PROVE InHand(h, x)' <=> InHand(h, x)
        <5>1. CASE h = g
          BY <2>2, <2>e, <3>1, <5>1 DEF InHand
        <5>2. CASE h # g
          BY <2>1, <2>2, <3>1, <5>2 DEF InHand, OtherTodos
        <5> QED
          BY <5>1, <5>2
      <4> QED
        BY <4>1 DEF MakesNone
    <3> QED
      BY <2>1, <2>3, <3>1, <3>2, ToldSame, ToldStill
  <2>4. CASE skipped' = skipped \cup {e} /\ UNCHANGED pubVars
    <3>1. UNCHANGED <<sent, direct, arg>> /\ Published' = Published
      BY <2>4 DEF pubVars, Published
    <3>2. \A h \in Goroutines, x \in Events : x # e => (InHand(h, x)' <=> InHand(h, x))
      BY <2>1, <2>2, <2>e, <3>1 DEF InHand, OtherTodos
    <3>3. Made(e) /\ Made(e)'
      BY <2>4, <2>e DEF Made, Gone, InHand
    <3>4. ASSUME NEW x \in Events, x # e PROVE Made(x)' <=> Made(x)
      BY <2>4, <3>1, <3>2, <3>4 DEF Made, Gone
    <3> QED
      BY <2>1, <3>3, <3>4, ToldKept, ToldStill
  <2> QED
    BY <2>1, <2>3, <2>4
<1>6. CASE SetEnabled \/ GetQueueDepthFetch \/ GetQueueDepthStore \/ CacheExpires \/ UNCHANGED vars
  <2>1. UNCHANGED <<row, faultVars, pc, held, retry, todo, skipped, sent, direct, arg>>
    BY <1>6 DEF SetEnabled, GetQueueDepthFetch, GetQueueDepthStore, CacheExpires, rowVars,
                workerVars, noteVars, pubVars, vars, Pub!SetEnabled, Pub!callVars
  <2>2. MakesNone
    BY <2>1 DEF MakesNone, InHand
  <2> QED
    BY <2>1, <2>2, ToldSame, ToldStill
<1>7. CASE PublisherStep
  <2>0. UNCHANGED <<row, faultVars, pc, held, retry, todo, skipped>>
    BY <1>7, PublisherEffect
  \* An event that leaves a hand has been published.
  <2>1. ASSUME NEW g \in Goroutines, NEW e \in Events, arg[g] = e,
               arg' = [arg EXCEPT ![g] = NoEvent], Published' = Published \cup {e}
        PROVE  HistoryInv'
    <3>1. arg \in [Goroutines -> Events \cup {NoEvent}]
      BY PubFacts DEF TypeInv
    <3>2. \A h \in Goroutines, x \in Events : x # e => (InHand(h, x)' <=> InHand(h, x))
      BY <2>0, <2>1, <3>1 DEF InHand
    <3>3. Made(e) /\ Made(e)'
      BY <2>1 DEF Made, Gone, InHand
    <3>4. ASSUME NEW x \in Events, x # e PROVE Made(x)' <=> Made(x)
      BY <2>0, <2>1, <3>2, <3>4 DEF Made, Gone
    <3> QED
      BY <2>0, <3>3, <3>4, ToldKept, ToldStill
  <2>2. ASSUME UNCHANGED <<sent, direct, arg>> PROVE HistoryInv'
    <3>1. MakesNone
      BY <2>0, <2>2 DEF MakesNone, InHand
    <3> QED
      BY <2>0, <2>2, <3>1, ToldSame, ToldStill
  <2>3. ASSUME NEW g \in Goroutines, call[g] # "idle" PROVE arg[g] \in Events
    BY <2>3, PubFacts DEF TypeInv
  <2>4. ASSUME NEW g \in Goroutines, Pub!PublishSend(g) PROVE HistoryInv'
    <3>e. PICK e : e = arg[g]
      OBVIOUS
    <3>1. /\ e \in Events /\ sent' = Append(sent, e) /\ UNCHANGED direct
          /\ arg' = [arg EXCEPT ![g] = NoEvent] /\ sent \in Seq(Events)
      BY <2>3, <2>4, <3>e, PubFacts DEF Pub!PublishSend, TypeInv
    <3>2. /\ \A i \in 1 .. Len(sent) : sent'[i] = sent[i]
          /\ sent'[Len(sent) + 1] = e /\ Len(sent) \in Nat
          /\ DOMAIN sent = 1 .. Len(sent) /\ DOMAIN sent' = 1 .. Len(sent) + 1
      BY <3>1
    <3>3. Range(sent') = Range(sent) \cup {e}
      BY <3>2 DEF Range
    <3> QED
      BY <2>1, <3>e, <3>1, <3>3 DEF Published
  <2>5. ASSUME NEW g \in Goroutines, Pub!DirectReturns(g) PROVE HistoryInv'
    <3>e. PICK e : e = arg[g]
      OBVIOUS
    <3>1. /\ e \in Events /\ direct' = direct \cup {e} /\ UNCHANGED sent
          /\ arg' = [arg EXCEPT ![g] = NoEvent]
      BY <2>3, <2>5, <3>e DEF Pub!DirectReturns
    <3> QED
      BY <2>1, <3>e, <3>1 DEF Published
  <2>6. ASSUME NEW g \in Goroutines, Pub!PublishFull(g) PROVE HistoryInv'
    BY <2>2, <2>6 DEF Pub!PublishFull
  <2>7. ASSUME NEW g \in Goroutines PROVE ~Pub!PublishPanics(g)
    BY DEF Pub!PublishPanics, Pub!ChannelClosed, TypeInv, PubInv, PubOpen
  <2>8. ASSUME NEW l \in Loops, Pub!LoopStep(l) PROVE HistoryInv'
    BY <2>2, <2>8 DEF Pub!LoopStep, Pub!Receive, Pub!LoopPublished, Pub!LoopStops,
                      Pub!LoopExits, Pub!callVars
  <2> QED
    BY <1>7, <2>4, <2>5, <2>6, <2>7, <2>8 DEF PublisherStep, Pub!CallStep
<1>8. ASSUME NEW t \in Tasks, Enqueue(t) \/ EnqueueReplyLost(t) PROVE HistoryInv'
  BY <1>8, EnqueueTold
<1>9. ASSUME NEW w \in Workers, WorkerStep(w) PROVE HistoryInv'
  BY <1>1, <1>2, <1>3, <1>9, DequeueTold, ExecuteTold, OutcomeTold DEF WorkerStep
<1> QED
  BY <1>4, <1>5, <1>6, <1>7, <1>8, <1>9 DEF Next

\* Init establishes it: nothing has happened.
LEMMA HistoryInvInit == Init => HistoryInv
<1> SUFFICES ASSUME Init PROVE HistoryInv
  OBVIOUS
<1>1. \A g \in Goroutines : todo[g].event = NoEvent /\ arg[g] = NoEvent
  BY DEF Init, Nothing
<1>2. Published = {} /\ skipped = {}
  BY DEF Init, Published, Range
<1>3. Told = {} /\ UnderWay = {}
  BY <1>1, <1>2 DEF Told, Made, Gone, InHand, UnderWay, UnderWayBy, Init
<1>4. \A t \in Tasks : row[t].status = "absent" /\ row[t].retry = 0
  BY DEF Init
<1>5. Past = {}
  <2>1. ASSUME NEW x \in Turns PROVE ~Took("absent", 0, x[2], x[3])
    BY TurnParts DEF Took, LastTurns
  <2> QED
    BY <1>4, <2>1, TurnParts DEF Past
<1>6. unmade = {} /\ unwritten = {}
  BY DEF Init
<1> QED
  BY <1>3, <1>4, <1>5, <1>6 DEF HistoryInv

(***************************************************************************)
(* The events reconstruct the history of every task, but for what failed   *)
(* calls account for, one turn at most each: the turns announced are at    *)
(* any time those in the rows without the unmade ones, the unwritten ones  *)
(* and the outcomes under way (HistoryInv), a call that fails books the    *)
(* turn it leaves out of step (LedgerTyped); and when all is quiet, no     *)
(* attempt is under way and all that was announced has been handed over,   *)
(* or swallowed by a publisher that was switched off.                      *)
(***************************************************************************)
THEOREM HistoryTold == Spec => []HistoryReconstructible
<1>1. TypeInv /\ HistoryInv => HistoryReconstructible
  <2> SUFFICES ASSUME TypeInv, HistoryInv, Quiet
               PROVE  /\ ToldTurns = (TakenTurns \ unmade) \cup unwritten
                      /\ Cardinality(unmade) + Cardinality(unwritten) <= faults
    BY DEF HistoryReconstructible
  <2>0. TakenTurns = Past
    BY HistoryIsPast
  <2>1. Cardinality(unmade) + Cardinality(unwritten) <= faults
    BY DEF TypeInv, LedgerTyped
  <2>2. /\ sent \in Seq(Events) /\ done \in Seq(Events) /\ buffer = <<>>
        /\ direct \subseteq Events /\ skipped \subseteq Events
    BY PubFacts DEF TypeInv, NotesTyped, Quiet
  <2>3. Delivered = Published
    <3>1. PubProofs!InOrder
      <4>1. PubProofs!OneLoop
        BY DEF PubProofs!OneLoop, PubProofs!Launched
      <4> QED
        BY <4>1 DEF TypeInv, PubInv, PubProofs!OrderInv
    <3>2. \A l \in Loops : ~PubProofs!Busy(l)
      BY DEF Quiet, TypeInv, PubInv, PubProofs!ChannelInv, PubProofs!Holds
    <3>3. Len(sent) = Len(done) + Len(buffer) /\ \A i \in 1 .. Len(done) : done[i] = sent[i]
      BY <3>1, <3>2 DEF PubProofs!InOrder
    <3>4. Len(sent) = Len(done)
      BY <2>2, <3>3
    <3> QED
      BY <2>2, <3>3, <3>4 DEF Delivered, Published, Range
  <2>4. Published \subseteq Events
    <3>1. \A i \in DOMAIN sent : sent[i] \in Events
      BY <2>2
    <3> QED
      BY <2>2, <3>1 DEF Published, Range
  <2>5. ASSUME NEW e \in Events PROVE Made(e) <=> e \in Delivered \cup skipped
    <3>1. \A g \in Goroutines : ~InHand(g, e)
      BY FreeHand DEF Quiet
    <3> QED
      BY <2>3, <3>1 DEF Made, Gone
  <2>6. ToldTurns = Told
    <3>1. Delivered \cup skipped \subseteq Events
      BY <2>2, <2>3, <2>4
    <3>2. {d \in Delivered \cup skipped : d.type # "progress"}
            = {d \in Events : Made(d) /\ d.type # "progress"}
      BY <2>5, <3>1
    <3> QED
      BY <3>2 DEF ToldTurns, Told
  <2>7. UnderWay = {}
    BY DEF UnderWay, UnderWayBy, Quiet
  <2>8. Told = (Past \ unmade) \cup unwritten
    BY <2>7 DEF HistoryInv
  <2> QED
    BY <2>0, <2>1, <2>6, <2>8
<1> QED
  BY <1>1, TypeInvHolds, EventInvInit, EventInvNext, HistoryInvInit, HistoryInvNext, PTL DEF Spec
=============================================================================
