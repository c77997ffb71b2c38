------------------------ MODULE MessagingQueueProofs ------------------------
(***************************************************************************)
(* Proofs about the messaging adapter, for any number of tasks, workers,   *)
(* retries and disturbances and any buffer size. The publisher's own       *)
(* theorems are used through an instance of its proof module: every step   *)
(* of the composition is a step of the publisher, or leaves it alone.      *)
(***************************************************************************)
EXTENDS MessagingQueue, FiniteSetTheorems, TLAPS

PubProofs == INSTANCE EventPublisherProofs WITH Callers <- Goroutines, AsyncPublish <- TRUE

USE MessagingAssumption

\* The instance satisfies the publisher's own assumption.
LEMMA PublisherAssumed == PubProofs!PublisherAssumption
  BY DEF PubProofs!PublisherAssumption
-----------------------------------------------------------------------------
(* The publisher inside the composition. *)

\* Stop is never called here, nobody panics, and a goroutine outside Publish
\* has no event in it.
PubOpen ==
  /\ stop = "no" /\ panicked = FALSE
  /\ \A g \in Goroutines : call[g] = "idle" => arg[g] = NoEvent

PubInv ==
  PubOpen /\ PubProofs!Flags /\ PubProofs!ChannelInv /\ PubProofs!OrderInv

\* What a step of the composition does to the publisher.
PubStep ==
  \/ \E g \in Goroutines : \/ \E e \in Events : Pub!PublishCheck(g, e)
                           \/ Pub!CallStep(g)
  \/ \E l \in Loops : Pub!LoopStep(l)
  \/ \E b \in BOOLEAN : Pub!SetEnabled(b)
  \/ UNCHANGED pubVars

\* Each of these is a step of the publisher's specification.
LEMMA PubStepIsNext ==
  ASSUME PubOpen, PubStep
  PROVE  [PubProofs!Next]_(PubProofs!vars)
<1>0. ~panicked
  BY DEF PubOpen
<1>1. ASSUME NEW g \in Goroutines, NEW e \in Events, Pub!PublishCheck(g, e)
      PROVE  PubProofs!PublishCheck(g, e)
  BY <1>1 DEF Pub!PublishCheck, PubProofs!PublishCheck, Pub!Used, PubProofs!Used,
              Pub!Elements, PubProofs!Elements, Pub!HasChannel, PubProofs!HasChannel,
              Pub!loopVars, PubProofs!loopVars
<1>2. ASSUME NEW g \in Goroutines, Pub!CallStep(g)
      PROVE  PubProofs!CallStep(g)
  BY <1>2 DEF Pub!CallStep, PubProofs!CallStep, Pub!PublishSend, PubProofs!PublishSend,
              Pub!PublishFull, PubProofs!PublishFull, Pub!PublishPanics, PubProofs!PublishPanics,
              Pub!DirectReturns, PubProofs!DirectReturns, Pub!ChannelClosed,
              PubProofs!ChannelClosed, Pub!HasChannel, PubProofs!HasChannel,
              Pub!Panic, PubProofs!Panic, Pub!loopVars, PubProofs!loopVars,
              Pub!callVars, PubProofs!callVars
<1>3. ASSUME NEW l \in Loops, Pub!LoopStep(l)
      PROVE  PubProofs!LoopStep(l)
  BY <1>3 DEF Pub!LoopStep, PubProofs!LoopStep, Pub!Receive, PubProofs!Receive,
              Pub!LoopPublished, PubProofs!LoopPublished, Pub!LoopStops, PubProofs!LoopStops,
              Pub!LoopExits, PubProofs!LoopExits, Pub!Goto, PubProofs!Goto,
              Pub!ChannelClosed, PubProofs!ChannelClosed, Pub!HasChannel, PubProofs!HasChannel,
              Pub!callVars, PubProofs!callVars
<1>4. ASSUME NEW b \in BOOLEAN, Pub!SetEnabled(b)
      PROVE  PubProofs!SetEnabled(b)
  BY <1>4 DEF Pub!SetEnabled, PubProofs!SetEnabled, Pub!loopVars, PubProofs!loopVars,
              Pub!callVars, PubProofs!callVars
<1>5. CASE UNCHANGED pubVars
  BY <1>5 DEF pubVars, PubProofs!vars
<1> QED
  BY <1>0, <1>1, <1>2, <1>3, <1>4, <1>5 DEF PubStep, PubProofs!Next

\* So the publisher's invariant is kept.
LEMMA PubInvStep ==
  ASSUME PubInv, PubStep
  PROVE  PubInv'
<1>1. [PubProofs!Next]_(PubProofs!vars)
  BY PubStepIsNext DEF PubInv
<1>2. PubProofs!Flags' /\ PubProofs!ChannelInv'
  BY <1>1, PublisherAssumed, PubProofs!FlagsNext, PubProofs!ChannelInvNext DEF PubInv
<1>3. PubProofs!OrderInv'
  BY <1>1, <1>2, PublisherAssumed, PubProofs!OrderInvNext DEF PubInv
<1>4. PubOpen'
  <2>0. /\ stop = "no" /\ panicked = FALSE /\ arg \in [Goroutines -> Events \cup {NoEvent}]
        /\ call \in [Goroutines -> {"idle", "sending", "direct"}]
        /\ \A g \in Goroutines : call[g] = "idle" => arg[g] = NoEvent
    BY DEF PubInv, PubOpen, PubProofs!ChannelInv, PubProofs!Shape
  <2>1. ASSUME NEW g \in Goroutines, NEW e \in Events, Pub!PublishCheck(g, e)
        PROVE  PubOpen'
    BY <2>0, <2>1 DEF Pub!PublishCheck, PubOpen
  <2>2. ASSUME NEW g \in Goroutines, Pub!CallStep(g)
        PROVE  PubOpen'
    BY <2>0, <2>2 DEF Pub!CallStep, Pub!PublishSend, Pub!PublishFull, Pub!PublishPanics,
                      Pub!DirectReturns, Pub!ChannelClosed, PubOpen
  <2>3. ASSUME NEW l \in Loops, Pub!LoopStep(l)
        PROVE  PubOpen'
    BY <2>0, <2>3 DEF Pub!LoopStep, Pub!Receive, Pub!LoopPublished, Pub!LoopStops,
                      Pub!LoopExits, Pub!callVars, PubOpen
  <2>4. ASSUME NEW b \in BOOLEAN, Pub!SetEnabled(b)
        PROVE  PubOpen'
    BY <2>0, <2>4 DEF Pub!SetEnabled, Pub!callVars, PubOpen
  <2>5. CASE UNCHANGED pubVars
    BY <2>0, <2>5 DEF pubVars, PubOpen
  <2> QED
    BY <2>1, <2>2, <2>3, <2>4, <2>5 DEF PubStep
<1> QED
  BY <1>2, <1>3, <1>4 DEF PubInv

\* It holds at the start, where the one loop already runs.
LEMMA PubInvInit == Init => PubInv
<1> SUFFICES ASSUME Init PROVE PubInv
  OBVIOUS
<1>1. PubOpen
  BY DEF Init, PubOpen
<1>2. PubProofs!Flags
  BY DEF Init, PubProofs!Flags
<1>3. PubProofs!Shape
  BY DEF Init, PubProofs!Shape
<1>4. PubProofs!Holds
  BY DEF Init, PubProofs!Holds, PubProofs!Busy
<1>5. PubProofs!Conserved /\ PubProofs!NothingInvented
  BY DEF Init, PubProofs!Conserved, PubProofs!NothingInvented, PubProofs!Elements
<1>6. PubProofs!ExitedIsEmpty
  BY DEF Init, PubProofs!ExitedIsEmpty, PubProofs!Launched
<1>7. PubProofs!OrderInv
  BY DEF Init, PubProofs!OrderInv, PubProofs!InOrder, PubProofs!Busy
<1> QED
  BY <1>1, <1>2, <1>3, <1>4, <1>5, <1>6, <1>7 DEF PubInv, PubProofs!ChannelInv

\* What the rest of this module uses of it.
LEMMA PubFacts ==
  ASSUME PubInv
  PROVE  /\ sent \in Seq(Events) /\ done \in Seq(Events) /\ buffer \in Seq(Events)
         /\ direct \subseteq Events
         /\ taken \in [Loops -> Events \cup {NoEvent}]
         /\ call \in [Goroutines -> {"idle", "sending", "direct"}]
         /\ arg \in [Goroutines -> Events \cup {NoEvent}]
         /\ \A g \in Goroutines : call[g] = "idle" <=> arg[g] = NoEvent
         /\ Pub!TypeOK
<1>1. PubProofs!Flags /\ PubProofs!Shape /\ PubProofs!Holds /\ PubOpen
  BY DEF PubInv, PubProofs!ChannelInv
<1>2. Pub!TypeOK
  BY <1>1 DEF PubProofs!Flags, PubProofs!Shape, Pub!TypeOK
<1> QED
  BY <1>1, <1>2 DEF PubProofs!Shape, PubProofs!Holds, PubOpen
-----------------------------------------------------------------------------
(* Types, and the one worker a task has. *)

Rows == [status : Statuses, retry : 0 .. MaxRetries]
Todos == [invalidate : BOOLEAN, event : Events \cup {NoEvent}]
Counts == [counts : SUBSET Tasks, overtaken : BOOLEAN, missed : BOOLEAN]

\* The repository and the workers.
WorkersTyped ==
  /\ row \in [Tasks -> Rows]
  /\ pc \in [Workers -> {"poll", "run", "succeeded", "errored", "dead"}]
  /\ held \in [Workers -> Tasks \cup {NoTask}]
  /\ retry \in [Workers -> 0 .. MaxRetries]

\* A worker that has a task has its row to itself: the row is running, or has
\* just failed, and the worker's copy has the right retry count.
HasRow ==
  /\ \A w \in Workers : pc[w] # "poll" =>
       /\ held[w] \in Tasks /\ retry[w] = row[held[w]].retry
       /\ \/ row[held[w]].status = "running"
          \/ pc[w] = "dead" /\ row[held[w]].status = "failed"
  /\ \A v, w \in Workers : v # w /\ pc[v] # "poll" /\ pc[w] # "poll" => held[v] # held[w]

TodosTyped == todo \in [Goroutines -> Todos]

CountersTyped ==
  faults \in Nat /\ switches \in Nat /\ faults + switches <= MaxDisturbances

CachesTyped == cache \in Counts /\ fetch \in Counts

\* Every failed call accounts for one turn at most.
LedgerTyped ==
  /\ unmade \subseteq Turns /\ unwritten \subseteq Turns
  /\ IsFiniteSet(unmade) /\ IsFiniteSet(unwritten)
  /\ Cardinality(unmade) + Cardinality(unwritten) <= faults

NotesTyped == premature \subseteq Events /\ skipped \subseteq Events /\ early \subseteq Events

TypeInv ==
  /\ WorkersTyped /\ HasRow /\ TodosTyped /\ CountersTyped /\ CachesTyped /\ NotesTyped
  /\ LedgerTyped /\ PubInv

\* An event made of typed parts is one, and has those parts.
LEMMA EventType ==
  ASSUME NEW type \in EventTypes, NEW t \in Tasks, NEW s \in Statuses, NEW n \in 0 .. MaxRetries
  PROVE  /\ Event(type, t, s, n) \in Events
         /\ Event(type, t, s, n).task = t /\ Event(type, t, s, n).type = type
         /\ Event(type, t, s, n).status = s /\ Event(type, t, s, n).retry = n
  BY DEF Event, Events

\* What is left to do, in its two parts.
LEMMA TodoParts ==
  ASSUME NEW e \in Events \cup {NoEvent}
  PROVE  /\ Nothing \in Todos /\ ~Nothing.invalidate /\ Nothing.event = NoEvent
         /\ Publish(e) \in Todos /\ ~Publish(e).invalidate /\ Publish(e).event = e
         /\ InvalidateAndPublish(e) \in Todos /\ InvalidateAndPublish(e).invalidate
         /\ InvalidateAndPublish(e).event = e
  BY DEF Nothing, Publish, InvalidateAndPublish, Todos

\* A row with another status.
LEMMA RowWith ==
  ASSUME NEW r \in Rows, NEW s \in Statuses
  PROVE  /\ [r EXCEPT !.status = s] \in Rows
         /\ [r EXCEPT !.status = s].status = s /\ [r EXCEPT !.status = s].retry = r.retry
         /\ r.status \in Statuses /\ r.retry \in 0 .. MaxRetries
  BY DEF Rows

\* A row made anew.
LEMMA RowNew ==
  ASSUME NEW s \in Statuses, NEW n \in 0 .. MaxRetries
  PROVE  /\ [status |-> s, retry |-> n] \in Rows
         /\ [status |-> s, retry |-> n].status = s /\ [status |-> s, retry |-> n].retry = n
  BY DEF Rows

\* Everything but task t, worker w and goroutine g is as before.
OtherRows(t) == \A u \in Tasks : u # t => row'[u] = row[u]
OtherWorkers(w) ==
  \A v \in Workers : v # w => pc'[v] = pc[v] /\ held'[v] = held[v] /\ retry'[v] = retry[v]
OtherTodos(g) == \A h \in Goroutines : h # g => todo'[h] = todo[h]

\* What a worker does apart from its work: it leaves flags, events and the
\* publisher alone, and the counts, or marks them.
CacheKept == UNCHANGED <<cache, fetch>> \/ CountsMissed
Apart == announceVars' = announceVars /\ CacheKept

\* It is all that, when nothing else changes.
LEMMA NothingElse ==
  ASSUME otherVars' = otherVars
  PROVE  Apart
  BY DEF otherVars, cacheVars, Apart, CacheKept

\* In its parts.
LEMMA OtherVars ==
  ASSUME Apart
  PROVE  /\ UNCHANGED <<switches, premature, skipped>> /\ UNCHANGED pubVars
         /\ UNCHANGED <<sent, direct, done, arg, call, enabled, taken, buffer>>
  BY DEF Apart, announceVars, pubVars

\* Marked counts are counts.
LEMMA CountsTyped ==
  ASSUME CachesTyped, CacheKept
  PROVE  CachesTyped'
<1>1. ASSUME NEW c \in Counts, NEW b \in BOOLEAN PROVE [c EXCEPT !.missed = b] \in Counts
  BY DEF Counts
<1>2. CASE UNCHANGED <<cache, fetch>>
  BY <1>2 DEF CachesTyped
<1>3. CASE CountsMissed
  <2>1. /\ cache' = [cache EXCEPT !.missed = (cache # NoCache)]
        /\ fetch' = [fetch EXCEPT !.missed = (fetch # NoCache)]
    BY <1>3 DEF CountsMissed
  <2>2. (cache # NoCache) \in BOOLEAN /\ (fetch # NoCache) \in BOOLEAN
    OBVIOUS
  <2> QED
    BY <1>1, <2>1, <2>2 DEF CachesTyped
<1> QED
  BY <1>2, <1>3 DEF CacheKept

\* A step books what a failed call leaves out of step: a turn nobody makes an
\* event of, or one at most that no row took.
Booked ==
  \/ UNCHANGED faultVars
  \/ Fault /\ unwritten' = unwritten /\ \E x \in Turns : unmade' = unmade \cup {x}
  \/ Fault /\ unmade' = unmade
       /\ \E x \in Turns : unwritten' \in {unwritten, unwritten \cup {x}}

\* The books stay right.
LEMMA BooksKept ==
  ASSUME LedgerTyped, faults \in Nat, Booked
  PROVE  LedgerTyped' /\ (faults' = faults \/ Fault)
<1>0. /\ unmade \subseteq Turns /\ unwritten \subseteq Turns
      /\ IsFiniteSet(unmade) /\ IsFiniteSet(unwritten)
      /\ Cardinality(unmade) + Cardinality(unwritten) <= faults
      /\ Cardinality(unmade) \in Nat /\ Cardinality(unwritten) \in Nat
  BY FS_CardinalityType DEF LedgerTyped
\* One turn more counts for one at most.
<1>1. ASSUME NEW S, IsFiniteSet(S), NEW x
      PROVE  /\ IsFiniteSet(S \cup {x}) /\ Cardinality(S) \in Nat
             /\ Cardinality(S \cup {x}) \in Nat
             /\ Cardinality(S \cup {x}) <= Cardinality(S) + 1
  <2>1. Cardinality(S) \in Nat
    BY <1>1, FS_CardinalityType
  <2>2. /\ IsFiniteSet(S \cup {x})
        /\ Cardinality(S \cup {x}) =
             IF x \in S THEN Cardinality(S) ELSE Cardinality(S) + 1
    BY <1>1, FS_AddElement
  <2>3. PICK n : n = Cardinality(S)
    OBVIOUS
  <2>4. PICK m : m = Cardinality(S \cup {x})
    OBVIOUS
  <2>5. n \in Nat /\ m \in {n, n + 1}
    BY <2>1, <2>2, <2>3, <2>4
  <2> QED
    BY <2>2, <2>3, <2>4, <2>5
<1>2. CASE UNCHANGED faultVars
  BY <1>0, <1>2 DEF LedgerTyped, faultVars
<1>3. ASSUME Fault, unwritten' = unwritten, NEW x \in Turns, unmade' = unmade \cup {x}
      PROVE  LedgerTyped'
  <2>1. /\ IsFiniteSet(unmade') /\ Cardinality(unmade') \in Nat
        /\ Cardinality(unmade') <= Cardinality(unmade) + 1
    BY <1>0, <1>1, <1>3
  <2>2. Cardinality(unmade') + Cardinality(unwritten') <= faults'
    BY <1>0, <1>3, <2>1 DEF Fault
  <2> QED
    BY <1>0, <1>3, <2>1, <2>2 DEF LedgerTyped
<1>4. ASSUME Fault, unmade' = unmade, NEW x \in Turns, unwritten' = unwritten \cup {x}
      PROVE  LedgerTyped'
  <2>1. /\ IsFiniteSet(unwritten') /\ Cardinality(unwritten') \in Nat
        /\ Cardinality(unwritten') <= Cardinality(unwritten) + 1
    BY <1>0, <1>1, <1>4
  <2>2. Cardinality(unmade') + Cardinality(unwritten') <= faults'
    BY <1>0, <1>4, <2>1 DEF Fault
  <2> QED
    BY <1>0, <1>4, <2>1, <2>2 DEF LedgerTyped
<1>5. ASSUME Fault, unmade' = unmade, unwritten' = unwritten
      PROVE  LedgerTyped'
  BY <1>0, <1>5 DEF LedgerTyped, Fault
<1> QED
  BY <1>2, <1>3, <1>4, <1>5 DEF Booked, faultVars

\* A turn made of typed parts is one; an event is about one.
LEMMA TurnType ==
  /\ \A t \in Tasks, type \in EventTypes, n \in 0 .. MaxRetries : <<t, type, n>> \in Turns
  /\ \A e \in Events : TurnOf(e) \in Turns
  BY DEF Turns, TurnOf, Events

\* Writing one row.
LEMMA RowSet ==
  ASSUME TypeInv, NEW t \in Tasks, NEW r \in Rows, row' = [row EXCEPT ![t] = r]
  PROVE  row' \in [Tasks -> Rows] /\ row'[t] = r /\ OtherRows(t)
  BY DEF TypeInv, WorkersTyped, OtherRows

\* Leaving one thing to do.
LEMMA TodoSet ==
  ASSUME TypeInv, NEW g \in Goroutines, NEW d \in Todos, todo' = [todo EXCEPT ![g] = d]
  PROVE  TodosTyped' /\ todo'[g] = d /\ OtherTodos(g)
  BY DEF TypeInv, TodosTyped, OtherTodos

\* What Enqueue does.
LEMMA EnqueueEffect ==
  ASSUME TypeInv, NEW t \in Tasks, Enqueue(t)
  PROVE  /\ row[t].status = "absent"
         /\ row' \in [Tasks -> Rows] /\ OtherRows(t)
         /\ row'[t].status = "pending" /\ row'[t].retry = 0
         /\ TodosTyped' /\ OtherTodos(t)
         /\ todo'[t] = InvalidateAndPublish(Event("created", t, "pending", 0))
         /\ UNCHANGED <<pc, held, retry, faultVars, early>> /\ Apart
<1> DEFINE r == [status |-> "pending", retry |-> 0]
           d == InvalidateAndPublish(Event("created", t, "pending", 0))
<1>1. row[t] \in Rows
  BY DEF TypeInv, WorkersTyped
<1>2. "pending" \in Statuses /\ 0 \in 0 .. MaxRetries /\ "created" \in EventTypes
  BY DEF Statuses, EventTypes
<1>3. r \in Rows /\ r.status = "pending" /\ r.retry = 0
  BY <1>2, RowNew
<1>4. d \in Todos
  BY <1>2, EventType, TodoParts
<1>5. t \in Goroutines
  BY DEF Goroutines
<1> HIDE DEF r, d
<1>6. /\ row[t].status = "absent" /\ row' = [row EXCEPT ![t] = r]
      /\ todo' = [todo EXCEPT ![t] = d]
      /\ UNCHANGED <<pc, held, retry, faultVars, early>> /\ Apart
  BY NothingElse DEF Enqueue, Write, workerVars, r, d
<1>7. row' \in [Tasks -> Rows] /\ row'[t] = r /\ OtherRows(t)
  BY <1>3, <1>6, RowSet
<1>8. TodosTyped' /\ todo'[t] = d /\ OtherTodos(t)
  BY <1>4, <1>5, <1>6, TodoSet
<1> QED
  BY <1>3, <1>6, <1>7, <1>8 DEF d

\* What Dequeue does.
LEMMA DequeueEffect ==
  ASSUME TypeInv, NEW w \in Workers, NEW t \in Tasks, Dequeue(w, t)
  PROVE  /\ pc[w] = "poll" /\ Free(w) /\ row[t].status = "pending"
         /\ row' \in [Tasks -> Rows] /\ OtherRows(t)
         /\ row'[t].status = "running" /\ row'[t].retry = row[t].retry
         /\ TodosTyped' /\ OtherTodos(w)
         /\ todo'[w] = InvalidateAndPublish(Event("started", t, "running", row[t].retry))
         /\ pc'[w] = "run" /\ held'[w] = t /\ retry'[w] = row[t].retry /\ OtherWorkers(w)
         /\ WorkersTyped'
         /\ Event("started", t, "running", row[t].retry) \in Events
         /\ early' = early \cup {e \in {Event("started", t, "running", row[t].retry)} :
                                     ~\E c \in Published : IsCause(c, e)}
         /\ UNCHANGED faultVars /\ Apart
<1> DEFINE r == [row[t] EXCEPT !.status = "running"]
           e0 == Event("started", t, "running", row[t].retry)
           d == InvalidateAndPublish(e0)
<1>1. row[t] \in Rows
  BY DEF TypeInv, WorkersTyped
<1>2. "running" \in Statuses /\ "started" \in EventTypes
  BY DEF Statuses, EventTypes
<1>3. /\ r \in Rows /\ r.status = "running" /\ r.retry = row[t].retry
      /\ row[t].retry \in 0 .. MaxRetries
  BY <1>1, <1>2, RowWith
<1>4. e0 \in Events /\ d \in Todos
  BY <1>2, <1>3, EventType, TodoParts
<1>5. w \in Goroutines
  BY DEF Goroutines
<1> HIDE DEF r, d
<1>6. /\ pc[w] = "poll" /\ Free(w) /\ row[t].status = "pending"
      /\ row' = [row EXCEPT ![t] = r]
      /\ todo' = [todo EXCEPT ![w] = d] /\ UNCHANGED faultVars /\ Apart
      /\ pc' = [pc EXCEPT ![w] = "run"]
      /\ held' = [held EXCEPT ![w] = t]
      /\ retry' = [retry EXCEPT ![w] = row[t].retry]
      /\ early' = early \cup {e \in {e0} : ~\E c \in Published : IsCause(c, e)}
  BY NothingElse DEF Dequeue, ClaimBy, Write, r, d
<1> HIDE DEF e0
<1>7. row' \in [Tasks -> Rows] /\ row'[t] = r /\ OtherRows(t)
  BY <1>3, <1>6, RowSet
<1>8. TodosTyped' /\ todo'[w] = d /\ OtherTodos(w)
  BY <1>4, <1>5, <1>6, TodoSet
<1>9. /\ pc'[w] = "run" /\ held'[w] = t /\ retry'[w] = row[t].retry /\ OtherWorkers(w)
      /\ WorkersTyped'
  BY <1>3, <1>6, <1>7 DEF TypeInv, WorkersTyped, OtherWorkers
<1> QED
  BY <1>3, <1>4, <1>6, <1>7, <1>8, <1>9 DEF d, e0

\* What a lost reply leaves behind.
LEMMA UntoldEffect ==
  ASSUME TypeInv, NEW t \in Tasks, NEW r \in Rows, NEW x \in Turns, Untold(t, r, x)
  PROVE  /\ row' \in [Tasks -> Rows] /\ row'[t] = r /\ OtherRows(t)
         /\ Fault /\ unmade' = unmade \cup {x} /\ unwritten' = unwritten /\ Booked
<1>1. /\ row' = [row EXCEPT ![t] = r]
      /\ Fault /\ unmade' = unmade \cup {x} /\ unwritten' = unwritten
  BY DEF Untold
<1> QED
  BY <1>1, RowSet DEF Booked

\* When it is that of an Enqueue.
LEMMA EnqueueLostEffect ==
  ASSUME TypeInv, NEW t \in Tasks, EnqueueReplyLost(t)
  PROVE  /\ row[t].status = "absent"
         /\ row' \in [Tasks -> Rows] /\ OtherRows(t)
         /\ row'[t].status = "pending" /\ row'[t].retry = 0
         /\ Fault /\ unmade' = unmade \cup {<<t, "created", 0>>} /\ unwritten' = unwritten
         /\ Booked /\ CountsMissed
         /\ UNCHANGED <<pc, held, retry, todo, early>> /\ Apart
<1> DEFINE r == [status |-> "pending", retry |-> 0]
<1>1. "pending" \in Statuses /\ 0 \in 0 .. MaxRetries /\ "created" \in EventTypes
  BY DEF Statuses, EventTypes
<1>2. r \in Rows /\ r.status = "pending" /\ r.retry = 0 /\ <<t, "created", 0>> \in Turns
  BY <1>1, RowNew, TurnType
<1>3. /\ row[t].status = "absent" /\ Untold(t, r, <<t, "created", 0>>) /\ CountsMissed
      /\ UNCHANGED <<pc, held, retry, todo, early>> /\ Apart
  BY DEF EnqueueReplyLost, workerVars, Apart, CacheKept
<1> HIDE DEF r
<1> QED
  BY <1>2, <1>3, UntoldEffect

\* When it is that of a Dequeue.
LEMMA DequeueLostEffect ==
  ASSUME TypeInv, NEW w \in Workers, NEW t \in Tasks, DequeueReplyLost(w, t)
  PROVE  /\ row[t].status = "pending"
         /\ row' \in [Tasks -> Rows] /\ OtherRows(t)
         /\ row'[t].status = "running" /\ row'[t].retry = row[t].retry
         /\ Fault /\ unmade' = unmade \cup {<<t, "started", row[t].retry>>}
         /\ unwritten' = unwritten /\ Booked /\ CountsMissed
         /\ UNCHANGED <<pc, held, retry, todo, early>> /\ Apart
<1> DEFINE r == [row[t] EXCEPT !.status = "running"]
           x == <<t, "started", row[t].retry>>
<1>1. row[t] \in Rows
  BY DEF TypeInv, WorkersTyped
<1>2. /\ r \in Rows /\ r.status = "running" /\ r.retry = row[t].retry
      /\ row[t].retry \in 0 .. MaxRetries
  <2>1. "running" \in Statuses
    BY DEF Statuses
  <2> QED
    BY <1>1, <2>1, RowWith, Zenon
<1>3. x \in Turns
  BY <1>2, TurnType DEF EventTypes
<1>4. /\ row[t].status = "pending" /\ Untold(t, r, x) /\ CountsMissed
      /\ UNCHANGED <<pc, held, retry, todo, early>> /\ Apart
  BY DEF DequeueReplyLost, workerVars, Apart, CacheKept
<1> HIDE DEF r
<1> QED
  BY <1>2, <1>3, <1>4, UntoldEffect

\* What is known of the task of a worker that has one.
LEMMA HeldTask ==
  ASSUME TypeInv, NEW w \in Workers, pc[w] # "poll"
  PROVE  /\ held[w] \in Tasks /\ row[held[w]] \in Rows /\ w \in Goroutines
         /\ retry[w] = row[held[w]].retry /\ retry[w] \in 0 .. MaxRetries
         /\ row[held[w]].status \in Statuses
         /\ pc[w] # "dead" => row[held[w]].status = "running"
         /\ row[held[w]].status \in {"running", "failed"}
  BY DEF TypeInv, WorkersTyped, HasRow, Rows, Goroutines, Statuses

\* Nothing is left to do that was not before.
SameTodos == TodosTyped' /\ \A h \in Goroutines : todo'[h] = todo[h]

\* A worker that is free leaves it at that when it writes a row and no more.
LEMMA TodoSame ==
  ASSUME TypeInv, NEW w \in Workers, Free(w),
         todo' = [todo EXCEPT ![w] = Nothing] \/ todo' = todo
  PROVE  SameTodos
<1>1. todo[w] = Nothing /\ w \in Goroutines
  BY DEF Free, Goroutines
<1> QED
  BY <1>1 DEF SameTodos, TypeInv, TodosTyped

\* The worker goes on with its task.
LEMMA WorkerGoes ==
  ASSUME TypeInv, NEW w \in Workers, row' \in [Tasks -> Rows],
         NEW to \in {"run", "succeeded", "errored", "dead"}, Goto(w, to)
  PROVE  /\ pc'[w] = to /\ held'[w] = held[w] /\ retry'[w] = retry[w] /\ OtherWorkers(w)
         /\ WorkersTyped'
  BY DEF TypeInv, WorkersTyped, Goto, OtherWorkers

\* And when it is released.
LEMMA WorkerReleased ==
  ASSUME TypeInv, NEW w \in Workers, row' \in [Tasks -> Rows], Release(w)
  PROVE  pc'[w] = "poll" /\ OtherWorkers(w) /\ WorkersTyped'
  BY DEF TypeInv, WorkersTyped, Release, OtherWorkers

\* What ReportProgress does.
LEMMA ProgressEffect ==
  ASSUME TypeInv, NEW w \in Workers, ReportProgress(w)
  PROVE  LET e == Event("progress", held[w], "running", retry[w]) IN
         /\ pc[w] = "run" /\ Free(w) /\ ~Announced(e) /\ e \in Events
         /\ TodosTyped' /\ OtherTodos(w) /\ todo'[w] = Publish(e)
         /\ UNCHANGED <<row, pc, held, retry, faultVars, early>> /\ Apart
<1> DEFINE e == Event("progress", held[w], "running", retry[w])
<1>1. /\ pc[w] = "run" /\ Free(w) /\ ~Announced(e)
      /\ todo' = [todo EXCEPT ![w] = Publish(e)]
      /\ UNCHANGED <<row, pc, held, retry, faultVars, early>> /\ Apart
  BY NothingElse DEF ReportProgress, rowVars, workerVars
<1>2. e \in Events
  <2>1. held[w] \in Tasks /\ retry[w] \in 0 .. MaxRetries
    BY <1>1, HeldTask
  <2>2. "progress" \in EventTypes /\ "running" \in Statuses
    BY DEF EventTypes, Statuses
  <2> QED
    BY <2>1, <2>2, EventType
<1> HIDE DEF e
<1>3. Publish(e) \in Todos /\ w \in Goroutines
  BY <1>2, TodoParts DEF Goroutines
<1>4. TodosTyped' /\ todo'[w] = Publish(e) /\ OtherTodos(w)
  BY <1>1, <1>3, TodoSet
<1> QED
  BY <1>1, <1>2, <1>4 DEF e

\* What Execute does: outcome is both the type and the status of the event.
LEMMA ExecuteEffect ==
  ASSUME TypeInv, NEW w \in Workers, Execute(w)
  PROVE  \E outcome \in {"completed", "failed"} :
         LET e == Event(outcome, held[w], outcome, retry[w]) IN
         /\ pc[w] = "run" /\ Free(w) /\ e \in Events
         /\ pc'[w] = IF outcome = "completed" THEN "succeeded" ELSE "errored"
         /\ held'[w] = held[w] /\ retry'[w] = retry[w] /\ OtherWorkers(w) /\ WorkersTyped'
         /\ TodosTyped' /\ OtherTodos(w) /\ todo'[w] = Publish(e)
         /\ UNCHANGED <<row, faultVars, early>> /\ Apart
<1>1. /\ pc[w] = "run" /\ Free(w)
      /\ UNCHANGED <<row, faultVars, early>> /\ Apart
  BY NothingElse DEF Execute, rowVars
<1>2. PICK outcome \in {"completed", "failed"} :
        /\ Goto(w, IF outcome = "completed" THEN "succeeded" ELSE "errored")
        /\ todo' = [todo EXCEPT ![w] = Publish(Event(outcome, held[w], outcome, retry[w]))]
  BY DEF Execute
<1> DEFINE e == Event(outcome, held[w], outcome, retry[w])
           to == IF outcome = "completed" THEN "succeeded" ELSE "errored"
<1>3. e \in Events
  <2>1. held[w] \in Tasks /\ retry[w] \in 0 .. MaxRetries
    BY <1>1, HeldTask
  <2>2. outcome \in EventTypes /\ outcome \in Statuses
    BY DEF EventTypes, Statuses
  <2> QED
    BY <2>1, <2>2, EventType
<1>4. to \in {"run", "succeeded", "errored", "dead"} /\ Goto(w, to)
  BY <1>2
<1> HIDE DEF e, to
<1>5. Publish(e) \in Todos /\ w \in Goroutines
  BY <1>3, TodoParts DEF Goroutines
<1>6. TodosTyped' /\ todo'[w] = Publish(e) /\ OtherTodos(w)
  BY <1>2, <1>5, TodoSet DEF e
<1>7. row' \in [Tasks -> Rows]
  BY <1>1 DEF TypeInv, WorkersTyped
<1>8. /\ pc'[w] = to /\ held'[w] = held[w] /\ retry'[w] = retry[w] /\ OtherWorkers(w)
      /\ WorkersTyped'
  BY <1>4, <1>7, WorkerGoes
<1> QED
  BY <1>1, <1>3, <1>6, <1>8 DEF e, to

\* What worker w announced of the outcome, when no row has it.
Lost(w, outcome, written) == {x \in {<<held[w], outcome, retry[w]>>} : ~written}

\* The row of the worker's task is written with status s, or the write fails.
Wrote(w, s) ==
  \/ /\ row'[held[w]].status = s /\ row'[held[w]].retry = row[held[w]].retry
     /\ OtherRows(held[w]) /\ UNCHANGED faultVars
  \/ /\ row' = row /\ Fault /\ unmade' = unmade
     /\ unwritten' = unwritten \cup Lost(w, s, s # "completed")

\* What handleTaskSuccess and the first write of handleTaskError do to the row.
LEMMA StatusWritten ==
  ASSUME TypeInv, NEW w \in Workers, pc[w] # "poll", NEW s \in {"completed", "failed"},
         \/ Write(w, held[w], [row[held[w]] EXCEPT !.status = s], Nothing)
         \/ NotWritten(Lost(w, s, s # "completed"))
  PROVE  /\ row' \in [Tasks -> Rows] /\ Wrote(w, s) /\ Booked
         /\ todo' = [todo EXCEPT ![w] = Nothing] \/ todo' = todo
<1> DEFINE r == [row[held[w]] EXCEPT !.status = s]
<1>0. s \in Statuses
  BY DEF Statuses
<1>1. held[w] \in Tasks /\ row[held[w]] \in Rows /\ retry[w] \in 0 .. MaxRetries
  BY HeldTask
<1>2. r \in Rows /\ r.status = s /\ r.retry = row[held[w]].retry
  BY <1>0, <1>1, RowWith
<1> HIDE DEF r
<1>3. CASE Write(w, held[w], r, Nothing)
  <2>1. row' = [row EXCEPT ![held[w]] = r] /\ todo' = [todo EXCEPT ![w] = Nothing]
        /\ UNCHANGED faultVars
    BY <1>3 DEF Write
  <2> QED
    BY <1>1, <1>2, <2>1, RowSet DEF Wrote, Booked
<1>4. CASE NotWritten(Lost(w, s, s # "completed"))
  <2>1. /\ row' = row /\ todo' = todo /\ Fault /\ unmade' = unmade
        /\ unwritten' = unwritten \cup Lost(w, s, s # "completed")
    BY <1>4 DEF NotWritten
  <2>2. Booked
    <3>1. <<held[w], s, retry[w]>> \in Turns
      BY <1>1, TurnType DEF EventTypes
    <3> QED
      BY <2>1, <3>1 DEF Booked, Lost
  <2> QED
    BY <2>1, <2>2 DEF Wrote, TypeInv, WorkersTyped
<1> QED
  BY <1>3, <1>4 DEF r

\* What handleTaskSuccess does.
LEMMA SuccessEffect ==
  ASSUME TypeInv, NEW w \in Workers, handleTaskSuccess(w)
  PROVE  /\ pc[w] = "succeeded" /\ Free(w)
         /\ Wrote(w, "completed") /\ Booked /\ SameTodos
         /\ pc'[w] = "poll" /\ OtherWorkers(w) /\ WorkersTyped'
         /\ UNCHANGED early /\ Apart
<1>1. /\ pc[w] = "succeeded" /\ Free(w) /\ Release(w) /\ UNCHANGED early /\ Apart
      /\ \/ Write(w, held[w], [row[held[w]] EXCEPT !.status = "completed"], Nothing)
         \/ NotWritten({<<held[w], "completed", retry[w]>>})
  BY NothingElse DEF handleTaskSuccess
<1>2. Lost(w, "completed", "completed" # "completed") = {<<held[w], "completed", retry[w]>>}
  BY DEF Lost
<1>3. /\ row' \in [Tasks -> Rows] /\ Wrote(w, "completed") /\ Booked
      /\ todo' = [todo EXCEPT ![w] = Nothing] \/ todo' = todo
  BY <1>1, <1>2, StatusWritten
<1> QED
  BY <1>1, <1>3, TodoSame, WorkerReleased

\* What the first write of handleTaskError does when no retry is left.
LEMMA FailEffect ==
  ASSUME TypeInv, NEW w \in Workers, FailUpdate(w)
  PROVE  /\ pc[w] = "errored" /\ Free(w) /\ retry[w] >= MaxRetries
         /\ Wrote(w, "failed") /\ Booked /\ SameTodos
         /\ pc'[w] = "dead" /\ held'[w] = held[w] /\ retry'[w] = retry[w]
         /\ OtherWorkers(w) /\ WorkersTyped'
         /\ UNCHANGED early /\ Apart
<1>1. /\ pc[w] = "errored" /\ Free(w) /\ retry[w] >= MaxRetries
      /\ Goto(w, "dead") /\ UNCHANGED early /\ Apart
      /\ \/ Write(w, held[w], [row[held[w]] EXCEPT !.status = "failed"], Nothing)
         \/ NotWritten({})
  BY NothingElse DEF FailUpdate
<1>2. Lost(w, "failed", "failed" # "completed") = {}
  BY DEF Lost
<1>3. /\ row' \in [Tasks -> Rows] /\ Wrote(w, "failed") /\ Booked
      /\ todo' = [todo EXCEPT ![w] = Nothing] \/ todo' = todo
  BY <1>1, <1>2, StatusWritten
<1> QED
  BY <1>1, <1>3, TodoSame, WorkerGoes

\* The ways a call that writes the row and publishes can end: it does both; it
\* writes and has no event, or is told that it failed; it fails.
Announces(w, s, n, e) ==
  LET t == held[w] IN
  \/ /\ row'[t].status = s /\ row'[t].retry = n /\ OtherRows(t)
     /\ todo'[w] = InvalidateAndPublish(e) /\ OtherTodos(w) /\ UNCHANGED faultVars
  \/ /\ row'[t].status = s /\ row'[t].retry = n /\ OtherRows(t)
     /\ \/ todo'[w] = InvalidateAndPublish(NoEvent) /\ OtherTodos(w)
        \/ todo' = todo /\ (CountsMissed \/ s # "pending")
     /\ Fault /\ unmade' = unmade \cup {TurnOf(e)} /\ unwritten' = unwritten
  \/ /\ row' = row /\ todo' = todo
     /\ Fault /\ unmade' = unmade
     /\ unwritten' = unwritten \cup Lost(w, "failed", row[t].status = "failed")

\* These ways, from the code's writes.
LEMMA AnnouncedWrite ==
  ASSUME TypeInv, NEW w \in Workers, pc[w] # "poll", NEW r \in Rows, NEW e \in Events,
         \/ Write(w, held[w], r, InvalidateAndPublish(e))
         \/ /\ Untold(held[w], r, TurnOf(e))
            /\ \/ todo' = [todo EXCEPT ![w] = InvalidateAndPublish(NoEvent)]
               \/ todo' = todo /\ (CountsMissed \/ r.status # "pending")
         \/ NotWritten(Lost(w, "failed", row[held[w]].status = "failed"))
  PROVE  /\ row' \in [Tasks -> Rows] /\ TodosTyped'
         /\ Announces(w, r.status, r.retry, e) /\ Booked
<1>1. held[w] \in Tasks /\ w \in Goroutines /\ retry[w] \in 0 .. MaxRetries
  BY HeldTask
<1>2. InvalidateAndPublish(e) \in Todos /\ InvalidateAndPublish(NoEvent) \in Todos
  BY TodoParts
<1>3. CASE Write(w, held[w], r, InvalidateAndPublish(e))
  <2>1. /\ row' = [row EXCEPT ![held[w]] = r] /\ UNCHANGED faultVars
        /\ todo' = [todo EXCEPT ![w] = InvalidateAndPublish(e)]
    BY <1>3 DEF Write
  <2>2. row' \in [Tasks -> Rows] /\ row'[held[w]] = r /\ OtherRows(held[w])
    BY <1>1, <2>1, RowSet
  <2>3. TodosTyped' /\ todo'[w] = InvalidateAndPublish(e) /\ OtherTodos(w)
    BY <1>1, <1>2, <2>1, TodoSet
  <2> QED
    BY <2>1, <2>2, <2>3 DEF Announces, Booked
<1>4. CASE /\ Untold(held[w], r, TurnOf(e))
           /\ \/ todo' = [todo EXCEPT ![w] = InvalidateAndPublish(NoEvent)]
              \/ todo' = todo /\ (CountsMissed \/ r.status # "pending")
  <2>1. /\ row' \in [Tasks -> Rows] /\ row'[held[w]] = r /\ OtherRows(held[w])
        /\ Fault /\ unmade' = unmade \cup {TurnOf(e)} /\ unwritten' = unwritten /\ Booked
    BY <1>1, <1>4, TurnType, UntoldEffect
  <2>2. CASE todo' = [todo EXCEPT ![w] = InvalidateAndPublish(NoEvent)]
    <3>1. TodosTyped' /\ todo'[w] = InvalidateAndPublish(NoEvent) /\ OtherTodos(w)
      BY <1>1, <1>2, <2>2, TodoSet
    <3> QED
      BY <2>1, <3>1 DEF Announces
  <2>3. CASE todo' = todo /\ (CountsMissed \/ r.status # "pending")
    BY <2>1, <2>3 DEF Announces, TypeInv, TodosTyped
  <2> QED
    BY <1>4, <2>2, <2>3
<1>5. CASE NotWritten(Lost(w, "failed", row[held[w]].status = "failed"))
  <2>1. /\ row' = row /\ todo' = todo /\ Fault /\ unmade' = unmade
        /\ unwritten' = unwritten \cup Lost(w, "failed", row[held[w]].status = "failed")
    BY <1>5 DEF NotWritten
  <2>2. Booked
    <3>1. <<held[w], "failed", retry[w]>> \in Turns
      BY <1>1, TurnType DEF EventTypes
    <3> QED
      BY <2>1, <3>1 DEF Booked, Lost
  <2> QED
    BY <2>1, <2>2 DEF Announces, TypeInv, WorkersTyped, TodosTyped
<1> QED
  BY <1>3, <1>4, <1>5

\* What Requeue does, with and without an answer.
LEMMA RequeueEffect ==
  ASSUME TypeInv, NEW w \in Workers, Requeue(w) \/ RequeueReplyLost(w)
  PROVE  LET t == held[w]
             e == Event("retrying", t, "running", retry[w]) IN
         /\ pc[w] = "errored" /\ Free(w) /\ e \in Events /\ row[t].status = "running"
         /\ retry[w] < MaxRetries
         /\ Announces(w, "pending", retry[w] + 1, e) /\ Booked /\ TodosTyped'
         /\ pc'[w] = "poll" /\ OtherWorkers(w) /\ WorkersTyped'
         /\ UNCHANGED early /\ Apart
<1> DEFINE t == held[w]
           e == Event("retrying", t, "running", retry[w])
           r == [status |-> "pending", retry |-> retry[w] + 1]
<1>1. /\ pc[w] = "errored" /\ Free(w) /\ retry[w] < MaxRetries
      /\ Release(w) /\ UNCHANGED early /\ Apart
  BY NothingElse DEF Requeue, RequeueReplyLost, Apart, CacheKept
<1>2. /\ t \in Tasks /\ retry[w] = row[t].retry /\ retry[w] \in 0 .. MaxRetries
      /\ row[t].status = "running"
  BY <1>1, HeldTask
<1>3. /\ TurnOf(e) = <<t, "retrying", retry[w]>> /\ Retrying(t) = r
      /\ Lost(w, "failed", row[t].status = "failed") = {<<t, "failed", retry[w]>>}
  BY <1>2 DEF TurnOf, Event, Retrying, Lost
<1>4. \/ Write(w, t, r, InvalidateAndPublish(e))
      \/ /\ Untold(t, r, TurnOf(e))
         /\ \/ todo' = [todo EXCEPT ![w] = InvalidateAndPublish(NoEvent)]
            \/ todo' = todo /\ CountsMissed
      \/ NotWritten(Lost(w, "failed", row[t].status = "failed"))
  BY <1>2, <1>3 DEF Requeue, RequeueReplyLost
<1>5. /\ "pending" \in Statuses /\ "running" \in Statuses /\ "retrying" \in EventTypes
      /\ retry[w] + 1 \in 0 .. MaxRetries
  BY <1>1, <1>2 DEF Statuses, EventTypes
<1>6. e \in Events
  BY <1>2, <1>5, EventType
<1>7. r \in Rows /\ r.status = "pending" /\ r.retry = retry[w] + 1
  BY <1>5, RowNew
<1> HIDE DEF e, r
<1>8. /\ row' \in [Tasks -> Rows] /\ TodosTyped'
      /\ Announces(w, r.status, r.retry, e) /\ Booked
  BY <1>1, <1>4, <1>6, <1>7, AnnouncedWrite
<1>9. pc'[w] = "poll" /\ OtherWorkers(w) /\ WorkersTyped'
  BY <1>1, <1>8, WorkerReleased
<1> QED
  BY <1>1, <1>2, <1>6, <1>7, <1>8, <1>9 DEF e

\* What MoveToDeadLetter does, with and without an answer.
LEMMA DeadLetterEffect ==
  ASSUME TypeInv, NEW w \in Workers, MoveToDeadLetter(w) \/ MoveToDeadLetterReplyLost(w)
  PROVE  LET t == held[w]
             e == Event("dead_letter", t, row[t].status, retry[w]) IN
         /\ pc[w] = "dead" /\ Free(w) /\ e \in Events
         /\ Announces(w, "dead_letter", retry[w], e) /\ Booked /\ TodosTyped'
         /\ pc'[w] = "poll" /\ OtherWorkers(w) /\ WorkersTyped'
         /\ UNCHANGED early /\ Apart
<1> DEFINE t == held[w]
           e == Event("dead_letter", t, row[t].status, retry[w])
           r == [row[t] EXCEPT !.status = "dead_letter"]
<1>1. /\ pc[w] = "dead" /\ Free(w) /\ Release(w) /\ UNCHANGED early /\ Apart
  BY NothingElse DEF MoveToDeadLetter, MoveToDeadLetterReplyLost
<1>2. /\ t \in Tasks /\ retry[w] = row[t].retry /\ retry[w] \in 0 .. MaxRetries
      /\ row[t].status \in Statuses /\ row[t] \in Rows
      /\ row[t].status \in {"running", "failed"}
  BY <1>1, HeldTask
<1>3. /\ TurnOf(e) = <<t, "dead_letter", retry[w]>>
      /\ {x \in {<<t, "failed", retry[w]>>} : row[t].status = "running"}
           = Lost(w, "failed", row[t].status = "failed")
  BY <1>2 DEF TurnOf, Event, Lost
<1>4. /\ "dead_letter" \in Statuses /\ "dead_letter" \in EventTypes
  BY DEF Statuses, EventTypes
<1>5. e \in Events
  BY <1>2, <1>4, EventType
<1>6. r \in Rows /\ r.status = "dead_letter" /\ r.retry = retry[w]
  BY <1>2, <1>4, RowWith
<1>7. \/ Write(w, t, r, InvalidateAndPublish(e))
      \/ /\ Untold(t, r, TurnOf(e))
         /\ \/ todo' = [todo EXCEPT ![w] = InvalidateAndPublish(NoEvent)]
            \/ todo' = todo
      \/ NotWritten(Lost(w, "failed", row[t].status = "failed"))
  BY <1>2, <1>3 DEF MoveToDeadLetter, MoveToDeadLetterReplyLost
<1> HIDE DEF e, r
<1>8. /\ row' \in [Tasks -> Rows] /\ TodosTyped'
      /\ Announces(w, r.status, r.retry, e) /\ Booked
  BY <1>1, <1>5, <1>6, <1>7, AnnouncedWrite
<1>9. pc'[w] = "poll" /\ OtherWorkers(w) /\ WorkersTyped'
  BY <1>1, <1>8, WorkerReleased
<1> QED
  BY <1>1, <1>2, <1>5, <1>6, <1>8, <1>9 DEF e

\* What invalidateCache does.
LEMMA InvalidateEffect ==
  ASSUME TypeInv, NEW g \in Goroutines, invalidateCache(g)
  PROVE  /\ TodosTyped' /\ OtherTodos(g)
         /\ todo'[g].event = todo[g].event /\ ~todo'[g].invalidate
         /\ cache' = NoCache /\ fetch' \in Counts /\ fetch'.counts = fetch.counts
         /\ fetch # NoCache => fetch'.overtaken
         /\ UNCHANGED <<row, faultVars, pc, held, retry, switches, premature, skipped, early>>
         /\ UNCHANGED pubVars
<1>1. todo[g] \in Todos /\ fetch \in Counts
  BY DEF TypeInv, TodosTyped, CachesTyped
<1> DEFINE d == [todo[g] EXCEPT !.invalidate = FALSE]
<1>2. d \in Todos /\ d.event = todo[g].event /\ ~d.invalidate
  BY <1>1 DEF Todos
<1>3. todo' = [todo EXCEPT ![g] = d]
  BY DEF invalidateCache
<1> HIDE DEF d
<1>4. TodosTyped' /\ OtherTodos(g) /\ todo'[g] = d
  BY <1>2, <1>3, TodoSet
<1>5. /\ fetch' \in Counts /\ fetch'.counts = fetch.counts
      /\ fetch # NoCache => fetch'.overtaken
  <2>1. fetch' = [fetch EXCEPT !.overtaken = (fetch # NoCache)]
    BY DEF invalidateCache
  <2>2. CASE fetch = NoCache
    <3>1. fetch' = [fetch EXCEPT !.overtaken = FALSE]
      BY <2>1, <2>2
    <3> QED
      BY <1>1, <2>2, <3>1 DEF Counts
  <2>3. CASE fetch # NoCache
    <3>1. fetch' = [fetch EXCEPT !.overtaken = TRUE]
      BY <2>1, <2>3
    <3> QED
      BY <1>1, <3>1 DEF Counts
  <2> QED
    BY <2>2, <2>3
<1>6. /\ cache' = NoCache
      /\ UNCHANGED <<row, faultVars, pc, held, retry, switches, premature, skipped, early>>
      /\ UNCHANGED pubVars
  BY DEF invalidateCache, rowVars, workerVars, noteVars
<1> QED
  BY <1>2, <1>4, <1>5, <1>6

\* What PublishEvent does.
LEMMA PublishEffect ==
  ASSUME TypeInv, NEW g \in Goroutines, PublishEvent(g)
  PROVE  /\ todo[g].event \in Events /\ ~todo[g].invalidate
         /\ TodosTyped' /\ OtherTodos(g) /\ todo'[g] = Nothing
         /\ \/ Pub!PublishCheck(g, todo[g].event) /\ UNCHANGED skipped
            \/ /\ skipped' = skipped \cup {todo[g].event} /\ UNCHANGED pubVars
         /\ UNCHANGED <<row, faultVars, pc, held, retry, cache, fetch, switches, premature, early>>
<1>1. todo[g] \in Todos /\ Nothing \in Todos
  BY TodoParts DEF TypeInv, TodosTyped
<1>2. /\ ~todo[g].invalidate /\ todo[g].event # NoEvent
      /\ todo' = [todo EXCEPT ![g] = Nothing]
      /\ \/ Pub!PublishCheck(g, todo[g].event) /\ UNCHANGED skipped
         \/ /\ skipped' = skipped \cup {todo[g].event} /\ UNCHANGED pubVars
      /\ UNCHANGED <<row, faultVars, pc, held, retry, cache, fetch, switches, premature, early>>
  BY DEF PublishEvent, rowVars, workerVars, cacheVars
<1>3. todo[g].event \in Events
  BY <1>1, <1>2 DEF Todos
<1> QED
  BY <1>1, <1>2, <1>3, TodoSet

\* The goroutines and loops of the publisher leave the rest alone.
LEMMA PublisherEffect ==
  ASSUME PublisherStep
  PROVE  /\ UNCHANGED <<row, faultVars, pc, held, retry, todo, cache, fetch, switches, skipped, early>>
         /\ PubStep
         /\ premature' = premature \cup
              {e \in Delivered' \ Delivered : ~\E c \in Delivered : IsCause(c, e)}
  BY DEF PublisherStep, PubStep, rowVars, workerVars, cacheVars

\* Every step keeps the types, and a task at most one worker.
LEMMA TypeInvNext == TypeInv /\ [Next]_vars => TypeInv'
<1> SUFFICES ASSUME TypeInv, [Next]_vars PROVE TypeInv'
  OBVIOUS
<1>0. /\ WorkersTyped /\ HasRow /\ TodosTyped /\ CountersTyped /\ CachesTyped /\ NotesTyped
      /\ LedgerTyped /\ PubInv /\ faults \in Nat /\ switches \in Nat
  BY DEF TypeInv, CountersTyped
\* What a step that leaves the publisher alone has to show.
<1>p. ASSUME UNCHANGED pubVars PROVE PubInv'
  BY <1>0, <1>p, PubInvStep DEF PubStep
<1>o. ASSUME Apart, Booked
      PROVE  /\ CountersTyped' /\ CachesTyped' /\ LedgerTyped' /\ PubInv'
             /\ early' \subseteq Events => NotesTyped'
  <2>1. /\ UNCHANGED <<switches, premature, skipped>> /\ UNCHANGED pubVars
    BY <1>o, OtherVars
  <2>2. LedgerTyped' /\ (faults' = faults \/ Fault)
    BY <1>0, <1>o, BooksKept
  <2>3. CountersTyped'
    BY <1>0, <2>1, <2>2 DEF CountersTyped, Fault, Disturbable
  <2>4. CachesTyped'
    BY <1>0, <1>o, CountsTyped DEF Apart
  <2> QED
    BY <1>0, <1>p, <2>1, <2>2, <2>3, <2>4 DEF NotesTyped
<1>b. UNCHANGED faultVars => Booked
  BY DEF Booked
\* What a step that leaves the calls of the repository alone has to show.
<1>l. UNCHANGED faultVars => LedgerTyped' /\ faults' = faults
  BY <1>0 DEF LedgerTyped, faultVars
<1>1. ASSUME NEW t \in Tasks, Enqueue(t)
      PROVE  TypeInv'
  <2>1. /\ row[t].status = "absent" /\ row' \in [Tasks -> Rows] /\ OtherRows(t) /\ TodosTyped'
        /\ UNCHANGED <<pc, held, retry, faultVars, early>> /\ Apart
    BY <1>1, EnqueueEffect
  <2>2. WorkersTyped'
    BY <1>0, <2>1 DEF WorkersTyped
  <2>3. HasRow'
    BY <1>0, <2>1 DEF HasRow, OtherRows
  <2> QED
    BY <1>0, <1>b, <1>o, <2>1, <2>2, <2>3 DEF TypeInv, NotesTyped
<1>2. ASSUME NEW w \in Workers, NEW t \in Tasks, Dequeue(w, t)
      PROVE  TypeInv'
  <2> DEFINE e == Event("started", t, "running", row[t].retry)
  <2>1. /\ pc[w] = "poll" /\ row[t].status = "pending" /\ OtherRows(t)
        /\ row'[t].status = "running" /\ row'[t].retry = row[t].retry
        /\ pc'[w] = "run" /\ held'[w] = t /\ retry'[w] = row[t].retry /\ OtherWorkers(w)
        /\ WorkersTyped' /\ TodosTyped' /\ UNCHANGED faultVars /\ Apart
    BY <1>2, DequeueEffect
  <2>2. early' \subseteq early \cup {e} /\ e \in Events
    BY <1>2, DequeueEffect
  <2>3. early' \subseteq Events
    BY <1>0, <2>2 DEF NotesTyped
  <2>4. HasRow'
    <3>1. \A v \in Workers : v # w /\ pc[v] # "poll" => held[v] # t
      BY <1>0, <2>1 DEF HasRow
    <3>2. ASSUME NEW v \in Workers, v # w, pc'[v] # "poll"
          PROVE  held'[v] = held[v] /\ held[v] # t /\ pc[v] # "poll" /\ held[v] \in Tasks
                 /\ row'[held[v]] = row[held[v]] /\ retry'[v] = retry[v] /\ pc'[v] = pc[v]
      BY <1>0, <2>1, <3>1, <3>2 DEF HasRow, OtherRows, OtherWorkers
    <3>3. ASSUME NEW v \in Workers, pc'[v] # "poll"
          PROVE  /\ held'[v] \in Tasks /\ retry'[v] = row'[held'[v]].retry
                 /\ \/ row'[held'[v]].status = "running"
                    \/ pc'[v] = "dead" /\ row'[held'[v]].status = "failed"
      <4>1. CASE v = w
        BY <2>1, <4>1
      <4>2. CASE v # w
        BY <1>0, <3>2, <3>3, <4>2 DEF HasRow
      <4> QED
        BY <4>1, <4>2
    <3>4. ASSUME NEW u \in Workers, NEW v \in Workers, u # v, pc'[u] # "poll", pc'[v] # "poll"
          PROVE  held'[u] # held'[v]
      BY <1>0, <2>1, <3>2, <3>4 DEF HasRow
    <3> QED
      BY <3>3, <3>4 DEF HasRow
  <2> QED
    BY <1>b, <1>o, <2>1, <2>3, <2>4 DEF TypeInv
<1>3. ASSUME NEW t \in Tasks,
             EnqueueReplyLost(t) \/ \E w \in Workers : DequeueReplyLost(w, t)
      PROVE  TypeInv'
  <2>1. /\ row[t].status \in {"absent", "pending"} /\ row' \in [Tasks -> Rows] /\ OtherRows(t)
        /\ Booked /\ UNCHANGED <<pc, held, retry, todo, early>> /\ Apart
    BY <1>3, EnqueueLostEffect, DequeueLostEffect
  <2>2. WorkersTyped' /\ TodosTyped'
    BY <1>0, <2>1 DEF WorkersTyped, TodosTyped
  <2>3. HasRow'
    BY <1>0, <2>1 DEF HasRow, OtherRows
  <2> QED
    BY <1>0, <1>o, <2>1, <2>2, <2>3 DEF TypeInv, NotesTyped
<1>4. ASSUME NEW w \in Workers, ReportProgress(w)
      PROVE  TypeInv'
  <2>1. TodosTyped' /\ UNCHANGED <<row, pc, held, retry, faultVars, early>> /\ Apart
    BY <1>4, ProgressEffect
  <2>2. WorkersTyped' /\ HasRow'
    BY <1>0, <2>1 DEF WorkersTyped, HasRow
  <2> QED
    BY <1>0, <1>b, <1>o, <2>1, <2>2 DEF TypeInv, NotesTyped
<1>5. ASSUME NEW w \in Workers, Execute(w)
      PROVE  TypeInv'
  <2>1. /\ pc[w] = "run" /\ pc'[w] \in {"succeeded", "errored"}
        /\ held'[w] = held[w] /\ retry'[w] = retry[w] /\ OtherWorkers(w) /\ WorkersTyped'
        /\ TodosTyped' /\ UNCHANGED <<row, faultVars, early>> /\ Apart
    BY <1>5, ExecuteEffect
  <2>2. HasRow'
    BY <1>0, <2>1 DEF HasRow, OtherWorkers
  <2> QED
    BY <1>0, <1>b, <1>o, <2>1, <2>2 DEF TypeInv, NotesTyped
<1>6. ASSUME NEW w \in Workers, handleTaskSuccess(w)
      PROVE  TypeInv'
  <2>1. /\ pc[w] = "succeeded" /\ Wrote(w, "completed") /\ Booked /\ SameTodos
        /\ pc'[w] = "poll" /\ OtherWorkers(w) /\ WorkersTyped' /\ UNCHANGED early /\ Apart
    BY <1>6, SuccessEffect
  <2>2. HasRow'
    BY <1>0, <2>1 DEF HasRow, OtherWorkers, Wrote, OtherRows
  <2> QED
    BY <1>0, <1>o, <2>1, <2>2 DEF TypeInv, NotesTyped, SameTodos
<1>7. ASSUME NEW w \in Workers, FailUpdate(w)
      PROVE  TypeInv'
  <2>1. /\ pc[w] = "errored" /\ Wrote(w, "failed") /\ Booked /\ SameTodos
        /\ pc'[w] = "dead" /\ held'[w] = held[w] /\ retry'[w] = retry[w]
        /\ OtherWorkers(w) /\ WorkersTyped' /\ UNCHANGED early /\ Apart
    BY <1>7, FailEffect
  <2>2. HasRow'
    BY <1>0, <2>1 DEF HasRow, OtherWorkers, Wrote, OtherRows
  <2> QED
    BY <1>0, <1>o, <2>1, <2>2 DEF TypeInv, NotesTyped, SameTodos
<1>8. ASSUME NEW w \in Workers,
             \/ Requeue(w) \/ RequeueReplyLost(w)
             \/ MoveToDeadLetter(w) \/ MoveToDeadLetterReplyLost(w)
      PROVE  TypeInv'
  <2>1. /\ pc[w] # "poll" /\ TodosTyped' /\ Booked
        /\ row' = row \/ OtherRows(held[w])
        /\ pc'[w] = "poll" /\ OtherWorkers(w) /\ WorkersTyped' /\ UNCHANGED early /\ Apart
    <3>1. CASE Requeue(w) \/ RequeueReplyLost(w)
      BY <3>1, RequeueEffect DEF Announces
    <3>2. CASE MoveToDeadLetter(w) \/ MoveToDeadLetterReplyLost(w)
      BY <3>2, DeadLetterEffect DEF Announces
    <3> QED
      BY <1>8, <3>1, <3>2
  <2>2. HasRow'
    <3>1. ASSUME NEW v \in Workers, pc'[v] # "poll"
          PROVE  /\ v # w /\ pc'[v] = pc[v] /\ held'[v] = held[v] /\ retry'[v] = retry[v]
                 /\ held[v] # held[w] /\ held[v] \in Tasks /\ row'[held[v]] = row[held[v]]
      BY <1>0, <2>1, <3>1 DEF HasRow, OtherWorkers, OtherRows
    <3> QED
      BY <1>0, <3>1 DEF HasRow
  <2> QED
    BY <1>0, <1>o, <2>1, <2>2 DEF TypeInv, NotesTyped
\* Steps that leave rows and workers alone.
<1>9. ASSUME UNCHANGED <<row, pc, held, retry>>
      PROVE  WorkersTyped' /\ HasRow'
  BY <1>0, <1>9 DEF WorkersTyped, HasRow
<1>c. NoCache \in Counts
  BY DEF NoCache, Counts
<1>10. ASSUME NEW g \in Goroutines, invalidateCache(g)
       PROVE  TypeInv'
  <2>1. /\ TodosTyped' /\ cache' = NoCache /\ fetch' \in Counts
        /\ UNCHANGED <<row, faultVars, pc, held, retry, switches, premature, skipped, early>>
        /\ UNCHANGED pubVars
    BY <1>10, InvalidateEffect
  <2> QED
    BY <1>0, <1>9, <1>l, <1>c, <1>p, <2>1 DEF TypeInv, CountersTyped, CachesTyped, NotesTyped
<1>11. ASSUME NEW g \in Goroutines, PublishEvent(g)
       PROVE  TypeInv'
  <2>1. /\ todo[g].event \in Events /\ TodosTyped'
        /\ \/ Pub!PublishCheck(g, todo[g].event) /\ UNCHANGED skipped
           \/ /\ skipped' = skipped \cup {todo[g].event} /\ UNCHANGED pubVars
        /\ UNCHANGED <<row, faultVars, pc, held, retry, cache, fetch, switches, premature, early>>
    BY <1>11, PublishEffect
  <2>2. PubInv'
    BY <1>0, <2>1, PubInvStep DEF PubStep
  <2> QED
    BY <1>0, <1>9, <1>l, <2>1, <2>2 DEF TypeInv, CountersTyped, CachesTyped, NotesTyped
<1>12. CASE PublisherStep
  <2>1. /\ UNCHANGED <<row, faultVars, pc, held, retry, todo, cache, fetch, switches, skipped, early>>
        /\ PubStep
        /\ premature' = premature \cup
             {e \in Delivered' \ Delivered : ~\E c \in Delivered : IsCause(c, e)}
    BY <1>12, PublisherEffect
  <2>2. PubInv'
    BY <1>0, <2>1, PubInvStep
  <2>3. Delivered' \subseteq Events
    <3>1. done' \in Seq(Events) /\ direct' \subseteq Events
      BY <2>2 DEF PubInv, PubProofs!ChannelInv, PubProofs!Shape
    <3>2. \A i \in DOMAIN done' : done'[i] \in Events
      BY <3>1
    <3> QED
      BY <3>1, <3>2 DEF Delivered, Range
  <2>4. premature' \subseteq Events
    BY <1>0, <2>1, <2>3 DEF NotesTyped
  <2> QED
    BY <1>0, <1>9, <1>l, <2>1, <2>2, <2>4 DEF TypeInv, TodosTyped, CountersTyped, CachesTyped, NotesTyped
<1>13. CASE SetEnabled
  <2>1. /\ Disturbable /\ switches' = switches + 1 /\ \E b \in BOOLEAN : Pub!SetEnabled(b)
        /\ UNCHANGED <<row, faultVars, pc, held, retry, todo, cache, fetch, premature, skipped, early>>
    BY <1>13 DEF SetEnabled, rowVars, workerVars, cacheVars, noteVars
  <2>2. PubInv'
    BY <1>0, <2>1, PubInvStep DEF PubStep
  <2>3. CountersTyped'
    BY <1>0, <1>l, <2>1 DEF CountersTyped, Disturbable
  <2> QED
    BY <1>0, <1>9, <1>l, <2>1, <2>2, <2>3 DEF TypeInv, TodosTyped, CachesTyped, NotesTyped
<1>14. CASE GetQueueDepthFetch \/ GetQueueDepthStore \/ CacheExpires
  <2>1. /\ UNCHANGED <<row, faultVars, pc, held, retry, todo, switches, premature, skipped, early>>
        /\ UNCHANGED pubVars
    BY <1>14 DEF GetQueueDepthFetch, GetQueueDepthStore, CacheExpires, rowVars, workerVars, noteVars
  <2>2. [counts |-> Pending, overtaken |-> FALSE, missed |-> FALSE] \in Counts
    BY DEF Counts, Pending
  <2>3. CachesTyped'
    BY <1>0, <1>14, <1>c, <2>2
       DEF GetQueueDepthFetch, GetQueueDepthStore, CacheExpires, CachesTyped
  <2> QED
    BY <1>0, <1>9, <1>l, <1>p, <2>1, <2>3 DEF TypeInv, TodosTyped, CountersTyped, NotesTyped
<1>15. CASE UNCHANGED vars
  <2>1. /\ UNCHANGED <<row, faultVars, pc, held, retry, todo, cache, fetch, switches, premature,
                       skipped, early>>
        /\ UNCHANGED pubVars
    BY <1>15 DEF vars, rowVars, workerVars, cacheVars, noteVars
  <2> QED
    BY <1>0, <1>9, <1>l, <1>p, <2>1 DEF TypeInv, TodosTyped, CountersTyped, CachesTyped, NotesTyped
<1> QED
  BY <1>1, <1>2, <1>3, <1>4, <1>5, <1>6, <1>7, <1>8, <1>10, <1>11, <1>12, <1>13, <1>14, <1>15
     DEF Next, WorkerStep

\* Init establishes them.
LEMMA TypeInvInit == Init => TypeInv
<1> SUFFICES ASSUME Init PROVE TypeInv
  OBVIOUS
<1>1. WorkersTyped /\ HasRow
  BY DEF Init, WorkersTyped, HasRow, Rows, Statuses
<1>2. TodosTyped
  BY TodoParts DEF Init, TodosTyped
<1>3. CountersTyped /\ CachesTyped /\ NotesTyped
  BY DEF Init, CountersTyped, CachesTyped, NotesTyped, NoCache, Counts
<1>4. LedgerTyped
  BY FS_EmptySet DEF Init, LedgerTyped
<1> QED
  BY <1>1, <1>2, <1>3, <1>4, PubInvInit DEF TypeInv

\* They hold throughout.
LEMMA TypeInvHolds == Spec => []TypeInv
  BY TypeInvInit, TypeInvNext, PTL DEF Spec

(***************************************************************************)
(* Type correctness of the adapter with its publisher: in particular no    *)
(* task is retried more often than MaxRetries, and every event made from a *)
(* row is well formed.                                                     *)
(***************************************************************************)
THEOREM TypeCorrect == Spec => []TypeOK
<1>1. TypeInv => TypeOK
  <2> SUFFICES ASSUME TypeInv PROVE TypeOK
    OBVIOUS
  <2>1. Pub!TypeOK
    BY PubFacts DEF TypeInv
  <2>2. faults \in 0 .. MaxDisturbances /\ switches \in 0 .. MaxDisturbances
    BY DEF TypeInv, CountersTyped
  <2> QED
    BY <2>1, <2>2 DEF TypeInv, WorkersTyped, TodosTyped, CachesTyped, NotesTyped, LedgerTyped,
                      Rows, Todos, Counts, TypeOK
<1> QED
  BY <1>1, TypeInvHolds, PTL
-----------------------------------------------------------------------------
(* The queue-depth cache. *)

\* Somebody is about to invalidate the cache.
Excused == \E g \in Goroutines : todo[g].invalidate

\* Counts that are out of date were overtaken by an invalidation, missed one, or
\* will have theirs.
Explained(c) == c.counts \in {{}, Pending} \/ c.overtaken \/ c.missed \/ Excused

\* What has been read and is about to be stored is no worse than the cache.
DepthInv == Explained(cache) /\ Explained(fetch)

\* Whoever still has to invalidate the cache still has to.
FlagsKept == \A g \in Goroutines : todo[g].invalidate => todo'[g].invalidate

\* A goroutine that had nothing to do, or only an event to publish, had no
\* cache to invalidate.
LEMMA FlagsKeptBy ==
  ASSUME NEW g \in Goroutines, OtherTodos(g), ~todo[g].invalidate
  PROVE  FlagsKept
  BY DEF FlagsKept, OtherTodos

\* Marked counts explain themselves.
LEMMA DepthMissed ==
  ASSUME TypeInv, CountsMissed
  PROVE  DepthInv'
<1>1. ASSUME NEW c \in Counts
      PROVE  /\ [c EXCEPT !.missed = (c # NoCache)].counts = c.counts
             /\ [c EXCEPT !.missed = (c # NoCache)].missed <=> c # NoCache
  <2>1. c = NoCache => (c # NoCache) = FALSE
    OBVIOUS
  <2>2. c # NoCache => (c # NoCache) = TRUE
    OBVIOUS
  <2> QED
    BY <2>1, <2>2 DEF Counts
<1>2. /\ cache \in Counts /\ fetch \in Counts
      /\ cache' = [cache EXCEPT !.missed = (cache # NoCache)]
      /\ fetch' = [fetch EXCEPT !.missed = (fetch # NoCache)]
  BY DEF TypeInv, CachesTyped, CountsMissed
<1>3. /\ cache'.counts = {} \/ cache'.missed
      /\ fetch'.counts = {} \/ fetch'.missed
  BY <1>1, <1>2 DEF NoCache
<1> QED
  BY <1>3 DEF DepthInv, Explained

\* A step that leaves the pending tasks alone, and the counts, or marks them,
\* keeps what is known of them.
LEMMA DepthKept ==
  ASSUME DepthInv, TypeInv, FlagsKept, Pending' = Pending, CacheKept
  PROVE  DepthInv'
<1>1. CASE CountsMissed
  BY <1>1, DepthMissed
<1>2. CASE UNCHANGED <<cache, fetch>>
  <2>1. Excused => Excused'
    BY DEF Excused, FlagsKept
  <2> QED
    BY <1>2, <2>1 DEF DepthInv, Explained
<1> QED
  BY <1>1, <1>2 DEF CacheKept

\* An excuse is enough.
LEMMA DepthExcused ==
  ASSUME Excused'
  PROVE  DepthInv'
  BY DEF DepthInv, Explained

\* A row that is neither pending before nor after leaves the pending tasks as
\* they are.
LEMMA NotPending ==
  ASSUME NEW t \in Tasks, row[t].status # "pending", row'[t].status # "pending", OtherRows(t)
  PROVE  Pending' = Pending
<1>1. \A u \in Tasks : row'[u].status = "pending" <=> row[u].status = "pending"
  BY DEF OtherRows
<1> QED
  BY <1>1 DEF Pending

\* Every step keeps it.
LEMMA DepthInvNext == TypeInv /\ DepthInv /\ [Next]_vars => DepthInv'
<1> SUFFICES ASSUME TypeInv, DepthInv, [Next]_vars PROVE DepthInv'
  OBVIOUS
<1>0. Workers \subseteq Goroutines /\ Tasks \subseteq Goroutines /\ ~Nothing.invalidate
  BY TodoParts DEF Goroutines
\* A step that leaves the rows alone leaves the pending tasks alone.
<1>p. ASSUME UNCHANGED row PROVE Pending' = Pending
  BY <1>p DEF Pending
<1>t. ASSUME UNCHANGED todo PROVE FlagsKept
  BY <1>t DEF FlagsKept
<1>w. ASSUME NEW w \in Workers, Free(w), OtherTodos(w) PROVE FlagsKept
  BY <1>0, <1>w, FlagsKeptBy DEF Free
<1>c. UNCHANGED <<cache, fetch>> => CacheKept
  BY DEF CacheKept
\* Who has announced a write will invalidate the cache.
<1>e. ASSUME NEW g \in Goroutines, NEW e, todo'[g] = InvalidateAndPublish(e)
      PROVE  DepthInv'
  <2>1. todo'[g].invalidate
    BY <1>e DEF InvalidateAndPublish
  <2> QED
    BY <2>1, DepthExcused DEF Excused
<1>1. ASSUME NEW t \in Tasks, Enqueue(t)
      PROVE  DepthInv'
  BY <1>0, <1>1, <1>e, EnqueueEffect
<1>2. ASSUME NEW w \in Workers, NEW t \in Tasks, Dequeue(w, t)
      PROVE  DepthInv'
  BY <1>0, <1>2, <1>e, DequeueEffect
<1>3. ASSUME NEW t \in Tasks,
             EnqueueReplyLost(t) \/ \E w \in Workers : DequeueReplyLost(w, t)
      PROVE  DepthInv'
  BY <1>3, EnqueueLostEffect, DequeueLostEffect, DepthMissed
<1>4. ASSUME NEW w \in Workers, ReportProgress(w) \/ Execute(w)
      PROVE  DepthInv'
  <2>1. Free(w) /\ OtherTodos(w) /\ row' = row /\ CacheKept
    BY <1>4, ProgressEffect, ExecuteEffect DEF Apart
  <2> QED
    BY <1>p, <1>w, <2>1, DepthKept
<1>5. ASSUME NEW w \in Workers, handleTaskSuccess(w) \/ FailUpdate(w)
      PROVE  DepthInv'
  <2>1. /\ pc[w] # "poll" /\ (Wrote(w, "completed") \/ Wrote(w, "failed"))
        /\ SameTodos /\ CacheKept
    BY <1>5, SuccessEffect, FailEffect DEF Apart
  <2>2. held[w] \in Tasks /\ row[held[w]].status # "pending"
    BY <2>1, HeldTask
  <2>3. Pending' = Pending
    BY <1>p, <2>1, <2>2, NotPending DEF Wrote
  <2>4. FlagsKept
    BY <2>1 DEF FlagsKept, SameTodos
  <2> QED
    BY <2>1, <2>3, <2>4, DepthKept
<1>6. ASSUME NEW w \in Workers, NEW s \in {"pending", "dead_letter"}, NEW n, NEW e,
             pc[w] # "poll", Announces(w, s, n, e), CacheKept
      PROVE  DepthInv'
  <2>1. held[w] \in Tasks /\ row[held[w]].status # "pending"
    BY <1>6, HeldTask
  <2>2. CASE todo'[w] \in {InvalidateAndPublish(e), InvalidateAndPublish(NoEvent)}
    BY <1>0, <1>e, <2>2
  <2>3. CASE row'[held[w]].status = s /\ OtherRows(held[w]) /\ todo' = todo /\ s # "pending"
    <3>1. Pending' = Pending
      BY <2>1, <2>3, NotPending
    <3> QED
      BY <1>6, <1>t, <2>3, <3>1, DepthKept
  <2>4. CASE CountsMissed
    BY <2>4, DepthMissed
  <2>5. CASE row' = row /\ todo' = todo
    BY <1>6, <1>p, <1>t, <2>5, DepthKept
  <2> QED
    BY <1>6, <2>2, <2>3, <2>4, <2>5 DEF Announces
<1>7. ASSUME NEW w \in Workers, Requeue(w) \/ RequeueReplyLost(w)
      PROVE  DepthInv'
  BY <1>6, <1>7, RequeueEffect DEF Apart
<1>8. ASSUME NEW w \in Workers, MoveToDeadLetter(w) \/ MoveToDeadLetterReplyLost(w)
      PROVE  DepthInv'
  BY <1>6, <1>8, DeadLetterEffect DEF Apart
<1>9. ASSUME NEW g \in Goroutines, invalidateCache(g)
      PROVE  DepthInv'
  <2>1. /\ cache' = NoCache /\ fetch'.counts = fetch.counts
        /\ fetch # NoCache => fetch'.overtaken
    BY <1>9, InvalidateEffect
  <2> QED
    BY <2>1 DEF DepthInv, Explained, NoCache
<1>10. ASSUME NEW g \in Goroutines, PublishEvent(g)
       PROVE  DepthInv'
  <2>1. ~todo[g].invalidate /\ OtherTodos(g) /\ UNCHANGED <<row, cache, fetch>>
    BY <1>10, PublishEffect
  <2> QED
    BY <1>c, <1>p, <2>1, FlagsKeptBy, DepthKept
<1>11. CASE PublisherStep \/ SetEnabled \/ UNCHANGED vars
  <2>1. UNCHANGED <<row, cache, fetch, todo>>
    BY <1>11 DEF PublisherStep, SetEnabled, vars, rowVars, cacheVars
  <2> QED
    BY <1>c, <1>p, <1>t, <2>1, DepthKept
<1>12. CASE GetQueueDepthFetch \/ GetQueueDepthStore \/ CacheExpires
  <2>1. UNCHANGED <<row, todo>>
    BY <1>12 DEF GetQueueDepthFetch, GetQueueDepthStore, CacheExpires, rowVars
  <2>2. Pending' = Pending /\ (Excused <=> Excused')
    BY <1>p, <2>1 DEF Excused
  <2>3. \A c : Explained(c) <=>
                 (c.counts \in {{}, Pending'} \/ c.overtaken \/ c.missed \/ Excused')
    BY <2>2 DEF Explained
  <2> DEFINE fresh == [counts |-> Pending, overtaken |-> FALSE, missed |-> FALSE]
  <2>4. cache' \in {cache, fetch, NoCache} /\ fetch' \in {fetch, NoCache, fresh}
    BY <1>12 DEF GetQueueDepthFetch, GetQueueDepthStore, CacheExpires
  <2>5. Explained(NoCache) /\ Explained(fresh)
    BY DEF Explained, NoCache
  <2>6. Explained(cache') /\ Explained(fetch')
    BY <2>4, <2>5 DEF DepthInv
  <2> QED
    BY <2>3, <2>6 DEF DepthInv, Explained
<1> QED
  BY <1>1, <1>2, <1>3, <1>4, <1>5, <1>7, <1>8, <1>9, <1>10, <1>11, <1>12 DEF Next, WorkerStep

(***************************************************************************)
(* The queue depth served from the cache is right, except while a          *)
(* goroutine that changed a row has not yet invalidated the cache, when    *)
(* the counts were read before an invalidation and stored after it, or     *)
(* when they were read before a committed write whose reply was lost. The  *)
(* invariant says the same of what a GetQueueDepth has read and not yet    *)
(* stored: it becomes the cache. No other failed call excuses anything,    *)
(* and these excuses end with the counts they belong to.                   *)
(***************************************************************************)
THEOREM DepthExplained == Spec => []StaleDepthExplained
<1>1. Init => DepthInv
  BY DEF Init, DepthInv, Explained, NoCache
<1>2. DepthInv => StaleDepthExplained
  BY DEF DepthInv, Explained, Excused, StaleDepthExplained
<1> QED
  BY <1>1, <1>2, TypeInvHolds, DepthInvNext, PTL DEF Spec
-----------------------------------------------------------------------------
(* The rows go through the life cycle of TaskLifecycle. *)

\* A worker that gives its task up has no retry left; a task that was never
\* enqueued has none behind it.
LifeInv ==
  /\ \A w \in Workers : pc[w] = "dead" => retry[w] = MaxRetries
  /\ \A t \in Tasks : row[t].status = "absent" => row[t].retry = 0

\* The tasks somebody executes.
InExecution == {t \in Tasks : \E w \in Workers : pc[w] # "poll" /\ held[w] = t}

\* Task t gets status s and retry count n; every other row is as before.
RowBecomes(t, s, n) == row'[t].status = s /\ row'[t].retry = n /\ OtherRows(t)

\* The abstract status of one task changes when that of its row does.
LEMMA MapsBecomes ==
  ASSUME NEW t \in Tasks, NEW s, NEW n, RowBecomes(t, s, n)
  PROVE  /\ Lifecycle!Becomes(t, s)
         /\ n = row[t].retry => UNCHANGED [u \in Tasks |-> row[u].retry]
         /\ [u \in Tasks |-> row[u].retry]' = [[u \in Tasks |-> row[u].retry] EXCEPT ![t] = n]
<1>1. Lifecycle!Becomes(t, s)
  BY DEF RowBecomes, OtherRows, Lifecycle!Becomes
<1>2. n = row[t].retry => UNCHANGED [u \in Tasks |-> row[u].retry]
  BY DEF RowBecomes, OtherRows
<1>3. [u \in Tasks |-> row[u].retry]' = [[u \in Tasks |-> row[u].retry] EXCEPT ![t] = n]
  BY DEF RowBecomes, OtherRows
<1> QED
  BY <1>1, <1>2, <1>3

\* Nothing changes in the abstract but who is executing.
LEMMA MapsAbandon ==
  ASSUME row' = row, InExecution' \subseteq InExecution
  PROVE  Lifecycle!Next
<1>1. Lifecycle!Abandon
  BY DEF Lifecycle!Abandon, InExecution
<1> QED
  BY <1>1 DEF Lifecycle!Next

\* A worker that is released takes its own task, and no other, out of
\* execution.
LEMMA MapsWorker ==
  ASSUME TypeInv, NEW w \in Workers, NEW t, t = held[w], pc[w] # "poll", OtherWorkers(w)
  PROVE  /\ t \in InExecution
         /\ pc'[w] = "poll" => InExecution' = InExecution \ {t}
         /\ pc'[w] # "poll" /\ held'[w] = t => InExecution' = InExecution
<1>1. t \in Tasks
  BY HeldTask
<1>2. t \in InExecution
  BY <1>1 DEF InExecution
<1>3. \A v \in Workers : v # w /\ pc[v] # "poll" => held[v] # t
  BY DEF TypeInv, HasRow
<1>4. \A v \in Workers : v # w => pc'[v] = pc[v] /\ held'[v] = held[v]
  BY DEF OtherWorkers
<1> QED
  BY <1>1, <1>2, <1>3, <1>4 DEF InExecution

\* A worker is released after its last write of status s, which got through or
\* did not.
LEMMA MapsReleased ==
  ASSUME TypeInv, LifeInv, NEW w \in Workers, NEW t, t = held[w], pc[w] # "poll",
         pc'[w] = "poll", OtherWorkers(w),
         NEW s, NEW n, row' = row \/ RowBecomes(t, s, n),
         \/ s = "completed" /\ pc[w] # "dead" /\ n = row[t].retry
         \/ s = "dead_letter" /\ pc[w] = "dead" /\ n = row[t].retry
         \/ s = "pending" /\ pc[w] # "dead" /\ n = row[t].retry + 1 /\ row[t].retry < MaxRetries
  PROVE  Lifecycle!Next
<1>1. /\ t \in Tasks /\ row[t].status \in {"running", "failed"}
      /\ pc[w] # "dead" => row[t].status = "running"
      /\ pc[w] = "dead" => row[t].retry = MaxRetries
  BY HeldTask DEF LifeInv
<1>2. t \in InExecution /\ InExecution' = InExecution \ {t}
  BY MapsWorker
<1>3. CASE row' = row
  BY <1>2, <1>3, MapsAbandon
<1>4. CASE RowBecomes(t, s, n)
  <2>1. /\ Lifecycle!Becomes(t, s)
        /\ n = row[t].retry => UNCHANGED [u \in Tasks |-> row[u].retry]
        /\ [u \in Tasks |-> row[u].retry]' = [[u \in Tasks |-> row[u].retry] EXCEPT ![t] = n]
    BY <1>1, <1>4, MapsBecomes
  <2>2. Lifecycle!Leaves(t)
    BY <1>2 DEF Lifecycle!Leaves, InExecution
  <2>3. CASE s = "completed" /\ pc[w] # "dead" /\ n = row[t].retry
    <3>1. Lifecycle!Complete(t)
      BY <1>1, <2>1, <2>2, <2>3 DEF Lifecycle!Complete
    <3> QED
      BY <1>1, <3>1 DEF Lifecycle!Next
  <2>4. CASE s = "dead_letter" /\ pc[w] = "dead" /\ n = row[t].retry
    <3>1. Lifecycle!MoveToDeadLetter(t)
      BY <1>1, <2>1, <2>2, <2>4 DEF Lifecycle!MoveToDeadLetter
    <3> QED
      BY <1>1, <3>1 DEF Lifecycle!Next
  <2>5. CASE s = "pending" /\ pc[w] # "dead" /\ n = row[t].retry + 1 /\ row[t].retry < MaxRetries
    <3>1. Lifecycle!Requeue(t)
      BY <1>1, <2>1, <2>2, <2>5 DEF Lifecycle!Requeue
    <3> QED
      BY <1>1, <3>1 DEF Lifecycle!Next
  <2> QED
    BY <2>3, <2>4, <2>5
<1> QED
  BY <1>3, <1>4

\* A pending row is claimed, and its worker may not get to know.
LEMMA MapsClaim ==
  ASSUME TypeInv, NEW t \in Tasks, row[t].status = "pending",
         RowBecomes(t, "running", row[t].retry),
         InExecution' \in {InExecution, InExecution \cup {t}}
  PROVE  Lifecycle!Next
<1>1. Lifecycle!Becomes(t, "running") /\ UNCHANGED [u \in Tasks |-> row[u].retry]
  BY MapsBecomes
<1>2. t \notin InExecution
  BY DEF InExecution, TypeInv, HasRow
<1>3. Lifecycle!Claim(t)
  BY <1>1, <1>2 DEF Lifecycle!Claim, InExecution
<1> QED
  BY <1>3 DEF Lifecycle!Next

\* Every step of the composition maps to a step of the life cycle.
LEMMA LifeNext ==
  ASSUME TypeInv, LifeInv, [Next]_vars
  PROVE  LifeInv' /\ [Lifecycle!Next]_(Lifecycle!vars)
<1> DEFINE Goal == LifeInv' /\ Lifecycle!Next
\* Rows and workers stay as they are.
<1>f. ASSUME UNCHANGED <<row, pc, held, retry>>
      PROVE  Goal
  <2>1. InExecution' = InExecution
    BY <1>f DEF InExecution
  <2> QED
    BY <1>f, <2>1, MapsAbandon DEF LifeInv
\* A row begins its life.
<1>n. ASSUME NEW t \in Tasks, row[t].status = "absent", RowBecomes(t, "pending", 0),
             UNCHANGED <<pc, held, retry>>
      PROVE  Goal
  <2>1. row[t].retry = 0
    BY <1>n DEF LifeInv
  <2>2. Lifecycle!Becomes(t, "pending") /\ UNCHANGED [u \in Tasks |-> row[u].retry]
    BY <1>n, <2>1, MapsBecomes
  <2>3. InExecution' = InExecution
    BY <1>n DEF InExecution
  <2>4. Lifecycle!Enqueue(t)
    BY <1>n, <2>2, <2>3 DEF Lifecycle!Enqueue, InExecution
  <2>5. LifeInv'
    BY <1>n DEF LifeInv, RowBecomes, OtherRows
  <2> QED
    BY <2>4, <2>5 DEF Lifecycle!Next
<1>1. ASSUME NEW t \in Tasks, Enqueue(t)
      PROVE  Goal
  BY <1>1, <1>n, EnqueueEffect DEF RowBecomes
<1>e. ASSUME NEW t \in Tasks, EnqueueReplyLost(t)
      PROVE  Goal
  BY <1>e, <1>n, EnqueueLostEffect DEF RowBecomes
<1>2. ASSUME NEW w \in Workers, NEW t \in Tasks, Dequeue(w, t)
      PROVE  Goal
  <2>1. /\ pc[w] = "poll" /\ row[t].status = "pending"
        /\ RowBecomes(t, "running", row[t].retry)
        /\ pc'[w] = "run" /\ held'[w] = t /\ OtherWorkers(w)
    BY <1>2, DequeueEffect DEF RowBecomes
  <2>2. InExecution' = InExecution \cup {t}
    BY <2>1 DEF InExecution, OtherWorkers
  <2>3. LifeInv'
    BY <2>1 DEF LifeInv, RowBecomes, OtherRows, OtherWorkers
  <2> QED
    BY <2>1, <2>2, <2>3, MapsClaim
<1>3. ASSUME NEW w \in Workers, NEW t \in Tasks, DequeueReplyLost(w, t)
      PROVE  Goal
  <2>1. /\ row[t].status = "pending" /\ RowBecomes(t, "running", row[t].retry)
        /\ UNCHANGED <<pc, held, retry>>
    BY <1>3, DequeueLostEffect DEF RowBecomes
  <2>2. InExecution' = InExecution
    BY <2>1 DEF InExecution
  <2>3. LifeInv'
    BY <2>1 DEF LifeInv, RowBecomes, OtherRows
  <2> QED
    BY <2>1, <2>2, <2>3, MapsClaim
<1>4. ASSUME NEW w \in Workers, Execute(w)
      PROVE  Goal
  <2>1. /\ pc[w] = "run" /\ pc'[w] \in {"succeeded", "errored"} /\ held'[w] = held[w]
        /\ OtherWorkers(w) /\ row' = row
    BY <1>4, ExecuteEffect
  <2>2. InExecution' = InExecution
    BY <2>1, MapsWorker
  <2>3. LifeInv'
    BY <2>1 DEF LifeInv, OtherWorkers
  <2> QED
    BY <2>1, <2>2, <2>3, MapsAbandon
\* A worker is released, and its row written or not.
<1>5. ASSUME NEW w \in Workers, NEW t, t = held[w], pc[w] # "poll", pc'[w] = "poll",
             OtherWorkers(w), NEW s \in {"completed", "pending", "dead_letter"}, NEW n,
             row' = row \/ RowBecomes(t, s, n)
      PROVE  LifeInv'
  BY <1>5 DEF LifeInv, RowBecomes, OtherRows, OtherWorkers
<1>6. ASSUME NEW w \in Workers, handleTaskSuccess(w)
      PROVE  Goal
  <2>1. PICK t : t = held[w]
    OBVIOUS
  <2>2. /\ pc[w] = "succeeded" /\ pc'[w] = "poll" /\ OtherWorkers(w)
        /\ row' = row \/ RowBecomes(t, "completed", row[t].retry)
    BY <1>6, <2>1, SuccessEffect DEF Wrote, RowBecomes
  <2> QED
    BY <1>5, <2>1, <2>2, MapsReleased
<1>7. ASSUME NEW w \in Workers, Requeue(w) \/ RequeueReplyLost(w)
      PROVE  Goal
  <2>1. PICK t : t = held[w]
    OBVIOUS
  <2>2. /\ pc[w] = "errored" /\ pc'[w] = "poll" /\ OtherWorkers(w) /\ retry[w] < MaxRetries
        /\ row' = row \/ RowBecomes(t, "pending", retry[w] + 1)
    BY <1>7, <2>1, RequeueEffect DEF Announces, RowBecomes
  <2>3. retry[w] = row[t].retry
    BY <2>1, <2>2, HeldTask
  <2> QED
    BY <1>5, <2>1, <2>2, <2>3, MapsReleased
<1>8. ASSUME NEW w \in Workers, FailUpdate(w)
      PROVE  Goal
  <2>1. PICK t : t = held[w]
    OBVIOUS
  <2>2. /\ pc[w] = "errored" /\ retry[w] >= MaxRetries /\ Wrote(w, "failed")
        /\ pc'[w] = "dead" /\ held'[w] = t /\ retry'[w] = retry[w] /\ OtherWorkers(w)
    BY <1>8, <2>1, FailEffect
  <2>3. row' = row \/ RowBecomes(t, "failed", row[t].retry)
    BY <2>1, <2>2 DEF Wrote, RowBecomes
  <2>4. /\ t \in Tasks /\ row[t].status = "running" /\ retry[w] = row[t].retry
        /\ retry[w] = MaxRetries
    BY <2>1, <2>2, HeldTask
  <2>5. t \in InExecution /\ InExecution' = InExecution
    BY <2>1, <2>2, MapsWorker
  <2>6. LifeInv'
    BY <2>2, <2>3, <2>4 DEF LifeInv, RowBecomes, OtherRows, OtherWorkers
  <2>7. CASE row' = row
    BY <2>5, <2>6, <2>7, MapsAbandon
  <2>8. CASE RowBecomes(t, "failed", row[t].retry)
    <3>1. Lifecycle!Becomes(t, "failed") /\ UNCHANGED [u \in Tasks |-> row[u].retry]
      BY <2>4, <2>8, MapsBecomes
    <3>2. Lifecycle!Fail(t)
      BY <2>4, <2>5, <3>1 DEF Lifecycle!Fail, InExecution
    <3> QED
      BY <2>4, <2>6, <3>2 DEF Lifecycle!Next
  <2> QED
    BY <2>3, <2>7, <2>8
<1>9. ASSUME NEW w \in Workers, MoveToDeadLetter(w) \/ MoveToDeadLetterReplyLost(w)
      PROVE  Goal
  <2>1. PICK t : t = held[w]
    OBVIOUS
  <2>2. /\ pc[w] = "dead" /\ pc'[w] = "poll" /\ OtherWorkers(w)
        /\ row' = row \/ RowBecomes(t, "dead_letter", retry[w])
    BY <1>9, <2>1, DeadLetterEffect DEF Announces, RowBecomes
  <2>3. retry[w] = row[t].retry
    BY <2>1, <2>2, HeldTask
  <2> QED
    BY <1>5, <2>1, <2>2, <2>3, MapsReleased
<1>10. ASSUME NEW w \in Workers, ReportProgress(w)
       PROVE  Goal
  BY <1>10, <1>f, ProgressEffect
<1>11. ASSUME NEW g \in Goroutines, invalidateCache(g) \/ PublishEvent(g)
       PROVE  Goal
  BY <1>11, <1>f, InvalidateEffect, PublishEffect
<1>12. CASE PublisherStep \/ SetEnabled \/ UNCHANGED vars
  BY <1>12, <1>f DEF PublisherStep, SetEnabled, vars, rowVars, workerVars
<1>13. CASE GetQueueDepthFetch \/ GetQueueDepthStore \/ CacheExpires
  BY <1>13, <1>f DEF GetQueueDepthFetch, GetQueueDepthStore, CacheExpires, rowVars, workerVars
<1> QED
  BY <1>1, <1>e, <1>2, <1>3, <1>4, <1>6, <1>7, <1>8, <1>9, <1>10, <1>11, <1>12, <1>13
     DEF Next, WorkerStep

(***************************************************************************)
(* The adapter keeps the life cycle of the tasks, for any number of tasks, *)
(* workers, retries and disturbances: between two of its steps a worker    *)
(* invalidates a cache and publishes events, the depth is read and the     *)
(* publisher's loop runs, and the rows go through the same life as without *)
(* any of this.                                                            *)
(***************************************************************************)
THEOREM KeepsLifecycle == Spec => ImplementsLifecycle
<1>1. Init => LifeInv /\ Lifecycle!Init
  BY DEF Init, LifeInv, Lifecycle!Init
<1>2. TypeInv /\ LifeInv /\ [Next]_vars => LifeInv' /\ [Lifecycle!Next]_(Lifecycle!vars)
  BY LifeNext
<1> QED
  BY <1>1, <1>2, TypeInvHolds, PTL DEF Spec, ImplementsLifecycle, Lifecycle!Spec
=============================================================================
