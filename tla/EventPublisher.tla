--------------------------- MODULE EventPublisher ---------------------------
(***************************************************************************)
(* TaskEventPublisher (events.go): callers of Publish put events in a      *)
(* buffered channel, the goroutines launched by Start take them out and    *)
(* hand them to the EventPublisher, a caller that finds the buffer full    *)
(* hands its event over itself, and Stop closes both channels and waits.   *)
(*                                                                         *)
(* A step is one channel operation, one read of the enabled flag, or the   *)
(* return of one call of publisher.Publish. A panic ends the process.      *)
(***************************************************************************)
EXTENDS Naturals, Sequences

CONSTANTS
  Events,        \* events; each is published once, by one caller
  Callers,       \* goroutines that call Publish
  Loops,         \* goroutines Start can launch, one per call
  NoEvent,
  AsyncPublish,  \* TaskEventPublisherConfig.AsyncPublish
  BufferSize     \* TaskEventPublisherConfig.BufferSize

ASSUME PublisherAssumption ==
  /\ NoEvent \notin Events
  /\ AsyncPublish \in BOOLEAN
  /\ BufferSize \in Nat

VARIABLES
  enabled,   \* the enabled flag
  buffer,    \* publishCh
  stop,      \* where Stop is: no, closing (stopCh closed), waiting, returned
  loop,      \* where a loop goroutine is
  taken,     \* the event a loop goroutine has received
  call,      \* where a caller is in Publish
  arg,       \* the event it publishes
  panicked,  \* a goroutine has panicked
  sent,      \* history: the events put in the buffer, in order
  done,      \* history: of those, the ones publisher.Publish has returned for
  direct,    \* history: events handed over by their callers
  late       \* history: loops launched when Stop had been called

vars == <<enabled, buffer, stop, loop, taken, call, arg, panicked,
          sent, done, direct, late>>

loopVars == <<loop, taken, late>>
callVars == <<call, arg, direct>>

TypeOK ==
  /\ enabled \in BOOLEAN /\ panicked \in BOOLEAN
  /\ buffer \in Seq(Events) /\ Len(buffer) <= BufferSize
  /\ stop \in {"no", "closing", "waiting", "returned"}
  /\ loop \in [Loops -> {"none", "select", "publish", "drain", "drainPublish", "exited"}]
  /\ taken \in [Loops -> Events \cup {NoEvent}]
  /\ call \in [Callers -> {"idle", "sending", "direct"}]
  /\ arg \in [Callers -> Events \cup {NoEvent}]
  /\ sent \in Seq(Events) /\ done \in Seq(Events)
  /\ direct \subseteq Events
  /\ late \subseteq Loops

Init ==
  /\ enabled \in BOOLEAN
  /\ buffer = <<>>
  /\ stop = "no"
  /\ loop = [l \in Loops |-> "none"]
  /\ taken = [l \in Loops |-> NoEvent]
  /\ call = [c \in Callers |-> "idle"]
  /\ arg = [c \in Callers |-> NoEvent]
  /\ panicked = FALSE
  /\ sent = <<>> /\ done = <<>> /\ direct = {} /\ late = {}

\* NewTaskEventPublisher makes publishCh only then.
HasChannel == AsyncPublish /\ BufferSize > 0

ChannelClosed == HasChannel /\ stop \in {"waiting", "returned"}

\* Sending on, or closing, a closed channel.
Panic ==
  /\ panicked' = TRUE
  /\ UNCHANGED <<enabled, buffer, stop, loopVars, callVars, sent, done>>
-----------------------------------------------------------------------------
(* Publish. *)

Elements(s) == {s[i] : i \in DOMAIN s}

\* Events that went through Publish, or are in it.
Used == Elements(sent) \cup direct \cup {arg[c] : c \in Callers}

\* The enabled flag is read without the lock, once.
PublishCheck(c, e) ==
  /\ call[c] = "idle" /\ e \notin Used
  /\ enabled
  /\ call' = [call EXCEPT ![c] = IF HasChannel THEN "sending" ELSE "direct"]
  /\ arg' = [arg EXCEPT ![c] = e]
  /\ UNCHANGED <<enabled, buffer, stop, loopVars, panicked, sent, done, direct>>

\* Variant: the buffer is never full.
SendWithoutRoom(c) ==
  /\ call[c] = "sending" /\ ~ChannelClosed
  /\ buffer' = Append(buffer, arg[c])
  /\ sent' = Append(sent, arg[c])
  /\ call' = [call EXCEPT ![c] = "idle"]
  /\ arg' = [arg EXCEPT ![c] = NoEvent]
  /\ UNCHANGED <<enabled, stop, loopVars, panicked, done, direct>>

\* Variant: without a return the send is followed by the direct call.
SendAndGoOn(c) ==
  /\ call[c] = "sending" /\ ~ChannelClosed
  /\ Len(buffer) < BufferSize
  /\ buffer' = Append(buffer, arg[c])
  /\ sent' = Append(sent, arg[c])
  /\ call' = [call EXCEPT ![c] = "direct"]
  /\ UNCHANGED <<enabled, stop, loopVars, panicked, arg, done, direct>>

\* The send of the select, possible while there is room.
PublishSend(c) ==
  /\ call[c] = "sending" /\ ~ChannelClosed
  /\ Len(buffer) < BufferSize
  /\ buffer' = Append(buffer, arg[c])
  /\ sent' = Append(sent, arg[c])
  /\ call' = [call EXCEPT ![c] = "idle"]
  /\ arg' = [arg EXCEPT ![c] = NoEvent]
  /\ UNCHANGED <<enabled, stop, loopVars, panicked, done, direct>>

\* The default case: the buffer is full.
PublishFull(c) ==
  /\ call[c] = "sending" /\ ~ChannelClosed
  /\ Len(buffer) = BufferSize
  /\ call' = [call EXCEPT ![c] = "direct"]
  /\ UNCHANGED <<enabled, buffer, stop, loopVars, arg, panicked, sent, done, direct>>

\* A select with a send on a closed channel does not take the default case.
PublishPanics(c) == call[c] = "sending" /\ ChannelClosed /\ Panic

\* doPublish in the caller: publisher.Publish returns, with or without error.
DirectReturns(c) ==
  /\ call[c] = "direct"
  /\ direct' = direct \cup {arg[c]}
  /\ call' = [call EXCEPT ![c] = "idle"]
  /\ arg' = [arg EXCEPT ![c] = NoEvent]
  /\ UNCHANGED <<enabled, buffer, stop, loopVars, panicked, sent, done>>

SetEnabled(b) ==
  /\ enabled # b
  /\ enabled' = b
  /\ UNCHANGED <<buffer, stop, loopVars, callVars, panicked, sent, done>>
-----------------------------------------------------------------------------
(* Start and Stop. *)

Start(l) ==
  /\ HasChannel
  /\ loop[l] = "none"
  /\ loop' = [loop EXCEPT ![l] = "select"]
  /\ late' = IF stop = "no" THEN late ELSE late \cup {l}
  /\ UNCHANGED <<enabled, buffer, stop, taken, callVars, panicked, sent, done>>

StopSignal ==
  /\ stop = "no"
  /\ stop' = "closing"
  /\ UNCHANGED <<enabled, buffer, loopVars, callVars, panicked, sent, done>>

\* A second call of Stop closes stopCh again.
StopAgain == stop # "no" /\ Panic

StopCloseChannel ==
  /\ stop = "closing"
  /\ stop' = "waiting"
  /\ UNCHANGED <<enabled, buffer, loopVars, callVars, panicked, sent, done>>

\* Variant: Stop does not wait.
StopReturnAtOnce ==
  /\ stop = "waiting"
  /\ stop' = "returned"
  /\ UNCHANGED <<enabled, buffer, loopVars, callVars, panicked, sent, done>>

\* wg.Wait: every goroutine that was launched has returned.
StopReturn ==
  /\ stop = "waiting"
  /\ \A l \in Loops : loop[l] \in {"none", "exited"}
  /\ stop' = "returned"
  /\ UNCHANGED <<enabled, buffer, loopVars, callVars, panicked, sent, done>>
-----------------------------------------------------------------------------
(* asyncPublishLoop. *)

Goto(l, from, to) == loop[l] = from /\ loop' = [loop EXCEPT ![l] = to]

\* Receive from publishCh, in the select or while draining.
Receive(l) ==
  /\ Goto(l, "select", "publish") \/ Goto(l, "drain", "drainPublish")
  /\ buffer # <<>>
  /\ taken' = [taken EXCEPT ![l] = Head(buffer)]
  /\ buffer' = Tail(buffer)
  /\ UNCHANGED <<enabled, stop, callVars, panicked, sent, done, late>>

\* Variant: an event whose publication failed goes back to the buffer's end.
LoopPublishedOrRetried(l) ==
  /\ Goto(l, "publish", "select") \/ Goto(l, "drainPublish", "drain")
  /\ taken' = [taken EXCEPT ![l] = NoEvent]
  /\ \/ done' = Append(done, taken[l]) /\ UNCHANGED buffer
     \/ Len(buffer) < BufferSize /\ buffer' = Append(buffer, taken[l]) /\ UNCHANGED done
  /\ UNCHANGED <<enabled, stop, callVars, panicked, sent, late>>

\* doPublish: publisher.Publish returns; an error is only logged.
LoopPublished(l) ==
  /\ Goto(l, "publish", "select") \/ Goto(l, "drainPublish", "drain")
  /\ done' = Append(done, taken[l])
  /\ taken' = [taken EXCEPT ![l] = NoEvent]
  /\ UNCHANGED <<enabled, buffer, stop, callVars, panicked, sent, late>>

\* Variant: the loop returns as soon as it sees stopCh closed.
ReturnOnStop(l) ==
  /\ Goto(l, "select", "exited")
  /\ stop # "no"
  /\ UNCHANGED <<enabled, buffer, stop, taken, callVars, panicked, sent, done, late>>

\* stopCh is closed: drain. Both cases of the select may be ready.
LoopStops(l) ==
  /\ Goto(l, "select", "drain")
  /\ stop # "no"
  /\ UNCHANGED <<enabled, buffer, stop, taken, callVars, panicked, sent, done, late>>

\* Variant: while it drains, the loop does not see that publishCh is closed.
SelectExits(l) ==
  /\ Goto(l, "select", "exited")
  /\ ChannelClosed /\ buffer = <<>>
  /\ UNCHANGED <<enabled, buffer, stop, taken, callVars, panicked, sent, done, late>>

\* publishCh is closed and empty, in the select or while draining.
LoopExits(l) ==
  /\ Goto(l, "select", "exited") \/ Goto(l, "drain", "exited")
  /\ ChannelClosed /\ buffer = <<>>
  /\ UNCHANGED <<enabled, buffer, stop, taken, callVars, panicked, sent, done, late>>

LoopStep(l) == Receive(l) \/ LoopPublished(l) \/ LoopStops(l) \/ LoopExits(l)
-----------------------------------------------------------------------------
CallStep(c) == PublishSend(c) \/ PublishFull(c) \/ PublishPanics(c) \/ DirectReturns(c)

StopStep == StopCloseChannel \/ StopReturn

Next ==
  /\ ~panicked
  /\ \/ \E c \in Callers : (\E e \in Events : PublishCheck(c, e)) \/ CallStep(c)
     \/ \E b \in BOOLEAN : SetEnabled(b)
     \/ \E l \in Loops : Start(l) \/ LoopStep(l)
     \/ StopSignal \/ StopAgain \/ StopStep

Spec == Init /\ [][Next]_vars

(***************************************************************************)
(* Goroutines run and publisher.Publish returns. Nobody has to publish, to *)
(* start or to stop.                                                       *)
(***************************************************************************)
Fairness ==
  /\ \A l \in Loops : WF_vars(~panicked /\ LoopStep(l))
  /\ \A c \in Callers : WF_vars(~panicked /\ CallStep(c))
  /\ WF_vars(~panicked /\ StopStep)

FairSpec == Spec /\ Fairness
-----------------------------------------------------------------------------
(* Properties. *)

Launched == {l \in Loops : loop[l] # "none"}

(***************************************************************************)
(* Stop flushes: when it returns, every event that was put in the buffer   *)
(* has been handed to the publisher, also the ones sent between the two    *)
(* closes. It needs a loop that was started before Stop was called:        *)
(* without Start the events stay in the buffer for good.                   *)
(***************************************************************************)
StopFlushes ==
  stop = "returned" /\ Launched \ late # {} => Elements(sent) = Elements(done)

(***************************************************************************)
(* With one loop, the events that go through the buffer reach the          *)
(* publisher in the order in which they were sent, once each, through the  *)
(* change from the select to the draining loop.                            *)
(***************************************************************************)
BufferedInOrder ==
  (\A k, l \in Launched : k = l) =>
    /\ Len(done) <= Len(sent)
    /\ \A i \in DOMAIN done : done[i] = sent[i]

(***************************************************************************)
(* No event is handed to the publisher twice, by two loops, by the select  *)
(* and the draining loop, or by a loop and the caller that went past the   *)
(* full buffer; with any number of loops and Stop at any moment.           *)
(***************************************************************************)
HandedOverOnce ==
  /\ \A i, j \in DOMAIN done : done[i] = done[j] => i = j
  /\ Elements(done) \cap direct = {}

(***************************************************************************)
(* Every event accepted into the buffer is handed to the publisher once a  *)
(* loop has been started, whether or not Stop is called in between; only a *)
(* panic of a caller can lose it.                                          *)
(***************************************************************************)
AcceptedIsPublished ==
  \A e \in Events :
    e \in Elements(sent) /\ Launched # {} ~> panicked \/ e \in Elements(done)

(***************************************************************************)
(* Stop returns: whichever of its two channels a loop sees closed first,   *)
(* the loop ends; unless a late caller's send panics before.               *)
(***************************************************************************)
StopTerminates == stop = "closing" ~> stop = "returned" \/ panicked
=============================================================================
