------------------------ MODULE EventPublisherProofs ------------------------
(***************************************************************************)
(* Proofs about EventPublisher, for any number of events, callers and      *)
(* loops, any buffer size, and Stop at any moment.                         *)
(***************************************************************************)
EXTENDS EventPublisher, TLAPS

USE PublisherAssumption

\* The flags of TypeOK, and everything else in it.
Flags == enabled \in BOOLEAN /\ panicked \in BOOLEAN

Shape ==
  /\ buffer \in Seq(Events) /\ Len(buffer) <= BufferSize
  /\ stop \in {"no", "closing", "waiting", "returned"}
  /\ loop \in [Loops -> {"none", "select", "publish", "drain", "drainPublish", "exited"}]
  /\ taken \in [Loops -> Events \cup {NoEvent}]
  /\ call \in [Callers -> {"idle", "sending", "direct"}]
  /\ arg \in [Callers -> Events \cup {NoEvent}]
  /\ sent \in Seq(Events) /\ done \in Seq(Events)
  /\ direct \subseteq Events
  /\ late \subseteq Loops

\* A loop is publishing.
Busy(l) == loop[l] \in {"publish", "drainPublish"}

\* A loop holds an event just while it publishes it, a caller as long as it
\* is in Publish.
Holds ==
  /\ \A l \in Loops : Busy(l) <=> taken[l] # NoEvent
  /\ \A c \in Callers : call[c] # "idle" => arg[c] # NoEvent

\* No event that was sent is lost on the way.
Conserved ==
  \A e \in Elements(sent) :
    \/ e \in Elements(done)
    \/ e \in Elements(buffer)
    \/ \E l \in Loops : taken[l] = e

\* Nothing else is published.
NothingInvented ==
  /\ Elements(done) \subseteq Elements(sent)
  /\ Elements(buffer) \subseteq Elements(sent)
  /\ \A l \in Loops : taken[l] # NoEvent => taken[l] \in Elements(sent)

\* A loop ends when the channel is closed and empty, which it then remains;
\* and Stop has waited for every loop that was started in time.
ExitedIsEmpty ==
  /\ \A l \in Loops : loop[l] = "exited" => ChannelClosed /\ buffer = <<>>
  /\ stop = "returned" => \A l \in Loops \ late : loop[l] \in {"none", "exited"}
  /\ stop = "returned" /\ Launched \ late # {} => \A l \in Loops : ~Busy(l)

ChannelInv == Shape /\ Holds /\ Conserved /\ NothingInvented /\ ExitedIsEmpty
-----------------------------------------------------------------------------
(* Sequences. *)

\* What Append does to the elements of a sequence.
LEMMA AppendElements ==
  ASSUME NEW S, NEW s \in Seq(S), NEW e \in S
  PROVE  /\ Append(s, e) \in Seq(S)
         /\ Len(Append(s, e)) = Len(s) + 1
         /\ Elements(Append(s, e)) = Elements(s) \cup {e}
<1>1. /\ Append(s, e) \in Seq(S) /\ Len(Append(s, e)) = Len(s) + 1
      /\ DOMAIN s = 1 .. Len(s) /\ DOMAIN Append(s, e) = 1 .. (Len(s) + 1)
      /\ \A i \in 1 .. Len(s) : Append(s, e)[i] = s[i]
      /\ Append(s, e)[Len(s) + 1] = e
      /\ Len(s) \in Nat
  OBVIOUS
<1>2. Elements(s) \cup {e} \subseteq Elements(Append(s, e))
  BY <1>1 DEF Elements
<1>3. Elements(Append(s, e)) \subseteq Elements(s) \cup {e}
  BY <1>1 DEF Elements
<1> QED
  BY <1>1, <1>2, <1>3

\* What receiving takes from a sequence.
LEMMA HeadTailElements ==
  ASSUME NEW S, NEW s \in Seq(S), s # <<>>
  PROVE  /\ Head(s) \in S /\ Tail(s) \in Seq(S)
         /\ Len(s) \in Nat /\ Len(s) > 0 /\ Len(Tail(s)) = Len(s) - 1
         /\ Head(s) = s[1]
         /\ \A i \in 1 .. (Len(s) - 1) : Tail(s)[i] = s[i + 1]
         /\ Elements(s) = {Head(s)} \cup Elements(Tail(s))
<1>1. /\ Head(s) \in S /\ Tail(s) \in Seq(S)
      /\ Len(s) \in Nat /\ Len(s) > 0 /\ Len(Tail(s)) = Len(s) - 1
      /\ Head(s) = s[1]
      /\ \A i \in 1 .. (Len(s) - 1) : Tail(s)[i] = s[i + 1]
      /\ DOMAIN s = 1 .. Len(s) /\ DOMAIN Tail(s) = 1 .. (Len(s) - 1)
  OBVIOUS
<1>2. {Head(s)} \cup Elements(Tail(s)) \subseteq Elements(s)
  BY <1>1 DEF Elements
<1>3. Elements(s) \subseteq {Head(s)} \cup Elements(Tail(s))
  <2> SUFFICES ASSUME NEW i \in 1 .. Len(s), s[i] # Head(s)
               PROVE  s[i] \in Elements(Tail(s))
    BY <1>1 DEF Elements
  <2>1. i - 1 \in 1 .. (Len(s) - 1) /\ Tail(s)[i - 1] = s[i]
    BY <1>1
  <2> QED
    BY <1>1, <2>1 DEF Elements
<1> QED
  BY <1>1, <1>2, <1>3
-----------------------------------------------------------------------------
(* What every step does to the channel. *)

\* Init establishes the invariant.
LEMMA ChannelInvInit == Init => Flags /\ ChannelInv
<1> SUFFICES ASSUME Init PROVE Flags /\ ChannelInv
  OBVIOUS
<1>1. Flags
  BY DEF Init, Flags
<1>2. Shape
  BY DEF Init, Shape
<1>3. Holds
  BY DEF Init, Holds, Busy
<1>4. Conserved /\ NothingInvented
  BY DEF Init, Conserved, NothingInvented, Elements
<1>5. ExitedIsEmpty
  BY DEF Init, ExitedIsEmpty, Launched
<1> QED
  BY <1>1, <1>2, <1>3, <1>4, <1>5 DEF ChannelInv

\* Every step keeps the flags Boolean.
LEMMA FlagsNext == Flags /\ [Next]_vars => Flags'
<1> SUFFICES ASSUME Flags, [Next]_vars PROVE Flags'
  OBVIOUS
<1> USE DEF Flags
<1>1. ASSUME NEW b \in BOOLEAN, SetEnabled(b) PROVE Flags'
  BY <1>1 DEF SetEnabled
<1>2. CASE Panic
  BY <1>2 DEF Panic
<1>4. ASSUME NEW c \in Callers, NEW e \in Events, PublishCheck(c, e) PROVE Flags'
  BY <1>4 DEF PublishCheck
<1>5. ASSUME NEW c \in Callers, CallStep(c) PROVE Flags'
  BY <1>5, <1>2 DEF CallStep, PublishSend, PublishFull, PublishPanics, DirectReturns
<1>6. ASSUME NEW l \in Loops, Start(l) \/ LoopStep(l) PROVE Flags'
  BY <1>6 DEF Start, LoopStep, Receive, LoopPublished, LoopStops, LoopExits
<1>7. CASE StopSignal \/ StopAgain \/ StopStep
  BY <1>7, <1>2 DEF StopSignal, StopAgain, StopStep, StopCloseChannel, StopReturn
<1>8. CASE UNCHANGED vars
  BY <1>8 DEF vars
<1> QED
  BY <1>1, <1>4, <1>5, <1>6, <1>7, <1>8 DEF Next

\* Steps that move no event.
LEMMA NoEventMoves ==
  ASSUME ChannelInv, UNCHANGED <<buffer, taken, sent, done>>
  PROVE  Conserved' /\ NothingInvented'
  BY DEF ChannelInv, Conserved, NothingInvented, Elements

\* Every step preserves the invariant.
LEMMA ChannelInvNext == ChannelInv /\ [Next]_vars => ChannelInv'
<1> SUFFICES ASSUME ChannelInv, [Next]_vars PROVE ChannelInv'
  OBVIOUS
<1> USE DEF ChannelInv
<1>1. ASSUME NEW c \in Callers, NEW e \in Events, PublishCheck(c, e)
      PROVE  ChannelInv'
  <2>1. Shape' /\ Holds'
    BY <1>1 DEF PublishCheck, Shape, Holds, Busy, loopVars
  <2>2. ExitedIsEmpty'
    BY <1>1 DEF PublishCheck, ExitedIsEmpty, Launched, Busy, ChannelClosed, loopVars
  <2> QED
    BY <1>1, <2>1, <2>2, NoEventMoves DEF PublishCheck, loopVars
<1>2. ASSUME NEW c \in Callers, PublishSend(c)
      PROVE  ChannelInv'
  <2>1. arg[c] \in Events
    BY <1>2 DEF PublishSend, Shape, Holds
  <2>2. /\ Elements(sent') = Elements(sent) \cup {arg[c]}
        /\ Elements(buffer') = Elements(buffer) \cup {arg[c]}
        /\ sent' \in Seq(Events) /\ buffer' \in Seq(Events)
        /\ Len(buffer') = Len(buffer) + 1
    BY <1>2, <2>1, AppendElements DEF PublishSend, Shape
  <2>3. Shape' /\ Holds'
    BY <1>2, <2>2 DEF PublishSend, Shape, Holds, Busy, loopVars
  <2>4. Conserved' /\ NothingInvented'
    <3>1. Elements(done') = Elements(done) /\ taken' = taken
      BY <1>2 DEF PublishSend, loopVars
    <3> QED
      BY <2>2, <3>1 DEF Conserved, NothingInvented
  <2>5. ExitedIsEmpty'
    BY <1>2 DEF PublishSend, ExitedIsEmpty, Launched, Busy, ChannelClosed, loopVars
  <2> QED
    BY <2>3, <2>4, <2>5
<1>3. ASSUME NEW c \in Callers, PublishFull(c) \/ DirectReturns(c)
      PROVE  ChannelInv'
  <2>1. Shape' /\ Holds'
    BY <1>3 DEF PublishFull, DirectReturns, Shape, Holds, Busy, loopVars
  <2>2. ExitedIsEmpty'
    BY <1>3 DEF PublishFull, DirectReturns, ExitedIsEmpty, Launched, Busy, ChannelClosed, loopVars
  <2> QED
    BY <1>3, <2>1, <2>2, NoEventMoves DEF PublishFull, DirectReturns, loopVars
<1>4. CASE UNCHANGED <<buffer, stop, loopVars, callVars, sent, done>>
  <2>1. Shape' /\ Holds'
    BY <1>4 DEF Shape, Holds, Busy, loopVars, callVars
  <2>2. ExitedIsEmpty'
    BY <1>4 DEF ExitedIsEmpty, Launched, Busy, ChannelClosed, loopVars
  <2> QED
    BY <1>4, <2>1, <2>2, NoEventMoves DEF loopVars
<1>5. ASSUME NEW l \in Loops, Start(l)
      PROVE  ChannelInv'
  <2>1. Shape' /\ Holds'
    BY <1>5 DEF Start, Shape, Holds, Busy, callVars
  <2>2. ExitedIsEmpty'
    BY <1>5 DEF Start, ExitedIsEmpty, Launched, Busy, ChannelClosed, Shape
  <2> QED
    BY <1>5, <2>1, <2>2, NoEventMoves DEF Start
<1>6. CASE StopSignal \/ StopCloseChannel
  <2>1. Shape' /\ Holds'
    BY <1>6 DEF StopSignal, StopCloseChannel, Shape, Holds, Busy, loopVars, callVars
  <2>2. ExitedIsEmpty'
    BY <1>6 DEF StopSignal, StopCloseChannel, ExitedIsEmpty, Launched, Busy, ChannelClosed, loopVars
  <2> QED
    BY <1>6, <2>1, <2>2, NoEventMoves DEF StopSignal, StopCloseChannel, loopVars
<1>7. CASE StopReturn
  <2>1. Shape' /\ Holds'
    BY <1>7 DEF StopReturn, Shape, Holds, Busy, loopVars, callVars
  <2>2. ExitedIsEmpty'
    BY <1>7 DEF StopReturn, ExitedIsEmpty, Launched, Busy, ChannelClosed, loopVars
  <2> QED
    BY <1>7, <2>1, <2>2, NoEventMoves DEF StopReturn, loopVars
<1>8. ASSUME NEW l \in Loops, Receive(l)
      PROVE  ChannelInv'
  <2>1. /\ Head(buffer) \in Events /\ Tail(buffer) \in Seq(Events)
        /\ Len(Tail(buffer)) <= BufferSize
        /\ Elements(buffer) = {Head(buffer)} \cup Elements(Tail(buffer))
    BY <1>8, HeadTailElements DEF Receive, Shape
  <2>2. Shape' /\ Holds'
    BY <1>8, <2>1 DEF Receive, Goto, Shape, Holds, Busy, callVars
  <2>3. Conserved' /\ NothingInvented'
    <3>1. /\ Elements(done') = Elements(done) /\ Elements(sent') = Elements(sent)
          /\ Elements(buffer') = Elements(Tail(buffer))
          /\ taken' = [taken EXCEPT ![l] = Head(buffer)] /\ taken[l] = NoEvent
      BY <1>8 DEF Receive, Goto, Holds, Busy
    <3>2. Elements(sent) \subseteq Events
      BY DEF Shape, Elements
    <3> QED
      BY <2>1, <3>1, <3>2 DEF Conserved, NothingInvented, Shape
  <2>4. ExitedIsEmpty'
    BY <1>8 DEF Receive, Goto, ExitedIsEmpty, Launched, Busy, ChannelClosed, Shape
  <2> QED
    BY <2>2, <2>3, <2>4
<1>9. ASSUME NEW l \in Loops, LoopPublished(l)
      PROVE  ChannelInv'
  <2>1. taken[l] \in Events /\ taken[l] # NoEvent
    BY <1>9 DEF LoopPublished, Goto, Shape, Holds, Busy
  <2>2. /\ Elements(done') = Elements(done) \cup {taken[l]}
        /\ done' \in Seq(Events)
    BY <1>9, <2>1, AppendElements DEF LoopPublished, Shape
  <2>3. Shape' /\ Holds'
    BY <1>9, <2>2 DEF LoopPublished, Goto, Shape, Holds, Busy, callVars
  <2>4. Conserved' /\ NothingInvented'
    <3>1. /\ Elements(buffer') = Elements(buffer) /\ Elements(sent') = Elements(sent)
          /\ taken' = [taken EXCEPT ![l] = NoEvent]
      BY <1>9 DEF LoopPublished
    <3> QED
      BY <2>1, <2>2, <3>1 DEF Conserved, NothingInvented, Shape
  <2>5. ExitedIsEmpty'
    BY <1>9 DEF LoopPublished, Goto, ExitedIsEmpty, Launched, Busy, ChannelClosed, Shape
  <2> QED
    BY <2>3, <2>4, <2>5
<1>10. ASSUME NEW l \in Loops, LoopStops(l) \/ LoopExits(l)
       PROVE  ChannelInv'
  <2>1. Shape' /\ Holds'
    BY <1>10 DEF LoopStops, LoopExits, Goto, Shape, Holds, Busy, callVars
  <2>2. ExitedIsEmpty'
    BY <1>10 DEF LoopStops, LoopExits, Goto, ExitedIsEmpty, Launched, Busy, ChannelClosed, Shape
  <2> QED
    BY <1>10, <2>1, <2>2, NoEventMoves DEF LoopStops, LoopExits
<1> QED
  BY <1>1, <1>2, <1>3, <1>4, <1>5, <1>6, <1>7, <1>8, <1>9, <1>10
     DEF Next, CallStep, PublishPanics, Panic, SetEnabled, StopAgain, StopStep, LoopStep,
         vars, loopVars, callVars

\* The two invariants together hold of the specification.
LEMMA ChannelInvHolds == Spec => [](Flags /\ ChannelInv)
  BY ChannelInvInit, ChannelInvNext, FlagsNext, PTL DEF Spec

(***************************************************************************)
(* Type correctness: the buffer never holds more than BufferSize events,   *)
(* and everything that reaches it or the publisher is an event.            *)
(***************************************************************************)
THEOREM TypeCorrect == Spec => []TypeOK
<1>1. Flags /\ ChannelInv => TypeOK
  BY DEF Flags, ChannelInv, Shape, TypeOK
<1> QED
  BY <1>1, ChannelInvHolds, PTL

(***************************************************************************)
(* When Stop returns, the events sent are just the events published, if    *)
(* some loop was started before Stop: for any number of callers that send  *)
(* until the channel is closed and any number of loops that drain it.      *)
(***************************************************************************)
THEOREM Flushed == Spec => []StopFlushes
<1>1. ASSUME ChannelInv, stop = "returned", Launched \ late # {}
      PROVE  Elements(sent) = Elements(done)
  <2>1. PICK k \in Launched \ late : TRUE
    BY <1>1
  <2>2. loop[k] = "exited"
    BY <1>1, <2>1 DEF ChannelInv, ExitedIsEmpty, Launched
  <2>3. Elements(buffer) = {}
    BY <1>1, <2>1, <2>2 DEF ChannelInv, ExitedIsEmpty, Launched, Elements
  <2>4. \A l \in Loops : taken[l] = NoEvent
    BY <1>1 DEF ChannelInv, ExitedIsEmpty, Holds
  <2>5. Elements(sent) \subseteq Events
    BY <1>1 DEF ChannelInv, Shape, Elements
  <2> QED
    BY <1>1, <2>3, <2>4, <2>5 DEF ChannelInv, Conserved, NothingInvented
<1>2. ChannelInv => StopFlushes
  BY <1>1 DEF StopFlushes
<1> QED
  BY <1>2, ChannelInvHolds, PTL
-----------------------------------------------------------------------------
(* Order. *)

OneLoop == \A k, l \in Launched : k = l

\* With one loop, what has been sent is what has been published, then the
\* event the loop holds, then the buffer.
InOrder ==
  /\ \A i \in 1 .. Len(done) : done[i] = sent[i]
  /\ (\A l \in Loops : ~Busy(l)) =>
       /\ Len(sent) = Len(done) + Len(buffer)
       /\ \A i \in 1 .. Len(buffer) : buffer[i] = sent[Len(done) + i]
  /\ \A l \in Loops : Busy(l) =>
       /\ Len(sent) = Len(done) + 1 + Len(buffer)
       /\ taken[l] = sent[Len(done) + 1]
       /\ \A i \in 1 .. Len(buffer) : buffer[i] = sent[Len(done) + 1 + i]

OrderInv == OneLoop => InOrder

\* Init establishes it: nothing has been sent.
LEMMA OrderInvInit == Init => OrderInv
  BY DEF Init, OrderInv, InOrder, Busy

\* Every step preserves it. Launching a second loop ends the premise.
LEMMA OrderInvNext ==
  ASSUME ChannelInv, ChannelInv', OrderInv, [Next]_vars
  PROVE  OrderInv'
<1> SUFFICES ASSUME OneLoop' PROVE InOrder'
  BY DEF OrderInv
<1>0. Shape /\ Shape' /\ Holds /\ Holds'
  BY DEF ChannelInv
<1>1. Len(buffer) \in Nat /\ Len(sent) \in Nat /\ Len(done) \in Nat
  BY <1>0 DEF Shape
<1>2. OneLoop /\ InOrder
  <2>1. Launched \subseteq Launched'
    BY <1>0 DEF Next, Launched, Shape, CallStep, PublishCheck, PublishSend, PublishFull,
                PublishPanics, DirectReturns, SetEnabled, Start, StopSignal, StopAgain,
                StopStep, StopCloseChannel, StopReturn, LoopStep, Receive, LoopPublished,
                LoopStops, LoopExits, Goto, Panic, vars, loopVars
  <2> QED
    BY <2>1 DEF OneLoop, OrderInv
<1>3. ASSUME NEW c \in Callers, PublishSend(c)
      PROVE  InOrder'
  <2>1. arg[c] \in Events
    BY <1>0, <1>3 DEF PublishSend, Shape, Holds
  <2>2. /\ Len(sent') = Len(sent) + 1 /\ Len(buffer') = Len(buffer) + 1
        /\ \A i \in 1 .. Len(sent) : sent'[i] = sent[i]
        /\ \A i \in 1 .. Len(buffer) : buffer'[i] = buffer[i]
        /\ sent'[Len(sent) + 1] = arg[c] /\ buffer'[Len(buffer) + 1] = arg[c]
        /\ UNCHANGED <<done, loop, taken>>
    BY <1>0, <1>3, <2>1 DEF PublishSend, Shape, loopVars
  <2>3. Len(done) <= Len(sent)
    BY <1>1, <1>2 DEF InOrder
  <2>4. \A i \in 1 .. Len(done') : done'[i] = sent'[i]
    BY <1>1, <1>2, <2>2, <2>3 DEF InOrder
  <2>5. \A l \in Loops : Busy(l)' <=> Busy(l)
    BY <2>2 DEF Busy
  <2>6. ASSUME \A l \in Loops : ~Busy(l)
        PROVE  /\ Len(sent') = Len(done') + Len(buffer')
               /\ \A i \in 1 .. Len(buffer') : buffer'[i] = sent'[Len(done') + i]
    <3>1. /\ Len(sent) = Len(done) + Len(buffer)
          /\ \A i \in 1 .. Len(buffer) : buffer[i] = sent[Len(done) + i]
      BY <1>2, <2>6 DEF InOrder
    <3>2. \A i \in 1 .. Len(buffer) : buffer'[i] = sent'[Len(done) + i]
      BY <1>1, <2>2, <3>1
    <3>3. Len(sent) + 1 = Len(done) + (Len(buffer) + 1)
      BY <1>1, <3>1
    <3>4. buffer'[Len(buffer) + 1] = sent'[Len(done) + (Len(buffer) + 1)]
      BY <2>2, <3>3
    <3>5. \A i \in 1 .. Len(buffer') : i \in 1 .. Len(buffer) \/ i = Len(buffer) + 1
      BY <1>1, <2>2
    <3> QED
      BY <1>1, <2>2, <3>1, <3>2, <3>3, <3>4, <3>5
  <2>7. ASSUME NEW l \in Loops, Busy(l)
        PROVE  /\ Len(sent') = Len(done') + 1 + Len(buffer')
               /\ taken'[l] = sent'[Len(done') + 1]
               /\ \A i \in 1 .. Len(buffer') : buffer'[i] = sent'[Len(done') + 1 + i]
    <3>1. /\ Len(sent) = Len(done) + 1 + Len(buffer)
          /\ taken[l] = sent[Len(done) + 1]
          /\ \A i \in 1 .. Len(buffer) : buffer[i] = sent[Len(done) + 1 + i]
      BY <1>2, <2>7 DEF InOrder
    <3>2. \A i \in 1 .. Len(buffer) : buffer'[i] = sent'[Len(done) + 1 + i]
      BY <1>1, <2>2, <3>1
    <3>3. Len(sent) + 1 = Len(done) + 1 + (Len(buffer) + 1)
      BY <1>1, <3>1
    <3>4. buffer'[Len(buffer) + 1] = sent'[Len(done) + 1 + (Len(buffer) + 1)]
      BY <2>2, <3>3
    <3>5. \A i \in 1 .. Len(buffer') : i \in 1 .. Len(buffer) \/ i = Len(buffer) + 1
      BY <1>1, <2>2
    <3>6. taken'[l] = sent'[Len(done) + 1]
      <4>1. Len(done) + 1 \in 1 .. Len(sent)
        BY <1>1, <3>1
      <4> QED
        BY <2>2, <3>1, <4>1
    <3>7. \A i \in 1 .. Len(buffer') : buffer'[i] = sent'[Len(done) + 1 + i]
      BY <3>2, <3>4, <3>5
    <3> QED
      BY <1>1, <2>2, <3>1, <3>6, <3>7
  <2> QED
    BY <2>4, <2>5, <2>6, <2>7 DEF InOrder
<1>4. ASSUME NEW l \in Loops, Receive(l)
      PROVE  InOrder'
  <2>1. buffer # <<>> /\ ~Busy(l) /\ Busy(l)' /\ l \in Launched
    BY <1>0, <1>4 DEF Receive, Goto, Busy, Shape, Launched
  <2>2. \A k \in Loops : k # l => ~Busy(k) /\ ~Busy(k)'
    BY <1>0, <1>2, <1>4, <2>1 DEF OneLoop, Launched, Busy, Receive, Goto, Shape
  <2>3. /\ Len(buffer) > 0 /\ Len(buffer') = Len(buffer) - 1
        /\ taken'[l] = buffer[1]
        /\ \A i \in 1 .. Len(buffer') : buffer'[i] = buffer[i + 1]
        /\ UNCHANGED <<done, sent>>
    BY <1>0, <1>4, HeadTailElements DEF Receive, Shape
  <2>4. /\ Len(sent) = Len(done) + Len(buffer)
        /\ \A i \in 1 .. Len(buffer) : buffer[i] = sent[Len(done) + i]
    BY <1>2, <2>1, <2>2 DEF InOrder
  <2>5. \A i \in 1 .. Len(buffer') : buffer'[i] = sent[Len(done) + 1 + i]
    BY <1>1, <2>3, <2>4
  <2> QED
    BY <1>1, <1>2, <2>1, <2>2, <2>3, <2>4, <2>5 DEF InOrder
<1>5. ASSUME NEW l \in Loops, LoopPublished(l)
      PROVE  InOrder'
  <2>1. Busy(l) /\ ~Busy(l)' /\ l \in Launched /\ taken[l] \in Events
    BY <1>0, <1>5 DEF LoopPublished, Goto, Busy, Shape, Launched, Holds
  <2>2. \A k \in Loops : ~Busy(k)'
    BY <1>0, <1>2, <1>5, <2>1 DEF OneLoop, Launched, Busy, LoopPublished, Goto, Shape
  <2>3. /\ Len(done') = Len(done) + 1
        /\ \A i \in 1 .. Len(done) : done'[i] = done[i]
        /\ done'[Len(done) + 1] = taken[l]
        /\ UNCHANGED <<buffer, sent>>
    BY <1>0, <1>5, <2>1 DEF LoopPublished, Shape
  <2>4. /\ Len(sent) = Len(done) + 1 + Len(buffer)
        /\ taken[l] = sent[Len(done) + 1]
        /\ \A i \in 1 .. Len(buffer) : buffer[i] = sent[Len(done) + 1 + i]
        /\ \A i \in 1 .. Len(done) : done[i] = sent[i]
    BY <1>2, <2>1 DEF InOrder
  <2>5. \A i \in 1 .. Len(done') : done'[i] = sent'[i]
    BY <1>1, <2>3, <2>4
  <2>6. /\ Len(sent') = Len(done') + Len(buffer')
        /\ \A i \in 1 .. Len(buffer') : buffer'[i] = sent'[Len(done') + i]
    BY <1>1, <2>3, <2>4
  <2> QED
    BY <2>2, <2>5, <2>6 DEF InOrder
<1>6. CASE UNCHANGED <<buffer, sent, done, taken>> /\ \A l \in Loops : Busy(l)' = Busy(l)
  BY <1>2, <1>6 DEF InOrder
<1>7. ASSUME NEW l \in Loops, Start(l) \/ LoopStops(l) \/ LoopExits(l)
      PROVE  InOrder'
  BY <1>0, <1>6, <1>7 DEF Start, LoopStops, LoopExits, Goto, Busy, Shape
<1>8. CASE UNCHANGED <<buffer, sent, done, loop, taken>>
  BY <1>6, <1>8 DEF Busy
<1> QED
  BY <1>3, <1>4, <1>5, <1>7, <1>8
     DEF Next, CallStep, PublishCheck, PublishFull, PublishPanics, DirectReturns, Panic,
         SetEnabled, StopSignal, StopAgain, StopStep, StopCloseChannel, StopReturn, LoopStep,
         vars, loopVars

(***************************************************************************)
(* With one loop, buffered events are published in the order in which they *)
(* were sent, for any buffer size and through the draining at the end.     *)
(***************************************************************************)
THEOREM Ordered == Spec => []BufferedInOrder
<1>1. ChannelInv /\ OrderInv => BufferedInOrder
  <2> SUFFICES ASSUME ChannelInv, InOrder
               PROVE  Len(done) <= Len(sent) /\ \A i \in DOMAIN done : done[i] = sent[i]
    BY DEF OrderInv, OneLoop, BufferedInOrder
  <2>1. /\ Len(buffer) \in Nat /\ Len(sent) \in Nat /\ Len(done) \in Nat
        /\ DOMAIN done = 1 .. Len(done)
    BY DEF ChannelInv, Shape
  <2> QED
    BY <2>1 DEF InOrder
<1>2. Init => OrderInv
  BY OrderInvInit
<1>3. ChannelInv /\ ChannelInv' /\ OrderInv /\ [Next]_vars => OrderInv'
  BY OrderInvNext
<1> QED
  BY <1>1, <1>2, <1>3, ChannelInvHolds, PTL DEF Spec
-----------------------------------------------------------------------------
(* Every event is in one place. *)

Distinct(s) == \A i, j \in 1 .. Len(s) : s[i] = s[j] => i = j

\* A caller's event has not been sent yet nor handed over directly, and no two
\* callers publish the same event.
CallersApart ==
  /\ \A c \in Callers : arg[c] # NoEvent => arg[c] \notin Elements(sent) \cup direct
  /\ \A b, c \in Callers : b # c /\ arg[b] # NoEvent => arg[b] # arg[c]

\* An event that was sent is in the buffer once, or held by one loop, or has
\* been handed over by a loop once.
LoopsApart ==
  /\ Elements(done) \cap Elements(buffer) = {}
  /\ \A l \in Loops : taken[l] # NoEvent => taken[l] \notin Elements(done) \cup Elements(buffer)
  /\ \A k, l \in Loops : k # l /\ taken[k] # NoEvent => taken[k] # taken[l]

OnceInv ==
  /\ Distinct(buffer) /\ Distinct(done)
  /\ Elements(sent) \cap direct = {}
  /\ CallersApart /\ LoopsApart

\* A sequence that gets an element it did not have keeps its elements apart.
LEMMA AppendDistinct ==
  ASSUME NEW S, NEW s \in Seq(S), NEW e \in S, Distinct(s), e \notin Elements(s)
  PROVE  Distinct(Append(s, e))
<1>1. /\ Len(Append(s, e)) = Len(s) + 1 /\ Len(s) \in Nat
      /\ \A i \in 1 .. Len(s) : Append(s, e)[i] = s[i]
      /\ Append(s, e)[Len(s) + 1] = e
      /\ DOMAIN s = 1 .. Len(s)
  OBVIOUS
<1>2. \A i \in 1 .. Len(s) : s[i] # e
  BY <1>1 DEF Elements
<1>3. \A i \in 1 .. (Len(s) + 1) : i \in 1 .. Len(s) \/ i = Len(s) + 1
  BY <1>1
<1> QED
  BY <1>1, <1>2, <1>3 DEF Distinct

\* So does one that loses its head, which is not left in the rest.
LEMMA TailDistinct ==
  ASSUME NEW S, NEW s \in Seq(S), s # <<>>, Distinct(s)
  PROVE  Distinct(Tail(s)) /\ Head(s) \notin Elements(Tail(s))
<1>1. /\ Len(s) \in Nat /\ Len(s) > 0 /\ Len(Tail(s)) = Len(s) - 1 /\ Head(s) = s[1]
      /\ \A i \in 1 .. (Len(s) - 1) : Tail(s)[i] = s[i + 1]
      /\ Tail(s) \in Seq(S)
  BY HeadTailElements
<1>2. \A i \in 1 .. (Len(s) - 1) : i + 1 \in 1 .. Len(s) /\ i + 1 # 1
  BY <1>1
<1>3. Distinct(Tail(s))
  <2> SUFFICES ASSUME NEW i \in 1 .. (Len(s) - 1), NEW j \in 1 .. (Len(s) - 1),
                      s[i + 1] = s[j + 1]
               PROVE  i = j
    BY <1>1 DEF Distinct
  <2>1. i + 1 = j + 1
    BY <1>2 DEF Distinct
  <2> QED
    BY <2>1
<1>4. 1 \in 1 .. Len(s)
  BY <1>1
<1>5. \A i \in 1 .. (Len(s) - 1) : s[i + 1] # s[1]
  BY <1>2, <1>4 DEF Distinct
<1>6. DOMAIN Tail(s) = 1 .. (Len(s) - 1)
  BY <1>1
<1> QED
  BY <1>1, <1>3, <1>5, <1>6 DEF Elements

\* Init establishes it: there is no event anywhere.
LEMMA OnceInvInit == Init => OnceInv
  BY DEF Init, OnceInv, Distinct, CallersApart, LoopsApart, Elements

\* Every step preserves it: an event moves from one place to the next.
LEMMA OnceInvNext ==
  ASSUME ChannelInv, OnceInv, [Next]_vars
  PROVE  OnceInv'
<1>0. Shape /\ Holds /\ NothingInvented
  BY DEF ChannelInv
<1>i. /\ Distinct(buffer) /\ Distinct(done) /\ Elements(sent) \cap direct = {}
      /\ CallersApart /\ LoopsApart
  BY DEF OnceInv
<1>e. Elements(sent) \subseteq Events /\ NoEvent \notin Events
  BY <1>0 DEF Shape, Elements
\* What the loops have is left alone.
<1>l. ASSUME UNCHANGED <<buffer, done, taken>>
      PROVE  Distinct(buffer)' /\ Distinct(done)' /\ LoopsApart'
  BY <1>i, <1>l DEF Distinct, LoopsApart, Elements
\* What the callers have is left alone.
<1>c. ASSUME UNCHANGED <<sent, direct, arg>>
      PROVE  Elements(sent)' \cap direct' = {} /\ CallersApart'
  BY <1>i, <1>c DEF CallersApart, Elements
<1>1. ASSUME NEW c \in Callers, NEW e \in Events, PublishCheck(c, e)
      PROVE  OnceInv'
  <2>1. /\ UNCHANGED <<buffer, done, taken, sent, direct>>
        /\ arg' = [arg EXCEPT ![c] = e]
        /\ e \notin Elements(sent) \cup direct /\ \A b \in Callers : arg[b] # e
    BY <1>1 DEF PublishCheck, Used, loopVars
  <2>2. arg'[c] = e /\ \A b \in Callers : b # c => arg'[b] = arg[b]
    BY <1>0, <2>1 DEF Shape
  <2>3. Elements(sent') = Elements(sent)
    BY <2>1
  <2>4. CallersApart'
    BY <1>i, <2>1, <2>2, <2>3 DEF CallersApart
  <2> QED
    BY <1>i, <1>l, <2>1, <2>3, <2>4 DEF OnceInv
<1>2. ASSUME NEW c \in Callers, PublishSend(c)
      PROVE  OnceInv'
  <2>1. /\ buffer' = Append(buffer, arg[c]) /\ sent' = Append(sent, arg[c])
        /\ arg' = [arg EXCEPT ![c] = NoEvent]
        /\ UNCHANGED <<done, taken, direct>>
    BY <1>2 DEF PublishSend, loopVars
  <2>2. PICK e : e = arg[c]
    OBVIOUS
  <2>3. e \in Events /\ buffer \in Seq(Events) /\ sent \in Seq(Events)
    BY <1>0, <1>2, <2>2 DEF PublishSend, Shape, Holds
  <2>4. /\ Elements(sent') = Elements(sent) \cup {e}
        /\ Elements(buffer') = Elements(buffer) \cup {e}
        /\ Elements(done') = Elements(done)
    BY <2>1, <2>2, <2>3, AppendElements
  <2>5. e \notin Elements(sent) /\ e \notin direct
    BY <1>e, <1>i, <2>2, <2>3 DEF CallersApart
  <2>6. /\ e \notin Elements(buffer) /\ e \notin Elements(done)
        /\ \A l \in Loops : taken[l] # e
    BY <1>0, <1>e, <2>3, <2>5 DEF NothingInvented
  <2>7. Distinct(buffer') /\ Distinct(done')
    BY <1>i, <2>1, <2>2, <2>3, <2>6, AppendDistinct
  <2>8. LoopsApart'
    BY <1>i, <2>1, <2>4, <2>6 DEF LoopsApart
  <2>9. arg'[c] = NoEvent /\ \A b \in Callers : b # c => arg'[b] = arg[b] /\ arg[b] # e
    BY <1>0, <1>e, <1>i, <2>1, <2>2, <2>3 DEF Shape, CallersApart
  <2>10. CallersApart'
    BY <1>i, <2>1, <2>4, <2>9 DEF CallersApart
  <2> QED
    BY <1>i, <2>1, <2>4, <2>5, <2>7, <2>8, <2>10 DEF OnceInv
<1>3. ASSUME NEW c \in Callers, DirectReturns(c)
      PROVE  OnceInv'
  <2>1. /\ direct' = direct \cup {arg[c]} /\ arg' = [arg EXCEPT ![c] = NoEvent]
        /\ UNCHANGED <<buffer, done, taken, sent>>
    BY <1>3 DEF DirectReturns, loopVars
  <2>2. PICK e : e = arg[c]
    OBVIOUS
  <2>3. e # NoEvent
    BY <1>0, <1>3, <2>2 DEF DirectReturns, Holds
  <2>4. arg'[c] = NoEvent /\ \A b \in Callers : b # c => arg'[b] = arg[b] /\ arg[b] # e
    BY <1>0, <1>i, <2>1, <2>2, <2>3 DEF Shape, CallersApart
  <2>5. Elements(sent') = Elements(sent) /\ e \notin Elements(sent)
    BY <1>i, <2>1, <2>2, <2>3 DEF CallersApart
  <2>6. CallersApart'
    BY <1>i, <2>1, <2>2, <2>4, <2>5 DEF CallersApart
  <2> QED
    BY <1>i, <1>l, <2>1, <2>2, <2>5, <2>6 DEF OnceInv
<1>4. ASSUME NEW l \in Loops, Receive(l)
      PROVE  OnceInv'
  <2>1. /\ buffer # <<>> /\ buffer' = Tail(buffer)
        /\ taken' = [taken EXCEPT ![l] = Head(buffer)]
        /\ UNCHANGED <<done, sent, direct, arg>>
    BY <1>4 DEF Receive, callVars
  <2>2. PICK e : e = Head(buffer)
    OBVIOUS
  <2>3. e \in Events /\ Elements(buffer) = {e} \cup Elements(buffer')
    BY <1>0, <2>1, <2>2, HeadTailElements DEF Shape
  <2>4. Distinct(buffer') /\ e \notin Elements(buffer')
    BY <1>0, <1>i, <2>1, <2>2, TailDistinct DEF Shape
  <2>5. taken'[l] = e /\ \A k \in Loops : k # l => taken'[k] = taken[k]
    BY <1>0, <2>1, <2>2 DEF Shape
  <2>6. e \notin Elements(done) /\ \A k \in Loops : taken[k] # e
    BY <1>e, <1>i, <2>3 DEF LoopsApart
  <2>7. Elements(done') = Elements(done)
    BY <2>1
  <2>8. LoopsApart'
    BY <1>i, <2>3, <2>4, <2>5, <2>6, <2>7 DEF LoopsApart
  <2>9. Distinct(done)'
    BY <1>i, <2>1
  <2> QED
    BY <1>c, <2>1, <2>4, <2>8, <2>9 DEF OnceInv
<1>5. ASSUME NEW l \in Loops, LoopPublished(l)
      PROVE  OnceInv'
  <2>1. /\ done' = Append(done, taken[l]) /\ taken' = [taken EXCEPT ![l] = NoEvent]
        /\ UNCHANGED <<buffer, sent, direct, arg>>
    BY <1>5 DEF LoopPublished, callVars
  <2>2. PICK e : e = taken[l]
    OBVIOUS
  <2>3. e \in Events /\ e # NoEvent /\ done \in Seq(Events)
    BY <1>0, <1>5, <2>2 DEF LoopPublished, Goto, Shape, Holds, Busy
  <2>4. Elements(done') = Elements(done) \cup {e} /\ Elements(buffer') = Elements(buffer)
    BY <2>1, <2>2, <2>3, AppendElements
  <2>5. e \notin Elements(done) /\ e \notin Elements(buffer)
    BY <1>i, <2>2, <2>3 DEF LoopsApart
  <2>6. Distinct(done')
    BY <1>i, <2>1, <2>2, <2>3, <2>5, AppendDistinct
  <2>7. taken'[l] = NoEvent /\ \A k \in Loops : k # l => taken'[k] = taken[k] /\ taken[k] # e
    BY <1>0, <1>i, <2>1, <2>2, <2>3 DEF Shape, LoopsApart
  <2>8. LoopsApart'
    BY <1>i, <2>4, <2>5, <2>7 DEF LoopsApart
  <2>9. Distinct(buffer)'
    BY <1>i, <2>1
  <2> QED
    BY <1>c, <2>1, <2>6, <2>8, <2>9 DEF OnceInv
<1>6. CASE UNCHANGED <<buffer, done, taken, sent, direct, arg>>
  BY <1>c, <1>l, <1>6 DEF OnceInv
<1>7. ASSUME NEW l \in Loops, Start(l) \/ LoopStops(l) \/ LoopExits(l)
      PROVE  OnceInv'
  BY <1>6, <1>7 DEF Start, LoopStops, LoopExits, callVars
<1>8. ASSUME NEW c \in Callers, PublishFull(c) \/ PublishPanics(c)
      PROVE  OnceInv'
  BY <1>6, <1>8 DEF PublishFull, PublishPanics, Panic, loopVars, callVars
<1>9. CASE \/ \E b \in BOOLEAN : SetEnabled(b)
           \/ StopSignal \/ StopAgain \/ StopStep \/ UNCHANGED vars
  BY <1>6, <1>9 DEF SetEnabled, StopSignal, StopAgain, StopStep, StopCloseChannel, StopReturn,
                    Panic, vars, loopVars, callVars
<1> QED
  BY <1>1, <1>2, <1>3, <1>4, <1>5, <1>7, <1>8, <1>9 DEF Next, CallStep, LoopStep

(***************************************************************************)
(* No event is handed over twice, for any number of loops that take from   *)
(* the one buffer, any number of callers that send or go past it, and Stop *)
(* at any moment.                                                          *)
(***************************************************************************)
THEOREM Once == Spec => []HandedOverOnce
<1>1. ChannelInv /\ OnceInv => HandedOverOnce
  <2> SUFFICES ASSUME ChannelInv, OnceInv PROVE HandedOverOnce
    OBVIOUS
  <2>1. DOMAIN done = 1 .. Len(done) /\ Elements(done) \subseteq Elements(sent)
    BY DEF ChannelInv, Shape, NothingInvented
  <2> QED
    BY <2>1 DEF OnceInv, Distinct, HandedOverOnce
<1>2. ChannelInv /\ OnceInv /\ [Next]_vars => OnceInv'
  BY OnceInvNext
<1> QED
  BY <1>1, <1>2, OnceInvInit, ChannelInvHolds, PTL DEF Spec
=============================================================================
