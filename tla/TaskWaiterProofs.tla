-------------------------- MODULE TaskWaiterProofs --------------------------
(***************************************************************************)
(* Proofs about WaitForMultiple: what it has told its caller about a task  *)
(* stays true, and what it returns is complete. The first rests on the     *)
(* invariant of the retry proofs, which is shown to hold here as well: the *)
(* waiter reads rows and never writes them.                                *)
(***************************************************************************)
EXTENDS TaskWaiter, TaskExecutionProofs, FiniteSetTheorems

USE WaiterAssumption

Messages == [id : Tasks, result : Results]

\* The result a goroutine sends names a terminal status, or none.
LEMMA OutcomeType ==
  ASSUME NEW s, isTerminalStatus(s)
  PROVE  /\ WaitForCompletionWithOutput(s) \in Results
         /\ WaitForCompletionWithOutput(s).task = s
         /\ WaitForCompletionWithOutput(s) # NoResult
  BY DEF isTerminalStatus, Terminal, WaitForCompletionWithOutput, Results, Statuses, NoResult

\* So does the result of a wait that fails.
LEMMA ErrorType ==
  ASSUME NEW e \in {"timeout", "repository"}
  PROVE  /\ [task |-> "nil", error |-> e] \in Results
         /\ [task |-> "nil", error |-> e].task = "nil"
         /\ [task |-> "nil", error |-> e] # NoResult
  BY DEF Results, NoResult

\* What goroutine i can send, of the row it has read.
SendableFor(i, r) ==
  /\ r \in Results /\ r # NoResult
  /\ r.task # "nil" => r.task \in Terminal /\ r.task = row[TaskIDs[i]].status

\* Every step of the waiter is one of four kinds: it starts the call, sends
\* one result, takes one, or returns; none writes a row.
LEMMA WaitStepKinds ==
  ASSUME WaitStep
  PROVE  \/ WaitForMultiple
         \/ \E i \in DOMAIN TaskIDs, r \in Results : SendableFor(i, r) /\ Send(i, r)
         \/ Collect
         \/ Return
<1>1. ASSUME NEW i \in DOMAIN TaskIDs, WaitForCompletion(i) \/ Timeout(i)
      PROVE  \E r \in Results : SendableFor(i, r) /\ Send(i, r)
  <2>1. CASE Timeout(i)
    BY <2>1, ErrorType DEF Timeout, SendableFor
  <2>2. CASE /\ isTerminalStatus(row[TaskIDs[i]].status)
             /\ Send(i, WaitForCompletionWithOutput(row[TaskIDs[i]].status))
    BY <2>2, OutcomeType DEF SendableFor, isTerminalStatus
  <2>3. CASE Send(i, [task |-> "nil", error |-> "repository"])
    BY <2>3, ErrorType DEF SendableFor
  <2> QED
    BY <1>1, <2>1, <2>2, <2>3 DEF WaitForCompletion
<1> QED
  BY <1>1 DEF WaitStep

\* A step of the waiter leaves the rest of the system alone, but that a read
\* may count as one of the calls that failed.
LEMMA WaitStepFrame ==
  ASSUME WaitStep
  PROVE  /\ UNCHANGED <<row, pool, executors, pc, held, copy, stale, outages, attempts>>
         /\ faults' = faults \/ faults' = faults + 1
<1>1. ASSUME NEW i \in DOMAIN TaskIDs, WaitForCompletion(i)
      PROVE  /\ UNCHANGED <<row, pool, executors, pc, held, copy, stale, outages, attempts>>
             /\ faults' = faults \/ faults' = faults + 1
  BY <1>1 DEF WaitForCompletion, RepositoryFault, vars, workerVars, processVars
<1> QED
  BY <1>1 DEF WaitStep, WaitForMultiple, Timeout, Collect, Return, vars
-----------------------------------------------------------------------------
(* Types. *)

\* A message is typed when its id and its result are.
LEMMA WaitTypeNext == WaitTypeOK /\ [WaitNext]_allVars => WaitTypeOK'
<1> SUFFICES ASSUME WaitTypeOK, [WaitNext]_allVars PROVE WaitTypeOK'
  OBVIOUS
<1>0. Len(TaskIDs) \in Nat /\ NoResult \in Results
  BY DEF Results, NoResult
<1>1. CASE UNCHANGED waitVars
  BY <1>1 DEF WaitTypeOK, waitVars
<1>2. CASE NoCall(caller', polling', resultChan', received', results')
  BY <1>0, <1>2 DEF NoCall, WaitTypeOK
<1>3. CASE WaitForMultiple
  BY <1>3 DEF WaitForMultiple, WaitTypeOK
<1>4. ASSUME NEW i \in DOMAIN TaskIDs, NEW r \in Results, Send(i, r)
      PROVE  WaitTypeOK'
  <2>1. [id |-> TaskIDs[i], result |-> r] \in Messages
    BY DEF Messages
  <2>2. resultChan \in Seq(Messages)
    BY DEF WaitTypeOK, Messages
  <2>3. resultChan' \in Seq(Messages)
    BY <1>4, <2>1, <2>2 DEF Send
  <2> QED
    BY <1>4, <2>3 DEF Send, WaitTypeOK, Messages
<1>5. CASE Collect
  <2>1. resultChan \in Seq(Messages)
    BY DEF WaitTypeOK, Messages
  <2>2. Head(resultChan) \in Messages /\ Tail(resultChan) \in Seq(Messages)
    BY <1>5, <2>1 DEF Collect
  <2>3. received' \in 0 .. Len(TaskIDs)
    BY <1>0, <1>5 DEF Collect, WaitTypeOK
  <2> QED
    BY <1>5, <2>2, <2>3 DEF Collect, WaitTypeOK, Messages
<1>6. CASE Return
  BY <1>6 DEF Return, WaitTypeOK
<1> QED
  BY <1>1, <1>2, <1>3, <1>4, <1>5, <1>6, WaitStepKinds
     DEF WaitNext, TaskStep, allVars, waitVars

(***************************************************************************)
(* The state of a WaitForMultiple call keeps its types: no goroutine is    *)
(* counted that was not started, and never more results are taken than     *)
(* there are ids.                                                          *)
(***************************************************************************)
THEOREM WaitTypeCorrect == WaitSpec => []WaitTypeOK
<1>1. WaitInit => WaitTypeOK
  BY DEF WaitInit, NoCall, WaitTypeOK, Results, NoResult
<1> QED
  BY <1>1, WaitTypeNext, PTL DEF WaitSpec
-----------------------------------------------------------------------------
(* What the caller is told stays true. *)

\* A failed read changes nothing that the invariant of the rows speaks of.
LEMMA RetryInvWait ==
  ASSUME RetryInv, WaitStep
  PROVE  RetryInv'
<1>1. /\ UNCHANGED <<row, pool, executors, pc, held, copy, stale, outages, attempts>>
      /\ faults' = faults \/ faults' = faults + 1
  BY WaitStepFrame
<1>2. TypeInv'
  BY <1>1 DEF RetryInv, ExclInv, TypeInv, TypeOK, HoldsTask
<1>3. ExclInv'
  BY <1>1, <1>2 DEF RetryInv, ExclInv, ExecutingNotClaimable, ExclusiveExecution, Executing
<1> QED
  BY <1>1, <1>3 DEF RetryInv, NothingListed, AttemptsCounted, WorkerAgrees, Executing

\* Result r is true of task t: the status it names is terminal, and is the
\* one of the row, unless that has moved on to the dead letter queue.
TrueOf(t, r) ==
  r.task # "nil" =>
    /\ r.task \in Terminal
    /\ \/ row[t].status = r.task
       \/ r.task = "failed" /\ row[t].status = "dead_letter"

\* It is not enough that the results the caller has are true: those on their
\* way to it have to be, too.
TruthInv ==
  /\ RetryInv
  /\ WaitTypeOK
  /\ \A t \in Tasks : TrueOf(t, results[t])
  /\ \A k \in DOMAIN resultChan : TrueOf(resultChan[k].id, resultChan[k].result)

\* A step that changes no terminal row, but from failed to dead letter, leaves
\* a true result true.
LEMMA TruthKept ==
  ASSUME NEW t \in Tasks, NEW r, TrueOf(t, r), [KeepsTerminal]_vars
  PROVE  TrueOf(t, r)'
<1>1. CASE KeepsTerminal
  BY <1>1 DEF KeepsTerminal, TrueOf, Terminal
<1>2. CASE UNCHANGED vars
  BY <1>2 DEF vars, TrueOf
<1> QED
  BY <1>1, <1>2

\* Every step preserves it.
LEMMA TruthInvNext ==
  ASSUME PlainPool, TruthInv, [WaitNext]_allVars
  PROVE  TruthInv'
<1>0. WaitTypeOK'
  BY WaitTypeNext DEF TruthInv
<1>c. resultChan \in Seq(Messages)
  BY DEF TruthInv, WaitTypeOK, Messages
<1>d. \A k \in DOMAIN resultChan : resultChan[k].id \in Tasks
  <2>1. \A k \in DOMAIN resultChan : resultChan[k] \in Messages
    BY <1>c
  <2> QED
    BY <2>1 DEF Messages
<1> DEFINE Told == \A t \in Tasks : TrueOf(t, results[t])
           Sent == \A k \in DOMAIN resultChan : TrueOf(resultChan[k].id, resultChan[k].result)
<1>t. Told /\ Sent
  BY DEF TruthInv
<1>1. CASE TaskStep
  <2>1. RetryInv' /\ [KeepsTerminal]_vars
    BY <1>1, RetryInvNext DEF TaskStep, TruthInv
  <2>2. CASE NoCall(caller', polling', resultChan', received', results')
    BY <1>0, <2>1, <2>2 DEF TruthInv, NoCall, TrueOf, NoResult
  <2>3. CASE UNCHANGED waitVars
    <3>1. Told'
      BY <1>t, <2>1, <2>3, TruthKept DEF waitVars
    <3>2. Sent'
      BY <1>t, <1>d, <2>1, <2>3, TruthKept DEF waitVars
    <3> QED
      BY <1>0, <2>1, <3>1, <3>2 DEF TruthInv
  <2> QED
    BY <1>1, <2>2, <2>3 DEF TaskStep
<1>2. CASE WaitStep
  <2>1. RetryInv' /\ row' = row
    BY <1>2, RetryInvWait, WaitStepFrame DEF TruthInv
  <2>2. \A t, r : TrueOf(t, r) => row'[t].status = row[t].status
    BY <2>1
  <2>3. CASE WaitForMultiple \/ Return
    BY <1>0, <1>t, <2>1, <2>3 DEF WaitForMultiple, Return, TruthInv, TrueOf
  <2>4. ASSUME NEW i \in DOMAIN TaskIDs, NEW r \in Results, SendableFor(i, r), Send(i, r)
        PROVE  TruthInv'
    <3> DEFINE m == [id |-> TaskIDs[i], result |-> r]
    <3>1. TrueOf(m.id, m.result)
      BY <2>4 DEF SendableFor, TrueOf
    <3>2. /\ DOMAIN resultChan' = 1 .. Len(resultChan) + 1
          /\ \A k \in DOMAIN resultChan : resultChan'[k] = resultChan[k]
          /\ resultChan'[Len(resultChan) + 1] = m
          /\ Len(resultChan) \in Nat /\ DOMAIN resultChan = 1 .. Len(resultChan)
      <4>1. m \in Messages
        BY DEF Messages
      <4> HIDE DEF m
      <4>2. resultChan' = Append(resultChan, m)
        BY <2>4 DEF Send, m
      <4> QED
        BY <1>c, <4>1, <4>2
    <3> HIDE DEF m
    <3>3. Sent'
      BY <1>t, <2>1, <3>1, <3>2 DEF TrueOf
    <3>4. Told'
      BY <1>t, <2>1, <2>4 DEF Send, TrueOf
    <3> QED
      BY <1>0, <2>1, <3>3, <3>4 DEF TruthInv
  <2>5. CASE Collect
    <3>1. /\ resultChan # <<>> /\ resultChan' = Tail(resultChan)
          /\ results' = [results EXCEPT ![resultChan[1].id] = resultChan[1].result]
          /\ 1 \in DOMAIN resultChan
      <4>1. resultChan # <<>>
        BY <2>5 DEF Collect
      <4>2. Head(resultChan) = resultChan[1] /\ 1 \in DOMAIN resultChan
        BY <1>c, <4>1
      <4> QED
        BY <2>5, <4>1, <4>2 DEF Collect
    <3>2. \A k \in DOMAIN resultChan' :
            k + 1 \in DOMAIN resultChan /\ resultChan'[k] = resultChan[k + 1]
      BY <1>c, <3>1
    <3>3. Sent'
      BY <1>t, <2>1, <3>2 DEF TrueOf
    <3>4. results \in [Tasks -> Results]
      BY DEF TruthInv, WaitTypeOK
    <3>5. Told'
      BY <1>t, <1>d, <2>1, <3>1, <3>4 DEF TrueOf
    <3> QED
      BY <1>0, <2>1, <3>3, <3>5 DEF TruthInv
  <2> QED
    BY <1>2, <2>3, <2>4, <2>5, WaitStepKinds
<1>3. CASE UNCHANGED allVars
  <2>1. [Next]_vars /\ UNCHANGED waitVars
    BY <1>3 DEF allVars
  <2>2. RetryInv'
    BY <2>1, RetryInvNext DEF TruthInv
  <2> QED
    BY <1>0, <1>3, <1>t, <2>2 DEF TruthInv, TrueOf, allVars, vars, waitVars
<1> QED
  BY <1>1, <1>2, <1>3 DEF WaitNext

(***************************************************************************)
(* In a pool without a stuck detector, what WaitForMultiple tells its      *)
(* caller about any of any number of tasks stays true: a result that names *)
(* a status is never contradicted later, by a retry, a late write, a crash *)
(* or a restart.                                                           *)
(***************************************************************************)
THEOREM OutcomeStands ==
  ASSUME PlainPool
  PROVE  WaitSpec => []ReportedOutcomeStands
<1>1. WaitInit => TruthInv
  <2>1. WaitInit => RetryInv
    BY RetryInvInit DEF WaitInit
  <2>2. WaitInit => WaitTypeOK
    BY DEF WaitInit, NoCall, WaitTypeOK, Results, NoResult
  <2> QED
    BY <2>1, <2>2 DEF WaitInit, NoCall, TruthInv, TrueOf, NoResult
<1>2. TruthInv /\ [WaitNext]_allVars => TruthInv'
  BY TruthInvNext
<1>3. TruthInv => ReportedOutcomeStands
  BY DEF TruthInv, TrueOf, ReportedOutcomeStands
<1> QED
  BY <1>1, <1>2, <1>3, PTL DEF WaitSpec
-----------------------------------------------------------------------------
(* What the caller returns is complete. *)

\* A call begins without goroutines, messages and results.
NothingBeforeCall ==
  caller = "idle" => polling = {} /\ resultChan = <<>> /\ received = 0

\* Every goroutine is polling, or has a result in the channel, or one that the
\* caller has counted.
EveryGoroutineCounted ==
  /\ caller # "idle" =>
       received + Len(resultChan) + Cardinality(polling) = Len(TaskIDs)
  /\ caller = "returned" => received = Len(TaskIDs)

\* The same by id: counting alone would allow that one id has two results and
\* another none.
EveryIdAccountedFor ==
  /\ \A k \in DOMAIN resultChan : resultChan[k].result # NoResult
  /\ caller # "idle" =>
       \A i \in DOMAIN TaskIDs :
         \/ i \in polling
         \/ \E k \in DOMAIN resultChan : resultChan[k].id = TaskIDs[i]
         \/ results[TaskIDs[i]] # NoResult

CompleteInv ==
  WaitTypeOK /\ NothingBeforeCall /\ EveryGoroutineCounted /\ EveryIdAccountedFor

\* The goroutines are finitely many.
LEMMA PollingFinite ==
  ASSUME WaitTypeOK
  PROVE  /\ IsFiniteSet(polling) /\ Cardinality(polling) \in Nat
         /\ IsFiniteSet(DOMAIN TaskIDs) /\ Cardinality(DOMAIN TaskIDs) = Len(TaskIDs)
<1>1. DOMAIN TaskIDs = 1 .. Len(TaskIDs) /\ Len(TaskIDs) \in Nat
  OBVIOUS
<1>2. IsFiniteSet(1 .. Len(TaskIDs)) /\ Cardinality(1 .. Len(TaskIDs)) = Len(TaskIDs)
  BY <1>1, FS_Interval
<1>3. polling \in SUBSET (1 .. Len(TaskIDs))
  BY <1>1 DEF WaitTypeOK
<1> QED
  BY <1>1, <1>2, <1>3, FS_Subset, FS_CardinalityType

\* Every step preserves it.
LEMMA CompleteInvNext == CompleteInv /\ [WaitNext]_allVars => CompleteInv'
<1> SUFFICES ASSUME CompleteInv, [WaitNext]_allVars PROVE CompleteInv'
  OBVIOUS
<1>0. WaitTypeOK /\ WaitTypeOK'
  BY WaitTypeNext DEF CompleteInv
<1>c. resultChan \in Seq(Messages) /\ Len(resultChan) \in Nat
  BY <1>0 DEF WaitTypeOK, Messages
<1>d. /\ \A k \in DOMAIN resultChan : resultChan[k].id \in Tasks
      /\ DOMAIN resultChan = 1 .. Len(resultChan)
  <2>1. \A k \in DOMAIN resultChan : resultChan[k] \in Messages
    BY <1>c
  <2> QED
    BY <1>c, <2>1 DEF Messages
<1>n. Len(TaskIDs) \in Nat /\ received \in Nat
  BY <1>0 DEF WaitTypeOK
<1>1. CASE UNCHANGED waitVars
  BY <1>0, <1>1 DEF CompleteInv, NothingBeforeCall, EveryGoroutineCounted,
                    EveryIdAccountedFor, waitVars
<1>2. CASE NoCall(caller', polling', resultChan', received', results')
  BY <1>0, <1>2 DEF CompleteInv, NothingBeforeCall, EveryGoroutineCounted,
                    EveryIdAccountedFor, NoCall
<1>3. CASE WaitForMultiple
  <2>1. /\ caller' = "collecting" /\ polling' = DOMAIN TaskIDs
        /\ resultChan' = <<>> /\ received' = 0
    BY <1>3 DEF WaitForMultiple, CompleteInv, NothingBeforeCall
  <2>2. Cardinality(polling') = Len(TaskIDs)
    BY <1>0, <2>1, PollingFinite
  <2> QED
    BY <1>0, <1>n, <2>1, <2>2
       DEF CompleteInv, NothingBeforeCall, EveryGoroutineCounted, EveryIdAccountedFor
<1>4. ASSUME NEW i \in DOMAIN TaskIDs, NEW r \in Results, r # NoResult, Send(i, r)
      PROVE  CompleteInv'
  <2> DEFINE m == [id |-> TaskIDs[i], result |-> r]
  <2>1. m \in Messages /\ m.id = TaskIDs[i] /\ m.result = r
    BY DEF Messages
  <2>2. i \in polling /\ polling' = polling \ {i} /\ resultChan' = Append(resultChan, m)
        /\ UNCHANGED <<caller, received, results>>
    BY <1>4 DEF Send
  <2> HIDE DEF m
  <2>3. /\ DOMAIN resultChan' = 1 .. Len(resultChan) + 1
        /\ Len(resultChan') = Len(resultChan) + 1
        /\ \A k \in DOMAIN resultChan : resultChan'[k] = resultChan[k]
        /\ resultChan'[Len(resultChan) + 1] = m
    BY <1>c, <2>1, <2>2
  <2>4. caller # "idle"
    BY <2>2 DEF CompleteInv, NothingBeforeCall
  <2>5. Cardinality(polling') = Cardinality(polling) - 1 /\ Cardinality(polling) \in Nat
    BY <1>0, <2>2, PollingFinite, FS_RemoveElement
  <2>6. EveryGoroutineCounted'
    BY <1>c, <1>n, <2>2, <2>3, <2>4, <2>5 DEF CompleteInv, EveryGoroutineCounted
  <2>7. EveryIdAccountedFor'
    <3>1. \A k \in DOMAIN resultChan' : resultChan'[k].result # NoResult
      BY <1>4, <1>c, <1>d, <2>1, <2>3 DEF CompleteInv, EveryIdAccountedFor
    <3>2. ASSUME NEW j \in DOMAIN TaskIDs
          PROVE  \/ j \in polling'
                 \/ \E k \in DOMAIN resultChan' : resultChan'[k].id = TaskIDs[j]
                 \/ results'[TaskIDs[j]] # NoResult
      <4>1. CASE j = i
        <5>1. Len(resultChan) + 1 \in DOMAIN resultChan'
          BY <1>c, <2>3
        <5> QED
          BY <4>1, <2>1, <2>3, <5>1
      <4>2. CASE j # i
        BY <1>c, <1>d, <2>2, <2>3, <2>4, <4>2 DEF CompleteInv, EveryIdAccountedFor
      <4> QED
        BY <4>1, <4>2
    <3> QED
      BY <3>1, <3>2 DEF EveryIdAccountedFor
  <2>8. NothingBeforeCall'
    BY <2>2, <2>4 DEF NothingBeforeCall
  <2> QED
    BY <1>0, <2>6, <2>7, <2>8 DEF CompleteInv
<1>5. CASE Collect
  <2>1. /\ caller = "collecting" /\ resultChan # <<>> /\ resultChan' = Tail(resultChan)
        /\ received' = received + 1 /\ UNCHANGED <<caller, polling>>
        /\ results' = [results EXCEPT ![Head(resultChan).id] = Head(resultChan).result]
    BY <1>5 DEF Collect
  <2>2. /\ Head(resultChan) = resultChan[1] /\ 1 \in DOMAIN resultChan
        /\ Len(resultChan') = Len(resultChan) - 1
        /\ \A k \in DOMAIN resultChan' :
              k + 1 \in DOMAIN resultChan /\ resultChan'[k] = resultChan[k + 1]
        /\ \A k \in DOMAIN resultChan :
              k # 1 => k - 1 \in DOMAIN resultChan' /\ resultChan'[k - 1] = resultChan[k]
    BY <1>c, <2>1
  <2>3. EveryGoroutineCounted'
    BY <1>c, <1>n, <1>0, PollingFinite, <2>1, <2>2 DEF CompleteInv, EveryGoroutineCounted
  <2>4. EveryIdAccountedFor'
    <3>1. \A k \in DOMAIN resultChan' : resultChan'[k].result # NoResult
      BY <2>2 DEF CompleteInv, EveryIdAccountedFor
    <3>2. results \in [Tasks -> Results] /\ resultChan[1].result # NoResult
          /\ resultChan[1].id \in Tasks
      BY <1>0, <1>d, <2>2 DEF WaitTypeOK, CompleteInv, EveryIdAccountedFor
    <3>3. ASSUME NEW j \in DOMAIN TaskIDs
          PROVE  \/ j \in polling'
                 \/ \E k \in DOMAIN resultChan' : resultChan'[k].id = TaskIDs[j]
                 \/ results'[TaskIDs[j]] # NoResult
      <4>1. TaskIDs[j] \in Tasks
        OBVIOUS
      <4>2. CASE j \in polling
        BY <2>1, <4>2
      <4>3. ASSUME NEW k \in DOMAIN resultChan, resultChan[k].id = TaskIDs[j]
            PROVE  \/ \E n \in DOMAIN resultChan' : resultChan'[n].id = TaskIDs[j]
                   \/ results'[TaskIDs[j]] # NoResult
        <5>1. CASE k = 1
          BY <2>1, <2>2, <3>2, <4>1, <4>3, <5>1
        <5>2. CASE k # 1
          BY <2>1, <2>2, <4>3, <5>2
        <5> QED
          BY <5>1, <5>2
      <4>4. CASE results[TaskIDs[j]] # NoResult
        BY <2>1, <2>2, <3>2, <4>1, <4>4
      <4> QED
        BY <2>1, <4>2, <4>3, <4>4 DEF CompleteInv, EveryIdAccountedFor
    <3> QED
      BY <3>1, <3>3 DEF EveryIdAccountedFor
  <2> QED
    BY <1>0, <2>1, <2>3, <2>4 DEF CompleteInv, NothingBeforeCall
<1>6. CASE Return
  BY <1>0, <1>6 DEF Return, CompleteInv, NothingBeforeCall, EveryGoroutineCounted,
                    EveryIdAccountedFor
<1> QED
  BY <1>1, <1>2, <1>3, <1>4, <1>5, <1>6, WaitStepKinds
     DEF WaitNext, TaskStep, allVars, waitVars, SendableFor

(***************************************************************************)
(* For any list of ids, repeated or not, WaitForMultiple returns only when *)
(* every goroutine it started has sent, and with a result for every id.    *)
(* Nothing is assumed of the pool, its detector or the repository.         *)
(***************************************************************************)
THEOREM ReturnedComplete == WaitSpec => []ReturnedIsComplete
<1>1. WaitInit => CompleteInv
  BY DEF WaitInit, NoCall, WaitTypeOK, Results, NoResult, CompleteInv,
         NothingBeforeCall, EveryGoroutineCounted, EveryIdAccountedFor
<1>2. CompleteInv => ReturnedIsComplete
  <2> SUFFICES ASSUME CompleteInv, caller = "returned" PROVE
                 polling = {} /\ \A i \in DOMAIN TaskIDs : results[TaskIDs[i]] # NoResult
    BY DEF ReturnedIsComplete
  <2>1. /\ IsFiniteSet(polling) /\ Cardinality(polling) \in Nat
        /\ received \in Nat /\ resultChan \in Seq(Messages) /\ Len(resultChan) \in Nat
        /\ received = Len(TaskIDs)
        /\ received + Len(resultChan) + Cardinality(polling) = Len(TaskIDs)
    BY PollingFinite DEF CompleteInv, WaitTypeOK, EveryGoroutineCounted, Messages
  <2>2. Len(resultChan) = 0 /\ Cardinality(polling) = 0
    BY <2>1
  <2>3. polling = {} /\ resultChan = <<>>
    BY <2>1, <2>2, FS_EmptySet
  <2> QED
    BY <2>3 DEF CompleteInv, EveryIdAccountedFor
<1> QED
  BY <1>1, <1>2, CompleteInvNext, PTL DEF WaitSpec
=============================================================================
