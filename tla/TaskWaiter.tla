----------------------------- MODULE TaskWaiter -----------------------------
(***************************************************************************)
(* The TaskWaiter interface of AdaptiveWorkerPool (worker_pool.go),        *)
(* composed with the life of the tasks: a caller in one of the processes   *)
(* calls WaitForMultiple, which starts one goroutine per requested id and  *)
(* collects what they send. Each goroutine polls the row of its task until *)
(* the status is terminal, its deadline passes or the repository fails.    *)
(* The call ends with its process.                                         *)
(***************************************************************************)
EXTENDS TaskExecution, Sequences

CONSTANTS
  TaskIDs,  \* the argument taskIDs: a list, in which an id may be repeated
  Home      \* the process the caller is in

ASSUME WaiterAssumption == TaskIDs \in Seq(Tasks) /\ Home \in Pools

VARIABLES
  caller,      \* idle, collecting results, or returned
  polling,     \* the goroutines still in WaitForCompletion, by index
  resultChan,  \* buffered: a send never blocks
  received,    \* how many results the caller has taken from the channel
  results      \* the map that is returned

waitVars == <<caller, polling, resultChan, received, results>>
allVars == <<vars, waitVars>>

\* A WaitResult: the status of Task, or nil, and Error.
Results == [task : Statuses \cup {"nil"},
            error : {"none", "failed", "dead_letter", "no_output", "timeout", "repository"}]
NoResult == [task |-> "nil", error |-> "none"]

NoCall(c, p, ch, n, m) ==
  /\ c = "idle" /\ p = {} /\ ch = <<>> /\ n = 0
  /\ m = [t \in Tasks |-> NoResult]

WaitInit == Init /\ NoCall(caller, polling, resultChan, received, results)
-----------------------------------------------------------------------------
WaitForMultiple ==
  /\ caller = "idle" /\ pool[Home] # "down"
  /\ caller' = "collecting"
  /\ polling' = DOMAIN TaskIDs
  /\ UNCHANGED <<resultChan, received, results, vars>>

\* Variant: anything but running counts.
isTerminalOrPending(s) == s \in Terminal \cup {"pending"}

isTerminalStatus(s) == s \in Terminal

\* The output of a completed task is never found: there is no store for it.
WaitForCompletionWithOutput(s) ==
  [task |-> s, error |-> IF s \in {"failed", "dead_letter"} THEN s ELSE "no_output"]

\* Goroutine i returns from its wait and sends.
Send(i, result) ==
  /\ pool[Home] # "down" /\ i \in polling
  /\ polling' = polling \ {i}
  /\ resultChan' = Append(resultChan, [id |-> TaskIDs[i], result |-> result])
  /\ UNCHANGED <<caller, received, results>>

\* One round of WaitForCompletion that ends it: the row is terminal, or there
\* is none, or the call fails. Any other round changes nothing.
WaitForCompletion(i) ==
  \/ /\ isTerminalStatus(row[TaskIDs[i]].status)
     /\ Send(i, WaitForCompletionWithOutput(row[TaskIDs[i]].status))
     /\ UNCHANGED vars
  \/ /\ row[TaskIDs[i]].status = "absent"
     /\ Send(i, [task |-> "nil", error |-> "repository"])
     /\ UNCHANGED vars
  \/ /\ RepositoryFault
     /\ Send(i, [task |-> "nil", error |-> "repository"])
     /\ UNCHANGED <<row, workerVars, processVars, stale, attempts>>

\* The deadline passes, or the caller's context is cancelled.
Timeout(i) == Send(i, [task |-> "nil", error |-> "timeout"]) /\ UNCHANGED vars

\* The later of two results for one id replaces the earlier.
Collect ==
  /\ caller = "collecting" /\ pool[Home] # "down"
  /\ received < Len(TaskIDs) /\ resultChan # <<>>
  /\ results' = [results EXCEPT ![Head(resultChan).id] = Head(resultChan).result]
  /\ resultChan' = Tail(resultChan)
  /\ received' = received + 1
  /\ UNCHANGED <<caller, polling, vars>>

\* Variant: the caller waits until the map has as many entries as were asked.
ReturnWhenMapFull ==
  /\ caller = "collecting" /\ pool[Home] # "down"
  /\ \A i, j \in DOMAIN TaskIDs : i # j => TaskIDs[i] # TaskIDs[j]
  /\ \A i \in DOMAIN TaskIDs : results[TaskIDs[i]] # NoResult
  /\ caller' = "returned"
  /\ UNCHANGED <<polling, resultChan, received, results, vars>>

\* Variant: one result too few.
ReturnOneEarly ==
  /\ caller = "collecting" /\ pool[Home] # "down"
  /\ received + 1 = Len(TaskIDs)
  /\ caller' = "returned"
  /\ UNCHANGED <<polling, resultChan, received, results, vars>>

Return ==
  /\ caller = "collecting" /\ pool[Home] # "down"
  /\ received = Len(TaskIDs)
  /\ caller' = "returned"
  /\ UNCHANGED <<polling, resultChan, received, results, vars>>

WaitStep ==
  \/ WaitForMultiple
  \/ \E i \in DOMAIN TaskIDs : WaitForCompletion(i) \/ Timeout(i)
  \/ Collect \/ Return

\* A step of the rest of the system ends the call when its process ends.
TaskStep ==
  /\ Next
  /\ IF pool'[Home] = "down" THEN NoCall(caller', polling', resultChan', received', results')
     ELSE UNCHANGED waitVars

WaitNext == TaskStep \/ WaitStep

WaitSpec == WaitInit /\ [][WaitNext]_allVars

\* Deadlines pass and the caller's goroutine runs; nothing is assumed of the
\* tasks it waits for.
WaitFairSpec ==
  /\ WaitSpec
  /\ \A i \in DOMAIN TaskIDs : WF_allVars(Timeout(i))
  /\ WF_allVars(Collect) /\ WF_allVars(Return)
-----------------------------------------------------------------------------
(* Properties. *)

\* The types of the call's own state. Proved for every list of ids, and no
\* invariant of a run.
WaitTypeOK ==
  /\ caller \in {"idle", "collecting", "returned"}
  /\ polling \subseteq DOMAIN TaskIDs
  /\ resultChan \in Seq([id : Tasks, result : Results])
  /\ received \in 0 .. Len(TaskIDs)
  /\ results \in [Tasks -> Results]

(***************************************************************************)
(* What WaitForMultiple tells its caller about a task stays true: once a   *)
(* result names a status, no retry, late write, crash or restart gives the *)
(* row another one, except that a failed task still reaches the dead       *)
(* letter queue. (With the stuck detector on, a late overwrite breaks it.) *)
(***************************************************************************)
ReportedOutcomeStands ==
  \A t \in Tasks : results[t].task # "nil" =>
    \/ row[t].status = results[t].task
    \/ results[t].task = "failed" /\ row[t].status = "dead_letter"

(***************************************************************************)
(* When WaitForMultiple has returned, its map has a result for every id it *)
(* was asked for, in whichever order the goroutines sent theirs: counting  *)
(* the results is enough although an id may be asked for twice, and no     *)
(* goroutine is left that still has to send.                               *)
(***************************************************************************)
ReturnedIsComplete ==
  caller = "returned" =>
    polling = {} /\ \A i \in DOMAIN TaskIDs : results[TaskIDs[i]] # NoResult

(***************************************************************************)
(* WaitForMultiple returns, with a result for every id it was asked for,   *)
(* also when an id is repeated, the rows are never finished, or calls of   *)
(* the repository fail; only the end of its process prevents it.           *)
(***************************************************************************)
WaitMultipleReturns ==
  caller = "collecting" ~>
    \/ pool[Home] = "down"
    \/ caller = "returned" /\ \A i \in DOMAIN TaskIDs : results[TaskIDs[i]] # NoResult
=============================================================================
