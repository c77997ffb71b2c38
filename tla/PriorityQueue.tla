---------------------------- MODULE PriorityQueue ----------------------------
(***************************************************************************)
(* What a TaskQueue (interfaces.go) promises the workers: a claim takes a  *)
(* waiting task that is due, is within the limits the worker asks for, and *)
(* is preceded by no other such task, and it comes back empty only when    *)
(* there is none. Nothing is said of how the queue finds that task, and    *)
(* nothing of how a worker comes by its limits.                            *)
(***************************************************************************)
EXTENDS Integers

CONSTANTS
  Tasks,
  Weight,        \* models.TaskPriority.Weight of a task's priority
  Need,          \* RequiredCPUCores and RequiredMemoryMB of a task
  Requirements,  \* the limits workers ask for; 0 is no limit
  NoTask         \* a claim that comes back empty

VARIABLES
  waiting,  \* the tasks that can be claimed once they are due
  due,      \* the tasks whose scheduled time has passed
  created,  \* when a task entered
  asked,    \* the limits of the last claim
  answer    \* what it returned

vars == <<waiting, due, created, asked, answer>>

NoLimits == [cpu |-> 0, mem |-> 0]

Init ==
  /\ waiting = {} /\ due = {}
  /\ created = [t \in Tasks |-> 0]
  /\ asked = NoLimits
  /\ answer = NoTask

Within(need, limit) == limit = 0 \/ need <= limit

Fits(t, r) == Within(Need[t].cpu, r.cpu) /\ Within(Need[t].mem, r.mem)

Eligible(r) == {t \in waiting \cap due : Fits(t, r)}

\* By priority, then by age.
Precedes(t, u) ==
  Weight[t] < Weight[u] \/ (Weight[t] = Weight[u] /\ created[t] < created[u])

\* A task enters, as the youngest or with the age it had; its scheduled
\* time has passed, or it has not.
Enter(t) ==
  /\ waiting' = waiting \cup {t}
  /\ \/ UNCHANGED created
     \/ /\ \A u \in Tasks : created'[t] >= created[u]
        /\ created' = [created EXCEPT ![t] = created'[t]]
  /\ due' \in {due \cup {t}, due \ {t}}
  /\ UNCHANGED <<asked, answer>>

Claim(r) ==
  /\ asked' = r
  /\ \E t \in Eligible(r) :
       /\ \A u \in Eligible(r) : ~Precedes(u, t)
       /\ waiting' = waiting \ {t}
       /\ answer' = t
  /\ UNCHANGED <<due, created>>

ClaimNothing(r) ==
  /\ asked' = r
  /\ Eligible(r) = {}
  /\ answer' = NoTask
  /\ UNCHANGED <<waiting, due, created>>

BecomeDue(t) ==
  /\ due' = due \cup {t}
  /\ UNCHANGED <<waiting, created, asked, answer>>

\* A task leaves without being claimed.
Withdraw(t) ==
  /\ waiting' = waiting \ {t}
  /\ UNCHANGED <<due, created, asked, answer>>

Next ==
  \/ \E t \in Tasks : Enter(t) \/ BecomeDue(t) \/ Withdraw(t)
  \/ \E r \in Requirements : Claim(r) \/ ClaimNothing(r)

Spec == Init /\ [][Next]_vars
=============================================================================
