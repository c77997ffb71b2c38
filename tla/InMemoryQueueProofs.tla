------------------------ MODULE InMemoryQueueProofs ------------------------
(***************************************************************************)
(* Proofs about the in-memory queue, for any number of tasks, entries and  *)
(* workers: that the double loop of sortQueue sorts, that the list and the *)
(* map agree on what is pending, and that the queue implements             *)
(* PriorityQueue, step by step.                                            *)
(*                                                                         *)
(* What a loop computes is shown by induction on its counter. The          *)
(* induction principle is stated for sets (SetInduction), from the fact    *)
(* that less-than is well founded on the naturals: a set is something the  *)
(* provers can be handed, a predicate is not.                              *)
(***************************************************************************)
EXTENDS InMemoryQueue, SequenceTheorems, WellFoundedInduction, TLAPS
-----------------------------------------------------------------------------
(* Induction. *)

\* A set of naturals that is not empty has a least element.
LEMMA LeastElement ==
  ASSUME NEW S, S \subseteq Nat, S # {}
  PROVE  \E n \in S : \A m \in S : n <= m
<1>1. PICK R : R = OpToRel(<, Nat)
  OBVIOUS
<1>2. IsWellFoundedOn(R, Nat)
  BY <1>1, NatLessThanWellFounded
<1>3. \A i, j \in Nat : <<i, j>> \in R <=> i < j
  BY <1>1 DEF OpToRel
<1>4. PICK n \in S : \A m \in S : ~(<<m, n>> \in R)
  BY <1>2, WFMin
<1>5. \A m \in S : n <= m
  <2> TAKE m \in S
  <2>1. ~(m < n)
    BY <1>3, <1>4
  <2> QED
    BY <2>1
<1> QED
  BY <1>5

\* A set that has 0 and, with every natural, the next one, has them all.
LEMMA SetInduction ==
  ASSUME NEW S, 0 \in S, \A n \in Nat : n \in S => n + 1 \in S
  PROVE  Nat \subseteq S
<1> SUFFICES ASSUME Nat \ S # {}
             PROVE  FALSE
  OBVIOUS
<1>1. PICK n \in Nat \ S : \A m \in Nat \ S : n <= m
  BY LeastElement
<1>2. n - 1 \in Nat
  BY <1>1
<1> QED
  BY <1>1, <1>2
-----------------------------------------------------------------------------
(* sortQueue sorts. *)

Ages == [Tasks -> Nat]

\* A list and the function it is are the same thing.
LEMMA ListIsFunction ==
  /\ \A s \in Seq(Tasks) : s \in [1 .. Len(s) -> Tasks] /\ Len(s) \in Nat
  /\ \A n \in Nat : \A s \in [1 .. n -> Tasks] : s \in Seq(Tasks) /\ Len(s) = n
  OBVIOUS

\* shouldSwap is a strict order in which what is not ordered is equal.
LEMMA ShouldSwapOrders ==
  ASSUME NEW age \in Ages, NEW a \in Tasks, NEW b \in Tasks, NEW c \in Tasks
  PROVE  /\ ~shouldSwap(age, a, a)
         /\ shouldSwap(age, a, b) => ~shouldSwap(age, b, a)
         /\ ~shouldSwap(age, a, b) /\ ~shouldSwap(age, b, c) => ~shouldSwap(age, a, c)
  BY QueueAssumption DEF shouldSwap, Ages

\* s is q in another order.
Arranged(q, s) ==
  \E p \in Bijection(DOMAIN q, DOMAIN q) : s = [i \in DOMAIN q |-> q[p[i]]]

\* No later entry of s belongs before one of its first i.
SortedUpTo(age, s, i) ==
  \A a, b \in DOMAIN s : a <= i /\ a < b => ~shouldSwap(age, s[a], s[b])

\* An exchange rearranges the list.
LEMMA SwapArranges ==
  ASSUME NEW n \in Nat, NEW q \in [1 .. n -> Tasks], NEW s, Arranged(q, s),
         NEW i \in 1 .. n, NEW j \in 1 .. n
  PROVE  Arranged(q, Swapped(s, i, j))
<1>1. PICK p \in Bijection(1 .. n, 1 .. n) : s = [k \in 1 .. n |-> q[p[k]]]
  BY DEF Arranged
<1>2. PICK r : r = [p EXCEPT ![i] = p[j], ![j] = p[i]]
  OBVIOUS
<1>3. p \in [1 .. n -> 1 .. n]
  BY <1>1 DEF Bijection, Injection, Surjection
<1>4. r \in [1 .. n -> 1 .. n]
  BY <1>2, <1>3
<1>5. \A a, b \in 1 .. n : r[a] = r[b] => a = b
  <2>1. \A a, b \in 1 .. n : p[a] = p[b] => a = b
    BY <1>1, <1>3 DEF Bijection, Injection, IsInjective
  <2> QED
    BY <1>2, <1>3, <2>1
<1>6. \A b \in 1 .. n : \E a \in 1 .. n : r[a] = b
  <2> TAKE b \in 1 .. n
  <2>1. PICK a \in 1 .. n : p[a] = b
    BY <1>1 DEF Bijection, Surjection
  <2>2. PICK a2 \in 1 .. n : a2 = IF a = i THEN j ELSE IF a = j THEN i ELSE a
    OBVIOUS
  <2>3. r[a2] = b
    BY <1>2, <1>3, <2>1, <2>2
  <2> QED
    BY <2>3
<1>7. r \in Bijection(1 .. n, 1 .. n)
  BY <1>4, <1>5, <1>6 DEF Bijection, Injection, Surjection, IsInjective
<1>8. Swapped(s, i, j) = [k \in 1 .. n |-> q[r[k]]]
  BY <1>1, <1>2, <1>3, <1>4 DEF Swapped
<1> QED
  BY <1>7, <1>8 DEF Arranged

\* The functions of the two loops.
InnerSteps(age, q, i) ==
  CHOOSE at : at = [j \in 0 .. Len(q) |-> IF j = 0 THEN q ELSE Exchange(age, at[j - 1], i, j)]
OuterSteps(age, q) ==
  CHOOSE at : at = [i \in 0 .. Len(q) |-> IF i = 0 THEN q ELSE InnerLoop(age, at[i - 1], i)]

\* The recursion of the inner loop defines a function.
LEMMA InnerStepsDefined ==
  ASSUME NEW age, NEW q \in Seq(Tasks), NEW i
  PROVE  /\ InnerLoop(age, q, i) = InnerSteps(age, q, i)[Len(q)]
         /\ InnerSteps(age, q, i)[0] = q
         /\ \A j \in 1 .. Len(q) :
              InnerSteps(age, q, i)[j] = Exchange(age, InnerSteps(age, q, i)[j - 1], i, j)
<1> DEFINE E(f, m) == [j \in 0 .. m |-> IF j = 0 THEN q ELSE Exchange(age, f[j - 1], i, j)]
           S == {m \in Nat : \E f : f = E(f, m)}
<1>1. 0 \in S
  <2>1. PICK f : f = [j \in 0 .. 0 |-> q]
    OBVIOUS
  <2>2. f = E(f, 0)
    BY <2>1
  <2> QED
    BY <2>2
<1>2. ASSUME NEW m \in Nat, m \in S
      PROVE  m + 1 \in S
  <2>1. PICK f : f = E(f, m)
    BY <1>2
  <2>2. PICK g : g = [j \in 0 .. m + 1 |-> IF j <= m THEN f[j] ELSE Exchange(age, f[m], i, m + 1)]
    OBVIOUS
  <2>3. g = E(g, m + 1)
    BY <2>1, <2>2
  <2> QED
    BY <2>3
<1>3. \E f : f = E(f, Len(q))
  <2> HIDE DEF S
  <2>1. Nat \subseteq S
    BY <1>1, <1>2, SetInduction
  <2>2. Len(q) \in S
    BY <2>1
  <2> QED
    BY <2>2 DEF S
<1>4. InnerSteps(age, q, i) = CHOOSE f : f = E(f, Len(q))
  BY DEF InnerSteps
<1> HIDE DEF E
<1>5. InnerSteps(age, q, i) = E(InnerSteps(age, q, i), Len(q))
  BY <1>3, <1>4
<1>6. InnerLoop(age, q, i) = InnerSteps(age, q, i)[Len(q)]
  BY DEF InnerLoop, InnerSteps
<1>7. PICK f : f = InnerSteps(age, q, i)
  OBVIOUS
<1>8. f[0] = q /\ \A j \in 1 .. Len(q) : f[j] = Exchange(age, f[j - 1], i, j)
  <2>1. PICK g : g = E(f, Len(q))
    OBVIOUS
  <2>2. g[0] = q /\ \A j \in 1 .. Len(q) : g[j] = Exchange(age, f[j - 1], i, j)
    BY <2>1 DEF E
  <2>3. f = g
    BY <1>5, <1>7, <2>1
  <2> QED
    BY <2>2, <2>3
<1> QED
  BY <1>6, <1>7, <1>8

\* The recursion of the outer loop defines a function.
LEMMA OuterStepsDefined ==
  ASSUME NEW age, NEW q \in Seq(Tasks)
  PROVE  /\ sortQueue(age, q) = OuterSteps(age, q)[Len(q)]
         /\ OuterSteps(age, q)[0] = q
         /\ \A i \in 1 .. Len(q) :
              OuterSteps(age, q)[i] = InnerLoop(age, OuterSteps(age, q)[i - 1], i)
<1> DEFINE E(f, m) == [i \in 0 .. m |-> IF i = 0 THEN q ELSE InnerLoop(age, f[i - 1], i)]
           S == {m \in Nat : \E f : f = E(f, m)}
<1>1. 0 \in S
  <2>1. PICK f : f = [i \in 0 .. 0 |-> q]
    OBVIOUS
  <2>2. f = E(f, 0)
    BY <2>1
  <2> QED
    BY <2>2
<1>2. ASSUME NEW m \in Nat, m \in S
      PROVE  m + 1 \in S
  <2>1. PICK f : f = E(f, m)
    BY <1>2
  <2>2. PICK g : g = [i \in 0 .. m + 1 |-> IF i <= m THEN f[i] ELSE InnerLoop(age, f[m], m + 1)]
    OBVIOUS
  <2>3. g = E(g, m + 1)
    BY <2>1, <2>2
  <2> QED
    BY <2>3
<1>3. \E f : f = E(f, Len(q))
  <2> HIDE DEF S
  <2>1. Nat \subseteq S
    BY <1>1, <1>2, SetInduction
  <2>2. Len(q) \in S
    BY <2>1
  <2> QED
    BY <2>2 DEF S
<1>4. OuterSteps(age, q) = CHOOSE f : f = E(f, Len(q))
  BY DEF OuterSteps
<1> HIDE DEF E
<1>5. OuterSteps(age, q) = E(OuterSteps(age, q), Len(q))
  BY <1>3, <1>4
<1>6. sortQueue(age, q) = OuterSteps(age, q)[Len(q)]
  BY DEF sortQueue, OuterSteps
<1>7. PICK f : f = OuterSteps(age, q)
  OBVIOUS
<1>8. f[0] = q /\ \A i \in 1 .. Len(q) : f[i] = InnerLoop(age, f[i - 1], i)
  <2>1. PICK g : g = E(f, Len(q))
    OBVIOUS
  <2>2. g[0] = q /\ \A i \in 1 .. Len(q) : g[i] = InnerLoop(age, f[i - 1], i)
    BY <2>1 DEF E
  <2>3. f = g
    BY <1>5, <1>7, <2>1
  <2> QED
    BY <2>2, <2>3
<1> QED
  BY <1>6, <1>7, <1>8

\* One step of the inner loop: the first i - 1 entries stay in place, and no
\* entry the loop has passed belongs before the i-th.
LEMMA ExchangeSorts ==
  ASSUME NEW age \in Ages, NEW n \in Nat, NEW s \in [1 .. n -> Tasks],
         NEW i \in 1 .. n, NEW j \in 1 .. n,
         SortedUpTo(age, s, i - 1),
         \A b \in i + 1 .. j - 1 : ~shouldSwap(age, s[i], s[b])
  PROVE  /\ Exchange(age, s, i, j) \in [1 .. n -> Tasks]
         /\ SortedUpTo(age, Exchange(age, s, i, j), i - 1)
         /\ \A b \in i + 1 .. j :
              ~shouldSwap(age, Exchange(age, s, i, j)[i], Exchange(age, s, i, j)[b])
<1>1. CASE i < j /\ shouldSwap(age, s[i], s[j])
  <2>1. PICK r : r = Exchange(age, s, i, j)
    OBVIOUS
  <2>2. /\ r \in [1 .. n -> Tasks]
        /\ \A k \in 1 .. n : r[k] = IF k = j THEN s[i] ELSE IF k = i THEN s[j] ELSE s[k]
    <3>1. r = Swapped(s, i, j)
      BY <1>1, <2>1 DEF Exchange
    <3> QED
      BY <3>1 DEF Swapped
  <2>3. SortedUpTo(age, r, i - 1)
    <3> SUFFICES ASSUME NEW a \in 1 .. n, NEW b \in 1 .. n, a <= i - 1, a < b
                 PROVE  ~shouldSwap(age, r[a], r[b])
      BY <2>2 DEF SortedUpTo
    <3>1. \A c \in 1 .. n : a < c => ~shouldSwap(age, s[a], s[c])
      BY DEF SortedUpTo
    <3>2. r[a] = s[a]
      BY <1>1, <2>2
    <3>3. PICK c \in 1 .. n : a < c /\ r[b] = s[c]
      BY <1>1, <2>2
    <3> QED
      BY <3>1, <3>2, <3>3
  <2>4. \A b \in i + 1 .. j : ~shouldSwap(age, r[i], r[b])
    <3> TAKE b \in i + 1 .. j
    <3>1. r[i] = s[j] /\ r[j] = s[i] /\ s[i] \in Tasks /\ s[j] \in Tasks
      BY <1>1, <2>2
    <3>2. ~shouldSwap(age, s[j], s[i])
      BY <1>1, <3>1, ShouldSwapOrders
    <3>3. CASE b = j
      BY <3>1, <3>2, <3>3
    <3>4. CASE b # j
      <4>1. b \in i + 1 .. j - 1 /\ b \in 1 .. n
        BY <3>4
      <4>2. r[b] = s[b] /\ s[b] \in Tasks
        BY <2>2, <3>4, <4>1
      <4>3. ~shouldSwap(age, s[i], s[b])
        BY <4>1
      <4> QED
        BY <3>1, <3>2, <4>2, <4>3, ShouldSwapOrders
    <3> QED
      BY <3>3, <3>4
  <2> QED
    BY <2>1, <2>2, <2>3, <2>4
<1>2. CASE ~(i < j /\ shouldSwap(age, s[i], s[j]))
  <2>1. Exchange(age, s, i, j) = s
    BY <1>2 DEF Exchange
  <2>2. \A b \in i + 1 .. j : ~shouldSwap(age, s[i], s[b])
    <3> TAKE b \in i + 1 .. j
    <3>1. b = j \/ b \in i + 1 .. j - 1
      OBVIOUS
    <3> QED
      BY <1>2, <3>1
  <2> QED
    BY <2>1, <2>2
<1> QED
  BY <1>1, <1>2

\* The inner loop of step i brings the entry that belongs there to place i.
LEMMA InnerLoopSorts ==
  ASSUME NEW age \in Ages, NEW q \in Seq(Tasks), NEW s \in [1 .. Len(q) -> Tasks],
         Arranged(q, s), NEW i \in 1 .. Len(q), SortedUpTo(age, s, i - 1)
  PROVE  /\ InnerLoop(age, s, i) \in [1 .. Len(q) -> Tasks]
         /\ Arranged(q, InnerLoop(age, s, i))
         /\ SortedUpTo(age, InnerLoop(age, s, i), i)
<1>1. PICK n \in Nat : n = Len(q)
  OBVIOUS
<1>2. q \in [1 .. n -> Tasks] /\ s \in Seq(Tasks) /\ Len(s) = n
  BY <1>1, ListIsFunction
<1>3. PICK at : at = InnerSteps(age, s, i)
  OBVIOUS
<1>4. /\ InnerLoop(age, s, i) = at[n]
      /\ at[0] = s
      /\ \A j \in 1 .. n : at[j] = Exchange(age, at[j - 1], i, j)
  BY <1>2, <1>3, InnerStepsDefined
<1> DEFINE P(j) == /\ at[j] \in [1 .. n -> Tasks]
                   /\ Arranged(q, at[j])
                   /\ SortedUpTo(age, at[j], i - 1)
                   /\ \A b \in i + 1 .. j : ~shouldSwap(age, at[j][i], at[j][b])
           S == {j \in Nat : j <= n => P(j)}
<1>5. 0 \in S
  <2>1. at[0] = s
    BY <1>4
  <2>2. i + 1 .. 0 = {}
    OBVIOUS
  <2> QED
    BY <1>1, <2>1, <2>2
<1>6. ASSUME NEW j \in Nat, j \in S
      PROVE  j + 1 \in S
  <2> HIDE DEF P
  <2> SUFFICES ASSUME j + 1 <= n
               PROVE  P(j + 1)
    OBVIOUS
  <2>1. P(j)
    BY <1>6
  <2>2. PICK r, k : r = at[j] /\ k = j + 1
    OBVIOUS
  <2>3. at[k] = Exchange(age, r, i, k)
    BY <1>4, <2>2
  <2>4. k \in 1 .. n /\ i \in 1 .. n /\ k - 1 = j
    BY <1>1, <2>2
  <2>5. /\ r \in [1 .. n -> Tasks]
        /\ Arranged(q, r)
        /\ SortedUpTo(age, r, i - 1)
        /\ \A b \in i + 1 .. k - 1 : ~shouldSwap(age, r[i], r[b])
    BY <2>1, <2>2, <2>4 DEF P
  <2>6. Arranged(q, Exchange(age, r, i, k))
    <3>1. Arranged(q, Swapped(r, i, k))
      BY <1>2, <2>4, <2>5, SwapArranges
    <3> QED
      BY <2>5, <3>1 DEF Exchange
  <2>7. /\ Exchange(age, r, i, k) \in [1 .. n -> Tasks]
        /\ SortedUpTo(age, Exchange(age, r, i, k), i - 1)
        /\ \A b \in i + 1 .. k :
             ~shouldSwap(age, Exchange(age, r, i, k)[i], Exchange(age, r, i, k)[b])
    BY <2>4, <2>5, ExchangeSorts
  <2>8. P(k)
    BY <2>3, <2>6, <2>7 DEF P
  <2> QED
    BY <2>2, <2>8
<1>7. P(n)
  <2> HIDE DEF S
  <2>1. Nat \subseteq S
    BY <1>5, <1>6, SetInduction
  <2> HIDE DEF P
  <2>2. n \in S
    BY <2>1
  <2> QED
    BY <2>2 DEF S
<1>8. SortedUpTo(age, at[n], i)
  <2> SUFFICES ASSUME NEW a \in 1 .. n, NEW b \in 1 .. n, a <= i, a < b
               PROVE  ~shouldSwap(age, at[n][a], at[n][b])
    BY <1>7 DEF SortedUpTo
  <2>1. CASE a <= i - 1
    BY <1>7, <2>1 DEF SortedUpTo
  <2>2. CASE a = i
    <3>1. b \in i + 1 .. n
      BY <2>2
    <3>2. ~shouldSwap(age, at[n][i], at[n][b])
      BY <1>7, <3>1
    <3> QED
      BY <2>2, <3>2
  <2> QED
    BY <2>1, <2>2
<1> QED
  BY <1>1, <1>4, <1>7, <1>8

(***************************************************************************)
(* sortQueue, for a list of any length, with tasks that occur several      *)
(* times and tasks of one age: its result has the same entries in another  *)
(* order, and no entry should be swapped with a later one.                 *)
(***************************************************************************)
THEOREM SortQueueSorts ==
  ASSUME NEW age \in Ages, NEW q \in Seq(Tasks)
  PROVE  /\ sortQueue(age, q) \in Seq(Tasks)
         /\ Arranged(q, sortQueue(age, q))
         /\ \A i, j \in DOMAIN sortQueue(age, q) :
              i < j => ~shouldSwap(age, sortQueue(age, q)[i], sortQueue(age, q)[j])
<1>1. PICK n \in Nat : n = Len(q)
  OBVIOUS
<1>2. q \in [1 .. n -> Tasks]
  BY <1>1, ListIsFunction
<1>3. PICK at : at = OuterSteps(age, q)
  OBVIOUS
<1>4. /\ sortQueue(age, q) = at[n]
      /\ at[0] = q
      /\ \A i \in 1 .. n : at[i] = InnerLoop(age, at[i - 1], i)
  BY <1>1, <1>3, OuterStepsDefined
<1> DEFINE P(i) == /\ at[i] \in [1 .. n -> Tasks]
                   /\ Arranged(q, at[i])
                   /\ SortedUpTo(age, at[i], i)
           S == {i \in Nat : i <= n => P(i)}
<1>5. 0 \in S
  <2>1. at[0] = q
    BY <1>4
  <2>2. SortedUpTo(age, q, 0)
    BY <1>2 DEF SortedUpTo
  <2>3. Arranged(q, q)
    <3>1. PICK p : p = [i \in 1 .. n |-> i]
      OBVIOUS
    <3>2. p \in Bijection(1 .. n, 1 .. n)
      BY <3>1 DEF Bijection, Injection, Surjection, IsInjective
    <3>3. q = [i \in 1 .. n |-> q[p[i]]]
      BY <1>2, <3>1
    <3> QED
      BY <1>2, <3>2, <3>3 DEF Arranged
  <2> QED
    BY <1>2, <2>1, <2>2, <2>3
<1>6. ASSUME NEW i \in Nat, i \in S
      PROVE  i + 1 \in S
  <2> HIDE DEF P
  <2> SUFFICES ASSUME i + 1 <= n
               PROVE  P(i + 1)
    OBVIOUS
  <2>1. P(i)
    BY <1>6
  <2>2. PICK r, k : r = at[i] /\ k = i + 1
    OBVIOUS
  <2>3. at[k] = InnerLoop(age, r, k)
    BY <1>4, <2>2
  <2>4. k \in 1 .. Len(q) /\ k - 1 = i
    BY <1>1, <2>2
  <2>5. r \in [1 .. Len(q) -> Tasks] /\ Arranged(q, r) /\ SortedUpTo(age, r, k - 1)
    BY <1>1, <2>1, <2>2, <2>4 DEF P
  <2>6. /\ InnerLoop(age, r, k) \in [1 .. n -> Tasks]
        /\ Arranged(q, InnerLoop(age, r, k))
        /\ SortedUpTo(age, InnerLoop(age, r, k), k)
    BY <1>1, <2>4, <2>5, InnerLoopSorts
  <2>7. P(k)
    BY <2>3, <2>6 DEF P
  <2> QED
    BY <2>2, <2>7
<1>7. P(n)
  <2> HIDE DEF S
  <2>1. Nat \subseteq S
    BY <1>5, <1>6, SetInduction
  <2> HIDE DEF P
  <2>2. n \in S
    BY <2>1
  <2> QED
    BY <2>2 DEF S
<1>8. at[n] \in Seq(Tasks)
  BY <1>7, ListIsFunction
<1>9. \A i, j \in DOMAIN at[n] : i < j => ~shouldSwap(age, at[n][i], at[n][j])
  BY <1>7 DEF SortedUpTo
<1> QED
  BY <1>4, <1>7, <1>8, <1>9
-----------------------------------------------------------------------------
(* The state. *)

\* The statuses a task has in the map.
Statuses == {"absent", "pending", "running", "completed", "failed", "dead_letter"}

TypeInv ==
  /\ status \in [Tasks -> Statuses]
  /\ due \subseteq Tasks
  /\ created \in Ages
  /\ clock \in Nat
  /\ queue \in Seq(Tasks)

\* No task was created in the future.
CreatedByNow == \A t \in Tasks : created[t] <= clock

\* Every pending task has an entry.
PendingHasEntry ==
  \A t \in Tasks : status[t] = "pending" => \E i \in DOMAIN queue : queue[i] = t

QueueInv == TypeInv /\ CreatedByNow /\ PendingHasEntry /\ QueueIsSorted

\* A list in another order has the same tasks.
LEMMA ArrangedRange ==
  ASSUME NEW q, NEW s, Arranged(q, s)
  PROVE  Range(s) = Range(q)
<1>1. PICK p \in Bijection(DOMAIN q, DOMAIN q) : s = [i \in DOMAIN q |-> q[p[i]]]
  BY DEF Arranged
<1>2. /\ \A i \in DOMAIN q : p[i] \in DOMAIN q
      /\ \A j \in DOMAIN q : \E i \in DOMAIN q : p[i] = j
  BY <1>1 DEF Bijection, Injection, Surjection
<1>3. DOMAIN s = DOMAIN q /\ \A i \in DOMAIN q : s[i] = q[p[i]]
  BY <1>1
<1> QED
  BY <1>2, <1>3 DEF Range

\* Appending a task adds it to the tasks of the list.
LEMMA AppendRange ==
  ASSUME NEW q \in Seq(Tasks), NEW t \in Tasks
  PROVE  Append(q, t) \in Seq(Tasks) /\ Range(Append(q, t)) = Range(q) \cup {t}
<1>1. PICK l : l = Append(q, t)
  OBVIOUS
<1>2. /\ l \in Seq(Tasks)
      /\ Len(l) = Len(q) + 1
      /\ \A i \in 1 .. Len(q) : l[i] = q[i]
      /\ l[Len(q) + 1] = t
  BY <1>1, AppendProperties
<1>3. DOMAIN l = 1 .. Len(q) + 1 /\ DOMAIN q = 1 .. Len(q) /\ Len(q) \in Nat
  BY <1>2, LenProperties
<1>4. 1 .. Len(q) + 1 = 1 .. Len(q) \cup {Len(q) + 1}
  BY <1>3
<1> QED
  BY <1>1, <1>2, <1>3, <1>4 DEF Range

\* r is the list q with t in its place.
Inserted(age, q, t, r) ==
  /\ r \in Seq(Tasks)
  /\ Range(r) = Range(q) \cup {t}
  /\ \A i, j \in DOMAIN r : i < j => ~shouldSwap(age, r[i], r[j])

\* What appending a task to the list and sorting it does.
LEMMA InsertSorts ==
  ASSUME NEW age \in Ages, NEW q \in Seq(Tasks), NEW t \in Tasks,
         NEW r, r = sortQueue(age, Append(q, t))
  PROVE  Inserted(age, q, t, r)
<1>1. PICK l \in Seq(Tasks) : l = Append(q, t) /\ Range(l) = Range(q) \cup {t}
  BY AppendRange
<1>2. /\ r \in Seq(Tasks)
      /\ Arranged(l, r)
      /\ \A i, j \in DOMAIN r : i < j => ~shouldSwap(age, r[i], r[j])
  BY <1>1, SortQueueSorts
<1>3. Range(r) = Range(l)
  BY <1>2, ArrangedRange
<1> QED
  BY <1>1, <1>2, <1>3 DEF Inserted

\* What taking an entry out leaves.
LEMMA WithoutEntry ==
  ASSUME NEW q \in Seq(Tasks), NEW i \in DOMAIN q, NEW r, r = Without(q, i)
  PROVE  /\ r \in Seq(Tasks)
         /\ Len(r) = Len(q) - 1
         /\ \A k \in 1 .. Len(q) - 1 : r[k] = IF k < i THEN q[k] ELSE q[k + 1]
<1>1. PICK a, b : a = SubSeq(q, 1, i - 1) /\ b = SubSeq(q, i + 1, Len(q))
  OBVIOUS
<1>2. PICK n \in Nat : n = Len(q)
  BY LenProperties
<1>3. i \in 1 .. n /\ \A k \in 1 .. n : q[k] \in Tasks
  BY <1>2, LenProperties, ElementOfSeq
<1>4. a \in Seq(Tasks) /\ Len(a) = i - 1 /\ \A k \in 1 .. i - 1 : a[k] = q[k]
  <2>1. \A k \in 1 .. i - 1 : q[k] \in Tasks
    BY <1>3
  <2>2. 1 \in Int /\ i - 1 \in Int
    BY <1>3
  <2>3. /\ a \in Seq(Tasks)
        /\ Len(a) = IF 1 <= i - 1 THEN (i - 1) - 1 + 1 ELSE 0
        /\ \A k \in 1 .. (i - 1) - 1 + 1 : a[k] = q[1 + k - 1]
    BY <1>1, <2>1, <2>2, SubSeqProperties
  <2> QED
    BY <1>3, <2>3
<1>5. b \in Seq(Tasks) /\ Len(b) = n - i /\ \A k \in 1 .. n - i : b[k] = q[i + k]
  <2>1. \A k \in i + 1 .. n : q[k] \in Tasks
    BY <1>3
  <2>2. i + 1 \in Int /\ n \in Int
    BY <1>3
  <2>3. /\ b \in Seq(Tasks)
        /\ Len(b) = IF i + 1 <= n THEN n - (i + 1) + 1 ELSE 0
        /\ \A k \in 1 .. n - (i + 1) + 1 : b[k] = q[(i + 1) + k - 1]
    BY <1>1, <1>2, <2>1, <2>2, SubSeqProperties
  <2> QED
    BY <1>3, <2>3
<1>6. /\ r \in Seq(Tasks)
      /\ Len(r) = Len(a) + Len(b)
      /\ \A k \in 1 .. Len(a) + Len(b) : r[k] = IF k <= Len(a) THEN a[k] ELSE b[k - Len(a)]
  <2>1. r = a \o b
    BY <1>1 DEF Without
  <2>2. a \in Seq(Tasks) /\ b \in Seq(Tasks)
    BY <1>4, <1>5
  <2>3. a \o b \in Seq(Tasks) /\ Len(a \o b) = Len(a) + Len(b)
    BY <2>2, ConcatProperties
  <2>4. \A k \in 1 .. Len(a) + Len(b) : (a \o b)[k] = IF k <= Len(a) THEN a[k] ELSE b[k - Len(a)]
    BY <2>2, ConcatProperties
  <2> QED
    BY <2>1, <2>3, <2>4
<1>7. ASSUME NEW k \in 1 .. n - 1
      PROVE  r[k] = IF k < i THEN q[k] ELSE q[k + 1]
  <2>1. CASE k < i
    <3>1. k \in 1 .. i - 1 /\ k \in 1 .. Len(a) + Len(b) /\ k <= Len(a)
      BY <1>3, <1>4, <1>5, <2>1
    <3> QED
      BY <1>4, <1>6, <2>1, <3>1
  <2>2. CASE ~(k < i)
    <3>1. k - (i - 1) \in 1 .. n - i /\ i + (k - (i - 1)) = k + 1
      BY <1>3, <2>2
    <3>2. k \in 1 .. Len(a) + Len(b) /\ ~(k <= Len(a)) /\ k - Len(a) = k - (i - 1)
      BY <1>3, <1>4, <1>5, <2>2
    <3>3. r[k] = b[k - (i - 1)]
      BY <1>6, <3>2
    <3> QED
      BY <1>5, <2>2, <3>1, <3>3
  <2> QED
    BY <2>1, <2>2
<1> QED
  BY <1>2, <1>3, <1>4, <1>5, <1>6, <1>7

\* A claim asks for a whole number of units per worker.
LEMMA Share ==
  ASSUME NEW have \in Nat, NEW w \in Nat, w > 0, NEW need \in Nat
  PROVE  /\ have \div w \in Nat
         /\ need <= have \div w <=> need * w <= have
<1>1. PICK d : d = have \div w
  OBVIOUS
<1>2. d \in Nat /\ d * w <= have /\ have < (d + 1) * w
  BY <1>1
<1>3. ASSUME need <= d PROVE need * w <= have
  BY <1>2, <1>3
<1>4. ASSUME need > d PROVE need * w > have
  BY <1>2, <1>4
<1> QED
  BY <1>1, <1>2, <1>3, <1>4

\* The tasks of the first m entries of q that are pending.
PendingIn(st, q, m) == {t \in Tasks : st[t] = "pending" /\ \E k \in 1 .. m : q[k] = t}

\* One step of Peek's loop.
PeekStep(st, q, count, s, i) ==
  IF i <= count /\ st[q[i]] = "pending" THEN Append(s, q[i]) ELSE s

PeekSteps(st, q, count) ==
  CHOOSE f : f = [i \in 0 .. Len(q) |->
                    IF i = 0 THEN <<>> ELSE PeekStep(st, q, count, f[i - 1], i)]

\* The recursion of Peek defines a function.
LEMMA PeekStepsDefined ==
  ASSUME NEW st, NEW q \in Seq(Tasks), NEW count, NEW p, p = PeekSteps(st, q, count)
  PROVE  /\ p[0] = <<>>
         /\ \A i \in 1 .. Len(q) : p[i] = PeekStep(st, q, count, p[i - 1], i)
<1> DEFINE E(f, m) == [i \in 0 .. m |->
                         IF i = 0 THEN <<>> ELSE PeekStep(st, q, count, f[i - 1], i)]
           S == {m \in Nat : \E f : f = E(f, m)}
<1>1. 0 \in S
  <2>1. PICK f : f = [i \in 0 .. 0 |-> <<>>]
    OBVIOUS
  <2>2. f = E(f, 0)
    BY <2>1
  <2> QED
    BY <2>2
<1>2. ASSUME NEW m \in Nat, m \in S
      PROVE  m + 1 \in S
  <2>1. PICK f : f = E(f, m)
    BY <1>2
  <2>2. PICK g : g = [i \in 0 .. m + 1 |->
                        IF i <= m THEN f[i] ELSE PeekStep(st, q, count, f[m], m + 1)]
    OBVIOUS
  <2>3. g = E(g, m + 1)
    BY <2>1, <2>2
  <2> QED
    BY <2>3
<1>3. \E f : f = E(f, Len(q))
  <2> HIDE DEF S
  <2>1. Nat \subseteq S
    BY <1>1, <1>2, SetInduction
  <2>2. Len(q) \in S
    BY <2>1
  <2> QED
    BY <2>2 DEF S
<1>4. p = CHOOSE f : f = E(f, Len(q))
  BY DEF PeekSteps
<1> HIDE DEF E
<1>5. p = E(p, Len(q))
  BY <1>3, <1>4
<1>6. PICK g : g = E(p, Len(q))
  OBVIOUS
<1>7. g[0] = <<>> /\ \A i \in 1 .. Len(q) : g[i] = PeekStep(st, q, count, p[i - 1], i)
  BY <1>6 DEF E
<1> QED
  BY <1>5, <1>6, <1>7

\* Peek, asked for the whole list, shows the pending tasks that have an entry.
LEMMA PeekShows ==
  ASSUME queue \in Seq(Tasks)
  PROVE  Range(Peek(Len(queue))) = PendingIn(status, queue, Len(queue))
<1>1. PICK q \in Seq(Tasks) : q = queue
  OBVIOUS
<1>2. PICK st, n : st = status /\ n = Len(q)
  OBVIOUS
<1>3. PICK p : p = PeekSteps(st, q, n)
  OBVIOUS
<1>4. n \in Nat
  BY <1>2
<1>5. /\ p[0] = <<>>
      /\ \A i \in 1 .. n :
           p[i] = IF st[q[i]] = "pending" THEN Append(p[i - 1], q[i]) ELSE p[i - 1]
  <2>1. p[0] = <<>> /\ \A i \in 1 .. n : p[i] = PeekStep(st, q, n, p[i - 1], i)
    BY <1>2, <1>3, PeekStepsDefined
  <2> QED
    BY <1>4, <2>1 DEF PeekStep
<1> DEFINE P(m) == p[m] \in Seq(Tasks) /\ Range(p[m]) = PendingIn(st, q, m)
           S == {m \in Nat : m <= n => P(m)}
<1>6. 0 \in S
  <2>1. Range(<<>>) = {} /\ PendingIn(st, q, 0) = {}
    BY DEF Range, PendingIn
  <2>2. <<>> \in Seq(Tasks)
    OBVIOUS
  <2>3. P(0)
    BY <1>5, <2>1, <2>2
  <2> HIDE DEF P
  <2> QED
    BY <2>3
<1>7. ASSUME NEW m \in Nat, m \in S
      PROVE  m + 1 \in S
  <2> HIDE DEF P
  <2> SUFFICES ASSUME m + 1 <= n
               PROVE  P(m + 1)
    OBVIOUS
  <2>1. PICK k, s : k = m + 1 /\ s = p[m]
    OBVIOUS
  <2>2. s \in Seq(Tasks) /\ Range(s) = PendingIn(st, q, m)
    <3>1. P(m)
      BY <1>4, <1>7
    <3> QED
      BY <2>1, <3>1 DEF P
  <2>3. k \in 1 .. n /\ k - 1 = m /\ q[k] \in Tasks
    BY <1>2, <2>1
  <2>4. p[k] = IF st[q[k]] = "pending" THEN Append(s, q[k]) ELSE s
    BY <1>5, <2>1, <2>3
  <2>5. PendingIn(st, q, k) = PendingIn(st, q, m) \cup {t \in {q[k]} : st[t] = "pending"}
    <3>1. 1 .. k = 1 .. m \cup {k}
      BY <2>1
    <3> QED
      BY <2>3, <3>1 DEF PendingIn
  <2>6. Range(Append(s, q[k])) = Range(s) \cup {q[k]} /\ Append(s, q[k]) \in Seq(Tasks)
    BY <2>2, <2>3, AppendRange
  <2>7. P(k)
    BY <2>2, <2>4, <2>5, <2>6 DEF P
  <2> QED
    BY <2>1, <2>7
<1>8. P(n)
  <2> HIDE DEF S
  <2>1. Nat \subseteq S
    BY <1>6, <1>7, SetInduction
  <2> HIDE DEF P
  <2>2. n \in S
    BY <1>4, <2>1
  <2> QED
    BY <2>2 DEF S
<1>9. Peek(Len(queue)) = p[n]
  BY <1>1, <1>2, <1>3 DEF Peek, PeekSteps, PeekStep
<1> QED
  BY <1>1, <1>2, <1>8, <1>9
-----------------------------------------------------------------------------
(* The invariant. *)

\* A task that enters, by Enqueue or Requeue.
LEMMA InsertKeeps ==
  ASSUME QueueInv, NEW t \in Tasks, created' \in Ages,
         status' = [status EXCEPT ![t] = "pending"],
         queue' = sortQueue(created', Append(queue, t))
  PROVE  queue' \in Seq(Tasks) /\ PendingHasEntry' /\ QueueIsSorted'
<1>1. PICK age, q, r : age = created' /\ q = queue /\ r = queue'
  OBVIOUS
<1>2. age \in Ages /\ q \in Seq(Tasks) /\ r = sortQueue(age, Append(q, t))
  BY <1>1 DEF QueueInv, TypeInv
<1>3. /\ r \in Seq(Tasks)
      /\ Range(r) = Range(q) \cup {t}
      /\ \A i, j \in DOMAIN r : i < j => ~shouldSwap(age, r[i], r[j])
  <2>1. Inserted(age, q, t, r)
    BY <1>2, InsertSorts
  <2> QED
    BY <2>1 DEF Inserted
<1>4. PendingHasEntry'
  <2> SUFFICES ASSUME NEW u \in Tasks, status'[u] = "pending"
               PROVE  \E i \in DOMAIN queue' : queue'[i] = u
    BY DEF PendingHasEntry
  <2>1. u = t \/ status[u] = "pending"
    BY DEF QueueInv, TypeInv
  <2>2. u = t \/ u \in Range(q)
    BY <1>1, <2>1 DEF QueueInv, PendingHasEntry, Range
  <2>3. u \in Range(r)
    BY <1>3, <2>2
  <2> QED
    BY <1>1, <2>3 DEF Range
<1> QED
  BY <1>1, <1>3, <1>4 DEF QueueIsSorted

\* Enqueue keeps the invariant.
LEMMA EnqueueKeeps ==
  ASSUME QueueInv, NEW t \in Tasks, NEW now \in 0 .. MaxClock, Enqueue(t, now)
  PROVE  QueueInv'
<1>1. /\ clock' \in Nat /\ clock <= clock'
      /\ created' \in Ages /\ created' = [created EXCEPT ![t] = clock']
      /\ status' \in [Tasks -> Statuses] /\ due' \subseteq Tasks
  <2>1. clock' = now /\ now \in {clock, clock + 1} /\ clock \in Nat
    BY DEF QueueInv, TypeInv, Enqueue
  <2>2. created' \in Ages /\ created' = [created EXCEPT ![t] = clock']
    BY <2>1 DEF QueueInv, TypeInv, Enqueue, Ages
  <2>3. status' \in [Tasks -> Statuses] /\ due' \subseteq Tasks
    BY DEF QueueInv, TypeInv, Enqueue, Statuses
  <2> QED
    BY <2>1, <2>2, <2>3
<1>2. CreatedByNow'
  BY <1>1 DEF QueueInv, TypeInv, CreatedByNow, Ages
<1>3. queue' \in Seq(Tasks) /\ PendingHasEntry' /\ QueueIsSorted'
  BY <1>1, InsertKeeps DEF Enqueue
<1> QED
  BY <1>1, <1>2, <1>3 DEF QueueInv, TypeInv

\* Requeue keeps the invariant.
LEMMA RequeueKeeps ==
  ASSUME QueueInv, NEW t \in Tasks, Requeue(t)
  PROVE  QueueInv'
<1>1. /\ clock' = clock /\ created' = created /\ created' \in Ages
      /\ status' \in [Tasks -> Statuses] /\ due' \subseteq Tasks
  BY DEF QueueInv, TypeInv, Requeue, Statuses
<1>2. queue' = sortQueue(created', Append(queue, t))
  BY <1>1 DEF Requeue
<1>3. queue' \in Seq(Tasks) /\ PendingHasEntry' /\ QueueIsSorted'
  BY <1>1, <1>2, InsertKeeps DEF Requeue
<1> QED
  BY <1>1, <1>3 DEF QueueInv, TypeInv, CreatedByNow

\* Dequeue keeps the invariant.
LEMMA DequeueKeeps ==
  ASSUME QueueInv, NEW free, NEW n, Dequeue(free, n)
  PROVE  QueueInv'
<1>1. due' = due /\ created' = created /\ clock' = clock
  BY DEF Dequeue
<1>2. CASE status' = status /\ queue' = queue
  BY <1>1, <1>2 DEF QueueInv, TypeInv, CreatedByNow, PendingHasEntry, QueueIsSorted
<1>3. CASE ~(status' = status /\ queue' = queue)
  <2>1. PICK i \in DOMAIN queue : /\ status[queue[i]] = "pending"
                                  /\ status' = [status EXCEPT ![queue[i]] = "running"]
                                  /\ queue' = Without(queue, i)
    BY <1>3 DEF Dequeue, Candidates
  <2>2. PICK q, r : q = queue /\ r = queue'
    OBVIOUS
  <2>3. q \in Seq(Tasks) /\ i \in DOMAIN q /\ r = Without(q, i)
    BY <2>1, <2>2 DEF QueueInv, TypeInv
  <2>4. /\ r \in Seq(Tasks)
        /\ Len(r) = Len(q) - 1
        /\ \A k \in 1 .. Len(q) - 1 : r[k] = IF k < i THEN q[k] ELSE q[k + 1]
    BY <2>3, WithoutEntry
  <2>5. DOMAIN q = 1 .. Len(q) /\ DOMAIN r = 1 .. Len(q) - 1 /\ Len(q) \in Nat /\ q[i] \in Tasks
    BY <2>3, <2>4, LenProperties, ElementOfSeq
  <2>6. status' \in [Tasks -> Statuses]
    BY <2>1 DEF QueueInv, TypeInv, Statuses
  <2>7. PendingHasEntry'
    <3> SUFFICES ASSUME NEW u \in Tasks, status'[u] = "pending"
                 PROVE  \E k \in DOMAIN r : r[k] = u
      BY <2>2 DEF PendingHasEntry
    <3>1. status[u] = "pending" /\ u # q[i]
      BY <2>1, <2>2, <2>5 DEF QueueInv, TypeInv
    <3>2. PICK j \in DOMAIN q : q[j] = u
      BY <2>2, <3>1 DEF QueueInv, PendingHasEntry
    <3>3. PICK k \in Int : k = IF j < i THEN j ELSE j - 1
      BY <2>5
    <3>4. k \in DOMAIN r /\ r[k] = q[j]
      BY <2>3, <2>4, <2>5, <3>1, <3>2, <3>3
    <3> QED
      BY <3>2, <3>4
  <2>8. QueueIsSorted'
    <3> SUFFICES ASSUME NEW a \in DOMAIN r, NEW b \in DOMAIN r, a < b
                 PROVE  ~shouldSwap(created, r[a], r[b])
      BY <1>1, <2>2 DEF QueueIsSorted
    <3>1. PICK c \in DOMAIN q, d \in DOMAIN q : c < d /\ r[a] = q[c] /\ r[b] = q[d]
      <4>1. /\ r[a] = IF a < i THEN q[a] ELSE q[a + 1]
            /\ r[b] = IF b < i THEN q[b] ELSE q[b + 1]
        BY <2>4, <2>5
      <4>2. \A k \in DOMAIN r : k \in DOMAIN q /\ k + 1 \in DOMAIN q
        BY <2>5
      <4>3. a \in Nat /\ b \in Nat /\ i \in Nat
        BY <2>3, <2>5
      <4>4. CASE b < i
        BY <4>1, <4>2, <4>3, <4>4
      <4>5. CASE ~(b < i) /\ a < i
        BY <4>1, <4>2, <4>3, <4>5
      <4>6. CASE ~(b < i) /\ ~(a < i)
        BY <4>1, <4>2, <4>3, <4>6
      <4> QED
        BY <4>4, <4>5, <4>6
    <3> QED
      BY <2>2, <3>1 DEF QueueInv, QueueIsSorted
  <2> QED
    BY <1>1, <2>2, <2>4, <2>6, <2>7, <2>8 DEF QueueInv, TypeInv, CreatedByNow
<1> QED
  BY <1>2, <1>3

\* The steps that leave the list alone make no task pending.
LEMMA OthersKeep ==
  ASSUME QueueInv, NEW t \in Tasks,
         \/ MoveToDeadLetter(t) \/ ScheduleDue(t)
         \/ \E outcome \in {"completed", "failed"} : Finish(t, outcome)
  PROVE  QueueInv'
<1>1. /\ created' = created /\ clock' = clock /\ queue' = queue
      /\ due' \subseteq Tasks
      /\ status' \in [Tasks -> Statuses]
      /\ \A u \in Tasks : status'[u] = "pending" => status[u] = "pending"
  BY DEF QueueInv, TypeInv, MoveToDeadLetter, ScheduleDue, Finish, Statuses
<1> QED
  BY <1>1 DEF QueueInv, TypeInv, CreatedByNow, PendingHasEntry, QueueIsSorted

\* The invariant holds.
LEMMA QueueInvHolds == Spec => []QueueInv
<1>1. Init => QueueInv
  <2> SUFFICES ASSUME Init
               PROVE  QueueInv
    OBVIOUS
  <2>1. TypeInv
    BY DEF Init, TypeInv, Ages, Statuses
  <2>2. CreatedByNow /\ PendingHasEntry
    BY DEF Init, CreatedByNow, PendingHasEntry
  <2>3. QueueIsSorted
    BY DEF Init, QueueIsSorted
  <2> QED
    BY <2>1, <2>2, <2>3 DEF QueueInv
<1>2. QueueInv /\ [Next]_vars => QueueInv'
  <2> SUFFICES ASSUME QueueInv, [Next]_vars
               PROVE  QueueInv'
    OBVIOUS
  <2>1. ASSUME NEW t \in Tasks, NEW now \in 0 .. MaxClock, Enqueue(t, now)
        PROVE  QueueInv'
    BY <2>1, EnqueueKeeps
  <2>2. ASSUME NEW t \in Tasks, Requeue(t)
        PROVE  QueueInv'
    BY <2>2, RequeueKeeps
  <2>3. ASSUME NEW free, NEW n, Dequeue(free, n)
        PROVE  QueueInv'
    BY <2>3, DequeueKeeps
  <2>4. ASSUME NEW t \in Tasks,
               \/ MoveToDeadLetter(t) \/ ScheduleDue(t)
               \/ \E outcome \in {"completed", "failed"} : Finish(t, outcome)
        PROVE  QueueInv'
    BY <2>4, OthersKeep
  <2>5. CASE UNCHANGED vars
    BY <2>5 DEF vars, QueueInv, TypeInv, CreatedByNow, PendingHasEntry, QueueIsSorted
  <2> QED
    BY <2>1, <2>2, <2>3, <2>4, <2>5 DEF Next
<1> QED
  BY <1>1, <1>2, PTL DEF Spec

(***************************************************************************)
(* The list is sorted at any time, however many tasks and entries there    *)
(* are: also after Enqueue has made a task of the list younger, after an   *)
(* entry was taken out of the middle, and with a task in it twice.         *)
(***************************************************************************)
THEOREM AlwaysSorted == Spec => []QueueIsSorted
<1>1. QueueInv => QueueIsSorted
  BY DEF QueueInv
<1> QED
  BY <1>1, QueueInvHolds, PTL

(***************************************************************************)
(* Peek and the counts agree on what is pending: the list may hold tasks   *)
(* twice, and tasks that are not pending, but it loses none that is.       *)
(***************************************************************************)
THEOREM CountsMatch == Spec => []CountsMatchList
<1>1. QueueInv => CountsMatchList
  <2> SUFFICES ASSUME QueueInv
               PROVE  CountsMatchList
    OBVIOUS
  <2>1. PICK shown : shown = Range(Peek(Len(queue)))
    OBVIOUS
  <2>2. shown = {t \in Tasks : status[t] = "pending"}
    <3>1. shown = PendingIn(status, queue, Len(queue))
      BY <2>1, PeekShows DEF QueueInv, TypeInv
    <3>2. DOMAIN queue = 1 .. Len(queue)
      BY DEF QueueInv, TypeInv
    <3> QED
      BY <3>1, <3>2 DEF PendingIn, QueueInv, PendingHasEntry
  <2>3. GetPendingCount = Cardinality(shown)
    BY <2>2 DEF GetPendingCount
  <2>4. ASSUME NEW w \in Range(Weight)
        PROVE  GetQueueDepth[w] = Cardinality({t \in shown : Weight[t] = w})
    <3>1. {t \in Tasks : status[t] = "pending" /\ Weight[t] = w} = {t \in shown : Weight[t] = w}
      BY <2>2
    <3>2. GetQueueDepth[w] = Cardinality({t \in Tasks : status[t] = "pending" /\ Weight[t] = w})
      BY DEF GetQueueDepth
    <3> QED
      BY <3>1, <3>2
  <2> QED
    BY <2>1, <2>3, <2>4 DEF CountsMatchList
<1> QED
  BY <1>1, QueueInvHolds, PTL
-----------------------------------------------------------------------------
(* The refinement. *)

(***************************************************************************)
(* The two integer divisions of calculateWorkerRequirements: as long as    *)
(* what is free comes to a whole core and a megabyte for each who shares   *)
(* it, the limits admit exactly the tasks that would fit if all of them    *)
(* ran one.                                                                *)
(***************************************************************************)
THEOREM SharesFit ==
  ASSUME NEW t \in Tasks, NEW free \in Readings, NEW n \in WorkerCounts,
         Sharers(n) * 10 <= free.cpu, Sharers(n) <= free.mem
  PROVE  Abstract!Fits(t, calculateWorkerRequirements(free, n)) <=>
           /\ Need[t].cpu * 10 * Sharers(n) <= free.cpu
           /\ Need[t].mem * Sharers(n) <= free.mem
<1>1. PICK w : w = Sharers(n)
  OBVIOUS
<1>2. w \in Nat /\ w > 0
  BY <1>1, QueueAssumption DEF Sharers
<1>3. free.cpu \in Nat /\ free.mem \in Nat /\ Need[t].cpu \in Nat /\ Need[t].mem \in Nat
  BY QueueAssumption
<1>4. PICK c, m, a, b : c = free.cpu /\ m = free.mem /\ a = Need[t].cpu /\ b = Need[t].mem
  OBVIOUS
<1>5. /\ c \in Nat /\ m \in Nat /\ a \in Nat /\ b \in Nat
      /\ w * 10 <= c /\ w <= m
  BY <1>1, <1>3, <1>4
<1>6. PICK r : r = calculateWorkerRequirements(free, n)
  OBVIOUS
<1>7. r.cpu = (c \div 10) \div w /\ r.mem = m \div w
  BY <1>1, <1>4, <1>6, QueueAssumption DEF calculateWorkerRequirements
<1>8. Abstract!Within(a, r.cpu) <=> a * 10 * w <= c
  <2>1. PICK d : d = c \div 10
    OBVIOUS
  <2>2. d \in Nat
    BY <1>5, <2>1
  <2>3. PICK e : e = d \div w
    OBVIOUS
  <2>4. e \in Nat /\ (1 <= e <=> 1 * w <= d) /\ (a <= e <=> a * w <= d)
    BY <1>2, <1>5, <2>2, <2>3, Share
  <2>5. PICK x \in Nat : x = a * w
    BY <1>2, <1>5
  <2>6. (w <= d <=> w * 10 <= c) /\ (x <= d <=> x * 10 <= c)
    BY <1>2, <1>5, <2>1, <2>5
  <2>7. x * 10 = a * 10 * w
    BY <1>2, <1>5, <2>5
  <2>8. e > 0 /\ (a <= e <=> a * 10 * w <= c)
    BY <1>2, <1>5, <2>4, <2>5, <2>6, <2>7
  <2>9. r.cpu = e
    BY <1>7, <2>1, <2>3
  <2> QED
    BY <1>5, <2>4, <2>8, <2>9 DEF Abstract!Within
<1>9. Abstract!Within(b, r.mem) <=> b * w <= m
  <2>1. PICK e : e = m \div w
    OBVIOUS
  <2>2. e \in Nat /\ (1 <= e <=> 1 * w <= m) /\ (b <= e <=> b * w <= m)
    BY <1>2, <1>5, <2>1, Share
  <2>3. r.mem = e
    BY <1>7, <2>1
  <2> QED
    BY <1>2, <1>5, <2>2, <2>3 DEF Abstract!Within
<1> QED
  BY <1>1, <1>4, <1>6, <1>8, <1>9 DEF Abstract!Fits

\* The limits of a worker are naturals, and a limit that is not 0 excludes
\* exactly what is greater.
LEMMA Limits ==
  ASSUME NEW free \in Readings \cup {NoReading}, NEW n \in WorkerCounts,
         NEW r, r = calculateWorkerRequirements(free, n), NEW t \in Tasks
  PROVE  /\ r \in Requirements
         /\ (/\ r.cpu > 0 => Need[t].cpu <= r.cpu
             /\ r.mem > 0 => Need[t].mem <= r.mem) <=> Abstract!Fits(t, r)
<1>1. r \in Requirements
  BY DEF Requirements
<1>2. Sharers(n) \in Nat /\ Sharers(n) > 0
  BY QueueAssumption DEF Sharers
<1>3. r.cpu \in Nat /\ r.mem \in Nat
  <2>1. CASE free = NoReading
    BY <2>1 DEF calculateWorkerRequirements
  <2>2. CASE free # NoReading
    <3>1. free.cpu \in Nat /\ free.mem \in Nat
      BY <2>2, QueueAssumption
    <3>2. free.cpu \div 10 \in Nat
      BY <3>1
    <3>3. r.cpu = (free.cpu \div 10) \div Sharers(n) /\ r.mem = free.mem \div Sharers(n)
      BY <2>2 DEF calculateWorkerRequirements
    <3> QED
      BY <1>2, <3>1, <3>2, <3>3, Share
  <2> QED
    BY <2>1, <2>2
<1> QED
  BY <1>1, <1>3 DEF Abstract!Fits, Abstract!Within

\* The entries Dequeue may claim are those of the eligible tasks.
LEMMA CandidatesEligible ==
  ASSUME QueueInv, NEW free \in Readings \cup {NoReading}, NEW n \in WorkerCounts,
         NEW r, r = calculateWorkerRequirements(free, n)
  PROVE  /\ \A i \in Candidates(r) : i \in DOMAIN queue /\ queue[i] \in Abstract!Eligible(r)
         /\ \A t \in Abstract!Eligible(r) :
              t \in Tasks /\ \E i \in Candidates(r) : queue[i] = t
<1>1. ASSUME NEW i \in Candidates(r)
      PROVE  i \in DOMAIN queue /\ queue[i] \in Abstract!Eligible(r)
  <2>1. /\ i \in DOMAIN queue /\ status[queue[i]] = "pending" /\ queue[i] \in due
        /\ r.cpu > 0 => Need[queue[i]].cpu <= r.cpu
        /\ r.mem > 0 => Need[queue[i]].mem <= r.mem
    BY <1>1 DEF Candidates
  <2>2. queue[i] \in Tasks
    BY <2>1 DEF QueueInv, TypeInv
  <2>3. Abstract!Fits(queue[i], r)
    BY <2>1, <2>2, Limits
  <2> QED
    BY <2>1, <2>2, <2>3 DEF Abstract!Eligible
<1>2. ASSUME NEW t \in Abstract!Eligible(r)
      PROVE  t \in Tasks /\ \E i \in Candidates(r) : queue[i] = t
  <2>1. t \in Tasks /\ status[t] = "pending" /\ t \in due /\ Abstract!Fits(t, r)
    BY <1>2 DEF Abstract!Eligible
  <2>2. /\ r.cpu > 0 => Need[t].cpu <= r.cpu
        /\ r.mem > 0 => Need[t].mem <= r.mem
    BY <2>1, Limits
  <2>3. PICK i \in DOMAIN queue : queue[i] = t
    BY <2>1 DEF QueueInv, PendingHasEntry
  <2>4. i \in Candidates(r)
    BY <2>1, <2>2, <2>3 DEF Candidates
  <2> QED
    BY <2>1, <2>3, <2>4
<1> QED
  BY <1>1, <1>2

\* A claim of the list is a claim of the abstract queue.
LEMMA DequeueClaims ==
  ASSUME QueueInv, NEW free \in Readings \cup {NoReading}, NEW n \in WorkerCounts,
         Dequeue(free, n)
  PROVE  \E r \in Requirements : Abstract!Claim(r) \/ Abstract!ClaimNothing(r)
<1>1. PICK r : r = calculateWorkerRequirements(free, n)
  OBVIOUS
<1>2. /\ \A i \in Candidates(r) : i \in DOMAIN queue /\ queue[i] \in Abstract!Eligible(r)
      /\ \A t \in Abstract!Eligible(r) :
           t \in Tasks /\ \E i \in Candidates(r) : queue[i] = t
  BY <1>1, CandidatesEligible
<1>3. /\ due' = due /\ created' = created
      /\ calculateWorkerRequirements(asked.free, asked.n)' = r
      /\ r \in Requirements
  BY <1>1 DEF Dequeue, Requirements, calculateWorkerRequirements, Sharers
<1>4. CASE Candidates(r) = {}
  <2>1. answer' = NoTask /\ status' = status
    BY <1>1, <1>4 DEF Dequeue
  <2>2. Abstract!Eligible(r) = {}
    BY <1>2, <1>4
  <2> QED
    BY <1>3, <2>1, <2>2 DEF Abstract!ClaimNothing
<1>5. CASE Candidates(r) # {}
  <2>1. PICK i \in Candidates(r) : /\ \A j \in Candidates(r) : i <= j
                                   /\ status' = [status EXCEPT ![queue[i]] = "running"]
                                   /\ answer' = queue[i]
    BY <1>1, <1>5 DEF Dequeue
  <2>2. PICK t : t = queue[i]
    OBVIOUS
  <2>3. t \in Abstract!Eligible(r) /\ t \in Tasks /\ i \in DOMAIN queue
    BY <1>2, <2>1, <2>2
  <2>4. ASSUME NEW u \in Abstract!Eligible(r)
        PROVE  ~Abstract!Precedes(u, t)
    <3>1. PICK j \in Candidates(r) : queue[j] = u
      BY <1>2
    <3>2. i <= j /\ j \in DOMAIN queue /\ u \in Tasks
      BY <1>2, <2>1, <3>1
    <3>3. ~shouldSwap(created, t, u)
      <4>1. CASE i = j
        BY <2>2, <2>3, <3>1, <4>1, ShouldSwapOrders DEF QueueInv, TypeInv
      <4>2. CASE i # j
        <5>1. i < j
          BY <2>3, <3>2, <4>2 DEF QueueInv, TypeInv
        <5> QED
          BY <2>2, <2>3, <3>1, <3>2, <5>1 DEF QueueInv, QueueIsSorted
      <4> QED
        BY <4>1, <4>2
    <3> QED
      <4>1. Weight[t] \in Nat /\ Weight[u] \in Nat
        BY <2>3, <3>2, QueueAssumption
      <4>2. created[t] \in Nat /\ created[u] \in Nat
        BY <2>3, <3>2 DEF QueueInv, TypeInv, Ages
      <4> QED
        BY <3>3, <4>1, <4>2 DEF shouldSwap, Abstract!Precedes
  <2>5. {u \in Tasks : status'[u] = "pending"} = {u \in Tasks : status[u] = "pending"} \ {t}
    BY <2>1, <2>2, <2>3 DEF QueueInv, TypeInv
  <2> QED
    BY <1>3, <2>1, <2>2, <2>3, <2>4, <2>5 DEF Abstract!Claim
<1> QED
  BY <1>4, <1>5

\* A task that enters the list enters the abstract queue.
LEMMA EntersAbstract ==
  ASSUME QueueInv, NEW t \in Tasks,
         Requeue(t) \/ \E now \in 0 .. MaxClock : Enqueue(t, now)
  PROVE  Abstract!Enter(t)
<1>1. {u \in Tasks : status'[u] = "pending"} = {u \in Tasks : status[u] = "pending"} \cup {t}
  BY DEF Requeue, Enqueue, QueueInv, TypeInv
<1>2. answer' = answer /\ asked' = asked /\ due' \in {due \cup {t}, due \ {t}}
  BY DEF Requeue, Enqueue
<1>3. CASE Requeue(t)
  BY <1>1, <1>2, <1>3 DEF Requeue, Abstract!Enter
<1>4. CASE \E now \in 0 .. MaxClock : Enqueue(t, now)
  <2>1. PICK now \in 0 .. MaxClock : /\ now \in {clock, clock + 1}
                                     /\ created' = [created EXCEPT ![t] = now]
    BY <1>4 DEF Enqueue
  <2>2. clock \in Nat /\ created \in [Tasks -> Nat] /\ \A u \in Tasks : created[u] <= clock
    BY DEF QueueInv, TypeInv, CreatedByNow, Ages
  <2>3. created'[t] = now
    BY <2>1, <2>2
  <2>4. \A u \in Tasks : created'[t] >= created[u]
    BY <2>1, <2>2, <2>3
  <2>5. created' = [created EXCEPT ![t] = created'[t]]
    BY <2>1, <2>3
  <2> QED
    BY <1>1, <1>2, <2>4, <2>5 DEF Abstract!Enter
<1> QED
  BY <1>3, <1>4

(***************************************************************************)
(* The in-memory queue implements the priority queue, for any tasks,       *)
(* priorities, needs and readings: the most urgent eligible task has an    *)
(* entry (PendingHasEntry), the entries are sorted (QueueIsSorted), so the *)
(* first entry that Dequeue may claim is one that no other precedes.       *)
(***************************************************************************)
THEOREM Implements == Spec => ImplementsPriorityQueue
<1>1. Init => Abstract!Init
  BY DEF Init, Abstract!Init, Abstract!NoLimits, calculateWorkerRequirements
<1>2. QueueInv /\ [Next]_vars => [Abstract!Next]_(Abstract!vars)
  <2> SUFFICES ASSUME QueueInv, [Next]_vars
               PROVE  [Abstract!Next]_(Abstract!vars)
    OBVIOUS
  <2>1. ASSUME NEW t \in Tasks, Requeue(t) \/ \E now \in 0 .. MaxClock : Enqueue(t, now)
        PROVE  Abstract!Next
    BY <2>1, EntersAbstract DEF Abstract!Next
  <2>2. ASSUME NEW t \in Tasks, MoveToDeadLetter(t)
        PROVE  Abstract!Next
    <3>1. {u \in Tasks : status'[u] = "pending"} = {u \in Tasks : status[u] = "pending"} \ {t}
      BY <2>2 DEF MoveToDeadLetter, QueueInv, TypeInv
    <3>2. Abstract!Withdraw(t)
      BY <2>2, <3>1 DEF MoveToDeadLetter, Abstract!Withdraw
    <3> QED
      BY <3>2 DEF Abstract!Next
  <2>3. ASSUME NEW t \in Tasks, ScheduleDue(t)
        PROVE  Abstract!Next
    <3>1. Abstract!BecomeDue(t)
      BY <2>3 DEF ScheduleDue, Abstract!BecomeDue
    <3> QED
      BY <3>1 DEF Abstract!Next
  <2>4. ASSUME NEW t \in Tasks, NEW outcome \in {"completed", "failed"}, Finish(t, outcome)
        PROVE  UNCHANGED Abstract!vars
    <3>1. {u \in Tasks : status'[u] = "pending"} = {u \in Tasks : status[u] = "pending"}
      BY <2>4 DEF Finish, QueueInv, TypeInv
    <3> QED
      BY <2>4, <3>1 DEF Finish, Abstract!vars
  <2>5. ASSUME NEW free \in Readings \cup {NoReading}, NEW n \in WorkerCounts, Dequeue(free, n)
        PROVE  Abstract!Next
    <3>1. \E r \in Requirements : Abstract!Claim(r) \/ Abstract!ClaimNothing(r)
      BY <2>5, DequeueClaims
    <3> QED
      BY <3>1 DEF Abstract!Next
  <2>6. CASE UNCHANGED vars
    BY <2>6 DEF vars, Abstract!vars
  <2> QED
    BY <2>1, <2>2, <2>3, <2>4, <2>5, <2>6 DEF Next
<1> QED
  BY <1>1, <1>2, QueueInvHolds, PTL DEF Spec, ImplementsPriorityQueue, Abstract!Spec
-----------------------------------------------------------------------------
(* Resources. *)

\* What the last Dequeue claimed was within its limits.
AnswerFits ==
  /\ asked.free \in Readings \cup {NoReading} /\ asked.n \in WorkerCounts \cup {0}
  /\ answer # NoTask =>
       /\ answer \in Tasks /\ asked.n \in WorkerCounts
       /\ Abstract!Fits(answer, calculateWorkerRequirements(asked.free, asked.n))

\* Every Dequeue makes it so, and nothing else touches it.
LEMMA AnswerFitsHolds == Spec => [](QueueInv /\ AnswerFits)
<1>1. Init => AnswerFits
  BY DEF Init, AnswerFits
<1>2. QueueInv /\ AnswerFits /\ [Next]_vars => AnswerFits'
  <2> SUFFICES ASSUME QueueInv, AnswerFits, [Next]_vars
               PROVE  AnswerFits'
    OBVIOUS
  <2>1. ASSUME NEW free \in Readings \cup {NoReading}, NEW n \in WorkerCounts, Dequeue(free, n)
        PROVE  AnswerFits'
    <3>1. PICK r : r = calculateWorkerRequirements(free, n)
      OBVIOUS
    <3>2. asked' = [free |-> free, n |-> n]
      BY <2>1 DEF Dequeue
    <3>3. answer' = NoTask \/ \E i \in Candidates(r) : answer' = queue[i]
      BY <2>1, <3>1 DEF Dequeue
    <3>4. ASSUME NEW i \in Candidates(r), answer' = queue[i]
          PROVE  answer' \in Tasks /\ Abstract!Fits(answer', r)
      <4>1. /\ i \in DOMAIN queue
            /\ r.cpu > 0 => Need[queue[i]].cpu <= r.cpu
            /\ r.mem > 0 => Need[queue[i]].mem <= r.mem
        BY DEF Candidates
      <4>2. queue[i] \in Tasks
        BY <4>1 DEF QueueInv, TypeInv
      <4> QED
        BY <3>1, <3>4, <4>1, <4>2, Limits
    <3> QED
      BY <3>1, <3>2, <3>3, <3>4 DEF AnswerFits, Abstract!Fits, Abstract!Within
  <2>2. CASE UNCHANGED <<asked, answer>>
    BY <2>2 DEF AnswerFits
  <2> QED
    BY <2>1, <2>2
       DEF Next, vars, Enqueue, Requeue, MoveToDeadLetter, ScheduleDue, Finish
<1> QED
  BY <1>1, <1>2, QueueInvHolds, PTL DEF Spec

(***************************************************************************)
(* When ClaimHasResources does hold: when every reading comes to a whole   *)
(* core and a megabyte for each of the workers that share it. The division *)
(* to 0 is the only way for a claim to exceed what is free.                *)
(***************************************************************************)
THEOREM ResourcesSuffice ==
  ASSUME \A free \in Readings, n \in WorkerCounts :
           Sharers(n) * 10 <= free.cpu /\ Sharers(n) <= free.mem
  PROVE  Spec => []ClaimHasResources
<1>1. QueueInv /\ AnswerFits => ClaimHasResources
  <2> SUFFICES ASSUME AnswerFits, answer # NoTask, asked.free # NoReading
               PROVE  /\ Need[answer].cpu * 10 <= asked.free.cpu
                      /\ Need[answer].mem <= asked.free.mem
    BY DEF ClaimHasResources
  <2>1. PICK t, free, n : t = answer /\ free = asked.free /\ n = asked.n
    OBVIOUS
  <2>2. /\ t \in Tasks /\ free \in Readings /\ n \in WorkerCounts
        /\ Abstract!Fits(t, calculateWorkerRequirements(free, n))
    BY <2>1 DEF AnswerFits
  <2>3. /\ Need[t].cpu * 10 * Sharers(n) <= free.cpu
        /\ Need[t].mem * Sharers(n) <= free.mem
    BY <2>2, SharesFit
  <2>4. /\ Need[t].cpu \in Nat /\ Need[t].mem \in Nat /\ free.cpu \in Nat /\ free.mem \in Nat
        /\ Sharers(n) \in Nat /\ Sharers(n) >= 1
    BY <2>2, QueueAssumption DEF Sharers
  <2>5. PICK x, y, w \in Nat : x = Need[t].cpu * 10 /\ y = Need[t].mem /\ w = Sharers(n)
    BY <2>4
  <2>6. x <= x * w /\ y <= y * w
    BY <2>4, <2>5
  <2> QED
    BY <2>1, <2>3, <2>4, <2>5, <2>6
<1> QED
  BY <1>1, AnswerFitsHolds, PTL
=============================================================================
