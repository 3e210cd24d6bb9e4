---------------------------- MODULE LockQueueProofs ----------------------------
(***************************************************************************)
(* Mutual exclusion of LockQueue for any number of calls, whatever their   *)
(* priorities, with cancellation and closing at any moment; and that the   *)
(* binary heap of LockQueueHeap implements its queue.                      *)
(***************************************************************************)
EXTENDS LockQueue, Sequences, SequenceTheorems, NaturalsInduction, WellFoundedInduction, TLAPS

VARIABLE heap       \* the list of LockQueueHeap

H == INSTANCE LockQueueHeap

LEMMA InitInv == Init => Inv
BY DEF Init, Inv, TypeOK, CallStates, MutualExclusion, OwnsTheLock,
       InCriticalSection, RunnerFindsLockFree, QueueHoldsWaiters

(* One step of _run, of a call, or of close() preserves the invariant.     *)
LEMMA NextInv == Inv /\ [Next]_vars => Inv'
<1> SUFFICES ASSUME Inv, [Next]_vars PROVE Inv'
    OBVIOUS
<1> USE DEF Inv, TypeOK, CallStates, MutualExclusion, OwnsTheLock,
            InCriticalSection, RunnerFindsLockFree, QueueHoldsWaiters
<1>1. ASSUME NEW c \in Calls, Enter(c) PROVE Inv'
    BY <1>1 DEF Enter
<1>2. ASSUME NEW c \in Calls, RunCallback(c) PROVE Inv'
  (* The lock was free, so nobody was inside: c is alone there now.        *)
  <2>1. \A d \in Calls : ~ InCriticalSection(d)
      BY <1>2 DEF RunCallback
  <2>2. c \in queue
      BY <1>2 DEF RunCallback, IsNext
  <2>3. QED
      BY <1>2, <2>1, <2>2 DEF RunCallback
<1>3. ASSUME NEW c \in Calls, Resume(c) PROVE Inv'
    BY <1>3 DEF Resume
<1>4. ASSUME NEW c \in Calls, Exit(c) PROVE Inv'
    BY <1>4 DEF Exit
<1>5. ASSUME NEW c \in Calls, Cancel(c) PROVE Inv'
    BY <1>5 DEF Cancel
<1>6. CASE RunLoop
    BY <1>6 DEF RunLoop
<1>7. CASE Close
    BY <1>7 DEF Close
<1>8. CASE UNCHANGED vars
    BY <1>8 DEF vars
<1>9. QED
    BY <1>1, <1>2, <1>3, <1>4, <1>5, <1>6, <1>7, <1>8 DEF Next

(* Every reachable state of the lock satisfies the inductive invariant.    *)
THEOREM Invariance == Spec => []Inv
BY InitInv, NextInv, PTL DEF Spec

(***************************************************************************)
(* At most one task is inside `async with client', for any set of calls    *)
(* and any priorities.                                                     *)
(***************************************************************************)
THEOREM MutualExclusionTheorem == Spec => []MutualExclusion
<1>1. Inv => MutualExclusion
    BY DEF Inv
<1>2. QED
    BY <1>1, Invariance, PTL

(***************************************************************************)
(* _run never suspends on the inner lock with a callback in its hands.     *)
(***************************************************************************)
THEOREM RunnerFindsLockFreeTheorem == Spec => []RunnerFindsLockFree
<1>1. Inv => RunnerFindsLockFree
    BY DEF Inv
<1>2. QED
    BY <1>1, Invariance, PTL

--------------------------------------------------------------------------------
(* A set of numbers has a least one.                                       *)
LEMMA LeastNumber ==
    ASSUME NEW T, T \subseteq Nat, T # {}
    PROVE  \E n \in T : \A k \in T : n <= k
<1>1. \E n \in T : \A k \in T : ~(<<k, n>> \in OpToRel(<, Nat))
    BY NatLessThanWellFounded, WFMin, Zenon
<1>2. PICK n \in T : \A k \in T : ~(k < n)
    BY <1>1 DEF OpToRel
<1>3. \A k \in T : n <= k
  <2>1. TAKE k \in T
  <2>2. k \in Nat /\ n \in Nat /\ ~(k < n)
      BY <1>2
  <2>3. QED
      BY <2>2
<1>4. QED
    BY <1>3

(* The tree that a list holds: the children of p are 2p and 2p + 1.        *)
LEMMA Tree ==
    ASSUME NEW i \in Nat, i >= 2
    PROVE  /\ H!Parent(i) \in 1..(i - 1)
           /\ \A p \in Nat : H!Parent(i) = p <=> (i = 2 * p \/ i = 2 * p + 1)
BY DEF H!Parent

(* The entries of the list h of n calls, each of which is in it once.      *)
List(h, n) ==
    /\ n \in Nat
    /\ h \in [1..n -> Calls]
    /\ \A i, j \in 1..n : h[i] = h[j] => i = j

In(h, n) == {h[i] : i \in 1..n}

(* A swap keeps the entries.                                               *)
LEMMA SwapKeeps ==
    ASSUME NEW h, NEW n, List(h, n), NEW i \in 1..n, NEW j \in 1..n
    PROVE  /\ List(H!Swap(h, i, j), n)
           /\ In(H!Swap(h, i, j), n) = In(h, n)
           /\ \A k \in 1..n : H!Swap(h, i, j)[k] = IF k = i THEN h[j] ELSE IF k = j THEN h[i] ELSE h[k]
<1> DEFINE g == H!Swap(h, i, j)
<1>1. /\ g \in [1..n -> Calls]
      /\ \A k \in 1..n : g[k] = IF k = i THEN h[j] ELSE IF k = j THEN h[i] ELSE h[k]
    BY DEF List, H!Swap
<1> HIDE DEF g
<1>2. \A k, l \in 1..n : g[k] = g[l] => k = l
    BY <1>1 DEF List
<1>3. In(g, n) \subseteq In(h, n)
    BY <1>1 DEF In
<1>4. In(h, n) \subseteq In(g, n)
  <2>1. SUFFICES ASSUME NEW k \in 1..n PROVE \E l \in 1..n : g[l] = h[k]
      BY DEF In
  <2>2. CASE k = i
      BY <2>2, <1>1
  <2>3. CASE k = j
      BY <2>3, <1>1
  <2>4. CASE k # i /\ k # j
      BY <2>4, <1>1
  <2>5. QED
      BY <2>2, <2>3, <2>4
<1>5. QED
    BY <1>1, <1>2, <1>3, <1>4 DEF List, g

(* No entry is less than its parent.                                       *)
IsHeap(h, n) ==
    \A i \in 2..n : Priority[h[H!Parent(i)]] <= Priority[h[i]]

(* The first entry of a heap is a least one.                               *)
LEMMA RootIsLeast ==
    ASSUME NEW h, NEW n, List(h, n), IsHeap(h, n), NEW k \in 1..n
    PROVE  Priority[h[1]] <= Priority[h[k]]
<1> DEFINE Bad == {i \in 1..n : ~(Priority[h[1]] <= Priority[h[i]])}
<1>0. \A i \in 1..n : Priority[h[i]] \in Nat
    BY PriorityAssumption DEF List
<1>1. ASSUME Bad # {} PROVE FALSE
  <2>1. Bad \subseteq Nat
      BY DEF List
  <2>2. PICK i \in Bad : \A m \in Bad : i <= m
    <3> HIDE DEF Bad
    <3>1. QED
        BY <1>1, <2>1, LeastNumber
  <2>3. i \in 2..n
      BY <1>0, <2>2 DEF List
  <2>4. H!Parent(i) \in 1..(i - 1)
      BY <2>3, Tree
  <2>5. H!Parent(i) \in 1..n /\ ~(i <= H!Parent(i))
      BY <2>3, <2>4 DEF List
  <2>6. Priority[h[1]] <= Priority[h[H!Parent(i)]]
      BY <2>2, <2>5
  <2>7. Priority[h[H!Parent(i)]] <= Priority[h[i]]
      BY <2>3 DEF IsHeap
  <2>8. QED
      BY <1>0, <2>2, <2>3, <2>5, <2>6, <2>7 DEF List
<1>2. QED
    BY <1>1

(* Such lists are sequences.                                               *)
LEMMA ListIsSeq ==
    ASSUME NEW h, NEW n, List(h, n)
    PROVE  h \in Seq(Calls) /\ Len(h) = n
<1>1. n \in Nat /\ h \in [1..n -> Calls]
    BY DEF List
<1>2. h \in Seq(Calls)
    BY <1>1, SeqDef
<1>3. QED
    BY <1>1, <1>2

(* An entry below q is not less than the parent of q.                      *)
GapAt(h, n, q) ==
    \A i \in 2..n : (q > 1 /\ H!Parent(i) = q) => Priority[h[H!Parent(q)]] <= Priority[h[i]]

(* Only the entry at q may be less than its parent.                        *)
Rising(h, n, q) ==
    /\ q \in 1..n
    /\ \A i \in 2..n : i # q => Priority[h[H!Parent(i)]] <= Priority[h[i]]
    /\ GapAt(h, n, q)

(* Only the entry at q may be out of order with its parent and children.   *)
Sinking(h, n, q) ==
    /\ q \in 1..n
    /\ \A i \in 2..n : (i # q /\ H!Parent(i) # q) => Priority[h[H!Parent(i)]] <= Priority[h[i]]
    /\ GapAt(h, n, q)

(* One round of heapq._siftdown.                                           *)
LEMMA RiseRound ==
    ASSUME NEW h, NEW n, List(h, n), NEW q, Rising(h, n, q)
    PROVE  LET t == H!Target("root", h, q)
           IN  /\ t \in 1..n
               /\ Rising(H!Swap(h, q, t), n, t)
               /\ (t = q \/ IsHeap(h, n)) => IsHeap(H!Swap(h, q, t), n)
               /\ t # q => t < q
<1> DEFINE t == H!Target("root", h, q)
<1>0. /\ \A i \in 1..n : h[i] \in Calls /\ Priority[h[i]] \in Nat
      /\ n \in Nat /\ q \in 1..n
    BY PriorityAssumption DEF List, Rising
<1>t. \A i \in 2..n : H!Parent(i) \in 1..(i - 1) /\ H!Parent(i) \in 1..n
  <2>1. TAKE i \in 2..n
  <2>2. i \in Nat /\ i >= 2
      BY <1>0
  <2>3. H!Parent(i) \in 1..(i - 1)
      BY <2>2, Tree
  <2>4. QED
      BY <2>3, <1>0
<1>r. \A i \in 2..n : i # q => Priority[h[H!Parent(i)]] <= Priority[h[i]]
    BY DEF Rising
<1>g. \A i \in 2..n : (q > 1 /\ H!Parent(i) = q) => Priority[h[H!Parent(q)]] <= Priority[h[i]]
    BY DEF Rising, GapAt
<1>1. CASE q > 1 /\ Priority[h[q]] < Priority[h[H!Parent(q)]]
  <2>1. t = H!Parent(q)
      BY <1>1 DEF H!Target, H!Less
  <2> HIDE DEF t
  <2>2. q \in 2..n /\ t \in 1..(q - 1) /\ t \in 1..n
      BY <1>0, <1>1, <1>t, <2>1
  <2> DEFINE g == H!Swap(h, q, t)
  <2>3. \A k \in 1..n : g[k] = IF k = q THEN h[t] ELSE IF k = t THEN h[q] ELSE h[k]
      BY <1>0, <2>2, SwapKeeps
  <2> HIDE DEF g
  <2>4. ASSUME NEW i \in 2..n, i # t PROVE Priority[g[H!Parent(i)]] <= Priority[g[i]]
    <3>0. i \in 1..n /\ H!Parent(i) \in 1..(i - 1) /\ H!Parent(i) \in 1..n
        BY <1>0, <1>t
    <3>1. CASE i = q
        BY <3>1, <1>0, <1>1, <2>1, <2>2, <2>3
    <3>2. CASE H!Parent(i) = q
      <4>1. Priority[h[t]] <= Priority[h[i]]
          BY <3>2, <1>1, <1>g, <2>1
      <4>2. i # q
          BY <3>0, <3>2, <1>0
      <4>3. g[q] = h[t] /\ g[i] = h[i]
          BY <4>2, <2>3, <2>4, <3>0, <1>0
      <4>4. QED
          BY <4>1, <4>3, <3>2
    <3>3. CASE H!Parent(i) = t /\ i # q
      <4>1. Priority[h[t]] <= Priority[h[i]]
          BY <3>3, <1>r
      <4>2. t # q
          BY <2>2, <1>0
      <4>3. g[t] = h[q] /\ g[i] = h[i]
          BY <4>2, <3>3, <2>2, <2>3, <2>4, <3>0
      <4>4. Priority[h[q]] \in Nat /\ Priority[h[t]] \in Nat /\ Priority[h[i]] \in Nat
          BY <1>0, <2>2, <3>0
      <4>5. Priority[h[q]] < Priority[h[t]]
          BY <1>1, <2>1
      <4>6. QED
          BY <4>1, <4>3, <4>4, <4>5, <3>3
    <3>4. CASE i # q /\ H!Parent(i) # q /\ H!Parent(i) # t
      <4>1. g[i] = h[i] /\ g[H!Parent(i)] = h[H!Parent(i)]
          BY <3>4, <3>0, <2>3, <2>4
      <4>2. QED
          BY <4>1, <3>4, <1>r
    <3>5. QED
        BY <3>1, <3>2, <3>3, <3>4
  <2>5. ASSUME NEW i \in 2..n, t > 1, H!Parent(i) = t PROVE Priority[g[H!Parent(t)]] <= Priority[g[i]]
    <3>0. i \in 1..n /\ t \in 2..n /\ t # q /\ i # t
        BY <1>0, <1>t, <2>2, <2>5
    <3>1. H!Parent(t) \in 1..(t - 1) /\ H!Parent(t) \in 1..n
        BY <1>t, <3>0
    <3>2. H!Parent(t) # t /\ H!Parent(t) # q
        BY <3>0, <3>1, <2>2, <1>0
    <3>3. g[H!Parent(t)] = h[H!Parent(t)]
        BY <3>1, <3>2, <2>3
    <3>4. Priority[h[H!Parent(t)]] <= Priority[h[t]]
        BY <3>0, <1>r
    <3>5. CASE i = q
        BY <3>3, <3>4, <3>5, <2>3, <2>2, <1>0
    <3>6. CASE i # q
      <4>1. Priority[h[t]] <= Priority[h[i]]
          BY <3>6, <2>5, <1>r
      <4>2. g[i] = h[i]
          BY <3>6, <3>0, <2>3
      <4>3. Priority[h[H!Parent(t)]] \in Nat /\ Priority[h[t]] \in Nat /\ Priority[h[i]] \in Nat
          BY <1>0, <3>0, <3>1, <2>2
      <4>4. QED
          BY <4>1, <4>2, <4>3, <3>3, <3>4
    <3>7. QED
        BY <3>5, <3>6
  <2>6. Rising(g, n, t)
      BY <2>2, <2>4, <2>5 DEF Rising, GapAt
  <2>7. t # q /\ t < q
      BY <2>2, <1>0
  <2>8. ~IsHeap(h, n)
    <3>1. Priority[h[q]] \in Nat /\ Priority[h[H!Parent(q)]] \in Nat
        BY <2>1, <2>2, <1>0
    <3>2. QED
        BY <3>1, <2>2, <1>1 DEF IsHeap
  <2>9. QED
      BY <2>2, <2>6, <2>7, <2>8 DEF t, g
<1>2. CASE ~(q > 1 /\ Priority[h[q]] < Priority[h[H!Parent(q)]])
  <2>1. t = q
      BY <1>2 DEF H!Target, H!Less
  <2> HIDE DEF t
  <2>2. List(H!Swap(h, q, q), n) /\ \A k \in 1..n : H!Swap(h, q, q)[k] = h[k]
      BY <1>0, SwapKeeps
  <2>3. H!Swap(h, q, q) = h
      BY <2>2 DEF List
  <2>4. IsHeap(h, n)
    <3>1. SUFFICES ASSUME NEW i \in 2..n PROVE Priority[h[H!Parent(i)]] <= Priority[h[i]]
        BY DEF IsHeap
    <3>2. CASE i # q
        BY <3>2, <1>r
    <3>3. CASE i = q
      <4>1. q > 1 /\ H!Parent(q) \in 1..n
          BY <3>3, <1>t, <1>0
      <4>2. Priority[h[q]] \in Nat /\ Priority[h[H!Parent(q)]] \in Nat
          BY <4>1, <1>0
      <4>3. QED
          BY <4>1, <4>2, <3>3, <1>2
    <3>4. QED
        BY <3>2, <3>3
  <2>5. QED
      BY <1>0, <2>1, <2>3, <2>4 DEF t
<1>3. QED
    BY <1>1, <1>2

(* One round of the first loop of heapq._siftup.                           *)
LEMMA SinkRound ==
    ASSUME NEW h, NEW n, List(h, n), NEW q, Sinking(h, n, q)
    PROVE  LET t == H!Target("leaf", h, q)
           IN  /\ t \in 1..n
               /\ Sinking(H!Swap(h, q, t), n, t)
               /\ t >= q
               /\ t = q => 2 * q > n
<1> DEFINE t == H!Target("leaf", h, q)
<1>0. /\ \A i \in 1..n : h[i] \in Calls /\ Priority[h[i]] \in Nat
      /\ n \in Nat /\ q \in 1..n
    BY PriorityAssumption DEF List, Sinking
<1>t. \A i \in 2..n : /\ H!Parent(i) \in 1..(i - 1) /\ H!Parent(i) \in 1..n
                      /\ H!Parent(i) = q <=> (i = 2 * q \/ i = 2 * q + 1)
  <2>1. TAKE i \in 2..n
  <2>2. i \in Nat /\ i >= 2 /\ q \in Nat
      BY <1>0
  <2>3. H!Parent(i) \in 1..(i - 1)
      BY <2>2, Tree
  <2>4. H!Parent(i) = q <=> (i = 2 * q \/ i = 2 * q + 1)
      BY <2>2, Tree
  <2>5. QED
      BY <2>3, <2>4, <1>0
<1>r. \A i \in 2..n : (i # q /\ H!Parent(i) # q) => Priority[h[H!Parent(i)]] <= Priority[h[i]]
    BY DEF Sinking
<1>g. \A i \in 2..n : (q > 1 /\ H!Parent(i) = q) => Priority[h[H!Parent(q)]] <= Priority[h[i]]
    BY DEF Sinking, GapAt
<1>l. Len(h) = n
    BY ListIsSeq
<1>1. CASE 2 * q <= n
  <2>1. /\ t \in 2..n /\ t > q
        /\ H!Parent(t) = q
        /\ \A i \in 2..n : H!Parent(i) = q => Priority[h[t]] <= Priority[h[i]]
    <3>1. CASE 2 * q < n /\ ~(Priority[h[2 * q]] < Priority[h[2 * q + 1]])
      <4>1. t = 2 * q + 1
          BY <3>1, <1>l, <1>0 DEF H!Target, H!Less
      <4> HIDE DEF t
      <4>2. t \in 2..n /\ 2 * q \in 1..n /\ t > q
          BY <4>1, <3>1, <1>0
      <4>3. Priority[h[t]] <= Priority[h[2 * q]]
          BY <4>1, <4>2, <3>1, <1>0
      <4>4. ASSUME NEW i \in 2..n, H!Parent(i) = q PROVE Priority[h[t]] <= Priority[h[i]]
        <5>1. i = 2 * q \/ i = t
            BY <4>4, <4>1, <1>t
        <5>2. i \in 1..n /\ Priority[h[t]] \in Nat
            BY <4>2, <1>0
        <5>3. QED
            BY <5>1, <5>2, <4>3
      <4>5. H!Parent(t) = q
          BY <4>1, <4>2, <1>t
      <4>6. QED
          BY <4>2, <4>4, <4>5
    <3>2. CASE ~(2 * q < n /\ ~(Priority[h[2 * q]] < Priority[h[2 * q + 1]]))
      <4>1. t = 2 * q
          BY <3>2, <1>l, <1>0, <1>1 DEF H!Target, H!Less
      <4> HIDE DEF t
      <4>2. t \in 2..n /\ t > q
          BY <4>1, <1>1, <1>0
      <4>3. 2 * q + 1 \in 2..n => Priority[h[t]] <= Priority[h[2 * q + 1]]
          BY <4>1, <4>2, <3>2, <1>0
      <4>4. QED
          BY <4>1, <4>2, <4>3, <1>t, <1>0
    <3>3. QED
        BY <3>1, <3>2
  <2> HIDE DEF t
  <2>2. t \in 1..n /\ t # q /\ q # t
      BY <1>0, <2>1
  <2> DEFINE g == H!Swap(h, q, t)
  <2>3. \A k \in 1..n : g[k] = IF k = q THEN h[t] ELSE IF k = t THEN h[q] ELSE h[k]
      BY <1>0, <2>2, SwapKeeps
  <2> HIDE DEF g
  <2>4. ASSUME NEW i \in 2..n, i # t, H!Parent(i) # t PROVE Priority[g[H!Parent(i)]] <= Priority[g[i]]
    <3>0. i \in 1..n /\ H!Parent(i) \in 1..(i - 1) /\ H!Parent(i) \in 1..n
        BY <1>0, <1>t
    <3>1. CASE i = q
      <4>1. q > 1 /\ H!Parent(q) # q
          BY <3>0, <3>1, <1>0
      <4>2. Priority[h[H!Parent(q)]] <= Priority[h[t]]
          BY <4>1, <1>g, <2>1
      <4>3. g[q] = h[t] /\ g[H!Parent(q)] = h[H!Parent(q)]
          BY <4>1, <3>0, <3>1, <2>3, <2>4, <1>0
      <4>4. QED
          BY <4>2, <4>3, <3>1
    <3>2. CASE H!Parent(i) = q
      <4>1. i # q
          BY <3>0, <3>2, <1>0
      <4>2. g[q] = h[t] /\ g[i] = h[i]
          BY <4>1, <2>3, <2>4, <3>0, <1>0
      <4>3. QED
          BY <4>2, <3>2, <2>1
    <3>3. CASE i # q /\ H!Parent(i) # q
      <4>1. g[i] = h[i] /\ g[H!Parent(i)] = h[H!Parent(i)]
          BY <3>3, <3>0, <2>3, <2>4
      <4>2. QED
          BY <4>1, <3>3, <1>r
    <3>4. QED
        BY <3>1, <3>2, <3>3
  <2>5. ASSUME NEW i \in 2..n, H!Parent(i) = t PROVE Priority[g[H!Parent(t)]] <= Priority[g[i]]
    <3>1. i \in 1..n /\ i # t /\ i # q
        BY <1>0, <1>t, <2>1, <2>5
    <3>2. g[H!Parent(t)] = h[t] /\ g[i] = h[i]
        BY <3>1, <2>1, <2>3, <1>0
    <3>3. Priority[h[t]] <= Priority[h[i]]
        BY <3>1, <2>2, <2>5, <1>r
    <3>4. QED
        BY <3>2, <3>3
  <2>6. Sinking(g, n, t)
      BY <2>2, <2>4, <2>5 DEF Sinking, GapAt
  <2>7. t >= q
      BY <2>1, <1>0
  <2>8. QED
      BY <2>2, <2>6, <2>7 DEF t, g
<1>2. CASE ~(2 * q <= n)
  <2>1. t = q
      BY <1>2, <1>0, <1>l DEF H!Target
  <2> HIDE DEF t
  <2>2. List(H!Swap(h, q, q), n) /\ \A k \in 1..n : H!Swap(h, q, q)[k] = h[k]
      BY <1>0, SwapKeeps
  <2>3. H!Swap(h, q, q) = h
      BY <2>2 DEF List
  <2>4. t >= q /\ 2 * q > n
      BY <2>1, <1>0, <1>2
  <2>5. QED
      BY <1>0, <2>1, <2>3, <2>4 DEF t
<1>3. QED
    BY <1>1, <1>2

(* At a leaf the entry can only be less than its parent.                   *)
LEMMA AtLeaf ==
    ASSUME NEW h, NEW n \in Nat, NEW q, Sinking(h, n, q), 2 * q > n
    PROVE  Rising(h, n, q)
<1>1. q \in 1..n
    BY DEF Sinking
<1>2. \A i \in 2..n : H!Parent(i) # q
  <2>1. TAKE i \in 2..n
  <2>2. i \in Nat /\ i >= 2 /\ q \in Nat /\ i # 2 * q /\ i # 2 * q + 1
      BY <1>1
  <2>3. QED
      BY <2>2, Tree
<1>3. QED
    BY <1>1, <1>2 DEF Sinking, Rising

(* The rounds that Sift computes.                                          *)
Round(end, f, i, h, p) ==
    IF i = 0 THEN [list |-> h, pos |-> p]
    ELSE LET list == f[i - 1].list
             pos == f[i - 1].pos
             target == H!Target(end, list, pos)
         IN  [list |-> H!Swap(list, pos, target), pos |-> target]

LEMMA RoundsExist ==
    ASSUME NEW end, NEW h, NEW p, Len(h) \in Nat
    PROVE  \E round : /\ \A i \in 0..Len(h) : round[i] = Round(end, round, i, h, p)
                      /\ H!Sift(end, h, p) = round[Len(h)]
<1> DEFINE Step(f, i) == Round(end, f, i, h, p)
           Bad == {n \in Nat : n <= Len(h) /\ ~(\E f : f = [i \in 0..n |-> Step(f, i)])}
<1>0. ASSUME NEW f, NEW g, NEW i, i # 0 => f[i - 1] = g[i - 1] PROVE Step(f, i) = Step(g, i)
    BY <1>0 DEF Round
<1>1. ASSUME Bad # {} PROVE FALSE
  <2>1. PICK n \in Bad : \A k \in Bad : n <= k
    <3>1. Bad \subseteq Nat
        OBVIOUS
    <3> HIDE DEF Bad
    <3>2. QED
        BY <1>1, <3>1, LeastNumber
  <2>0. n \in Nat /\ n <= Len(h) /\ ~(\E f : f = [i \in 0..n |-> Step(f, i)])
      OBVIOUS
  <2>2. CASE n = 0
    <3> DEFINE f == [i \in 0..n |-> [list |-> h, pos |-> p]]
    <3>1. f = [i \in 0..n |-> Step(f, i)]
        BY <2>2 DEF Round
    <3> HIDE DEF f
    <3>2. QED
        BY <2>0, <3>1
  <2>3. CASE n > 0
    <3>0. n - 1 \in Nat /\ n - 1 <= Len(h) /\ ~(n <= n - 1)
        BY <2>0, <2>3
    <3>1. n - 1 \in Nat /\ n - 1 <= Len(h) /\ n - 1 \notin Bad
      <4> HIDE DEF Bad
      <4>1. QED
          BY <2>1, <3>0
    <3>2. PICK f : f = [i \in 0..(n - 1) |-> Step(f, i)]
        BY <3>1
    <3> DEFINE g == [i \in 0..n |-> IF i = n THEN Step(f, n) ELSE f[i]]
    <3> HIDE DEF Step, Bad
    <3>3. \A i \in 0..(n - 1) : g[i] = f[i] /\ f[i] = Step(f, i)
      <4>1. TAKE i \in 0..(n - 1)
      <4>2. i \in 0..n /\ i # n
          BY <2>0
      <4>3. QED
          BY <3>2, <4>2
    <3>4. \A i \in 0..n : g[i] = Step(g, i)
      <4>1. TAKE i \in 0..n
      <4>2. i # 0 => i - 1 \in 0..(n - 1)
          BY <2>0
      <4>3. i # 0 => g[i - 1] = f[i - 1]
          BY <4>2, <3>3
      <4>g. g[n] = Step(f, n)
          BY <2>0
      <4> HIDE DEF g
      <4>4. Step(g, i) = Step(f, i)
          BY <4>3, <1>0
      <4>5. CASE i = n
          BY <4>4, <4>5, <4>g
      <4>6. CASE i # n
        <5>1. i \in 0..(n - 1)
            BY <4>6, <2>0
        <5>2. QED
            BY <5>1, <4>4, <3>3
      <4>7. QED
          BY <4>5, <4>6
    <3>5. g = [i \in 0..n |-> Step(g, i)]
      <4>1. g = [i \in 0..n |-> g[i]]
          OBVIOUS
      <4> HIDE DEF g
      <4>2. QED
          BY <3>4, <4>1
    <3> HIDE DEF g
    <3>6. QED
        BY <2>0, <3>5
  <2>4. QED
      BY <2>2, <2>3
<1>2. \E f : f = [i \in 0..Len(h) |-> Step(f, i)]
    BY <1>1
<1> DEFINE round == CHOOSE f : f = [i \in 0..Len(h) |-> Step(f, i)]
<1>3. round = [i \in 0..Len(h) |-> Step(round, i)]
    BY <1>2
<1>4. H!Sift(end, h, p) = round[Len(h)]
    BY DEF H!Sift, Round
<1> HIDE DEF round
<1>5. \A i \in 0..Len(h) : round[i] = Step(round, i)
  <2> HIDE DEF Step
  <2>1. QED
      BY <1>3
<1>6. QED
    BY <1>4, <1>5

(* heapq._siftdown makes a heap of the same entries.                       *)
LEMMA SiftDownHeaps ==
    ASSUME NEW h, NEW n, List(h, n), NEW q, Rising(h, n, q)
    PROVE  LET g == H!SiftDown(h, q)
           IN  List(g, n) /\ In(g, n) = In(h, n) /\ IsHeap(g, n)
<1>l. Len(h) = n /\ n \in Nat /\ q \in 1..n
    BY ListIsSeq DEF List, Rising
<1>1. PICK round : /\ \A i \in 0..n : round[i] = Round("root", round, i, h, q)
                   /\ H!Sift("root", h, q) = round[n]
    BY <1>l, RoundsExist
<1> DEFINE Good(i) == /\ List(round[i].list, n)
                      /\ In(round[i].list, n) = In(h, n)
                      /\ Rising(round[i].list, n, round[i].pos)
                      /\ IsHeap(round[i].list, n) \/ round[i].pos + i <= n
           Bad == {i \in 0..n : ~Good(i)}
<1>2. Good(0)
  <2>0. 0 \in 0..n
      BY <1>l
  <2>1. round[0] = [list |-> h, pos |-> q]
      BY <1>1, <2>0 DEF Round
  <2>2. q + 0 <= n
      BY <1>l
  <2>3. round[0].list = h /\ round[0].pos = q
      BY <2>1
  <2>4. QED
      BY <2>2, <2>3
<1>3. ASSUME NEW i \in 1..n, Good(i - 1) PROVE Good(i)
  <2> DEFINE a == round[i - 1].list
             b == round[i - 1].pos
             t == H!Target("root", a, b)
  <2>1. round[i] = [list |-> H!Swap(a, b, t), pos |-> t]
    <3>1. i \in 0..n /\ i # 0
        BY <1>l
    <3>2. QED
        BY <3>1, <1>1 DEF Round
  <2>2. List(a, n) /\ In(a, n) = In(h, n) /\ Rising(a, n, b) /\ (IsHeap(a, n) \/ b + (i - 1) <= n)
      BY <1>3
  <2> HIDE DEF Good, a, b
  <2>3. /\ t \in 1..n
        /\ Rising(H!Swap(a, b, t), n, t)
        /\ (t = b \/ IsHeap(a, n)) => IsHeap(H!Swap(a, b, t), n)
        /\ t # b => t < b
      BY <2>2, RiseRound
  <2> HIDE DEF t
  <2>4. b \in 1..n
      BY <2>2 DEF Rising
  <2>5. List(H!Swap(a, b, t), n) /\ In(H!Swap(a, b, t), n) = In(h, n)
      BY <2>2, <2>3, <2>4, SwapKeeps
  <2>6. IsHeap(H!Swap(a, b, t), n) \/ t + i <= n
      BY <2>2, <2>3, <2>4, <1>l
  <2>7. round[i].list = H!Swap(a, b, t) /\ round[i].pos = t
      BY <2>1
  <2>8. QED
      BY <2>3, <2>5, <2>6, <2>7 DEF Good
<1> HIDE DEF Good
<1>4. Bad = {}
  <2>1. SUFFICES ASSUME Bad # {} PROVE FALSE
      OBVIOUS
  <2>2. Bad \subseteq Nat
      BY <1>l
  <2>3. PICK i \in Bad : \A k \in Bad : i <= k
    <3> HIDE DEF Bad
    <3>1. QED
        BY <2>1, <2>2, LeastNumber
  <2>4. i \in 1..n /\ i - 1 \in 0..n /\ ~(i <= i - 1)
      BY <1>2, <1>l
  <2>5. Good(i - 1)
      BY <2>3, <2>4
  <2>6. QED
      BY <2>4, <2>5, <1>3
<1>5. Good(n)
    BY <1>4, <1>l
<1>6. round[n].pos \in 1..n
    BY <1>5 DEF Good, Rising
<1>7. ~(round[n].pos + n <= n)
    BY <1>6, <1>l
<1>8. QED
    BY <1>1, <1>5, <1>7 DEF Good, H!SiftDown

(* heapq._siftup makes a heap of a list in which only the entry at q is    *)
(* out of order.                                                           *)
LEMMA SiftUpHeaps ==
    ASSUME NEW h, NEW n, List(h, n), NEW q, Sinking(h, n, q)
    PROVE  LET g == H!SiftUp(h, q)
           IN  List(g, n) /\ In(g, n) = In(h, n) /\ IsHeap(g, n)
<1>l. Len(h) = n /\ n \in Nat /\ q \in 1..n
    BY ListIsSeq DEF List, Sinking
<1>1. PICK round : /\ \A i \in 0..n : round[i] = Round("leaf", round, i, h, q)
                   /\ H!Sift("leaf", h, q) = round[n]
    BY <1>l, RoundsExist
<1> DEFINE Good(i) == /\ List(round[i].list, n)
                      /\ In(round[i].list, n) = In(h, n)
                      /\ Sinking(round[i].list, n, round[i].pos)
                      /\ 2 * round[i].pos > n \/ round[i].pos > i
           Bad == {i \in 0..n : ~Good(i)}
<1>2. Good(0)
  <2>0. 0 \in 0..n
      BY <1>l
  <2>1. round[0] = [list |-> h, pos |-> q]
      BY <1>1, <2>0 DEF Round
  <2>2. q > 0
      BY <1>l
  <2>3. round[0].list = h /\ round[0].pos = q
      BY <2>1
  <2>4. QED
      BY <2>2, <2>3
<1>3. ASSUME NEW i \in 1..n, Good(i - 1) PROVE Good(i)
  <2> DEFINE a == round[i - 1].list
             b == round[i - 1].pos
             t == H!Target("leaf", a, b)
  <2>1. round[i] = [list |-> H!Swap(a, b, t), pos |-> t]
    <3>1. i \in 0..n /\ i # 0
        BY <1>l
    <3>2. QED
        BY <3>1, <1>1 DEF Round
  <2>2. List(a, n) /\ In(a, n) = In(h, n) /\ Sinking(a, n, b) /\ (2 * b > n \/ b > i - 1)
      BY <1>3
  <2> HIDE DEF Good, a, b
  <2>3. /\ t \in 1..n
        /\ Sinking(H!Swap(a, b, t), n, t)
        /\ t >= b
        /\ t = b => 2 * b > n
      BY <2>2, SinkRound
  <2> HIDE DEF t
  <2>4. b \in 1..n
      BY <2>2 DEF Sinking
  <2>5. List(H!Swap(a, b, t), n) /\ In(H!Swap(a, b, t), n) = In(h, n)
      BY <2>2, <2>3, <2>4, SwapKeeps
  <2>6. 2 * t > n \/ t > i
      BY <2>2, <2>3, <2>4, <1>l
  <2>7. round[i].list = H!Swap(a, b, t) /\ round[i].pos = t
      BY <2>1
  <2>8. QED
      BY <2>3, <2>5, <2>6, <2>7 DEF Good
<1> HIDE DEF Good
<1>4. Bad = {}
  <2>1. SUFFICES ASSUME Bad # {} PROVE FALSE
      OBVIOUS
  <2>2. Bad \subseteq Nat
      BY <1>l
  <2>3. PICK i \in Bad : \A k \in Bad : i <= k
    <3> HIDE DEF Bad
    <3>1. QED
        BY <2>1, <2>2, LeastNumber
  <2>4. i \in 1..n /\ i - 1 \in 0..n /\ ~(i <= i - 1)
      BY <1>2, <1>l
  <2>5. Good(i - 1)
      BY <2>3, <2>4
  <2>6. QED
      BY <2>4, <2>5, <1>3
<1>5. Good(n)
    BY <1>4, <1>l
<1> DEFINE list == round[n].list
           pos == round[n].pos
<1>6. List(list, n) /\ In(list, n) = In(h, n) /\ Sinking(list, n, pos) /\ (2 * pos > n \/ pos > n)
    BY <1>5 DEF Good
<1>7. H!SiftUp(h, q) = H!SiftDown(list, pos)
    BY <1>1 DEF H!SiftUp
<1> HIDE DEF list, pos
<1>8. pos \in 1..n
    BY <1>6 DEF Sinking
<1>9. 2 * pos > n
    BY <1>6, <1>8, <1>l
<1>10. Rising(list, n, pos)
    BY <1>6, <1>9, <1>l, AtLeaf
<1>11. QED
    BY <1>6, <1>7, <1>10, SiftDownHeaps

(* heappush adds the call to the entries.                                  *)
LEMMA PushHeaps ==
    ASSUME NEW h, NEW n, List(h, n), IsHeap(h, n), NEW c \in Calls, c \notin In(h, n)
    PROVE  LET g == H!HeapPush(h, c)
           IN  List(g, n + 1) /\ In(g, n + 1) = In(h, n) \cup {c} /\ IsHeap(g, n + 1)
<1> DEFINE a == Append(h, c)
           m == n + 1
<1>0. n \in Nat /\ m \in Nat /\ h \in Seq(Calls) /\ Len(h) = n
    BY ListIsSeq DEF List
<1>1. /\ a \in [1..m -> Calls]
      /\ \A i \in 1..n : a[i] = h[i]
      /\ a[m] = c
  <2>1. /\ a \in Seq(Calls) /\ Len(a) = m
        /\ \A i \in 1..n : a[i] = h[i]
        /\ a[m] = c
      BY <1>0, AppendProperties
  <2> HIDE DEF a
  <2>2. QED
      BY <2>1, LenProperties
<1>2. H!HeapPush(h, c) = H!SiftDown(a, m)
    BY <1>0 DEF H!HeapPush
<1> HIDE DEF a
<1>3. List(a, m)
    BY <1>0, <1>1 DEF List, In
<1>4. In(a, m) = In(h, n) \cup {c}
  <2>1. \A i \in 1..m : i \in 1..n \/ i = m
      BY <1>0
  <2>2. m \in 1..m /\ \A i \in 1..n : i \in 1..m
      BY <1>0
  <2> HIDE DEF m
  <2>3. QED
      BY <1>1, <2>1, <2>2 DEF In
<1>5. Rising(a, m, m)
  <2>1. m \in 1..m
      BY <1>0
  <2>2. ASSUME NEW i \in 2..m PROVE /\ H!Parent(i) # m
                                    /\ i # m => Priority[a[H!Parent(i)]] <= Priority[a[i]]
    <3>1. i \in Nat /\ i >= 2
        BY <1>0
    <3>2. H!Parent(i) \in 1..(i - 1)
        BY <3>1, Tree
    <3>3. H!Parent(i) # m
        BY <3>1, <3>2, <1>0
    <3>4. ASSUME i # m PROVE Priority[a[H!Parent(i)]] <= Priority[a[i]]
      <4>1. i \in 2..n /\ i \in 1..n /\ H!Parent(i) \in 1..n
          BY <3>2, <3>4, <1>0
      <4>2. QED
          BY <4>1, <1>1 DEF IsHeap
    <3>5. QED
        BY <3>3, <3>4
  <2>3. QED
      BY <2>1, <2>2 DEF Rising, GapAt
<1>6. QED
    BY <1>2, <1>3, <1>4, <1>5, SiftDownHeaps

(* heappop takes the first entry out.                                      *)
LEMMA PopHeaps ==
    ASSUME NEW h, NEW n, List(h, n), IsHeap(h, n), n # 0
    PROVE  LET g == H!HeapPop(h)
           IN  List(g, n - 1) /\ In(g, n - 1) = In(h, n) \ {h[1]} /\ IsHeap(g, n - 1)
<1>0. n \in Nat /\ h \in Seq(Calls) /\ Len(h) = n /\ n - 1 \in Nat
    BY ListIsSeq DEF List
<1>1. CASE n = 1
  <2>1. H!HeapPop(h) = <<>>
      BY <1>0, <1>1 DEF H!HeapPop
  <2>2. In(h, n) \ {h[1]} = {} /\ In(<<>>, n - 1) = {}
      BY <1>1 DEF In
  <2>3. List(<<>>, n - 1) /\ IsHeap(<<>>, n - 1)
      BY <1>1 DEF List, IsHeap
  <2>4. QED
      BY <2>1, <2>2, <2>3
<1>2. CASE n # 1
  <2> DEFINE m == n - 1
             a == [SubSeq(h, 1, Len(h) - 1) EXCEPT ![1] = h[Len(h)]]
  <2>1. H!HeapPop(h) = H!SiftUp(a, 1)
      BY <1>0, <1>2 DEF H!HeapPop
  <2>2. /\ a \in [1..m -> Calls]
        /\ a[1] = h[n]
        /\ \A i \in 2..m : a[i] = h[i]
    <3> DEFINE b == SubSeq(h, 1, n - 1)
    <3>1. b \in [1..m -> Calls] /\ \A i \in 1..m : b[i] = h[i]
      <4>1. /\ b \in Seq(Calls) /\ Len(b) = m
            /\ \A i \in 1..m : b[i] = h[1 + i - 1]
        <5>1. 1 \in 1..n + 1 /\ n - 1 \in 0..n /\ 1 <= m
            BY <1>0, <1>2
        <5>2. QED
            BY <1>0, <5>1, SubSeqProperties
      <4> HIDE DEF b
      <4>2. QED
          BY <4>1, LenProperties
    <3> HIDE DEF b
    <3>2. 1 \in 1..m /\ h[n] \in Calls
        BY <1>0, <1>2
    <3>3. a = [b EXCEPT ![1] = h[n]]
        BY <1>0 DEF b
    <3> HIDE DEF a
    <3>4. \A i \in 2..m : i \in 1..m /\ i # 1
        BY <1>0
    <3>5. QED
        BY <3>1, <3>2, <3>3, <3>4
  <2> HIDE DEF a
  <2>3. m \in Nat /\ 1 \in 1..m /\ 1 \in 1..n /\ n \in 1..n /\ n # 1
      BY <1>0, <1>2
  <2>4. List(a, m)
    <3>1. \A i, j \in 1..n : h[i] = h[j] => i = j
        BY DEF List
    <3>2. \A i \in 1..m : i = 1 \/ i \in 2..m
        BY <2>3
    <3>3. \A i \in 2..m : i \in 1..n /\ i # n /\ i # 1
        BY <1>0
    <3>4. ASSUME NEW i \in 1..m, NEW j \in 1..m, a[i] = a[j] PROVE i = j
        BY <2>2, <2>3, <3>1, <3>2, <3>3, <3>4
    <3>5. QED
        BY <2>2, <2>3, <3>4 DEF List
  <2>5. In(a, m) = In(h, n) \ {h[1]}
    <3>1. \A i \in 1..m : i = 1 \/ i \in 2..m
        BY <2>3
    <3>2. \A i \in 1..n : i = 1 \/ i = n \/ i \in 2..m
        BY <1>0
    <3>3. \A i \in 2..m : i \in 1..n /\ i \in 1..m /\ i # 1
        BY <1>0
    <3>4. \A i, j \in 1..n : h[i] = h[j] => i = j
        BY DEF List
    <3> HIDE DEF m
    <3>5. In(a, m) \subseteq In(h, n) \ {h[1]}
      <4>1. SUFFICES ASSUME NEW i \in 1..m PROVE a[i] \in In(h, n) /\ a[i] # h[1]
          BY DEF In
      <4>2. QED
          BY <2>2, <2>3, <3>1, <3>3, <3>4 DEF In
    <3>6. In(h, n) \ {h[1]} \subseteq In(a, m)
      <4>1. SUFFICES ASSUME NEW i \in 1..n, h[i] # h[1] PROVE h[i] \in In(a, m)
          BY DEF In
      <4>2. i = n \/ i \in 2..m
          BY <4>1, <3>2
      <4>3. QED
          BY <4>2, <2>2, <2>3, <3>3 DEF In
    <3>7. QED
        BY <3>5, <3>6
  <2>6. Sinking(a, m, 1)
    <3>1. ASSUME NEW i \in 2..m, H!Parent(i) # 1 PROVE Priority[a[H!Parent(i)]] <= Priority[a[i]]
      <4>1. i \in Nat /\ i >= 2 /\ i \in 2..n
          BY <1>0
      <4>2. H!Parent(i) \in 1..(i - 1)
          BY <4>1, Tree
      <4>3. H!Parent(i) \in 2..m
          BY <4>2, <3>1, <1>0
      <4>4. a[i] = h[i] /\ a[H!Parent(i)] = h[H!Parent(i)]
          BY <4>3, <2>2
      <4>5. QED
          BY <4>1, <4>4 DEF IsHeap
    <3>2. GapAt(a, m, 1)
        BY DEF GapAt
    <3>3. QED
        BY <2>3, <3>1, <3>2 DEF Sinking
  <2>7. QED
      BY <2>1, <2>4, <2>5, <2>6, SiftUpHeaps
<1>3. QED
    BY <1>1, <1>2

--------------------------------------------------------------------------------
(* The heap and the states of the calls, for the refinement: a call is     *)
(* queued once, as long as its callback has not run.                       *)
HeapInv ==
    /\ List(heap, Len(heap))
    /\ IsHeap(heap, Len(heap))
    /\ call \in [Calls -> CallStates]
    /\ \A c \in In(heap, Len(heap)) : call[c] \in {"waiting", "abandoned"}

LEMMA HeapInit == H!Init => HeapInv /\ H!L!Init
<1> SUFFICES ASSUME H!Init PROVE HeapInv /\ H!L!Init
    OBVIOUS
<1>1. heap = <<>> /\ Len(heap) = 0
    BY DEF H!Init
<1>2. HeapInv
    BY <1>1 DEF H!Init, HeapInv, List, IsHeap, In, CallStates
<1>3. H!Entries = {}
    BY <1>1 DEF H!Entries
<1>4. QED
    BY <1>2, <1>3 DEF H!Init, H!L!Init

(* Every step of the detailed lock is a step of LockQueue, for the set of  *)
(* calls in the heap.                                                      *)
LEMMA HeapNext == HeapInv /\ [H!Next]_(H!vars) => HeapInv' /\ [H!L!Next]_(H!L!vars)
<1> SUFFICES ASSUME HeapInv, [H!Next]_(H!vars) PROVE HeapInv' /\ [H!L!Next]_(H!L!vars)
    OBVIOUS
<1> DEFINE n == Len(heap)
<1>0. /\ List(heap, n) /\ IsHeap(heap, n)
      /\ call \in [Calls -> CallStates]
      /\ \A c \in In(heap, n) : call[c] \in {"waiting", "abandoned"}
    BY DEF HeapInv
<1>1. /\ heap \in Seq(Calls) /\ n \in Nat
      /\ H!Entries = In(heap, n)
      /\ In(heap, n) \subseteq Calls
    BY <1>0, ListIsSeq DEF H!Entries, In, List
<1>2. ASSUME NEW c \in Calls, H!Enter(c) PROVE HeapInv' /\ H!L!Enter(c)
  <2>1. c \notin In(heap, n) /\ call[c] = "idle" /\ call' = [call EXCEPT ![c] = "waiting"]
      BY <1>0, <1>2 DEF H!Enter
  <2> DEFINE g == H!HeapPush(heap, c)
  <2>2. heap' = g
      BY <1>2 DEF H!Enter
  <2> HIDE DEF n
  <2>3. List(g, n + 1) /\ In(g, n + 1) = In(heap, n) \cup {c} /\ IsHeap(g, n + 1)
      BY <1>0, <2>1, PushHeaps
  <2> HIDE DEF g
  <2>4. Len(g) = n + 1
      BY <2>3, ListIsSeq
  <2>5. call' \in [Calls -> CallStates] /\ \A d \in In(g, n + 1) : call'[d] \in {"waiting", "abandoned"}
      BY <1>0, <1>1, <2>1, <2>3 DEF CallStates
  <2>6. HeapInv'
      BY <2>2, <2>3, <2>4, <2>5 DEF HeapInv, List, IsHeap, In
  <2>7. H!Entries' = In(heap, n) \cup {c}
    <3>1. {g[i] : i \in DOMAIN g} = In(g, n + 1)
        BY <2>3 DEF In, List
    <3>2. QED
        BY <3>1, <2>2, <2>3 DEF H!Entries
  <2>8. QED
      BY <1>1, <1>2, <2>1, <2>6, <2>7 DEF H!Enter, H!L!Enter
<1>3. ASSUME H!RunCallback PROVE HeapInv' /\ \E c \in Calls : H!L!RunCallback(c)
  <2> DEFINE c == heap[1]
             g == H!HeapPop(heap)
  <2>1. heap # <<>> /\ heap' = g /\ call' = [call EXCEPT ![c] = IF @ = "waiting" THEN "called" ELSE "idle"]
      BY <1>3 DEF H!RunCallback
  <2>2. n # 0 /\ 1 \in 1..n
      BY <1>1, <2>1
  <2> HIDE DEF n
  <2>3. c \in In(heap, n) /\ c \in Calls
      BY <1>1, <2>2 DEF In
  <2>4. \A d \in In(heap, n) : Priority[c] <= Priority[d]
      BY <1>0, RootIsLeast DEF In
  <2>5. List(g, n - 1) /\ In(g, n - 1) = In(heap, n) \ {c} /\ IsHeap(g, n - 1)
      BY <1>0, <2>2, PopHeaps
  <2> HIDE DEF c, g
  <2>6. Len(g) = n - 1
      BY <2>5, ListIsSeq
  <2>7. call' \in [Calls -> CallStates] /\ \A d \in In(g, n - 1) : call'[d] \in {"waiting", "abandoned"}
      BY <1>0, <1>1, <2>1, <2>3, <2>5 DEF CallStates
  <2>8. HeapInv'
      BY <2>1, <2>5, <2>6, <2>7 DEF HeapInv, List, IsHeap, In
  <2>9. H!Entries' = H!Entries \ {c}
    <3>1. {g[i] : i \in DOMAIN g} = In(g, n - 1)
        BY <2>5 DEF In, List
    <3>2. QED
        BY <3>1, <1>1, <2>1, <2>5 DEF H!Entries
  <2>10. H!L!IsNext(c)
      BY <1>1, <2>3, <2>4 DEF H!L!IsNext
  <2>11. H!L!RunCallback(c)
      BY <1>3, <2>1, <2>9, <2>10 DEF H!RunCallback, H!L!RunCallback
  <2>12. QED
      BY <2>3, <2>8, <2>11
<1>4. ASSUME UNCHANGED heap,
             \/ \E c \in Calls : H!L!Resume(c) \/ H!L!Exit(c) \/ H!L!Cancel(c)
             \/ H!L!RunLoop
             \/ H!L!Close
      PROVE  HeapInv'
  <2>1. heap' = heap /\ n' = n
      BY <1>4
  <2> SUFFICES /\ call' \in [Calls -> CallStates]
               /\ \A c \in In(heap, n) : call'[c] \in {"waiting", "abandoned"}
      BY <1>0, <2>1 DEF HeapInv, List, IsHeap, In
  <2> HIDE DEF n
  <2>2. ASSUME NEW c \in Calls, H!L!Resume(c) \/ H!L!Exit(c) \/ H!L!Cancel(c)
        PROVE  /\ call' \in [Calls -> CallStates]
               /\ \A d \in In(heap, n) : call'[d] \in {"waiting", "abandoned"}
      BY <2>2, <1>0, <1>1 DEF H!L!Resume, H!L!Exit, H!L!Cancel, CallStates
  <2>3. ASSUME H!L!RunLoop \/ H!L!Close
        PROVE  /\ call' \in [Calls -> CallStates]
               /\ \A d \in In(heap, n) : call'[d] \in {"waiting", "abandoned"}
      BY <2>3, <1>0 DEF H!L!RunLoop, H!L!Close
  <2>4. QED
      BY <1>4, <2>2, <2>3
<1>5. ASSUME UNCHANGED H!vars PROVE HeapInv' /\ UNCHANGED H!L!vars
  <2>1. UNCHANGED <<call, heap, runner, locked, releaseEvent>>
      BY <1>5 DEF H!vars
  <2>2. HeapInv'
      BY <1>0, <2>1 DEF HeapInv, List, IsHeap, In
  <2>3. H!Entries' = H!Entries
      BY <2>1 DEF H!Entries
  <2>4. QED
      BY <2>1, <2>2, <2>3 DEF H!L!vars
<1>6. QED
    BY <1>2, <1>3, <1>4, <1>5 DEF H!Next, H!L!Next

(***************************************************************************)
(* The list that asyncio.PriorityQueue keeps with heapq implements the     *)
(* queue of LockQueue for any number of calls and any priorities: every    *)
(* pop yields a queued call of least priority, none is lost or doubled.    *)
(***************************************************************************)
THEOREM HeapRefinesTheorem == H!Spec => H!RefinesLockQueue
<1>1. H!Spec => []HeapInv
    BY HeapInit, HeapNext, PTL DEF H!Spec
<1>2. QED
    BY <1>1, HeapInit, HeapNext, PTL DEF H!Spec, H!RefinesLockQueue, H!L!Spec
================================================================================
