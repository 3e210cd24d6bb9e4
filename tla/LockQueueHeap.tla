----------------------------- MODULE LockQueueHeap -----------------------------
(***************************************************************************)
(* LockQueue with its asyncio.PriorityQueue in detail: a binary heap that  *)
(* Python's heapq keeps in a list, and that compares PrioritizedCallables  *)
(* by their priority only (the callback has compare=False).  Which of two  *)
(* callbacks of equal priority goes first is decided by the shape of the   *)
(* heap, not by their order of arrival.                                    *)
(***************************************************************************)
EXTENDS Naturals, Sequences

CONSTANTS Calls, Priority, MayCancel

VARIABLES
    call, runner, locked, releaseEvent,     \* as in LockQueue
    heap                                    \* the list of _task_queue

vars == <<call, heap, runner, locked, releaseEvent>>

Entries == {heap[i] : i \in DOMAIN heap}

L == INSTANCE LockQueue WITH queue <- Entries

--------------------------------------------------------------------------------
(* Mutant of Less: higher numbers go first.                                *)
LessReversed(x, y) == Priority[x] > Priority[y]

(* PrioritizedCallable.__lt__: order=True, and af does not take part.      *)
Less(x, y) == Priority[x] < Priority[y]

Swap(h, i, j) == [h EXCEPT ![i] = h[j], ![j] = h[i]]

Parent(p) == p \div 2

(* Where the entry at p goes next: towards the root to its parent while it *)
(* is less than that, towards a leaf to the lesser child, the right one of *)
(* two equals.                                                             *)
Target(end, h, p) ==
    LET left == 2 * p
    IN  CASE end = "root" -> IF p > 1 /\ Less(h[p], h[Parent(p)]) THEN Parent(p) ELSE p
          [] end = "leaf" -> IF left > Len(h) THEN p
                             ELSE IF left < Len(h) /\ ~Less(h[left], h[left + 1])
                             THEN left + 1 ELSE left

(* The loops of heapq: they stop when the entry stays where it is, which   *)
(* takes fewer rounds than the list has entries.                           *)
Sift(end, h, p) ==
    LET round[i \in 0..Len(h)] ==
            IF i = 0 THEN [list |-> h, pos |-> p]
            ELSE LET list == round[i - 1].list
                     pos == round[i - 1].pos
                     target == Target(end, list, pos)
                 IN  [list |-> Swap(list, pos, target), pos |-> target]
    IN  round[Len(h)]

(* heapq._siftdown: the entry at p moves towards the root.                 *)
SiftDown(h, p) == Sift("root", h, p).list

(* heapq._siftup: the entry at p sinks to a leaf, then it rises again.     *)
SiftUp(h, p) ==
    LET sunk == Sift("leaf", h, p) IN SiftDown(sunk.list, sunk.pos)

HeapPush(h, x) == SiftDown(Append(h, x), Len(h) + 1)

(* heapq.heappop leaves the last entry in place of the first and sifts it. *)
HeapPop(h) ==
    IF Len(h) = 1 THEN <<>>
    ELSE SiftUp([SubSeq(h, 1, Len(h) - 1) EXCEPT ![1] = h[Len(h)]], 1)

--------------------------------------------------------------------------------
Init ==
    /\ call = [c \in Calls |-> "idle"]
    /\ heap = <<>>
    /\ runner = "get"
    /\ locked = FALSE
    /\ releaseEvent = FALSE

(* LockClient.__aenter__ and LockQueue.put.                                *)
Enter(c) ==
    /\ call[c] = "idle"
    /\ call' = [call EXCEPT ![c] = "waiting"]
    /\ heap' = HeapPush(heap, c)
    /\ UNCHANGED <<runner, locked, releaseEvent>>

(* One round of LockQueue._run, for the callback that the heap yields.     *)
RunCallback ==
    /\ runner = "get"
    /\ heap # <<>>
    /\ ~locked
    /\ heap' = HeapPop(heap)
    /\ releaseEvent' = FALSE
    /\ locked' = TRUE
    /\ call' = [call EXCEPT ![heap[1]] = IF @ = "waiting" THEN "called" ELSE "idle"]
    /\ runner' = "wait"

Next ==
    \/ \E c \in Calls : Enter(c)
    \/ RunCallback
    \/ /\ UNCHANGED heap
       /\ \/ \E c \in Calls : L!Resume(c) \/ L!Exit(c) \/ L!Cancel(c)
          \/ L!RunLoop
          \/ L!Close

Spec == Init /\ [][Next]_vars

--------------------------------------------------------------------------------
(***************************************************************************)
(* The heap implements the queue of LockQueue: every pop returns a waiting *)
(* or abandoned callback than which no queued one has a higher priority,   *)
(* and neither push nor pop loses or duplicates a callback.                *)
(***************************************************************************)
RefinesLockQueue == L!Spec
================================================================================
