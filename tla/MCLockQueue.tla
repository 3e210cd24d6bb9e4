------------------------------ MODULE MCLockQueue ------------------------------
(* An instance of LockQueue with the heap of LockQueueHeap for its queue:  *)
(* one call of the ultra-priority client, two of the high-priority one     *)
(* (blocks), two of the low-priority one (transactions).                   *)
EXTENDS LockQueue, TLC

CONSTANTS c0, c1, c2, c3, c4

MCCalls == {c0, c1, c2, c3, c4}
MCPriority == c0 :> 0 @@ c1 :> 1 @@ c2 :> 1 @@ c3 :> 2 @@ c4 :> 2

VARIABLE heap

H == INSTANCE LockQueueHeap

(* The queue is what is in the heap, whatever the heap does. *)
HeapSpec ==
    /\ H!Init /\ queue = {}
    /\ [][H!Next /\ queue' = H!Entries']_<<vars, heap>>
    /\ Fairness

(* The heap implements the queue; see LockQueueHeap. *)
RefinesLockQueue == H!RefinesLockQueue
================================================================================
