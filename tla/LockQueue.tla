------------------------------- MODULE LockQueue -------------------------------
(***************************************************************************)
(* The prioritised lock of the full node, lotus/full_node/lock_queue.py.   *)
(*                                                                         *)
(* A "call" is one execution of `async with client:' by some task.  Its    *)
(* __aenter__ queues a callback and waits for an event; the runner task    *)
(* LockQueue._run takes the callbacks out one at a time, acquires the      *)
(* inner asyncio lock on behalf of the call, sets the call's event, and    *)
(* waits for the release event.  __aexit__ releases the lock and sets the  *)
(* release event.                                                          *)
(*                                                                         *)
(* A step is what asyncio runs without suspending.  _inner_lock is the     *)
(* lock of Blockchain, which nothing else acquires, so that                *)
(* `await self.acquire()' does not suspend when the lock is free, and the  *)
(* runner goes from the queue to the callback in one step.                 *)
(*                                                                         *)
(* The server cancels the handlers of a peer that disconnects and those    *)
(* that time out; a cancelled waiter leaves its callback in the queue.     *)
(***************************************************************************)
EXTENDS Naturals

CONSTANTS
    Calls,          \* the concurrent executions of `async with client'
    Priority,       \* the priority of the LockClient of each call; 0 goes first
    MayCancel       \* can the tasks that wait for the lock be cancelled?

ASSUME PriorityAssumption == Priority \in [Calls -> Nat]
ASSUME MayCancelAssumption == MayCancel \in BOOLEAN

VARIABLES
    call,           \* where each call is: see TypeOK
    queue,          \* the calls whose callback is in _task_queue
    runner,         \* the await at which _run is suspended
    locked,         \* is _inner_lock locked?
    releaseEvent    \* is _release_event set?

vars == <<call, queue, runner, locked, releaseEvent>>

(***************************************************************************)
(* "called": the event of the call is set, its task has not run since.     *)
(* "abandoned": its task was cancelled, its callback is still queued.      *)
(***************************************************************************)
CallStates == {"idle", "waiting", "called", "holding", "abandoned"}

(* Every variable has the values that the code can give it. *)
TypeOK ==
    /\ call \in [Calls -> CallStates]
    /\ queue \in SUBSET Calls
    /\ runner \in {"get", "wait", "closed"}
    /\ locked \in BOOLEAN
    /\ releaseEvent \in BOOLEAN

Init ==
    /\ call = [c \in Calls |-> "idle"]
    /\ queue = {}
    /\ runner = "get"
    /\ locked = FALSE
    /\ releaseEvent = FALSE

--------------------------------------------------------------------------------
(* LockClient.__aenter__ up to `await called.wait()'.                      *)
Enter(c) ==
    /\ call[c] = "idle"
    /\ call' = [call EXCEPT ![c] = "waiting"]
    /\ queue' = queue \cup {c}
    /\ UNCHANGED <<runner, locked, releaseEvent>>

(***************************************************************************)
(* PriorityQueue.get: an entry of least priority, whichever among equals,  *)
(* since PrioritizedCallable compares by priority only.                    *)
(***************************************************************************)
IsNext(c) == c \in queue /\ \A d \in queue : Priority[c] <= Priority[d]

(***************************************************************************)
(* The runner from `_task_queue.get()' to `_release_event.wait()': a new   *)
(* release event, the inner lock, the callback.  The callback of a call    *)
(* that was abandoned sets an event that no task waits for.                *)
(***************************************************************************)
RunCallback(c) ==
    /\ runner = "get"
    /\ IsNext(c)
    /\ ~locked
    /\ queue' = queue \ {c}
    /\ releaseEvent' = FALSE
    /\ locked' = TRUE
    /\ call' = [call EXCEPT ![c] = IF @ = "waiting" THEN "called" ELSE "idle"]
    /\ runner' = "wait"

(* The runner after `_release_event.wait()', back to the queue.            *)
RunLoop ==
    /\ runner = "wait"
    /\ releaseEvent
    /\ runner' = "get"
    /\ UNCHANGED <<call, queue, locked, releaseEvent>>

(* The task of the call resumes after `await called.wait()'.               *)
Resume(c) ==
    /\ call[c] = "called"
    /\ call' = [call EXCEPT ![c] = "holding"]
    /\ UNCHANGED <<queue, runner, locked, releaseEvent>>

(* Mutant of Exit: release() leaves out `_release_event.set()'.            *)
ExitNoEvent(c) ==
    /\ call[c] = "holding"
    /\ call' = [call EXCEPT ![c] = "idle"]
    /\ locked' = FALSE
    /\ UNCHANGED <<queue, runner, releaseEvent>>

(* Mutant of Exit: release() leaves out `_inner_lock.release()'.           *)
ExitNoRelease(c) ==
    /\ call[c] = "holding"
    /\ call' = [call EXCEPT ![c] = "idle"]
    /\ releaseEvent' = TRUE
    /\ UNCHANGED <<queue, runner, locked>>

(***************************************************************************)
(* LockClient.__aexit__, which also runs when the body of the `async with' *)
(* raises or is cancelled.                                                 *)
(***************************************************************************)
Exit(c) ==
    /\ call[c] = "holding"
    /\ call' = [call EXCEPT ![c] = "idle"]
    /\ locked' = FALSE
    /\ releaseEvent' = TRUE
    /\ UNCHANGED <<queue, runner>>

(* Mutant of Cancel: __aenter__ releases the lock whenever it is cancelled,*)
(* also when it has not been given the lock yet.                           *)
CancelReleases(c) ==
    /\ MayCancel
    /\ \/ /\ call[c] = "waiting"
          /\ call' = [call EXCEPT ![c] = "abandoned"]
       \/ /\ call[c] = "called"
          /\ call' = [call EXCEPT ![c] = "idle"]
    /\ locked' = FALSE
    /\ releaseEvent' = TRUE
    /\ UNCHANGED <<queue, runner>>

(***************************************************************************)
(* The task is cancelled inside __aenter__, before or after its event is   *)
(* set: CancelledError leaves __aenter__ and __aexit__ is not called.      *)
(***************************************************************************)
Cancel(c) ==
    /\ MayCancel
    /\ \/ /\ call[c] = "waiting"
          /\ call' = [call EXCEPT ![c] = "abandoned"]
       \/ /\ call[c] = "called"
          /\ call' = [call EXCEPT ![c] = "idle"]
    /\ UNCHANGED <<queue, runner, locked, releaseEvent>>

(* LockQueue.close: _run catches CancelledError and ends.                  *)
Close ==
    /\ runner # "closed"
    /\ runner' = "closed"
    /\ UNCHANGED <<call, queue, locked, releaseEvent>>

Next ==
    \/ \E c \in Calls :
        Enter(c) \/ RunCallback(c) \/ Resume(c) \/ Exit(c) \/ Cancel(c)
    \/ RunLoop
    \/ Close

Spec == Init /\ [][Next]_vars

(***************************************************************************)
(* asyncio runs every task that is ready, and the bodies of the            *)
(* `async with' statements terminate.  Nothing makes a task enter, be      *)
(* cancelled, or close the queue.                                          *)
(***************************************************************************)
Fairness ==
    /\ WF_vars(RunLoop)
    /\ WF_vars(\E c \in Calls : RunCallback(c))
    /\ \A c \in Calls : WF_vars(Resume(c)) /\ WF_vars(Exit(c))

FairSpec == Spec /\ Fairness

--------------------------------------------------------------------------------
InCriticalSection(c) == call[c] \in {"called", "holding"}

(***************************************************************************)
(* Two calls are never inside `async with' at once, also when waiters are  *)
(* cancelled at any moment and the runner is closed under them: the lock   *)
(* that __aexit__ releases is the one its own call was given.              *)
(***************************************************************************)
MutualExclusion ==
    \A c, d \in Calls : InCriticalSection(c) /\ InCriticalSection(d) => c = d

(***************************************************************************)
(* A call inside `async with' owns the inner lock and the runner is not    *)
(* past it: the release event still belongs to this call.                  *)
(***************************************************************************)
OwnsTheLock ==
    \A c \in Calls : InCriticalSection(c) =>
        locked /\ ~releaseEvent /\ runner # "get"

(***************************************************************************)
(* When the runner is at its queue the inner lock is free, so that it      *)
(* never suspends with a callback it has already taken (a callback of      *)
(* higher priority would then be overtaken).                               *)
(***************************************************************************)
RunnerFindsLockFree == runner = "get" => ~locked

(* Every waiter has its callback in the queue, and nobody else has.        *)
QueueHoldsWaiters ==
    \A c \in Calls : c \in queue <=> call[c] \in {"waiting", "abandoned"}

Inv ==
    /\ TypeOK
    /\ MutualExclusion
    /\ OwnsTheLock
    /\ RunnerFindsLockFree
    /\ QueueHoldsWaiters
    /\ releaseEvent => ~locked

(* The lock was given to a call that was cancelled, and nobody has it.      *)
Lost == locked /\ ~releaseEvent /\ \A c \in Calls : ~InCriticalSection(c)

(***************************************************************************)
(* The only way in which the lock stays locked for ever is that it is lost:*)
(* no sequence of releases, closings and cancellations loses a release.    *)
(***************************************************************************)
ReleasedUnlessLost == <>Lost \/ (locked ~> (~locked \/ runner = "closed"))

(***************************************************************************)
(* A call that no other call matches in priority gets the lock unless it   *)
(* is cancelled itself or the lock is lost, however many calls of lower    *)
(* priority keep coming.                                                   *)
(***************************************************************************)
TopPriorityServed ==
    <>Lost \/
    \A c \in Calls :
        (\A d \in Calls \ {c} : Priority[c] < Priority[d]) =>
            (call[c] = "waiting" ~> (call[c] # "waiting" \/ runner = "closed"))
================================================================================
