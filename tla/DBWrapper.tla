------------------------------- MODULE DBWrapper -------------------------------
(***************************************************************************)
(* DBWrapper2 (lotus/util/db_wrapper.py): the database of the node, shared *)
(* by its tasks.  One connection writes, for one task at a time; the       *)
(* others read.  Transactions nest by SQLite's savepoints.                 *)
(*                                                                         *)
(* A connection of aiosqlite runs its commands on a thread of its own, in  *)
(* the order in which they were requested.  A task that requests one       *)
(* awaits the result; if the task is cancelled meanwhile, the thread       *)
(* executes the command all the same.  So a step is either what a task     *)
(* does between two awaits, or one command of the write connection.        *)
(*                                                                         *)
(* The content of the database is the set of the writes made to it.        *)
(***************************************************************************)
EXTENDS Naturals, Sequences, FiniteSets

CONSTANTS
    Tasks,
    NoTask,
    ReadConnections,    \* number of connections in the pool
    MaxContexts,        \* bound: contexts that all tasks together may enter
    MaxDepth,           \* bound: contexts that a task may nest
    MaxWrites           \* bound: writes that all tasks together may request

ASSUME ParametersAssumption ==
    /\ NoTask \notin Tasks /\ IsFiniteSet(Tasks)
    /\ ReadConnections \in Nat \ {0}
    /\ MaxContexts \in Nat /\ MaxDepth \in Nat /\ MaxWrites \in Nat

VARIABLES
    pc,             \* what each task awaits; "run": it is free to go on
    contexts,       \* the contexts each task is in, the innermost last
    lock,           \* the task that holds _lock, or NoTask
    waiting,        \* the tasks that wait for _lock, in order
    currentWriter,  \* _current_writer
    inUse,          \* the tasks in _in_use
    entered,        \* contexts entered so far: _savepoint_name
    queue,          \* commands the thread of the write connection has yet to execute
    sql,            \* the write connection: savepoints, content; and what is committed
    writes,         \* history: number of writes requested so far
    kept,           \* history: writes of each task's transaction that were not rolled back
    finished,       \* history: the writes of each transaction that asked to be committed
    returned,       \* history: the writes of the contexts that were left normally
    orphaned        \* history: was an outermost SAVEPOINT left without RELEASE?

tasks == <<pc, contexts, lock, waiting, currentWriter, inUse, entered>>
history == <<writes, kept, finished, returned, orphaned>>
vars == <<tasks, queue, sql, history>>

(***************************************************************************)
(* "top", "nested": a transaction of a task that had none, or had one;     *)
(* "pool": a reader with a connection of the pool; "shared": a reader with *)
(* a connection the task has already, or writer_maybe_transaction inside a *)
(* transaction.                                                            *)
(***************************************************************************)
Kinds == {"top", "nested", "pool", "shared"}
Commands == [op : {"savepoint", "write", "rollback", "release"}, of : Nat]
TaskStates == {"run", "lock", "pool", "savepoint", "write", "rollback", "release", "undo", "raise"}

(* Every variable has the values that the code can give it.               *)
TypeOK ==
    /\ pc \in [Tasks -> TaskStates]
    /\ contexts \in [Tasks -> Seq([kind : Kinds, name : Nat, kept : SUBSET Nat])]
    /\ lock \in Tasks \cup {NoTask}
    /\ waiting \in Seq(Tasks)
    /\ currentWriter \in Tasks \cup {NoTask}
    /\ inUse \subseteq Tasks
    /\ queue \in Seq(Commands)
    /\ sql \in [data : SUBSET Nat, committed : SUBSET Nat,
                saves : Seq([name : Nat, data : SUBSET Nat])]
    /\ entered \in Nat /\ writes \in Nat
    /\ kept \in [Tasks -> SUBSET Nat]
    /\ finished \subseteq SUBSET Nat
    /\ returned \subseteq Nat
    /\ orphaned \in BOOLEAN

Init ==
    /\ pc = [t \in Tasks |-> "run"]
    /\ contexts = [t \in Tasks |-> <<>>]
    /\ lock = NoTask /\ waiting = <<>> /\ currentWriter = NoTask
    /\ inUse = {} /\ entered = 0
    /\ queue = <<>>
    /\ sql = [data |-> {}, committed |-> {}, saves |-> <<>>]
    /\ writes = 0
    /\ kept = [t \in Tasks |-> {}]
    /\ finished = {} /\ returned = {} /\ orphaned = FALSE

--------------------------------------------------------------------------------
(* The write connection: SAVEPOINT, RELEASE and ROLLBACK TO of SQLite.     *)

Position(s, n) == CHOOSE i \in DOMAIN s.saves : s.saves[i].name = n

Executed(s, c) ==
    CASE c.op = "savepoint" ->
            [s EXCEPT !.saves = Append(@, [name |-> c.of, data |-> s.data])]
      [] c.op = "write" ->
            [s EXCEPT !.data = @ \cup {c.of}]
      [] c.op = "rollback" ->
            [s EXCEPT !.data = s.saves[Position(s, c.of)].data,
                      !.saves = SubSeq(@, 1, Position(s, c.of))]
      [] c.op = "release" ->
            [s EXCEPT !.saves = SubSeq(@, 1, Position(s, c.of) - 1),
                      !.committed = IF Position(s, c.of) = 1 THEN s.data ELSE @]

Execute ==
    /\ queue # <<>>
    /\ sql' = Executed(sql, Head(queue))
    /\ queue' = Tail(queue)
    /\ UNCHANGED <<tasks, history>>

Request(op, n) == queue' = Append(queue, [op |-> op, of |-> n])

(* The result of what the task requested last is there: only the holder of *)
(* the lock requests something, and the thread keeps the order.            *)
Answered == queue = <<>>

--------------------------------------------------------------------------------
(* Entering a context.                                                     *)

Innermost(t) == contexts[t][Len(contexts[t])]

MayEnter(t) ==
    /\ pc[t] = "run"
    /\ entered + Cardinality({u \in Tasks : pc[u] \in {"lock", "pool"}}) < MaxContexts
    /\ Len(contexts[t]) < MaxDepth

Push(t, kind, k) ==
    /\ contexts' = [contexts EXCEPT ![t] = Append(@, [kind |-> kind, name |-> entered, kept |-> k])]
    /\ entered' = entered + 1

Pop(t) == contexts' = [contexts EXCEPT ![t] = SubSeq(@, 1, Len(@) - 1)]

(* The start of _savepoint_ctx.                                            *)
Savepoint(t, kind) ==
    /\ Push(t, kind, kept[t])
    /\ Request("savepoint", entered)
    /\ pc' = [pc EXCEPT ![t] = "savepoint"]

(* writer and writer_maybe_transaction, for a task without a transaction.  *)
EnterTop(t) ==
    /\ MayEnter(t)
    /\ currentWriter # t
    /\ IF lock = NoTask /\ waiting = <<>>
       THEN Savepoint(t, "top") /\ lock' = t /\ UNCHANGED waiting
       ELSE /\ waiting' = Append(waiting, t)
            /\ pc' = [pc EXCEPT ![t] = "lock"]
            /\ UNCHANGED <<contexts, entered, queue, lock>>
    /\ UNCHANGED <<currentWriter, inUse, sql, history>>

(* asyncio.Lock: it is handed to the first task that waits.                *)
GetLock(t) ==
    /\ pc[t] = "lock"
    /\ lock = NoTask
    /\ t = Head(waiting)
    /\ lock' = t
    /\ waiting' = Tail(waiting)
    /\ Savepoint(t, "top")
    /\ UNCHANGED <<currentWriter, inUse, sql, history>>

(* writer, for a task that is in a transaction.                            *)
EnterNested(t) ==
    /\ MayEnter(t)
    /\ currentWriter = t
    /\ Savepoint(t, "nested")
    /\ UNCHANGED <<lock, waiting, currentWriter, inUse, sql, history>>

(* writer_maybe_transaction in a transaction; reader_no_transaction of a   *)
(* task that has a connection.                                             *)
EnterShared(t) ==
    /\ MayEnter(t)
    /\ currentWriter = t \/ t \in inUse
    /\ Push(t, "shared", {})
    /\ UNCHANGED <<pc, lock, waiting, currentWriter, inUse, queue, sql, history>>

(* Mutant of EnterReader: a reader takes a connection of the pool, even if *)
(* its task has a transaction.                                             *)
EnterReaderAlways(t) ==
    /\ MayEnter(t)
    /\ t \notin inUse
    /\ pc' = [pc EXCEPT ![t] = "pool"]
    /\ UNCHANGED <<contexts, lock, waiting, currentWriter, inUse, entered, queue, sql, history>>

(* reader_no_transaction, for a task without a connection.                 *)
EnterReader(t) ==
    /\ MayEnter(t)
    /\ currentWriter # t /\ t \notin inUse
    /\ pc' = [pc EXCEPT ![t] = "pool"]
    /\ UNCHANGED <<contexts, lock, waiting, currentWriter, inUse, entered, queue, sql, history>>

GetConnection(t) ==
    /\ pc[t] = "pool"
    /\ Cardinality(inUse) < ReadConnections
    /\ inUse' = inUse \cup {t}
    /\ Push(t, "pool", {})
    /\ pc' = [pc EXCEPT ![t] = "run"]
    /\ UNCHANGED <<lock, waiting, currentWriter, queue, sql, history>>

--------------------------------------------------------------------------------
(* Inside a context.                                                       *)

Write(t) ==
    /\ pc[t] = "run"
    /\ currentWriter = t
    /\ writes < MaxWrites
    /\ Request("write", writes)
    /\ writes' = writes + 1
    /\ kept' = [kept EXCEPT ![t] = @ \cup {writes}]
    /\ pc' = [pc EXCEPT ![t] = "write"]
    /\ UNCHANGED <<contexts, lock, waiting, currentWriter, inUse, entered, sql,
                   finished, returned, orphaned>>

(* The SAVEPOINT or the write was executed.                                *)
GoOn(t) ==
    /\ pc[t] \in {"savepoint", "write"}
    /\ Answered
    /\ pc' = [pc EXCEPT ![t] = "run"]
    /\ currentWriter' = IF pc[t] = "savepoint" THEN t ELSE currentWriter
    /\ UNCHANGED <<contexts, lock, waiting, inUse, entered, queue, sql, history>>

--------------------------------------------------------------------------------
(* Leaving a context.                                                      *)

InTransaction(t) == contexts[t] # <<>> /\ Innermost(t).kind \in {"top", "nested"}
InReader(t) == contexts[t] # <<>> /\ Innermost(t).kind \in {"pool", "shared"}

(* The end of a reader, normal or not: a connection of the pool goes back. *)
LeaveReader(t, next) ==
    /\ InReader(t)
    /\ Pop(t)
    /\ inUse' = IF Innermost(t).kind = "pool" THEN inUse \ {t} ELSE inUse
    /\ pc' = [pc EXCEPT ![t] = next]
    /\ UNCHANGED <<lock, waiting, currentWriter, entered, queue, sql, history>>

(* The body of a transaction ends: the finally clause of writer.           *)
EndBody(t) ==
    currentWriter' = IF Innermost(t).kind = "top" THEN NoTask ELSE currentWriter

LeaveWriter(t) ==
    /\ InTransaction(t)
    /\ EndBody(t)
    /\ Request("release", Innermost(t).name)
    /\ pc' = [pc EXCEPT ![t] = "release"]
    /\ finished' = IF Innermost(t).kind = "top" THEN finished \cup {kept[t]} ELSE finished
    /\ UNCHANGED <<contexts, lock, waiting, inUse, entered, sql, writes, kept, returned, orphaned>>

(* Mutant of RollBack: nothing is rolled back.                             *)
RollBackNothing(t) ==
    /\ InTransaction(t)
    /\ EndBody(t)
    /\ pc' = [pc EXCEPT ![t] = "rollback"]
    /\ kept' = [kept EXCEPT ![t] = Innermost(t).kept]
    /\ UNCHANGED <<contexts, lock, waiting, inUse, entered, queue, sql, writes, finished, returned, orphaned>>

(* Mutant of RollBack: a nested transaction leaves it to the outer one.    *)
RollBackTop(t) ==
    /\ InTransaction(t)
    /\ EndBody(t)
    /\ IF Innermost(t).kind = "top" THEN Request("rollback", Innermost(t).name) ELSE UNCHANGED queue
    /\ pc' = [pc EXCEPT ![t] = "rollback"]
    /\ kept' = [kept EXCEPT ![t] = Innermost(t).kept]
    /\ UNCHANGED <<contexts, lock, waiting, inUse, entered, sql, writes, finished, returned, orphaned>>

(* An exception in the body of a transaction.                              *)
RollBack(t) ==
    /\ InTransaction(t)
    /\ EndBody(t)
    /\ Request("rollback", Innermost(t).name)
    /\ pc' = [pc EXCEPT ![t] = "rollback"]
    /\ kept' = [kept EXCEPT ![t] = Innermost(t).kept]
    /\ UNCHANGED <<contexts, lock, waiting, inUse, entered, sql, writes, finished, returned, orphaned>>

Leave(t) ==
    /\ pc[t] = "run"
    /\ LeaveReader(t, "run") \/ LeaveWriter(t)

(* The body raises, or is cancelled at an await of its own.                *)
Raise(t) ==
    /\ pc[t] \in {"run", "write"}
    /\ LeaveReader(t, "raise") \/ RollBack(t)

(* An exception that left a context reaches the next one.                  *)
Propagate(t) ==
    /\ pc[t] = "raise"
    /\ LeaveReader(t, "raise") \/ RollBack(t)

(* It is caught in between, or ends the task.                              *)
Catch(t) ==
    /\ pc[t] = "raise"
    /\ pc' = [pc EXCEPT ![t] = "run"]
    /\ UNCHANGED <<contexts, lock, waiting, currentWriter, inUse, entered, queue, sql, history>>

(* The finally clause of _savepoint_ctx, after the ROLLBACK TO.            *)
ReleaseAfterRollback(t) ==
    /\ pc[t] = "rollback"
    /\ Request("release", Innermost(t).name)
    /\ pc' = [pc EXCEPT ![t] = "undo"]
    /\ UNCHANGED <<contexts, lock, waiting, currentWriter, inUse, entered, sql, history>>

RolledBack(t) == Answered /\ ReleaseAfterRollback(t)

(* What is left of writer after _savepoint_ctx.                            *)
EndTransaction(t) ==
    /\ Pop(t)
    /\ lock' = IF Innermost(t).kind = "top" THEN NoTask ELSE lock
    /\ kept' = IF Innermost(t).kind = "top" THEN [kept EXCEPT ![t] = {}] ELSE kept
    /\ UNCHANGED <<waiting, inUse, entered, sql, writes, finished>>

(* Mutant of Released: the RELEASE is not awaited.                         *)
ReleasedAtOnce(t) ==
    /\ pc[t] \in {"release", "undo"}
    /\ EndTransaction(t)
    /\ pc' = [pc EXCEPT ![t] = IF @ = "release" THEN "run" ELSE "raise"]
    /\ returned' = IF pc[t] = "release" /\ Innermost(t).kind = "top"
                   THEN returned \cup kept[t] ELSE returned
    /\ UNCHANGED <<currentWriter, queue, orphaned>>

Released(t) ==
    /\ pc[t] \in {"release", "undo"}
    /\ Answered
    /\ EndTransaction(t)
    /\ pc' = [pc EXCEPT ![t] = IF @ = "release" THEN "run" ELSE "raise"]
    /\ returned' = IF pc[t] = "release" /\ Innermost(t).kind = "top"
                   THEN returned \cup kept[t] ELSE returned
    /\ UNCHANGED <<currentWriter, queue, orphaned>>

--------------------------------------------------------------------------------
(* A task is cancelled at an await of DBWrapper2.                          *)

CancelWait(t) ==
    /\ pc[t] \in {"lock", "pool"}
    /\ waiting' = SelectSeq(waiting, LAMBDA u : u # t)
    /\ pc' = [pc EXCEPT ![t] = "raise"]
    /\ UNCHANGED <<contexts, lock, currentWriter, inUse, entered, queue, sql, history>>

(* The SAVEPOINT is requested before the try: no RELEASE follows.          *)
CancelSavepoint(t) ==
    /\ pc[t] = "savepoint"
    /\ EndTransaction(t)
    /\ pc' = [pc EXCEPT ![t] = "raise"]
    /\ orphaned' = (orphaned \/ Innermost(t).kind = "top")
    /\ UNCHANGED <<currentWriter, queue, returned>>

(* The finally clause runs all the same.                                   *)
CancelRollback(t) == ReleaseAfterRollback(t)

CancelRelease(t) ==
    /\ pc[t] \in {"release", "undo"}
    /\ EndTransaction(t)
    /\ pc' = [pc EXCEPT ![t] = "raise"]
    /\ UNCHANGED <<currentWriter, queue, returned, orphaned>>

Cancel(t) == CancelWait(t) \/ CancelSavepoint(t) \/ CancelRollback(t) \/ CancelRelease(t)

--------------------------------------------------------------------------------
Enter(t) == EnterTop(t) \/ EnterNested(t) \/ EnterShared(t) \/ EnterReader(t)

(* What a task does once it can.                                           *)
Progress(t) ==
    \/ GetLock(t) \/ GetConnection(t)
    \/ GoOn(t) \/ Leave(t) \/ Propagate(t) \/ Catch(t)
    \/ RolledBack(t) \/ Released(t)

Next ==
    \/ Execute
    \/ \E t \in Tasks : Enter(t) \/ Write(t) \/ Raise(t) \/ Progress(t) \/ Cancel(t)

Spec == Init /\ [][Next]_vars

(* The thread of the connection and the event loop keep going, and bodies  *)
(* of contexts end.                                                        *)
Fairness == WF_vars(Execute) /\ \A t \in Tasks : WF_vars(Progress(t))

FairSpec == Spec /\ Fairness

--------------------------------------------------------------------------------
(***************************************************************************)
(* What is committed, and with that what readers see and a crash leaves,   *)
(* is whole transactions: no write of a transaction that has not ended,    *)
(* none that was rolled back, and no part of one.                          *)
(***************************************************************************)
AllOrNothing ==
    sql.committed = UNION {w \in finished : w \subseteq sql.committed}

(***************************************************************************)
(* A transaction sees what is committed and its own writes, but for those  *)
(* of nested transactions that failed, and nothing of another task.        *)
(***************************************************************************)
WriterSeesItsWrites ==
    ~orphaned => \A t \in Tasks :
        currentWriter = t /\ Answered => sql.data = sql.committed \cup kept[t]

(***************************************************************************)
(* "If the current task is not already in a transaction, one will be       *)
(* created and committed": when the context was left, its writes are in    *)
(* the database for good.                                                  *)
(***************************************************************************)
Durable == returned \subseteq sql.committed

(* The same, unless an outermost SAVEPOINT was left open by a cancellation.*)
DurableUnlessOrphaned == ~orphaned => Durable

(***************************************************************************)
(* A task that waits for the write connection gets it: readers that wait   *)
(* for a transaction and transactions that read never block each other.    *)
(***************************************************************************)
WriterServed == \A t \in Tasks : pc[t] = "lock" ~> pc[t] # "lock"
================================================================================
