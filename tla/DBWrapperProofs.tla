---------------------------- MODULE DBWrapperProofs ----------------------------
(***************************************************************************)
(* What DBWrapper2 promises of transactions, for any number of tasks,      *)
(* depth of nesting and cancellation: proofs about module DBWrapper.       *)
(*                                                                         *)
(* A cancelled task leaves its commands with the thread of the connection, *)
(* so the thread may be any number of commands behind the tasks.  The      *)
(* invariant therefore speaks of the state f that the connection is going  *)
(* to be in, once the queue is executed, and of what is committed on the   *)
(* way there; it is f that matches the contexts of the task that holds the *)
(* lock.                                                                   *)
(***************************************************************************)
EXTENDS DBWrapper, TLAPS

--------------------------------------------------------------------------------
(* The states of the connection, and those it is going through.            *)

Saves == [name : Nat, data : SUBSET Nat]
Sqls == [data : SUBSET Nat, committed : SUBSET Nat,
         saves : Seq(Saves)]

(* Every committed content on the way from s to f is in the set W.         *)
Pending(s, q, f, W) ==
    \E st \in [0..Len(q) -> Sqls] :
        /\ st[0] = s /\ st[Len(q)] = f
        /\ \A i \in 1..Len(q) : st[i] = Executed(st[i - 1], q[i])
        /\ \A i \in 0..Len(q) : st[i].committed \in W

(* What may be committed: whole transactions, and all that have returned,  *)
(* as long as no outermost SAVEPOINT is open for good.                     *)
Whole(fin, ret, o) ==
    {C \in SUBSET Nat : /\ \E F \in SUBSET fin : C = UNION F
                        /\ ~o => ret \subseteq C}

--------------------------------------------------------------------------------
(* The tasks.                                                              *)

Contexts == [kind : Kinds, name : Nat, kept : SUBSET Nat]
Transactions == {"top", "nested"}
LastOf(cs) == cs[Len(cs)]

(* The task awaits a command that begins or ends its innermost transaction.*)
AtEdge(p) == p \in {"savepoint", "rollback", "release", "undo"}

(* Contexts are numbered as they are entered.                              *)
Numbered(cs, e) ==
    /\ \A i \in DOMAIN cs : cs[i].name < e
    /\ \A i, j \in DOMAIN cs : i < j => cs[i].name < cs[j].name

(* A task that does not hold the lock.                                     *)
Outside(cs, p, k) ==
    /\ \A i \in DOMAIN cs : cs[i].kind \notin Transactions
    /\ k = {}
    /\ p \in {"run", "lock", "pool", "raise"}

(* The task that holds the lock; w: it is the current writer.              *)
OneTop(cs) ==
    \E i \in DOMAIN cs :
        /\ cs[i].kind = "top" /\ cs[i].kept = {}
        /\ \A j \in DOMAIN cs : cs[j].kind \in Transactions /\ j # i => j > i /\ cs[j].kind = "nested"

Inside(cs, p, k, w) ==
    /\ OneTop(cs)
    /\ p \notin {"lock", "pool"}
    /\ AtEdge(p) => LastOf(cs).kind \in Transactions
    /\ p \in {"rollback", "undo"} => k = LastOf(cs).kept
    /\ w <=> ~(AtEdge(p) /\ LastOf(cs).kind = "top")

--------------------------------------------------------------------------------
(* The connection and the holder of the lock.                              *)

(* The transactions whose RELEASE is not requested yet.                    *)
Live(cs, p) == {i \in DOMAIN cs : /\ cs[i].kind \in Transactions
                                  /\ i = Len(cs) => p \notin {"release", "undo"}}

SavesOk(f, e) ==
    /\ \A i \in DOMAIN f.saves : f.saves[i].name < e
    /\ \A i, j \in DOMAIN f.saves : i < j => f.saves[i].name < f.saves[j].name

Clean(f) == f.saves = <<>> /\ f.data = f.committed

(* Nobody is in a transaction.                                             *)
Free(f, o) == IF o THEN f.saves # <<>> ELSE Clean(f)

(* The transaction of context c has its savepoint in the stack: at the     *)
(* bottom if it is the outermost, unless there is an orphan, which nothing *)
(* of the holder is below.                                                 *)
SavedAt(f, c, o, n) ==
    /\ f.saves[n].name = c.name
    /\ o => n # 1
    /\ ~o => f.saves[n].data = f.committed \cup c.kept
    /\ ~o => (n = 1 <=> c.kind = "top")

Held(f, cs, p, k, o) ==
    /\ \A i \in Live(cs, p) : \E n \in DOMAIN f.saves : SavedAt(f, cs[i], o, n)
    /\ o => f.saves # <<>>
    /\ ~o => IF Live(cs, p) = {} THEN Clean(f) ELSE f.data = f.committed \cup k
    /\ ~o /\ p = "release" /\ LastOf(cs).kind = "top" => k \subseteq f.committed

TypesOk ==
    /\ pc \in [Tasks -> TaskStates]
    /\ contexts \in [Tasks -> Seq(Contexts)]
    /\ lock \in Tasks \cup {NoTask}
    /\ currentWriter \in {lock, NoTask}
    /\ queue \in Seq(Commands)
    /\ entered \in Nat /\ writes \in Nat
    /\ kept \in [Tasks -> SUBSET Nat]
    /\ finished \subseteq SUBSET Nat /\ returned \subseteq Nat
    /\ orphaned \in BOOLEAN

TasksOk ==
    /\ \A t \in Tasks : Numbered(contexts[t], entered)
    /\ \A t \in Tasks : t # lock => Outside(contexts[t], pc[t], kept[t])
    /\ lock # NoTask => Inside(contexts[lock], pc[lock], kept[lock], currentWriter = lock)

Matches(f) ==
    /\ SavesOk(f, entered)
    /\ lock = NoTask => Free(f, orphaned)
    /\ lock # NoTask => Held(f, contexts[lock], pc[lock], kept[lock], orphaned)

Inv ==
    /\ TypesOk
    /\ TasksOk
    /\ \E f \in Sqls : Pending(sql, queue, f, Whole(finished, returned, orphaned)) /\ Matches(f)

--------------------------------------------------------------------------------
(* Sequences and stacks.                                                   *)

LEMMA Longer ==
    ASSUME NEW S, NEW s \in Seq(S), NEW c \in S
    PROVE  /\ Append(s, c) \in Seq(S) /\ Len(s) \in Nat
           /\ Len(Append(s, c)) = Len(s) + 1
           /\ DOMAIN s = 1..Len(s) /\ DOMAIN Append(s, c) = 1..(Len(s) + 1)
           /\ Append(s, c)[Len(s) + 1] = c
           /\ \A i \in 1..Len(s) : Append(s, c)[i] = s[i]
    OBVIOUS

LEMMA Cut ==
    ASSUME NEW S, NEW s \in Seq(S), NEW n \in 0..Len(s)
    PROVE  /\ SubSeq(s, 1, n) \in Seq(S) /\ Len(s) \in Nat
           /\ Len(SubSeq(s, 1, n)) = n
           /\ DOMAIN s = 1..Len(s) /\ DOMAIN SubSeq(s, 1, n) = 1..n
           /\ \A i \in 1..n : SubSeq(s, 1, n)[i] = s[i]
    OBVIOUS

LEMMA SavesAre ==
    ASSUME NEW f \in Sqls
    PROVE  /\ f.saves \in Seq(Saves) /\ Len(f.saves) \in Nat /\ DOMAIN f.saves = 1..Len(f.saves)
           /\ \A i \in DOMAIN f.saves : f.saves[i].name \in Nat /\ f.saves[i].data \in SUBSET Nat
<1>1. f.saves \in Seq(Saves)
    BY DEF Sqls
<1>2. Len(f.saves) \in Nat /\ DOMAIN f.saves = 1..Len(f.saves) /\ \A i \in DOMAIN f.saves : f.saves[i] \in Saves
    BY <1>1
<1>3. QED
    BY <1>1, <1>2 DEF Saves

(* Names in the stack are unique, so a name has one position.              *)
LEMMA PositionIs ==
    ASSUME NEW f \in Sqls, NEW e \in Nat, SavesOk(f, e), NEW n \in DOMAIN f.saves
    PROVE  Position(f, f.saves[n].name) = n
<1>2. \A i \in DOMAIN f.saves : i \in Nat /\ f.saves[i].name \in Nat
    BY SavesAre
<1>3. \A i \in DOMAIN f.saves : f.saves[i].name = f.saves[n].name => i = n
  <2>1. TAKE i \in DOMAIN f.saves
  <2>2. f.saves[i].name \in Nat /\ f.saves[n].name \in Nat /\ i \in Nat /\ n \in Nat
      BY <1>2
  <2>3. (i < n => f.saves[i].name < f.saves[n].name) /\ (n < i => f.saves[n].name < f.saves[i].name)
      BY DEF SavesOk
  <2>4. QED
      BY <2>2, <2>3
<1>4. QED
    BY <1>3 DEF Position

(* What the four commands do.                                              *)
LEMMA SavepointIs ==
    ASSUME NEW f \in Sqls, NEW e \in Nat, SavesOk(f, e)
    PROVE  LET g == Executed(f, [op |-> "savepoint", of |-> e])
           IN  /\ g \in Sqls /\ SavesOk(g, e + 1)
               /\ g.data = f.data /\ g.committed = f.committed
               /\ DOMAIN f.saves = 1..Len(f.saves) /\ Len(f.saves) \in Nat
               /\ DOMAIN g.saves = 1..(Len(f.saves) + 1)
               /\ g.saves[Len(f.saves) + 1] = [name |-> e, data |-> f.data]
               /\ \A i \in DOMAIN f.saves : i \in DOMAIN g.saves /\ g.saves[i] = f.saves[i]
<1> DEFINE c == [op |-> "savepoint", of |-> e]
           g == Executed(f, c)
           new == [name |-> e, data |-> f.data]
           s == f.saves
           n == Len(s)
<1>1. s \in Seq(Saves) /\ f.data \in SUBSET Nat /\ new \in Saves
    BY DEF Sqls, Saves
<1>2. /\ Append(s, new) \in Seq(Saves) /\ n \in Nat
      /\ DOMAIN s = 1..n /\ DOMAIN Append(s, new) = 1..(n + 1)
      /\ Append(s, new)[n + 1] = new
      /\ \A i \in 1..n : Append(s, new)[i] = s[i]
    BY <1>1, Longer
<1>3. g = [f EXCEPT !.saves = Append(s, new)]
    BY DEF Executed
<1> DEFINE a == Append(s, new)
<1> HIDE DEF a
<1>4. g \in Sqls /\ g.data = f.data /\ g.committed = f.committed /\ g.saves = a
    BY <1>2, <1>3 DEF Sqls, a
<1>5. /\ a \in Seq(Saves)
      /\ DOMAIN a = 1..(n + 1) /\ a[n + 1] = new /\ \A i \in 1..n : a[i] = s[i]
    BY <1>2 DEF a
<1> HIDE DEF g
<1>6. new.name = e
    OBVIOUS
<1>7. \A i \in DOMAIN s : s[i].name < e /\ s[i].name \in Nat
    BY SavesAre DEF SavesOk
<1>8. \A i, j \in DOMAIN s : i < j => s[i].name < s[j].name
    BY DEF SavesOk
<1> HIDE DEF new, s, n
<1>9. SavesOk(g, e + 1)
  <2>1. ASSUME NEW i \in 1..(n + 1) PROVE a[i].name < e + 1
    <3>1. CASE i = n + 1
        BY <1>5, <1>6, <3>1
    <3>2. CASE i # n + 1
      <4>1. i \in 1..n
          BY <1>2, <3>2
      <4>2. a[i].name < e /\ a[i].name \in Nat
          BY <1>2, <1>5, <1>7, <4>1
      <4>3. QED
          BY <4>2
    <3>3. QED
        BY <3>1, <3>2
  <2>2. ASSUME NEW i \in 1..(n + 1), NEW j \in 1..(n + 1), i < j PROVE a[i].name < a[j].name
    <3>1. i \in 1..n
        BY <1>2, <2>2
    <3>2. CASE j = n + 1
        BY <1>2, <1>5, <1>6, <1>7, <3>1, <3>2
    <3>3. CASE j # n + 1
      <4>1. j \in 1..n
          BY <1>2, <3>3
      <4>2. QED
          BY <1>2, <1>5, <1>8, <2>2, <3>1, <4>1
    <3>4. QED
        BY <3>2, <3>3
  <2>3. QED
      BY <1>4, <1>5, <2>1, <2>2 DEF SavesOk
<1>10. QED
    BY <1>2, <1>4, <1>5, <1>9 DEF new, s, n, g

LEMMA WriteIs ==
    ASSUME NEW f \in Sqls, NEW w \in Nat
    PROVE  LET g == Executed(f, [op |-> "write", of |-> w])
           IN  /\ g \in Sqls /\ g.saves = f.saves /\ g.committed = f.committed
               /\ g.data = f.data \cup {w}
<1> DEFINE c == [op |-> "write", of |-> w]
           more == f.data \cup {w}
<1>1. Executed(f, c) = [f EXCEPT !.data = more]
    BY DEF Executed
<1>2. more \in SUBSET Nat
    BY DEF Sqls
<1> HIDE DEF more
<1>3. QED
    BY <1>1, <1>2 DEF Sqls, more

LEMMA RollbackIs ==
    ASSUME NEW f \in Sqls, NEW e \in Nat, SavesOk(f, e), NEW n \in DOMAIN f.saves
    PROVE  LET g == Executed(f, [op |-> "rollback", of |-> f.saves[n].name])
           IN  /\ g \in Sqls /\ SavesOk(g, e)
               /\ g.data = f.saves[n].data /\ g.committed = f.committed
               /\ DOMAIN f.saves = 1..Len(f.saves) /\ DOMAIN g.saves = 1..n /\ n \in Nat /\ n >= 1
               /\ \A i \in 1..n : g.saves[i] = f.saves[i]
<1> DEFINE c == [op |-> "rollback", of |-> f.saves[n].name]
           cut == SubSeq(f.saves, 1, n)
           old == f.saves[n].data
<1>1. f.saves \in Seq(Saves)
    BY DEF Sqls
<1>2. n \in 0..Len(f.saves) /\ n \in Nat /\ n >= 1 /\ old \in SUBSET Nat
    BY SavesAre
<1>3. /\ cut \in Seq(Saves)
      /\ DOMAIN f.saves = 1..Len(f.saves) /\ DOMAIN cut = 1..n /\ Len(f.saves) \in Nat
      /\ \A i \in 1..n : cut[i] = f.saves[i]
    BY <1>1, <1>2, Cut
<1>4. Executed(f, c) = [f EXCEPT !.data = old, !.saves = cut]
    BY PositionIs DEF Executed
<1> HIDE DEF cut, old
<1>5. LET g == Executed(f, c)
      IN  g \in Sqls /\ g.data = old /\ g.committed = f.committed /\ g.saves = cut
    BY <1>2, <1>3, <1>4 DEF Sqls
<1>6. 1..n \subseteq DOMAIN f.saves
    BY <1>2, <1>3
<1> DEFINE g == Executed(f, c)
<1> HIDE DEF g
<1>7. g \in Sqls /\ g.data = old /\ g.committed = f.committed /\ g.saves = cut
    BY <1>5 DEF g
<1>8. SavesOk(g, e)
    BY <1>3, <1>6, <1>7 DEF SavesOk
<1>9. QED
    BY <1>2, <1>3, <1>7, <1>8 DEF old, g

LEMMA ReleaseIs ==
    ASSUME NEW f \in Sqls, NEW e \in Nat, SavesOk(f, e), NEW n \in DOMAIN f.saves
    PROVE  LET g == Executed(f, [op |-> "release", of |-> f.saves[n].name])
           IN  /\ g \in Sqls /\ SavesOk(g, e)
               /\ g.data = f.data /\ g.committed = (IF n = 1 THEN f.data ELSE f.committed)
               /\ DOMAIN f.saves = 1..Len(f.saves) /\ n \in 1..Len(f.saves)
               /\ DOMAIN g.saves = 1..(n - 1) /\ Len(g.saves) = n - 1 /\ Len(f.saves) \in Nat
               /\ \A i \in 1..(n - 1) : g.saves[i] = f.saves[i]
<1> DEFINE c == [op |-> "release", of |-> f.saves[n].name]
           cut == SubSeq(f.saves, 1, n - 1)
           com == IF n = 1 THEN f.data ELSE f.committed
<1>1. f.saves \in Seq(Saves) /\ com \in SUBSET Nat
    BY DEF Sqls
<1>2. n - 1 \in 0..Len(f.saves) /\ n \in 1..Len(f.saves) /\ n \in Nat /\ n >= 1
    BY <1>1
<1>3. /\ cut \in Seq(Saves) /\ Len(cut) = n - 1
      /\ DOMAIN f.saves = 1..Len(f.saves) /\ DOMAIN cut = 1..(n - 1) /\ Len(f.saves) \in Nat
      /\ \A i \in 1..(n - 1) : cut[i] = f.saves[i]
    BY <1>1, <1>2, Cut
<1>4. Executed(f, c) = [f EXCEPT !.saves = cut, !.committed = com]
    BY PositionIs DEF Executed
<1> HIDE DEF cut, com
<1>5. LET g == Executed(f, c)
      IN  g \in Sqls /\ g.data = f.data /\ g.committed = com /\ g.saves = cut
    BY <1>1, <1>3, <1>4 DEF Sqls
<1>6. 1..(n - 1) \subseteq DOMAIN f.saves
    BY <1>2, <1>3
<1> DEFINE g == Executed(f, c)
<1> HIDE DEF g
<1>7. g \in Sqls /\ g.data = f.data /\ g.committed = com /\ g.saves = cut
    BY <1>5 DEF g
<1>8. SavesOk(g, e)
    BY <1>3, <1>6, <1>7 DEF SavesOk
<1>9. QED
    BY <1>2, <1>3, <1>7, <1>8 DEF com, g

--------------------------------------------------------------------------------
(* The queue.                                                              *)

LEMMA PendingNone ==
    ASSUME NEW s \in Sqls, NEW W, s.committed \in W
    PROVE  Pending(s, <<>>, s, W)
<1> DEFINE st == [i \in 0..0 |-> s]
<1>1. st \in [0..Len(<<>>) -> Sqls] /\ st[0] = s /\ st[Len(<<>>)] = s
    OBVIOUS
<1>2. /\ \A i \in 1..Len(<<>>) : st[i] = Executed(st[i - 1], <<>>[i])
      /\ \A i \in 0..Len(<<>>) : st[i].committed \in W
    OBVIOUS
<1> HIDE DEF st
<1>3. QED
    BY <1>1, <1>2 DEF Pending

LEMMA PendingNow ==
    ASSUME NEW s, NEW q \in Seq(Commands), NEW f, NEW W, Pending(s, q, f, W)
    PROVE  s.committed \in W /\ s \in Sqls /\ (q = <<>> => f = s)
<1>1. PICK st \in [0..Len(q) -> Sqls] : /\ st[0] = s /\ st[Len(q)] = f
                                        /\ \A i \in 0..Len(q) : st[i].committed \in W
    BY DEF Pending
<1>2. Len(q) \in Nat /\ 0 \in 0..Len(q) /\ (q = <<>> => Len(q) = 0)
    OBVIOUS
<1>3. QED
    BY <1>1, <1>2

LEMMA PendingGrows ==
    ASSUME NEW s, NEW q, NEW f, NEW W, Pending(s, q, f, W), NEW V, W \subseteq V
    PROVE  Pending(s, q, f, V)
    BY DEF Pending

(* The thread executes the first command.                                  *)
LEMMA PendingExecute ==
    ASSUME NEW s, NEW q \in Seq(Commands), q # <<>>, NEW f, NEW W, Pending(s, q, f, W)
    PROVE  Pending(Executed(s, Head(q)), Tail(q), f, W)
<1>1. PICK st \in [0..Len(q) -> Sqls] : /\ st[0] = s /\ st[Len(q)] = f
                                        /\ \A i \in 1..Len(q) : st[i] = Executed(st[i - 1], q[i])
                                        /\ \A i \in 0..Len(q) : st[i].committed \in W
    BY DEF Pending
<1> DEFINE n == Len(q) - 1
           r == Tail(q)
           to == [i \in 0..n |-> st[i + 1]]
<1>2. /\ Len(q) \in Nat /\ n \in Nat /\ Len(q) = n + 1 /\ Len(r) = n
      /\ Head(q) = q[1] /\ \A i \in 1..n : r[i] = q[i + 1]
  <2>1. Len(q) \in Nat /\ Len(q) # 0
      BY SMT
  <2>2. QED
      BY <2>1
<1> HIDE DEF n, r
<1>3. to \in [0..n -> Sqls] /\ \A i \in 0..n : to[i] = st[i + 1]
    BY <1>1, <1>2
<1> HIDE DEF to
<1>4. to[0] = Executed(s, Head(q)) /\ to[n] = f
  <2>1. 0 \in 0..n /\ n \in 0..n /\ 1 \in 1..Len(q) /\ 0 + 1 = 1 /\ 1 - 1 = 0
      BY <1>2
  <2>2. to[0] = st[0 + 1] /\ to[n] = st[n + 1] /\ st[1] = Executed(st[1 - 1], q[1])
      BY <1>1, <1>3, <2>1
  <2>3. QED
      BY <1>1, <1>2, <2>1, <2>2
<1>5. ASSUME NEW i \in 1..n PROVE to[i] = Executed(to[i - 1], r[i])
  <2>1. i \in 0..n /\ i - 1 \in 0..n /\ i + 1 \in 1..Len(q) /\ (i + 1) - 1 = i /\ (i - 1) + 1 = i
      BY <1>2
  <2>2. st[i + 1] = Executed(st[(i + 1) - 1], q[i + 1]) /\ to[i] = st[i + 1] /\ to[i - 1] = st[(i - 1) + 1]
      BY <1>1, <1>3, <2>1
  <2>3. r[i] = q[i + 1]
      BY <1>2
  <2>4. QED
      BY <2>1, <2>2, <2>3
<1>6. ASSUME NEW i \in 0..n PROVE to[i].committed \in W
  <2>1. i + 1 \in 0..Len(q)
      BY <1>2
  <2>2. QED
      BY <1>1, <1>3, <2>1
<1>7. QED
    BY <1>2, <1>3, <1>4, <1>5, <1>6 DEF Pending, r

(* A task requests a command.                                              *)
LEMMA PendingRequest ==
    ASSUME NEW s, NEW q \in Seq(Commands), NEW f, NEW W, Pending(s, q, f, W), NEW c \in Commands,
           Executed(f, c) \in Sqls, Executed(f, c).committed \in W
    PROVE  Pending(s, Append(q, c), Executed(f, c), W)
<1>1. PICK st \in [0..Len(q) -> Sqls] : /\ st[0] = s /\ st[Len(q)] = f
                                        /\ \A i \in 1..Len(q) : st[i] = Executed(st[i - 1], q[i])
                                        /\ \A i \in 0..Len(q) : st[i].committed \in W
    BY DEF Pending
<1> DEFINE n == Len(q)
           r == Append(q, c)
           g == Executed(f, c)
           to == [i \in 0..(n + 1) |-> IF i = n + 1 THEN g ELSE st[i]]
<1>2. n \in Nat /\ Len(r) = n + 1 /\ r[n + 1] = c /\ \A i \in 1..n : r[i] = q[i]
    BY Longer
<1>0. g \in Sqls /\ g.committed \in W
    OBVIOUS
<1> HIDE DEF n, r, g
<1>3. to \in [0..(n + 1) -> Sqls] /\ to[n + 1] = g /\ \A i \in 0..n : to[i] = st[i]
    BY <1>0, <1>1, <1>2 DEF n
<1> HIDE DEF to
<1>4. to[0] = s
    BY <1>1, <1>2, <1>3
<1>5. ASSUME NEW i \in 1..(n + 1) PROVE to[i] = Executed(to[i - 1], r[i])
  <2>1. CASE i = n + 1
    <3>1. i - 1 = n /\ n \in 0..n
        BY <1>2, <2>1
    <3>2. to[i - 1] = f
        BY <1>1, <1>3, <3>1 DEF n
    <3>3. QED
        BY <1>2, <1>3, <2>1, <3>2 DEF g
  <2>2. CASE i # n + 1
    <3>1. i \in 1..n /\ i \in 0..n /\ i - 1 \in 0..n
        BY <1>2, <2>2
    <3>2. QED
        BY <1>1, <1>2, <1>3, <3>1 DEF n
  <2>3. QED
      BY <2>1, <2>2
<1>6. ASSUME NEW i \in 0..(n + 1) PROVE to[i].committed \in W
  <2>1. CASE i = n + 1
      BY <1>0, <1>3, <2>1
  <2>2. CASE i # n + 1
    <3>1. i \in 0..n
        BY <1>2, <2>2
    <3>2. QED
        BY <1>1, <1>3, <3>1 DEF n
  <2>3. QED
      BY <2>1, <2>2
<1>7. QED
    BY <1>2, <1>3, <1>4, <1>5, <1>6 DEF Pending, r, g

--------------------------------------------------------------------------------
(* The contexts of a task.                                                 *)

LEMMA ContextsAre ==
    ASSUME NEW cs \in Seq(Contexts)
    PROVE  /\ Len(cs) \in Nat /\ DOMAIN cs = 1..Len(cs)
           /\ \A i \in DOMAIN cs : /\ cs[i].kind \in Kinds /\ cs[i].name \in Nat
                                   /\ cs[i].kept \in SUBSET Nat
           /\ cs # <<>> => Len(cs) \in DOMAIN cs
<1>1. Len(cs) \in Nat /\ DOMAIN cs = 1..Len(cs) /\ \A i \in DOMAIN cs : cs[i] \in Contexts
    OBVIOUS
<1>2. cs # <<>> => Len(cs) # 0
    OBVIOUS
<1>3. QED
    BY <1>1, <1>2 DEF Contexts

(* A context is entered.                                                   *)
LEMMA Pushed ==
    ASSUME NEW cs \in Seq(Contexts), NEW e \in Nat, Numbered(cs, e),
           NEW kind \in Kinds, NEW k \in SUBSET Nat
    PROVE  LET d == Append(cs, [kind |-> kind, name |-> e, kept |-> k])
           IN  /\ d \in Seq(Contexts) /\ Numbered(d, e + 1)
               /\ Len(cs) \in Nat /\ DOMAIN cs = 1..Len(cs)
               /\ Len(d) = Len(cs) + 1 /\ DOMAIN d = 1..(Len(cs) + 1)
               /\ d[Len(cs) + 1].kind = kind /\ d[Len(cs) + 1].name = e /\ d[Len(cs) + 1].kept = k
               /\ \A i \in 1..Len(cs) : d[i] = cs[i]
<1> DEFINE c == [kind |-> kind, name |-> e, kept |-> k]
           d == Append(cs, c)
           n == Len(cs)
<1>1. c \in Contexts /\ c.kind = kind /\ c.name = e /\ c.kept = k
    BY DEF Contexts
<1> HIDE DEF c
<1>2. /\ d \in Seq(Contexts) /\ n \in Nat /\ Len(d) = n + 1 /\ DOMAIN cs = 1..n
      /\ DOMAIN d = 1..(n + 1) /\ d[n + 1] = c /\ \A i \in 1..n : d[i] = cs[i]
    BY <1>1, Longer
<1>3. /\ \A i \in 1..n : cs[i].name \in Nat /\ cs[i].name < e
      /\ \A i, j \in 1..n : i < j => cs[i].name < cs[j].name
    BY <1>2, ContextsAre DEF Numbered
<1> HIDE DEF d, n
<1>4. ASSUME NEW i \in 1..(n + 1) PROVE d[i].name < e + 1
  <2>1. CASE i = n + 1
      BY <1>1, <1>2, <2>1
  <2>2. CASE i # n + 1
    <3>1. i \in 1..n
        BY <1>2, <2>2
    <3>2. d[i].name < e /\ d[i].name \in Nat
        BY <1>2, <1>3, <3>1
    <3>3. QED
        BY <3>2
  <2>3. QED
      BY <2>1, <2>2
<1>5. ASSUME NEW i \in 1..(n + 1), NEW j \in 1..(n + 1), i < j PROVE d[i].name < d[j].name
  <2>1. i \in 1..n
      BY <1>2, <1>5
  <2>2. CASE j = n + 1
      BY <1>1, <1>2, <1>3, <2>1, <2>2
  <2>3. CASE j # n + 1
    <3>1. j \in 1..n
        BY <1>2, <2>3
    <3>2. QED
        BY <1>2, <1>3, <1>5, <2>1, <3>1
  <2>4. QED
      BY <2>2, <2>3
<1>6. Numbered(d, e + 1)
    BY <1>2, <1>4, <1>5 DEF Numbered
<1>7. d[n + 1].kind = kind /\ d[n + 1].name = e /\ d[n + 1].kept = k
    BY <1>1, <1>2
<1>8. QED
    BY <1>2, <1>6, <1>7 DEF c, d, n

(* The innermost context is left.                                          *)
LEMMA Popped ==
    ASSUME NEW cs \in Seq(Contexts), cs # <<>>, NEW e, Numbered(cs, e)
    PROVE  LET d == SubSeq(cs, 1, Len(cs) - 1)
           IN  /\ d \in Seq(Contexts) /\ Numbered(d, e)
               /\ Len(cs) \in Nat /\ Len(cs) >= 1 /\ DOMAIN cs = 1..Len(cs)
               /\ Len(d) = Len(cs) - 1 /\ DOMAIN d = 1..(Len(cs) - 1)
               /\ \A i \in 1..(Len(cs) - 1) : d[i] = cs[i]
<1> DEFINE d == SubSeq(cs, 1, Len(cs) - 1)
<1>1. Len(cs) \in Nat /\ Len(cs) >= 1 /\ Len(cs) - 1 \in 0..Len(cs)
  <2>1. Len(cs) \in Nat /\ Len(cs) # 0
      BY SMT
  <2>2. QED
      BY <2>1
<1>2. /\ d \in Seq(Contexts) /\ Len(d) = Len(cs) - 1 /\ DOMAIN cs = 1..Len(cs)
      /\ DOMAIN d = 1..(Len(cs) - 1) /\ \A i \in 1..(Len(cs) - 1) : d[i] = cs[i]
  <2> DEFINE n == Len(cs) - 1
  <2>1. n \in 0..Len(cs)
      BY <1>1
  <2> HIDE DEF n
  <2>2. /\ SubSeq(cs, 1, n) \in Seq(Contexts) /\ Len(SubSeq(cs, 1, n)) = n /\ DOMAIN cs = 1..Len(cs)
        /\ DOMAIN SubSeq(cs, 1, n) = 1..n /\ \A i \in 1..n : SubSeq(cs, 1, n)[i] = cs[i]
      BY <2>1, Cut
  <2>3. QED
      BY <2>2 DEF n
<1>3. 1..(Len(cs) - 1) \subseteq DOMAIN cs
    BY <1>1, <1>2
<1> HIDE DEF d
<1>4. Numbered(d, e)
    BY <1>2, <1>3 DEF Numbered
<1>5. QED
    BY <1>1, <1>2, <1>4 DEF d

LEMMA NumberedLater ==
    ASSUME NEW cs \in Seq(Contexts), NEW e \in Nat, Numbered(cs, e)
    PROVE  Numbered(cs, e + 1)
<1>1. \A i \in DOMAIN cs : cs[i].name \in Nat /\ cs[i].name < e
    BY ContextsAre DEF Numbered
<1>2. \A i \in DOMAIN cs : cs[i].name < e + 1
    BY <1>1
<1>3. QED
    BY <1>2 DEF Numbered

LEMMA SavesOkLater ==
    ASSUME NEW f \in Sqls, NEW e \in Nat, SavesOk(f, e)
    PROVE  SavesOk(f, e + 1)
<1>1. \A i \in DOMAIN f.saves : f.saves[i].name \in Nat /\ f.saves[i].name < e
    BY SavesAre DEF SavesOk
<1>2. \A i \in DOMAIN f.saves : f.saves[i].name < e + 1
    BY <1>1
<1>3. QED
    BY <1>2 DEF SavesOk

--------------------------------------------------------------------------------
(* What the steps of a task do to its contexts and to what is pending.     *)

LEMMA LiveIs ==
    ASSUME NEW cs, NEW p, p \notin {"release", "undo"}
    PROVE  Live(cs, p) = {i \in DOMAIN cs : cs[i].kind \in Transactions}
    BY DEF Live

LEMMA OutsideBegins ==
    ASSUME NEW cs \in Seq(Contexts), NEW e \in Nat, Numbered(cs, e), NEW p, NEW k, Outside(cs, p, k),
           NEW kind \in {"pool", "shared"}
    PROVE  Outside(Append(cs, [kind |-> kind, name |-> e, kept |-> {}]), "run", k)
<1> DEFINE d == Append(cs, [kind |-> kind, name |-> e, kept |-> {}])
<1>0. kind \in Kinds /\ kind \notin Transactions
    BY DEF Kinds, Transactions
<1>1. /\ DOMAIN d = 1..(Len(cs) + 1) /\ Len(cs) \in Nat /\ DOMAIN cs = 1..Len(cs)
      /\ d[Len(cs) + 1].kind = kind /\ \A i \in 1..Len(cs) : d[i] = cs[i]
    BY <1>0, Pushed
<1> HIDE DEF d
<1>2. ASSUME NEW i \in DOMAIN d PROVE d[i].kind \notin Transactions
  <2>1. i = Len(cs) + 1 \/ i \in 1..Len(cs)
      BY <1>1
  <2>2. QED
      BY <1>0, <1>1, <2>1 DEF Outside
<1>3. QED
    BY <1>2 DEF Outside, d

LEMMA OutsideEnds ==
    ASSUME NEW cs \in Seq(Contexts), cs # <<>>, NEW e, Numbered(cs, e), NEW p, NEW k, Outside(cs, p, k),
           NEW q \in {"run", "raise"}
    PROVE  Outside(SubSeq(cs, 1, Len(cs) - 1), q, k)
<1> DEFINE d == SubSeq(cs, 1, Len(cs) - 1)
<1>1. /\ Len(cs) \in Nat /\ Len(cs) >= 1 /\ DOMAIN cs = 1..Len(cs)
      /\ DOMAIN d = 1..(Len(cs) - 1) /\ \A i \in 1..(Len(cs) - 1) : d[i] = cs[i]
    BY Popped
<1> HIDE DEF d
<1>2. \A i \in DOMAIN d : i \in DOMAIN cs /\ d[i] = cs[i]
    BY <1>1
<1>3. QED
    BY <1>2 DEF Outside, d

(* writer of a task that had no transaction.                               *)
LEMMA TopBegins ==
    ASSUME NEW cs \in Seq(Contexts), NEW e \in Nat, Numbered(cs, e), NEW p, NEW k, Outside(cs, p, k),
           NEW f \in Sqls, SavesOk(f, e), NEW o \in BOOLEAN, Free(f, o)
    PROVE  LET d == Append(cs, [kind |-> "top", name |-> e, kept |-> k])
               g == Executed(f, [op |-> "savepoint", of |-> e])
           IN  Inside(d, "savepoint", k, FALSE) /\ Held(g, d, "savepoint", k, o)
<1> DEFINE d == Append(cs, [kind |-> "top", name |-> e, kept |-> k])
           g == Executed(f, [op |-> "savepoint", of |-> e])
           n == Len(cs)
           m == Len(f.saves)
<1>0. k = {} /\ k \in SUBSET Nat /\ "top" \in Kinds
    BY DEF Outside, Kinds
<1>1. /\ n \in Nat /\ DOMAIN cs = 1..n /\ Len(d) = n + 1 /\ DOMAIN d = 1..(n + 1)
      /\ d[n + 1].kind = "top" /\ d[n + 1].name = e /\ d[n + 1].kept = k
      /\ \A i \in 1..n : d[i] = cs[i]
    BY <1>0, Pushed
<1>2. /\ g.data = f.data /\ g.committed = f.committed
      /\ DOMAIN f.saves = 1..m /\ m \in Nat /\ DOMAIN g.saves = 1..(m + 1)
      /\ g.saves[m + 1] = [name |-> e, data |-> f.data]
    BY SavepointIs
<1> HIDE DEF d, g, n
<1>3. \A i \in 1..n : d[i].kind \notin Transactions
    BY <1>1 DEF Outside
<1>4. n + 1 \in DOMAIN d /\ \A i \in DOMAIN d : i = n + 1 \/ i \in 1..n
    BY <1>1
<1>5. OneTop(d)
    BY <1>0, <1>1, <1>3, <1>4 DEF OneTop
<1>6. Inside(d, "savepoint", k, FALSE)
    BY <1>1, <1>5 DEF Inside, AtEdge, LastOf, Transactions
<1>7. Live(d, "savepoint") = {n + 1}
    BY <1>1, <1>3, <1>4, LiveIs DEF Transactions
<1>8. m + 1 \in DOMAIN g.saves /\ g.saves[m + 1].name = e /\ g.saves[m + 1].data = f.data
    BY <1>2
<1>9. (o => m # 0) /\ (~o => m = 0 /\ f.data = f.committed)
    BY <1>2 DEF Free, Clean
<1> HIDE DEF m
<1>10. Held(g, d, "savepoint", k, o)
  <2>1. (o => m + 1 # 1) /\ (~o => m + 1 = 1)
      BY <1>2, <1>9
  <2>2. g.saves # <<>>
      BY <1>8
  <2>3. ~o => g.data = g.committed \cup k /\ g.saves[m + 1].data = g.committed \cup d[n + 1].kept
      BY <1>0, <1>1, <1>2, <1>8, <1>9
  <2>4. QED
      BY <1>1, <1>7, <1>8, <2>1, <2>2, <2>3 DEF Held, SavedAt
<1>11. QED
    BY <1>6, <1>10 DEF d, g

(* Whatever is at the top is live unless its end is requested.             *)
LEMMA LiveTop ==
    ASSUME NEW cs \in Seq(Contexts), OneTop(cs), NEW p,
           p \in {"release", "undo"} => LastOf(cs).kind # "top"
    PROVE  Live(cs, p) # {}
<1>1. PICK i \in DOMAIN cs : cs[i].kind = "top"
    BY DEF OneTop
<1>2. i \in Live(cs, p)
    BY <1>1 DEF Live, LastOf, Transactions
<1>3. QED
    BY <1>2

LEMMA HeldSaves ==
    ASSUME NEW f, NEW cs, NEW p, NEW k, NEW o, Held(f, cs, p, k, o), Live(cs, p) # {}
    PROVE  DOMAIN f.saves # {}
    BY DEF Held

(* writer of a task that has one.                                          *)
LEMMA NestedBegins ==
    ASSUME NEW cs \in Seq(Contexts), NEW e \in Nat, Numbered(cs, e), NEW k \in SUBSET Nat, NEW w,
           Inside(cs, "run", k, w),
           NEW f \in Sqls, SavesOk(f, e), NEW o \in BOOLEAN, Held(f, cs, "run", k, o)
    PROVE  LET d == Append(cs, [kind |-> "nested", name |-> e, kept |-> k])
               g == Executed(f, [op |-> "savepoint", of |-> e])
           IN  Inside(d, "savepoint", k, TRUE) /\ Held(g, d, "savepoint", k, o)
<1> DEFINE d == Append(cs, [kind |-> "nested", name |-> e, kept |-> k])
           g == Executed(f, [op |-> "savepoint", of |-> e])
           n == Len(cs)
           m == Len(f.saves)
<1>0. "nested" \in Kinds
    BY DEF Kinds
<1>1. /\ n \in Nat /\ DOMAIN cs = 1..n /\ Len(d) = n + 1 /\ DOMAIN d = 1..(n + 1)
      /\ d[n + 1].kind = "nested" /\ d[n + 1].name = e /\ d[n + 1].kept = k
      /\ \A i \in 1..n : d[i] = cs[i]
    BY <1>0, Pushed
<1>2. /\ g.data = f.data /\ g.committed = f.committed
      /\ DOMAIN f.saves = 1..m /\ m \in Nat /\ DOMAIN g.saves = 1..(m + 1)
      /\ g.saves[m + 1] = [name |-> e, data |-> f.data]
      /\ \A i \in DOMAIN f.saves : i \in DOMAIN g.saves /\ g.saves[i] = f.saves[i]
    BY SavepointIs
<1>3. m + 1 \in DOMAIN g.saves /\ g.saves[m + 1].name = e /\ g.saves[m + 1].data = f.data
    BY <1>2
<1>4. Live(cs, "run") # {} /\ m # 0
  <2>1. Live(cs, "run") # {}
      BY LiveTop DEF Inside
  <2>2. QED
      BY <1>2, <2>1, HeldSaves
<1> HIDE DEF d, g, n, m
<1>5. n + 1 \in DOMAIN d /\ \A i \in DOMAIN d : i = n + 1 \/ i \in 1..n
    BY <1>1
<1>6. OneTop(d)
  <2>1. PICK i \in 1..n : /\ cs[i].kind = "top" /\ cs[i].kept = {}
                          /\ \A j \in 1..n : cs[j].kind \in Transactions /\ j # i => j > i /\ cs[j].kind = "nested"
      BY <1>1 DEF Inside, OneTop
  <2>2. i \in DOMAIN d /\ d[i] = cs[i] /\ n + 1 > i
      BY <1>1
  <2>3. ASSUME NEW j \in DOMAIN d, d[j].kind \in Transactions, j # i PROVE j > i /\ d[j].kind = "nested"
      BY <1>1, <1>5, <2>1, <2>2, <2>3
  <2>4. QED
      BY <2>1, <2>2, <2>3 DEF OneTop
<1>7. Inside(d, "savepoint", k, TRUE)
    BY <1>1, <1>6 DEF Inside, AtEdge, LastOf, Transactions
<1>8. \A i \in Live(d, "savepoint") : i = n + 1 \/ (i \in Live(cs, "run") /\ d[i] = cs[i])
    BY <1>1, <1>5, LiveIs
<1>9. Held(g, d, "savepoint", k, o)
  <2>1. m + 1 # 1 /\ g.saves # <<>>
      BY <1>2, <1>3, <1>4
  <2>2. ~o => f.data = f.committed \cup k
      BY <1>4 DEF Held
  <2>3. ASSUME NEW i \in Live(d, "savepoint")
        PROVE  \E x \in DOMAIN g.saves : SavedAt(g, d[i], o, x)
    <3>1. CASE i = n + 1
        BY <1>1, <1>2, <1>3, <2>1, <2>2, <3>1 DEF SavedAt
    <3>2. CASE i \in Live(cs, "run") /\ d[i] = cs[i]
      <4>1. PICK x \in DOMAIN f.saves : SavedAt(f, cs[i], o, x)
          BY <3>2 DEF Held
      <4>2. QED
          BY <1>2, <3>2, <4>1 DEF SavedAt
    <3>3. QED
        BY <1>8, <3>1, <3>2
  <2>4. n + 1 \in Live(d, "savepoint")
      BY <1>1, <1>5, LiveIs DEF Transactions
  <2>5. QED
      BY <1>2, <2>1, <2>2, <2>3, <2>4 DEF Held
<1>10. QED
    BY <1>7, <1>9 DEF d, g

(* A reader inside a transaction begins or ends.                           *)
LEMMA ReaderBegins ==
    ASSUME NEW cs \in Seq(Contexts), NEW e \in Nat, Numbered(cs, e), NEW k, NEW w,
           Inside(cs, "run", k, w), NEW kind \in {"pool", "shared"},
           NEW f, NEW o, Held(f, cs, "run", k, o)
    PROVE  LET d == Append(cs, [kind |-> kind, name |-> e, kept |-> {}])
           IN  Inside(d, "run", k, w) /\ Held(f, d, "run", k, o)
<1> DEFINE d == Append(cs, [kind |-> kind, name |-> e, kept |-> {}])
           n == Len(cs)
<1>0. kind \in Kinds /\ kind \notin Transactions
    BY DEF Kinds, Transactions
<1>1. /\ n \in Nat /\ DOMAIN cs = 1..n /\ DOMAIN d = 1..(n + 1)
      /\ d[n + 1].kind = kind /\ \A i \in 1..n : d[i] = cs[i]
    BY <1>0, Pushed
<1> HIDE DEF d, n
<1>2. \A i \in DOMAIN d : i = n + 1 \/ i \in 1..n
    BY <1>1
<1>3. DOMAIN cs \subseteq DOMAIN d
    BY <1>1
<1>4. OneTop(d)
    BY <1>0, <1>1, <1>2, <1>3 DEF Inside, OneTop
<1>5. Inside(d, "run", k, w)
    BY <1>4 DEF Inside, AtEdge
<1>6. Live(d, "run") = Live(cs, "run") /\ \A i \in Live(cs, "run") : d[i] = cs[i]
  <2>1. \A i : i \in Live(d, "run") <=> i \in DOMAIN d /\ d[i].kind \in Transactions
      BY DEF Live
  <2>2. \A i : i \in Live(cs, "run") <=> i \in DOMAIN cs /\ cs[i].kind \in Transactions
      BY DEF Live
  <2>3. \A i : i \in Live(d, "run") <=> i \in Live(cs, "run")
      BY <1>0, <1>1, <1>2, <1>3, <2>1, <2>2
  <2>4. QED
      BY <1>1, <2>2, <2>3
<1>7. Held(f, d, "run", k, o)
    BY <1>6 DEF Held
<1>8. QED
    BY <1>5, <1>7 DEF d

(* The innermost context goes, and is not the outermost transaction.       *)
LEMMA TopStays ==
    ASSUME NEW cs \in Seq(Contexts), cs # <<>>, NEW e, Numbered(cs, e), OneTop(cs), LastOf(cs).kind # "top"
    PROVE  LET d == SubSeq(cs, 1, Len(cs) - 1)
           IN  /\ OneTop(d)
               /\ \A i \in DOMAIN d : i \in DOMAIN cs /\ d[i] = cs[i] /\ i # Len(cs)
               /\ \A i \in DOMAIN cs : i # Len(cs) => i \in DOMAIN d
<1> DEFINE d == SubSeq(cs, 1, Len(cs) - 1)
<1>1. /\ Len(cs) \in Nat /\ Len(cs) >= 1 /\ DOMAIN cs = 1..Len(cs)
      /\ DOMAIN d = 1..(Len(cs) - 1) /\ \A i \in 1..(Len(cs) - 1) : d[i] = cs[i]
    BY Popped
<1> HIDE DEF d
<1>2. /\ \A i \in DOMAIN d : i \in DOMAIN cs /\ d[i] = cs[i] /\ i # Len(cs)
      /\ \A i \in DOMAIN cs : i # Len(cs) => i \in DOMAIN d
    BY <1>1
<1>3. OneTop(d)
    BY <1>2 DEF OneTop, LastOf
<1>4. QED
    BY <1>2, <1>3 DEF d

LEMMA ReaderEnds ==
    ASSUME NEW cs \in Seq(Contexts), cs # <<>>, NEW e, Numbered(cs, e), NEW k, NEW w, NEW p, ~AtEdge(p),
           Inside(cs, p, k, w), LastOf(cs).kind \notin Transactions,
           NEW q \in {"run", "raise"}, NEW f, NEW o, Held(f, cs, p, k, o)
    PROVE  LET d == SubSeq(cs, 1, Len(cs) - 1)
           IN  Inside(d, q, k, w) /\ Held(f, d, q, k, o)
<1> DEFINE d == SubSeq(cs, 1, Len(cs) - 1)
<1>1. /\ OneTop(d)
      /\ \A i \in DOMAIN d : i \in DOMAIN cs /\ d[i] = cs[i] /\ i # Len(cs)
      /\ \A i \in DOMAIN cs : i # Len(cs) => i \in DOMAIN d
    BY TopStays DEF Inside, Transactions
<1> HIDE DEF d
<1>2. Inside(d, q, k, w)
    BY <1>1 DEF Inside, AtEdge
<1>3. Live(d, q) = Live(cs, p) /\ \A i \in Live(cs, p) : d[i] = cs[i]
  <2>1. \A i : i \in Live(d, q) <=> i \in DOMAIN d /\ d[i].kind \in Transactions
      BY DEF Live
  <2>2. \A i : i \in Live(cs, p) <=> i \in DOMAIN cs /\ cs[i].kind \in Transactions
      BY DEF Live, AtEdge
  <2>3. \A i : i \in Live(d, q) <=> i \in Live(cs, p)
      BY <1>1, <2>1, <2>2 DEF LastOf
  <2>4. QED
      BY <1>1, <2>1, <2>3
<1>4. Held(f, d, q, k, o)
    BY <1>3 DEF Held
<1>5. QED
    BY <1>2, <1>4 DEF d

(* A write, by the current writer.                                         *)
LEMMA Writes ==
    ASSUME NEW cs \in Seq(Contexts), NEW k, Inside(cs, "run", k, TRUE),
           NEW f \in Sqls, NEW o, Held(f, cs, "run", k, o), NEW x \in Nat
    PROVE  LET g == Executed(f, [op |-> "write", of |-> x])
           IN  Inside(cs, "write", k \cup {x}, TRUE) /\ Held(g, cs, "write", k \cup {x}, o)
<1> DEFINE g == Executed(f, [op |-> "write", of |-> x])
           l == k \cup {x}
<1>1. g.saves = f.saves /\ g.committed = f.committed /\ g.data = f.data \cup {x}
    BY WriteIs
<1> HIDE DEF g
<1>2. Live(cs, "run") # {} /\ Live(cs, "write") = Live(cs, "run")
    BY LiveTop, LiveIs DEF Inside
<1>3. ~o => g.data = g.committed \cup l
    BY <1>1, <1>2 DEF Held
<1> HIDE DEF l
<1>4. Held(g, cs, "write", l, o)
    BY <1>1, <1>2, <1>3 DEF Held, SavedAt
<1>5. Inside(cs, "write", l, TRUE)
    BY DEF Inside, AtEdge
<1>6. QED
    BY <1>4, <1>5 DEF g, l

(* The savepoints are in the order of the contexts.                        *)
LEMMA SavesInOrder ==
    ASSUME NEW cs \in Seq(Contexts), NEW e \in Nat, Numbered(cs, e), NEW f \in Sqls, SavesOk(f, e), NEW o,
           NEW i \in DOMAIN cs, NEW j \in DOMAIN cs, i < j,
           NEW m \in DOMAIN f.saves, SavedAt(f, cs[i], o, m),
           NEW n \in DOMAIN f.saves, SavedAt(f, cs[j], o, n)
    PROVE  m < n
<1>1. f.saves[m].name < f.saves[n].name
    BY DEF Numbered, SavedAt
<1>2. f.saves[m].name \in Nat /\ f.saves[n].name \in Nat /\ m \in Nat /\ n \in Nat
    BY SavesAre
<1>3. n < m => f.saves[n].name < f.saves[m].name
    BY DEF SavesOk
<1>4. QED
    BY <1>1, <1>2, <1>3

(* An exception in the body of the innermost transaction.                  *)
LEMMA RollsBack ==
    ASSUME NEW cs \in Seq(Contexts), cs # <<>>, NEW e \in Nat, Numbered(cs, e), NEW k, NEW w,
           NEW p, ~AtEdge(p), Inside(cs, p, k, w), LastOf(cs).kind \in Transactions,
           NEW f \in Sqls, SavesOk(f, e), NEW o \in BOOLEAN, Held(f, cs, p, k, o)
    PROVE  LET g == Executed(f, [op |-> "rollback", of |-> LastOf(cs).name])
           IN  /\ Inside(cs, "rollback", LastOf(cs).kept, LastOf(cs).kind # "top")
               /\ Held(g, cs, "rollback", LastOf(cs).kept, o)
               /\ g \in Sqls /\ SavesOk(g, e) /\ g.committed = f.committed
<1> DEFINE c == LastOf(cs)
           l == Len(cs)
<1>1. l \in DOMAIN cs /\ DOMAIN cs = 1..l /\ l \in Nat
    BY ContextsAre
<1>2. l \in Live(cs, p)
    BY <1>1 DEF Live, AtEdge, LastOf
<1>3. PICK n \in DOMAIN f.saves : SavedAt(f, cs[l], o, n)
    BY <1>2 DEF Held
<1>4. c.name = f.saves[n].name /\ c = cs[l]
    BY <1>3 DEF SavedAt, LastOf
<1> DEFINE g == Executed(f, [op |-> "rollback", of |-> f.saves[n].name])
<1>5. /\ g \in Sqls /\ SavesOk(g, e)
      /\ g.data = f.saves[n].data /\ g.committed = f.committed
      /\ DOMAIN f.saves = 1..Len(f.saves) /\ DOMAIN g.saves = 1..n /\ n \in Nat /\ n >= 1
      /\ \A i \in 1..n : g.saves[i] = f.saves[i]
    BY RollbackIs
<1> HIDE DEF g, l
<1>6. Live(cs, "rollback") = Live(cs, p)
    BY LiveIs DEF AtEdge
<1>7. ASSUME NEW i \in Live(cs, p) PROVE \E m \in DOMAIN g.saves : SavedAt(g, cs[i], o, m)
  <2>1. PICK m \in DOMAIN f.saves : SavedAt(f, cs[i], o, m)
      BY DEF Held
  <2>2. i \in DOMAIN cs /\ (i = l \/ i < l)
      BY <1>1 DEF Live
  <2>3. CASE i = l
    <3>1. n \in 1..n
        BY <1>5
    <3>2. SavedAt(g, cs[l], o, n)
        BY <1>3, <1>5, <3>1 DEF SavedAt
    <3>3. QED
        BY <1>5, <2>3, <3>1, <3>2
  <2>4. CASE i < l
    <3>1. m < n
        BY <1>1, <1>3, <2>1, <2>2, <2>4, SavesInOrder
    <3>2. m \in 1..n
        BY <1>5, <3>1
    <3>3. SavedAt(g, cs[i], o, m)
        BY <1>5, <2>1, <3>2 DEF SavedAt
    <3>4. QED
        BY <1>5, <3>2, <3>3
  <2>5. QED
      BY <2>2, <2>3, <2>4
<1>8. g.saves # <<>>
    BY <1>5
<1>9. ~o => g.data = g.committed \cup c.kept
    BY <1>3, <1>4, <1>5 DEF SavedAt
<1>10. Held(g, cs, "rollback", c.kept, o)
    BY <1>2, <1>6, <1>7, <1>8, <1>9 DEF Held
<1>11. Inside(cs, "rollback", c.kept, c.kind # "top")
    BY DEF Inside, AtEdge
<1>12. QED
    BY <1>4, <1>5, <1>10, <1>11 DEF g

(* RELEASE of the innermost transaction.                                   *)
Commits(f, g, c, k, o) ==
    \/ g.committed = f.committed
    \/ ~o /\ c.kind = "top" /\ g.committed = f.committed \cup k

LEMMA Releases ==
    ASSUME NEW cs \in Seq(Contexts), cs # <<>>, NEW e \in Nat, Numbered(cs, e), NEW k, OneTop(cs),
           LastOf(cs).kind \in Transactions,
           NEW p \in {"run", "rollback"}, NEW q \in {"release", "undo"},
           NEW f \in Sqls, SavesOk(f, e), NEW o \in BOOLEAN, Held(f, cs, p, k, o)
    PROVE  LET g == Executed(f, [op |-> "release", of |-> LastOf(cs).name])
           IN  /\ Held(g, cs, q, k, o) /\ g \in Sqls /\ SavesOk(g, e)
               /\ Commits(f, g, LastOf(cs), k, o)
<1> DEFINE c == LastOf(cs)
           l == Len(cs)
<1>1. l \in DOMAIN cs /\ DOMAIN cs = 1..l /\ l \in Nat
    BY ContextsAre
<1>2. l \in Live(cs, p)
    BY <1>1 DEF Live, LastOf
<1>3. PICK n \in DOMAIN f.saves : SavedAt(f, cs[l], o, n)
    BY <1>2 DEF Held
<1>4. c.name = f.saves[n].name /\ c = cs[l]
    BY <1>3 DEF SavedAt, LastOf
<1> DEFINE g == Executed(f, [op |-> "release", of |-> f.saves[n].name])
<1>5. /\ g \in Sqls /\ SavesOk(g, e)
      /\ g.data = f.data /\ g.committed = (IF n = 1 THEN f.data ELSE f.committed)
      /\ DOMAIN f.saves = 1..Len(f.saves) /\ n \in 1..Len(f.saves)
      /\ DOMAIN g.saves = 1..(n - 1) /\ Len(g.saves) = n - 1 /\ Len(f.saves) \in Nat
      /\ \A i \in 1..(n - 1) : g.saves[i] = f.saves[i]
    BY ReleaseIs
<1> HIDE DEF g, l
<1>6. \A i \in Live(cs, q) : i \in Live(cs, p) /\ i < l
    BY <1>1 DEF Live, l
<1>7. ~o => f.data = f.committed \cup k
    BY <1>2 DEF Held
<1>8. (o => n # 1) /\ (~o => (n = 1 <=> c.kind = "top"))
    BY <1>3, <1>4 DEF SavedAt
<1>9. ASSUME NEW i \in Live(cs, q) PROVE n # 1 /\ \E m \in DOMAIN g.saves : SavedAt(g, cs[i], o, m)
  <2>1. i \in Live(cs, p) /\ i < l /\ i \in DOMAIN cs
      BY <1>6 DEF Live
  <2>2. PICK m \in DOMAIN f.saves : SavedAt(f, cs[i], o, m)
      BY <2>1 DEF Held
  <2>3. m < n
      BY <1>1, <1>3, <2>1, <2>2, SavesInOrder
  <2>4. m \in 1..(n - 1) /\ n # 1
      BY <1>5, <2>3
  <2>5. SavedAt(g, cs[i], o, m)
      BY <1>5, <2>2, <2>4 DEF SavedAt
  <2>6. QED
      BY <1>5, <2>4, <2>5
<1>10. Commits(f, g, c, k, o)
    BY <1>5, <1>7, <1>8 DEF Commits
<1>11. o => g.saves # <<>>
    BY <1>5, <1>8
<1>12. ~o => IF Live(cs, q) = {} THEN Clean(g) ELSE g.data = g.committed \cup k
  <2>1. ASSUME ~o, Live(cs, q) = {} PROVE Clean(g)
    <3>1. c.kind = "top"
      <4>1. SUFFICES ASSUME c.kind # "top" PROVE FALSE
          OBVIOUS
      <4>2. Live(cs, q) # {}
          BY <4>1, LiveTop
      <4>3. QED
          BY <2>1, <4>2
    <3>2. n = 1 /\ g.committed = g.data /\ Len(g.saves) = 0
        BY <1>5, <1>8, <2>1, <3>1
    <3>3. g.saves = <<>>
      <4>1. g.saves \in Seq(Saves)
          BY <1>5, SavesAre
      <4>2. QED
          BY <3>2, <4>1
    <3>4. QED
        BY <3>2, <3>3 DEF Clean
  <2>2. ASSUME ~o, Live(cs, q) # {} PROVE g.data = g.committed \cup k
    <3>1. n # 1
        BY <1>9, <2>2
    <3>2. QED
        BY <1>5, <1>7, <2>2, <3>1
  <2>3. QED
      BY <2>1, <2>2
<1>13. ~o /\ c.kind = "top" => k \subseteq g.committed
    BY <1>5, <1>7, <1>8
<1>14. Held(g, cs, q, k, o)
    BY <1>9, <1>11, <1>12, <1>13 DEF Held
<1>15. QED
    BY <1>4, <1>5, <1>10, <1>14 DEF g

(* A nested transaction is over, or its SAVEPOINT is given up.             *)
LEMMA NestedEnds ==
    ASSUME NEW cs \in Seq(Contexts), cs # <<>>, NEW e, Numbered(cs, e), NEW k, NEW w, NEW p,
           p \in {"savepoint", "release", "undo"},
           Inside(cs, p, k, w), LastOf(cs).kind # "top",
           NEW q \in {"run", "raise"}, NEW f, NEW o, Held(f, cs, p, k, o)
    PROVE  LET d == SubSeq(cs, 1, Len(cs) - 1)
           IN  Inside(d, q, k, TRUE) /\ Held(f, d, q, k, o)
<1> DEFINE d == SubSeq(cs, 1, Len(cs) - 1)
<1>1. /\ OneTop(d) /\ d \in Seq(Contexts)
      /\ \A i \in DOMAIN d : i \in DOMAIN cs /\ d[i] = cs[i] /\ i # Len(cs)
    BY TopStays, Popped DEF Inside
<1> HIDE DEF d
<1>2. Inside(d, q, k, TRUE)
    BY <1>1 DEF Inside, AtEdge
<1>3. \A i \in Live(d, q) : i \in Live(cs, p) /\ d[i] = cs[i]
    BY <1>1 DEF Live
<1>4. Live(d, q) # {}
    BY <1>1, LiveTop
<1>5. Live(cs, p) # {}
    BY <1>3, <1>4
<1>6. Held(f, d, q, k, o)
    BY <1>3, <1>4, <1>5 DEF Held
<1>7. QED
    BY <1>2, <1>6 DEF d

(* The outermost is: nothing is left of the transaction.                   *)
LEMMA TopEnds ==
    ASSUME NEW cs \in Seq(Contexts), cs # <<>>, NEW e, Numbered(cs, e), OneTop(cs), LastOf(cs).kind = "top",
           NEW q \in {"run", "raise"}
    PROVE  /\ Outside(SubSeq(cs, 1, Len(cs) - 1), q, {})
           /\ \A p \in {"release", "undo"} : Live(cs, p) = {}
<1> DEFINE d == SubSeq(cs, 1, Len(cs) - 1)
<1>1. /\ Len(cs) \in Nat /\ Len(cs) >= 1 /\ DOMAIN cs = 1..Len(cs)
      /\ DOMAIN d = 1..(Len(cs) - 1) /\ \A i \in 1..(Len(cs) - 1) : d[i] = cs[i]
    BY Popped
<1>2. \A i \in DOMAIN cs : cs[i].kind \in Transactions => i = Len(cs)
  <2>1. PICK i \in DOMAIN cs : /\ cs[i].kind = "top"
                               /\ \A j \in DOMAIN cs : cs[j].kind \in Transactions /\ j # i
                                                         => j > i /\ cs[j].kind = "nested"
      BY DEF OneTop
  <2>2. Len(cs) \in DOMAIN cs /\ cs[Len(cs)].kind = "top"
      BY <1>1 DEF LastOf
  <2>3. i = Len(cs)
      BY <2>1, <2>2 DEF Transactions
  <2>4. QED
      BY <1>1, <2>1, <2>3
<1> HIDE DEF d
<1>3. \A i \in DOMAIN d : d[i].kind \notin Transactions
    BY <1>1, <1>2
<1>4. Outside(d, q, {})
    BY <1>3 DEF Outside
<1>5. \A p \in {"release", "undo"} : Live(cs, p) = {}
    BY <1>2 DEF Live
<1>6. QED
    BY <1>4, <1>5 DEF d

(* A step that touches neither contexts nor the connection.                *)
LEMMA HeldMoves ==
    ASSUME NEW f, NEW cs, NEW p, NEW q, {p, q} \cap {"release", "undo"} = {}, NEW k, NEW o,
           Held(f, cs, p, k, o)
    PROVE  Held(f, cs, q, k, o)
<1>1. Live(cs, p) = Live(cs, q) /\ q # "release"
    BY LiveIs
<1>2. QED
    BY <1>1 DEF Held

--------------------------------------------------------------------------------
(* Steps of the specification.                                             *)

(* Of a task that does not hold the lock.                                  *)
LEMMA OutsideStep ==
    ASSUME Inv, NEW t \in Tasks, t # lock, NEW cs \in Seq(Contexts), NEW p \in TaskStates,
           contexts' = [contexts EXCEPT ![t] = cs], pc' = [pc EXCEPT ![t] = p],
           UNCHANGED <<lock, currentWriter, queue, sql, history>>,
           entered' \in {entered, entered + 1}, Numbered(cs, entered'),
           Outside(cs, p, kept[t])
    PROVE  Inv'
<1>0. TypesOk /\ TasksOk
    BY DEF Inv
<1>1. entered \in Nat /\ contexts \in [Tasks -> Seq(Contexts)] /\ pc \in [Tasks -> TaskStates]
    BY <1>0 DEF TypesOk
<1>2. /\ lock' = lock /\ currentWriter' = currentWriter /\ queue' = queue /\ sql' = sql
      /\ writes' = writes /\ kept' = kept /\ finished' = finished /\ returned' = returned
      /\ orphaned' = orphaned
    BY DEF history
<1>3. /\ contexts' \in [Tasks -> Seq(Contexts)] /\ pc' \in [Tasks -> TaskStates] /\ entered' \in Nat
      /\ contexts'[t] = cs /\ pc'[t] = p
      /\ \A u \in Tasks : u # t => contexts'[u] = contexts[u] /\ pc'[u] = pc[u]
    BY <1>1
<1>4. TypesOk'
    BY <1>0, <1>2, <1>3 DEF TypesOk
<1>5. TasksOk'
  <2>1. ASSUME NEW u \in Tasks PROVE Numbered(contexts'[u], entered')
    <3>1. CASE u = t
        BY <1>3, <3>1
    <3>2. CASE u # t
      <4>1. Numbered(contexts[u], entered) /\ contexts[u] \in Seq(Contexts) /\ contexts'[u] = contexts[u]
          BY <1>0, <1>1, <1>3, <3>2 DEF TasksOk
      <4>2. Numbered(contexts[u], entered + 1)
          BY <1>1, <4>1, NumberedLater
      <4>3. QED
          BY <4>1, <4>2
    <3>3. QED
        BY <3>1, <3>2
  <2>2. ASSUME NEW u \in Tasks, u # lock' PROVE Outside(contexts'[u], pc'[u], kept'[u])
      BY <1>0, <1>2, <1>3, <2>2 DEF TasksOk
  <2>3. ASSUME lock' # NoTask
        PROVE  Inside(contexts'[lock'], pc'[lock'], kept'[lock'], currentWriter' = lock')
    <3>1. lock \in Tasks
        BY <1>0, <1>2, <2>3 DEF TypesOk
    <3>2. QED
        BY <1>0, <1>2, <1>3, <2>3, <3>1 DEF TasksOk
  <2>4. QED
      BY <2>1, <2>2, <2>3 DEF TasksOk
<1>6. PICK f \in Sqls : Pending(sql, queue, f, Whole(finished, returned, orphaned)) /\ Matches(f)
    BY DEF Inv
<1>7. Pending(sql, queue, f, Whole(finished, returned, orphaned))'
    BY <1>2, <1>6
<1>8. Matches(f)'
  <2>1. SavesOk(f, entered')
      BY <1>1, <1>6, SavesOkLater DEF Matches
  <2>2. lock' = NoTask => Free(f, orphaned')
      BY <1>2, <1>6 DEF Matches
  <2>3. lock' # NoTask => Held(f, contexts'[lock'], pc'[lock'], kept'[lock'], orphaned')
    <3>1. SUFFICES ASSUME lock' # NoTask
                   PROVE  Held(f, contexts'[lock'], pc'[lock'], kept'[lock'], orphaned')
        OBVIOUS
    <3>2. lock \in Tasks
        BY <1>0, <1>2, <3>1 DEF TypesOk
    <3>3. QED
        BY <1>2, <1>3, <1>6, <3>1, <3>2 DEF Matches
  <2>4. QED
      BY <2>1, <2>2, <2>3 DEF Matches
<1>9. QED
    BY <1>4, <1>5, <1>6, <1>7, <1>8 DEF Inv

(* Of the task that holds it, takes it or gives it back.                   *)
LEMMA HolderStep ==
    ASSUME Inv, NEW t \in Tasks, lock \in {t, NoTask}, lock' \in {t, NoTask},
           NEW cs \in Seq(Contexts), NEW p \in TaskStates, NEW k \in SUBSET Nat,
           contexts' = [contexts EXCEPT ![t] = cs], pc' = [pc EXCEPT ![t] = p],
           kept' = [kept EXCEPT ![t] = k],
           currentWriter' \in {lock', NoTask}, queue' \in Seq(Commands),
           entered' \in {entered, entered + 1}, Numbered(cs, entered'),
           writes' \in Nat, finished' \subseteq SUBSET Nat, returned' \subseteq Nat, orphaned' \in BOOLEAN,
           lock' = t => Inside(cs, p, k, currentWriter' = t),
           lock' = NoTask => Outside(cs, p, k),
           NEW g \in Sqls, Pending(sql', queue', g, Whole(finished', returned', orphaned')),
           SavesOk(g, entered'),
           lock' = t => Held(g, cs, p, k, orphaned'),
           lock' = NoTask => Free(g, orphaned')
    PROVE  Inv'
<1>0. TypesOk /\ TasksOk /\ t # NoTask
    BY ParametersAssumption DEF Inv
<1>1. /\ entered \in Nat /\ contexts \in [Tasks -> Seq(Contexts)] /\ pc \in [Tasks -> TaskStates]
      /\ kept \in [Tasks -> SUBSET Nat]
    BY <1>0 DEF TypesOk
<1>3. /\ contexts' \in [Tasks -> Seq(Contexts)] /\ pc' \in [Tasks -> TaskStates] /\ entered' \in Nat
      /\ kept' \in [Tasks -> SUBSET Nat]
      /\ contexts'[t] = cs /\ pc'[t] = p /\ kept'[t] = k
      /\ \A u \in Tasks : u # t => contexts'[u] = contexts[u] /\ pc'[u] = pc[u] /\ kept'[u] = kept[u]
    BY <1>1
<1>4. TypesOk'
    BY <1>0, <1>3 DEF TypesOk
<1>5. TasksOk'
  <2>1. ASSUME NEW u \in Tasks PROVE Numbered(contexts'[u], entered')
    <3>1. CASE u = t
        BY <1>3, <3>1
    <3>2. CASE u # t
      <4>1. Numbered(contexts[u], entered) /\ contexts[u] \in Seq(Contexts) /\ contexts'[u] = contexts[u]
          BY <1>0, <1>1, <1>3, <3>2 DEF TasksOk
      <4>2. Numbered(contexts[u], entered + 1)
          BY <1>1, <4>1, NumberedLater
      <4>3. QED
          BY <4>1, <4>2
    <3>3. QED
        BY <3>1, <3>2
  <2>2. ASSUME NEW u \in Tasks, u # lock' PROVE Outside(contexts'[u], pc'[u], kept'[u])
    <3>1. CASE u = t
        BY <1>3, <2>2, <3>1
    <3>2. CASE u # t
      <4>1. u # lock
          BY <3>2, ParametersAssumption
      <4>2. QED
          BY <1>0, <1>3, <3>2, <4>1 DEF TasksOk
    <3>3. QED
        BY <3>1, <3>2
  <2>3. ASSUME lock' # NoTask
        PROVE  Inside(contexts'[lock'], pc'[lock'], kept'[lock'], currentWriter' = lock')
      BY <1>3, <2>3
  <2>4. QED
      BY <2>1, <2>2, <2>3 DEF TasksOk
<1>6. Matches(g)'
  <2>1. lock' = NoTask => Free(g, orphaned')
      OBVIOUS
  <2>2. lock' # NoTask => Held(g, contexts'[lock'], pc'[lock'], kept'[lock'], orphaned')
      BY <1>3
  <2>3. QED
      BY <2>1, <2>2 DEF Matches
<1>7. QED
    BY <1>4, <1>5, <1>6 DEF Inv

(* What is known of the task that holds the lock.                          *)
LEMMA HolderIs ==
    ASSUME Inv, NEW t \in Tasks, lock = t
    PROVE  /\ Inside(contexts[t], pc[t], kept[t], currentWriter = t)
           /\ contexts[t] \in Seq(Contexts) /\ Numbered(contexts[t], entered) /\ entered \in Nat
           /\ kept[t] \in SUBSET Nat /\ orphaned \in BOOLEAN /\ queue \in Seq(Commands)
           /\ \E f \in Sqls : /\ Pending(sql, queue, f, Whole(finished, returned, orphaned))
                              /\ SavesOk(f, entered)
                              /\ Held(f, contexts[t], pc[t], kept[t], orphaned)
<1>1. TypesOk /\ TasksOk /\ t # NoTask
    BY ParametersAssumption DEF Inv
<1>2. PICK f \in Sqls : Pending(sql, queue, f, Whole(finished, returned, orphaned)) /\ Matches(f)
    BY DEF Inv
<1>3. SavesOk(f, entered) /\ Held(f, contexts[t], pc[t], kept[t], orphaned)
    BY <1>1, <1>2 DEF Matches
<1>4. QED
    BY <1>1, <1>2, <1>3 DEF TypesOk, TasksOk

LEMMA OutsiderIs ==
    ASSUME Inv, NEW t \in Tasks, lock # t
    PROVE  /\ Outside(contexts[t], pc[t], kept[t]) /\ currentWriter # t
           /\ contexts[t] \in Seq(Contexts) /\ Numbered(contexts[t], entered) /\ entered \in Nat
           /\ kept[t] \in SUBSET Nat /\ orphaned \in BOOLEAN /\ queue \in Seq(Commands)
    BY ParametersAssumption DEF Inv, TypesOk, TasksOk

LEMMA InitInv == Init => Inv
<1> SUFFICES ASSUME Init PROVE Inv
    OBVIOUS
<1> DEFINE s == [data |-> {}, committed |-> {}, saves |-> <<>>]
<1>1. sql = s /\ queue = <<>> /\ lock = NoTask /\ finished = {} /\ returned = {} /\ orphaned = FALSE
      /\ entered = 0
    BY DEF Init
<1>2. TypesOk
  <2>1. pc \in [Tasks -> TaskStates]
      BY DEF Init, TaskStates
  <2>2. <<>> \in Seq(Contexts) /\ queue \in Seq(Commands)
      BY <1>1
  <2>3. contexts \in [Tasks -> Seq(Contexts)] /\ kept \in [Tasks -> SUBSET Nat]
      BY <2>2 DEF Init
  <2>4. writes \in Nat /\ entered \in Nat /\ currentWriter = NoTask
      BY DEF Init
  <2>5. QED
      BY <1>1, <2>1, <2>2, <2>3, <2>4 DEF TypesOk
<1>3. TasksOk
  <2>1. ASSUME NEW t \in Tasks
        PROVE  contexts[t] = <<>> /\ pc[t] = "run" /\ kept[t] = {} /\ Numbered(contexts[t], entered)
               /\ Outside(contexts[t], pc[t], kept[t])
      BY DEF Init, Numbered, Outside
  <2>2. QED
      BY <1>1, <2>1 DEF TasksOk
<1>4. s \in Sqls /\ s.committed = {} /\ s.saves = <<>> /\ s.data = {}
    BY DEF Sqls
<1> HIDE DEF s
<1>5. s.committed \in Whole(finished, returned, orphaned)
  <2>1. {} \in SUBSET finished /\ {} = UNION {}
      OBVIOUS
  <2>2. QED
      BY <1>1, <1>4, <2>1 DEF Whole
<1>6. Pending(sql, queue, s, Whole(finished, returned, orphaned))
    BY <1>1, <1>4, <1>5, PendingNone
<1>7. Matches(s)
    BY <1>1, <1>4 DEF Matches, SavesOk, Free, Clean
<1>8. QED
    BY <1>2, <1>3, <1>4, <1>6, <1>7 DEF Inv

LEMMA ExecuteInv ==
    ASSUME Inv, Execute
    PROVE  Inv'
<1>1. /\ queue # <<>> /\ sql' = Executed(sql, Head(queue)) /\ queue' = Tail(queue)
      /\ UNCHANGED <<tasks, history>>
    BY DEF Execute
<1>2. TypesOk /\ TasksOk /\ queue \in Seq(Commands)
    BY DEF Inv, TypesOk
<1>3. PICK f \in Sqls : Pending(sql, queue, f, Whole(finished, returned, orphaned)) /\ Matches(f)
    BY DEF Inv
<1>4. Pending(sql', queue', f, Whole(finished, returned, orphaned))
    BY <1>1, <1>2, <1>3, PendingExecute
<1>5. Pending(sql', queue', f, Whole(finished', returned', orphaned'))
    BY <1>1, <1>4 DEF history
<1>6. Matches(f)'
    BY <1>1, <1>3 DEF Matches, tasks, history
<1>7. queue' \in Seq(Commands)
    BY <1>1, <1>2
<1>8. TypesOk' /\ TasksOk'
    BY <1>1, <1>2, <1>7 DEF TypesOk, TasksOk, tasks, history
<1>9. QED
    BY <1>5, <1>6, <1>8 DEF Inv

(* A command that commits nothing new is requested.                        *)
LEMMA Requested ==
    ASSUME Inv, NEW f \in Sqls, Pending(sql, queue, f, Whole(finished, returned, orphaned)),
           NEW op \in {"savepoint", "write", "rollback", "release"}, NEW n \in Nat, Request(op, n),
           Executed(f, [op |-> op, of |-> n]) \in Sqls,
           Executed(f, [op |-> op, of |-> n]).committed = f.committed
    PROVE  /\ queue' \in Seq(Commands)
           /\ Pending(sql, queue', Executed(f, [op |-> op, of |-> n]), Whole(finished, returned, orphaned))
<1> DEFINE c == [op |-> op, of |-> n]
           W == Whole(finished, returned, orphaned)
<1>1. c \in Commands /\ queue' = Append(queue, c) /\ queue \in Seq(Commands)
    BY DEF Commands, Request, Inv, TypesOk
<1> HIDE DEF c, W
<1>2. f.committed \in W
  <2>1. PICK st \in [0..Len(queue) -> Sqls] : /\ st[Len(queue)] = f
                                              /\ \A i \in 0..Len(queue) : st[i].committed \in W
      BY DEF Pending, W
  <2>2. Len(queue) \in 0..Len(queue)
    <3>1. Len(queue) \in Nat
        BY <1>1
    <3>2. QED
        BY <3>1
  <2>3. QED
      BY <2>1, <2>2
<1>3. queue' \in Seq(Commands)
    BY <1>1
<1>4. Pending(sql, Append(queue, c), Executed(f, c), W)
    BY <1>1, <1>2, PendingRequest DEF c, W
<1>5. QED
    BY <1>1, <1>3, <1>4 DEF c, W

LEMMA SameKept ==
    ASSUME Inv, NEW t \in Tasks
    PROVE  kept = [kept EXCEPT ![t] = kept[t]] /\ contexts = [contexts EXCEPT ![t] = contexts[t]]
    BY DEF Inv, TypesOk

LEMMA SameHistory ==
    ASSUME Inv
    PROVE  /\ writes \in Nat /\ finished \subseteq SUBSET Nat /\ returned \subseteq Nat
           /\ orphaned \in BOOLEAN /\ currentWriter \in {lock, NoTask} /\ lock \in Tasks \cup {NoTask}
    BY DEF Inv, TypesOk

(* A transaction of a task that has none.                                  *)
LEMMA BeginTopInv ==
    ASSUME Inv, NEW t \in Tasks, lock = NoTask, Savepoint(t, "top"), lock' = t,
           UNCHANGED <<currentWriter, sql, history>>
    PROVE  Inv'
<1> DEFINE d == Append(contexts[t], [kind |-> "top", name |-> entered, kept |-> kept[t]])
<1>0. t # NoTask /\ lock # t
    BY ParametersAssumption
<1>1. /\ Outside(contexts[t], pc[t], kept[t])
      /\ contexts[t] \in Seq(Contexts) /\ Numbered(contexts[t], entered) /\ entered \in Nat
      /\ kept[t] \in SUBSET Nat /\ orphaned \in BOOLEAN /\ queue \in Seq(Commands)
    BY <1>0, OutsiderIs
<1>2. /\ contexts' = [contexts EXCEPT ![t] = d] /\ entered' = entered + 1
      /\ Request("savepoint", entered) /\ pc' = [pc EXCEPT ![t] = "savepoint"]
      /\ kept' = kept /\ writes' = writes /\ finished' = finished /\ returned' = returned
      /\ orphaned' = orphaned /\ sql' = sql /\ currentWriter' = currentWriter
    BY DEF Savepoint, Push, history
<1>3. PICK f \in Sqls : /\ Pending(sql, queue, f, Whole(finished, returned, orphaned))
                        /\ SavesOk(f, entered) /\ Free(f, orphaned)
    BY DEF Inv, Matches
<1> DEFINE g == Executed(f, [op |-> "savepoint", of |-> entered])
<1>4. g \in Sqls /\ SavesOk(g, entered + 1) /\ g.committed = f.committed
    BY <1>1, <1>3, SavepointIs
<1>5. queue' \in Seq(Commands) /\ Pending(sql, queue', g, Whole(finished, returned, orphaned))
    BY <1>1, <1>2, <1>3, <1>4, Requested
<1>6. d \in Seq(Contexts) /\ Numbered(d, entered + 1)
    BY <1>1, Pushed DEF Kinds
<1>7. Inside(d, "savepoint", kept[t], FALSE) /\ Held(g, d, "savepoint", kept[t], orphaned)
    BY <1>1, <1>3, TopBegins
<1>8. currentWriter' = NoTask
    BY <1>2, SameHistory
<1>9. Inside(d, "savepoint", kept[t], currentWriter' = t)
    BY <1>0, <1>7, <1>8 DEF Inside
<1>10. /\ writes \in Nat /\ finished \subseteq SUBSET Nat /\ returned \subseteq Nat
       /\ kept = [kept EXCEPT ![t] = kept[t]] /\ "savepoint" \in TaskStates
    BY SameHistory, SameKept DEF TaskStates
<1> HIDE DEF d, g
<1>11. QED
    BY <1>0, <1>1, <1>2, <1>4, <1>5, <1>6, <1>7, <1>8, <1>9, <1>10, HolderStep

LEMMA EnterNestedInv ==
    ASSUME Inv, NEW t \in Tasks, EnterNested(t)
    PROVE  Inv'
<1> DEFINE d == Append(contexts[t], [kind |-> "nested", name |-> entered, kept |-> kept[t]])
<1>0. currentWriter = t /\ lock = t /\ t # NoTask /\ pc[t] = "run"
    BY ParametersAssumption, SameHistory DEF EnterNested, MayEnter
<1>1. /\ Inside(contexts[t], "run", kept[t], currentWriter = t)
      /\ contexts[t] \in Seq(Contexts) /\ Numbered(contexts[t], entered) /\ entered \in Nat
      /\ kept[t] \in SUBSET Nat /\ orphaned \in BOOLEAN /\ queue \in Seq(Commands)
    BY <1>0, HolderIs
<1>2. /\ contexts' = [contexts EXCEPT ![t] = d] /\ entered' = entered + 1
      /\ Request("savepoint", entered) /\ pc' = [pc EXCEPT ![t] = "savepoint"]
      /\ kept' = kept /\ writes' = writes /\ finished' = finished /\ returned' = returned
      /\ orphaned' = orphaned /\ sql' = sql /\ currentWriter' = t /\ lock' = t
    BY <1>0 DEF EnterNested, Savepoint, Push, history
<1>3. PICK f \in Sqls : /\ Pending(sql, queue, f, Whole(finished, returned, orphaned))
                        /\ SavesOk(f, entered) /\ Held(f, contexts[t], "run", kept[t], orphaned)
    BY <1>0, HolderIs
<1> DEFINE g == Executed(f, [op |-> "savepoint", of |-> entered])
<1>4. g \in Sqls /\ SavesOk(g, entered + 1) /\ g.committed = f.committed
    BY <1>1, <1>3, SavepointIs
<1>5. queue' \in Seq(Commands) /\ Pending(sql, queue', g, Whole(finished, returned, orphaned))
    BY <1>1, <1>2, <1>3, <1>4, Requested
<1>6. d \in Seq(Contexts) /\ Numbered(d, entered + 1)
    BY <1>1, Pushed DEF Kinds
<1>7. Inside(d, "savepoint", kept[t], TRUE) /\ Held(g, d, "savepoint", kept[t], orphaned)
    BY <1>1, <1>3, NestedBegins
<1>8. Inside(d, "savepoint", kept[t], currentWriter' = t)
    BY <1>2, <1>7 DEF Inside
<1>9. /\ writes \in Nat /\ finished \subseteq SUBSET Nat /\ returned \subseteq Nat
      /\ kept = [kept EXCEPT ![t] = kept[t]] /\ "savepoint" \in TaskStates
    BY SameHistory, SameKept DEF TaskStates
<1> HIDE DEF d, g
<1>10. QED
    BY <1>0, <1>1, <1>2, <1>4, <1>5, <1>6, <1>7, <1>8, <1>9, HolderStep

(* A free task that is not the current writer does not hold the lock.      *)
LEMMA FreeIsOutside ==
    ASSUME Inv, NEW t \in Tasks, pc[t] = "run", currentWriter # t
    PROVE  lock # t
    BY HolderIs DEF Inside, AtEdge

LEMMA EnterTopInv ==
    ASSUME Inv, NEW t \in Tasks, EnterTop(t)
    PROVE  Inv'
<1>1. CASE lock = NoTask /\ waiting = <<>>
  <2>1. Savepoint(t, "top") /\ lock' = t /\ UNCHANGED <<currentWriter, sql, history>>
      BY <1>1 DEF EnterTop
  <2>2. QED
      BY <1>1, <2>1, BeginTopInv
<1>2. CASE ~(lock = NoTask /\ waiting = <<>>)
  <2>1. /\ pc' = [pc EXCEPT ![t] = "lock"] /\ pc[t] = "run" /\ currentWriter # t
        /\ contexts' = contexts /\ entered' = entered
        /\ UNCHANGED <<lock, currentWriter, queue, sql, history>>
      BY <1>2 DEF EnterTop, MayEnter
  <2>2. lock # t
      BY <2>1, FreeIsOutside
  <2>3. Outside(contexts[t], "lock", kept[t]) /\ "lock" \in TaskStates
      BY <2>2, OutsiderIs DEF Outside, TaskStates
  <2>4. contexts = [contexts EXCEPT ![t] = contexts[t]]
      BY SameKept
  <2>5. contexts[t] \in Seq(Contexts) /\ Numbered(contexts[t], entered)
      BY <2>2, OutsiderIs
  <2>6. QED
      BY <2>1, <2>2, <2>3, <2>4, <2>5, OutsideStep
<1>3. QED
    BY <1>1, <1>2

LEMMA GetLockInv ==
    ASSUME Inv, NEW t \in Tasks, GetLock(t)
    PROVE  Inv'
    BY BeginTopInv DEF GetLock

LEMMA EnterReaderInv ==
    ASSUME Inv, NEW t \in Tasks, EnterReader(t)
    PROVE  Inv'
<1>1. /\ pc' = [pc EXCEPT ![t] = "pool"] /\ pc[t] = "run" /\ currentWriter # t
      /\ contexts' = contexts /\ entered' = entered
      /\ UNCHANGED <<lock, currentWriter, queue, sql, history>>
    BY DEF EnterReader, MayEnter
<1>2. lock # t
    BY <1>1, FreeIsOutside
<1>3. Outside(contexts[t], "pool", kept[t]) /\ "pool" \in TaskStates
    BY <1>2, OutsiderIs DEF Outside, TaskStates
<1>4. contexts = [contexts EXCEPT ![t] = contexts[t]]
    BY SameKept
<1>5. contexts[t] \in Seq(Contexts) /\ Numbered(contexts[t], entered)
    BY <1>2, OutsiderIs
<1>6. QED
    BY <1>1, <1>2, <1>3, <1>4, <1>5, OutsideStep

LEMMA CancelWaitInv ==
    ASSUME Inv, NEW t \in Tasks, CancelWait(t)
    PROVE  Inv'
<1>1. /\ pc' = [pc EXCEPT ![t] = "raise"] /\ pc[t] \in {"lock", "pool"}
      /\ contexts' = contexts /\ entered' = entered
      /\ UNCHANGED <<lock, currentWriter, queue, sql, history>>
    BY DEF CancelWait
<1>2. lock # t
    BY <1>1, HolderIs DEF Inside
<1>3. Outside(contexts[t], "raise", kept[t]) /\ "raise" \in TaskStates
    BY <1>2, OutsiderIs DEF Outside, TaskStates
<1>4. contexts = [contexts EXCEPT ![t] = contexts[t]]
    BY SameKept
<1>5. contexts[t] \in Seq(Contexts) /\ Numbered(contexts[t], entered)
    BY <1>2, OutsiderIs
<1>6. QED
    BY <1>1, <1>2, <1>3, <1>4, <1>5, OutsideStep

(* A reader gets a connection, of the pool or that of its task.            *)
LEMMA BeginReaderInv ==
    ASSUME Inv, NEW t \in Tasks, pc[t] = "run" \/ (pc[t] = "pool" /\ lock # t),
           NEW kind \in {"pool", "shared"}, Push(t, kind, {}), pc' = [pc EXCEPT ![t] = "run"],
           UNCHANGED <<lock, currentWriter, queue, sql, history>>
    PROVE  Inv'
<1> DEFINE d == Append(contexts[t], [kind |-> kind, name |-> entered, kept |-> {}])
<1>1. contexts' = [contexts EXCEPT ![t] = d] /\ entered' = entered + 1 /\ "run" \in TaskStates
    BY DEF Push, TaskStates
<1>2. /\ contexts[t] \in Seq(Contexts) /\ Numbered(contexts[t], entered) /\ entered \in Nat
      /\ kept[t] \in SUBSET Nat /\ orphaned \in BOOLEAN /\ queue \in Seq(Commands)
    BY OutsiderIs, HolderIs
<1>3. d \in Seq(Contexts) /\ Numbered(d, entered + 1)
    BY <1>2, Pushed DEF Kinds
<1>4. CASE lock # t
  <2>1. Outside(contexts[t], pc[t], kept[t])
      BY <1>4, OutsiderIs
  <2>2. Outside(d, "run", kept[t])
      BY <1>2, <2>1, OutsideBegins
  <2> HIDE DEF d
  <2>3. QED
      BY <1>1, <1>3, <1>4, <2>2, OutsideStep
<1>5. CASE lock = t
  <2>1. Inside(contexts[t], "run", kept[t], currentWriter = t)
      BY <1>5, HolderIs
  <2>2. PICK f \in Sqls : /\ Pending(sql, queue, f, Whole(finished, returned, orphaned))
                          /\ SavesOk(f, entered) /\ Held(f, contexts[t], "run", kept[t], orphaned)
      BY <1>5, HolderIs
  <2>3. Inside(d, "run", kept[t], currentWriter = t) /\ Held(f, d, "run", kept[t], orphaned)
      BY <1>2, <2>1, <2>2, ReaderBegins
  <2>4. SavesOk(f, entered + 1)
      BY <1>2, <2>2, SavesOkLater
  <2>5. /\ lock' = t /\ currentWriter' = currentWriter /\ queue' = queue /\ sql' = sql
        /\ kept' = kept /\ writes' = writes /\ finished' = finished /\ returned' = returned
        /\ orphaned' = orphaned
      BY <1>5 DEF history
  <2>6. /\ writes \in Nat /\ finished \subseteq SUBSET Nat /\ returned \subseteq Nat
        /\ kept = [kept EXCEPT ![t] = kept[t]] /\ currentWriter \in {lock, NoTask} /\ t # NoTask
      BY SameHistory, SameKept, ParametersAssumption
  <2> HIDE DEF d
  <2>7. Inside(d, "run", kept[t], currentWriter' = t)
      BY <2>3, <2>5 DEF Inside
  <2>8. Pending(sql', queue', f, Whole(finished', returned', orphaned'))
      BY <2>2, <2>5
  <2>9. Held(f, d, "run", kept[t], orphaned') /\ SavesOk(f, entered')
      BY <1>1, <2>3, <2>4, <2>5
  <2>10. QED
      BY <1>1, <1>2, <1>3, <1>5, <2>5, <2>6, <2>7, <2>8, <2>9, HolderStep
<1>6. QED
    BY <1>4, <1>5

LEMMA EnterSharedInv ==
    ASSUME Inv, NEW t \in Tasks, EnterShared(t)
    PROVE  Inv'
<1>1. pc = [pc EXCEPT ![t] = "run"] /\ pc[t] = "run"
    BY DEF EnterShared, MayEnter, Inv, TypesOk
<1>2. QED
    BY <1>1, BeginReaderInv DEF EnterShared

LEMMA GetConnectionInv ==
    ASSUME Inv, NEW t \in Tasks, GetConnection(t)
    PROVE  Inv'
<1>1. pc[t] = "pool" /\ lock # t
    BY HolderIs DEF GetConnection, Inside
<1>2. QED
    BY <1>1, BeginReaderInv DEF GetConnection

LEMMA WriteInv ==
    ASSUME Inv, NEW t \in Tasks, Write(t)
    PROVE  Inv'
<1>0. currentWriter = t /\ lock = t /\ t # NoTask /\ pc[t] = "run"
    BY ParametersAssumption, SameHistory DEF Write
<1>1. /\ Inside(contexts[t], "run", kept[t], currentWriter = t)
      /\ contexts[t] \in Seq(Contexts) /\ Numbered(contexts[t], entered) /\ entered \in Nat
      /\ kept[t] \in SUBSET Nat /\ orphaned \in BOOLEAN /\ queue \in Seq(Commands)
    BY <1>0, HolderIs
<1>2. PICK f \in Sqls : /\ Pending(sql, queue, f, Whole(finished, returned, orphaned))
                        /\ SavesOk(f, entered) /\ Held(f, contexts[t], "run", kept[t], orphaned)
    BY <1>0, HolderIs
<1> DEFINE g == Executed(f, [op |-> "write", of |-> writes])
           k == kept[t] \cup {writes}
<1>3. /\ Request("write", writes) /\ kept' = [kept EXCEPT ![t] = k] /\ pc' = [pc EXCEPT ![t] = "write"]
      /\ writes' = writes + 1 /\ contexts' = contexts /\ entered' = entered /\ sql' = sql
      /\ lock' = t /\ currentWriter' = t /\ finished' = finished /\ returned' = returned
      /\ orphaned' = orphaned
    BY <1>0 DEF Write
<1>4. /\ writes \in Nat /\ finished \subseteq SUBSET Nat /\ returned \subseteq Nat
      /\ contexts = [contexts EXCEPT ![t] = contexts[t]] /\ "write" \in TaskStates
    BY SameHistory, SameKept DEF TaskStates
<1>5. g \in Sqls /\ g.saves = f.saves /\ g.committed = f.committed
    BY <1>4, WriteIs
<1>6. queue' \in Seq(Commands) /\ Pending(sql, queue', g, Whole(finished, returned, orphaned))
    BY <1>2, <1>3, <1>4, <1>5, Requested
<1>7. Inside(contexts[t], "write", k, TRUE) /\ Held(g, contexts[t], "write", k, orphaned)
  <2>1. Inside(contexts[t], "run", kept[t], TRUE)
      BY <1>0, <1>1 DEF Inside
  <2>2. QED
      BY <1>1, <1>2, <1>4, <2>1, Writes
<1>8. k \in SUBSET Nat /\ writes' \in Nat
    BY <1>1, <1>3, <1>4
<1>9. SavesOk(g, entered)
    BY <1>2, <1>5 DEF SavesOk
<1> HIDE DEF g, k
<1>10. Inside(contexts[t], "write", k, currentWriter' = t)
    BY <1>3, <1>7 DEF Inside
<1>11. QED
    BY <1>0, <1>1, <1>3, <1>4, <1>5, <1>6, <1>7, <1>8, <1>9, <1>10, HolderStep

(* The holder goes on, with contexts and connection as they are.           *)
LEMMA HolderMoves ==
    ASSUME Inv, NEW t \in Tasks, lock = t, pc[t] \in {"savepoint", "write", "raise", "run"},
           pc' = [pc EXCEPT ![t] = "run"], contexts' = contexts, entered' = entered, currentWriter' = t,
           UNCHANGED <<lock, queue, sql, history>>
    PROVE  Inv'
<1>1. /\ Inside(contexts[t], pc[t], kept[t], currentWriter = t)
      /\ contexts[t] \in Seq(Contexts) /\ Numbered(contexts[t], entered) /\ entered \in Nat
      /\ kept[t] \in SUBSET Nat /\ orphaned \in BOOLEAN /\ queue \in Seq(Commands)
    BY HolderIs
<1>2. PICK f \in Sqls : /\ Pending(sql, queue, f, Whole(finished, returned, orphaned))
                        /\ SavesOk(f, entered) /\ Held(f, contexts[t], pc[t], kept[t], orphaned)
    BY HolderIs
<1>3. Held(f, contexts[t], "run", kept[t], orphaned)
  <2>1. {pc[t], "run"} \cap {"release", "undo"} = {}
      OBVIOUS
  <2>2. QED
      BY <1>2, <2>1, HeldMoves
<1>4. Inside(contexts[t], "run", kept[t], currentWriter' = t)
    BY <1>1 DEF Inside, AtEdge
<1>5. /\ writes \in Nat /\ finished \subseteq SUBSET Nat /\ returned \subseteq Nat
      /\ kept = [kept EXCEPT ![t] = kept[t]] /\ contexts = [contexts EXCEPT ![t] = contexts[t]]
      /\ t # NoTask /\ "run" \in TaskStates
    BY SameHistory, SameKept, ParametersAssumption DEF TaskStates
<1>6. /\ lock' = t /\ queue' = queue /\ sql' = sql
      /\ kept' = kept /\ writes' = writes /\ finished' = finished /\ returned' = returned
      /\ orphaned' = orphaned
    BY DEF history
<1>7. Pending(sql', queue', f, Whole(finished', returned', orphaned'))
    BY <1>2, <1>6
<1>8. QED
    BY <1>1, <1>2, <1>3, <1>4, <1>5, <1>6, <1>7, HolderStep

LEMMA GoOnInv ==
    ASSUME Inv, NEW t \in Tasks, GoOn(t)
    PROVE  Inv'
<1>1. lock = t /\ pc[t] \in {"savepoint", "write"}
    BY OutsiderIs DEF GoOn, Outside
<1>2. currentWriter' = t
  <2>1. CASE pc[t] = "savepoint"
      BY <2>1 DEF GoOn
  <2>2. CASE pc[t] = "write"
    <3>1. currentWriter = t
        BY <1>1, <2>2, HolderIs DEF Inside, AtEdge
    <3>2. QED
        BY <2>2, <3>1 DEF GoOn
  <2>3. QED
      BY <1>1, <2>1, <2>2
<1>3. QED
    BY <1>1, <1>2, HolderMoves DEF GoOn

LEMMA CatchInv ==
    ASSUME Inv, NEW t \in Tasks, Catch(t)
    PROVE  Inv'
<1>1. /\ pc[t] = "raise" /\ pc' = [pc EXCEPT ![t] = "run"] /\ contexts' = contexts /\ entered' = entered
      /\ UNCHANGED <<lock, currentWriter, queue, sql, history>>
    BY DEF Catch
<1>2. CASE lock = t
  <2>1. currentWriter' = t
      BY <1>1, <1>2, HolderIs DEF Inside, AtEdge
  <2>2. QED
      BY <1>1, <1>2, <2>1, HolderMoves
<1>3. CASE lock # t
  <2>1. Outside(contexts[t], "run", kept[t]) /\ "run" \in TaskStates
      BY <1>3, OutsiderIs DEF Outside, TaskStates
  <2>2. contexts = [contexts EXCEPT ![t] = contexts[t]]
      BY SameKept
  <2>3. contexts[t] \in Seq(Contexts) /\ Numbered(contexts[t], entered)
      BY <1>3, OutsiderIs
  <2>4. QED
      BY <1>1, <1>3, <2>1, <2>2, <2>3, OutsideStep
<1>4. QED
    BY <1>2, <1>3

(* The body of a context ends or fails while no command is awaited.        *)
LEMMA LeaveReaderInv ==
    ASSUME Inv, NEW t \in Tasks, pc[t] \in {"run", "write", "raise"}, NEW q \in {"run", "raise"},
           LeaveReader(t, q)
    PROVE  Inv'
<1> DEFINE d == SubSeq(contexts[t], 1, Len(contexts[t]) - 1)
<1>1. /\ contexts[t] # <<>> /\ LastOf(contexts[t]).kind \notin Transactions
      /\ contexts' = [contexts EXCEPT ![t] = d] /\ pc' = [pc EXCEPT ![t] = q] /\ entered' = entered
      /\ UNCHANGED <<lock, currentWriter, queue, sql, history>>
    BY DEF LeaveReader, InReader, Innermost, Pop, LastOf, Transactions
<1>2. /\ contexts[t] \in Seq(Contexts) /\ Numbered(contexts[t], entered) /\ entered \in Nat
      /\ kept[t] \in SUBSET Nat /\ orphaned \in BOOLEAN /\ queue \in Seq(Commands) /\ q \in TaskStates
    BY OutsiderIs, HolderIs DEF TaskStates
<1>3. d \in Seq(Contexts) /\ Numbered(d, entered)
    BY <1>1, <1>2, Popped
<1>4. CASE lock # t
  <2>1. Outside(contexts[t], pc[t], kept[t])
      BY <1>4, OutsiderIs
  <2>2. Outside(d, q, kept[t])
      BY <1>1, <1>2, <2>1, OutsideEnds
  <2> HIDE DEF d
  <2>3. QED
      BY <1>1, <1>2, <1>3, <1>4, <2>2, OutsideStep
<1>5. CASE lock = t
  <2>1. Inside(contexts[t], pc[t], kept[t], currentWriter = t)
      BY <1>5, HolderIs
  <2>2. PICK f \in Sqls : /\ Pending(sql, queue, f, Whole(finished, returned, orphaned))
                          /\ SavesOk(f, entered) /\ Held(f, contexts[t], pc[t], kept[t], orphaned)
      BY <1>5, HolderIs
  <2>3. Inside(d, q, kept[t], currentWriter = t) /\ Held(f, d, q, kept[t], orphaned)
    <3>1. ~AtEdge(pc[t])
        BY DEF AtEdge
    <3>2. QED
        BY <1>1, <1>2, <2>1, <2>2, <3>1, ReaderEnds
  <2>4. /\ lock' = t /\ currentWriter' = currentWriter /\ queue' = queue /\ sql' = sql
        /\ kept' = kept /\ writes' = writes /\ finished' = finished /\ returned' = returned
        /\ orphaned' = orphaned
      BY <1>1, <1>5 DEF history
  <2>5. /\ writes \in Nat /\ finished \subseteq SUBSET Nat /\ returned \subseteq Nat
        /\ kept = [kept EXCEPT ![t] = kept[t]] /\ currentWriter \in {lock, NoTask} /\ t # NoTask
      BY SameHistory, SameKept, ParametersAssumption
  <2> HIDE DEF d
  <2>6. Inside(d, q, kept[t], currentWriter' = t)
      BY <2>3, <2>4 DEF Inside
  <2>7. Pending(sql', queue', f, Whole(finished', returned', orphaned'))
      BY <2>2, <2>4
  <2>8. Held(f, d, q, kept[t], orphaned') /\ SavesOk(f, entered')
      BY <1>1, <2>2, <2>3, <2>4
  <2>9. QED
      BY <1>1, <1>2, <1>3, <1>5, <2>4, <2>5, <2>6, <2>7, <2>8, HolderStep
<1>6. QED
    BY <1>4, <1>5

(* A transaction is of the task that holds the lock.                       *)
LEMMA TransactionIsInside ==
    ASSUME Inv, NEW t \in Tasks, InTransaction(t)
    PROVE  lock = t /\ contexts[t] # <<>> /\ LastOf(contexts[t]).kind \in Transactions
<1>1. contexts[t] # <<>> /\ LastOf(contexts[t]).kind \in Transactions
    BY DEF InTransaction, Innermost, LastOf, Transactions
<1>2. ASSUME lock # t PROVE FALSE
  <2>1. Outside(contexts[t], pc[t], kept[t]) /\ contexts[t] \in Seq(Contexts)
      BY <1>2, OutsiderIs
  <2>2. Len(contexts[t]) \in DOMAIN contexts[t]
      BY <1>1, <2>1, ContextsAre
  <2>3. QED
      BY <1>1, <2>1, <2>2 DEF Outside, LastOf
<1>3. QED
    BY <1>1, <1>2

LEMMA LastName ==
    ASSUME NEW cs \in Seq(Contexts), cs # <<>>
    PROVE  LastOf(cs).name \in Nat /\ LastOf(cs).kept \in SUBSET Nat
    BY ContextsAre DEF LastOf

LEMMA RollBackInv ==
    ASSUME Inv, NEW t \in Tasks, pc[t] \in {"run", "write", "raise"}, RollBack(t)
    PROVE  Inv'
<1> DEFINE c == LastOf(contexts[t])
<1>0. lock = t /\ contexts[t] # <<>> /\ c.kind \in Transactions /\ t # NoTask /\ ~AtEdge(pc[t])
    BY TransactionIsInside, ParametersAssumption DEF RollBack, AtEdge
<1>1. /\ Inside(contexts[t], pc[t], kept[t], currentWriter = t)
      /\ contexts[t] \in Seq(Contexts) /\ Numbered(contexts[t], entered) /\ entered \in Nat
      /\ kept[t] \in SUBSET Nat /\ orphaned \in BOOLEAN /\ queue \in Seq(Commands)
    BY <1>0, HolderIs
<1>2. PICK f \in Sqls : /\ Pending(sql, queue, f, Whole(finished, returned, orphaned))
                        /\ SavesOk(f, entered) /\ Held(f, contexts[t], pc[t], kept[t], orphaned)
    BY <1>0, HolderIs
<1>3. /\ Request("rollback", c.name) /\ kept' = [kept EXCEPT ![t] = c.kept]
      /\ pc' = [pc EXCEPT ![t] = "rollback"]
      /\ currentWriter' = IF c.kind = "top" THEN NoTask ELSE currentWriter
      /\ writes' = writes /\ contexts' = contexts /\ entered' = entered /\ sql' = sql
      /\ lock' = t /\ finished' = finished /\ returned' = returned /\ orphaned' = orphaned
    BY <1>0 DEF RollBack, EndBody, Innermost, LastOf
<1>4. /\ writes \in Nat /\ finished \subseteq SUBSET Nat /\ returned \subseteq Nat
      /\ contexts = [contexts EXCEPT ![t] = contexts[t]] /\ "rollback" \in TaskStates
      /\ c.name \in Nat /\ c.kept \in SUBSET Nat
    BY <1>0, <1>1, SameHistory, SameKept, LastName DEF TaskStates
<1> DEFINE g == Executed(f, [op |-> "rollback", of |-> c.name])
<1>5. /\ Inside(contexts[t], "rollback", c.kept, c.kind # "top")
      /\ Held(g, contexts[t], "rollback", c.kept, orphaned)
      /\ g \in Sqls /\ SavesOk(g, entered) /\ g.committed = f.committed
    BY <1>0, <1>1, <1>2, RollsBack
<1> HIDE DEF c
<1>6. queue' \in Seq(Commands) /\ Pending(sql, queue', g, Whole(finished, returned, orphaned))
    BY <1>2, <1>3, <1>4, <1>5, Requested
<1> HIDE DEF g
<1>7. currentWriter = t
    BY <1>0, <1>1 DEF Inside
<1>8. Inside(contexts[t], "rollback", c.kept, currentWriter' = t) /\ currentWriter' \in {lock', NoTask}
    BY <1>0, <1>3, <1>5, <1>7 DEF Inside
<1>9. QED
    BY <1>0, <1>1, <1>3, <1>4, <1>5, <1>6, <1>8, HolderStep

LEMMA ReleaseAfterRollbackInv ==
    ASSUME Inv, NEW t \in Tasks, ReleaseAfterRollback(t)
    PROVE  Inv'
<1> DEFINE c == LastOf(contexts[t])
<1>0. lock = t /\ t # NoTask /\ pc[t] = "rollback"
    BY OutsiderIs, ParametersAssumption DEF ReleaseAfterRollback, Outside
<1>1. /\ Inside(contexts[t], "rollback", kept[t], currentWriter = t)
      /\ contexts[t] \in Seq(Contexts) /\ Numbered(contexts[t], entered) /\ entered \in Nat
      /\ kept[t] \in SUBSET Nat /\ orphaned \in BOOLEAN /\ queue \in Seq(Commands)
    BY <1>0, HolderIs
<1>2. PICK f \in Sqls : /\ Pending(sql, queue, f, Whole(finished, returned, orphaned))
                        /\ SavesOk(f, entered) /\ Held(f, contexts[t], "rollback", kept[t], orphaned)
    BY <1>0, HolderIs
<1>3. contexts[t] # <<>> /\ OneTop(contexts[t]) /\ c.kind \in Transactions /\ c.kept = kept[t]
    BY <1>1 DEF Inside, AtEdge, OneTop
<1>4. /\ Request("release", c.name) /\ kept' = kept
      /\ pc' = [pc EXCEPT ![t] = "undo"] /\ currentWriter' = currentWriter
      /\ writes' = writes /\ contexts' = contexts /\ entered' = entered /\ sql' = sql
      /\ lock' = t /\ finished' = finished /\ returned' = returned /\ orphaned' = orphaned
    BY <1>0 DEF ReleaseAfterRollback, Innermost, LastOf, history
<1>5. /\ writes \in Nat /\ finished \subseteq SUBSET Nat /\ returned \subseteq Nat
      /\ contexts = [contexts EXCEPT ![t] = contexts[t]] /\ "undo" \in TaskStates
      /\ kept = [kept EXCEPT ![t] = kept[t]] /\ c.name \in Nat /\ currentWriter \in {lock, NoTask}
    BY <1>1, <1>3, SameHistory, SameKept, LastName DEF TaskStates
<1> DEFINE g == Executed(f, [op |-> "release", of |-> c.name])
<1>6. /\ Held(g, contexts[t], "undo", kept[t], orphaned) /\ g \in Sqls /\ SavesOk(g, entered)
      /\ Commits(f, g, c, kept[t], orphaned)
    BY <1>1, <1>2, <1>3, Releases
<1>7. g.committed = f.committed
  <2>1. ASSUME c.kind = "top" PROVE kept[t] = {}
    <3>1. PICK i \in DOMAIN contexts[t] :
              /\ contexts[t][i].kept = {}
              /\ \A j \in DOMAIN contexts[t] :
                    contexts[t][j].kind \in Transactions /\ j # i => contexts[t][j].kind = "nested"
        BY <1>3 DEF OneTop
    <3>2. Len(contexts[t]) \in DOMAIN contexts[t]
        BY <1>1, <1>3, ContextsAre
    <3>3. i = Len(contexts[t])
        BY <2>1, <3>1, <3>2 DEF LastOf, Transactions
    <3>4. QED
        BY <1>3, <3>1, <3>3 DEF LastOf
  <2>2. QED
      BY <1>6, <2>1 DEF Commits
<1> HIDE DEF c
<1>8. queue' \in Seq(Commands) /\ Pending(sql, queue', g, Whole(finished, returned, orphaned))
    BY <1>2, <1>4, <1>5, <1>6, <1>7, Requested
<1> HIDE DEF g
<1>9. Inside(contexts[t], "undo", kept[t], currentWriter' = t)
    BY <1>1, <1>4 DEF Inside, AtEdge
<1>10. QED
    BY <1>0, <1>1, <1>4, <1>5, <1>6, <1>8, <1>9, HolderStep

LEMMA WholeGrows ==
    ASSUME NEW fin, NEW ret, NEW o, NEW S, NEW C \in Whole(fin, ret, o)
    PROVE  C \in Whole(fin \cup S, ret, o) /\ C \in Whole(fin, ret, TRUE)
    BY DEF Whole

LEMMA WholeCommits ==
    ASSUME NEW fin, NEW ret, NEW o, NEW k \in SUBSET Nat, NEW C \in Whole(fin, ret, o)
    PROVE  C \cup k \in Whole(fin \cup {k}, ret, o)
<1>1. PICK F \in SUBSET fin : C = UNION F
    BY DEF Whole
<1>2. F \cup {k} \in SUBSET (fin \cup {k}) /\ C \cup k = UNION (F \cup {k})
    BY <1>1
<1>3. C \in SUBSET Nat /\ (~o => ret \subseteq C)
    BY DEF Whole
<1> HIDE <1>1
<1>4. \E G \in SUBSET (fin \cup {k}) : C \cup k = UNION G
    BY <1>2
<1> DEFINE D == C \cup k
<1>5. D \in SUBSET Nat /\ (~o => ret \subseteq D)
    BY <1>3
<1> HIDE DEF D
<1>6. \E G \in SUBSET (fin \cup {k}) : D = UNION G
    BY <1>4 DEF D
<1>7. D \in Whole(fin \cup {k}, ret, o)
    BY <1>5, <1>6 DEF Whole
<1>8. QED
    BY <1>7 DEF D

LEMMA PendingLast ==
    ASSUME NEW s, NEW q \in Seq(Commands), NEW f, NEW W, Pending(s, q, f, W)
    PROVE  f.committed \in W
<1>1. PICK st \in [0..Len(q) -> Sqls] : /\ st[Len(q)] = f
                                        /\ \A i \in 0..Len(q) : st[i].committed \in W
    BY DEF Pending
<1>2. Len(q) \in Nat
    OBVIOUS
<1>3. Len(q) \in 0..Len(q)
    BY <1>2
<1>4. QED
    BY <1>1, <1>3

(* The body of a transaction ends normally.                                *)
LEMMA LeaveWriterInv ==
    ASSUME Inv, NEW t \in Tasks, pc[t] = "run", LeaveWriter(t)
    PROVE  Inv'
<1> DEFINE c == LastOf(contexts[t])
<1>0. lock = t /\ contexts[t] # <<>> /\ c.kind \in Transactions /\ t # NoTask
    BY TransactionIsInside, ParametersAssumption DEF LeaveWriter
<1>1. /\ Inside(contexts[t], "run", kept[t], currentWriter = t)
      /\ contexts[t] \in Seq(Contexts) /\ Numbered(contexts[t], entered) /\ entered \in Nat
      /\ kept[t] \in SUBSET Nat /\ orphaned \in BOOLEAN /\ queue \in Seq(Commands)
    BY <1>0, HolderIs
<1>2. PICK f \in Sqls : /\ Pending(sql, queue, f, Whole(finished, returned, orphaned))
                        /\ SavesOk(f, entered) /\ Held(f, contexts[t], "run", kept[t], orphaned)
    BY <1>0, HolderIs
<1>3. /\ Request("release", c.name) /\ kept' = kept
      /\ pc' = [pc EXCEPT ![t] = "release"]
      /\ currentWriter' = IF c.kind = "top" THEN NoTask ELSE currentWriter
      /\ finished' = IF c.kind = "top" THEN finished \cup {kept[t]} ELSE finished
      /\ writes' = writes /\ contexts' = contexts /\ entered' = entered /\ sql' = sql
      /\ lock' = t /\ returned' = returned /\ orphaned' = orphaned
    BY <1>0 DEF LeaveWriter, EndBody, Innermost, LastOf
<1>4. /\ writes \in Nat /\ finished \subseteq SUBSET Nat /\ returned \subseteq Nat
      /\ contexts = [contexts EXCEPT ![t] = contexts[t]] /\ "release" \in TaskStates
      /\ kept = [kept EXCEPT ![t] = kept[t]] /\ c.name \in Nat
    BY <1>0, <1>1, SameHistory, SameKept, LastName DEF TaskStates
<1>5. currentWriter = t /\ OneTop(contexts[t])
    BY <1>1 DEF Inside, AtEdge
<1> DEFINE r == [op |-> "release", of |-> c.name]
           g == Executed(f, r)
<1>6. /\ Held(g, contexts[t], "release", kept[t], orphaned) /\ g \in Sqls /\ SavesOk(g, entered)
      /\ Commits(f, g, c, kept[t], orphaned)
    BY <1>0, <1>1, <1>2, <1>5, Releases
<1>7. r \in Commands /\ queue' = Append(queue, r)
    BY <1>3, <1>4 DEF Commands, Request
<1> HIDE DEF c, r
<1> DEFINE W == Whole(finished, returned, orphaned)
           V == Whole(finished', returned', orphaned')
<1>8. W \subseteq V
  <2>1. CASE c.kind = "top"
    <3>1. finished' = finished \cup {kept[t]} /\ returned' = returned /\ orphaned' = orphaned
        BY <1>3, <2>1
    <3>2. QED
        BY <3>1, WholeGrows
  <2>2. CASE c.kind # "top"
    <3>1. finished' = finished /\ returned' = returned /\ orphaned' = orphaned
        BY <1>3, <2>2
    <3>2. QED
        BY <3>1
  <2>3. QED
      BY <2>1, <2>2
<1>9. g.committed \in V
  <2>1. f.committed \in W
      BY <1>1, <1>2, PendingLast
  <2>2. CASE g.committed = f.committed
      BY <1>8, <2>1, <2>2
  <2>3. CASE c.kind = "top" /\ g.committed = f.committed \cup kept[t]
    <3>1. finished' = finished \cup {kept[t]} /\ returned' = returned /\ orphaned' = orphaned
        BY <1>3, <2>3
    <3>2. f.committed \cup kept[t] \in Whole(finished \cup {kept[t]}, returned, orphaned)
        BY <1>1, <2>1, WholeCommits
    <3>3. QED
        BY <2>3, <3>1, <3>2
  <2>4. QED
      BY <1>6, <2>2, <2>3 DEF Commits
<1> HIDE DEF W, V, g
<1>10. Pending(sql, queue, f, V)
    BY <1>2, <1>8, PendingGrows DEF W
<1>11. Pending(sql, Append(queue, r), Executed(f, r), V)
    BY <1>1, <1>6, <1>7, <1>9, <1>10, PendingRequest DEF g
<1>12. Pending(sql', queue', g, Whole(finished', returned', orphaned')) /\ queue' \in Seq(Commands)
    BY <1>1, <1>3, <1>7, <1>11 DEF g, V
<1>13. Inside(contexts[t], "release", kept[t], currentWriter' = t) /\ currentWriter' \in {lock', NoTask}
  <2>1. (currentWriter' = t) <=> c.kind # "top"
      BY <1>0, <1>3, <1>5
  <2>2. currentWriter' \in {lock', NoTask}
      BY <1>0, <1>3, <1>5
  <2>3. QED
      BY <1>0, <1>5, <2>1, <2>2 DEF Inside, AtEdge, c
<1>14. finished' \subseteq SUBSET Nat
    BY <1>1, <1>3, <1>4
<1>15. Held(g, contexts[t], "release", kept[t], orphaned') /\ SavesOk(g, entered')
       /\ writes' \in Nat /\ returned' \subseteq Nat /\ orphaned' \in BOOLEAN
       /\ Numbered(contexts[t], entered')
    BY <1>1, <1>3, <1>4, <1>6
<1>16. contexts' = [contexts EXCEPT ![t] = contexts[t]] /\ kept' = [kept EXCEPT ![t] = kept[t]]
    BY <1>3, <1>4
<1>17. QED
    BY <1>0, <1>1, <1>3, <1>4, <1>6, <1>12, <1>13, <1>14, <1>15, <1>16, HolderStep

(* What is left of writer after _savepoint_ctx, as the last step of a      *)
(* transaction or after a cancellation.                                    *)
LEMMA EndTransactionInv ==
    ASSUME Inv, NEW t \in Tasks, pc[t] \in {"savepoint", "release", "undo"}, EndTransaction(t),
           NEW q \in {"run", "raise"}, pc' = [pc EXCEPT ![t] = q], UNCHANGED <<currentWriter, queue>>,
           \/ returned' = returned
           \/ /\ pc[t] = "release" /\ LastOf(contexts[t]).kind = "top" /\ queue = <<>>
              /\ returned' = returned \cup kept[t],
           orphaned' <=> orphaned \/ (pc[t] = "savepoint" /\ LastOf(contexts[t]).kind = "top"),
           orphaned' \in BOOLEAN
    PROVE  Inv'
<1> DEFINE c == LastOf(contexts[t])
           d == SubSeq(contexts[t], 1, Len(contexts[t]) - 1)
<1>0. lock = t /\ t # NoTask
    BY OutsiderIs, ParametersAssumption DEF Outside
<1>1. /\ Inside(contexts[t], pc[t], kept[t], currentWriter = t)
      /\ contexts[t] \in Seq(Contexts) /\ Numbered(contexts[t], entered) /\ entered \in Nat
      /\ kept[t] \in SUBSET Nat /\ orphaned \in BOOLEAN /\ queue \in Seq(Commands)
    BY <1>0, HolderIs
<1>2. PICK f \in Sqls : /\ Pending(sql, queue, f, Whole(finished, returned, orphaned))
                        /\ SavesOk(f, entered) /\ Held(f, contexts[t], pc[t], kept[t], orphaned)
    BY <1>0, HolderIs
<1>3. contexts[t] # <<>> /\ OneTop(contexts[t]) /\ c.kind \in Transactions
    BY <1>1 DEF Inside, AtEdge, OneTop
<1>4. /\ contexts' = [contexts EXCEPT ![t] = d] /\ entered' = entered /\ sql' = sql
      /\ lock' = (IF c.kind = "top" THEN NoTask ELSE lock)
      /\ kept' = (IF c.kind = "top" THEN [kept EXCEPT ![t] = {}] ELSE kept)
      /\ writes' = writes /\ finished' = finished /\ queue' = queue /\ currentWriter' = currentWriter
    BY DEF EndTransaction, Innermost, LastOf, Pop
<1>5. d \in Seq(Contexts) /\ Numbered(d, entered) /\ q \in TaskStates
    BY <1>1, <1>3, Popped DEF TaskStates
<1>6. /\ writes \in Nat /\ finished \subseteq SUBSET Nat /\ returned \subseteq Nat /\ returned' \subseteq Nat
      /\ kept = [kept EXCEPT ![t] = kept[t]] /\ currentWriter \in {lock, NoTask}
    BY <1>1, SameHistory, SameKept
<1>7. CASE c.kind # "top"
  <2>0. currentWriter = t /\ Inside(contexts[t], pc[t], kept[t], TRUE)
      BY <1>1, <1>7 DEF Inside
  <2>1. Inside(d, q, kept[t], TRUE) /\ Held(f, d, q, kept[t], orphaned)
      BY <1>1, <1>2, <1>3, <1>7, <2>0, NestedEnds
  <2>2. returned' = returned /\ (orphaned' <=> orphaned)
      BY <1>7
  <2>3. orphaned' = orphaned
      BY <1>1, <2>2
  <2> HIDE DEF c, d
  <2>4. lock' = t /\ kept' = [kept EXCEPT ![t] = kept[t]]
      BY <1>0, <1>4, <1>6, <1>7
  <2>5. Inside(d, q, kept[t], currentWriter' = t)
      BY <1>4, <2>0, <2>1 DEF Inside
  <2>6. Pending(sql', queue', f, Whole(finished', returned', orphaned'))
      BY <1>2, <1>4, <2>2, <2>3
  <2>7. Held(f, d, q, kept[t], orphaned') /\ SavesOk(f, entered') /\ Numbered(d, entered')
      BY <1>2, <1>4, <1>5, <2>1, <2>3
  <2>8. QED
      BY <1>0, <1>1, <1>4, <1>5, <1>6, <2>4, <2>5, <2>6, <2>7, HolderStep
<1>8. CASE c.kind = "top"
  <2>1. Outside(d, q, {}) /\ \A p \in {"release", "undo"} : Live(contexts[t], p) = {}
      BY <1>1, <1>3, <1>8, TopEnds
  <2>2. currentWriter = NoTask
      BY <1>0, <1>1, <1>6, <1>8 DEF Inside, AtEdge
  <2>3. Free(f, orphaned')
    <3>1. CASE pc[t] = "savepoint"
      <4>1. Live(contexts[t], "savepoint") # {}
          BY <1>1, <1>3, LiveTop
      <4>2. DOMAIN f.saves # {}
          BY <1>2, <3>1, <4>1, HeldSaves
      <4>3. f.saves # <<>>
          BY <4>2
      <4>4. QED
          BY <1>8, <3>1, <4>3 DEF Free
    <3>2. CASE pc[t] # "savepoint"
      <4>1. Live(contexts[t], pc[t]) = {} /\ (orphaned' <=> orphaned)
          BY <2>1, <3>2
      <4>2. QED
          BY <1>2, <4>1 DEF Held, Free
    <3>3. QED
        BY <3>1, <3>2
  <2>4. Pending(sql', queue', f, Whole(finished', returned', orphaned'))
    <3>1. CASE returned' = returned
      <4> DEFINE W == Whole(finished, returned, orphaned)
                 V == Whole(finished', returned', orphaned')
      <4>1. W \subseteq V
        <5>1. CASE orphaned'
          <6>1. orphaned' = TRUE
              BY <5>1
          <6>2. QED
              BY <1>4, <3>1, <6>1, WholeGrows
        <5>2. CASE ~orphaned'
          <6>1. orphaned' = orphaned
              BY <1>1, <5>2
          <6>2. QED
              BY <1>4, <3>1, <6>1
        <5>3. QED
            BY <5>1, <5>2
      <4> HIDE DEF W, V
      <4>2. Pending(sql, queue, f, V)
          BY <1>2, <4>1, PendingGrows DEF W
      <4>3. QED
          BY <1>4, <4>2 DEF V
    <3>2. CASE returned' # returned
      <4>1. pc[t] = "release" /\ queue = <<>> /\ returned' = returned \cup kept[t] /\ (orphaned' <=> orphaned)
          BY <3>2
      <4>2. /\ f = sql /\ sql.committed \in Whole(finished, returned, orphaned)
          BY <1>1, <1>2, <4>1, PendingNow
      <4>3. ~orphaned => kept[t] \subseteq f.committed
          BY <1>2, <1>8, <4>1 DEF Held
      <4>4. sql.committed \in Whole(finished', returned', orphaned')
          BY <1>4, <4>1, <4>2, <4>3 DEF Whole
      <4>5. QED
          BY <1>4, <4>1, <4>2, <4>4, PendingNone
    <3>3. QED
        BY <3>1, <3>2
  <2> HIDE DEF c, d
  <2>5. lock' = NoTask /\ kept' = [kept EXCEPT ![t] = {}] /\ {} \in SUBSET Nat
      BY <1>4, <1>8
  <2>6. SavesOk(f, entered') /\ Numbered(d, entered') /\ currentWriter' \in {lock', NoTask}
      BY <1>2, <1>4, <1>5, <2>2, <2>5
  <2>7. QED
      BY <1>0, <1>1, <1>4, <1>5, <1>6, <2>1, <2>3, <2>4, <2>5, <2>6, HolderStep
<1>9. QED
    BY <1>7, <1>8

LEMMA NextInv ==
    ASSUME Inv, [Next]_vars
    PROVE  Inv'
<1>1. CASE UNCHANGED vars
  <2>1. UNCHANGED <<pc, contexts, lock, currentWriter, entered, queue, sql,
                    writes, kept, finished, returned, orphaned>>
      BY <1>1 DEF vars, tasks, history
  <2>2. TypesOk' /\ TasksOk'
      BY <2>1 DEF Inv, TypesOk, TasksOk
  <2>3. PICK f \in Sqls : Pending(sql, queue, f, Whole(finished, returned, orphaned)) /\ Matches(f)
      BY DEF Inv
  <2>4. Matches(f)' /\ Pending(sql, queue, f, Whole(finished, returned, orphaned))'
      BY <2>1, <2>3 DEF Matches
  <2>5. QED
      BY <2>2, <2>4 DEF Inv
<1>2. ASSUME NEW t \in Tasks, Enter(t) PROVE Inv'
    BY <1>2, EnterTopInv, EnterNestedInv, EnterSharedInv, EnterReaderInv DEF Enter
<1>3. ASSUME NEW t \in Tasks, Write(t) PROVE Inv'
    BY <1>3, WriteInv
<1>4. ASSUME NEW t \in Tasks, Raise(t) \/ Propagate(t) PROVE Inv'
    BY <1>4, LeaveReaderInv, RollBackInv DEF Raise, Propagate
<1>5. ASSUME NEW t \in Tasks, Leave(t) PROVE Inv'
    BY <1>5, LeaveReaderInv, LeaveWriterInv DEF Leave
<1>6. ASSUME NEW t \in Tasks, RolledBack(t) \/ CancelRollback(t) PROVE Inv'
    BY <1>6, ReleaseAfterRollbackInv DEF RolledBack, CancelRollback
<1>7. ASSUME NEW t \in Tasks, Released(t) PROVE Inv'
  <2>1. orphaned' = orphaned /\ orphaned \in BOOLEAN /\ EndTransaction(t) /\ UNCHANGED <<currentWriter, queue>>
      BY <1>7, SameHistory DEF Released
  <2>2. PICK q \in {"run", "raise"} : pc' = [pc EXCEPT ![t] = q]
      BY <1>7 DEF Released
  <2>3. \/ returned' = returned
        \/ /\ pc[t] = "release" /\ LastOf(contexts[t]).kind = "top" /\ queue = <<>>
           /\ returned' = returned \cup kept[t]
      BY <1>7 DEF Released, Innermost, LastOf, Answered
  <2>4. pc[t] \in {"savepoint", "release", "undo"} /\ pc[t] # "savepoint"
      BY <1>7 DEF Released
  <2>5. QED
      BY <2>1, <2>2, <2>3, <2>4, EndTransactionInv
<1>8. ASSUME NEW t \in Tasks, CancelRelease(t) PROVE Inv'
  <2>1. /\ orphaned' = orphaned /\ orphaned \in BOOLEAN /\ EndTransaction(t) /\ UNCHANGED <<currentWriter, queue>>
        /\ returned' = returned /\ pc' = [pc EXCEPT ![t] = "raise"]
        /\ pc[t] \in {"savepoint", "release", "undo"} /\ pc[t] # "savepoint"
      BY <1>8, SameHistory DEF CancelRelease
  <2>2. QED
      BY <2>1, EndTransactionInv
<1>9. ASSUME NEW t \in Tasks, CancelSavepoint(t) PROVE Inv'
  <2>1. /\ orphaned' = (orphaned \/ LastOf(contexts[t]).kind = "top") /\ orphaned \in BOOLEAN
        /\ EndTransaction(t) /\ UNCHANGED <<currentWriter, queue>>
        /\ returned' = returned /\ pc' = [pc EXCEPT ![t] = "raise"] /\ pc[t] = "savepoint"
      BY <1>9, SameHistory DEF CancelSavepoint, Innermost, LastOf
  <2>2. /\ orphaned' <=> orphaned \/ (pc[t] = "savepoint" /\ LastOf(contexts[t]).kind = "top")
        /\ orphaned' \in BOOLEAN
      BY <2>1
  <2>3. pc[t] \in {"savepoint", "release", "undo"}
      BY <2>1
  <2>4. QED
      BY <2>1, <2>2, <2>3, EndTransactionInv
<1>10. ASSUME NEW t \in Tasks, Progress(t) PROVE Inv'
    BY <1>4, <1>5, <1>6, <1>7, <1>10, GetLockInv, GetConnectionInv, GoOnInv, CatchInv DEF Progress
<1>11. ASSUME NEW t \in Tasks, Cancel(t) PROVE Inv'
    BY <1>6, <1>8, <1>9, <1>11, CancelWaitInv DEF Cancel
<1>12. QED
    BY <1>1, <1>2, <1>3, <1>4, <1>10, <1>11, ExecuteInv DEF Next

--------------------------------------------------------------------------------
(* The theorems.                                                           *)

LEMMA InvHolds == Spec => []Inv
    BY InitInv, NextInv, PTL DEF Spec

(* What is committed is whole transactions, for any number of tasks, any   *)
(* nesting, and cancellation at any await of DBWrapper2: a RELEASE that    *)
(* commits is one of the outermost context, requested when its body was    *)
(* over or everything in it was rolled back.                               *)
THEOREM AllOrNothingTheorem == Spec => []AllOrNothing
<1>1. Inv => AllOrNothing
  <2> SUFFICES ASSUME Inv PROVE AllOrNothing
      OBVIOUS
  <2>1. sql.committed \in Whole(finished, returned, orphaned)
      BY PendingNow DEF Inv, TypesOk
  <2>2. PICK F \in SUBSET finished : sql.committed = UNION F
      BY <2>1 DEF Whole
  <2>3. \A w \in F : w \in finished /\ w \subseteq sql.committed
      BY <2>2
  <2> DEFINE G == {w \in finished : w \subseteq sql.committed}
  <2>4. UNION F \subseteq UNION G
      BY <2>3
  <2>5. UNION G \subseteq sql.committed
      OBVIOUS
  <2>6. QED
      BY <2>2, <2>4, <2>5 DEF AllOrNothing
<1>2. QED
    BY <1>1, InvHolds, PTL

(* The current writer sees what is committed and its own writes, but for   *)
(* those of nested transactions that failed, unless an outermost SAVEPOINT *)
(* was left open.                                                          *)
THEOREM WriterSeesItsWritesTheorem == Spec => []WriterSeesItsWrites
<1>1. Inv => WriterSeesItsWrites
  <2> SUFFICES ASSUME Inv, ~orphaned, NEW t \in Tasks, currentWriter = t, queue = <<>>
               PROVE  sql.data = sql.committed \cup kept[t]
      BY DEF WriterSeesItsWrites, Answered
  <2>1. lock = t
      BY SameHistory, ParametersAssumption
  <2>2. /\ Inside(contexts[t], pc[t], kept[t], currentWriter = t) /\ contexts[t] \in Seq(Contexts)
        /\ queue \in Seq(Commands)
      BY <2>1, HolderIs
  <2>3. PICK f \in Sqls : /\ Pending(sql, queue, f, Whole(finished, returned, orphaned))
                          /\ Held(f, contexts[t], pc[t], kept[t], orphaned)
      BY <2>1, HolderIs
  <2>4. f = sql
      BY <2>2, <2>3, PendingNow
  <2>5. Live(contexts[t], pc[t]) # {}
      BY <2>2, LiveTop DEF Inside, AtEdge
  <2>6. QED
      BY <2>3, <2>4, <2>5 DEF Held
<1>2. QED
    BY <1>1, InvHolds, PTL

(* The writes of a transaction whose context was left normally are in the  *)
(* database for good, unless an outermost SAVEPOINT was left open.         *)
THEOREM DurableTheorem == Spec => []DurableUnlessOrphaned
<1>1. Inv => DurableUnlessOrphaned
  <2> SUFFICES ASSUME Inv, ~orphaned PROVE returned \subseteq sql.committed
      BY DEF DurableUnlessOrphaned, Durable
  <2>1. sql.committed \in Whole(finished, returned, orphaned)
      BY PendingNow DEF Inv, TypesOk
  <2>2. QED
      BY <2>1 DEF Whole
<1>2. QED
    BY <1>1, InvHolds, PTL
================================================================================
