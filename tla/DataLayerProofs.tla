----------------------------- MODULE DataLayerProofs ----------------------------
(***************************************************************************)
(* Of a data layer with any number of hosts, generations, changes, crashes *)
(* and failed downloads: every host has the roots of the chain; the        *)
(* ancestors table of every host says of every generation what its tree    *)
(* is; and the delta file of a generation has the nodes that a mirror      *)
(* lacks.                                                                  *)
(***************************************************************************)
EXTENDS DataLayer, FiniteSetTheorems, NaturalsInduction, WellFoundedInduction, TLAPS

--------------------------------------------------------------------------------
(* The inductive invariant, of the values that the variables have or will  *)
(* have.                                                                   *)

Sequence(s) == \E S : s \in Seq(S)

(* The tables have their columns.                                          *)
IsStore(s) ==
    /\ s = [node |-> s.node, root |-> s.root, ancestors |-> s.ancestors]
    /\ s.root = [g \in DOMAIN s.root |-> s.root[g]]
    /\ \A g \in DOMAIN s.root :
         s.root[g] = [hash |-> s.root[g].hash, status |-> s.root[g].status]

(* The committed generations have no gaps.                                 *)
Contiguous(s) ==
    /\ IsStore(s)
    /\ TreeGeneration(s) \in Int /\ TreeGeneration(s) >= -1
    /\ RootsWith(s, "COMMITTED") = 0..TreeGeneration(s)

(* The generations up to one are those of a chain.                         *)
Follows(s, last, ch) ==
    /\ last < Len(ch)
    /\ \A g \in 0..last : s.root[g].hash = ch[g + 1]

(* Committed tables follow the chain.  A batch makes generations of its    *)
(* own, above the one it began with.                                       *)
StoreFollows(s, ch) == Contiguous(s) /\ Follows(s, TreeGeneration(s), ch)

BatchFollows(s, base, ch) ==
    /\ Contiguous(s)
    /\ base \in Nat /\ base <= TreeGeneration(s)
    /\ Follows(s, base, ch)

RpcFields == {"pc", "kind", "hint", "base", "left", "root"}
MgrFields == {"pc", "target", "servers", "from", "gen", "roots", "written"}

(* A request is inside a transaction; nobody else gets the lock then.      *)
InTransaction == {"want_dl", "changing", "prove"}
LockOK(l, r) ==
    /\ l = [x \in {"db", "dl"} |-> l[x]]
    /\ r.pc \in InTransaction => l.db = "rpc"

Fetching == {"fetch_dl", "fetch_db", "create", "server", "download", "insert", "full"}
Downloading == {"download", "insert", "full"}

(* The generations that are fetched were on the chain when the singleton   *)
(* was read; what is still to be downloaded is the chain above `gen'.      *)
FetchOK(m, ch) ==
    /\ m.pc \in Fetching => m.target \in Nat /\ m.target > 0 /\ m.target < Len(ch)
    /\ m.pc \in Downloading =>
         /\ m.gen \in Int /\ m.gen >= -1
         /\ Sequence(m.roots)
         /\ m.gen + 1 + Len(m.roots) <= Len(ch)
         /\ \A i \in 1..Len(m.roots) : m.roots[i] = ch[m.gen + 1 + i]
    /\ m.pc \in {"insert", "full"} => m.roots # <<>>

(* A host: whether a download was overtaken, its committed tables, those   *)
(* of the transaction, its locks, tasks, and the chain.                    *)
HostOK(over, d, t, l, r, m, ch) ==
    /\ r = [f \in RpcFields |-> r[f]]
    /\ m = [f \in MgrFields |-> m[f]]
    /\ LockOK(l, r)
    /\ ~over => /\ StoreFollows(d, ch)
                /\ IF r.pc = "changing" THEN BatchFollows(t, r.base, ch)
                   ELSE StoreFollows(t, ch)
                /\ FetchOK(m, ch)

(* The first generation is the empty tree that the launcher makes; until   *)
(* it is confirmed there is no other spend.                                *)
Launcher == [roots |-> <<Empty>>, recorded |-> TRUE]

ChainOK(ch, sps) ==
    /\ Sequence(ch)
    /\ \A sp \in sps : Sequence(sp.roots)
    /\ ch = <<>> => sps = {Launcher}
    /\ ch # <<>> => ch[1] = Empty

HostsOK ==
    \A h \in Hosts : HostOK(h \in marks.raced, db[h], txn[h], locks[h], rpc[h], mgr[h], chain)

FunctionsOK ==
    /\ db = [h \in Hosts |-> db[h]]
    /\ txn = [h \in Hosts |-> txn[h]]
    /\ locks = [h \in Hosts |-> locks[h]]
    /\ rpc = [h \in Hosts |-> rpc[h]]
    /\ mgr = [h \in Hosts |-> mgr[h]]
    /\ marks = [f \in {"raced", "torn", "partial", "dropped", "misplaced"} |-> marks[f]]

Inv == ChainOK(chain, spends) /\ FunctionsOK /\ HostsOK

--------------------------------------------------------------------------------
(* Stores.                                                                 *)

LEMMA RootsOnly ==
    ASSUME NEW s, NEW t, t.root = s.root
    PROVE  /\ \A status : RootsWith(t, status) = RootsWith(s, status)
           /\ TreeGeneration(t) = TreeGeneration(s)
<1>1. \A status : RootsWith(t, status) = RootsWith(s, status)
    BY DEF RootsWith
<1>2. QED
    BY <1>1 DEF TreeGeneration

LEMMA ContiguousIf ==
    ASSUME NEW s, NEW n \in Nat, IsStore(s), RootsWith(s, "COMMITTED") = 0..(n - 1)
    PROVE  Contiguous(s) /\ TreeGeneration(s) = n - 1
<1> DEFINE gens == RootsWith(s, "COMMITTED") \cup {-1}
<1>1. n - 1 \in gens /\ \A g \in gens : g \in Int /\ n - 1 >= g
    OBVIOUS
<1>2. \A x \in gens : (\A y \in gens : x >= y) => x = n - 1
    BY <1>1
<1>3. Max(gens) = n - 1
  <2> HIDE DEF gens
  <2>1. \E x \in gens : \A y \in gens : x >= y
      BY <1>1
  <2>2. QED
      BY <1>2, <2>1 DEF Max
<1>4. QED
    BY <1>3 DEF TreeGeneration, Contiguous

(* Only other tables change.                                               *)
LEMMA OtherTables ==
    ASSUME NEW s, NEW t, IsStore(s), IsStore(t), t.root = s.root
    PROVE  /\ Contiguous(s) => Contiguous(t)
           /\ TreeGeneration(t) = TreeGeneration(s)
           /\ RootsWith(t, "COMMITTED") = RootsWith(s, "COMMITTED")
BY RootsOnly, Zenon DEF Contiguous

(* A root is put into the table, or replaces one.                          *)
Put(s, t, g, hash, status) ==
    /\ IsStore(t)
    /\ DOMAIN t.root = DOMAIN s.root \cup {g}
    /\ t.root[g].hash = hash /\ t.root[g].status = status
    /\ \A i \in DOMAIN s.root : i # g => t.root[i] = s.root[i]

LEMMA PutCommitted ==
    ASSUME NEW s, NEW t, NEW hash, Contiguous(s), Put(s, t, TreeGeneration(s) + 1, hash, "COMMITTED")
    PROVE  /\ Contiguous(t)
           /\ TreeGeneration(t) = TreeGeneration(s) + 1
           /\ t.root[TreeGeneration(t)].hash = hash
           /\ \A g \in 0..TreeGeneration(s) : t.root[g] = s.root[g]
<1> DEFINE n == TreeGeneration(s) + 2
<1>1. n \in Nat /\ n >= 1 /\ RootsWith(s, "COMMITTED") = 0..(n - 2) /\ TreeGeneration(s) + 1 = n - 1
    BY DEF Contiguous
<1> HIDE DEF n
<1>2. Put(s, t, n - 1, hash, "COMMITTED")
    BY <1>1
<1>3. \A g : g \in RootsWith(t, "COMMITTED") <=> g \in RootsWith(s, "COMMITTED") \/ g = n - 1
  <2>1. TAKE g
  <2>2. CASE g = n - 1
      BY <1>2, <2>2 DEF Put, RootsWith
  <2>3. CASE g # n - 1
      BY <1>2, <2>3 DEF Put, RootsWith
  <2>4. QED
      BY <2>2, <2>3
<1>4. RootsWith(t, "COMMITTED") = 0..(n - 1)
  <2>1. \A g : g \in 0..(n - 1) <=> g \in 0..(n - 2) \/ g = n - 1
      BY <1>1
  <2>2. QED
      BY <1>1, <1>3, <2>1
<1>5. Contiguous(t) /\ TreeGeneration(t) = n - 1
    BY <1>1, <1>2, <1>4, ContiguousIf DEF Put
<1>6. \A g \in 0..(n - 2) : t.root[g] = s.root[g]
  <2>1. TAKE g \in 0..(n - 2)
  <2>2. g \in DOMAIN s.root /\ g # n - 1
      BY <1>1 DEF RootsWith
  <2>3. QED
      BY <1>2, <2>2 DEF Put
<1>7. TreeGeneration(s) = n - 2
    BY <1>1 DEF Contiguous
<1>8. QED
    BY <1>2, <1>5, <1>6, <1>7, <1>1 DEF Put

LEMMA PutPending ==
    ASSUME NEW s, NEW t, NEW hash, Contiguous(s), Put(s, t, TreeGeneration(s) + 1, hash, "PENDING")
    PROVE  /\ Contiguous(t)
           /\ TreeGeneration(t) = TreeGeneration(s)
           /\ \A g \in 0..TreeGeneration(s) : t.root[g] = s.root[g]
<1> DEFINE n == TreeGeneration(s) + 1
<1>1. n \in Nat /\ RootsWith(s, "COMMITTED") = 0..(n - 1) /\ TreeGeneration(s) = n - 1
    BY DEF Contiguous
<1> HIDE DEF n
<1>2. Put(s, t, n, hash, "PENDING")
    BY <1>1
<1>3. \A g : g \in RootsWith(t, "COMMITTED") <=> g \in RootsWith(s, "COMMITTED")
  <2>1. TAKE g
  <2>2. CASE g = n
    <3>1. g \notin RootsWith(s, "COMMITTED")
        BY <1>1, <2>2
    <3>2. QED
        BY <1>2, <2>2, <3>1 DEF Put, RootsWith
  <2>3. CASE g # n
      BY <1>2, <2>3 DEF Put, RootsWith
  <2>4. QED
      BY <2>2, <2>3
<1>4. RootsWith(t, "COMMITTED") = 0..(n - 1)
    BY <1>1, <1>3
<1>5. Contiguous(t) /\ TreeGeneration(t) = n - 1
    BY <1>1, <1>2, <1>4, ContiguousIf DEF Put
<1>6. \A g \in 0..(n - 1) : t.root[g] = s.root[g]
  <2>1. TAKE g \in 0..(n - 1)
  <2>2. g \in DOMAIN s.root /\ g # n
      BY <1>1 DEF RootsWith
  <2>3. QED
      BY <1>2, <2>2 DEF Put
<1>8. QED
    BY <1>2, <1>5, <1>6, <1>1 DEF Put

(* What the methods put.                                                   *)
LEMMA AddAncestorIs ==
    ASSUME NEW s, NEW hash, NEW ancestor, NEW g, IsStore(s)
    PROVE  IsStore(AddAncestor(s, hash, ancestor, g)) /\ AddAncestor(s, hash, ancestor, g).root = s.root
<1> DEFINE a == Inserted([k \in {<<hash, g>>} |-> ancestor], s.ancestors)
           t == [s EXCEPT !.ancestors = a]
<1> HIDE DEF a
<1>1. t = [node |-> s.node, root |-> s.root, ancestors |-> a]
    BY DEF IsStore
<1>2. IsStore(t) /\ t.root = s.root
    BY <1>1 DEF IsStore
<1>3. QED
    BY <1>2 DEF AddAncestor, a

LEMMA InsertRowsIs ==
    ASSUME NEW s, NEW made, NEW g, IsStore(s)
    PROVE  IsStore(InsertAncestorRows(s, made, g)) /\ InsertAncestorRows(s, made, g).root = s.root
<1> DEFINE a == Inserted(AncestorRows(made, g), s.ancestors)
           t == [s EXCEPT !.ancestors = a]
<1> HIDE DEF a
<1>1. t = [node |-> s.node, root |-> s.root, ancestors |-> a]
    BY DEF IsStore
<1>2. IsStore(t) /\ t.root = s.root
    BY <1>1 DEF IsStore
<1>3. QED
    BY <1>2 DEF InsertAncestorRows, a

LEMMA AddNodes ==
    ASSUME NEW s, NEW nodes, IsStore(s)
    PROVE  /\ IsStore([s EXCEPT !.node = @ \cup nodes])
           /\ [s EXCEPT !.node = @ \cup nodes].root = s.root
<1> DEFINE a == s.node \cup nodes
           t == [s EXCEPT !.node = a]
<1> HIDE DEF a
<1>1. t = [node |-> a, root |-> s.root, ancestors |-> s.ancestors]
    BY DEF IsStore
<1>2. IsStore(t) /\ t.root = s.root
    BY <1>1 DEF IsStore
<1>3. QED
    BY <1>2 DEF a

LEMMA InsertRootIs ==
    ASSUME NEW s, NEW hash, NEW status, IsStore(s)
    PROVE  Put(s, InsertRoot(s, hash, status), TreeGeneration(s) + 1, hash, status)
<1> DEFINE g == TreeGeneration(s) + 1
           row == [hash |-> hash, status |-> status]
           roots == Inserted([i \in {g} |-> row], s.root)
           t == [s EXCEPT !.root = roots]
<1>1. /\ roots = [i \in DOMAIN s.root \cup {g} |-> IF i = g THEN row ELSE s.root[i]]
  <2> HIDE DEF g, row
  <2>1. QED
      BY DEF Inserted, roots
<1>2. t = [node |-> s.node, root |-> roots, ancestors |-> s.ancestors]
  <2> HIDE DEF roots
  <2>1. QED
      BY DEF IsStore
<1>3. IsStore(t) /\ t.root = roots
  <2>1. /\ roots = [i \in DOMAIN roots |-> roots[i]]
        /\ \A i \in DOMAIN roots : roots[i] = [hash |-> roots[i].hash, status |-> roots[i].status]
    <3>1. row = [hash |-> row.hash, status |-> row.status]
        OBVIOUS
    <3> HIDE DEF g, row, roots
    <3>2. QED
        BY <1>1, <3>1 DEF IsStore
  <2> HIDE DEF roots, t
  <2>2. QED
      BY <1>2, <2>1 DEF IsStore
<1>4. Put(s, t, g, hash, status)
  <2>1. row.hash = hash /\ row.status = status
      OBVIOUS
  <2> HIDE DEF g, row, roots, t
  <2>2. QED
      BY <1>1, <1>3, <2>1 DEF Put
<1>5. CASE ~(hash # Empty /\ status = "COMMITTED")
  <2>1. InsertRoot(s, hash, status) = t
      BY <1>5 DEF InsertRoot
  <2>2. QED
      BY <1>4, <2>1
<1>6. CASE hash # Empty /\ status = "COMMITTED"
  <2>1. InsertRoot(s, hash, status) = AddAncestor(t, hash, Empty, g)
      BY <1>6 DEF InsertRoot
  <2> HIDE DEF g, t
  <2>2. QED
      BY <1>3, <1>4, <2>1, AddAncestorIs DEF Put, g
<1>7. QED
    BY <1>5, <1>6

LEMMA CommitRootIs ==
    ASSUME NEW s, NEW g \in DOMAIN s.root, IsStore(s)
    PROVE  Put(s, CommitRoot(s, g), g, s.root[g].hash, "COMMITTED")
<1> DEFINE hash == s.root[g].hash
           row == [hash |-> hash, status |-> "COMMITTED"]
           roots == [i \in DOMAIN s.root |-> IF i = g THEN row ELSE s.root[i]]
           t == [s EXCEPT !.root[g].status = "COMMITTED"]
<1>1. [s.root[g] EXCEPT !.status = "COMMITTED"] = row
    BY DEF IsStore
<1>2. [s.root EXCEPT ![g] = row] = roots
  <2> HIDE DEF row
  <2>1. QED
      BY DEF IsStore
<1>3. t = [s EXCEPT !.root = [s.root EXCEPT ![g] = [s.root[g] EXCEPT !.status = "COMMITTED"]]]
    OBVIOUS
<1>4. t = [node |-> s.node, root |-> roots, ancestors |-> s.ancestors]
  <2>1. t = [s EXCEPT !.root = roots]
      BY <1>1, <1>2, <1>3, Zenon
  <2> HIDE DEF roots, t
  <2>2. QED
      BY <2>1 DEF IsStore
<1>5. IsStore(t) /\ t.root = roots
  <2>1. /\ roots = [i \in DOMAIN roots |-> roots[i]]
        /\ \A i \in DOMAIN roots : roots[i] = [hash |-> roots[i].hash, status |-> roots[i].status]
    <3>1. row = [hash |-> row.hash, status |-> row.status]
        OBVIOUS
    <3> HIDE DEF row
    <3>2. QED
        BY <3>1 DEF IsStore
  <2> HIDE DEF roots, t
  <2>2. QED
      BY <1>4, <2>1 DEF IsStore
<1>6. Put(s, t, g, hash, "COMMITTED")
  <2>1. row.hash = hash /\ row.status = "COMMITTED"
      OBVIOUS
  <2>2. DOMAIN roots = DOMAIN s.root \cup {g} /\ roots[g] = row
        /\ \A i \in DOMAIN s.root : i # g => roots[i] = s.root[i]
    <3> HIDE DEF row
    <3>1. QED
        OBVIOUS
  <2> HIDE DEF row, roots, t, hash
  <2>3. QED
      BY <1>5, <2>1, <2>2 DEF Put
<1>7. CASE hash = Empty
  <2>1. CommitRoot(s, g) = t
      BY <1>7 DEF CommitRoot
  <2>2. QED
      BY <1>6, <2>1
<1>8. CASE hash # Empty
  <2>1. CommitRoot(s, g) = AddAncestor(t, hash, Empty, g)
      BY <1>8 DEF CommitRoot
  <2> HIDE DEF hash, t
  <2>2. QED
      BY <1>5, <1>6, <2>1, AddAncestorIs DEF Put, hash
<1>9. QED
    BY <1>7, <1>8

LEMMA ClearPendingIs ==
    ASSUME NEW s, Contiguous(s)
    PROVE  /\ Contiguous(ClearPendingRoots(s))
           /\ TreeGeneration(ClearPendingRoots(s)) = TreeGeneration(s)
           /\ \A g \in 0..TreeGeneration(s) : ClearPendingRoots(s).root[g] = s.root[g]
<1> DEFINE roots == [g \in DOMAIN s.root \ PendingRoots(s) |-> s.root[g]]
           t == ClearPendingRoots(s)
<1>0. IsStore(s)
    BY DEF Contiguous
<1>1. t = [node |-> s.node, root |-> roots, ancestors |-> s.ancestors]
  <2>1. t = [s EXCEPT !.root = roots]
      BY DEF ClearPendingRoots
  <2> HIDE DEF roots, t
  <2>2. QED
      BY <1>0, <2>1 DEF IsStore
<1>2. /\ roots = [g \in DOMAIN roots |-> roots[g]]
      /\ \A g \in DOMAIN roots : g \in DOMAIN s.root /\ roots[g] = s.root[g]
    OBVIOUS
<1>3. IsStore(t) /\ t.root = roots
  <2> HIDE DEF roots, t
  <2>1. \A g \in DOMAIN roots : roots[g] = [hash |-> roots[g].hash, status |-> roots[g].status]
      BY <1>0, <1>2 DEF IsStore
  <2>2. QED
      BY <1>1, <1>2, <2>1 DEF IsStore
<1>4. RootsWith(t, "COMMITTED") = RootsWith(s, "COMMITTED")
  <2>1. \A g : g \in DOMAIN roots <=> g \in DOMAIN s.root /\ s.root[g].status # "PENDING"
      BY DEF PendingRoots, RootsWith
  <2> HIDE DEF roots, t
  <2>2. QED
      BY <1>2, <1>3, <2>1 DEF RootsWith
<1>5. \A g \in RootsWith(s, "COMMITTED") : t.root[g] = s.root[g]
  <2> HIDE DEF roots, t
  <2>1. QED
      BY <1>2, <1>3, <1>4 DEF RootsWith
<1>6. Contiguous(t) /\ TreeGeneration(t) = TreeGeneration(s)
  <2> DEFINE n == TreeGeneration(s) + 1
  <2>1. n \in Nat /\ n - 1 = TreeGeneration(s) /\ RootsWith(t, "COMMITTED") = 0..(n - 1)
      BY <1>4 DEF Contiguous
  <2> HIDE DEF n, t
  <2>2. QED
      BY <1>3, <2>1, ContiguousIf
<1>7. QED
    BY <1>5, <1>6 DEF Contiguous

LEMMA RollbackIs ==
    ASSUME NEW s, NEW n \in Int, n >= -1, Contiguous(s)
    PROVE  /\ Contiguous(RollbackToGeneration(s, n))
           /\ TreeGeneration(RollbackToGeneration(s, n)) =
                IF n < TreeGeneration(s) THEN n ELSE TreeGeneration(s)
           /\ \A g \in 0..TreeGeneration(s) : g <= n =>
                RollbackToGeneration(s, n).root[g] = s.root[g]
<1> DEFINE roots == [g \in {g \in DOMAIN s.root : g <= n} |-> s.root[g]]
           rows == [k \in {k \in DOMAIN s.ancestors : k[2] <= n} |-> s.ancestors[k]]
           t == RollbackToGeneration(s, n)
<1>0. IsStore(s)
    BY DEF Contiguous
<1>1. t = [node |-> s.node, root |-> roots, ancestors |-> rows]
  <2>1. t = [s EXCEPT !.ancestors = rows, !.root = roots]
      BY DEF RollbackToGeneration
  <2> HIDE DEF roots, rows, t
  <2>2. QED
      BY <1>0, <2>1 DEF IsStore
<1>2. /\ roots = [g \in DOMAIN roots |-> roots[g]]
      /\ \A g \in DOMAIN roots : g \in DOMAIN s.root /\ roots[g] = s.root[g]
    OBVIOUS
<1>3. IsStore(t) /\ t.root = roots
  <2> HIDE DEF roots, rows, t
  <2>1. \A g \in DOMAIN roots : roots[g] = [hash |-> roots[g].hash, status |-> roots[g].status]
      BY <1>0, <1>2 DEF IsStore
  <2>2. QED
      BY <1>1, <1>2, <2>1 DEF IsStore
<1>4. \A g : g \in RootsWith(t, "COMMITTED") <=> g \in RootsWith(s, "COMMITTED") /\ g <= n
  <2>1. \A g : g \in DOMAIN roots <=> g \in DOMAIN s.root /\ g <= n
      OBVIOUS
  <2> HIDE DEF roots, t
  <2>2. QED
      BY <1>2, <1>3, <2>1 DEF RootsWith
<1>5. \A g \in RootsWith(s, "COMMITTED") : g <= n => t.root[g] = s.root[g]
  <2> HIDE DEF roots, t
  <2>1. QED
      BY <1>2, <1>3, <1>4 DEF RootsWith
<1> DEFINE m == IF n < TreeGeneration(s) THEN n ELSE TreeGeneration(s)
<1>6. Contiguous(t) /\ TreeGeneration(t) = m
  <2> DEFINE k == m + 1
  <2>0. TreeGeneration(s) \in Int /\ TreeGeneration(s) >= -1 /\ RootsWith(s, "COMMITTED") = 0..TreeGeneration(s)
      BY DEF Contiguous
  <2>1. k \in Nat /\ m = k - 1
      BY <2>0
  <2>2. \A g : g \in 0..m <=> g \in 0..TreeGeneration(s) /\ g <= n
      BY <2>0
  <2>3. RootsWith(t, "COMMITTED") = 0..(k - 1)
    <3> HIDE DEF m, t
    <3>1. RootsWith(t, "COMMITTED") = 0..m
        BY <1>4, <2>0, <2>2
    <3>2. QED
        BY <2>1, <3>1
  <2> HIDE DEF k, t, m
  <2>4. QED
      BY <1>3, <2>1, <2>3, ContiguousIf
<1>7. QED
    BY <1>5, <1>6 DEF Contiguous

LEMMA ShiftRootIs ==
    ASSUME NEW s, NEW size \in Nat, Contiguous(s)
    PROVE  /\ Contiguous(ShiftRoot(s, size))
           /\ TreeGeneration(ShiftRoot(s, size)) = TreeGeneration(s) + size
           /\ \A g \in 0..(TreeGeneration(s) + size) :
                IF g <= TreeGeneration(s) THEN ShiftRoot(s, size).root[g] = s.root[g]
                ELSE ShiftRoot(s, size).root[g].hash = TreeRoot(s)
<1> DEFINE last == TreeGeneration(s)
           new == (last + 1)..(last + size)
           hash == TreeRoot(s)
           row == [hash |-> hash, status |-> "COMMITTED"]
           rows == [g \in new |-> row]
           roots == Inserted(rows, s.root)
           t == [s EXCEPT !.root = roots]
           sh == ShiftRoot(s, size)
<1>0. IsStore(s) /\ last \in Int /\ last >= -1 /\ RootsWith(s, "COMMITTED") = 0..last
    BY DEF Contiguous
<1>1. t = [node |-> s.node, root |-> roots, ancestors |-> s.ancestors]
  <2> HIDE DEF roots
  <2>1. QED
      BY <1>0 DEF IsStore
<1>2. roots = [g \in new \cup DOMAIN s.root |-> IF g \in new THEN row ELSE s.root[g]]
  <2> HIDE DEF new, row
  <2>1. QED
      BY DEF Inserted, roots
<1>3. row.hash = hash /\ row.status = "COMMITTED" /\ row = [hash |-> row.hash, status |-> row.status]
    OBVIOUS
<1>4. IsStore(t) /\ t.root = roots
  <2> HIDE DEF new, row
  <2>1. /\ roots = [g \in DOMAIN roots |-> roots[g]]
        /\ \A g \in DOMAIN roots : roots[g] = [hash |-> roots[g].hash, status |-> roots[g].status]
    <3> HIDE DEF roots
    <3>1. QED
        BY <1>0, <1>2, <1>3 DEF IsStore
  <2> HIDE DEF roots, t
  <2>2. QED
      BY <1>1, <2>1 DEF IsStore
<1>5. IsStore(sh) /\ sh.root = roots
  <2>1. CASE hash = Empty
    <3>1. sh = t
        BY <2>1 DEF ShiftRoot
    <3>2. QED
        BY <1>4, <3>1
  <2>2. CASE hash # Empty
    <3> DEFINE a == Inserted([k \in {hash} \X new |-> Empty], s.ancestors)
    <3>1. sh = [t EXCEPT !.ancestors = a]
        BY <2>2 DEF ShiftRoot
    <3> HIDE DEF a, t, roots, sh
    <3>2. sh = [node |-> t.node, root |-> t.root, ancestors |-> a]
        BY <1>4, <3>1 DEF IsStore
    <3>3. QED
        BY <1>4, <3>2 DEF IsStore
  <2>3. QED
      BY <2>1, <2>2
<1>6. \A g : g \in RootsWith(sh, "COMMITTED") <=> g \in RootsWith(s, "COMMITTED") \/ g \in new
  <2>1. TAKE g
  <2>2. CASE g \in new
    <3> HIDE DEF new, row, roots, sh
    <3>1. QED
        BY <1>2, <1>3, <1>5, <2>2 DEF RootsWith
  <2>3. CASE g \notin new
    <3> HIDE DEF new, row, roots, sh
    <3>1. QED
        BY <1>2, <1>5, <2>3 DEF RootsWith
  <2>4. QED
      BY <2>2, <2>3
<1>7. \A g \in 0..(last + size) : IF g <= last THEN sh.root[g] = s.root[g] ELSE sh.root[g].hash = hash
  <2>1. TAKE g \in 0..(last + size)
  <2>2. CASE g <= last
    <3>1. g \notin new /\ g \in 0..last
        BY <1>0, <2>2
    <3>2. g \in DOMAIN s.root
        BY <1>0, <3>1 DEF RootsWith
    <3> HIDE DEF new, row, roots, sh, last
    <3>3. QED
        BY <1>2, <1>5, <2>2, <3>1, <3>2
  <2>3. CASE ~(g <= last)
    <3>1. g \in new
        BY <1>0, <2>3
    <3> HIDE DEF new, row, roots, sh, last, hash
    <3>3. QED
        BY <1>2, <1>3, <1>5, <2>3, <3>1
  <2>4. QED
      BY <2>2, <2>3
<1>8. Contiguous(sh) /\ TreeGeneration(sh) = last + size
  <2> DEFINE k == last + size + 1
  <2>1. k \in Nat /\ k - 1 = last + size
      BY <1>0
  <2>2. \A g : g \in 0..(k - 1) <=> g \in 0..last \/ g \in new
      BY <1>0
  <2> HIDE DEF k, sh, new, last
  <2>3. RootsWith(sh, "COMMITTED") = 0..(k - 1)
      BY <1>0, <1>6, <2>2
  <2>4. QED
      BY <1>5, <2>1, <2>3, ContiguousIf
<1>9. QED
    BY <1>7, <1>8

(* The copies of the local root follow it without a gap.                   *)
LEMMA LeastNumber ==
    ASSUME NEW T, T \subseteq Nat, T # {}
    PROVE  \E n \in T : \A k \in T : n <= k
<1>1. \E n \in T : \A k \in T : ~(<<k, n>> \in OpToRel(<, Nat))
    BY NatLessThanWellFounded, WFMin, Zenon
<1>2. PICK n \in T : \A k \in T : ~(k < n)
    BY <1>1 DEF OpToRel
<1>3. \A k \in T : n <= k
  <2>1. TAKE k \in T
  <2>2. k \in Nat /\ n \in Nat /\ ~(k < n)
      BY <1>2
  <2>3. QED
      BY <2>2
<1>4. QED
    BY <1>3

LEMMA GenerationShiftIs ==
    ASSUME NEW s, TreeGeneration(s) \in Int, Len(chain) \in Nat
    PROVE  /\ GenerationShift(s) \in Nat
           /\ \A g \in (TreeGeneration(s) + 1)..(TreeGeneration(s) + GenerationShift(s)) :
                g <= Latest /\ RootAt(g) = TreeRoot(s)
<1> DEFINE last == TreeGeneration(s)
           end == Latest
           Same(i) == RootAt(i) = TreeRoot(s)
           new == {g \in (last + 1)..end : \A i \in (last + 1)..g : Same(i)}
           Out == {j \in Nat : (last + 1 + j) \notin new}
<1>0. last \in Int /\ end \in Int
    BY DEF Latest
<1>1. GenerationShift(s) = Cardinality(new)
    BY DEF GenerationShift
<1> HIDE DEF last, end, Same
<1>2. Out \subseteq Nat /\ Out # {}
  <2>1. PICK j \in Nat : last + 1 + j > end
    <3>1. CASE end <= last
      <4>1. 0 \in Nat /\ last + 1 + 0 > end
          BY <1>0, <3>1
      <4>2. QED
          BY <4>1
    <3>2. CASE end > last
      <4>1. end - last \in Nat /\ last + 1 + (end - last) > end
          BY <1>0, <3>2
      <4>2. QED
          BY <4>1
    <3>3. QED
        BY <1>0, <3>1, <3>2
  <2>2. j \in Out
      BY <1>0, <2>1
  <2>3. QED
      BY <2>2
<1>3. PICK n \in Out : \A k \in Out : n <= k
  <2> HIDE DEF Out
  <2>1. QED
      BY <1>2, LeastNumber
<1>4. n \in Nat /\ (last + 1 + n) \notin new
    OBVIOUS
<1>5. \A g : g \in new <=> g \in (last + 1)..(last + n)
  <2>1. ASSUME NEW g \in (last + 1)..(last + n)
        PROVE  g \in new
    <3>1. g - last - 1 \in Nat /\ g - last - 1 < n /\ last + 1 + (g - last - 1) = g
        BY <1>0, <1>4, <2>1
    <3>2. g - last - 1 \notin Out
      <4> HIDE DEF Out
      <4>1. n \in Nat
          BY <1>4
      <4>2. QED
          BY <1>3, <3>1, <4>1
    <3>3. QED
        BY <3>1, <3>2
  <2>2. ASSUME NEW g \in new, g \notin (last + 1)..(last + n)
        PROVE  FALSE
    <3>1. g \in Int /\ last + 1 + n <= g /\ g <= end
        BY <1>0, <1>4, <2>2
    <3>2. \A i \in (last + 1)..(last + 1 + n) : Same(i)
        BY <1>0, <1>4, <3>1
    <3>3. last + 1 + n \in new
        BY <1>0, <1>4, <3>1, <3>2
    <3>4. QED
        BY <1>4, <3>3
  <2>3. QED
      BY <2>1, <2>2
<1>6. new = (last + 1)..(last + n)
    BY <1>5
<1>7. Cardinality(new) = n
  <2> HIDE DEF new
  <2>1. Cardinality((last + 1)..(last + n)) =
          IF last + 1 > last + n THEN 0 ELSE (last + n) - (last + 1) + 1
      BY <1>0, <1>4, FS_Interval
  <2>2. QED
      BY <1>0, <1>4, <1>6, <2>1
<1>8. \A g \in new : g <= end /\ Same(g)
    BY <1>0
<1>9. QED
  <2> HIDE DEF new
  <2>1. GenerationShift(s) = n
      BY <1>1, <1>7
  <2>2. \A g \in (last + 1)..(last + n) : g <= end /\ Same(g)
      BY <1>6, <1>8
  <2>3. QED
      BY <1>4, <2>1, <2>2 DEF last, end, Same

--------------------------------------------------------------------------------
(* Stores that follow the chain.                                           *)

LEMMA SequenceLen ==
    ASSUME NEW s, Sequence(s)
    PROVE  Len(s) \in Nat
<1>1. PICK S : s \in Seq(S)
    BY DEF Sequence
<1>2. QED
    BY <1>1

LEMMA ClearFollows ==
    ASSUME NEW s, NEW ch, StoreFollows(s, ch)
    PROVE  StoreFollows(ClearPendingRoots(s), ch)
<1>1. Contiguous(s)
    BY DEF StoreFollows
<1> DEFINE t == ClearPendingRoots(s)
<1>2. Contiguous(t) /\ TreeGeneration(t) = TreeGeneration(s)
      /\ \A g \in 0..TreeGeneration(s) : t.root[g] = s.root[g]
    BY <1>1, ClearPendingIs
<1> HIDE DEF t
<1>3. StoreFollows(t, ch)
    BY <1>2 DEF StoreFollows, Follows
<1>4. QED
    BY <1>3 DEF t

LEMMA PutFollows ==
    ASSUME NEW s, NEW t, NEW ch, NEW hash, Len(ch) \in Nat, StoreFollows(s, ch),
           Put(s, t, TreeGeneration(s) + 1, hash, "COMMITTED"),
           TreeGeneration(s) + 1 < Len(ch), hash = ch[TreeGeneration(s) + 2]
    PROVE  StoreFollows(t, ch)
<1>1. Contiguous(s) /\ Follows(s, TreeGeneration(s), ch)
    BY DEF StoreFollows
<1>2. /\ Contiguous(t)
      /\ TreeGeneration(t) = TreeGeneration(s) + 1
      /\ t.root[TreeGeneration(t)].hash = hash
      /\ \A g \in 0..TreeGeneration(s) : t.root[g] = s.root[g]
    BY <1>1, PutCommitted
<1> DEFINE last == TreeGeneration(s)
<1>3. last \in Int /\ last >= -1
    BY <1>1 DEF Contiguous
<1> HIDE DEF last
<1>4. \A g \in 0..(last + 1) : t.root[g].hash = ch[g + 1]
  <2>1. TAKE g \in 0..(last + 1)
  <2>2. CASE g = last + 1
    <3>1. g + 1 = last + 2
        BY <1>3, <2>2
    <3>2. QED
        BY <1>2, <2>2, <3>1 DEF last
  <2>3. CASE g # last + 1
    <3>1. g \in 0..last
        BY <1>3, <2>3
    <3>2. QED
        BY <1>1, <1>2, <3>1 DEF last, Follows
  <2>4. QED
      BY <2>2, <2>3
<1>5. QED
    BY <1>2, <1>4 DEF last, Follows, StoreFollows

LEMMA CommitFollows ==
    ASSUME NEW s, NEW ch, Len(ch) \in Nat, StoreFollows(s, ch),
           TreeGeneration(s) + 1 \in PendingRoots(s),
           TreeGeneration(s) + 1 < Len(ch),
           s.root[TreeGeneration(s) + 1].hash = ch[TreeGeneration(s) + 2]
    PROVE  StoreFollows(CommitRoot(s, TreeGeneration(s) + 1), ch)
<1> DEFINE next == TreeGeneration(s) + 1
           t == CommitRoot(s, next)
<1>1. IsStore(s) /\ next \in DOMAIN s.root
    BY DEF StoreFollows, Contiguous, PendingRoots, RootsWith
<1>2. Put(s, t, next, s.root[next].hash, "COMMITTED")
  <2> HIDE DEF next
  <2>1. QED
      BY <1>1, CommitRootIs
<1> HIDE DEF t
<1>3. StoreFollows(t, ch)
    BY <1>2, PutFollows
<1>4. QED
    BY <1>3 DEF t

LEMMA ShiftFollows ==
    ASSUME NEW s, Len(chain) \in Nat, StoreFollows(s, chain), TreeGeneration(s) < Latest
    PROVE  StoreFollows(ShiftRoot(s, GenerationShift(s)), chain)
<1> DEFINE last == TreeGeneration(s)
           size == GenerationShift(s)
           t == ShiftRoot(s, size)
<1>1. Contiguous(s) /\ Follows(s, last, chain) /\ last \in Int /\ last >= -1
    BY DEF StoreFollows, Contiguous
<1>2. size \in Nat /\ \A g \in (last + 1)..(last + size) : g <= Latest /\ RootAt(g) = TreeRoot(s)
    BY <1>1, GenerationShiftIs
<1> HIDE DEF size
<1>3. /\ Contiguous(t)
      /\ TreeGeneration(t) = last + size
      /\ \A g \in 0..(last + size) : IF g <= last THEN t.root[g] = s.root[g]
                                     ELSE t.root[g].hash = TreeRoot(s)
    BY <1>1, <1>2, ShiftRootIs
<1> HIDE DEF last, t
<1>4. last + size < Len(chain)
  <2>1. CASE size = 0
      BY <1>1, <1>2, <2>1 DEF Latest, last
  <2>2. CASE size > 0
    <3>1. last + size \in (last + 1)..(last + size)
        BY <1>1, <1>2, <2>2
    <3>2. last + size <= Latest
        BY <1>2, <3>1
    <3>3. QED
        BY <1>1, <1>2, <3>2 DEF Latest
  <2>3. QED
      BY <1>2, <2>1, <2>2
<1>5. \A g \in 0..(last + size) : t.root[g].hash = chain[g + 1]
  <2>1. TAKE g \in 0..(last + size)
  <2>2. CASE g <= last
    <3>1. g \in 0..last
        BY <1>1, <2>2
    <3>2. QED
        BY <1>1, <1>3, <2>2, <3>1 DEF Follows
  <2>3. CASE ~(g <= last)
    <3>1. g \in (last + 1)..(last + size)
        BY <1>1, <1>2, <2>3
    <3>2. QED
        BY <1>2, <1>3, <2>3, <3>1 DEF RootAt
  <2>4. QED
      BY <2>2, <2>3
<1>6. StoreFollows(t, chain)
    BY <1>3, <1>4, <1>5 DEF StoreFollows, Follows
<1>7. QED
    BY <1>6 DEF t, size

(* _update_confirmation_status keeps to the chain, whichever of its        *)
(* branches is taken.                                                      *)
LEMMA ConfirmFollows ==
    ASSUME NEW s, ChainOK(chain, spends), StoreFollows(s, chain),
           NEW u \in UpdateConfirmationStatus(s)
    PROVE  StoreFollows(u, chain)
<1> DEFINE next == TreeGeneration(s) + 1
           matches == next \in PendingRoots(s) /\ s.root[next].hash = RootAt(next)
           created == 0 \in PendingRoots(s) /\ s.root[0].hash = Empty
           shift == GenerationShift(s)
           same == chain = <<>> \/ TreeGeneration(s) >= Latest \/ (~TreeIdExists(s) /\ ~created)
<1>1. Len(chain) \in Nat
    BY SequenceLen DEF ChainOK
<1>2. Contiguous(s) /\ TreeGeneration(s) \in Int /\ TreeGeneration(s) >= -1
    BY DEF StoreFollows, Contiguous
<1>3. CASE same
  <2>1. u = s
      BY <1>3 DEF UpdateConfirmationStatus
  <2>2. QED
      BY <2>1
<1>4. CASE ~same /\ ~TreeIdExists(s)
  <2>1. u = ClearPendingRoots(CommitRoot(s, 0))
      BY <1>4 DEF UpdateConfirmationStatus
  <2>2. created /\ chain # <<>> /\ TreeGeneration(s) < Latest
      BY <1>1, <1>2, <1>4 DEF Latest
  <2>3. next = 0
      BY <1>2, <1>4 DEF TreeIdExists
  <2>4. next \in PendingRoots(s) /\ next < Len(chain) /\ s.root[next].hash = chain[next + 1]
    <3>1. chain[1] = Empty
        BY <2>2 DEF ChainOK
    <3>2. 0 < Len(chain)
        BY <1>1, <1>2, <2>2, <2>3 DEF Latest
    <3>3. QED
        BY <2>2, <2>3, <3>1, <3>2
  <2>5. next + 1 = TreeGeneration(s) + 2
      BY <1>2
  <2>6. StoreFollows(CommitRoot(s, next), chain)
      BY <1>1, <2>4, <2>5, CommitFollows
  <2>7. QED
      BY <2>1, <2>3, <2>6, ClearFollows
<1>5. CASE ~same /\ TreeIdExists(s) /\ shift > 0
  <2>1. u = ClearPendingRoots(ShiftRoot(s, shift))
      BY <1>5 DEF UpdateConfirmationStatus
  <2>2. TreeGeneration(s) < Latest
      BY <1>1, <1>2, <1>5 DEF Latest
  <2>3. QED
      BY <1>1, <2>1, <2>2, ShiftFollows, ClearFollows
<1>6. CASE ~same /\ TreeIdExists(s) /\ ~(shift > 0) /\ matches
  <2> DEFINE t == CommitRoot(s, next)
             v == BuildAncestorTable(t)
  <2>1. u = ClearPendingRoots(v)
      BY <1>6 DEF UpdateConfirmationStatus
  <2>2. next < Len(chain) /\ next + 1 = TreeGeneration(s) + 2
      BY <1>1, <1>2, <1>6 DEF Latest
  <2>3. StoreFollows(t, chain)
      BY <1>1, <1>6, <2>2, CommitFollows DEF RootAt
  <2> HIDE DEF t
  <2>4. IsStore(t)
      BY <2>3 DEF StoreFollows, Contiguous
  <2>5. IsStore(v) /\ v.root = t.root
      BY <2>4, InsertRowsIs DEF BuildAncestorTable
  <2> HIDE DEF v
  <2>6. StoreFollows(v, chain)
      BY <2>3, <2>4, <2>5, OtherTables DEF StoreFollows, Follows
  <2>7. QED
      BY <2>1, <2>6, ClearFollows
<1>7. CASE ~same /\ TreeIdExists(s) /\ ~(shift > 0) /\ ~matches
  <2>1. u = ClearPendingRoots(s)
      BY <1>7 DEF UpdateConfirmationStatus
  <2>2. QED
      BY <2>1, ClearFollows
<1>8. QED
    BY <1>3, <1>4, <1>5, <1>6, <1>7

--------------------------------------------------------------------------------
(* Batches.                                                                *)

(* A change of a batch makes a generation above the one it began with.     *)
LEMMA NewRootFollows ==
    ASSUME NEW s, NEW base, NEW ch, NEW hash, NEW made, BatchFollows(s, base, ch)
    PROVE  BatchFollows(WithNewRoot(s, hash, made), base, ch)
<1> DEFINE a == [s EXCEPT !.node = @ \cup made]
           t == InsertRoot(a, hash, "COMMITTED")
           u == InsertAncestorRows(t, made, TreeGeneration(t))
<1>1. Contiguous(s) /\ IsStore(s) /\ base \in Nat /\ base <= TreeGeneration(s) /\ TreeGeneration(s) \in Int
      /\ Follows(s, base, ch)
    BY DEF BatchFollows, Contiguous
<1>2. IsStore(a) /\ a.root = s.root
    BY <1>1, AddNodes
<1> HIDE DEF a
<1>3. Contiguous(a) /\ TreeGeneration(a) = TreeGeneration(s)
    BY <1>1, <1>2, OtherTables
<1>4. Put(a, t, TreeGeneration(a) + 1, hash, "COMMITTED")
    BY <1>2, InsertRootIs
<1> HIDE DEF t
<1>5. Contiguous(t) /\ TreeGeneration(t) = TreeGeneration(s) + 1
      /\ \A g \in 0..TreeGeneration(s) : t.root[g] = s.root[g]
    BY <1>2, <1>3, <1>4, PutCommitted
<1>6. IsStore(t)
    BY <1>5 DEF Contiguous
<1>7. IsStore(u) /\ u.root = t.root
    BY <1>6, InsertRowsIs
<1> HIDE DEF u
<1>8. Contiguous(u) /\ TreeGeneration(u) = TreeGeneration(s) + 1
    BY <1>5, <1>6, <1>7, OtherTables
<1>9. Follows(u, base, ch)
  <2>1. \A g \in 0..base : g \in 0..TreeGeneration(s)
      BY <1>1
  <2>2. QED
      BY <1>1, <1>5, <1>7, <2>1 DEF Follows
<1>10. BatchFollows(u, base, ch)
    BY <1>1, <1>8, <1>9 DEF BatchFollows
<1>11. QED
    BY <1>10 DEF u, t, a, WithNewRoot

LEMMA ChangesFollow ==
    ASSUME NEW s, NEW base, NEW ch, NEW leaf, BatchFollows(s, base, ch)
    PROVE  /\ \A reference, side : BatchFollows(Insert(s, leaf, reference, side), base, ch)
           /\ BatchFollows(InsertFirst(s, leaf), base, ch)
           /\ BatchFollows(Delete(s, leaf), base, ch)
<1> DEFINE a == [s EXCEPT !.node = @ \cup {leaf}]
<1>1. IsStore(s)
    BY DEF BatchFollows, Contiguous
<1>2. IsStore(a) /\ a.root = s.root
    BY <1>1, AddNodes
<1> HIDE DEF a
<1>3. BatchFollows(a, base, ch)
    BY <1>1, <1>2, OtherTables DEF BatchFollows, Follows
<1>4. \A reference, side : BatchFollows(Insert(s, leaf, reference, side), base, ch)
  <2>1. TAKE reference, side
  <2>2. PICK hash, made : Insert(s, leaf, reference, side) = WithNewRoot(a, hash, made)
      BY Zenon DEF Insert, a
  <2>3. QED
      BY <1>3, <2>2, NewRootFollows
<1>5. BatchFollows(InsertFirst(s, leaf), base, ch)
    BY <1>3, NewRootFollows DEF InsertFirst, a
<1>6. BatchFollows(Delete(s, leaf), base, ch)
  <2>1. PICK hash, made : Delete(s, leaf) = WithNewRoot(s, hash, made)
      BY Zenon DEF Delete
  <2>2. QED
      BY <2>1, NewRootFollows
<1>7. QED
    BY <1>4, <1>5, <1>6

(* The end of a batch drops what is above its first generation.            *)
LEMMA BatchEnds ==
    ASSUME NEW s, NEW base, NEW ch, NEW hash, BatchFollows(s, base, ch)
    PROVE  StoreFollows(InsertRootWithAncestors(RollbackToGeneration(s, base), hash, "PENDING"), ch)
<1> DEFINE a == RollbackToGeneration(s, base)
           t == InsertRoot(a, hash, "PENDING")
<1>1. Contiguous(s) /\ base \in Nat /\ base <= TreeGeneration(s) /\ TreeGeneration(s) \in Int
      /\ Follows(s, base, ch)
    BY DEF BatchFollows, Contiguous
<1>2. Contiguous(a) /\ TreeGeneration(a) = base /\ \A g \in 0..base : a.root[g] = s.root[g]
  <2>1. base \in Int /\ base >= -1
      BY <1>1
  <2>2. /\ Contiguous(a)
        /\ TreeGeneration(a) = IF base < TreeGeneration(s) THEN base ELSE TreeGeneration(s)
        /\ \A g \in 0..TreeGeneration(s) : g <= base => a.root[g] = s.root[g]
      BY <1>1, <2>1, RollbackIs
  <2> HIDE DEF a
  <2>3. QED
      BY <1>1, <2>2
<1> HIDE DEF a
<1>3. IsStore(a)
    BY <1>2 DEF Contiguous
<1>4. Put(a, t, TreeGeneration(a) + 1, hash, "PENDING")
    BY <1>3, InsertRootIs
<1> HIDE DEF t
<1>5. Contiguous(t) /\ TreeGeneration(t) = base /\ \A g \in 0..base : t.root[g] = a.root[g]
    BY <1>2, <1>4, PutPending
<1>6. StoreFollows(t, ch)
    BY <1>1, <1>2, <1>5 DEF StoreFollows, Follows
<1>7. QED
    BY <1>6 DEF t, a, InsertRootWithAncestors

--------------------------------------------------------------------------------
(* Downloads.                                                              *)

LEMMA CreateFollows ==
    ASSUME NEW s, NEW ch, Len(ch) \in Nat, Len(ch) > 0, ch[1] = Empty,
           StoreFollows(s, ch), ~TreeIdExists(s)
    PROVE  StoreFollows(InsertRoot(s, Empty, "COMMITTED"), ch)
<1>1. IsStore(s) /\ TreeGeneration(s) \in Int /\ TreeGeneration(s) = -1
    BY DEF StoreFollows, Contiguous, TreeIdExists
<1> DEFINE t == InsertRoot(s, Empty, "COMMITTED")
<1>2. Put(s, t, TreeGeneration(s) + 1, Empty, "COMMITTED")
    BY <1>1, InsertRootIs
<1> HIDE DEF t
<1>3. TreeGeneration(s) + 1 < Len(ch) /\ TreeGeneration(s) + 2 = 1
    BY <1>1
<1>4. StoreFollows(t, ch)
    BY <1>2, <1>3, PutFollows
<1>5. QED
    BY <1>4 DEF t

LEMMA FileFollows ==
    ASSUME NEW s, NEW ch, NEW hash, NEW content, Len(ch) \in Nat, StoreFollows(s, ch),
           TreeGeneration(s) + 1 < Len(ch), hash = ch[TreeGeneration(s) + 2]
    PROVE  StoreFollows(InsertFromFile(s, hash, content), ch)
<1> DEFINE a == [s EXCEPT !.node = @ \cup content]
           t == InsertRoot(a, hash, "COMMITTED")
           u == InsertAncestorRows(t, NewInternalNodes(t), TreeGeneration(t))
<1>1. IsStore(s)
    BY DEF StoreFollows, Contiguous
<1>2. IsStore(a) /\ a.root = s.root
    BY <1>1, AddNodes
<1> HIDE DEF a
<1>3. StoreFollows(a, ch) /\ TreeGeneration(a) = TreeGeneration(s)
    BY <1>1, <1>2, OtherTables DEF StoreFollows, Follows
<1>4. Put(a, t, TreeGeneration(a) + 1, hash, "COMMITTED")
    BY <1>2, InsertRootIs
<1> HIDE DEF t
<1>5. StoreFollows(t, ch)
    BY <1>3, <1>4, PutFollows
<1>6. IsStore(t)
    BY <1>5 DEF StoreFollows, Contiguous
<1>7. IsStore(u) /\ u.root = t.root
    BY <1>6, InsertRowsIs
<1> HIDE DEF u
<1>8. StoreFollows(u, ch)
    BY <1>5, <1>6, <1>7, OtherTables DEF StoreFollows, Follows
<1>9. QED
    BY <1>8 DEF u, t, a, InsertFromFile, InsertRootWithAncestors, BuildAncestorTable

LEMMA RefusedFollows ==
    ASSUME NEW s, NEW ch, NEW n \in Int, n >= -1, NEW kept, Len(ch) \in Nat, StoreFollows(s, ch)
    PROVE  StoreFollows(RollbackToGeneration([s EXCEPT !.node = @ \cup kept], n), ch)
<1> DEFINE a == [s EXCEPT !.node = @ \cup kept]
           t == RollbackToGeneration(a, n)
<1>1. IsStore(s)
    BY DEF StoreFollows, Contiguous
<1>2. IsStore(a) /\ a.root = s.root
    BY <1>1, AddNodes
<1> HIDE DEF a
<1>3. StoreFollows(a, ch) /\ TreeGeneration(a) = TreeGeneration(s)
    BY <1>1, <1>2, OtherTables DEF StoreFollows, Follows
<1>4. Contiguous(a) /\ TreeGeneration(a) \in Int /\ Follows(a, TreeGeneration(a), ch)
    BY <1>3 DEF StoreFollows, Contiguous
<1>5. /\ Contiguous(t)
      /\ TreeGeneration(t) = IF n < TreeGeneration(a) THEN n ELSE TreeGeneration(a)
      /\ \A g \in 0..TreeGeneration(a) : g <= n => t.root[g] = a.root[g]
    BY <1>4, RollbackIs
<1> HIDE DEF t
<1>6. TreeGeneration(t) < Len(ch)
    BY <1>4, <1>5 DEF Follows
<1>7. \A g \in 0..TreeGeneration(t) : t.root[g].hash = ch[g + 1]
  <2>1. TAKE g \in 0..TreeGeneration(t)
  <2>2. g \in 0..TreeGeneration(a) /\ g <= n
      BY <1>4, <1>5
  <2>3. QED
      BY <1>4, <1>5, <2>2 DEF Follows
<1>8. StoreFollows(t, ch)
    BY <1>5, <1>6, <1>7 DEF StoreFollows, Follows
<1>9. QED
    BY <1>8 DEF t, a

(* What is missing when a server is asked.                                 *)
LEMMA MissingRoots ==
    ASSUME NEW ch, Sequence(ch), NEW gen \in Int, gen >= -1, NEW target \in Nat,
           gen < target, target < Len(ch)
    PROVE  LET roots == SubSeq(ch, gen + 2, target + 1)
           IN  /\ Sequence(roots)
               /\ gen + 1 + Len(roots) <= Len(ch)
               /\ \A i \in 1..Len(roots) : roots[i] = ch[gen + 1 + i]
<1>1. PICK S : ch \in Seq(S)
    BY DEF Sequence
<1> DEFINE roots == SubSeq(ch, gen + 2, target + 1)
<1>2. roots \in Seq(S) /\ Len(roots) = target - gen
    BY <1>1
<1>3. \A i \in 1..Len(roots) : roots[i] = ch[gen + 1 + i]
    BY <1>1, <1>2
<1>4. gen + 1 + Len(roots) <= Len(ch)
    BY <1>1, <1>2
<1> HIDE DEF roots
<1>5. Sequence(roots)
    BY <1>2 DEF Sequence
<1>6. QED
    BY <1>3, <1>4, <1>5 DEF roots

LEMMA NextRoots ==
    ASSUME NEW ch, Sequence(ch), NEW gen \in Int, NEW roots, Sequence(roots), roots # <<>>,
           gen + 1 + Len(roots) <= Len(ch),
           \A i \in 1..Len(roots) : roots[i] = ch[gen + 1 + i]
    PROVE  /\ Head(roots) = ch[gen + 2]
           /\ gen + 1 < Len(ch)
           /\ Sequence(Tail(roots))
           /\ (gen + 1) + 1 + Len(Tail(roots)) <= Len(ch)
           /\ \A i \in 1..Len(Tail(roots)) : Tail(roots)[i] = ch[(gen + 1) + 1 + i]
<1>1. PICK S : roots \in Seq(S)
    BY DEF Sequence
<1>2. Len(ch) \in Nat
    BY SequenceLen
<1>3. Tail(roots) \in Seq(S) /\ Len(Tail(roots)) = Len(roots) - 1 /\ Len(roots) \in Nat /\ Len(roots) > 0
      /\ Head(roots) = roots[1]
    BY <1>1
<1>4. \A i \in 1..Len(Tail(roots)) : Tail(roots)[i] = roots[i + 1] /\ i + 1 \in 1..Len(roots)
    BY <1>1, <1>3
<1>5. Head(roots) = ch[gen + 2]
  <2>1. 1 \in 1..Len(roots) /\ gen + 1 + 1 = gen + 2
      BY <1>3
  <2>2. QED
      BY <1>3, <2>1
<1>6. \A i \in 1..Len(Tail(roots)) : Tail(roots)[i] = ch[(gen + 1) + 1 + i]
  <2>1. TAKE i \in 1..Len(Tail(roots))
  <2>2. gen + 1 + (i + 1) = (gen + 1) + 1 + i
      BY <1>3
  <2>3. QED
      BY <1>4, <2>2
<1>7. Sequence(Tail(roots))
    BY <1>3 DEF Sequence
<1>8. QED
    BY <1>2, <1>3, <1>5, <1>6, <1>7

--------------------------------------------------------------------------------
(* The chain grows.                                                        *)

Extends(ch, longer) ==
    /\ Len(ch) \in Nat /\ Len(longer) \in Nat /\ Len(ch) <= Len(longer)
    /\ \A i \in 1..Len(ch) : longer[i] = ch[i]

LEMMA FollowsOn ==
    ASSUME NEW s, NEW last \in Int, NEW ch, NEW longer, Extends(ch, longer), Follows(s, last, ch)
    PROVE  Follows(s, last, longer)
<1>1. \A g \in 0..last : g + 1 \in 1..Len(ch)
    BY DEF Extends, Follows
<1>2. QED
    BY <1>1 DEF Extends, Follows

LEMMA HostFollowsOn ==
    ASSUME NEW over, NEW d, NEW t, NEW l, NEW r, NEW m, NEW ch, NEW longer,
           Extends(ch, longer), HostOK(over, d, t, l, r, m, ch)
    PROVE  HostOK(over, d, t, l, r, m, longer)
<1>1. SUFFICES ASSUME ~over
               PROVE  /\ StoreFollows(d, longer)
                      /\ IF r.pc = "changing" THEN BatchFollows(t, r.base, longer)
                         ELSE StoreFollows(t, longer)
                      /\ FetchOK(m, longer)
    BY DEF HostOK
<1>2. StoreFollows(d, longer)
    BY <1>1, FollowsOn DEF HostOK, StoreFollows, Contiguous
<1>3. IF r.pc = "changing" THEN BatchFollows(t, r.base, longer) ELSE StoreFollows(t, longer)
    BY <1>1, FollowsOn DEF HostOK, StoreFollows, BatchFollows, Contiguous
<1>4. FetchOK(m, longer)
  <2>1. FetchOK(m, ch)
      BY <1>1 DEF HostOK
  <2>2. m.pc \in Fetching => m.target \in Nat /\ m.target > 0 /\ m.target < Len(longer)
      BY <2>1 DEF FetchOK, Extends
  <2>3. ASSUME m.pc \in Downloading
        PROVE  /\ m.gen + 1 + Len(m.roots) <= Len(longer)
               /\ \A i \in 1..Len(m.roots) : m.roots[i] = longer[m.gen + 1 + i]
    <3>1. /\ m.gen \in Int /\ m.gen >= -1 /\ Sequence(m.roots)
          /\ m.gen + 1 + Len(m.roots) <= Len(ch)
          /\ \A i \in 1..Len(m.roots) : m.roots[i] = ch[m.gen + 1 + i]
        BY <2>1, <2>3 DEF FetchOK
    <3>2. Len(m.roots) \in Nat
        BY <3>1, SequenceLen
    <3>3. \A i \in 1..Len(m.roots) : m.gen + 1 + i \in 1..Len(ch)
        BY <3>1, <3>2 DEF Extends
    <3>4. QED
        BY <3>1, <3>2, <3>3, SMTT(30) DEF Extends
  <2>4. QED
      BY <2>1, <2>2, <2>3 DEF FetchOK
<1>5. QED
    BY <1>2, <1>3, <1>4

--------------------------------------------------------------------------------
(* Steps of one host.                                                      *)

At(f, g, h, v) == g = [f EXCEPT ![h] = v]

LEMMA Kept ==
    ASSUME FunctionsOK, NEW h \in Hosts
    PROVE  /\ At(db, db, h, db[h]) /\ At(txn, txn, h, txn[h]) /\ At(locks, locks, h, locks[h])
           /\ At(rpc, rpc, h, rpc[h]) /\ At(mgr, mgr, h, mgr[h])
BY DEF FunctionsOK, At

MarksOK(mk, h) ==
    /\ mk = [f \in {"raced", "torn", "partial", "dropped", "misplaced"} |-> mk[f]]
    /\ mk.raced = marks.raced \/ mk.raced = marks.raced \cup {h}

LEMMA MarksKept ==
    ASSUME FunctionsOK, NEW h
    PROVE  MarksOK(marks, h)
BY DEF FunctionsOK, MarksOK

LEMMA HostStep ==
    ASSUME Inv, NEW h \in Hosts, NEW d, NEW t, NEW l, NEW r, NEW m,
           chain' = chain, ChainOK(chain, spends'),
           At(db, db', h, d), At(txn, txn', h, t), At(locks, locks', h, l),
           At(rpc, rpc', h, r), At(mgr, mgr', h, m), MarksOK(marks', h),
           HostOK(h \in marks'.raced, d, t, l, r, m, chain)
    PROVE  Inv'
<1>1. FunctionsOK'
    BY DEF Inv, FunctionsOK, At, MarksOK
<1>2. ASSUME NEW k \in Hosts
      PROVE  HostOK(k \in marks'.raced, db'[k], txn'[k], locks'[k], rpc'[k], mgr'[k], chain)
  <2>1. CASE k = h
    <3>1. db'[h] = d /\ txn'[h] = t /\ locks'[h] = l /\ rpc'[h] = r /\ mgr'[h] = m
        BY DEF Inv, FunctionsOK, At
    <3>2. QED
        BY <2>1, <3>1
  <2>2. CASE k # h
    <3>1. db'[k] = db[k] /\ txn'[k] = txn[k] /\ locks'[k] = locks[k] /\ rpc'[k] = rpc[k] /\ mgr'[k] = mgr[k]
        BY <2>2 DEF Inv, FunctionsOK, At
    <3>2. k \in marks'.raced <=> k \in marks.raced
        BY <2>2 DEF MarksOK
    <3>3. HostOK(k \in marks.raced, db[k], txn[k], locks[k], rpc[k], mgr[k], chain)
        BY DEF Inv, HostsOK
    <3>4. QED
        BY <3>1, <3>2, <3>3 DEF HostOK
  <2>3. QED
      BY <2>1, <2>2
<1>3. HostsOK'
    BY <1>2 DEF HostsOK
<1>4. ChainOK(chain', spends')
    BY DEF Inv
<1>5. QED
    BY <1>1, <1>3, <1>4 DEF Inv

(* What is known of the host that moves.                                   *)
LEMMA Host ==
    ASSUME Inv, NEW h \in Hosts
    PROVE  HostOK(h \in marks.raced, db[h], txn[h], locks[h], rpc[h], mgr[h], chain)
BY DEF Inv, HostsOK

(* Outside a transaction both copies of the tables follow the chain.       *)
LEMMA OutsideOK ==
    ASSUME NEW over, NEW d, NEW t, NEW l, NEW r, NEW m, NEW ch,
           r = [f \in RpcFields |-> r[f]], m = [f \in MgrFields |-> m[f]],
           l = [x \in {"db", "dl"} |-> l[x]], r.pc \notin InTransaction,
           ~over => StoreFollows(d, ch) /\ StoreFollows(t, ch) /\ FetchOK(m, ch)
    PROVE  HostOK(over, d, t, l, r, m, ch)
BY DEF HostOK, LockOK, InTransaction

LEMMA FreeOutside ==
    ASSUME NEW over, NEW d, NEW t, NEW l, NEW r, NEW m, NEW ch, HostOK(over, d, t, l, r, m, ch),
           l.db = "free"
    PROVE  r.pc \notin InTransaction /\ r.pc # "changing"
BY DEF HostOK, LockOK, InTransaction

(* The manager moves on.                                                   *)
LEMMA MgrOK ==
    ASSUME NEW over, NEW d, NEW t, NEW l, NEW r, NEW m, NEW n, NEW ch,
           HostOK(over, d, t, l, r, m, ch),
           n = [f \in MgrFields |-> n[f]], ~over => FetchOK(n, ch)
    PROVE  HostOK(over, d, t, l, r, n, ch)
BY DEF HostOK

LEMMA Fields ==
    /\ Idle = [f \in RpcFields |-> Idle[f]] /\ Idle.pc = "idle"
    /\ Asleep = [f \in MgrFields |-> Asleep[f]] /\ Asleep.pc = "sleep"
    /\ [db |-> "free", dl |-> "free"] = [x \in {"db", "dl"} |-> [db |-> "free", dl |-> "free"][x]]
<1>1. Idle = [f \in RpcFields |-> Idle[f]]
    BY DEF Idle, RpcFields
<1>2. Idle.pc = "idle"
    BY DEF Idle
<1>3. Asleep = [f \in MgrFields |-> Asleep[f]]
    BY DEF Asleep, MgrFields
<1>4. Asleep.pc = "sleep"
    BY DEF Asleep
<1>5. [db |-> "free", dl |-> "free"] = [x \in {"db", "dl"} |-> [db |-> "free", dl |-> "free"][x]]
    OBVIOUS
<1>6. QED
    BY <1>1, <1>2, <1>3, <1>4, <1>5

Released(l, task) == [x \in {"db", "dl"} |-> IF l[x] = task THEN "free" ELSE l[x]]

LEMMA UnlockIs ==
    ASSUME NEW h, NEW task, Unlock(h, task)
    PROVE  At(locks, locks', h, Released(locks[h], task))
BY DEF Unlock, At, Released

LEMMA LockIs ==
    ASSUME NEW h, NEW lock, NEW task, Lock(h, lock, task)
    PROVE  At(locks, locks', h, [locks[h] EXCEPT ![lock] = task])
BY DEF Lock, At

LEMMA RaiseStep ==
    ASSUME Inv, NEW h \in Hosts, Raise(h),
           UNCHANGED <<chain, mgr, marks>>, ChainOK(chain, spends')
    PROVE  Inv'
<1>1. FunctionsOK /\ MarksOK(marks', h)
    BY MarksKept DEF Inv
<1>2. /\ At(db, db', h, db[h]) /\ At(txn, txn', h, db[h]) /\ At(rpc, rpc', h, Idle)
      /\ At(locks, locks', h, Released(locks[h], "rpc")) /\ At(mgr, mgr', h, mgr[h])
    BY <1>1, Kept, UnlockIs DEF Raise, At, Rpc
<1>3. HostOK(h \in marks.raced, db[h], txn[h], locks[h], rpc[h], mgr[h], chain)
    BY Host
<1>4. HostOK(h \in marks'.raced, db[h], db[h], Released(locks[h], "rpc"), Idle, mgr[h], chain)
    BY <1>3, Fields DEF HostOK, LockOK, InTransaction, Released
<1>5. QED
    BY <1>1, <1>2, <1>4, HostStep

--------------------------------------------------------------------------------
(* Requests.                                                               *)

LEMMA RequestSteps ==
    ASSUME Inv, NEW h \in Hosts, Request(h)
    PROVE  Inv'
<1> USE DEF Rpc
<1>0. FunctionsOK /\ MarksOK(marks, h) /\ ChainOK(chain, spends)
    BY MarksKept DEF Inv
<1>1. HostOK(h \in marks.raced, db[h], txn[h], locks[h], rpc[h], mgr[h], chain)
    BY Host
<1>2. locks[h] = [x \in {"db", "dl"} |-> locks[h][x]]
    BY <1>1 DEF HostOK, LockOK
<1>3. ASSUME NEW kind, Arrive(h, kind)
      PROVE  Inv'
    BY <1>3 DEF Arrive, Inv, ChainOK, FunctionsOK, HostsOK
<1>5. CASE CancelOffer(h)
  <2> DEFINE s == ClearPendingRoots(db[h])
  <2>1. /\ At(db, db', h, s) /\ At(txn, txn', h, s) /\ At(locks, locks', h, locks[h])
        /\ At(rpc, rpc', h, rpc[h]) /\ At(mgr, mgr', h, mgr[h]) /\ chain' = chain /\ spends' = spends
      BY <1>0, <1>5, Kept DEF CancelOffer, At, Transaction
  <2>2. MarksOK(marks', h) /\ marks'.raced = marks.raced
    <3> DEFINE gone == {db[h].root[g].hash : g \in PendingRoots(db[h])}
    <3>1. marks' = [marks EXCEPT !.dropped = @ \cup gone]
        BY <1>5 DEF CancelOffer
    <3> HIDE DEF gone
    <3>2. QED
        BY <1>0, <3>1 DEF MarksOK
  <2>3. rpc[h].pc \notin InTransaction /\ rpc[h].pc # "changing"
      BY <1>1, <1>5, FreeOutside DEF CancelOffer, Free
  <2>4. h \notin marks.raced => StoreFollows(s, chain)
      BY <1>1, ClearFollows DEF HostOK
  <2> HIDE DEF s
  <2>5. HostOK(h \in marks'.raced, s, s, locks[h], rpc[h], mgr[h], chain)
      BY <1>1, <2>2, <2>3, <2>4 DEF HostOK, LockOK
  <2>6. QED
      BY <1>0, <2>1, <2>2, <2>5, HostStep
<1>6. CASE CancelOfferSecurely(h)
  <2> DEFINE new == [roots |-> <<RootAt(Latest)>>, recorded |-> TRUE]
  <2>1. /\ At(db, db', h, db[h]) /\ At(txn, txn', h, txn[h]) /\ At(locks, locks', h, locks[h])
        /\ At(rpc, rpc', h, rpc[h]) /\ At(mgr, mgr', h, mgr[h]) /\ marks' = marks /\ chain' = chain
        /\ spends' = spends \cup {new} /\ Spendable
      BY <1>0, <1>6, Kept DEF CancelOfferSecurely
  <2>2. ChainOK(chain, spends')
    <3>1. chain # <<>>
      <4>1. Launcher.recorded
          BY DEF Launcher
      <4>2. QED
          BY <1>0, <2>1, <4>1 DEF ChainOK, Spendable
    <3>2. Sequence(new.roots)
      <4>1. new.roots \in Seq({RootAt(Latest)})
          OBVIOUS
      <4> HIDE DEF new
      <4>2. QED
          BY <4>1 DEF Sequence
    <3> HIDE DEF new
    <3>3. QED
        BY <1>0, <2>1, <3>1, <3>2 DEF ChainOK
  <2>3. QED
      BY <1>0, <1>1, <2>1, <2>2, HostStep
<1>7. QED
    BY <1>3, <1>5, <1>6 DEF Request

LEMMA ChangeSteps ==
    ASSUME Inv, NEW h \in Hosts, Change(h)
    PROVE  Inv'
<1> USE DEF Rpc
<1>0. FunctionsOK /\ MarksOK(marks, h) /\ ChainOK(chain, spends)
    BY MarksKept DEF Inv
<1>1. HostOK(h \in marks.raced, db[h], txn[h], locks[h], rpc[h], mgr[h], chain)
    BY Host
<1>2. rpc[h] = [f \in RpcFields |-> rpc[h][f]] /\ locks[h] = [x \in {"db", "dl"} |-> locks[h][x]]
    BY <1>1 DEF HostOK, LockOK
<1>3. rpc[h].pc = "changing"
    BY DEF Change, ChangeInsert, ChangeInsertFirst, ChangeDelete, EndBatch, EndOfferChanges
<1>4. h \notin marks.raced => BatchFollows(txn[h], rpc[h].base, chain)
    BY <1>1, <1>3 DEF HostOK
(* A change of a key.                                                      *)
<1>5. ASSUME NEW t, NEW hint, NEW left, At(txn, txn', h, t), chain' = chain, spends' = spends,
             At(rpc, rpc', h, [rpc[h] EXCEPT !.hint = hint, !.left = left]),
             UNCHANGED <<db, locks, mgr>>, MarksOK(marks', h), marks'.raced = marks.raced,
             h \notin marks.raced => BatchFollows(t, rpc[h].base, chain)
      PROVE  Inv'
  <2> DEFINE r == [rpc[h] EXCEPT !.hint = hint, !.left = left]
  <2>1. r = [f \in RpcFields |-> r[f]] /\ r.pc = rpc[h].pc /\ r.base = rpc[h].base
      BY <1>2 DEF RpcFields
  <2>2. At(db, db', h, db[h]) /\ At(locks, locks', h, locks[h]) /\ At(mgr, mgr', h, mgr[h])
      BY <1>0, <1>5, Kept
  <2>3. At(rpc, rpc', h, r)
      BY <1>5
  <2> HIDE DEF r
  <2>4. HostOK(h \in marks'.raced, db[h], t, locks[h], r, mgr[h], chain)
      BY <1>1, <1>3, <1>5, <2>1 DEF HostOK, LockOK
  <2>5. QED
      BY <1>0, <1>5, <2>2, <2>3, <2>4, HostStep
<1>6. ASSUME NEW leaf, NEW reference, NEW side, ChangeInsert(h, leaf, reference, side)
      PROVE  Inv'
  <2> DEFINE t == Insert(txn[h], leaf, reference, side)
             misplaced == marks.misplaced \/ reference \notin Tree(TreeRoot(txn[h]))
  <2>1. /\ At(txn, txn', h, t) /\ chain' = chain /\ spends' = spends /\ UNCHANGED <<db, locks, mgr>>
        /\ At(rpc, rpc', h, [rpc[h] EXCEPT !.hint = rpc[h].hint \cup {leaf}, !.left = rpc[h].left - 1])
      BY <1>6 DEF ChangeInsert, At
  <2>2. MarksOK(marks', h) /\ marks'.raced = marks.raced
    <3>1. marks' = [marks EXCEPT !.misplaced = misplaced]
        BY <1>6 DEF ChangeInsert
    <3> HIDE DEF misplaced
    <3>2. QED
        BY <1>0, <3>1 DEF MarksOK
  <2>3. h \notin marks.raced => BatchFollows(t, rpc[h].base, chain)
      BY <1>4, ChangesFollow
  <2> HIDE DEF t
  <2>4. QED
      BY <1>5, <2>1, <2>2, <2>3
<1>7. ASSUME NEW leaf, ChangeInsertFirst(h, leaf)
      PROVE  Inv'
  <2> DEFINE t == InsertFirst(txn[h], leaf)
             hint == {n \in rpc[h].hint : Key[n] # Key[leaf]} \cup {leaf}
  <2>1. /\ At(txn, txn', h, t) /\ chain' = chain /\ spends' = spends /\ UNCHANGED <<db, locks, mgr>>
        /\ At(rpc, rpc', h, [rpc[h] EXCEPT !.hint = hint, !.left = rpc[h].left - 1]) /\ marks' = marks
      BY <1>7 DEF ChangeInsertFirst, At
  <2>2. h \notin marks.raced => BatchFollows(t, rpc[h].base, chain)
      BY <1>4, ChangesFollow
  <2> HIDE DEF t, hint
  <2>3. QED
      BY <1>0, <1>5, <2>1, <2>2
<1>8. ASSUME NEW leaf, ChangeDelete(h, leaf)
      PROVE  Inv'
  <2> DEFINE t == Delete(txn[h], leaf)
  <2>1. /\ At(txn, txn', h, t) /\ chain' = chain /\ spends' = spends /\ UNCHANGED <<db, locks, mgr>>
        /\ At(rpc, rpc', h, [rpc[h] EXCEPT !.hint = rpc[h].hint \ {leaf}, !.left = rpc[h].left - 1])
        /\ marks' = marks
      BY <1>8 DEF ChangeDelete, At
  <2>2. h \notin marks.raced => BatchFollows(t, rpc[h].base, chain)
      BY <1>4, ChangesFollow
  <2> HIDE DEF t
  <2>3. QED
      BY <1>0, <1>5, <2>1, <2>2
(* The end of a batch.                                                     *)
<1>9. h \notin marks.raced => StoreFollows(BatchResult(h), chain)
    BY <1>4, BatchEnds DEF BatchResult
<1>10. CASE EndBatch(h)
  <2> DEFINE s == BatchResult(h)
             l == Released(locks[h], "rpc")
  <2>1. /\ At(db, db', h, s) /\ At(txn, txn', h, s) /\ At(rpc, rpc', h, Idle)
        /\ At(mgr, mgr', h, mgr[h]) /\ marks' = marks /\ chain' = chain /\ spends' = spends
      BY <1>0, <1>10, Kept DEF EndBatch, At, Transaction
  <2>2. At(locks, locks', h, l)
      BY <1>10, UnlockIs DEF EndBatch
  <2>3. Idle = [f \in RpcFields |-> Idle[f]] /\ Idle.pc \notin InTransaction
      BY Fields DEF InTransaction
  <2>4. l = [x \in {"db", "dl"} |-> l[x]]
      BY DEF Released
  <2> HIDE DEF s, l
  <2>5. h \notin marks.raced => StoreFollows(s, chain)
      BY <1>9 DEF s
  <2>6. HostOK(h \in marks.raced, s, s, l, Idle, mgr[h], chain)
    <3>1. mgr[h] = [f \in MgrFields |-> mgr[h][f]] /\ (h \notin marks.raced => FetchOK(mgr[h], chain))
        BY <1>1 DEF HostOK
    <3>2. QED
        BY <2>3, <2>4, <2>5, <3>1, OutsideOK
  <2>7. QED
      BY <1>0, <2>1, <2>2, <2>6, HostStep
<1>11. CASE EndOfferChanges(h)
  <2>1. PICK t, root : /\ At(txn, txn', h, t)
                       /\ At(rpc, rpc', h, [rpc[h] EXCEPT !.pc = "prove", !.root = root])
                       /\ t = BatchResult(h) \/ (t = txn[h] /\ TreeGeneration(txn[h]) = rpc[h].base)
      BY <1>0, <1>11, Kept, ZenonT(40) DEF EndOfferChanges, At
  <2> DEFINE r == [rpc[h] EXCEPT !.pc = "prove", !.root = root]
  <2>2. r = [f \in RpcFields |-> r[f]] /\ r.pc = "prove"
      BY <1>2 DEF RpcFields
  <2>3. /\ At(db, db', h, db[h]) /\ At(locks, locks', h, locks[h])
        /\ At(mgr, mgr', h, mgr[h]) /\ marks' = marks /\ chain' = chain /\ spends' = spends
      BY <1>0, <1>11, Kept DEF EndOfferChanges
  <2>4. h \notin marks.raced => StoreFollows(t, chain)
      BY <1>4, <1>9, <2>1 DEF BatchFollows, StoreFollows
  <2>5. locks[h].db = "rpc"
      BY <1>1, <1>3 DEF HostOK, LockOK, InTransaction
  <2>6. At(rpc, rpc', h, r)
      BY <2>1
  <2> HIDE DEF r
  <2>7. HostOK(h \in marks.raced, db[h], t, locks[h], r, mgr[h], chain)
      BY <1>1, <2>2, <2>4, <2>5 DEF HostOK, LockOK
  <2>8. QED
      BY <1>0, <2>1, <2>3, <2>6, <2>7, HostStep
<1>12. QED
    BY <1>6, <1>7, <1>8, <1>10, <1>11 DEF Change

LEMMA ServeSteps ==
    ASSUME Inv, NEW h \in Hosts, NEW c, Serve(h, c)
    PROVE  Inv'
<1> USE DEF Rpc
<1>0. FunctionsOK /\ MarksOK(marks, h) /\ ChainOK(chain, spends)
    BY MarksKept DEF Inv
<1>1. HostOK(h \in marks.raced, db[h], txn[h], locks[h], rpc[h], mgr[h], chain)
    BY Host
<1>2. /\ rpc[h] = [f \in RpcFields |-> rpc[h][f]] /\ locks[h] = [x \in {"db", "dl"} |-> locks[h][x]]
      /\ mgr[h] = [f \in MgrFields |-> mgr[h][f]]
      /\ h \notin marks.raced => StoreFollows(db[h], chain) /\ FetchOK(mgr[h], chain)
      /\ h \notin marks.raced /\ rpc[h].pc # "changing" => StoreFollows(txn[h], chain)
    BY <1>1 DEF HostOK, LockOK
<1>3. Released(locks[h], "rpc") = [x \in {"db", "dl"} |-> Released(locks[h], "rpc")[x]]
    BY DEF Released
(* A transaction ends, and the request goes on outside it.                 *)
<1>4. ASSUME NEW s, NEW r, At(db, db', h, s), At(txn, txn', h, s), Unlock(h, "rpc"),
             At(rpc, rpc', h, r), r = [f \in RpcFields |-> r[f]], r.pc \notin InTransaction,
             UNCHANGED <<chain, mgr, marks>>, ChainOK(chain, spends'),
             h \notin marks.raced => StoreFollows(s, chain)
      PROVE  Inv'
  <2> DEFINE l == Released(locks[h], "rpc")
  <2>1. At(locks, locks', h, l)
      BY <1>4, UnlockIs
  <2>2. At(mgr, mgr', h, mgr[h])
      BY <1>0, <1>4, Kept
  <2>3. HostOK(h \in marks.raced, s, s, l, r, mgr[h], chain)
      BY <1>2, <1>3, <1>4, OutsideOK
  <2> HIDE DEF l
  <2>4. marks' = marks /\ chain' = chain
      BY <1>4
  <2>5. QED
      BY <1>0, <1>4, <2>1, <2>2, <2>3, <2>4, HostStep
<1>5. Idle = [f \in RpcFields |-> Idle[f]] /\ Idle.pc \notin InTransaction
    BY Fields DEF InTransaction
<1>6. ASSUME NEW root
      PROVE  Sequence(<<root>>) /\ Sequence(<<root, root>>)
  <2>1. <<root>> \in Seq({root}) /\ <<root, root>> \in Seq({root})
      OBVIOUS
  <2>2. QED
      BY <2>1 DEF Sequence
<1>7. ASSUME NEW roots, Sequence(roots), NEW recorded, Spendable
      PROVE  ChainOK(chain, spends \cup {[roots |-> roots, recorded |-> recorded]})
  <2> DEFINE new == [roots |-> roots, recorded |-> recorded]
  <2>1. new.roots = roots
      OBVIOUS
  <2>2. Launcher.recorded
      BY DEF Launcher
  <2>3. chain # <<>>
      BY <1>0, <1>7, <2>2 DEF ChainOK, Spendable
  <2> HIDE DEF new
  <2>4. ChainOK(chain, spends \cup {new})
      BY <1>0, <1>7, <2>1, <2>3 DEF ChainOK
  <2>5. QED
      BY <2>4 DEF new
<1>8. CASE ConfirmInTransaction(h)
  <2>0. /\ rpc[h].pc = "want_dl" /\ locks[h].db = "rpc"
        /\ UNCHANGED <<chain, spends, mgr, marks>> /\ ChainOK(chain, spends')
      BY <1>0, <1>1, <1>8 DEF ConfirmInTransaction, HostOK, LockOK, InTransaction
  <2>1. CASE Raise(h)
      BY <2>0, <2>1, RaiseStep
  <2>2. ASSUME NEW s \in UpdateConfirmationStatus(txn[h]),
               Transaction(h, s), Unlock(h, "rpc"), Rpc(h, Idle)
        PROVE  Inv'
    <3>1. h \notin marks.raced => StoreFollows(s, chain)
        BY <1>0, <1>2, <2>0, <2>2, ConfirmFollows
    <3>2. At(db, db', h, s) /\ At(txn, txn', h, s) /\ At(rpc, rpc', h, Idle)
        BY <2>2 DEF Transaction, At
    <3>3. QED
        BY <1>4, <1>5, <2>0, <2>2, <3>1, <3>2
  <2>3. ASSUME NEW s \in UpdateConfirmationStatus(txn[h]), TreeIdExists(s),
               At(txn, txn', h, s), UNCHANGED <<db, locks>>,
               NEW r, At(rpc, rpc', h, r),
               r = rpc[h] \/ \E hint, left : r = [rpc[h] EXCEPT !.pc = "changing", !.hint = hint,
                                                     !.base = TreeGeneration(s), !.left = left]
        PROVE  Inv'
    <3>1. h \notin marks.raced => StoreFollows(s, chain)
        BY <1>0, <1>2, <2>0, <2>3, ConfirmFollows
    <3>2. At(db, db', h, db[h]) /\ At(locks, locks', h, locks[h]) /\ At(mgr, mgr', h, mgr[h])
        BY <1>0, <2>0, <2>3, Kept
    <3>3. HostOK(h \in marks.raced, db[h], s, locks[h], r, mgr[h], chain)
      <4>1. CASE r = rpc[h]
          BY <1>1, <2>0, <3>1, <4>1 DEF HostOK
      <4>2. CASE r # rpc[h]
        <5>1. PICK hint, left : r = [rpc[h] EXCEPT !.pc = "changing", !.hint = hint,
                                                   !.base = TreeGeneration(s), !.left = left]
            BY <2>3, <4>2
        <5>2. r = [f \in RpcFields |-> r[f]] /\ r.pc = "changing" /\ r.base = TreeGeneration(s)
            BY <1>2, <5>1 DEF RpcFields
        <5>3. h \notin marks.raced => BatchFollows(s, TreeGeneration(s), chain)
          <6>1. TreeIdExists(s)
              BY <2>3
          <6>2. QED
              BY <3>1, <6>1 DEF StoreFollows, BatchFollows, Contiguous, TreeIdExists
        <5>4. QED
            BY <1>1, <2>0, <5>2, <5>3 DEF HostOK, LockOK
      <4>3. QED
          BY <4>1, <4>2
    <3>4. marks' = marks /\ chain' = chain
        BY <2>0
    <3>5. QED
        BY <1>0, <2>0, <2>3, <3>2, <3>3, <3>4, HostStep
  <2>4. CASE UpdateConfirmationStatus(txn[h]) = {}
      BY <1>8, <2>1, <2>4 DEF ConfirmInTransaction
  <2>5. CASE ~Raise(h)
    <3>1. PICK s \in UpdateConfirmationStatus(txn[h]) :
             \/ /\ TreeIdExists(s)
                /\ txn' = [txn EXCEPT ![h] = s]
                /\ \/ UNCHANGED rpc
                   \/ Rpc(h, [rpc[h] EXCEPT !.pc = "changing", !.hint = KeysValues(TreeRoot(s)),
                                            !.base = TreeGeneration(s),
                                            !.left = IF PendingRoots(s) = {} THEN MaxChanges ELSE 0])
                /\ UNCHANGED <<db, locks>>
             \/ /\ Transaction(h, s)
                /\ Unlock(h, "rpc")
                /\ Rpc(h, Idle)
        BY <1>8, <2>5 DEF ConfirmInTransaction
    <3>2. CASE Transaction(h, s) /\ Unlock(h, "rpc") /\ Rpc(h, Idle)
        BY <2>2, <3>2
    <3>3. CASE TreeIdExists(s) /\ txn' = [txn EXCEPT ![h] = s] /\ UNCHANGED rpc /\ UNCHANGED <<db, locks>>
      <4>1. At(txn, txn', h, s) /\ At(rpc, rpc', h, rpc[h])
          BY <1>0, <3>3, Kept DEF At
      <4>2. QED
          BY <2>3, <3>3, <4>1
    <3>4. ASSUME TreeIdExists(s), txn' = [txn EXCEPT ![h] = s], UNCHANGED <<db, locks>>,
                 NEW hint, NEW left,
                 Rpc(h, [rpc[h] EXCEPT !.pc = "changing", !.hint = hint, !.base = TreeGeneration(s),
                                       !.left = left])
          PROVE  Inv'
      <4> DEFINE r == [rpc[h] EXCEPT !.pc = "changing", !.hint = hint, !.base = TreeGeneration(s),
                                     !.left = left]
      <4>1. At(txn, txn', h, s) /\ At(rpc, rpc', h, r)
          BY <3>4 DEF At
      <4>2. \E i, j : r = [rpc[h] EXCEPT !.pc = "changing", !.hint = i, !.base = TreeGeneration(s),
                                         !.left = j]
          OBVIOUS
      <4> HIDE DEF r
      <4>3. QED
          BY <2>3, <3>4, <4>1, <4>2
    <3>5. QED
        BY <3>1, <3>2, <3>3, <3>4
  <2>6. QED
      BY <2>1, <2>5
<1>9. CASE ChangeRaises(h)
    BY <1>0, <1>9, RaiseStep DEF ChangeRaises
<1>10. CASE ProveOffer(h)
  <2>0. rpc[h].pc = "prove" /\ UNCHANGED <<chain, mgr, marks>>
      BY <1>10 DEF ProveOffer
  <2>1. CASE Raise(h) /\ UNCHANGED spends
    <3>1. ChainOK(chain, spends')
        BY <1>0, <2>1
    <3>2. QED
        BY <2>0, <2>1, <3>1, RaiseStep
  <2>2. CASE ~(Raise(h) /\ UNCHANGED spends)
    <3> DEFINE new == [roots |-> <<rpc[h].root, rpc[h].root>>, recorded |-> FALSE]
    <3>1. PICK s \in UpdateConfirmationStatus(txn[h]) :
             /\ Transaction(h, s)
             /\ Unlock(h, "rpc")
             /\ Rpc(h, Idle)
             /\ (Spendable /\ spends' = spends \cup {new}) \/ UNCHANGED spends
        BY <1>10, <2>2 DEF ProveOffer
    <3>2. h \notin marks.raced => StoreFollows(s, chain)
        BY <1>0, <1>2, <2>0, ConfirmFollows
    <3>3. At(db, db', h, s) /\ At(txn, txn', h, s) /\ At(rpc, rpc', h, Idle)
        BY <3>1 DEF Transaction, At
    <3>4. ChainOK(chain, spends')
      <4>1. Spendable => ChainOK(chain, spends \cup {new})
          BY <1>6, <1>7
      <4> HIDE DEF new
      <4>2. QED
          BY <1>0, <3>1, <4>1
    <3>5. QED
        BY <1>4, <1>5, <2>0, <3>1, <3>2, <3>3, <3>4
  <2>3. QED
      BY <2>1, <2>2
<1>11. CASE BeginTransaction(h, c)
  <2> DEFINE l == [locks[h] EXCEPT !["db"] = "rpc"]
             r == [Idle EXCEPT !.pc = "want_dl", !.kind = calls[h][c].kind]
  <2>1. /\ At(db, db', h, db[h]) /\ At(txn, txn', h, txn[h]) /\ At(locks, locks', h, l)
        /\ At(rpc, rpc', h, r) /\ At(mgr, mgr', h, mgr[h]) /\ marks' = marks /\ chain' = chain /\ spends' = spends
      BY <1>0, <1>11, Kept, LockIs DEF BeginTransaction, At
  <2>2. r = [f \in RpcFields |-> r[f]] /\ r.pc = "want_dl"
      BY Fields DEF RpcFields
  <2>3. l = [x \in {"db", "dl"} |-> l[x]] /\ l.db = "rpc"
      BY <1>2
  <2>4. rpc[h].pc # "changing"
      BY <1>1, <1>11, FreeOutside DEF BeginTransaction, Free
  <2> HIDE DEF l, r
  <2>5. HostOK(h \in marks.raced, db[h], txn[h], l, r, mgr[h], chain)
      BY <1>1, <2>2, <2>3, <2>4 DEF HostOK, LockOK
  <2>6. QED
      BY <1>0, <2>1, <2>5, HostStep
<1>12. CASE TakeLock(h, c)
  <2> DEFINE l == [locks[h] EXCEPT !["dl"] = "call"]
  <2>1. /\ At(db, db', h, db[h]) /\ At(txn, txn', h, txn[h]) /\ At(locks, locks', h, l)
        /\ At(rpc, rpc', h, rpc[h]) /\ At(mgr, mgr', h, mgr[h]) /\ marks' = marks /\ chain' = chain /\ spends' = spends
      BY <1>0, <1>12, Kept, LockIs DEF TakeLock
  <2>2. l = [x \in {"db", "dl"} |-> l[x]] /\ l.db = locks[h].db
      BY <1>2
  <2> HIDE DEF l
  <2>3. HostOK(h \in marks.raced, db[h], txn[h], l, rpc[h], mgr[h], chain)
      BY <1>1, <2>2 DEF HostOK, LockOK
  <2>4. QED
      BY <1>0, <2>1, <2>3, HostStep
<1>13. CASE ConfirmUnderLock(h, c)
  <2> DEFINE l == Released(locks[h], "call")
  <2>1. /\ At(locks, locks', h, l) /\ At(rpc, rpc', h, rpc[h]) /\ At(mgr, mgr', h, mgr[h])
        /\ marks' = marks /\ chain' = chain /\ spends' = spends
      BY <1>0, <1>13, Kept, UnlockIs DEF ConfirmUnderLock
  <2>2. rpc[h].pc \notin InTransaction /\ rpc[h].pc # "changing"
      BY <1>1, <1>13, FreeOutside DEF ConfirmUnderLock, Free
  <2>3. l = [x \in {"db", "dl"} |-> l[x]]
      BY DEF Released
  <2>4. PICK s, t : /\ At(db, db', h, s) /\ At(txn, txn', h, t)
                    /\ h \notin marks.raced => StoreFollows(s, chain) /\ StoreFollows(t, chain)
    <3>1. CASE UNCHANGED <<db, txn>>
        BY <1>0, <1>2, <2>2, <3>1, Kept
    <3>2. CASE ~UNCHANGED <<db, txn>>
      <4>1. PICK s \in UpdateConfirmationStatus(db[h]) : Transaction(h, s)
          BY <1>13, <3>2 DEF ConfirmUnderLock
      <4>2. At(db, db', h, s) /\ At(txn, txn', h, s)
          BY <4>1 DEF Transaction, At
      <4>3. h \notin marks.raced => StoreFollows(s, chain)
          BY <1>0, <1>2, <4>1, ConfirmFollows
      <4>4. QED
          BY <4>2, <4>3
    <3>3. QED
        BY <3>1, <3>2
  <2> HIDE DEF l
  <2>5. HostOK(h \in marks.raced, s, t, l, rpc[h], mgr[h], chain)
      BY <1>2, <2>2, <2>3, <2>4, OutsideOK
  <2>6. QED
      BY <1>0, <2>1, <2>4, <2>5, HostStep
(* The request goes on, and no host changes.                               *)
<1>14. ASSUME UNCHANGED <<chain, db, txn, locks, rpc, mgr, marks>>, ChainOK(chain, spends')
       PROVE  Inv'
    BY <1>14 DEF Inv, FunctionsOK, HostsOK
<1>15. CASE PublishRead(h, c)
    BY <1>0, <1>14, <1>15 DEF PublishRead
<1>16. CASE PublishSend(h, c)
  <2> DEFINE root == calls[h][c].root
             one == [roots |-> <<root>>, recorded |-> TRUE]
             two == [roots |-> <<root, root>>, recorded |-> FALSE]
  <2>1. /\ UNCHANGED <<chain, db, txn, locks, rpc, mgr, marks>>
        /\ \/ spends' = spends
           \/ Spendable /\ (spends' = spends \cup {one} \/ spends' = spends \cup {two})
      BY <1>16 DEF PublishSend
  <2>2. Spendable => ChainOK(chain, spends \cup {one}) /\ ChainOK(chain, spends \cup {two})
    <3> HIDE DEF root
    <3>1. QED
        BY <1>6, <1>7
  <2> HIDE DEF one, two
  <2>3. ChainOK(chain, spends')
      BY <1>0, <2>1, <2>2
  <2>4. QED
      BY <1>14, <2>1, <2>3
<1>17. QED
    BY <1>8, <1>9, <1>10, <1>11, <1>12, <1>13, <1>15, <1>16 DEF Serve

--------------------------------------------------------------------------------
(* periodically_manage_data.                                               *)

LEMMA ManageSteps ==
    ASSUME Inv, NEW h \in Hosts, Manage(h)
    PROVE  Inv'
<1> USE DEF Mgr
<1>0. FunctionsOK /\ MarksOK(marks, h) /\ ChainOK(chain, spends) /\ Sequence(chain) /\ Len(chain) \in Nat
    BY MarksKept, SequenceLen DEF Inv, ChainOK
<1>1. HostOK(h \in marks.raced, db[h], txn[h], locks[h], rpc[h], mgr[h], chain)
    BY Host
<1>2. /\ rpc[h] = [f \in RpcFields |-> rpc[h][f]] /\ locks[h] = [x \in {"db", "dl"} |-> locks[h][x]]
      /\ mgr[h] = [f \in MgrFields |-> mgr[h][f]]
      /\ h \notin marks.raced => StoreFollows(db[h], chain) /\ FetchOK(mgr[h], chain)
    BY <1>1 DEF HostOK, LockOK
<1>3. Asleep = [f \in MgrFields |-> Asleep[f]] /\ FetchOK(Asleep, chain)
    BY Fields DEF FetchOK, Fetching, Downloading
(* The manager only moves on.                                              *)
<1>4. ASSUME NEW m, At(mgr, mgr', h, m), m = [f \in MgrFields |-> m[f]],
             h \notin marks.raced => FetchOK(m, chain),
             UNCHANGED <<chain, spends, db, txn, locks, rpc, marks>>
      PROVE  Inv'
  <2>1. /\ At(db, db', h, db[h]) /\ At(txn, txn', h, txn[h]) /\ At(locks, locks', h, locks[h])
        /\ At(rpc, rpc', h, rpc[h]) /\ marks' = marks /\ chain' = chain /\ spends' = spends
      BY <1>0, <1>4, Kept
  <2>2. HostOK(h \in marks.raced, db[h], txn[h], locks[h], rpc[h], m, chain)
      BY <1>1, <1>4, MgrOK
  <2>3. QED
      BY <1>0, <1>4, <2>1, <2>2, HostStep
(* It makes a transaction while no request is inside one.                  *)
<1>5. ASSUME NEW s, NEW l, NEW m, At(db, db', h, s), At(txn, txn', h, s), At(locks, locks', h, l),
             At(mgr, mgr', h, m), Free(h, "db"), l = [x \in {"db", "dl"} |-> l[x]],
             m = [f \in MgrFields |-> m[f]], MarksOK(marks', h),
             h \notin marks'.raced => StoreFollows(s, chain) /\ FetchOK(m, chain),
             UNCHANGED <<chain, spends, rpc>>
      PROVE  Inv'
  <2>1. locks[h].db = "free"
      BY <1>5 DEF Free
  <2>2. rpc[h].pc \notin InTransaction
      BY <1>1, <2>1, FreeOutside
  <2>3. HostOK(h \in marks'.raced, s, s, l, rpc[h], m, chain)
      BY <1>2, <1>5, <2>2, OutsideOK
  <2>4. At(rpc, rpc', h, rpc[h]) /\ chain' = chain /\ spends' = spends
      BY <1>0, <1>5, Kept
  <2>5. QED
      BY <1>0, <1>5, <2>3, <2>4, HostStep
(* Where it goes on to something else than a download.                     *)
<1>6. ASSUME NEW pc, NEW m, m = [mgr[h] EXCEPT !.pc = pc]
      PROVE  /\ m = [f \in MgrFields |-> m[f]] /\ m.pc = pc
             /\ m.target = mgr[h].target /\ m.gen = mgr[h].gen /\ m.roots = mgr[h].roots
    BY <1>2, <1>6 DEF MgrFields
<1>7. ASSUME NEW m, m.pc \notin Fetching
      PROVE  FetchOK(m, chain)
    BY <1>7 DEF FetchOK, Fetching, Downloading
<1>8. CASE FetchBegin(h)
  <2> DEFINE m == [mgr[h] EXCEPT !.pc = IF Latest > 0 THEN "fetch_dl" ELSE "fetched", !.target = Latest]
  <2>1. At(mgr, mgr', h, m) /\ UNCHANGED <<chain, spends, db, txn, locks, rpc, marks>>
      BY <1>8 DEF FetchBegin, At
  <2>2. /\ m = [f \in MgrFields |-> m[f]] /\ m.target = Latest
        /\ m.pc = IF Latest > 0 THEN "fetch_dl" ELSE "fetched"
      BY <1>2 DEF MgrFields
  <2> HIDE DEF m
  <2>3. FetchOK(m, chain)
      BY <1>0, <2>2 DEF FetchOK, Fetching, Downloading, Latest
  <2>4. QED
      BY <1>4, <2>1, <2>2, <2>3
<1>9. CASE ManageLock(h)
  <2> DEFINE l == [locks[h] EXCEPT !["dl"] = "mgr"]
             pc == IF mgr[h].pc = "fetch_dl" THEN "fetch_db" ELSE "upload_db"
             m == [mgr[h] EXCEPT !.pc = pc]
  <2>1. /\ At(db, db', h, db[h]) /\ At(txn, txn', h, txn[h]) /\ At(locks, locks', h, l)
        /\ At(rpc, rpc', h, rpc[h]) /\ At(mgr, mgr', h, m) /\ marks' = marks /\ chain' = chain /\ spends' = spends
      BY <1>0, <1>9, Kept, LockIs DEF ManageLock, At
  <2>2. /\ m = [f \in MgrFields |-> m[f]] /\ m.pc = pc /\ m.target = mgr[h].target
    <3> HIDE DEF pc
    <3>1. QED
        BY <1>6
  <2>3. l = [x \in {"db", "dl"} |-> l[x]] /\ l.db = locks[h].db
      BY <1>2
  <2> HIDE DEF m, l
  <2>4. h \notin marks.raced => FetchOK(m, chain)
      BY <1>2, <2>2 DEF FetchOK, Fetching, Downloading
  <2>5. HostOK(h \in marks.raced, db[h], txn[h], l, rpc[h], m, chain)
      BY <1>1, <2>2, <2>3, <2>4 DEF HostOK, LockOK
  <2>6. QED
      BY <1>0, <2>1, <2>5, HostStep
<1>10. CASE ManageConfirm(h)
  <2> DEFINE l == Released(locks[h], "mgr")
             pc == IF mgr[h].pc = "fetch_db" THEN "create" ELSE "upload"
             m == [mgr[h] EXCEPT !.pc = pc]
  <2>1. /\ Free(h, "db") /\ At(locks, locks', h, l) /\ marks' = marks
        /\ UNCHANGED <<chain, spends, rpc>>
      BY <1>10, UnlockIs DEF ManageConfirm
  <2>2. l = [x \in {"db", "dl"} |-> l[x]]
      BY DEF Released
  <2>3. CASE \E s \in UpdateConfirmationStatus(db[h]) : Transaction(h, s) /\ Mgr(h, m)
    <3>1. PICK s \in UpdateConfirmationStatus(db[h]) : Transaction(h, s) /\ Mgr(h, m)
        BY <2>3
    <3>2. At(db, db', h, s) /\ At(txn, txn', h, s) /\ At(mgr, mgr', h, m)
        BY <3>1 DEF Transaction, At
    <3>3. m = [f \in MgrFields |-> m[f]] /\ m.pc = pc /\ m.target = mgr[h].target
      <4>1. m = [mgr[h] EXCEPT !.pc = pc]
          OBVIOUS
      <4> HIDE DEF pc, l, m
      <4>2. QED
          BY <1>6, <4>1
    <3> HIDE DEF m, l
    <3>4. h \notin marks.raced => FetchOK(m, chain)
        BY <1>2, <3>3 DEF FetchOK, Fetching, Downloading
    <3>5. h \notin marks.raced => StoreFollows(s, chain)
        BY <1>0, <1>2, ConfirmFollows
    <3>6. QED
        BY <1>0, <1>5, <2>1, <2>2, <3>2, <3>3, <3>4, <3>5
  <2>4. CASE Mgr(h, Asleep) /\ UNCHANGED <<db, txn>>
    <3>1. /\ At(db, db', h, db[h]) /\ At(txn, txn', h, txn[h]) /\ At(rpc, rpc', h, rpc[h])
          /\ At(mgr, mgr', h, Asleep)
        BY <1>0, <2>1, <2>4, Kept DEF At
    <3>2. l.db = locks[h].db
        BY <2>1 DEF Free, Released
    <3> HIDE DEF l
    <3>3. HostOK(h \in marks.raced, db[h], txn[h], l, rpc[h], Asleep, chain)
        BY <1>1, <1>3, <2>2, <3>2 DEF HostOK, LockOK
    <3>4. chain' = chain /\ spends' = spends
        BY <2>1
    <3>5. QED
        BY <1>0, <2>1, <3>1, <3>3, <3>4, HostStep
  <2>5. QED
      BY <1>10, <2>3, <2>4 DEF ManageConfirm
<1>11. CASE FetchCreate(h)
  <2> DEFINE servers == Hosts \ ({h} \cup ignored[h])
             m == [mgr[h] EXCEPT !.pc = "server", !.servers = servers]
             s == InsertRoot(db[h], Empty, "COMMITTED")
  <2>1. /\ Free(h, "db") /\ mgr[h].pc = "create" /\ marks' = marks /\ At(mgr, mgr', h, m)
        /\ UNCHANGED <<chain, spends, locks, rpc>>
      BY <1>11 DEF FetchCreate, At
  <2>2. m = [f \in MgrFields |-> m[f]] /\ m.pc = "server" /\ m.target = mgr[h].target
    <3> HIDE DEF servers
    <3>1. QED
        BY <1>2 DEF MgrFields
  <2> HIDE DEF m
  <2>3. h \notin marks.raced => FetchOK(m, chain) /\ Len(chain) > 0
      BY <1>0, <1>2, <2>1, <2>2 DEF FetchOK, Fetching, Downloading
  <2>4. CASE TreeIdExists(db[h])
      BY <1>4, <1>11, <2>1, <2>2, <2>3, <2>4 DEF FetchCreate
  <2>5. CASE ~TreeIdExists(db[h])
    <3>1. At(db, db', h, s) /\ At(txn, txn', h, s)
        BY <1>11, <2>5 DEF FetchCreate, Transaction, At
    <3>2. h \notin marks.raced => StoreFollows(s, chain)
      <4>1. SUFFICES ASSUME h \notin marks.raced PROVE StoreFollows(s, chain)
          OBVIOUS
      <4>2. chain # <<>>
          BY <2>3, <4>1
      <4>3. chain[1] = Empty
          BY <1>0, <4>2 DEF ChainOK
      <4>4. QED
          BY <1>0, <1>2, <2>3, <2>5, <4>1, <4>3, CreateFollows
    <3> HIDE DEF s
    <3>3. At(locks, locks', h, locks[h])
        BY <1>0, <2>1, Kept
    <3>4. QED
        BY <1>0, <1>2, <1>5, <2>1, <2>2, <2>3, <3>1, <3>2, <3>3
  <2>6. QED
      BY <2>4, <2>5
<1>12. ASSUME NEW server, FetchServer(h, server)
       PROVE  Inv'
  <2> DEFINE gen == TreeGeneration(db[h])
             roots == SubSeq(chain, gen + 2, mgr[h].target + 1)
             servers == mgr[h].servers \ {server}
             m == [mgr[h] EXCEPT !.pc = "download", !.servers = servers, !.from = server,
                                 !.gen = gen, !.roots = roots]
  <2>1. /\ At(mgr, mgr', h, m) /\ UNCHANGED <<chain, spends, db, txn, locks, rpc, marks>>
        /\ mgr[h].pc = "server" /\ gen < mgr[h].target
      BY <1>12 DEF FetchServer, At
  <2>2. /\ m = [f \in MgrFields |-> m[f]] /\ m.pc = "download" /\ m.target = mgr[h].target
        /\ m.gen = gen /\ m.roots = roots
    <3> HIDE DEF gen, roots, servers
    <3>1. QED
        BY <1>2 DEF MgrFields
  <2> HIDE DEF m
  <2>3. h \notin marks.raced => FetchOK(m, chain)
    <3>1. SUFFICES ASSUME h \notin marks.raced PROVE FetchOK(m, chain)
        OBVIOUS
    <3>2. gen \in Int /\ gen >= -1 /\ mgr[h].target \in Nat /\ mgr[h].target > 0 /\ mgr[h].target < Len(chain)
        BY <1>2, <2>1, <3>1 DEF StoreFollows, Contiguous, FetchOK, Fetching
    <3>3. /\ Sequence(roots)
          /\ gen + 1 + Len(roots) <= Len(chain)
          /\ \A i \in 1..Len(roots) : roots[i] = chain[gen + 1 + i]
      <4> HIDE DEF gen
      <4>1. QED
          BY <1>0, <2>1, <3>2, MissingRoots
    <3> HIDE DEF gen, roots
    <3>4. QED
        BY <2>2, <3>2, <3>3 DEF FetchOK, Fetching, Downloading
  <2>4. QED
      BY <1>4, <2>1, <2>2, <2>3
<1>13. CASE FetchEnds(h) \/ UploadBegin(h) \/ UploadStart(h) \/ WriteFull(h) \/ OpenDelta(h) \/ FillDelta(h)
  <2>1. UNCHANGED <<chain, spends, db, txn, locks, rpc, marks>>
      BY <1>13 DEF FetchEnds, UploadBegin, UploadStart, WriteFull, OpenDelta, FillDelta
  <2>2. PICK m : At(mgr, mgr', h, m) /\ m = [f \in MgrFields |-> m[f]] /\ m.pc \notin Fetching
    <3>1. \A pc, target : LET m == [Asleep EXCEPT !.pc = pc, !.target = target]
                          IN  m = [f \in MgrFields |-> m[f]] /\ m.pc = pc
        BY <1>3 DEF MgrFields
    <3>2. \A pc : LET m == [Asleep EXCEPT !.pc = pc]
                  IN  m = [f \in MgrFields |-> m[f]] /\ m.pc = pc
        BY <1>3 DEF MgrFields
    <3>3. \A pc, gen : LET m == [mgr[h] EXCEPT !.pc = pc, !.gen = gen]
                       IN  m = [f \in MgrFields |-> m[f]] /\ m.pc = pc
        BY <1>2 DEF MgrFields
    <3>4. \A pc, written : LET m == [mgr[h] EXCEPT !.pc = pc, !.written = written]
                           IN  m = [f \in MgrFields |-> m[f]] /\ m.pc = pc
        BY <1>2 DEF MgrFields
    <3>5. \A pc : LET m == [mgr[h] EXCEPT !.pc = pc]
                  IN  m = [f \in MgrFields |-> m[f]] /\ m.pc = pc
        BY <1>6
    <3>6. Asleep.pc \notin Fetching /\ "fetched" \notin Fetching /\ "upload_dl" \notin Fetching
          /\ "write_full" \notin Fetching /\ "write_delta" \notin Fetching /\ "fill_delta" \notin Fetching
        BY Fields DEF Fetching
    <3>7. CASE FetchEnds(h)
      <4> DEFINE m == [Asleep EXCEPT !.pc = "fetched"]
      <4>1. At(mgr, mgr', h, m)
          BY <3>7 DEF FetchEnds, At
      <4>2. m = [f \in MgrFields |-> m[f]] /\ m.pc = "fetched"
          BY <3>2
      <4> HIDE DEF m
      <4>3. QED
          BY <3>6, <4>1, <4>2
    <3>8. CASE UploadBegin(h)
      <4> DEFINE m == [Asleep EXCEPT !.pc = "upload_dl", !.target = Latest]
      <4>1. At(mgr, mgr', h, Asleep) \/ At(mgr, mgr', h, m)
          BY <3>8 DEF UploadBegin, At
      <4>2. m = [f \in MgrFields |-> m[f]] /\ m.pc = "upload_dl"
          BY <3>1
      <4> HIDE DEF m
      <4>3. QED
          BY <1>3, <3>6, <4>1, <4>2
    <3>9. CASE UploadStart(h)
      <4> DEFINE gen == Min({mgr[h].target, TreeGeneration(db[h])})
                 m == [mgr[h] EXCEPT !.pc = "write_full", !.gen = gen]
      <4>1. At(mgr, mgr', h, Asleep) \/ At(mgr, mgr', h, m)
          BY <3>9 DEF UploadStart, At
      <4> HIDE DEF gen
      <4>2. m = [f \in MgrFields |-> m[f]] /\ m.pc = "write_full"
          BY <3>3
      <4> HIDE DEF m
      <4>3. QED
          BY <1>3, <3>6, <4>1, <4>2
    <3>10. CASE WriteFull(h)
      <4> DEFINE written == UploadFile(h, "full") \notin DOMAIN files[h]
                 m == [mgr[h] EXCEPT !.pc = "write_delta", !.written = written]
      <4>1. At(mgr, mgr', h, Asleep) \/ At(mgr, mgr', h, m)
          BY <3>10 DEF WriteFull, At
      <4> HIDE DEF written
      <4>2. m = [f \in MgrFields |-> m[f]] /\ m.pc = "write_delta"
          BY <3>4
      <4> HIDE DEF m
      <4>3. QED
          BY <1>3, <3>6, <4>1, <4>2
    <3>11. CASE OpenDelta(h)
      <4> DEFINE m == [mgr[h] EXCEPT !.pc = "write_full", !.gen = mgr[h].gen - 1]
                 n == [mgr[h] EXCEPT !.pc = "fill_delta"]
      <4>1. At(mgr, mgr', h, Asleep) \/ At(mgr, mgr', h, m) \/ At(mgr, mgr', h, n)
          BY <3>11 DEF OpenDelta, At
      <4>2. m = [f \in MgrFields |-> m[f]] /\ m.pc = "write_full"
          BY <3>3
      <4>3. n = [f \in MgrFields |-> n[f]] /\ n.pc = "fill_delta"
          BY <3>5
      <4> HIDE DEF m, n
      <4>4. QED
          BY <1>3, <3>6, <4>1, <4>2, <4>3
    <3>12. CASE FillDelta(h)
      <4> DEFINE m == [mgr[h] EXCEPT !.pc = "write_full", !.gen = mgr[h].gen - 1]
      <4>1. At(mgr, mgr', h, m)
          BY <3>12 DEF FillDelta, At
      <4>2. m = [f \in MgrFields |-> m[f]] /\ m.pc = "write_full"
          BY <3>3
      <4> HIDE DEF m
      <4>3. QED
          BY <3>6, <4>1, <4>2
    <3>13. QED
        BY <1>13, <3>7, <3>8, <3>9, <3>10, <3>11, <3>12
  <2>3. QED
      BY <1>4, <1>7, <2>1, <2>2
<1>14. CASE Download(h) \/ DownloadFails(h)
  <2> DEFINE partial == marks.partial \cup {h}
  <2>1. PICK pc \in {"insert", "server"} :
           /\ At(mgr, mgr', h, [mgr[h] EXCEPT !.pc = pc])
           /\ UNCHANGED <<chain, spends, db, txn, locks, rpc>>
           /\ marks' = marks \/ marks' = [marks EXCEPT !.partial = partial]
           /\ mgr[h].pc = "download" /\ mgr[h].roots # <<>>
      BY <1>14 DEF Download, DownloadFails, At
  <2> DEFINE m == [mgr[h] EXCEPT !.pc = pc]
  <2>2. /\ m = [f \in MgrFields |-> m[f]] /\ m.pc = pc
        /\ m.target = mgr[h].target /\ m.gen = mgr[h].gen /\ m.roots = mgr[h].roots
      BY <1>6
  <2>3. /\ At(mgr, mgr', h, m) /\ At(db, db', h, db[h]) /\ At(txn, txn', h, txn[h])
        /\ At(locks, locks', h, locks[h]) /\ At(rpc, rpc', h, rpc[h])
        /\ chain' = chain /\ spends' = spends
      BY <1>0, <2>1, Kept
  <2> HIDE DEF m, partial
  <2>4. MarksOK(marks', h) /\ marks'.raced = marks.raced
      BY <1>0, <2>1 DEF MarksOK
  <2>5. h \notin marks.raced => FetchOK(m, chain)
      BY <1>2, <2>1, <2>2 DEF FetchOK, Fetching, Downloading
  <2>6. HostOK(h \in marks'.raced, db[h], txn[h], locks[h], rpc[h], m, chain)
      BY <1>1, <2>2, <2>4, <2>5, MgrOK
  <2>7. QED
      BY <1>0, <2>3, <2>4, <2>6, HostStep
<1>15. CASE InsertDelta(h)
  <2> DEFINE s == db[h]
             content == files[h][Wanted(h)]
             hash == Head(mgr[h].roots)
  <2>1. /\ mgr[h].pc = "insert" /\ Free(h, "db") /\ UNCHANGED <<chain, spends, rpc>>
        /\ At(locks, locks', h, locks[h])
      BY <1>0, <1>15, Kept DEF InsertDelta
  <2>2. ASSUME h \notin marks.raced
        PROVE  /\ mgr[h].gen \in Int /\ mgr[h].gen >= -1
               /\ hash = chain[mgr[h].gen + 2] /\ mgr[h].gen + 1 < Len(chain)
    <3> DEFINE gen == mgr[h].gen
               roots == mgr[h].roots
    <3>1. /\ gen \in Int /\ gen >= -1 /\ Sequence(roots) /\ roots # <<>>
          /\ gen + 1 + Len(roots) <= Len(chain)
          /\ \A i \in 1..Len(roots) : roots[i] = chain[gen + 1 + i]
        BY <1>2, <2>1, <2>2 DEF FetchOK, Downloading
    <3> HIDE DEF gen, roots
    <3>2. Head(roots) = chain[gen + 2] /\ gen + 1 < Len(chain)
        BY <1>0, <3>1, NextRoots
    <3>3. QED
        BY <3>1, <3>2 DEF gen, roots
  <2>3. CASE FileFits(s, hash, content)
    <3> DEFINE u == InsertFromFile(s, hash, content)
               m == [mgr[h] EXCEPT !.pc = "full"]
    <3>1. /\ At(db, db', h, u) /\ At(txn, txn', h, u) /\ At(mgr, mgr', h, m)
          /\ marks' = IF TreeGeneration(s) = mgr[h].gen THEN marks
                      ELSE [marks EXCEPT !.raced = @ \cup {h}]
        BY <1>15, <2>3 DEF InsertDelta, Transaction, At
    <3>2. MarksOK(marks', h) /\ (h \notin marks'.raced => h \notin marks.raced /\ TreeGeneration(s) = mgr[h].gen)
        BY <1>0, <3>1 DEF MarksOK
    <3>3. /\ m = [f \in MgrFields |-> m[f]] /\ m.pc = "full"
          /\ m.target = mgr[h].target /\ m.gen = mgr[h].gen /\ m.roots = mgr[h].roots
        BY <1>6
    <3> HIDE DEF m
    <3>4. h \notin marks.raced => FetchOK(m, chain)
        BY <1>2, <2>1, <3>3 DEF FetchOK, Fetching, Downloading
    <3>5. h \notin marks'.raced => StoreFollows(u, chain)
      <4>1. SUFFICES ASSUME h \notin marks'.raced PROVE StoreFollows(u, chain)
          OBVIOUS
      <4>2. StoreFollows(s, chain) /\ TreeGeneration(s) + 1 < Len(chain) /\ hash = chain[TreeGeneration(s) + 2]
          BY <1>2, <2>2, <3>2, <4>1
      <4> HIDE DEF s, hash, content
      <4>3. QED
          BY <1>0, <4>2, FileFollows
    <3> HIDE DEF u
    <3>6. QED
        BY <1>2, <1>5, <2>1, <3>1, <3>2, <3>3, <3>4, <3>5
  <2>4. CASE ~FileFits(s, hash, content)
    <3>1. PICK kept \in KeptNodes(s, content) :
             Transaction(h, RollbackToGeneration([s EXCEPT !.node = @ \cup kept], mgr[h].gen))
        BY <1>15, <2>4 DEF InsertDelta
    <3> DEFINE u == RollbackToGeneration([s EXCEPT !.node = @ \cup kept], mgr[h].gen)
               m == [mgr[h] EXCEPT !.pc = "server"]
    <3>2. /\ At(db, db', h, u) /\ At(txn, txn', h, u)
        BY <3>1 DEF Transaction, At
    <3>3. At(mgr, mgr', h, m) /\ marks' = marks
        BY <1>15, <2>4 DEF InsertDelta, At
    <3>4. /\ m = [f \in MgrFields |-> m[f]] /\ m.pc = "server"
          /\ m.target = mgr[h].target /\ m.gen = mgr[h].gen /\ m.roots = mgr[h].roots
        BY <1>6
    <3> HIDE DEF m
    <3>5. h \notin marks.raced => FetchOK(m, chain)
        BY <1>2, <2>1, <3>4 DEF FetchOK, Fetching, Downloading
    <3>6. h \notin marks.raced => StoreFollows(u, chain)
        BY <1>0, <1>2, <2>2, RefusedFollows
    <3> HIDE DEF u
    <3>7. QED
        BY <1>0, <1>2, <1>5, <2>1, <3>2, <3>3, <3>4, <3>5, <3>6
  <2>5. QED
      BY <2>3, <2>4
<1>16. CASE FullFile(h)
  <2> DEFINE gen == mgr[h].gen
             roots == mgr[h].roots
             m == [mgr[h] EXCEPT !.pc = "download", !.gen = gen + 1, !.roots = Tail(roots)]
  <2>1. /\ At(mgr, mgr', h, m) /\ UNCHANGED <<chain, spends, db, txn, locks, rpc, marks>>
        /\ mgr[h].pc = "full"
      BY <1>16 DEF FullFile, At
  <2>2. /\ m = [f \in MgrFields |-> m[f]] /\ m.pc = "download" /\ m.target = mgr[h].target
        /\ m.gen = gen + 1 /\ m.roots = Tail(roots)
      BY <1>2 DEF MgrFields
  <2> HIDE DEF m
  <2>3. h \notin marks.raced => FetchOK(m, chain)
    <3>1. SUFFICES ASSUME h \notin marks.raced PROVE FetchOK(m, chain)
        OBVIOUS
    <3>2. /\ gen \in Int /\ gen >= -1 /\ Sequence(roots) /\ roots # <<>>
          /\ gen + 1 + Len(roots) <= Len(chain)
          /\ \A i \in 1..Len(roots) : roots[i] = chain[gen + 1 + i]
          /\ m.target \in Nat /\ m.target > 0 /\ m.target < Len(chain)
        BY <1>2, <2>1, <2>2, <3>1 DEF FetchOK, Downloading, Fetching
    <3> HIDE DEF gen, roots
    <3>3. /\ Sequence(Tail(roots))
          /\ (gen + 1) + 1 + Len(Tail(roots)) <= Len(chain)
          /\ \A i \in 1..Len(Tail(roots)) : Tail(roots)[i] = chain[(gen + 1) + 1 + i]
        BY <1>0, <3>2, NextRoots
    <3>4. gen + 1 \in Int /\ gen + 1 >= -1
        BY <3>2
    <3>5. QED
        BY <2>2, <3>2, <3>3, <3>4 DEF FetchOK, Fetching, Downloading
  <2>4. QED
      BY <1>4, <2>1, <2>2, <2>3
<1>17. QED
    BY <1>8, <1>9, <1>10, <1>11, <1>12, <1>13, <1>14, <1>15, <1>16 DEF Manage

--------------------------------------------------------------------------------
(* The world.                                                              *)

LEMMA ConfirmSpendStep ==
    ASSUME Inv, NEW spend, ConfirmSpend(spend)
    PROVE  Inv'
<1>1. /\ spend \in spends /\ chain' = chain \o spend.roots /\ spends' \subseteq spends
      /\ UNCHANGED <<db, txn, locks, rpc, mgr, marks>>
    BY DEF ConfirmSpend, Resubmitted
<1>2. ChainOK(chain, spends) /\ FunctionsOK /\ HostsOK
    BY DEF Inv
<1>3. PICK S : chain \in Seq(S)
    BY <1>2 DEF ChainOK, Sequence
<1>4. PICK R : spend.roots \in Seq(R)
    BY <1>1, <1>2 DEF ChainOK, Sequence
<1> DEFINE roots == spend.roots
<1>5. chain \in Seq(S \cup R) /\ roots \in Seq(S \cup R)
    BY <1>3, <1>4
<1> HIDE DEF roots
<1>6. /\ chain' \in Seq(S \cup R) /\ Len(chain') = Len(chain) + Len(roots)
      /\ \A i \in 1..Len(chain) : chain'[i] = chain[i]
      /\ Len(chain) \in Nat /\ Len(roots) \in Nat
      /\ chain = <<>> => chain' = roots
    BY <1>1, <1>5 DEF roots
<1>7. Extends(chain, chain')
    BY <1>6 DEF Extends
<1>8. chain' # <<>> /\ chain'[1] = Empty
  <2>1. CASE chain = <<>>
    <3>1. spend = Launcher
        BY <1>1, <1>2, <2>1 DEF ChainOK
    <3>2. roots = <<Empty>>
        BY <3>1 DEF Launcher, roots
    <3>3. QED
        BY <1>6, <2>1, <3>2
  <2>2. CASE chain # <<>>
    <3>1. 1 \in 1..Len(chain) /\ chain[1] = Empty
        BY <1>2, <1>3, <2>2 DEF ChainOK
    <3>2. QED
        BY <1>6, <3>1
  <2>3. QED
      BY <2>1, <2>2
<1>9. ChainOK(chain', spends')
    BY <1>1, <1>2, <1>6, <1>8 DEF ChainOK, Sequence
<1>10. HostsOK'
  <2>1. ASSUME NEW h \in Hosts
        PROVE  HostOK(h \in marks.raced, db[h], txn[h], locks[h], rpc[h], mgr[h], chain')
      BY <1>2, <1>7, HostFollowsOn DEF HostsOK
  <2>2. QED
      BY <1>1, <2>1 DEF HostsOK
<1>11. FunctionsOK'
    BY <1>1, <1>2 DEF FunctionsOK
<1>12. QED
    BY <1>9, <1>10, <1>11 DEF Inv

LEMMA CrashStep ==
    ASSUME Inv, NEW h \in Hosts, Crash(h)
    PROVE  Inv'
<1> DEFINE l == [db |-> "free", dl |-> "free"]
<1>0. FunctionsOK /\ MarksOK(marks, h) /\ ChainOK(chain, spends)
    BY MarksKept DEF Inv
<1>1. /\ At(db, db', h, db[h]) /\ At(txn, txn', h, db[h]) /\ At(locks, locks', h, l)
      /\ At(rpc, rpc', h, Idle) /\ At(mgr, mgr', h, Asleep) /\ chain' = chain /\ spends' = spends
    BY <1>0, Kept DEF Crash, At, Rpc, Mgr
<1>2. marks' = marks \/ marks' = [marks EXCEPT !.torn = marks.torn \cup {h}]
    BY DEF Crash
<1>3. MarksOK(marks', h) /\ marks'.raced = marks.raced
  <2> DEFINE torn == marks.torn \cup {h}
  <2> HIDE DEF torn
  <2>1. marks' = marks \/ marks' = [marks EXCEPT !.torn = torn]
      BY <1>2 DEF torn
  <2>2. QED
      BY <1>0, <2>1 DEF MarksOK
<1>4. HostOK(h \in marks.raced, db[h], txn[h], locks[h], rpc[h], mgr[h], chain)
    BY Host
<1>5. l = [x \in {"db", "dl"} |-> l[x]] /\ Idle = [f \in RpcFields |-> Idle[f]]
      /\ Asleep = [f \in MgrFields |-> Asleep[f]] /\ Idle.pc \notin InTransaction /\ FetchOK(Asleep, chain)
    BY Fields DEF InTransaction, FetchOK, Fetching, Downloading
<1> HIDE DEF l
<1>6. HostOK(h \in marks'.raced, db[h], db[h], l, Idle, Asleep, chain)
    BY <1>3, <1>4, <1>5, OutsideOK DEF HostOK
<1>7. QED
    BY <1>0, <1>1, <1>3, <1>6, HostStep

LEMMA InitOK ==
    ASSUME Init
    PROVE  Inv
<1>1. ChainOK(chain, spends)
  <2>1. Sequence(chain)
    <3>1. chain \in Seq({Empty})
        BY DEF Init
    <3>2. QED
        BY <3>1 DEF Sequence
  <2>2. Launcher.roots = <<Empty>> /\ spends = {Launcher} /\ chain = <<>>
      BY DEF Init, Launcher
  <2>3. <<Empty>> \in Seq({Empty})
      OBVIOUS
  <2>4. Sequence(Launcher.roots)
      BY <2>2, <2>3 DEF Sequence
  <2>5. QED
      BY <2>1, <2>2, <2>4 DEF ChainOK
<1>2. FunctionsOK
  <2>1. marks = [f \in {"raced", "torn", "partial", "dropped", "misplaced"} |-> marks[f]]
      BY DEF Init
  <2>2. QED
      BY <2>1 DEF Init, FunctionsOK
<1>3. IsStore(NewStore) /\ RootsWith(NewStore, "COMMITTED") = {}
    BY DEF IsStore, NewStore, RootsWith
<1>4. Contiguous(NewStore) /\ TreeGeneration(NewStore) = -1
  <2>1. 0 \in Nat /\ RootsWith(NewStore, "COMMITTED") = 0..(0 - 1)
      BY <1>3
  <2>2. Contiguous(NewStore) /\ TreeGeneration(NewStore) = 0 - 1
      BY <1>3, <2>1, ContiguousIf
  <2>3. QED
      BY <2>2
<1>5. \A s : Contiguous(s) /\ TreeGeneration(s) = -1 => StoreFollows(s, chain)
    BY DEF Init, StoreFollows, Follows
<1> DEFINE first == InsertRoot(NewStore, Empty, "PENDING")
<1>6. StoreFollows(NewStore, chain) /\ StoreFollows(first, chain)
  <2>1. Put(NewStore, first, TreeGeneration(NewStore) + 1, Empty, "PENDING")
      BY <1>3, InsertRootIs
  <2> HIDE DEF first
  <2>2. Contiguous(first) /\ TreeGeneration(first) = TreeGeneration(NewStore)
      BY <1>4, <2>1, PutPending
  <2>3. QED
      BY <1>4, <1>5, <2>2
<1>7. ASSUME NEW h \in Hosts
      PROVE  HostOK(h \in marks.raced, db[h], txn[h], locks[h], rpc[h], mgr[h], chain)
  <2> DEFINE l == [db |-> "free", dl |-> "free"]
  <2>1. db[h] \in {NewStore, first} /\ txn[h] = db[h] /\ locks[h] = l /\ rpc[h] = Idle /\ mgr[h] = Asleep
      BY DEF Init
  <2>2. StoreFollows(db[h], chain)
      BY <1>6, <2>1
  <2>3. l = [x \in {"db", "dl"} |-> l[x]] /\ Idle = [f \in RpcFields |-> Idle[f]]
        /\ Asleep = [f \in MgrFields |-> Asleep[f]] /\ Idle.pc \notin InTransaction /\ FetchOK(Asleep, chain)
      BY Fields DEF InTransaction, FetchOK, Fetching, Downloading
  <2> HIDE DEF l, first
  <2>4. QED
      BY <2>1, <2>2, <2>3, OutsideOK
<1>8. QED
    BY <1>1, <1>2, <1>7 DEF Inv, HostsOK

LEMMA NextOK ==
    ASSUME Inv, [Next]_vars
    PROVE  Inv'
<1>1. CASE UNCHANGED vars
    BY <1>1 DEF vars, Inv, ChainOK, FunctionsOK, HostsOK
<1>2. ASSUME NEW h \in Hosts, AskAgain(h)
      PROVE  Inv'
    BY <1>2 DEF AskAgain, Inv, ChainOK, FunctionsOK, HostsOK
<1>3. QED
    BY <1>1, <1>2, RequestSteps, ChangeSteps, ServeSteps, ManageSteps, CrashStep, ConfirmSpendStep DEF Next

(* The committed roots of a host are those of the chain, generation by     *)
(* generation: whatever _update_confirmation_status finds, however batches *)
(* and offers are made, dropped, or die with the process, and however the  *)
(* downloads fail; only a download that a request has overtaken is left    *)
(* out.                                                                    *)
THEOREM LocalIsChainTheorem == Spec => []LocalIsChain
<1>1. Init => Inv
    BY InitOK
<1>2. Inv /\ [Next]_vars => Inv'
    BY NextOK
<1>3. Inv => LocalIsChain
  <2>1. SUFFICES ASSUME Inv, NEW h \in Hosts \ marks.raced, NEW g \in RootsWith(db[h], "COMMITTED")
                 PROVE  g <= Latest /\ db[h].root[g].hash = RootAt(g)
      BY DEF LocalIsChain
  <2>2. StoreFollows(db[h], chain) /\ Len(chain) \in Nat
      BY <2>1, Host, SequenceLen DEF HostOK, Inv, ChainOK
  <2>3. QED
      BY <2>1, <2>2 DEF StoreFollows, Contiguous, Follows, Latest, RootAt
<1>4. QED
    BY <1>1, <1>2, <1>3, PTL DEF Spec

--------------------------------------------------------------------------------
(* Trees.                                                                  *)

LEMMA TreeParts ==
    /\ Empty \notin Hashes
    /\ Terminals \subseteq Hashes
    /\ \A n \in Hashes : n \in Nodes[n] /\ Nodes[n] \subseteq Hashes /\ IsFiniteSet(Nodes[n])
    /\ \A n \in Terminals : Nodes[n] = {n} /\ Children(n) = {}
    /\ \A n \in Internals :
         /\ n \in Hashes /\ Left[n] \in Hashes /\ Right[n] \in Hashes
         /\ Children(n) = {Left[n], Right[n]}
         /\ Nodes[n] = {n} \cup Nodes[Left[n]] \cup Nodes[Right[n]]
         /\ Nodes[Left[n]] \cap Nodes[Right[n]] = {}
         /\ n \notin Nodes[Left[n]] /\ n \notin Nodes[Right[n]]
<1>1. \A n \in Hashes : n \in Nodes[n]
    BY DataStoreAssumption DEF Internals
<1>2. QED
    BY <1>1, DataStoreAssumption DEF Internals, Children

LEMMA TreeInduction ==
    ASSUME NEW S, Terminals \subseteq S,
           \A n \in Internals : Left[n] \in S /\ Right[n] \in S => n \in S
    PROVE  Hashes \subseteq S
<1> SUFFICES ASSUME NEW bad \in Hashes, bad \notin S PROVE FALSE
    OBVIOUS
<1> DEFINE Size(n) == Cardinality(Nodes[n])
           T == {Size(n) : n \in Hashes \ S}
<1>1. \A n \in Hashes : Size(n) \in Nat
    BY TreeParts, FS_CardinalityType
<1>2. PICK k \in T : \A j \in T : k <= j
  <2>1. T \subseteq Nat /\ T # {}
      BY <1>1
  <2> HIDE DEF T
  <2>2. QED
      BY <2>1, LeastNumber
<1>3. PICK n \in Hashes \ S : k = Size(n)
    OBVIOUS
<1>4. n \in Internals
    BY <1>3 DEF Internals
<1>5. \A c \in {Left[n], Right[n]} : c \in Hashes /\ Size(c) < Size(n)
  <2>1. TAKE c \in {Left[n], Right[n]}
  <2>2. c \in Hashes /\ Nodes[c] \subseteq Nodes[n] /\ Nodes[c] # Nodes[n]
      BY <1>4, TreeParts
  <2>3. IsFiniteSet(Nodes[n])
      BY <1>3, TreeParts
  <2>4. Size(c) <= Size(n) /\ (Size(c) = Size(n) => Nodes[c] = Nodes[n])
      BY <2>2, <2>3, FS_Subset, Zenon
  <2>5. Size(c) \in Nat /\ Size(n) \in Nat
      BY <1>1, <1>3, <2>2
  <2> HIDE DEF Size
  <2>6. QED
      BY <2>2, <2>4, <2>5
<1>6. \A c \in {Left[n], Right[n]} : c \in S
  <2>1. TAKE c \in {Left[n], Right[n]}
  <2>2. SUFFICES ASSUME c \notin S PROVE FALSE
      OBVIOUS
  <2>3. c \in Hashes /\ Size(c) < Size(n)
      BY <1>5
  <2>4. Size(c) \in T
      BY <2>2, <2>3
  <2>5. k <= Size(c) /\ Size(c) \in Nat /\ Size(n) \in Nat
      BY <1>1, <1>2, <1>3, <2>3, <2>4
  <2> HIDE DEF Size, T
  <2>6. QED
      BY <1>3, <2>3, <2>5
<1>7. QED
    BY <1>3, <1>4, <1>6

(* The tree of a node of a tree is part of it.                             *)
LEMMA Subtree ==
    ASSUME NEW h \in Hashes, NEW m \in Nodes[h]
    PROVE  m \in Hashes /\ Nodes[m] \subseteq Nodes[h]
<1> DEFINE S == {x \in Hashes : \A y \in Nodes[x] : Nodes[y] \subseteq Nodes[x]}
<1>1. Terminals \subseteq S
    BY TreeParts
<1>2. ASSUME NEW n \in Internals, Left[n] \in S, Right[n] \in S PROVE n \in S
    BY <1>2, TreeParts
<1> HIDE DEF S
<1>3. Hashes \subseteq S
    BY <1>1, <1>2, TreeInduction
<1>4. QED
    BY <1>3, TreeParts DEF S

LEMMA ChildrenInTree ==
    ASSUME NEW h \in Hashes, NEW p \in Nodes[h]
    PROVE  /\ Children(p) \subseteq Nodes[h]
           /\ h \notin Children(p)
           /\ p \notin Terminals => p \in Internals
<1>1. p \in Hashes /\ Nodes[p] \subseteq Nodes[h]
    BY Subtree
<1>2. Children(p) \subseteq Nodes[p]
    BY <1>1, TreeParts DEF Internals, Children
<1>3. h \notin Children(p)
  <2>1. CASE h \in Terminals
      BY <2>1, TreeParts
  <2>2. CASE h \in Internals
    <3>1. CASE p = h
        BY <2>2, <3>1, TreeParts
    <3>2. CASE p # h
      <4>1. PICK c \in {Left[h], Right[h]} : p \in Nodes[c] /\ c \in Hashes
          BY <2>2, <3>2, TreeParts
      <4>2. Nodes[p] \subseteq Nodes[c]
          BY <4>1, Subtree
      <4>3. QED
          BY <1>2, <2>2, <4>2, TreeParts
    <3>3. QED
        BY <3>1, <3>2
  <2>3. QED
      BY <2>1, <2>2 DEF Internals
<1>4. QED
    BY <1>1, <1>2, <1>3 DEF Internals

LEMMA ParentInTree ==
    ASSUME NEW h \in Hashes, NEW n \in Nodes[h], n # h
    PROVE  \E p \in Nodes[h] : p \in Internals /\ n \in Children(p)
<1> DEFINE S == {x \in Hashes : \A y \in Nodes[x] \ {x} :
                    \E p \in Nodes[x] : p \in Internals /\ y \in Children(p)}
<1>1. Terminals \subseteq S
    BY TreeParts
<1>2. ASSUME NEW x \in Internals, Left[x] \in S, Right[x] \in S PROVE x \in S
  <2>1. SUFFICES ASSUME NEW y \in Nodes[x], y # x
                 PROVE  \E p \in Nodes[x] : p \in Internals /\ y \in Children(p)
      BY TreeParts
  <2>2. PICK c \in {Left[x], Right[x]} : y \in Nodes[c]
      BY <2>1, TreeParts
  <2>3. Nodes[c] \subseteq Nodes[x] /\ x \in Nodes[x] /\ c \in Children(x)
      BY TreeParts
  <2>4. CASE y = c
      BY <2>3, <2>4
  <2>5. CASE y # c
    <3>1. c \in S
        BY <1>2
    <3>2. PICK p \in Nodes[c] : p \in Internals /\ y \in Children(p)
        BY <2>2, <2>5, <3>1
    <3>3. QED
        BY <2>3, <3>2
  <2>6. QED
      BY <2>4, <2>5
<1> HIDE DEF S
<1>3. Hashes \subseteq S
    BY <1>1, <1>2, TreeInduction
<1>4. QED
    BY <1>3 DEF S

LEMMA OneParent ==
    ASSUME NEW h \in Hashes, NEW p \in Nodes[h], NEW q \in Nodes[h],
           NEW n \in Children(p), n \in Children(q)
    PROVE  p = q
BY DataStoreAssumption

(* A set of nodes with their children has their trees.                     *)
LEMMA ClosedSet ==
    ASSUME NEW N, N \subseteq Hashes, \A n \in N : Children(n) \subseteq N, NEW h \in N
    PROVE  Nodes[h] \subseteq N
<1> DEFINE S == {x \in Hashes : x \in N => Nodes[x] \subseteq N}
<1>1. Terminals \subseteq S
    BY TreeParts
<1>2. ASSUME NEW x \in Internals, Left[x] \in S, Right[x] \in S PROVE x \in S
    BY <1>2, TreeParts
<1> HIDE DEF S
<1>3. Hashes \subseteq S
    BY <1>1, <1>2, TreeInduction
<1>4. QED
    BY <1>3 DEF S

--------------------------------------------------------------------------------
(* Paths.                                                                  *)

LEMMA Joined ==
    ASSUME NEW l \in Hashes, NEW r \in Hashes,
           \A m \in Nodes[l] \cap Terminals, n \in Nodes[r] \cap Terminals : Key[m] # Key[n]
    PROVE  /\ InternalNode(l, r) \in Internals
           /\ Left[InternalNode(l, r)] = l /\ Right[InternalNode(l, r)] = r
<1>1. \E n \in Internals : Left[n] = l /\ Right[n] = r
    BY DataStoreAssumption, Zenon
<1>2. QED
    BY <1>1, Zenon DEF InternalNode

(* The nodes that Replaced puts in the place of those on a path.           *)
ReplacedNodes(new, node, old, path) ==
    new = [i \in 0..Len(path) |->
             IF i = 0 THEN node
             ELSE IF Left[path[i]] = (IF i = 1 THEN old ELSE path[i - 1])
             THEN InternalNode(new[i - 1], Right[path[i]])
             ELSE InternalNode(Left[path[i]], new[i - 1])]

LEMMA ReplacedNodesExist ==
    ASSUME NEW node, NEW old, NEW path, Len(path) \in Nat
    PROVE  \E new : /\ ReplacedNodes(new, node, old, path)
                    /\ Replaced(node, old, path) =
                         [node |-> new[Len(path)], made |-> {new[i] : i \in 1..Len(path)}]
<1> DEFINE Step(f, i) ==
             IF i = 0 THEN node
             ELSE IF Left[path[i]] = (IF i = 1 THEN old ELSE path[i - 1])
             THEN InternalNode(f[i - 1], Right[path[i]])
             ELSE InternalNode(Left[path[i]], f[i - 1])
           Upto(f, k) == f = [i \in 0..k |-> Step(f, i)]
           T == {k \in Nat : ~\E f : Upto(f, k)}
<1>1. T = {}
  <2> SUFFICES ASSUME T # {} PROVE FALSE
      OBVIOUS
  <2>1. PICK k \in T : \A j \in T : k <= j
      BY LeastNumber
  <2>2. k # 0
    <3> DEFINE g == [i \in 0..0 |-> node]
    <3>1. g = [i \in 0..0 |-> Step(g, i)]
        OBVIOUS
    <3>2. Upto(g, 0)
        BY <3>1
    <3>3. QED
        BY <2>1, <3>2
  <2>3. k - 1 \in Nat /\ k - 1 \notin T /\ k \in Nat
    <3>1. k \in Nat
        BY <2>1
    <3> HIDE DEF T
    <3>2. QED
        BY <2>1, <2>2, <3>1
  <2>4. PICK f : Upto(f, k - 1)
      BY <2>3
  <2> DEFINE g == [i \in 0..k |-> IF i = k THEN Step(f, k) ELSE f[i]]
  <2>5. \A i \in 0..k : g[i] = Step(g, i)
    <3>1. TAKE i \in 0..k
    <3>2. i # 0 => i - 1 \in 0..k /\ i - 1 # k /\ g[i - 1] = f[i - 1]
        BY <2>3
    <3>3. Step(f, i) = Step(g, i)
      <4> HIDE DEF g
      <4>1. QED
          BY <3>2
    <3>4. g[i] = Step(f, i)
      <4>1. CASE i = k
          BY <4>1
      <4>2. CASE i # k
        <5>1. i \in 0..(k - 1)
            BY <2>3, <4>2
        <5>2. f[i] = Step(f, i)
          <6> HIDE DEF Step
          <6>1. QED
              BY <2>4, <5>1
        <5>3. QED
            BY <4>2, <5>2
      <4>3. QED
          BY <4>1, <4>2
    <3>5. QED
        BY <3>3, <3>4
  <2>6. Upto(g, k)
    <3> HIDE DEF Step
    <3>1. QED
        BY <2>5
  <2>7. QED
      BY <2>1, <2>6
<1>2. \E f : Upto(f, Len(path))
    BY <1>1
<1> DEFINE new == CHOOSE f : Upto(f, Len(path))
<1>3. Upto(new, Len(path))
  <2> HIDE DEF Upto
  <2>1. QED
      BY <1>2, Zenon
<1>4. Replaced(node, old, path) =
        [node |-> new[Len(path)], made |-> {new[i] : i \in 1..Len(path)}]
    BY Zenon DEF Replaced
<1>5. ReplacedNodes(new, node, old, path)
    BY <1>3, Zenon DEF ReplacedNodes
<1> HIDE DEF new
<1>6. QED
    BY <1>4, <1>5

Leafs(n) == Nodes[n] \cap Terminals
Inner(n) == Nodes[n] \ Terminals

(* A path goes from below a node up to a root.                             *)
PathTo(r, old, path) ==
    /\ path \in Seq(Internals)
    /\ \A i \in 1..Len(path) : (IF i = 1 THEN old ELSE path[i - 1]) \in Children(path[i])
    /\ IF path = <<>> THEN old = r ELSE path[Len(path)] = r

(* The leaves of `node' have other keys than those of r outside of `old'.  *)
Apart(node, r, old) == \A x \in Leafs(node), y \in Leafs(r) \ Leafs(old) : Key[x] # Key[y]

(* One node is replaced: the leaves and the internal nodes of the new one. *)
LEMMA ReplaceOne ==
    ASSUME NEW a \in Internals, NEW b \in Children(a), NEW old \in Hashes, NEW node \in Hashes,
           NEW m \in Hashes, NEW r \in Hashes, Nodes[a] \subseteq Nodes[r],
           Leafs(old) \subseteq Leafs(b),
           Leafs(m) = (Leafs(b) \ Leafs(old)) \cup Leafs(node),
           Apart(node, r, old),
           NEW n, Left[a] = b => n = InternalNode(m, Right[a]),
           Left[a] # b => n = InternalNode(Left[a], m)
    PROVE  /\ n \in Internals
           /\ \E c \in Nodes[r] : Children(n) = {m, c}
           /\ Nodes[m] \subseteq Nodes[n]
           /\ Leafs(n) = (Leafs(a) \ Leafs(old)) \cup Leafs(node)
           /\ Inner(n) \subseteq {n} \cup Inner(m) \cup Inner(a)
           /\ Leafs(old) \subseteq Leafs(a)
<1> DEFINE c == IF Left[a] = b THEN Right[a] ELSE Left[a]
<1>1. /\ b \in Hashes /\ c \in Hashes /\ c \in Nodes[a]
      /\ Nodes[a] = {a} \cup Nodes[b] \cup Nodes[c]
      /\ Nodes[b] \cap Nodes[c] = {}
      /\ a \notin Terminals
  <2>1. /\ Children(a) = {Left[a], Right[a]}
        /\ Left[a] \in Hashes /\ Right[a] \in Hashes
        /\ Nodes[a] = {a} \cup Nodes[Left[a]] \cup Nodes[Right[a]]
        /\ Nodes[Left[a]] \cap Nodes[Right[a]] = {}
        /\ Left[a] \in Nodes[Left[a]] /\ Right[a] \in Nodes[Right[a]]
      BY TreeParts
  <2>2. \/ b = Left[a] /\ c = Right[a]
        \/ b = Right[a] /\ c = Left[a]
      BY <2>1
  <2> HIDE DEF c
  <2>3. QED
      BY <2>1, <2>2 DEF Internals
<1>2. \A x \in Leafs(m), y \in Leafs(c) : Key[x] # Key[y]
  <2>1. TAKE x \in Leafs(m), y \in Leafs(c)
  <2>2. y \in Leafs(r) /\ y \notin Leafs(b) /\ y \notin Leafs(old)
      BY <1>1 DEF Leafs
  <2>3. CASE x \in Leafs(node)
      BY <2>2, <2>3 DEF Apart
  <2>4. CASE x \in Leafs(b)
    <3>1. x \in Leafs(r) /\ x # y
        BY <1>1, <2>2, <2>4 DEF Leafs
    <3>2. QED
        BY <2>2, <3>1, DataStoreAssumption DEF Leafs
  <2>5. QED
      BY <2>3, <2>4
<1>3. n \in Internals /\ {Left[n], Right[n]} = {m, c}
  <2>1. CASE Left[a] = b
    <3>1. n = InternalNode(m, c)
        BY <2>1
    <3>2. QED
        BY <1>1, <1>2, <3>1, Joined DEF Leafs
  <2>2. CASE Left[a] # b
    <3>1. n = InternalNode(c, m)
        BY <2>2
    <3>2. \A y \in Leafs(c), x \in Leafs(m) : Key[y] # Key[x]
        BY <1>2
    <3>3. QED
        BY <1>1, <3>1, <3>2, Joined DEF Leafs
  <2>3. QED
      BY <2>1, <2>2
<1> HIDE DEF c
<1>4. /\ Children(n) = {m, c}
      /\ Nodes[n] = {n} \cup Nodes[m] \cup Nodes[c]
      /\ n \notin Terminals
  <2>1. /\ Children(n) = {Left[n], Right[n]}
        /\ Nodes[n] = {n} \cup Nodes[Left[n]] \cup Nodes[Right[n]]
      BY <1>3, TreeParts
  <2>2. \/ Left[n] = m /\ Right[n] = c
        \/ Left[n] = c /\ Right[n] = m
      BY <1>3
  <2>3. QED
      BY <1>3, <2>1, <2>2 DEF Internals
<1>5. Leafs(n) = (Leafs(a) \ Leafs(old)) \cup Leafs(node)
    BY <1>1, <1>4 DEF Leafs
<1>6. Inner(n) \subseteq {n} \cup Inner(m) \cup Inner(a)
    BY <1>1, <1>4 DEF Inner
<1>7. Leafs(old) \subseteq Leafs(a)
    BY <1>1 DEF Leafs
<1>8. QED
    BY <1>1, <1>3, <1>4, <1>5, <1>6, <1>7

(* The nodes on a path are in the tree.                                    *)
LEMMA PathInTree ==
    ASSUME NEW r \in Hashes, NEW old \in Hashes, NEW path, PathTo(r, old, path)
    PROVE  /\ \A i \in 1..Len(path) : path[i] \in Internals /\ Nodes[path[i]] \subseteq Nodes[r]
           /\ Nodes[old] \subseteq Nodes[r]
<1>1. path \in Seq(Internals) /\ Len(path) \in Nat /\ \A i \in 1..Len(path) : path[i] \in Internals
    BY DEF PathTo
<1> DEFINE Below(i) == IF i = 0 THEN old ELSE path[i]
           T == {k \in 0..Len(path) : ~(Nodes[Below(Len(path) - k)] \subseteq Nodes[r])}
<1>2. \A i \in 1..Len(path) : Below(i - 1) \in Children(path[i])
    BY <1>1 DEF PathTo
<1>3. T = {}
  <2> SUFFICES ASSUME T # {} PROVE FALSE
      OBVIOUS
  <2>1. T \subseteq Nat
      BY <1>1
  <2>2. PICK k \in T : \A j \in T : k <= j
      BY <2>1, LeastNumber
  <2>3. k # 0
    <3>1. Below(Len(path)) = r
        BY <1>1 DEF PathTo
    <3>2. QED
        BY <1>1, <2>2, <3>1
  <2>4. k \in 1..Len(path) /\ k - 1 \in 0..Len(path) /\ k - 1 \notin T
      BY <1>1, <2>2, <2>3
  <2> DEFINE i == Len(path) - (k - 1)
  <2>5. i \in 1..Len(path) /\ i - 1 = Len(path) - k /\ i # 0
      BY <1>1, <2>4
  <2>6. Nodes[path[i]] \subseteq Nodes[r]
      BY <2>4, <2>5
  <2>7. Below(i - 1) \in Children(path[i]) /\ path[i] \in Internals
      BY <1>1, <1>2, <2>5
  <2> HIDE DEF i, Below
  <2>8. Nodes[Below(i - 1)] \subseteq Nodes[path[i]]
      BY <2>7, TreeParts
  <2>9. QED
      BY <2>2, <2>5, <2>6, <2>8
<1>4. \A j \in 0..Len(path) : Nodes[Below(j)] \subseteq Nodes[r]
  <2>1. TAKE j \in 0..Len(path)
  <2>2. Len(path) - j \in 0..Len(path) /\ Len(path) - (Len(path) - j) = j
      BY <1>1
  <2> HIDE DEF Below
  <2>3. QED
      BY <1>3, <2>2
<1>5. \A i \in 1..Len(path) : Below(i) = path[i] /\ i \in 0..Len(path)
    BY <1>1
<1>6. Below(0) = old /\ 0 \in 0..Len(path)
    BY <1>1
<1> HIDE DEF Below
<1>7. QED
    BY <1>1, <1>4, <1>5, <1>6

(* What Replaced makes of a path.                                          *)
LEMMA ReplacedIs ==
    ASSUME NEW r \in Hashes, NEW old \in Hashes, NEW node \in Hashes, NEW path,
           PathTo(r, old, path),
           Apart(node, r, old)
    PROVE  LET up == Replaced(node, old, path)
           IN  /\ up.node \in Hashes /\ node \in Nodes[up.node]
               /\ Leafs(up.node) = (Leafs(r) \ Leafs(old)) \cup Leafs(node)
               /\ up.made \subseteq Internals /\ up.made \subseteq Nodes[up.node]
               /\ Inner(up.node) \subseteq up.made \cup Inner(r) \cup Inner(node)
               /\ up.node \in up.made \cup {node}
               /\ \A p \in up.made : Children(p) \subseteq up.made \cup {node} \cup Nodes[r]
<1>1. path \in Seq(Internals) /\ Len(path) \in Nat /\ \A i \in 1..Len(path) : path[i] \in Internals
    BY DEF PathTo
<1>2. PICK new : /\ ReplacedNodes(new, node, old, path)
                 /\ Replaced(node, old, path) =
                      [node |-> new[Len(path)], made |-> {new[i] : i \in 1..Len(path)}]
    BY <1>1, ReplacedNodesExist
<1> DEFINE Below(i) == IF i = 0 THEN old ELSE path[i]
           Made(i) == {new[j] : j \in 1..i}
<1>3. /\ \A i \in 1..Len(path) : Below(i - 1) \in Children(path[i])
      /\ Below(Len(path)) = r
    BY <1>1 DEF PathTo
<1>4. \A i \in 1..Len(path) : /\ path[i] \in Internals /\ Nodes[path[i]] \subseteq Nodes[r]
                              /\ Leafs(path[i]) \subseteq Leafs(r) /\ Inner(path[i]) \subseteq Inner(r)
    BY PathInTree DEF Leafs, Inner
<1>5. new[0] = node
    BY <1>1, <1>2 DEF ReplacedNodes
<1>6. \A i \in 1..Len(path) :
         new[i] = IF Left[path[i]] = Below(i - 1)
                  THEN InternalNode(new[i - 1], Right[path[i]])
                  ELSE InternalNode(Left[path[i]], new[i - 1])
  <2>1. TAKE i \in 1..Len(path)
  <2>2. i \in 0..Len(path) /\ i # 0 /\ Below(i - 1) = IF i = 1 THEN old ELSE path[i - 1]
      BY <1>1
  <2> HIDE DEF Below
  <2>3. QED
      BY <1>2, <2>2 DEF ReplacedNodes
<1> DEFINE Good(i) ==
             /\ new[i] \in Hashes /\ node \in Nodes[new[i]]
             /\ Leafs(old) \subseteq Leafs(Below(i))
             /\ Leafs(new[i]) = (Leafs(Below(i)) \ Leafs(old)) \cup Leafs(node)
             /\ Made(i) \subseteq Internals /\ Made(i) \subseteq Nodes[new[i]]
             /\ Inner(new[i]) \subseteq Made(i) \cup Inner(r) \cup Inner(node)
             /\ new[i] \in Made(i) \cup {node}
             /\ \A p \in Made(i) : Children(p) \subseteq Made(i) \cup {node} \cup Nodes[r]
           T == {i \in 0..Len(path) : ~Good(i)}
<1>7. Good(0)
  <2>1. Made(0) = {}
      BY <1>1
  <2>2. QED
      BY <1>5, <2>1, TreeParts
<1>8. ASSUME NEW i \in 1..Len(path), Good(i - 1) PROVE Good(i)
  <2> DEFINE n == new[i]
             m == new[i - 1]
             a == path[i]
             b == Below(i - 1)
  <2>1. Below(i) = a
      BY <1>1
  <2>2. Made(i) = Made(i - 1) \cup {n}
    <3>1. 1..i = 1..(i - 1) \cup {i}
        BY <1>1
    <3>2. QED
        BY <3>1
  <2>3. /\ a \in Internals /\ b \in Children(a) /\ Nodes[a] \subseteq Nodes[r]
        /\ Inner(a) \subseteq Inner(r)
      BY <1>3, <1>4
  <2>4. /\ Left[a] = b => n = InternalNode(m, Right[a])
        /\ Left[a] # b => n = InternalNode(Left[a], m)
      BY <1>6
  <2>5. /\ m \in Hashes /\ node \in Nodes[m] /\ Leafs(old) \subseteq Leafs(b)
        /\ Leafs(m) = (Leafs(b) \ Leafs(old)) \cup Leafs(node)
        /\ Made(i - 1) \subseteq Internals /\ Made(i - 1) \subseteq Nodes[m]
        /\ Inner(m) \subseteq Made(i - 1) \cup Inner(r) \cup Inner(node)
        /\ m \in Made(i - 1) \cup {node}
        /\ \A p \in Made(i - 1) : Children(p) \subseteq Made(i - 1) \cup {node} \cup Nodes[r]
      BY <1>8
  <2> HIDE DEF n, m, a, b, Below, Made
  <2>a. Apart(node, r, old) /\ old \in Hashes /\ r \in Hashes /\ node \in Hashes
      OBVIOUS
  <2>6. /\ n \in Internals
        /\ \E c \in Nodes[r] : Children(n) = {m, c}
        /\ Nodes[m] \subseteq Nodes[n]
        /\ Leafs(n) = (Leafs(a) \ Leafs(old)) \cup Leafs(node)
        /\ Inner(n) \subseteq {n} \cup Inner(m) \cup Inner(a)
        /\ Leafs(old) \subseteq Leafs(a)
      BY <2>3, <2>4, <2>5, <2>a, ReplaceOne, SMTT(30)
  <2>7. n \in Hashes /\ n \in Nodes[n]
      BY <2>6, TreeParts
  <2>8. /\ Made(i) \subseteq Internals /\ Made(i) \subseteq Nodes[n]
        /\ Inner(n) \subseteq Made(i) \cup Inner(r) \cup Inner(node)
        /\ n \in Made(i)
      BY <2>2, <2>3, <2>5, <2>6, <2>7
  <2>9. \A p \in Made(i) : Children(p) \subseteq Made(i) \cup {node} \cup Nodes[r]
      BY <2>2, <2>5, <2>6
  <2>10. /\ n \in Hashes /\ node \in Nodes[n]
         /\ Leafs(old) \subseteq Leafs(Below(i))
         /\ Leafs(n) = (Leafs(Below(i)) \ Leafs(old)) \cup Leafs(node)
      BY <2>1, <2>5, <2>6, <2>7
  <2>11. QED
      BY <2>8, <2>9, <2>10 DEF n
<1>9. T = {}
  <2> SUFFICES ASSUME T # {} PROVE FALSE
      OBVIOUS
  <2> HIDE DEF Good
  <2>1. T \subseteq Nat
      BY <1>1
  <2>2. PICK k \in T : \A j \in T : k <= j
      BY <2>1, LeastNumber
  <2>3. k # 0 /\ k \in 0..Len(path) /\ ~Good(k)
      BY <1>7, <2>2
  <2>4. k \in 1..Len(path) /\ k - 1 \in 0..Len(path) /\ k - 1 \notin T
      BY <1>1, <2>2, <2>3
  <2>5. Good(k - 1)
      BY <2>4
  <2>6. QED
      BY <1>8, <2>3, <2>4, <2>5
<1>10. Good(Len(path))
  <2> HIDE DEF Good
  <2>1. QED
      BY <1>1, <1>9
<1> DEFINE up == Replaced(node, old, path)
<1>11. up.node = new[Len(path)] /\ up.made = Made(Len(path))
    BY <1>2
<1> HIDE DEF up, Made, Below
<1>12. QED
  <2>1. /\ up.node \in Hashes /\ node \in Nodes[up.node]
        /\ Leafs(up.node) = (Leafs(r) \ Leafs(old)) \cup Leafs(node)
        /\ up.made \subseteq Internals /\ up.made \subseteq Nodes[up.node]
        /\ Inner(up.node) \subseteq up.made \cup Inner(r) \cup Inner(node)
        /\ up.node \in up.made \cup {node}
        /\ \A p \in up.made : Children(p) \subseteq up.made \cup {node} \cup Nodes[r]
      BY <1>3, <1>10, <1>11, Zenon
  <2>2. QED
      BY <2>1 DEF up

--------------------------------------------------------------------------------
(* The ancestors table.                                                    *)

(* A row names the parent of a node in the tree of its generation.         *)
RowOK(s, k) ==
    LET root == s.root[k[2]].hash
    IN  /\ k = <<k[1], k[2]>> /\ k[2] \in 0..TreeGeneration(s)
        /\ k[1] \in Tree(root)
        /\ IF k[1] = root THEN s.ancestors[k] = Empty
           ELSE s.ancestors[k] \in Tree(root) /\ k[1] \in Children(s.ancestors[k])

(* The last rows up to a generation are those of its tree.                 *)
Exact(s, g) ==
    LET root == s.root[g].hash
    IN  \A n \in Tree(root) :
          IF n = root THEN <<n, g>> \in DOMAIN s.ancestors
          ELSE OneAncestor(s, n, g) \in Tree(root) /\ n \in Children(OneAncestor(s, n, g))

(* The node table has whole trees, and the first generation is empty.      *)
NodesOK(s) ==
    /\ s.node \subseteq Hashes
    /\ \A n \in s.node : Children(n) \subseteq s.node
    /\ DOMAIN s.root \subseteq Nat
    /\ \A g \in DOMAIN s.root : s.root[g].hash \in s.node \cup {Empty}
    /\ 0 \in DOMAIN s.root => s.root[0].hash = Empty

Lineage(s) ==
    /\ Contiguous(s)
    /\ NodesOK(s)
    /\ \A k \in DOMAIN s.ancestors : RowOK(s, k)
    /\ \A g \in 0..TreeGeneration(s) : Exact(s, g)

Rows(s, n, g) == {k \in DOMAIN s.ancestors : k[1] = n /\ k[2] <= g}

LEMMA LastRow ==
    ASSUME NEW s, NEW n, NEW g \in Int, \A k \in DOMAIN s.ancestors : k[2] \in Nat,
           Rows(s, n, g) # {}
    PROVE  \E k \in Rows(s, n, g) : /\ OneAncestor(s, n, g) = s.ancestors[k]
                                    /\ \A other \in Rows(s, n, g) : other[2] <= k[2]
<1> DEFINE rows == Rows(s, n, g)
           T == {g - k[2] : k \in rows}
<1>1. \A k \in rows : k \in DOMAIN s.ancestors /\ k[2] \in Nat /\ k[2] <= g
    BY DEF Rows
<1>2. T \subseteq Nat /\ T # {}
    BY <1>1
<1>3. PICK d \in T : \A e \in T : d <= e
  <2> HIDE DEF T
  <2>1. QED
      BY <1>2, LeastNumber
<1>4. PICK k \in rows : d = g - k[2]
    OBVIOUS
<1>5. \A other \in rows : other[2] <= k[2]
  <2>1. TAKE other \in rows
  <2>2. d <= g - other[2]
      BY <1>3
  <2> HIDE DEF rows
  <2>3. QED
      BY <1>1, <1>4, <2>2
<1> DEFINE last == CHOOSE x \in rows : \A other \in rows : other[2] <= x[2]
<1>6. last \in rows /\ \A other \in rows : other[2] <= last[2]
  <2> HIDE DEF rows
  <2>1. QED
      BY <1>4, <1>5, Zenon
<1>7. OneAncestor(s, n, g) = s.ancestors[last]
    BY Zenon DEF OneAncestor, Rows
<1>8. QED
  <2> HIDE DEF last, rows
  <2>1. \E x \in rows : /\ OneAncestor(s, n, g) = s.ancestors[x]
                        /\ \A other \in rows : other[2] <= x[2]
      BY <1>6, <1>7
  <2>2. QED
      BY <2>1, Zenon DEF rows

LEMMA NoRow ==
    ASSUME NEW s, NEW n, NEW g, Rows(s, n, g) = {}
    PROVE  OneAncestor(s, n, g) = Empty
BY Zenon DEF Rows, OneAncestor

LEMMA RowHere ==
    ASSUME NEW s, NEW n, NEW g \in Nat, \A k \in DOMAIN s.ancestors : k = <<k[1], k[2]>> /\ k[2] \in Nat,
           <<n, g>> \in DOMAIN s.ancestors
    PROVE  OneAncestor(s, n, g) = s.ancestors[<<n, g>>]
<1>1. <<n, g>> \in Rows(s, n, g) /\ g \in Int
    BY DEF Rows
<1>2. PICK k \in Rows(s, n, g) : /\ OneAncestor(s, n, g) = s.ancestors[k]
                                 /\ \A other \in Rows(s, n, g) : other[2] <= k[2]
    BY <1>1, LastRow
<1>3. g <= k[2] /\ k[2] <= g /\ k = <<k[1], k[2]>> /\ k[1] = n /\ k[2] \in Nat
  <2>1. <<n, g>>[2] <= k[2]
      BY <1>1, <1>2
  <2>2. QED
      BY <2>1 DEF Rows
<1>4. k[2] = g
    BY <1>3
<1>5. QED
    BY <1>2, <1>3, <1>4

LEMMA SameRows ==
    ASSUME NEW s, NEW t, NEW n, NEW g \in Int, NEW i \in Int, Rows(s, n, g) = Rows(t, n, i),
           \A k \in DOMAIN s.ancestors : k[2] \in Nat,
           \A k \in Rows(s, n, g) : t.ancestors[k] = s.ancestors[k]
    PROVE  OneAncestor(s, n, g) = OneAncestor(t, n, i)
<1>1. CASE Rows(s, n, g) = {}
    BY <1>1, NoRow
<1>2. CASE Rows(s, n, g) # {}
  <2> DEFINE rows == Rows(s, n, g)
             last == CHOOSE x \in rows : \A other \in rows : other[2] <= x[2]
  <2>1. PICK k \in rows : \A other \in rows : other[2] <= k[2]
      BY <1>2, LastRow
  <2>2. last \in rows
    <3> HIDE DEF rows
    <3>1. QED
        BY <2>1, Zenon
  <2>3. OneAncestor(s, n, g) = s.ancestors[last]
      BY <1>2, Zenon DEF OneAncestor, Rows
  <2>4. OneAncestor(t, n, i) = t.ancestors[last]
    <3> DEFINE its == Rows(t, n, i)
    <3>1. its = rows
        OBVIOUS
    <3>2. OneAncestor(t, n, i) = t.ancestors[CHOOSE x \in its : \A other \in its : other[2] <= x[2]]
        BY <1>2, Zenon DEF OneAncestor, Rows
    <3> HIDE DEF its, rows
    <3>3. QED
        BY <3>1, <3>2
  <2>5. QED
    <3> HIDE DEF last
    <3>1. QED
        BY <2>2, <2>3, <2>4
<1>3. QED
    BY <1>1, <1>2

LEMMA RowTypes ==
    ASSUME NEW s, Lineage(s)
    PROVE  /\ \A k \in DOMAIN s.ancestors : k = <<k[1], k[2]>> /\ k[2] \in Nat /\ k[2] <= TreeGeneration(s)
           /\ TreeGeneration(s) \in Int /\ TreeGeneration(s) >= -1
           /\ \A g \in 0..TreeGeneration(s) : g \in DOMAIN s.root /\ s.root[g].status = "COMMITTED"
BY DEF Lineage, RowOK, Contiguous, RootsWith

(* The roots of committed generations, and what is below a node in a tree. *)
LEMMA TreeOfRoot ==
    ASSUME NEW s, NodesOK(s), NEW g \in DOMAIN s.root
    PROVE  /\ s.root[g].hash \in Hashes \cup {Empty}
           /\ Tree(s.root[g].hash) \subseteq s.node
           /\ s.root[g].hash # Empty => /\ s.root[g].hash \in s.node
                                        /\ Tree(s.root[g].hash) = Nodes[s.root[g].hash]
<1>1. s.root[g].hash \in s.node \cup {Empty} /\ s.node \subseteq Hashes
    BY DEF NodesOK
<1>2. CASE s.root[g].hash = Empty
    BY <1>2, TreeParts DEF Tree
<1>3. CASE s.root[g].hash # Empty
  <2>1. s.root[g].hash \in s.node
      BY <1>1, <1>3
  <2>2. Nodes[s.root[g].hash] \subseteq s.node
      BY <1>1, <2>1, ClosedSet DEF NodesOK
  <2>3. QED
      BY <1>1, <1>3, <2>1, <2>2 DEF Tree
<1>4. QED
    BY <1>2, <1>3

(* What a row of the last generation names is a parent.                    *)
LEMMA ParentIs ==
    ASSUME NEW s, NEW n, Lineage(s), OneAncestor(s, n, TreeGeneration(s)) # Empty
    PROVE  /\ OneAncestor(s, n, TreeGeneration(s)) \in s.node \cap Internals
           /\ n \in Children(OneAncestor(s, n, TreeGeneration(s)))
<1> DEFINE g == TreeGeneration(s)
<1>1. /\ \A k \in DOMAIN s.ancestors : k[2] \in Nat
      /\ g \in Int
    BY RowTypes
<1>2. Rows(s, n, g) # {}
    BY NoRow
<1>3. PICK k \in Rows(s, n, g) : OneAncestor(s, n, g) = s.ancestors[k]
    BY <1>1, <1>2, LastRow
<1>4. k \in DOMAIN s.ancestors /\ k[1] = n /\ RowOK(s, k)
    BY DEF Rows, Lineage
<1>5. k[2] \in DOMAIN s.root
    BY <1>4, RowTypes DEF RowOK
<1>6. s.ancestors[k] \in Tree(s.root[k[2]].hash) /\ n \in Children(s.ancestors[k])
    BY <1>3, <1>4 DEF RowOK
<1>7. s.ancestors[k] \in s.node /\ s.ancestors[k] \in Hashes
    BY <1>5, <1>6, TreeOfRoot DEF Lineage, NodesOK
<1>8. s.ancestors[k] \in Internals
    BY <1>6, <1>7, TreeParts DEF Internals
<1>9. QED
    BY <1>3, <1>6, <1>7, <1>8

(* A generation is added, with the rows of its root and of the children of *)
(* the nodes that were made.                                               *)
Kids(made) == UNION {Children(p) : p \in made}
Top(hash) == IF hash = Empty THEN {} ELSE {hash}

NewRows(s, t, hash, made, g) ==
    /\ DOMAIN t.ancestors = DOMAIN s.ancestors \cup ((Top(hash) \cup Kids(made)) \X {g})
    /\ \A k \in DOMAIN s.ancestors : t.ancestors[k] = s.ancestors[k]
    /\ hash # Empty => t.ancestors[<<hash, g>>] = Empty
    /\ \A p \in made : \A c \in Children(p) : t.ancestors[<<c, g>>] = p

(* The nodes made are of the new tree, and it has no others that the tree  *)
(* before does not have.                                                   *)
MadeFor(s, hash, made) ==
    /\ hash \in Hashes \cup {Empty}
    /\ made \subseteq InternalNodes(hash)
    /\ InternalNodes(hash) \subseteq made \cup InternalNodes(TreeRoot(s))

LEMMA NewGeneration ==
    ASSUME NEW s, NEW t, NEW hash, NEW made, Lineage(s), Contiguous(t), NodesOK(t),
           TreeGeneration(t) = TreeGeneration(s) + 1,
           t.root[TreeGeneration(t)].hash = hash,
           \A g \in 0..TreeGeneration(s) : t.root[g].hash = s.root[g].hash,
           NewRows(s, t, hash, made, TreeGeneration(t)),
           TreeGeneration(s) >= 0 => MadeFor(s, hash, made),
           TreeGeneration(s) < 0 => made = {}
    PROVE  Lineage(t)
<1> DEFINE last == TreeGeneration(s)
           new == TreeGeneration(t)
<1>1. /\ last \in Int /\ last >= -1 /\ new = last + 1 /\ new \in Nat
      /\ \A g \in 0..last : g \in DOMAIN s.root
      /\ \A k \in DOMAIN s.ancestors : k = <<k[1], k[2]>> /\ k[2] \in Nat /\ k[2] <= last
    BY RowTypes
<1>2. new \in DOMAIN t.root /\ \A g \in 0..last : g \in DOMAIN t.root
    BY <1>1 DEF Contiguous, RootsWith
<1>3. hash \in Hashes \cup {Empty} /\ (hash # Empty => Tree(hash) = Nodes[hash])
    BY <1>2, TreeOfRoot
<1>4. hash # Empty => last >= 0
    BY <1>1, <1>2 DEF NodesOK
<1>5. made \subseteq Internals /\ made \subseteq Tree(hash) /\ (hash = Empty => made = {})
  <2>1. CASE last < 0
      BY <2>1
  <2>2. CASE last >= 0
    <3>1. MadeFor(s, hash, made)
        BY <2>2
    <3>2. CASE hash = Empty
        BY <3>1, <3>2 DEF MadeFor, InternalNodes, Tree
    <3>3. CASE hash # Empty
      <4>1. Nodes[hash] \subseteq Hashes
          BY <1>3, <3>3, TreeParts
      <4>2. QED
          BY <1>3, <3>1, <3>3, <4>1 DEF MadeFor, InternalNodes, Internals
    <3>4. QED
        BY <3>2, <3>3
  <2>3. QED
      BY <1>1, <2>1, <2>2
<1>6. /\ DOMAIN t.ancestors = DOMAIN s.ancestors \cup ((Top(hash) \cup Kids(made)) \X {new})
      /\ \A k \in DOMAIN s.ancestors : t.ancestors[k] = s.ancestors[k]
      /\ hash # Empty => t.ancestors[<<hash, new>>] = Empty
      /\ \A p \in made : \A c \in Children(p) : t.ancestors[<<c, new>>] = p
    BY DEF NewRows
<1>7. \A k \in DOMAIN t.ancestors : k = <<k[1], k[2]>> /\ k[2] \in Nat /\ k[2] <= new
    BY <1>1, <1>6
<1> HIDE DEF last, new
(* The rows.                                                               *)
<1>8. \A k \in DOMAIN t.ancestors : RowOK(t, k)
  <2>1. TAKE k \in DOMAIN t.ancestors
  <2>2. CASE k \in DOMAIN s.ancestors
    <3>1. RowOK(s, k) /\ k[2] \in 0..last
        BY <2>2 DEF Lineage, RowOK, last
    <3>2. t.root[k[2]].hash = s.root[k[2]].hash /\ t.ancestors[k] = s.ancestors[k]
        BY <1>6, <2>2, <3>1 DEF last
    <3>3. k[2] \in 0..TreeGeneration(t)
        BY <1>1, <3>1 DEF new
    <3>4. QED
        BY <3>1, <3>2, <3>3 DEF RowOK
  <2>3. CASE k \notin DOMAIN s.ancestors
    <3>1. PICK n \in Top(hash) \cup Kids(made) : k = <<n, new>>
        BY <1>6, <2>3
    <3>2. k = <<k[1], k[2]>> /\ k[2] \in 0..TreeGeneration(t) /\ k[1] = n /\ k[2] = new
        BY <1>1, <3>1 DEF new
    <3>3. hash \in Hashes /\ hash # Empty /\ Tree(hash) = Nodes[hash]
        BY <1>3, <1>5, <3>1 DEF Top, Kids
    <3>4. CASE n = hash
      <4>1. n \in Tree(hash) /\ t.ancestors[k] = Empty
          BY <1>6, <3>1, <3>3, <3>4, TreeParts
      <4>2. QED
          BY <3>2, <3>4, <4>1 DEF RowOK, new
    <3>5. CASE n # hash
      <4>1. PICK p \in made : n \in Children(p)
          BY <3>1, <3>5 DEF Top, Kids
      <4>2. t.ancestors[k] = p /\ p \in Tree(hash)
          BY <1>5, <1>6, <3>1, <4>1
      <4>3. n \in Tree(hash)
          BY <3>3, <4>1, <4>2, ChildrenInTree
      <4>4. QED
          BY <3>2, <3>5, <4>1, <4>2, <4>3 DEF RowOK, new
    <3>6. QED
        BY <3>4, <3>5
  <2>4. QED
      BY <2>2, <2>3
(* The generations before keep theirs.                                     *)
<1>9. ASSUME NEW g \in 0..last PROVE Exact(t, g)
  <2>1. Exact(s, g) /\ t.root[g].hash = s.root[g].hash
      BY DEF Lineage, last
  <2>2. \A n : OneAncestor(s, n, g) = OneAncestor(t, n, g)
    <3>1. TAKE n
    <3>2. \A k : k \in DOMAIN t.ancestors /\ k[2] <= g => k \in DOMAIN s.ancestors
        BY <1>1, <1>6
    <3>3. Rows(s, n, g) = Rows(t, n, g)
        BY <1>6, <3>2 DEF Rows
    <3>4. \A k \in Rows(s, n, g) : t.ancestors[k] = s.ancestors[k]
        BY <1>6 DEF Rows
    <3>5. g \in Int /\ \A k \in DOMAIN s.ancestors : k[2] \in Nat
        BY <1>1
    <3>6. QED
        BY <3>3, <3>4, <3>5, SameRows
  <2>3. DOMAIN s.ancestors \subseteq DOMAIN t.ancestors
      BY <1>6
  <2>4. QED
      BY <2>1, <2>2, <2>3 DEF Exact
(* The new one.                                                            *)
<1>10. Exact(t, new)
  <2>1. t.root[new].hash = hash
      BY DEF new
  <2>2. SUFFICES ASSUME NEW n \in Tree(hash)
                 PROVE  IF n = hash THEN <<n, new>> \in DOMAIN t.ancestors
                        ELSE /\ OneAncestor(t, n, new) \in Tree(hash)
                             /\ n \in Children(OneAncestor(t, n, new))
      BY <2>1 DEF Exact
  <2>3. hash # Empty /\ hash \in Hashes /\ Tree(hash) = Nodes[hash]
      BY <1>3 DEF Tree
  <2>4. MadeFor(s, hash, made) /\ last >= 0
      BY <1>1, <1>4, <2>3 DEF last
  <2>5. CASE n = hash
      BY <1>6, <2>3, <2>5 DEF Top
  <2>6. CASE n # hash
    <3>1. PICK p \in Nodes[hash] : p \in Internals /\ n \in Children(p)
        BY <2>2, <2>3, <2>6, ParentInTree
    <3>2. SUFFICES OneAncestor(t, n, new) = p
        BY <2>3, <2>6, <3>1
    <3>3. CASE p \in made
      <4>1. <<n, new>> \in DOMAIN t.ancestors /\ t.ancestors[<<n, new>>] = p
          BY <1>6, <3>1, <3>3 DEF Kids
      <4>2. QED
          BY <1>1, <1>7, <4>1, RowHere
    <3>4. CASE p \notin made
      <4> DEFINE old == s.root[last].hash
      <4>1. p \in InternalNodes(old)
          BY <2>3, <2>4, <3>1, <3>4 DEF MadeFor, InternalNodes, TreeRoot, last, Internals
      <4>2. old # Empty
          BY <4>1 DEF InternalNodes, Tree
      <4>3. last \in DOMAIN s.root /\ last \in 0..last
          BY <1>1, <2>4
      <4>4. old \in Hashes /\ Tree(old) = Nodes[old]
          BY <4>2, <4>3, TreeOfRoot DEF Lineage
      <4>5. p \in Nodes[old] /\ n \in Nodes[old] /\ n # old
          BY <3>1, <4>1, <4>4, ChildrenInTree DEF InternalNodes
      <4>6. OneAncestor(s, n, last) \in Nodes[old] /\ n \in Children(OneAncestor(s, n, last))
          BY <4>3, <4>4, <4>5 DEF Lineage, Exact, last
      <4>7. OneAncestor(s, n, last) = p
          BY <3>1, <4>4, <4>5, <4>6, OneParent
      <4>8. n \notin Top(hash) \cup Kids(made)
        <5>1. SUFFICES ASSUME NEW q \in made, n \in Children(q) PROVE FALSE
            BY <2>6 DEF Top, Kids
        <5>2. q \in Nodes[hash]
            BY <1>5, <2>3
        <5>3. QED
            BY <2>3, <3>1, <3>4, <5>1, <5>2, OneParent
      <4>9. Rows(s, n, last) = Rows(t, n, new)
          BY <1>1, <1>6, <4>8 DEF Rows
      <4>10. \A k \in Rows(s, n, last) : t.ancestors[k] = s.ancestors[k]
          BY <1>6 DEF Rows
      <4>11. last \in Int /\ new \in Int /\ \A k \in DOMAIN s.ancestors : k[2] \in Nat
          BY <1>1
      <4>12. OneAncestor(s, n, last) = OneAncestor(t, n, new)
          BY <4>9, <4>10, <4>11, SameRows
      <4>13. QED
          BY <4>7, <4>12
    <3>5. QED
        BY <3>3, <3>4
  <2>7. QED
      BY <2>5, <2>6
<1>11. \A g \in 0..TreeGeneration(t) : Exact(t, g)
  <2>1. \A g \in 0..new : g \in 0..last \/ g = new
      BY <1>1
  <2>2. QED
      BY <1>9, <1>10, <2>1 DEF new
<1>12. QED
    BY <1>8, <1>11 DEF Lineage

(* What the methods do to the tables of nodes and of ancestors.            *)
LEMMA AddAncestorRow ==
    ASSUME NEW s, NEW hash, NEW ancestor, NEW g, IsStore(s)
    PROVE  /\ AddAncestor(s, hash, ancestor, g).node = s.node
           /\ AddAncestor(s, hash, ancestor, g).ancestors =
                Inserted([k \in {<<hash, g>>} |-> ancestor], s.ancestors)
<1> DEFINE a == Inserted([k \in {<<hash, g>>} |-> ancestor], s.ancestors)
           t == [s EXCEPT !.ancestors = a]
<1> HIDE DEF a
<1>1. t = [node |-> s.node, root |-> s.root, ancestors |-> a]
    BY DEF IsStore
<1>2. t.node = s.node /\ t.ancestors = a
    BY <1>1
<1>3. QED
    BY <1>2 DEF AddAncestor, a

LEMMA InsertRowsTable ==
    ASSUME NEW s, NEW made, NEW g, IsStore(s)
    PROVE  /\ InsertAncestorRows(s, made, g).node = s.node
           /\ InsertAncestorRows(s, made, g).ancestors = Inserted(AncestorRows(made, g), s.ancestors)
<1> DEFINE a == Inserted(AncestorRows(made, g), s.ancestors)
           t == [s EXCEPT !.ancestors = a]
<1> HIDE DEF a
<1>1. t = [node |-> s.node, root |-> s.root, ancestors |-> a]
    BY DEF IsStore
<1>2. t.node = s.node /\ t.ancestors = a
    BY <1>1
<1>3. QED
    BY <1>2 DEF InsertAncestorRows, a

LEMMA AddNodesTable ==
    ASSUME NEW s, NEW nodes, IsStore(s)
    PROVE  LET t == [s EXCEPT !.node = @ \cup nodes]
           IN  /\ IsStore(t) /\ t.root = s.root /\ t.ancestors = s.ancestors
               /\ t.node = s.node \cup nodes
<1> DEFINE a == s.node \cup nodes
           t == [s EXCEPT !.node = a]
<1> HIDE DEF a
<1>1. t = [node |-> a, root |-> s.root, ancestors |-> s.ancestors]
    BY DEF IsStore
<1>2. IsStore(t) /\ t.root = s.root /\ t.ancestors = s.ancestors /\ t.node = a
    BY <1>1 DEF IsStore
<1>3. QED
    BY <1>2 DEF a

RootRow(hash, g, table) ==
    IF hash = Empty THEN table ELSE Inserted([k \in {<<hash, g>>} |-> Empty], table)

LEMMA InsertRootTables ==
    ASSUME NEW s, NEW hash, NEW status, IsStore(s)
    PROVE  LET t == InsertRoot(s, hash, status)
           IN  /\ t.node = s.node
               /\ t.ancestors = IF status = "COMMITTED"
                                THEN RootRow(hash, TreeGeneration(s) + 1, s.ancestors)
                                ELSE s.ancestors
<1> DEFINE g == TreeGeneration(s) + 1
           row == [hash |-> hash, status |-> status]
           roots == Inserted([i \in {g} |-> row], s.root)
           t == [s EXCEPT !.root = roots]
<1>1. /\ roots = [i \in DOMAIN s.root \cup {g} |-> IF i = g THEN row ELSE s.root[i]]
  <2> HIDE DEF g, row
  <2>1. QED
      BY DEF Inserted, roots
<1>2. t = [node |-> s.node, root |-> roots, ancestors |-> s.ancestors]
  <2> HIDE DEF roots
  <2>1. QED
      BY DEF IsStore
<1>3. IsStore(t) /\ t.node = s.node /\ t.ancestors = s.ancestors
  <2>1. /\ roots = [i \in DOMAIN roots |-> roots[i]]
        /\ \A i \in DOMAIN roots : roots[i] = [hash |-> roots[i].hash, status |-> roots[i].status]
    <3>1. row = [hash |-> row.hash, status |-> row.status]
        OBVIOUS
    <3> HIDE DEF g, row, roots
    <3>2. QED
        BY <1>1, <3>1 DEF IsStore
  <2> HIDE DEF roots, t
  <2>2. QED
      BY <1>2, <2>1 DEF IsStore
<1>4. CASE ~(hash # Empty /\ status = "COMMITTED")
  <2>1. InsertRoot(s, hash, status) = t
      BY <1>4 DEF InsertRoot
  <2> HIDE DEF t, roots, row, g
  <2>2. QED
      BY <1>3, <1>4, <2>1 DEF RootRow
<1>5. CASE hash # Empty /\ status = "COMMITTED"
  <2>1. InsertRoot(s, hash, status) = AddAncestor(t, hash, Empty, g)
      BY <1>5 DEF InsertRoot
  <2> HIDE DEF g, t
  <2>2. QED
      BY <1>3, <1>5, <2>1, AddAncestorRow DEF RootRow, g
<1>6. QED
    BY <1>4, <1>5

LEMMA CommitRootTables ==
    ASSUME NEW s, NEW g \in DOMAIN s.root, IsStore(s)
    PROVE  LET t == CommitRoot(s, g)
           IN  /\ t.node = s.node
               /\ t.ancestors = RootRow(s.root[g].hash, g, s.ancestors)
<1> DEFINE hash == s.root[g].hash
           t == [s EXCEPT !.root[g].status = "COMMITTED"]
           roots == [s.root EXCEPT ![g].status = "COMMITTED"]
<1>1. t = [node |-> s.node, root |-> roots, ancestors |-> s.ancestors]
    BY DEF IsStore
<1>2. IsStore(t) /\ t.node = s.node /\ t.ancestors = s.ancestors
  <2>1. /\ roots = [i \in DOMAIN s.root |-> IF i = g THEN [hash |-> hash, status |-> "COMMITTED"]
                                            ELSE s.root[i]]
      BY DEF IsStore
  <2>2. /\ roots = [i \in DOMAIN roots |-> roots[i]]
        /\ \A i \in DOMAIN roots : roots[i] = [hash |-> roots[i].hash, status |-> roots[i].status]
    <3> HIDE DEF roots
    <3>1. QED
        BY <2>1 DEF IsStore
  <2> HIDE DEF roots, t
  <2>3. QED
      BY <1>1, <2>2 DEF IsStore
<1>3. CASE hash = Empty
  <2>1. CommitRoot(s, g) = t
      BY <1>3 DEF CommitRoot
  <2> HIDE DEF t
  <2>2. QED
      BY <1>2, <1>3, <2>1 DEF RootRow
<1>4. CASE hash # Empty
  <2>1. CommitRoot(s, g) = AddAncestor(t, hash, Empty, g)
      BY <1>4 DEF CommitRoot
  <2> HIDE DEF t, hash
  <2>2. /\ CommitRoot(s, g).node = t.node
        /\ CommitRoot(s, g).ancestors = Inserted([k \in {<<hash, g>>} |-> Empty], t.ancestors)
      BY <1>2, <2>1, AddAncestorRow
  <2>3. QED
      BY <1>2, <1>4, <2>2 DEF RootRow, hash
<1>5. QED
    BY <1>3, <1>4

(* The rows of a root and of the nodes that were made.                     *)
LEMMA RootThenRows ==
    ASSUME NEW s, NEW t, NEW hash, NEW made, NEW g, hash \in Hashes \cup {Empty},
           made \subseteq InternalNodes(hash),
           \A k \in DOMAIN s.ancestors : k[2] # g,
           t.ancestors = Inserted(AncestorRows(made, g), RootRow(hash, g, s.ancestors))
    PROVE  NewRows(s, t, hash, made, g)
<1> DEFINE a == RootRow(hash, g, s.ancestors)
           rows == AncestorRows(made, g)
<1>1. /\ DOMAIN rows = Kids(made) \X {g}
      /\ \A k \in DOMAIN rows : rows[k] = CHOOSE p \in made : k[1] \in Children(p)
    BY DEF AncestorRows, Kids
<1>2. /\ DOMAIN a = DOMAIN s.ancestors \cup (Top(hash) \X {g})
      /\ \A k \in DOMAIN s.ancestors : a[k] = s.ancestors[k]
      /\ hash # Empty => a[<<hash, g>>] = Empty
  <2>1. CASE hash = Empty
      BY <2>1 DEF RootRow, Top
  <2>2. CASE hash # Empty
    <3>1. a = Inserted([k \in {<<hash, g>>} |-> Empty], s.ancestors)
        BY <2>2 DEF RootRow
    <3>2. a = [k \in {<<hash, g>>} \cup DOMAIN s.ancestors |->
                 IF k \in {<<hash, g>>} THEN Empty ELSE s.ancestors[k]]
        BY <3>1 DEF Inserted
    <3>3. <<hash, g>> \notin DOMAIN s.ancestors
        BY DEF Top
    <3>4. Top(hash) \X {g} = {<<hash, g>>}
        BY <2>2 DEF Top
    <3> HIDE DEF a
    <3>5. QED
        BY <3>2, <3>3, <3>4
  <2>3. QED
      BY <2>1, <2>2
<1> HIDE DEF a, rows
<1>3. /\ DOMAIN t.ancestors = DOMAIN rows \cup DOMAIN a
      /\ \A k \in DOMAIN t.ancestors :
           t.ancestors[k] = IF k \in DOMAIN rows THEN rows[k] ELSE a[k]
    BY DEF Inserted, a, rows
<1>4. DOMAIN t.ancestors = DOMAIN s.ancestors \cup ((Top(hash) \cup Kids(made)) \X {g})
    BY <1>1, <1>2, <1>3
<1>5. \A k \in DOMAIN s.ancestors : t.ancestors[k] = s.ancestors[k]
  <2>1. TAKE k \in DOMAIN s.ancestors
  <2>2. k \notin DOMAIN rows
      BY <1>1
  <2>3. QED
      BY <1>2, <1>3, <2>2
<1>6. hash # Empty => Tree(hash) = Nodes[hash] /\ hash \in Hashes
    BY DEF Tree
<1>7. hash = Empty => made = {}
    BY DEF InternalNodes, Tree
<1>8. hash # Empty => t.ancestors[<<hash, g>>] = Empty
  <2>1. HAVE hash # Empty
  <2>2. hash \notin Kids(made)
    <3>1. SUFFICES ASSUME NEW p \in made, hash \in Children(p) PROVE FALSE
        BY DEF Kids
    <3>2. p \in Nodes[hash]
        BY <1>6, <2>1 DEF InternalNodes
    <3>3. QED
        BY <1>6, <2>1, <3>1, <3>2, ChildrenInTree
  <2>3. <<hash, g>> \notin DOMAIN rows
      BY <1>1, <2>2
  <2>4. <<hash, g>> \in DOMAIN a
      BY <1>2, <2>1 DEF Top
  <2>5. QED
      BY <1>2, <1>3, <2>1, <2>3, <2>4
<1>9. \A p \in made : \A c \in Children(p) : t.ancestors[<<c, g>>] = p
  <2>1. TAKE p \in made
  <2>2. TAKE c \in Children(p)
  <2>3. hash \in Hashes /\ made \subseteq Nodes[hash]
      BY <1>6, <1>7 DEF InternalNodes
  <2>4. <<c, g>> \in DOMAIN rows
      BY <1>1 DEF Kids
  <2> DEFINE q == CHOOSE q \in made : c \in Children(q)
  <2>5. q \in made /\ c \in Children(q)
      BY Zenon
  <2>6. rows[<<c, g>>] = q
      BY <1>1, <2>4
  <2> HIDE DEF q
  <2>7. q = p
      BY <2>3, <2>5, OneParent
  <2>8. QED
      BY <1>3, <2>4, <2>6, <2>7
<1>10. QED
    BY <1>4, <1>5, <1>8, <1>9 DEF NewRows

(* Generations are dropped, or pending roots, or nodes are added.          *)
LEMMA Restricted ==
    ASSUME NEW s, NEW t, Lineage(s), Contiguous(t), NodesOK(t),
           TreeGeneration(t) <= TreeGeneration(s),
           \A g \in 0..TreeGeneration(t) : t.root[g].hash = s.root[g].hash,
           DOMAIN t.ancestors = {k \in DOMAIN s.ancestors : k[2] <= TreeGeneration(t)},
           \A k \in DOMAIN t.ancestors : t.ancestors[k] = s.ancestors[k]
    PROVE  Lineage(t)
<1> DEFINE last == TreeGeneration(t)
<1>1. /\ last \in Int /\ TreeGeneration(s) \in Int
      /\ \A k \in DOMAIN s.ancestors : k = <<k[1], k[2]>> /\ k[2] \in Nat
    BY RowTypes DEF Contiguous
<1>2. \A k \in DOMAIN t.ancestors : RowOK(t, k)
  <2>1. TAKE k \in DOMAIN t.ancestors
  <2>2. k \in DOMAIN s.ancestors /\ RowOK(s, k) /\ t.ancestors[k] = s.ancestors[k]
      BY DEF Lineage
  <2>3. k[2] \in 0..last
      BY <1>1, <2>2
  <2>4. t.root[k[2]].hash = s.root[k[2]].hash
      BY <2>3
  <2>5. QED
      BY <2>2, <2>3, <2>4 DEF RowOK
<1>3. \A g \in 0..last : Exact(t, g)
  <2>1. TAKE g \in 0..last
  <2>2. g \in 0..TreeGeneration(s) /\ g \in Int /\ g <= last
      BY <1>1
  <2>3. Exact(s, g) /\ t.root[g].hash = s.root[g].hash
      BY <2>2 DEF Lineage
  <2>4. \A n : OneAncestor(s, n, g) = OneAncestor(t, n, g)
    <3>1. TAKE n
    <3>2. Rows(s, n, g) = Rows(t, n, g)
        BY <1>1, <2>2 DEF Rows
    <3>3. \A k \in Rows(s, n, g) : t.ancestors[k] = s.ancestors[k]
        BY <3>2 DEF Rows
    <3>4. QED
        BY <1>1, <2>2, <3>2, <3>3, SameRows
  <2>5. \A n : <<n, g>> \in DOMAIN s.ancestors => <<n, g>> \in DOMAIN t.ancestors
      BY <2>2
  <2>6. QED
      BY <2>3, <2>4, <2>5 DEF Exact
<1>4. QED
    BY <1>2, <1>3 DEF Lineage

LEMMA NodesAdded ==
    ASSUME NEW s, NEW nodes, Lineage(s), nodes \subseteq Hashes,
           \A n \in nodes : Children(n) \subseteq s.node \cup nodes
    PROVE  Lineage([s EXCEPT !.node = @ \cup nodes])
<1> DEFINE t == [s EXCEPT !.node = @ \cup nodes]
<1>1. IsStore(s)
    BY DEF Lineage, Contiguous
<1>2. IsStore(t) /\ t.root = s.root /\ t.ancestors = s.ancestors /\ t.node = s.node \cup nodes
    BY <1>1, AddNodesTable
<1> HIDE DEF t
<1>3. Contiguous(t) /\ TreeGeneration(t) = TreeGeneration(s)
    BY <1>1, <1>2, OtherTables DEF Lineage
<1>4. NodesOK(t)
    BY <1>2 DEF Lineage, NodesOK
<1>5. /\ TreeGeneration(s) \in Int
      /\ \A k \in DOMAIN s.ancestors : k[2] <= TreeGeneration(s)
    BY RowTypes
<1>6. Lineage(t)
    BY <1>2, <1>3, <1>4, <1>5, Restricted
<1>7. QED
    BY <1>6 DEF t

LEMMA RollbackLineage ==
    ASSUME NEW s, NEW n \in Int, n >= -1, Lineage(s)
    PROVE  Lineage(RollbackToGeneration(s, n))
<1> DEFINE roots == [g \in {g \in DOMAIN s.root : g <= n} |-> s.root[g]]
           rows == [k \in {k \in DOMAIN s.ancestors : k[2] <= n} |-> s.ancestors[k]]
           t == RollbackToGeneration(s, n)
<1>0. IsStore(s) /\ Contiguous(s)
    BY DEF Lineage, Contiguous
<1>1. t = [node |-> s.node, root |-> roots, ancestors |-> rows]
  <2>1. t = [s EXCEPT !.ancestors = rows, !.root = roots]
      BY DEF RollbackToGeneration
  <2> HIDE DEF roots, rows, t
  <2>2. QED
      BY <1>0, <2>1 DEF IsStore
<1>2. t.node = s.node /\ t.root = roots /\ t.ancestors = rows
  <2> HIDE DEF t, roots, rows
  <2>1. QED
      BY <1>1
<1>3. /\ Contiguous(t)
      /\ TreeGeneration(t) = IF n < TreeGeneration(s) THEN n ELSE TreeGeneration(s)
      /\ \A g \in 0..TreeGeneration(s) : g <= n => t.root[g] = s.root[g]
    BY <1>0, RollbackIs
<1> HIDE DEF t
<1>4. /\ TreeGeneration(s) \in Int
      /\ \A k \in DOMAIN s.ancestors : k[2] <= TreeGeneration(s) /\ k[2] \in Nat
    BY RowTypes
<1>5. NodesOK(t)
    BY <1>2 DEF Lineage, NodesOK
<1>6. \A g \in 0..TreeGeneration(t) : t.root[g].hash = s.root[g].hash
  <2>1. \A g \in 0..TreeGeneration(t) : g \in 0..TreeGeneration(s) /\ g <= n
      BY <1>3, <1>4
  <2>2. QED
      BY <1>3, <2>1
<1>7. /\ DOMAIN t.ancestors = {k \in DOMAIN s.ancestors : k[2] <= TreeGeneration(t)}
      /\ \A k \in DOMAIN t.ancestors : t.ancestors[k] = s.ancestors[k]
  <2>1. \A k \in DOMAIN s.ancestors : k[2] <= n <=> k[2] <= TreeGeneration(t)
      BY <1>3, <1>4
  <2>2. QED
      BY <1>2, <2>1
<1>8. TreeGeneration(t) <= TreeGeneration(s)
    BY <1>3, <1>4
<1>9. Lineage(t)
    BY <1>3, <1>5, <1>6, <1>7, <1>8, Restricted
<1>10. QED
    BY <1>9 DEF t

LEMMA ClearLineage ==
    ASSUME NEW s, Lineage(s)
    PROVE  Lineage(ClearPendingRoots(s))
<1> DEFINE roots == [g \in DOMAIN s.root \ PendingRoots(s) |-> s.root[g]]
           t == ClearPendingRoots(s)
<1>0. IsStore(s) /\ Contiguous(s)
    BY DEF Lineage, Contiguous
<1>1. t = [node |-> s.node, root |-> roots, ancestors |-> s.ancestors]
  <2>1. t = [s EXCEPT !.root = roots]
      BY DEF ClearPendingRoots
  <2> HIDE DEF roots, t
  <2>2. QED
      BY <1>0, <2>1 DEF IsStore
<1>2. t.node = s.node /\ t.root = roots /\ t.ancestors = s.ancestors
  <2> HIDE DEF t, roots
  <2>1. QED
      BY <1>1
<1>3. /\ Contiguous(t) /\ TreeGeneration(t) = TreeGeneration(s)
      /\ \A g \in 0..TreeGeneration(s) : t.root[g] = s.root[g]
    BY <1>0, ClearPendingIs
<1> HIDE DEF t
<1>4. /\ TreeGeneration(s) \in Int
      /\ \A k \in DOMAIN s.ancestors : k[2] <= TreeGeneration(s)
    BY RowTypes
<1>5. NodesOK(t)
    BY <1>2 DEF Lineage, NodesOK
<1>6. /\ DOMAIN t.ancestors = {k \in DOMAIN s.ancestors : k[2] <= TreeGeneration(t)}
      /\ \A k \in DOMAIN t.ancestors : t.ancestors[k] = s.ancestors[k]
      /\ \A g \in 0..TreeGeneration(t) : t.root[g].hash = s.root[g].hash
      /\ TreeGeneration(t) <= TreeGeneration(s)
    BY <1>2, <1>3, <1>4
<1>7. Lineage(t)
    BY <1>3, <1>5, <1>6, Restricted
<1>8. QED
    BY <1>7 DEF t

LEMMA PendingLineage ==
    ASSUME NEW s, NEW hash, Lineage(s), hash \in s.node \cup {Empty},
           TreeGeneration(s) < 0 => hash = Empty
    PROVE  Lineage(InsertRoot(s, hash, "PENDING"))
<1> DEFINE t == InsertRoot(s, hash, "PENDING")
<1>1. IsStore(s) /\ Contiguous(s) /\ NodesOK(s)
    BY DEF Lineage, Contiguous
<1>2. Put(s, t, TreeGeneration(s) + 1, hash, "PENDING")
    BY <1>1, InsertRootIs
<1>3. t.node = s.node /\ t.ancestors = s.ancestors
    BY <1>1, InsertRootTables
<1> HIDE DEF t
<1>4. /\ Contiguous(t) /\ TreeGeneration(t) = TreeGeneration(s)
      /\ \A g \in 0..TreeGeneration(s) : t.root[g] = s.root[g]
    BY <1>1, <1>2, PutPending
<1>5. /\ TreeGeneration(s) \in Int /\ TreeGeneration(s) >= -1
      /\ \A k \in DOMAIN s.ancestors : k[2] <= TreeGeneration(s)
    BY RowTypes
<1>6. NodesOK(t)
  <2>1. \A g \in DOMAIN t.root : t.root[g].hash \in s.node \cup {Empty}
      BY <1>1, <1>2 DEF Put, NodesOK
  <2>2. 0 \in DOMAIN t.root => t.root[0].hash = Empty
      BY <1>1, <1>2, <1>5 DEF Put, NodesOK
  <2>3. DOMAIN t.root \subseteq Nat
      BY <1>1, <1>2, <1>5 DEF Put, NodesOK
  <2>4. QED
      BY <1>1, <1>3, <2>1, <2>2, <2>3 DEF NodesOK
<1>7. Lineage(t)
    BY <1>3, <1>4, <1>5, <1>6, Restricted
<1>8. QED
    BY <1>7 DEF t

(* A root is committed with the rows of its new nodes.                     *)
LEMMA CommittedLineage ==
    ASSUME NEW s, NEW t, NEW u, NEW hash, NEW made, Lineage(s),
           Put(s, t, TreeGeneration(s) + 1, hash, "COMMITTED"),
           t.node = s.node,
           t.ancestors = RootRow(hash, TreeGeneration(s) + 1, s.ancestors),
           IsStore(u), u.root = t.root, u.node = t.node,
           u.ancestors = Inserted(AncestorRows(made, TreeGeneration(s) + 1), t.ancestors),
           hash \in s.node \cup {Empty},
           TreeGeneration(s) >= 0 => MadeFor(s, hash, made),
           TreeGeneration(s) < 0 => hash = Empty /\ made = {}
    PROVE  /\ Lineage(u)
           /\ TreeGeneration(u) = TreeGeneration(s) + 1
           /\ TreeRoot(u) = hash
<1> DEFINE new == TreeGeneration(s) + 1
<1>1. IsStore(s) /\ Contiguous(s) /\ NodesOK(s)
    BY DEF Lineage, Contiguous
<1>2. /\ TreeGeneration(s) \in Int /\ TreeGeneration(s) >= -1
      /\ \A k \in DOMAIN s.ancestors : k[2] \in Nat /\ k[2] <= TreeGeneration(s)
    BY RowTypes
<1>3. /\ Contiguous(t)
      /\ TreeGeneration(t) = new
      /\ t.root[TreeGeneration(t)].hash = hash
      /\ \A g \in 0..TreeGeneration(s) : t.root[g] = s.root[g]
    BY <1>1, PutCommitted
<1>4. Contiguous(u) /\ TreeGeneration(u) = new
    BY <1>3, OtherTables DEF Put
<1>5. hash \in Hashes \cup {Empty}
    BY <1>1 DEF NodesOK
<1>6. NodesOK(u)
  <2>1. \A g \in DOMAIN t.root : t.root[g].hash \in s.node \cup {Empty}
      BY <1>1 DEF Put, NodesOK
  <2>2. 0 \in DOMAIN t.root => t.root[0].hash = Empty
      BY <1>1, <1>2 DEF Put, NodesOK
  <2>3. DOMAIN t.root \subseteq Nat
      BY <1>1, <1>2 DEF Put, NodesOK
  <2>4. QED
      BY <1>1, <2>1, <2>2, <2>3 DEF NodesOK
<1>7. made \subseteq InternalNodes(hash)
    BY <1>2 DEF MadeFor
<1>8. NewRows(s, u, hash, made, new)
  <2>1. \A k \in DOMAIN s.ancestors : k[2] # new
      BY <1>2
  <2>2. QED
      BY <1>5, <1>7, <2>1, RootThenRows
<1>9. /\ u.root[TreeGeneration(u)].hash = hash
      /\ \A g \in 0..TreeGeneration(s) : u.root[g].hash = s.root[g].hash
    BY <1>3, <1>4
<1>10. Lineage(u)
  <2>1. NewRows(s, u, hash, made, TreeGeneration(u)) /\ TreeGeneration(u) = TreeGeneration(s) + 1
      BY <1>4, <1>8
  <2>2. TreeGeneration(s) < 0 => made = {}
      OBVIOUS
  <2> HIDE DEF new
  <2>3. QED
      BY <1>4, <1>6, <1>9, <2>1, <2>2, NewGeneration
<1>11. QED
    BY <1>4, <1>9, <1>10 DEF TreeRoot

LEMMA NewRootLineage ==
    ASSUME NEW s, NEW hash, NEW made, Lineage(s), TreeGeneration(s) >= 0,
           MadeFor(s, hash, made), hash \in s.node \cup made \cup {Empty},
           \A p \in made : Children(p) \subseteq s.node \cup made
    PROVE  /\ Lineage(WithNewRoot(s, hash, made))
           /\ TreeGeneration(WithNewRoot(s, hash, made)) = TreeGeneration(s) + 1
           /\ TreeRoot(WithNewRoot(s, hash, made)) = hash
<1> DEFINE a == [s EXCEPT !.node = @ \cup made]
           t == InsertRoot(a, hash, "COMMITTED")
           u == InsertAncestorRows(t, made, TreeGeneration(t))
<1>1. IsStore(s) /\ TreeGeneration(s) \in Int
    BY DEF Lineage, Contiguous
<1>2. IsStore(a) /\ a.root = s.root /\ a.node = s.node \cup made
    BY <1>1, AddNodesTable
<1>3. made \subseteq Hashes
  <2>1. CASE hash = Empty
      BY <2>1 DEF MadeFor, InternalNodes, Tree
  <2>2. CASE hash # Empty
      BY <2>2, TreeParts DEF MadeFor, InternalNodes, Tree
  <2>3. QED
      BY <2>1, <2>2
<1>4. Lineage(a)
    BY <1>3, NodesAdded
<1> HIDE DEF a
<1>5. TreeGeneration(a) = TreeGeneration(s) /\ TreeRoot(a) = TreeRoot(s)
  <2>1. TreeGeneration(a) = TreeGeneration(s)
      BY <1>2, RootsOnly
  <2>2. QED
      BY <1>2, <2>1 DEF TreeRoot
<1>6. Put(a, t, TreeGeneration(a) + 1, hash, "COMMITTED")
    BY <1>2, InsertRootIs
<1>7. t.node = a.node /\ t.ancestors = RootRow(hash, TreeGeneration(a) + 1, a.ancestors)
    BY <1>2, InsertRootTables
<1> HIDE DEF t
<1>8. IsStore(t) /\ TreeGeneration(t) = TreeGeneration(a) + 1
    BY <1>4, <1>6, PutCommitted DEF Put, Lineage
<1>9. /\ IsStore(u) /\ u.root = t.root /\ u.node = t.node
      /\ u.ancestors = Inserted(AncestorRows(made, TreeGeneration(a) + 1), t.ancestors)
    BY <1>8, InsertRowsIs, InsertRowsTable
<1>10. MadeFor(a, hash, made) /\ hash \in a.node \cup {Empty} /\ ~(TreeGeneration(a) < 0)
    BY <1>1, <1>2, <1>5 DEF MadeFor
<1> HIDE DEF u
<1>11. Lineage(u) /\ TreeGeneration(u) = TreeGeneration(a) + 1 /\ TreeRoot(u) = hash
    BY <1>4, <1>6, <1>7, <1>9, <1>10, CommittedLineage
<1>12. WithNewRoot(s, hash, made) = u
    BY DEF WithNewRoot, u, t, a
<1>13. QED
    BY <1>5, <1>11, <1>12

--------------------------------------------------------------------------------
(* get_ancestors_optimized finds the path to the root.                     *)

UpFrom(up, s, n) ==
    up = [i \in 0..MaxHeight + 1 |->
            IF i = 0 THEN n
            ELSE IF up[i - 1] = Empty THEN Empty
            ELSE OneAncestor(s, up[i - 1], TreeGeneration(s))]

LEMMA UpExists ==
    ASSUME NEW s, NEW n, TreeRoot(s) # Empty
    PROVE  \E up : /\ UpFrom(up, s, n)
                   /\ Ancestors(s, n) =
                        [i \in 1..Max({j \in 0..MaxHeight + 1 : up[j] # Empty}) |-> up[i]]
<1> DEFINE Step(f, i) ==
             IF i = 0 THEN n
             ELSE IF f[i - 1] = Empty THEN Empty
             ELSE OneAncestor(s, f[i - 1], TreeGeneration(s))
           Upto(f, k) == f = [i \in 0..k |-> Step(f, i)]
           T == {k \in Nat : ~\E f : Upto(f, k)}
<1>1. T = {}
  <2> SUFFICES ASSUME T # {} PROVE FALSE
      OBVIOUS
  <2>1. PICK k \in T : \A j \in T : k <= j
      BY LeastNumber
  <2>2. k # 0
    <3> DEFINE g == [i \in 0..0 |-> n]
    <3>1. g = [i \in 0..0 |-> Step(g, i)]
        OBVIOUS
    <3>2. Upto(g, 0)
        BY <3>1
    <3>3. QED
        BY <2>1, <3>2
  <2>3. k - 1 \in Nat /\ k - 1 \notin T /\ k \in Nat
    <3>1. k \in Nat
        BY <2>1
    <3> HIDE DEF T
    <3>2. QED
        BY <2>1, <2>2, <3>1
  <2>4. PICK f : Upto(f, k - 1)
      BY <2>3
  <2> DEFINE g == [i \in 0..k |-> IF i = k THEN Step(f, k) ELSE f[i]]
  <2>5. \A i \in 0..k : g[i] = Step(g, i)
    <3>1. TAKE i \in 0..k
    <3>2. i # 0 => i - 1 \in 0..k /\ i - 1 # k /\ g[i - 1] = f[i - 1]
        BY <2>3
    <3>3. Step(f, i) = Step(g, i)
      <4> HIDE DEF g
      <4>1. QED
          BY <3>2
    <3>4. g[i] = Step(f, i)
      <4>1. CASE i = k
          BY <4>1
      <4>2. CASE i # k
        <5>1. i \in 0..(k - 1)
            BY <2>3, <4>2
        <5>2. f[i] = Step(f, i)
          <6> HIDE DEF Step
          <6>1. QED
              BY <2>4, <5>1
        <5>3. QED
            BY <4>2, <5>2
      <4>3. QED
          BY <4>1, <4>2
    <3>5. QED
        BY <3>3, <3>4
  <2>6. Upto(g, k)
    <3> HIDE DEF Step
    <3>1. QED
        BY <2>5
  <2>7. QED
      BY <2>1, <2>6
<1>2. \E f : Upto(f, MaxHeight + 1)
  <2>1. MaxHeight + 1 \in Nat
      BY DataStoreAssumption
  <2> HIDE DEF Upto
  <2>2. QED
      BY <1>1, <2>1
<1> DEFINE up == CHOOSE f : Upto(f, MaxHeight + 1)
<1>3. Upto(up, MaxHeight + 1)
  <2> HIDE DEF Upto
  <2>1. QED
      BY <1>2, Zenon
<1>4. Ancestors(s, n) = [i \in 1..Max({j \in 0..MaxHeight + 1 : up[j] # Empty}) |-> up[i]]
    BY Zenon DEF Ancestors
<1>5. UpFrom(up, s, n)
    BY <1>3, Zenon DEF UpFrom
<1> HIDE DEF up
<1>6. QED
    BY <1>4, <1>5

LEMMA AncestorsPath ==
    ASSUME NEW s, NEW n, Lineage(s), TreeRoot(s) # Empty, n # Empty
    PROVE  LET path == Ancestors(s, n)
           IN  /\ path \in Seq(Internals)
               /\ \A i \in 1..Len(path) :
                    /\ path[i] \in s.node
                    /\ (IF i = 1 THEN n ELSE path[i - 1]) \in Children(path[i])
               /\ path = <<>> => OneAncestor(s, n, TreeGeneration(s)) = Empty
<1>1. PICK up : /\ UpFrom(up, s, n)
                /\ Ancestors(s, n) =
                     [i \in 1..Max({j \in 0..MaxHeight + 1 : up[j] # Empty}) |-> up[i]]
    BY UpExists
<1> DEFINE end == MaxHeight + 1
           H == {j \in 0..end : up[j] # Empty}
           height == Max(H)
           path == Ancestors(s, n)
<1>2. end \in Nat /\ 1 \in 0..end /\ 0 \in 0..end
    BY DataStoreAssumption
<1>3. /\ up[0] = n
      /\ \A i \in 1..end : up[i] = IF up[i - 1] = Empty THEN Empty
                                   ELSE OneAncestor(s, up[i - 1], TreeGeneration(s))
    BY <1>1, <1>2 DEF UpFrom
<1>4. height \in H /\ \A j \in H : j <= height
  <2> DEFINE T == {end - j : j \in H}
  <2>1. T \subseteq Nat /\ T # {}
      BY <1>2, <1>3
  <2>2. PICK d \in T : \A e \in T : d <= e
    <3> HIDE DEF T
    <3>1. QED
        BY <2>1, LeastNumber
  <2>3. PICK j \in H : d = end - j
      OBVIOUS
  <2>4. \A i \in H : j >= i
    <3>1. TAKE i \in H
    <3>2. d <= end - i
        BY <2>2
    <3>3. QED
        BY <1>2, <2>3, <3>2
  <2>5. height \in H /\ \A i \in H : height >= i
    <3> HIDE DEF H
    <3>1. QED
        BY <2>3, <2>4, Zenon DEF Max
  <2>6. QED
      BY <1>2, <2>5
<1> HIDE DEF height
<1>5. height \in 0..end /\ up[height] # Empty /\ height \in Nat
    BY <1>2, <1>4
<1>6. \A i \in 0..height : up[i] # Empty
  <2> DEFINE T == {height - i : i \in {i \in 0..height : up[i] = Empty}}
  <2> SUFFICES ASSUME T # {} PROVE FALSE
      OBVIOUS
  <2>1. T \subseteq Nat
      BY <1>5
  <2>2. PICK d \in T : \A e \in T : d <= e
    <3> HIDE DEF T
    <3>1. QED
        BY <2>1, LeastNumber
  <2>3. PICK i \in 0..height : d = height - i /\ up[i] = Empty
      OBVIOUS
  <2>4. i + 1 \in 1..end /\ i + 1 \in 0..height /\ (i + 1) - 1 = i
      BY <1>2, <1>5, <2>3
  <2>5. up[i + 1] = Empty
      BY <1>3, <2>3, <2>4
  <2>6. height - (i + 1) \in T
      BY <2>4, <2>5
  <2>7. d <= height - (i + 1)
      BY <2>2, <2>6
  <2>8. QED
      BY <1>5, <2>3, <2>7
<1>7. \A i \in 1..height : /\ up[i] \in s.node \cap Internals
                           /\ up[i - 1] \in Children(up[i])
  <2>1. TAKE i \in 1..height
  <2>2. i \in 1..end /\ i - 1 \in 0..height /\ i \in 0..height
      BY <1>2, <1>5
  <2>3. up[i] # Empty /\ up[i] = OneAncestor(s, up[i - 1], TreeGeneration(s))
      BY <1>3, <1>6, <2>2
  <2>4. QED
      BY <2>3, ParentIs
<1>8. path = [i \in 1..height |-> up[i]]
    BY <1>1 DEF height
<1> HIDE DEF path
<1>9. path \in Seq(Internals) /\ Len(path) = height /\ \A i \in 1..height : path[i] = up[i]
    BY <1>5, <1>7, <1>8
<1>10. \A i \in 1..height : up[i - 1] = IF i = 1 THEN n ELSE path[i - 1]
  <2>1. TAKE i \in 1..height
  <2>2. i # 1 => i - 1 \in 1..height
      BY <1>5
  <2>3. QED
      BY <1>3, <1>9, <2>2
<1>11. path = <<>> => OneAncestor(s, n, TreeGeneration(s)) = Empty
  <2>1. HAVE path = <<>>
  <2>2. height = 0
      BY <1>9, <2>1
  <2>3. up[1] = Empty
      BY <1>2, <1>4, <2>2
  <2>4. QED
      BY <1>2, <1>3, <2>3
<1>12. QED
    BY <1>7, <1>9, <1>10, <1>11 DEF path

--------------------------------------------------------------------------------
(* Changes of one key.                                                     *)

(* A node without an ancestor is not below the root.                       *)
LEMMA NoAncestor ==
    ASSUME NEW s, NEW n, Lineage(s), TreeGeneration(s) >= 0,
           OneAncestor(s, n, TreeGeneration(s)) = Empty, n \in Tree(TreeRoot(s))
    PROVE  n = TreeRoot(s)
<1>1. TreeGeneration(s) \in 0..TreeGeneration(s) /\ TreeGeneration(s) \in DOMAIN s.root
    BY RowTypes
<1>2. Exact(s, TreeGeneration(s)) /\ NodesOK(s)
    BY <1>1 DEF Lineage
<1>3. Tree(TreeRoot(s)) \subseteq Hashes
    BY <1>1, <1>2, TreeOfRoot DEF TreeRoot, NodesOK
<1>4. QED
    BY <1>2, <1>3, TreeParts DEF Exact, TreeRoot

(* The root of the last generation.                                        *)
LEMMA RootIs ==
    ASSUME NEW s, Lineage(s), TreeGeneration(s) >= 0, TreeRoot(s) # Empty
    PROVE  /\ TreeRoot(s) \in Hashes /\ TreeRoot(s) \in s.node
           /\ Tree(TreeRoot(s)) = Nodes[TreeRoot(s)]
           /\ Nodes[TreeRoot(s)] \subseteq s.node
           /\ KeysValues(TreeRoot(s)) = Leafs(TreeRoot(s))
           /\ InternalNodes(TreeRoot(s)) = Inner(TreeRoot(s))
<1>1. TreeGeneration(s) \in DOMAIN s.root
    BY RowTypes
<1>2. QED
    BY <1>1, TreeOfRoot DEF Lineage, TreeRoot, KeysValues, InternalNodes, Leafs, Inner

LEMMA PathToRoot ==
    ASSUME NEW s, NEW n \in Hashes, Lineage(s), TreeRoot(s) # Empty,
           Ancestors(s, n) # <<>>, ReachesRoot(s, Ancestors(s, n))
    PROVE  /\ PathTo(TreeRoot(s), n, Ancestors(s, n))
           /\ \A i \in 1..Len(Ancestors(s, n)) : Ancestors(s, n)[i] \in s.node
<1> DEFINE path == Ancestors(s, n)
<1>1. n # Empty
    BY TreeParts
<1>2. /\ path \in Seq(Internals)
      /\ \A i \in 1..Len(path) :
           /\ path[i] \in s.node
           /\ (IF i = 1 THEN n ELSE path[i - 1]) \in Children(path[i])
    BY <1>1, AncestorsPath
<1>3. path[Len(path)] = TreeRoot(s)
    BY DEF ReachesRoot, Last
<1> HIDE DEF path
<1>4. PathTo(TreeRoot(s), n, path)
    BY <1>2, <1>3 DEF PathTo, path
<1>5. QED
    BY <1>2, <1>4 DEF path

LEMMA ReplacedNothing ==
    ASSUME NEW node, NEW old
    PROVE  Replaced(node, old, <<>>).node = node /\ Replaced(node, old, <<>>).made = {}
<1>1. Len(<<>>) = 0 /\ Len(<<>>) \in Nat
    OBVIOUS
<1>2. PICK new : /\ ReplacedNodes(new, node, old, <<>>)
                 /\ Replaced(node, old, <<>>) =
                      [node |-> new[Len(<<>>)], made |-> {new[i] : i \in 1..Len(<<>>)}]
    BY <1>1, ReplacedNodesExist
<1>3. new[0] = node
    BY <1>1, <1>2 DEF ReplacedNodes
<1>4. 1..0 = {}
    OBVIOUS
<1>5. QED
    BY <1>1, <1>2, <1>3, <1>4

LEMMA InsertLineage ==
    ASSUME NEW s, NEW leaf \in Terminals, NEW reference, NEW side,
           Lineage(s), TreeGeneration(s) >= 0, TreeRoot(s) # Empty,
           reference \in s.node \cap Terminals,
           ReachesRoot(s, Ancestors(s, reference)),
           \A n \in KeysValues(TreeRoot(s)) \cup {reference} : Key[n] # Key[leaf]
    PROVE  LET t == Insert(s, leaf, reference, side)
           IN  /\ Lineage(t)
               /\ TreeGeneration(t) = TreeGeneration(s) + 1
               /\ reference \in Tree(TreeRoot(s)) =>
                    KeysValues(TreeRoot(t)) = KeysValues(TreeRoot(s)) \cup {leaf}
<1> DEFINE r == TreeRoot(s)
           path == Ancestors(s, reference)
           pair == IF side = "LEFT" THEN InternalNode(leaf, reference)
                   ELSE InternalNode(reference, leaf)
           up == Replaced(pair, reference, path)
           a == [s EXCEPT !.node = @ \cup {leaf}]
           made == up.made \cup {pair}
           t == WithNewRoot(a, up.node, made)
<1>1. Insert(s, leaf, reference, side) = t
    BY DEF Insert
<1>2. /\ leaf \in Hashes /\ reference \in Hashes /\ leaf # Empty /\ reference # Empty
      /\ Nodes[leaf] = {leaf} /\ Nodes[reference] = {reference}
      /\ Children(leaf) = {}
    BY TreeParts
<1>3. /\ r \in Hashes /\ r \in s.node /\ Tree(r) = Nodes[r] /\ Nodes[r] \subseteq s.node
      /\ KeysValues(r) = Leafs(r) /\ InternalNodes(r) = Inner(r)
    BY RootIs
<1>4. IsStore(s) /\ s.node \subseteq Hashes /\ TreeGeneration(s) \in Int
    BY DEF Lineage, Contiguous, NodesOK
<1>5. IsStore(a) /\ a.root = s.root /\ a.node = s.node \cup {leaf}
    BY <1>4, AddNodesTable
<1>6. Lineage(a)
    BY <1>2, NodesAdded
<1> HIDE DEF a
<1>7. TreeGeneration(a) = TreeGeneration(s) /\ TreeRoot(a) = r
  <2>1. TreeGeneration(a) = TreeGeneration(s)
      BY <1>5, RootsOnly
  <2>2. QED
      BY <1>5, <2>1 DEF TreeRoot
<1>8. /\ pair \in Internals /\ Children(pair) = {leaf, reference}
      /\ Nodes[pair] = {pair, leaf, reference} /\ pair \in Hashes /\ pair \notin Terminals
  <2>1. pair \in Internals /\ {Left[pair], Right[pair]} = {leaf, reference}
      BY <1>2, Joined
  <2> HIDE DEF pair
  <2>2. \/ Left[pair] = leaf /\ Right[pair] = reference
        \/ Left[pair] = reference /\ Right[pair] = leaf
      BY <2>1
  <2>3. QED
      BY <1>2, <2>1, <2>2, TreeParts DEF Internals
<1> HIDE DEF pair
<1>9. /\ Leafs(pair) = {leaf, reference} /\ Inner(pair) = {pair} /\ Leafs(reference) = {reference}
    BY <1>2, <1>8 DEF Leafs, Inner
<1>10. CASE path = <<>>
  <2>1. up.node = pair /\ made = {pair}
      BY <1>10, ReplacedNothing
  <2>2. MadeFor(a, pair, {pair})
    <3>1. InternalNodes(pair) = {pair}
        BY <1>8, <1>9, TreeParts DEF InternalNodes, Tree, Inner
    <3>2. QED
        BY <1>8, <3>1 DEF MadeFor
  <2>3. \A p \in {pair} : Children(p) \subseteq a.node \cup {pair}
      BY <1>5, <1>8
  <2> HIDE DEF up, made
  <2>4. Lineage(t) /\ TreeGeneration(t) = TreeGeneration(a) + 1 /\ TreeRoot(t) = pair
      BY <1>6, <1>7, <2>1, <2>2, <2>3, NewRootLineage
  <2>5. KeysValues(pair) = {leaf, reference}
      BY <1>8, <1>9, TreeParts DEF KeysValues, Tree, Leafs
  <2>6. ASSUME reference \in Tree(r) PROVE KeysValues(r) = {reference}
    <3>1. OneAncestor(s, reference, TreeGeneration(s)) = Empty
        BY <1>2, <1>10, AncestorsPath
    <3>2. reference = r
        BY <2>6, <3>1, NoAncestor
    <3>3. QED
        BY <1>3, <1>9, <3>2
  <2> HIDE DEF t
  <2>7. QED
      BY <1>1, <1>7, <2>4, <2>5, <2>6
<1>11. CASE path # <<>>
  <2>1. PathTo(r, reference, path)
      BY <1>2, <1>11, PathToRoot
  <2>2. reference \in Nodes[r] /\ reference \in Leafs(r)
    <3>1. Nodes[reference] \subseteq Nodes[r]
        BY <1>2, <1>3, <2>1, PathInTree
    <3>2. QED
        BY <1>2, <3>1 DEF Leafs
  <2>3. Apart(pair, r, reference)
    <3>1. SUFFICES ASSUME NEW x \in {leaf, reference}, NEW y \in Leafs(r), y # reference
                   PROVE  Key[x] # Key[y]
        BY <1>9 DEF Apart
    <3>2. CASE x = leaf
        BY <1>3, <3>1, <3>2
    <3>3. CASE x = reference
        BY <1>3, <2>2, <3>1, <3>3, DataStoreAssumption DEF Leafs
    <3>4. QED
        BY <3>1, <3>2, <3>3
  <2>4. /\ up.node \in Hashes /\ pair \in Nodes[up.node]
        /\ Leafs(up.node) = (Leafs(r) \ Leafs(reference)) \cup Leafs(pair)
        /\ up.made \subseteq Internals /\ up.made \subseteq Nodes[up.node]
        /\ Inner(up.node) \subseteq up.made \cup Inner(r) \cup Inner(pair)
        /\ up.node \in up.made \cup {pair}
        /\ \A p \in up.made : Children(p) \subseteq up.made \cup {pair} \cup Nodes[r]
    <3> HIDE DEF path
    <3>1. QED
        BY <1>2, <1>3, <1>8, <2>1, <2>3, ReplacedIs
  <2> HIDE DEF up
  <2>5. InternalNodes(up.node) = Inner(up.node) /\ KeysValues(up.node) = Leafs(up.node)
      BY <2>4, TreeParts DEF InternalNodes, KeysValues, Inner, Leafs, Tree
  <2>6. MadeFor(a, up.node, made)
    <3>1. made \subseteq Inner(up.node)
        BY <1>8, <2>4 DEF Inner, Internals
    <3>2. Inner(up.node) \subseteq made \cup Inner(r)
        BY <1>9, <2>4
    <3>3. QED
        BY <1>3, <1>7, <2>4, <2>5, <3>1, <3>2 DEF MadeFor
  <2>7. \A p \in made : Children(p) \subseteq a.node \cup made
      BY <1>3, <1>5, <1>8, <2>4
  <2>8. up.node \in a.node \cup made \cup {Empty}
      BY <2>4
  <2> HIDE DEF made
  <2>9. Lineage(t) /\ TreeGeneration(t) = TreeGeneration(a) + 1 /\ TreeRoot(t) = up.node
      BY <1>6, <1>7, <2>6, <2>7, <2>8, NewRootLineage
  <2>10. KeysValues(up.node) = KeysValues(r) \cup {leaf}
      BY <1>3, <1>9, <2>2, <2>4, <2>5
  <2> HIDE DEF t
  <2>11. QED
      BY <1>1, <1>7, <2>9, <2>10
<1>12. QED
    BY <1>10, <1>11

LEMMA InsertFirstLineage ==
    ASSUME NEW s, NEW leaf \in Terminals, Lineage(s), TreeGeneration(s) >= 0
    PROVE  LET t == InsertFirst(s, leaf)
           IN  /\ Lineage(t)
               /\ TreeGeneration(t) = TreeGeneration(s) + 1
               /\ KeysValues(TreeRoot(t)) = {leaf}
<1> DEFINE a == [s EXCEPT !.node = @ \cup {leaf}]
           t == WithNewRoot(a, leaf, {})
<1>1. leaf \in Hashes /\ leaf # Empty /\ Nodes[leaf] = {leaf} /\ Children(leaf) = {}
    BY TreeParts
<1>2. IsStore(s)
    BY DEF Lineage, Contiguous
<1>3. IsStore(a) /\ a.root = s.root /\ a.node = s.node \cup {leaf}
    BY <1>2, AddNodesTable
<1>4. Lineage(a)
    BY <1>1, NodesAdded
<1> HIDE DEF a
<1>5. TreeGeneration(a) = TreeGeneration(s)
    BY <1>3, RootsOnly
<1>6. InternalNodes(leaf) = {} /\ KeysValues(leaf) = {leaf}
    BY <1>1 DEF InternalNodes, KeysValues, Tree
<1>7. MadeFor(a, leaf, {})
    BY <1>1, <1>6 DEF MadeFor
<1>8. leaf \in a.node \cup {} \cup {Empty} /\ \A p \in {} : Children(p) \subseteq a.node \cup {}
    BY <1>3
<1>9. Lineage(t) /\ TreeGeneration(t) = TreeGeneration(a) + 1 /\ TreeRoot(t) = leaf
    BY <1>4, <1>5, <1>7, <1>8, NewRootLineage
<1>10. InsertFirst(s, leaf) = t
    BY DEF InsertFirst, a
<1> HIDE DEF t
<1>11. QED
    BY <1>5, <1>6, <1>9, <1>10

LEMMA DeleteLineage ==
    ASSUME NEW s, NEW leaf \in Terminals, Lineage(s), TreeGeneration(s) >= 0,
           ReachesRoot(s, Ancestors(s, leaf))
    PROVE  LET t == Delete(s, leaf)
           IN  /\ Lineage(t)
               /\ TreeGeneration(t) = TreeGeneration(s) + 1
               /\ leaf \in KeysValues(TreeRoot(s)) =>
                    KeysValues(TreeRoot(t)) = KeysValues(TreeRoot(s)) \ {leaf}
<1> DEFINE r == TreeRoot(s)
           path == Ancestors(s, leaf)
<1>1. leaf \in Hashes /\ leaf # Empty /\ Nodes[leaf] = {leaf} /\ Leafs(leaf) = {leaf}
    BY TreeParts DEF Leafs
<1>2. TreeGeneration(s) \in Int
    BY DEF Lineage, Contiguous
<1>3. CASE path = <<>>
  <2> DEFINE t == WithNewRoot(s, Empty, {})
  <2>1. Delete(s, leaf) = t
      BY <1>3 DEF Delete
  <2>2. InternalNodes(Empty) = {} /\ KeysValues(Empty) = {}
      BY DEF InternalNodes, KeysValues, Tree
  <2>3. MadeFor(s, Empty, {})
      BY <2>2 DEF MadeFor
  <2>4. Lineage(t) /\ TreeGeneration(t) = TreeGeneration(s) + 1 /\ TreeRoot(t) = Empty
    <3>1. Empty \in s.node \cup {} \cup {Empty} /\ \A p \in {} : Children(p) \subseteq s.node \cup {}
        OBVIOUS
    <3>2. QED
        BY <2>3, <3>1, NewRootLineage
  <2>5. ASSUME leaf \in KeysValues(r) PROVE KeysValues(r) = {leaf}
    <3>1. r # Empty
        BY <2>2, <2>5
    <3>2. OneAncestor(s, leaf, TreeGeneration(s)) = Empty
        BY <1>1, <1>3, <3>1, AncestorsPath
    <3>3. leaf = r
        BY <2>5, <3>2, NoAncestor DEF KeysValues
    <3>4. QED
        BY <1>1, <3>1, <3>3, RootIs
  <2> HIDE DEF t
  <2>6. QED
      BY <2>1, <2>2, <2>4, <2>5
<1>4. CASE path # <<>>
  <2> DEFINE parent == Head(path)
             other == IF Left[parent] = leaf THEN Right[parent] ELSE Left[parent]
             rest == Tail(path)
             up == Replaced(other, parent, rest)
             t == WithNewRoot(s, up.node, up.made)
  <2>1. Delete(s, leaf) = t
      BY <1>4 DEF Delete
  <2>2. r # Empty
      BY <1>4 DEF Ancestors
  <2>3. /\ r \in Hashes /\ r \in s.node /\ Tree(r) = Nodes[r] /\ Nodes[r] \subseteq s.node
        /\ KeysValues(r) = Leafs(r) /\ InternalNodes(r) = Inner(r)
      BY <2>2, RootIs
  <2>4. PathTo(r, leaf, path)
      BY <1>1, <1>4, <2>2, PathToRoot
  <2> HIDE DEF path
  <2>5. /\ path \in Seq(Internals) /\ Len(path) \in Nat /\ Len(path) >= 1
        /\ parent = path[1] /\ parent \in Internals
        /\ rest \in Seq(Internals) /\ Len(rest) = Len(path) - 1
        /\ \A i \in 1..Len(rest) : rest[i] = path[i + 1]
      BY <1>4, <2>4 DEF PathTo
  <2>6. leaf \in Children(parent)
      BY <2>4, <2>5 DEF PathTo
  <2>7. Nodes[parent] \subseteq Nodes[r] /\ parent \in Hashes
    <3>1. 1 \in 1..Len(path)
        BY <2>5
    <3>2. QED
        BY <1>1, <2>3, <2>4, <2>5, <3>1, PathInTree DEF Internals
  <2>8. PathTo(r, parent, rest)
    <3>1. ASSUME NEW i \in 1..Len(rest)
          PROVE  (IF i = 1 THEN parent ELSE rest[i - 1]) \in Children(rest[i])
      <4>1. i + 1 \in 1..Len(path) /\ i + 1 # 1 /\ (i + 1) - 1 = i
          BY <2>5
      <4>2. path[i] \in Children(path[i + 1])
          BY <2>4, <4>1 DEF PathTo
      <4>3. i # 1 => i - 1 \in 1..Len(rest) /\ (i - 1) + 1 = i
          BY <2>5
      <4> HIDE DEF parent, rest
      <4>4. QED
          BY <2>5, <4>2, <4>3
    <3>2. IF rest = <<>> THEN parent = r ELSE rest[Len(rest)] = r
      <4>1. path[Len(path)] = r
          BY <1>4, <2>4 DEF PathTo
      <4>2. CASE rest = <<>>
        <5>1. Len(path) = 1
          <6> HIDE DEF parent, rest
          <6>1. Len(rest) = 0
              BY <4>2
          <6>2. QED
              BY <2>5, <6>1
        <5>2. QED
            BY <2>5, <4>1, <4>2, <5>1
      <4>3. CASE rest # <<>>
        <5>1. Len(rest) \in 1..Len(rest) /\ Len(rest) + 1 = Len(path)
          <6> HIDE DEF rest
          <6>1. QED
              BY <2>5, <4>3
        <5>2. QED
            BY <2>5, <4>1, <4>3, <5>1
      <4>4. QED
          BY <4>2, <4>3
    <3> HIDE DEF parent, rest
    <3>3. QED
        BY <2>5, <3>1, <3>2 DEF PathTo
  <2> HIDE DEF parent, rest
  <2>9. /\ other \in Hashes /\ other \in Nodes[parent] /\ Nodes[other] \subseteq Nodes[parent]
        /\ Leafs(parent) = Leafs(other) \cup {leaf} /\ leaf \notin Leafs(other)
    <3>1. /\ Children(parent) = {Left[parent], Right[parent]}
          /\ Left[parent] \in Hashes /\ Right[parent] \in Hashes
          /\ Nodes[parent] = {parent} \cup Nodes[Left[parent]] \cup Nodes[Right[parent]]
          /\ Nodes[Left[parent]] \cap Nodes[Right[parent]] = {}
          /\ Left[parent] \in Nodes[Left[parent]] /\ Right[parent] \in Nodes[Right[parent]]
          /\ parent \notin Terminals
        BY <2>5, TreeParts DEF Internals
    <3>2. \/ leaf = Left[parent] /\ other = Right[parent]
          \/ leaf = Right[parent] /\ other = Left[parent]
        BY <2>6, <3>1
    <3> HIDE DEF other
    <3>3. QED
        BY <1>1, <3>1, <3>2 DEF Leafs
  <2> HIDE DEF other
  <2>10. Leafs(parent) \subseteq Leafs(r) /\ Inner(other) \subseteq Inner(r) /\ other \in Nodes[r]
      BY <2>7, <2>9 DEF Leafs, Inner
  <2>11. Apart(other, r, parent)
    <3>1. SUFFICES ASSUME NEW x \in Leafs(other), NEW y \in Leafs(r), y \notin Leafs(parent)
                   PROVE  Key[x] # Key[y]
        BY DEF Apart
    <3>2. x \in Leafs(r) /\ x # y
        BY <2>9, <2>10, <3>1
    <3>3. QED
        BY <2>3, <3>2, DataStoreAssumption DEF Leafs
  <2>12. /\ up.node \in Hashes /\ other \in Nodes[up.node]
         /\ Leafs(up.node) = (Leafs(r) \ Leafs(parent)) \cup Leafs(other)
         /\ up.made \subseteq Internals /\ up.made \subseteq Nodes[up.node]
         /\ Inner(up.node) \subseteq up.made \cup Inner(r) \cup Inner(other)
         /\ up.node \in up.made \cup {other}
         /\ \A p \in up.made : Children(p) \subseteq up.made \cup {other} \cup Nodes[r]
      BY <2>3, <2>7, <2>8, <2>9, <2>11, ReplacedIs
  <2> HIDE DEF up
  <2>13. InternalNodes(up.node) = Inner(up.node) /\ KeysValues(up.node) = Leafs(up.node)
      BY <2>12, TreeParts DEF InternalNodes, KeysValues, Inner, Leafs, Tree
  <2>14. MadeFor(s, up.node, up.made)
    <3>1. up.made \subseteq Inner(up.node)
        BY <2>12 DEF Inner, Internals
    <3>2. Inner(up.node) \subseteq up.made \cup Inner(r)
        BY <2>10, <2>12
    <3>3. QED
        BY <2>3, <2>12, <2>13, <3>1, <3>2 DEF MadeFor
  <2>15. \A p \in up.made : Children(p) \subseteq s.node \cup up.made
      BY <2>3, <2>10, <2>12
  <2>16. up.node \in s.node \cup up.made \cup {Empty}
      BY <2>3, <2>10, <2>12
  <2>17. Lineage(t) /\ TreeGeneration(t) = TreeGeneration(s) + 1 /\ TreeRoot(t) = up.node
      BY <2>14, <2>15, <2>16, NewRootLineage
  <2>18. KeysValues(up.node) = KeysValues(r) \ {leaf}
      BY <2>3, <2>9, <2>10, <2>12, <2>13
  <2> HIDE DEF t
  <2>19. QED
      BY <2>1, <2>17, <2>18
<1>5. QED
    BY <1>3, <1>4

--------------------------------------------------------------------------------
(* Generations.                                                            *)

LEMMA ShiftTables ==
    ASSUME NEW s, NEW size \in Nat, Contiguous(s)
    PROVE  LET t == ShiftRoot(s, size)
               new == (TreeGeneration(s) + 1)..(TreeGeneration(s) + size)
           IN  /\ t.node = s.node
               /\ t.ancestors = IF TreeRoot(s) = Empty THEN s.ancestors
                                ELSE Inserted([k \in {TreeRoot(s)} \X new |-> Empty], s.ancestors)
               /\ DOMAIN t.root = new \cup DOMAIN s.root
               /\ \A g \in DOMAIN t.root :
                    t.root[g].hash = IF g \in new THEN TreeRoot(s) ELSE s.root[g].hash
<1> DEFINE last == TreeGeneration(s)
           new == (last + 1)..(last + size)
           hash == TreeRoot(s)
           row == [hash |-> hash, status |-> "COMMITTED"]
           rows == [g \in new |-> row]
           roots == Inserted(rows, s.root)
           t == [s EXCEPT !.root = roots]
           sh == ShiftRoot(s, size)
<1>0. IsStore(s)
    BY DEF Contiguous
<1>1. t = [node |-> s.node, root |-> roots, ancestors |-> s.ancestors]
  <2> HIDE DEF roots
  <2>1. QED
      BY <1>0 DEF IsStore
<1>2. roots = [g \in new \cup DOMAIN s.root |-> IF g \in new THEN row ELSE s.root[g]]
  <2> HIDE DEF new, row
  <2>1. QED
      BY DEF Inserted, roots
<1>3. /\ DOMAIN roots = new \cup DOMAIN s.root
      /\ \A g \in DOMAIN roots : roots[g].hash = IF g \in new THEN hash ELSE s.root[g].hash
  <2>1. row.hash = hash
      OBVIOUS
  <2> HIDE DEF new, row, roots, hash
  <2>2. QED
      BY <1>2, <2>1
<1>4. CASE hash = Empty
  <2>1. sh = t
      BY <1>4 DEF ShiftRoot
  <2>2. sh.node = s.node /\ sh.root = roots /\ sh.ancestors = s.ancestors
    <3> HIDE DEF sh, t, roots
    <3>1. QED
        BY <1>1, <2>1
  <2> HIDE DEF sh, roots, new, hash
  <2>3. QED
      BY <1>3, <1>4, <2>2 DEF sh, new, hash
<1>5. CASE hash # Empty
  <2> DEFINE a == Inserted([k \in {hash} \X new |-> Empty], s.ancestors)
  <2>1. sh = [t EXCEPT !.ancestors = a]
      BY <1>5 DEF ShiftRoot
  <2>2. sh.node = s.node /\ sh.root = roots /\ sh.ancestors = a
    <3> HIDE DEF sh, t, roots, a
    <3>1. QED
        BY <1>1, <2>1
  <2> HIDE DEF sh, roots, new, hash
  <2>3. QED
      BY <1>3, <1>5, <2>2 DEF sh, new, hash
<1>6. QED
    BY <1>4, <1>5

LEMMA ShiftLineage ==
    ASSUME NEW s, NEW size \in Nat, Lineage(s), TreeGeneration(s) >= 0
    PROVE  Lineage(ShiftRoot(s, size))
<1> DEFINE t == ShiftRoot(s, size)
           last == TreeGeneration(s)
           end == TreeGeneration(t)
           new == (last + 1)..(last + size)
           hash == TreeRoot(s)
<1>1. /\ Contiguous(s) /\ NodesOK(s)
      /\ last \in Nat
      /\ \A k \in DOMAIN s.ancestors : k = <<k[1], k[2]>> /\ k[2] \in Nat /\ k[2] <= last
      /\ last \in DOMAIN s.root
    BY RowTypes DEF Lineage
<1>2. /\ Contiguous(t) /\ end = last + size
      /\ \A g \in 0..(last + size) :
           IF g <= last THEN t.root[g] = s.root[g] ELSE t.root[g].hash = hash
    BY <1>1, ShiftRootIs
<1>3. /\ t.node = s.node
      /\ t.ancestors = IF hash = Empty THEN s.ancestors
                       ELSE Inserted([k \in {hash} \X new |-> Empty], s.ancestors)
      /\ DOMAIN t.root = new \cup DOMAIN s.root
      /\ \A g \in DOMAIN t.root : t.root[g].hash = IF g \in new THEN hash ELSE s.root[g].hash
    BY <1>1, ShiftTables
<1>4. hash \in s.node \cup {Empty} /\ hash = s.root[last].hash /\ hash \in Hashes \cup {Empty}
    BY <1>1 DEF NodesOK, TreeRoot
<1>5. NodesOK(t)
  <2>1. 0 \notin new /\ new \subseteq Nat
      BY <1>1
  <2> HIDE DEF t, new, hash
  <2>2. QED
      BY <1>1, <1>3, <1>4, <2>1 DEF NodesOK
<1>6. /\ DOMAIN t.ancestors = DOMAIN s.ancestors \cup (Top(hash) \X new)
      /\ \A k \in DOMAIN s.ancestors : t.ancestors[k] = s.ancestors[k]
      /\ \A k \in Top(hash) \X new : t.ancestors[k] = Empty
  <2>1. CASE hash = Empty
      BY <1>3, <2>1 DEF Top
  <2>2. CASE hash # Empty
    <3>1. \A k \in DOMAIN s.ancestors : k \notin {hash} \X new
        BY <1>1
    <3>2. t.ancestors = [k \in ({hash} \X new) \cup DOMAIN s.ancestors |->
                           IF k \in {hash} \X new THEN Empty ELSE s.ancestors[k]]
        BY <1>3, <2>2 DEF Inserted
    <3>3. Top(hash) = {hash}
        BY <2>2 DEF Top
    <3> HIDE DEF t, new, hash
    <3>4. QED
        BY <3>1, <3>2, <3>3
  <2>3. QED
      BY <2>1, <2>2
<1>7. \A g \in new : g \in Nat /\ g > last /\ g <= end /\ g \in 0..(last + size) /\ ~(g <= last)
    BY <1>1, <1>2
<1> HIDE DEF t, new, hash, last, end
<1>8. \A k \in DOMAIN t.ancestors : RowOK(t, k)
  <2>1. TAKE k \in DOMAIN t.ancestors
  <2>2. CASE k \in DOMAIN s.ancestors
    <3>1. RowOK(s, k) /\ k[2] \in 0..last
        BY <2>2 DEF Lineage, RowOK, last
    <3>2. k[2] \in 0..(last + size) /\ k[2] <= last /\ k[2] \in 0..TreeGeneration(t)
        BY <1>1, <1>2, <3>1 DEF end
    <3>3. t.root[k[2]].hash = s.root[k[2]].hash /\ t.ancestors[k] = s.ancestors[k]
        BY <1>2, <1>6, <2>2, <3>2
    <3>4. QED
        BY <3>1, <3>2, <3>3 DEF RowOK
  <2>3. CASE k \notin DOMAIN s.ancestors
    <3>1. k \in Top(hash) \X new
        BY <1>6, <2>3
    <3>2. k = <<k[1], k[2]>> /\ k[1] = hash /\ hash # Empty /\ k[2] \in new
        BY <3>1 DEF Top
    <3>3. t.root[k[2]].hash = hash /\ k[2] \in 0..TreeGeneration(t) /\ t.ancestors[k] = Empty
        BY <1>2, <1>6, <1>7, <3>1, <3>2 DEF end
    <3>4. hash \in Tree(hash)
        BY <1>4, <3>2, TreeParts DEF Tree
    <3>5. QED
        BY <3>2, <3>3, <3>4 DEF RowOK
  <2>4. QED
      BY <2>2, <2>3
<1>9. \A g \in 0..end : Exact(t, g)
  <2>1. TAKE g \in 0..end
  <2>2. CASE g <= last
    <3>1. g \in 0..last /\ g \in Int /\ g \in 0..(last + size)
        BY <1>1, <1>2, <2>2
    <3>2. Exact(s, g) /\ t.root[g].hash = s.root[g].hash
        BY <1>2, <2>2, <3>1 DEF Lineage, last
    <3>3. \A n : OneAncestor(s, n, g) = OneAncestor(t, n, g)
      <4>1. TAKE n
      <4>2. \A k : k \in DOMAIN t.ancestors /\ k[2] <= g => k \in DOMAIN s.ancestors
          BY <1>1, <1>6, <1>7, <3>1
      <4>3. Rows(s, n, g) = Rows(t, n, g)
          BY <1>6, <4>2 DEF Rows
      <4>4. \A k \in Rows(s, n, g) : t.ancestors[k] = s.ancestors[k]
          BY <1>6 DEF Rows
      <4>5. QED
          BY <1>1, <3>1, <4>3, <4>4, SameRows
    <3>4. DOMAIN s.ancestors \subseteq DOMAIN t.ancestors
        BY <1>6
    <3>5. QED
        BY <3>2, <3>3, <3>4 DEF Exact
  <2>3. CASE ~(g <= last)
    <3>1. g \in new /\ g \in Int /\ last \in Int /\ g > last
        BY <1>1, <1>2, <2>3 DEF new
    <3>2. t.root[g].hash = hash
        BY <1>2, <1>7, <3>1
    <3>3. Exact(s, last) /\ s.root[last].hash = hash
        BY <1>1, <1>4 DEF Lineage, last
    <3>4. ASSUME NEW n \in Tree(hash), n = hash PROVE <<n, g>> \in DOMAIN t.ancestors
      <4>1. hash # Empty
          BY <3>4 DEF Tree
      <4>2. QED
          BY <1>6, <3>1, <3>4, <4>1 DEF Top
    <3>5. ASSUME NEW n, n # hash PROVE OneAncestor(s, n, last) = OneAncestor(t, n, g)
      <4>1. \A k : k \in DOMAIN t.ancestors /\ k[1] = n => k \in DOMAIN s.ancestors
          BY <1>6, <3>5 DEF Top
      <4>2. \A k \in DOMAIN s.ancestors : k[2] <= last /\ k[2] <= g
          BY <1>1, <3>1
      <4>3. Rows(s, n, last) = Rows(t, n, g)
          BY <1>6, <4>1, <4>2 DEF Rows
      <4>4. \A k \in Rows(s, n, last) : t.ancestors[k] = s.ancestors[k]
          BY <1>6 DEF Rows
      <4>5. QED
          BY <1>1, <3>1, <4>3, <4>4, SameRows
    <3>6. QED
        BY <3>2, <3>3, <3>4, <3>5 DEF Exact
  <2>4. QED
      BY <2>2, <2>3
<1>10. Lineage(t)
    BY <1>2, <1>5, <1>8, <1>9 DEF Lineage, end
<1>11. QED
    BY <1>10 DEF t

(* A generation without data.                                              *)
LEMMA EmptyRootLineage ==
    ASSUME NEW s, NEW t, Lineage(s), Put(s, t, TreeGeneration(s) + 1, Empty, "COMMITTED"),
           t.node = s.node, t.ancestors = s.ancestors
    PROVE  Lineage(t) /\ TreeGeneration(t) = TreeGeneration(s) + 1
<1>1. /\ Contiguous(s) /\ NodesOK(s)
      /\ TreeGeneration(s) \in Int /\ TreeGeneration(s) >= -1
    BY DEF Lineage, Contiguous
<1>2. /\ Contiguous(t)
      /\ TreeGeneration(t) = TreeGeneration(s) + 1
      /\ t.root[TreeGeneration(t)].hash = Empty
      /\ \A g \in 0..TreeGeneration(s) : t.root[g].hash = s.root[g].hash
    BY <1>1, PutCommitted
<1>3. NodesOK(t)
  <2>1. \A g \in DOMAIN t.root : t.root[g].hash \in s.node \cup {Empty}
      BY <1>1 DEF Put, NodesOK
  <2>2. 0 \in DOMAIN t.root => t.root[0].hash = Empty
      BY <1>1 DEF Put, NodesOK
  <2>3. DOMAIN t.root \subseteq Nat
      BY <1>1 DEF Put, NodesOK
  <2>4. QED
      BY <1>1, <2>1, <2>2, <2>3 DEF NodesOK
<1>4. NewRows(s, t, Empty, {}, TreeGeneration(t))
    BY DEF NewRows, Top, Kids
<1>5. MadeFor(s, Empty, {})
    BY DEF MadeFor, InternalNodes, Tree
<1>6. Lineage(t)
    BY <1>2, <1>3, <1>4, <1>5, NewGeneration
<1>7. QED
    BY <1>2, <1>6

(* The nodes for which build_ancestor_table_for_latest_root makes rows.    *)
LEMMA NewNodesAre ==
    ASSUME NEW s, NEW t, TreeGeneration(s) \in Nat, TreeGeneration(t) = TreeGeneration(s) + 1,
           t.root[TreeGeneration(s)] = s.root[TreeGeneration(s)],
           NEW hash, t.root[TreeGeneration(t)].hash = hash, hash \in Hashes \cup {Empty}
    PROVE  MadeFor(s, hash, NewInternalNodes(t))
<1> DEFINE previous == Max({TreeGeneration(t) - 1, 0})
<1>1. previous = TreeGeneration(s)
  <2>1. TreeGeneration(t) - 1 = TreeGeneration(s)
      OBVIOUS
  <2> DEFINE two == {TreeGeneration(s), 0}
  <2>2. \A x \in two : (\A y \in two : x >= y) <=> x = TreeGeneration(s)
      OBVIOUS
  <2>3. Max(two) \in two /\ \A y \in two : Max(two) >= y
    <3>1. TreeGeneration(s) \in two
        OBVIOUS
    <3> HIDE DEF two
    <3>2. QED
        BY <2>2, <3>1, Zenon DEF Max
  <2>4. Max(two) = TreeGeneration(s)
    <3> HIDE DEF two
    <3>1. QED
        BY <2>2, <2>3
  <2>5. QED
      BY <2>1, <2>4
<1>2. NewInternalNodes(t) = InternalNodes(TreeRoot(t)) \ InternalNodes(t.root[previous].hash)
    BY DEF NewInternalNodes
<1> HIDE DEF previous
<1>3. NewInternalNodes(t) = InternalNodes(hash) \ InternalNodes(TreeRoot(s))
    BY <1>1, <1>2 DEF TreeRoot
<1>4. QED
    BY <1>3 DEF MadeFor

LEMMA FileLineage ==
    ASSUME NEW s, NEW hash, NEW content, Lineage(s), TreeGeneration(s) >= 0,
           content \subseteq Hashes, FileFits(s, hash, content)
    PROVE  /\ Lineage(InsertFromFile(s, hash, content))
           /\ TreeGeneration(InsertFromFile(s, hash, content)) = TreeGeneration(s) + 1
<1> DEFINE a == [s EXCEPT !.node = @ \cup content]
           t == InsertRoot(a, hash, "COMMITTED")
           made == NewInternalNodes(t)
           u == InsertAncestorRows(t, made, TreeGeneration(t))
<1>1. IsStore(s) /\ TreeGeneration(s) \in Int
    BY DEF Lineage, Contiguous
<1>2. IsStore(a) /\ a.root = s.root /\ a.node = s.node \cup content
    BY <1>1, AddNodesTable
<1>3. Lineage(a)
    BY NodesAdded DEF FileFits
<1>4. hash \in a.node \cup {Empty}
    BY DEF FileFits, RootFits
<1> HIDE DEF a
<1>5. TreeGeneration(a) = TreeGeneration(s)
    BY <1>2, RootsOnly
<1>6. hash \in Hashes \cup {Empty}
    BY <1>3, <1>4 DEF Lineage, NodesOK
<1>7. Put(a, t, TreeGeneration(a) + 1, hash, "COMMITTED")
    BY <1>2, InsertRootIs
<1>8. t.node = a.node /\ t.ancestors = RootRow(hash, TreeGeneration(a) + 1, a.ancestors)
    BY <1>2, InsertRootTables
<1> HIDE DEF t
<1>9. /\ IsStore(t) /\ TreeGeneration(t) = TreeGeneration(a) + 1
      /\ t.root[TreeGeneration(t)].hash = hash
      /\ \A g \in 0..TreeGeneration(a) : t.root[g] = a.root[g]
    BY <1>3, <1>7, PutCommitted DEF Put, Lineage
<1>10. MadeFor(a, hash, made)
  <2>1. TreeGeneration(a) \in Nat /\ t.root[TreeGeneration(a)] = a.root[TreeGeneration(a)]
      BY <1>1, <1>5, <1>9
  <2>2. QED
      BY <1>6, <1>9, <2>1, NewNodesAre
<1> HIDE DEF made
<1>11. /\ IsStore(u) /\ u.root = t.root /\ u.node = t.node
       /\ u.ancestors = Inserted(AncestorRows(made, TreeGeneration(a) + 1), t.ancestors)
    BY <1>9, InsertRowsIs, InsertRowsTable
<1>12. ~(TreeGeneration(a) < 0)
    BY <1>1, <1>5
<1> HIDE DEF u
<1>13. Lineage(u) /\ TreeGeneration(u) = TreeGeneration(a) + 1
    BY <1>3, <1>4, <1>7, <1>8, <1>10, <1>11, <1>12, CommittedLineage
<1>14. InsertFromFile(s, hash, content) = u
    BY DEF InsertFromFile, InsertRootWithAncestors, BuildAncestorTable, u, made, t, a
<1>15. QED
    BY <1>5, <1>13, <1>14

LEMMA CommitLineage ==
    ASSUME NEW s, Lineage(s), TreeGeneration(s) >= 0, TreeGeneration(s) + 1 \in DOMAIN s.root
    PROVE  LET t == BuildAncestorTable(CommitRoot(s, TreeGeneration(s) + 1))
           IN  Lineage(t) /\ TreeGeneration(t) = TreeGeneration(s) + 1
<1> DEFINE next == TreeGeneration(s) + 1
           hash == s.root[next].hash
           t == CommitRoot(s, next)
           made == NewInternalNodes(t)
           u == InsertAncestorRows(t, made, TreeGeneration(t))
<1>1. IsStore(s) /\ TreeGeneration(s) \in Int
    BY DEF Lineage, Contiguous
<1>2. hash \in s.node \cup {Empty} /\ hash \in Hashes \cup {Empty}
    BY DEF Lineage, NodesOK
<1>3. Put(s, t, next, hash, "COMMITTED")
    BY <1>1, CommitRootIs
<1>4. t.node = s.node /\ t.ancestors = RootRow(hash, next, s.ancestors)
    BY <1>1, CommitRootTables
<1> HIDE DEF t, hash
<1>5. /\ IsStore(t) /\ TreeGeneration(t) = next
      /\ t.root[TreeGeneration(t)].hash = hash
      /\ \A g \in 0..TreeGeneration(s) : t.root[g] = s.root[g]
    BY <1>3, PutCommitted DEF Put, Lineage
<1>6. MadeFor(s, hash, made)
  <2>1. TreeGeneration(s) \in Nat /\ t.root[TreeGeneration(s)] = s.root[TreeGeneration(s)]
      BY <1>1, <1>5
  <2>2. QED
      BY <1>2, <1>5, <2>1, NewNodesAre
<1> HIDE DEF made
<1>7. /\ IsStore(u) /\ u.root = t.root /\ u.node = t.node
      /\ u.ancestors = Inserted(AncestorRows(made, next), t.ancestors)
    BY <1>5, InsertRowsIs, InsertRowsTable
<1>8. ~(TreeGeneration(s) < 0)
    BY <1>1
<1> HIDE DEF u
<1>9. Lineage(u) /\ TreeGeneration(u) = next
    BY <1>2, <1>3, <1>4, <1>6, <1>7, <1>8, CommittedLineage
<1>10. BuildAncestorTable(CommitRoot(s, next)) = u
    BY DEF BuildAncestorTable, u, made, t
<1>11. QED
    BY <1>9, <1>10

(* _update_confirmation_status.                                            *)
LEMMA ConfirmLineage ==
    ASSUME NEW s, Lineage(s), Len(chain) \in Nat, NEW u \in UpdateConfirmationStatus(s)
    PROVE  Lineage(u) /\ TreeGeneration(u) >= TreeGeneration(s)
<1> DEFINE next == TreeGeneration(s) + 1
           matches == next \in PendingRoots(s) /\ s.root[next].hash = RootAt(next)
           created == 0 \in PendingRoots(s) /\ s.root[0].hash = Empty
           shift == GenerationShift(s)
           same == chain = <<>> \/ TreeGeneration(s) >= Latest \/ (~TreeIdExists(s) /\ ~created)
<1>1. IsStore(s) /\ Contiguous(s) /\ TreeGeneration(s) \in Int /\ TreeGeneration(s) >= -1
    BY DEF Lineage, Contiguous
<1>2. ASSUME NEW t, Lineage(t), TreeGeneration(t) >= TreeGeneration(s)
      PROVE  /\ Lineage(ClearPendingRoots(t))
             /\ TreeGeneration(ClearPendingRoots(t)) >= TreeGeneration(s)
    BY <1>2, ClearLineage, ClearPendingIs DEF Lineage
<1>3. CASE same
  <2>1. u = s
      BY <1>3 DEF UpdateConfirmationStatus
  <2>2. QED
      BY <1>1, <2>1
<1>4. CASE ~same /\ ~TreeIdExists(s)
  <2> DEFINE t == CommitRoot(s, 0)
  <2>1. u = ClearPendingRoots(t)
      BY <1>4 DEF UpdateConfirmationStatus
  <2>2. created /\ next = 0
      BY <1>1, <1>4 DEF TreeIdExists
  <2>3. 0 \in DOMAIN s.root /\ s.root[0].hash = Empty
      BY <2>2 DEF PendingRoots, RootsWith
  <2>4. Put(s, t, 0, Empty, "COMMITTED")
      BY <1>1, <2>3, CommitRootIs
  <2>5. t.node = s.node /\ t.ancestors = s.ancestors
      BY <1>1, <2>3, CommitRootTables DEF RootRow
  <2> HIDE DEF t
  <2>6. Lineage(t) /\ TreeGeneration(t) = next
      BY <2>2, <2>4, <2>5, EmptyRootLineage
  <2>7. TreeGeneration(t) >= TreeGeneration(s)
      BY <1>1, <2>6
  <2>8. QED
      BY <1>2, <2>1, <2>6, <2>7
<1>5. CASE ~same /\ TreeIdExists(s) /\ shift > 0
  <2> DEFINE t == ShiftRoot(s, shift)
  <2>1. u = ClearPendingRoots(t)
      BY <1>5 DEF UpdateConfirmationStatus
  <2>2. shift \in Nat
      BY <1>1, GenerationShiftIs
  <2> HIDE DEF shift
  <2>3. Lineage(t)
      BY <1>5, <2>2, ShiftLineage DEF TreeIdExists
  <2>4. TreeGeneration(t) = TreeGeneration(s) + shift
      BY <1>1, <2>2, ShiftRootIs
  <2> HIDE DEF t
  <2>5. TreeGeneration(t) >= TreeGeneration(s)
      BY <1>1, <2>2, <2>4
  <2>6. QED
      BY <1>2, <2>1, <2>3, <2>5
<1>6. CASE ~same /\ TreeIdExists(s) /\ ~(shift > 0) /\ matches
  <2> DEFINE t == BuildAncestorTable(CommitRoot(s, next))
  <2>1. u = ClearPendingRoots(t)
      BY <1>6 DEF UpdateConfirmationStatus
  <2>2. next \in DOMAIN s.root /\ TreeGeneration(s) >= 0
      BY <1>6 DEF PendingRoots, RootsWith, TreeIdExists
  <2>3. Lineage(t) /\ TreeGeneration(t) = next
      BY <2>2, CommitLineage
  <2> HIDE DEF t
  <2>4. TreeGeneration(t) >= TreeGeneration(s)
      BY <1>1, <2>3
  <2>5. QED
      BY <1>2, <2>1, <2>3, <2>4
<1>7. CASE ~same /\ TreeIdExists(s) /\ ~(shift > 0) /\ ~matches
  <2>1. u = ClearPendingRoots(s)
      BY <1>7 DEF UpdateConfirmationStatus
  <2>2. QED
      BY <1>1, <1>2, <2>1
<1>8. QED
    BY <1>3, <1>4, <1>5, <1>6, <1>7

(* The end of insert_batch.                                                *)
LEMMA BatchLineage ==
    ASSUME NEW s, NEW base \in Nat, Lineage(s), base <= TreeGeneration(s)
    PROVE  LET t == InsertRootWithAncestors(RollbackToGeneration(s, base), TreeRoot(s), "PENDING")
           IN  Lineage(t) /\ TreeGeneration(t) = base
<1> DEFINE a == RollbackToGeneration(s, base)
           t == InsertRoot(a, TreeRoot(s), "PENDING")
<1>1. IsStore(s) /\ Contiguous(s) /\ TreeGeneration(s) \in Int
    BY DEF Lineage, Contiguous
<1>2. Lineage(a)
    BY RollbackLineage
<1>3. TreeGeneration(a) = base
  <2>1. TreeGeneration(a) = IF base < TreeGeneration(s) THEN base ELSE TreeGeneration(s)
      BY <1>1, RollbackIs
  <2> HIDE DEF a
  <2>2. QED
      BY <1>1, <2>1
<1>4. a.node = s.node
    BY <1>1 DEF RollbackToGeneration, IsStore
<1>5. TreeRoot(s) \in s.node \cup {Empty}
  <2>1. TreeGeneration(s) \in DOMAIN s.root
      BY <1>1, RowTypes
  <2>2. QED
      BY <2>1 DEF Lineage, NodesOK, TreeRoot
<1> HIDE DEF a
<1>6. Lineage(t)
    BY <1>2, <1>3, <1>4, <1>5, PendingLineage
<1>7. TreeGeneration(t) = base
  <2>1. Put(a, t, TreeGeneration(a) + 1, TreeRoot(s), "PENDING")
      BY <1>2, InsertRootIs DEF Lineage, Contiguous
  <2>2. QED
      BY <1>2, <1>3, <2>1, PutPending DEF Lineage
<1>8. InsertRootWithAncestors(RollbackToGeneration(s, base), TreeRoot(s), "PENDING") = t
    BY DEF InsertRootWithAncestors, t, a
<1>9. QED
    BY <1>6, <1>7, <1>8

--------------------------------------------------------------------------------
(* The lineage in the data layer.  These parts of a host do not depend on  *)
(* the chain, so that a request may overtake a download.                   *)

(* A batch began with the committed tables or later ones, and the tree is  *)
(* what its dict says.                                                     *)
BatchOK(d, t, r, misplaced) ==
    r.pc = "changing" =>
        /\ r.base \in Nat /\ TreeGeneration(d) <= r.base /\ r.base <= TreeGeneration(t)
        /\ ~misplaced => KeysValues(TreeRoot(t)) = r.hint

Writing == {"write_full", "write_delta", "fill_delta"}

(* Downloads start from a store that is there, and files are written of    *)
(* generations that are.                                                   *)
ManagerOK(d, m, fs) ==
    /\ m.from \in Hosts
    /\ m.pc \in {"server"} \cup Downloading => TreeGeneration(d) >= 0
    /\ m.pc \in Downloading => m.gen \in Nat
    /\ m.pc = "insert" => File("delta", Head(m.roots), m.gen + 1) \in DOMAIN fs
    /\ m.pc \in {"upload_dl", "upload_db", "upload"} => m.target \in Nat
    /\ m.pc \in Writing => m.gen \in Nat /\ m.gen <= TreeGeneration(d)
    /\ m.pc \in {"write_delta", "fill_delta"} => m.gen > 0

FilesOK(fs) == \A f \in DOMAIN fs : fs[f] \subseteq Hashes

HostLineage(d, t, r, m, fs, misplaced) ==
    /\ Lineage(d) /\ Lineage(t)
    /\ TreeGeneration(d) <= TreeGeneration(t)
    /\ BatchOK(d, t, r, misplaced)
    /\ ManagerOK(d, m, fs)
    /\ FilesOK(fs)

HostsLineage ==
    /\ files = [h \in Hosts |-> files[h]]
    /\ \A h \in Hosts : HostLineage(db[h], txn[h], rpc[h], mgr[h], files[h], marks.misplaced)

LEMMA HostIs ==
    ASSUME HostsLineage, NEW h \in Hosts
    PROVE  /\ HostLineage(db[h], txn[h], rpc[h], mgr[h], files[h], marks.misplaced)
           /\ At(files, files, h, files[h])
BY DEF HostsLineage, At

LEMMA LineageStep ==
    ASSUME FunctionsOK, HostsLineage, NEW h \in Hosts, NEW d, NEW t, NEW r, NEW m, NEW fs,
           At(db, db', h, d), At(txn, txn', h, t), At(rpc, rpc', h, r), At(mgr, mgr', h, m),
           At(files, files', h, fs), marks.misplaced => marks'.misplaced,
           HostLineage(d, t, r, m, fs, marks'.misplaced)
    PROVE  HostsLineage'
<1>1. files' = [k \in Hosts |-> files'[k]]
    BY DEF HostsLineage, At
<1>2. ASSUME NEW k \in Hosts
      PROVE  HostLineage(db'[k], txn'[k], rpc'[k], mgr'[k], files'[k], marks'.misplaced)
  <2>1. CASE k = h
    <3>1. db'[h] = d /\ txn'[h] = t /\ files'[h] = fs /\ rpc'[h] = r /\ mgr'[h] = m
        BY DEF FunctionsOK, HostsLineage, At
    <3>2. QED
        BY <2>1, <3>1
  <2>2. CASE k # h
    <3>1. db'[k] = db[k] /\ txn'[k] = txn[k] /\ files'[k] = files[k] /\ rpc'[k] = rpc[k] /\ mgr'[k] = mgr[k]
        BY <2>2 DEF FunctionsOK, HostsLineage, At
    <3>2. HostLineage(db[k], txn[k], rpc[k], mgr[k], files[k], marks.misplaced)
        BY HostIs
    <3>3. QED
        BY <3>1, <3>2 DEF HostLineage, BatchOK
  <2>3. QED
      BY <2>1, <2>2
<1>3. QED
    BY <1>1, <1>2 DEF HostsLineage

(* The manager does not mind later tables.                                 *)
LEMMA ManagerLater ==
    ASSUME NEW d, NEW e, NEW m, NEW fs, Lineage(d), Lineage(e),
           TreeGeneration(d) <= TreeGeneration(e), ManagerOK(d, m, fs)
    PROVE  ManagerOK(e, m, fs)
<1>1. TreeGeneration(d) \in Int /\ TreeGeneration(e) \in Int
    BY DEF Lineage, Contiguous
<1>2. QED
    BY <1>1 DEF ManagerOK

(* A request makes a transaction, and is outside a batch then.             *)
LEMMA RequestCommits ==
    ASSUME FunctionsOK, HostsLineage, NEW h \in Hosts, NEW s, NEW r,
           At(db, db', h, s), At(txn, txn', h, s), At(rpc, rpc', h, r),
           UNCHANGED <<mgr, files>>, marks.misplaced => marks'.misplaced,
           Lineage(s), TreeGeneration(s) >= TreeGeneration(db[h]), r.pc # "changing"
    PROVE  HostsLineage'
<1>1. /\ HostLineage(db[h], txn[h], rpc[h], mgr[h], files[h], marks.misplaced)
      /\ At(files, files', h, files[h]) /\ At(mgr, mgr', h, mgr[h])
    BY HostIs, Kept
<1>2. TreeGeneration(s) \in Int /\ TreeGeneration(db[h]) \in Int
    BY <1>1 DEF HostLineage, Lineage, Contiguous
<1>3. ManagerOK(s, mgr[h], files[h])
    BY <1>1, <1>2, ManagerLater DEF HostLineage
<1>4. HostLineage(s, s, r, mgr[h], files[h], marks'.misplaced)
    BY <1>1, <1>2, <1>3 DEF HostLineage, BatchOK
<1>5. QED
    BY <1>1, <1>4, LineageStep

(* A request goes on with the tables of its transaction, or gives them up. *)
LEMMA RequestGoesOn ==
    ASSUME FunctionsOK, HostsLineage, NEW h \in Hosts, NEW t, NEW r,
           At(txn, txn', h, t), At(rpc, rpc', h, r),
           UNCHANGED <<db, mgr, files>>, marks.misplaced => marks'.misplaced,
           Lineage(t), TreeGeneration(db[h]) <= TreeGeneration(t),
           BatchOK(db[h], t, r, marks'.misplaced)
    PROVE  HostsLineage'
<1>1. /\ HostLineage(db[h], txn[h], rpc[h], mgr[h], files[h], marks.misplaced)
      /\ At(files, files', h, files[h]) /\ At(mgr, mgr', h, mgr[h]) /\ At(db, db', h, db[h])
    BY HostIs, Kept
<1>2. HostLineage(db[h], t, r, mgr[h], files[h], marks'.misplaced)
    BY <1>1 DEF HostLineage
<1>3. QED
    BY <1>1, <1>2, LineageStep

LEMMA RequestRaises ==
    ASSUME FunctionsOK, HostsLineage, NEW h \in Hosts, Raise(h), UNCHANGED <<mgr, files, marks>>
    PROVE  HostsLineage'
<1>1. At(txn, txn', h, db[h]) /\ At(rpc, rpc', h, Idle) /\ db' = db
    BY DEF Raise, Rpc, At
<1>2. HostLineage(db[h], txn[h], rpc[h], mgr[h], files[h], marks.misplaced)
    BY HostIs
<1>3. Lineage(db[h]) /\ TreeGeneration(db[h]) <= TreeGeneration(db[h])
    BY <1>2 DEF HostLineage, Lineage, Contiguous
<1>4. BatchOK(db[h], db[h], Idle, marks.misplaced)
    BY Fields DEF BatchOK
<1>5. QED
    BY <1>1, <1>3, <1>4, RequestGoesOn

LEMMA RequestLineage ==
    ASSUME Inv, HostsLineage, NEW h \in Hosts, Request(h)
    PROVE  HostsLineage'
<1> USE DEF Rpc
<1>0. FunctionsOK
    BY DEF Inv
<1>1. /\ HostLineage(db[h], txn[h], rpc[h], mgr[h], files[h], marks.misplaced)
      /\ HostOK(h \in marks.raced, db[h], txn[h], locks[h], rpc[h], mgr[h], chain)
    BY <1>0, HostIs, Host
<1>3. ASSUME NEW kind, Arrive(h, kind)
      PROVE  HostsLineage'
    BY <1>3 DEF Arrive, HostsLineage
<1>5. CASE CancelOffer(h)
  <2> DEFINE s == ClearPendingRoots(db[h])
             dropped == marks.dropped \cup {db[h].root[g].hash : g \in PendingRoots(db[h])}
  <2>1. /\ At(db, db', h, s) /\ At(txn, txn', h, s) /\ UNCHANGED <<rpc, mgr, files>>
        /\ marks' = [marks EXCEPT !.dropped = dropped] 
      BY <1>5 DEF CancelOffer, Transaction, At
  <2>2. At(rpc, rpc', h, rpc[h]) /\ rpc[h].pc # "changing"
      BY <1>0, <1>1, <1>5, <2>1, Kept, FreeOutside DEF CancelOffer, Free
  <2>3. Lineage(s) /\ TreeGeneration(s) >= TreeGeneration(db[h])
      BY <1>1, ClearLineage, ClearPendingIs DEF HostLineage, Lineage, Contiguous
  <2> HIDE DEF s, dropped
  <2>4. marks'.misplaced = marks.misplaced
      BY <1>0, <2>1 DEF FunctionsOK
  <2>5. QED
      BY <1>0, <2>1, <2>2, <2>3, <2>4, RequestCommits
<1>6. CASE CancelOfferSecurely(h)
    BY <1>6 DEF CancelOfferSecurely, HostsLineage
<1>7. QED
    BY <1>3, <1>5, <1>6 DEF Request

LEMMA ChangeLineage ==
    ASSUME Inv, HostsLineage, NEW h \in Hosts, Change(h)
    PROVE  HostsLineage'
<1> USE DEF Rpc
<1> DEFINE s == txn[h]
           base == rpc[h].base
<1>0. FunctionsOK
    BY DEF Inv
<1>1. /\ HostLineage(db[h], txn[h], rpc[h], mgr[h], files[h], marks.misplaced)
      /\ HostOK(h \in marks.raced, db[h], txn[h], locks[h], rpc[h], mgr[h], chain)
      /\ rpc[h] = [f \in RpcFields |-> rpc[h][f]]
    BY HostIs, Host DEF HostOK
<1>2. rpc[h].pc = "changing"
    BY DEF Change, ChangeInsert, ChangeInsertFirst, ChangeDelete, EndBatch, EndOfferChanges
<1>3. /\ Lineage(s) /\ TreeGeneration(s) \in Int /\ TreeGeneration(db[h]) \in Int
      /\ base \in Nat /\ TreeGeneration(db[h]) <= base /\ base <= TreeGeneration(s)
      /\ ~marks.misplaced => KeysValues(TreeRoot(s)) = rpc[h].hint
    BY <1>1, <1>2 DEF HostLineage, BatchOK, Lineage, Contiguous
<1>4. TreeGeneration(s) >= 0
    BY <1>3
(* A change of a key.                                                      *)
<1>5. ASSUME NEW t, NEW hint, NEW left, At(txn, txn', h, t),
             At(rpc, rpc', h, [rpc[h] EXCEPT !.hint = hint, !.left = left]),
             UNCHANGED <<db, mgr, files>>, marks.misplaced => marks'.misplaced,
             Lineage(t), TreeGeneration(t) = TreeGeneration(s) + 1,
             ~marks'.misplaced => KeysValues(TreeRoot(t)) = hint
      PROVE  HostsLineage'
  <2> DEFINE r == [rpc[h] EXCEPT !.hint = hint, !.left = left]
  <2>1. r.pc = rpc[h].pc /\ r.base = base /\ r.hint = hint
      BY <1>1 DEF RpcFields
  <2>2. At(rpc, rpc', h, r)
      BY <1>5
  <2> HIDE DEF r
  <2>3. BatchOK(db[h], t, r, marks'.misplaced) /\ TreeGeneration(db[h]) <= TreeGeneration(t)
      BY <1>3, <1>5, <2>1 DEF BatchOK
  <2>4. QED
      BY <1>0, <1>5, <2>2, <2>3, RequestGoesOn
<1>6. Leaves \subseteq Terminals
    BY DataLayerAssumption
<1>7. ASSUME NEW leaf \in Leaves, NEW reference, NEW side, ChangeInsert(h, leaf, reference, side)
      PROVE  HostsLineage'
  <2> DEFINE t == Insert(s, leaf, reference, side)
             misplaced == marks.misplaced \/ reference \notin Tree(TreeRoot(s))
             hint == rpc[h].hint \cup {leaf}
             left == rpc[h].left - 1
  <2>1. /\ At(txn, txn', h, t) /\ UNCHANGED <<db, mgr, files>>
        /\ At(rpc, rpc', h, [rpc[h] EXCEPT !.hint = hint, !.left = left])
        /\ marks' = [marks EXCEPT !.misplaced = misplaced]
      BY <1>7 DEF ChangeInsert, At
  <2>2. /\ Lineage(t) /\ TreeGeneration(t) = TreeGeneration(s) + 1
        /\ reference \in Tree(TreeRoot(s)) =>
             KeysValues(TreeRoot(t)) = KeysValues(TreeRoot(s)) \cup {leaf}
    <3>1. /\ TreeRoot(s) # Empty /\ reference \in s.node \cap Terminals
          /\ ReachesRoot(s, Ancestors(s, reference))
          /\ \A n \in KeysValues(TreeRoot(s)) \cup {reference} : Key[n] # Key[leaf]
        BY <1>7 DEF ChangeInsert, InsertFits
    <3>2. leaf \in Terminals
        BY <1>6
    <3> HIDE DEF s
    <3>3. QED
        BY <1>3, <1>4, <3>1, <3>2, InsertLineage
  <2> HIDE DEF t, misplaced
  <2>3. marks'.misplaced = misplaced
      BY <1>0, <2>1 DEF FunctionsOK
  <2>4. marks.misplaced => misplaced
      BY DEF misplaced
  <2>5. ~misplaced => KeysValues(TreeRoot(t)) = hint
      BY <1>3, <2>2 DEF misplaced
  <2> HIDE DEF hint, left, s
  <2>6. QED
      BY <1>5, <2>1, <2>2, <2>3, <2>4, <2>5
<1>8. ASSUME NEW leaf \in Leaves, ChangeInsertFirst(h, leaf)
      PROVE  HostsLineage'
  <2> DEFINE t == InsertFirst(s, leaf)
             hint == {n \in rpc[h].hint : Key[n] # Key[leaf]} \cup {leaf}
             left == rpc[h].left - 1
  <2>1. /\ At(txn, txn', h, t) /\ UNCHANGED <<db, mgr, files>>
        /\ At(rpc, rpc', h, [rpc[h] EXCEPT !.hint = hint, !.left = left])
        /\ marks' = marks /\ TreeRoot(s) = Empty
      BY <1>8 DEF ChangeInsertFirst, At
  <2>2. Lineage(t) /\ TreeGeneration(t) = TreeGeneration(s) + 1 /\ KeysValues(TreeRoot(t)) = {leaf}
    <3>1. leaf \in Terminals
        BY <1>6
    <3> HIDE DEF s
    <3>2. QED
        BY <1>3, <1>4, <3>1, InsertFirstLineage
  <2>3. KeysValues(TreeRoot(s)) = {}
      BY <2>1 DEF KeysValues, Tree
  <2> HIDE DEF t
  <2>4. ~marks.misplaced => KeysValues(TreeRoot(t)) = hint
      BY <1>3, <2>2, <2>3
  <2> HIDE DEF hint, left, s
  <2>5. QED
      BY <1>5, <2>1, <2>2, <2>4
<1>9. ASSUME NEW leaf \in Leaves, ChangeDelete(h, leaf)
      PROVE  HostsLineage'
  <2> DEFINE t == Delete(s, leaf)
             hint == rpc[h].hint \ {leaf}
             left == rpc[h].left - 1
  <2>1. /\ At(txn, txn', h, t) /\ UNCHANGED <<db, mgr, files>>
        /\ At(rpc, rpc', h, [rpc[h] EXCEPT !.hint = hint, !.left = left])
        /\ marks' = marks /\ leaf \in rpc[h].hint
      BY <1>9 DEF ChangeDelete, At
  <2>2. /\ Lineage(t) /\ TreeGeneration(t) = TreeGeneration(s) + 1
        /\ leaf \in KeysValues(TreeRoot(s)) =>
             KeysValues(TreeRoot(t)) = KeysValues(TreeRoot(s)) \ {leaf}
    <3>1. leaf \in Terminals /\ ReachesRoot(s, Ancestors(s, leaf))
        BY <1>6, <1>9 DEF ChangeDelete
    <3> HIDE DEF s
    <3>2. QED
        BY <1>3, <1>4, <3>1, DeleteLineage
  <2> HIDE DEF t
  <2>3. ~marks.misplaced => KeysValues(TreeRoot(t)) = hint
      BY <1>3, <2>1, <2>2
  <2> HIDE DEF hint, left, s
  <2>4. QED
      BY <1>5, <2>1, <2>2, <2>3
(* The end of a batch.                                                     *)
<1>10. Lineage(BatchResult(h)) /\ TreeGeneration(BatchResult(h)) = base
  <2>1. BatchResult(h) = InsertRootWithAncestors(RollbackToGeneration(s, base), TreeRoot(s), "PENDING")
      BY DEF BatchResult
  <2> HIDE DEF s, base
  <2>2. QED
      BY <1>3, <2>1, BatchLineage
<1>11. CASE EndBatch(h)
  <2> DEFINE u == BatchResult(h)
  <2>1. /\ At(db, db', h, u) /\ At(txn, txn', h, u) /\ At(rpc, rpc', h, Idle)
        /\ UNCHANGED <<mgr, files, marks>>
      BY <1>11 DEF EndBatch, Transaction, At
  <2>2. Idle.pc # "changing"
      BY DEF Idle
  <2> HIDE DEF u
  <2>3. Lineage(u) /\ TreeGeneration(u) >= TreeGeneration(db[h])
      BY <1>3, <1>10 DEF u
  <2>4. QED
      BY <1>0, <2>1, <2>2, <2>3, RequestCommits
<1>12. CASE EndOfferChanges(h)
  <2>1. PICK t, root : /\ At(txn, txn', h, t)
                       /\ At(rpc, rpc', h, [rpc[h] EXCEPT !.pc = "prove", !.root = root])
                       /\ t = BatchResult(h) \/ t = txn[h]
      BY <1>0, <1>12, Kept, ZenonT(40) DEF EndOfferChanges, At
  <2> DEFINE r == [rpc[h] EXCEPT !.pc = "prove", !.root = root]
  <2>2. At(rpc, rpc', h, r) /\ r.pc = "prove" /\ UNCHANGED <<db, mgr, files, marks>>
      BY <1>1, <1>12, <2>1 DEF RpcFields, EndOfferChanges
  <2> HIDE DEF r
  <2>3. Lineage(t) /\ TreeGeneration(db[h]) <= TreeGeneration(t)
    <3>1. CASE t = BatchResult(h)
        BY <1>3, <1>10, <3>1
    <3>2. CASE t = txn[h]
        BY <1>3, <3>2
    <3>3. QED
        BY <2>1, <3>1, <3>2
  <2>4. BatchOK(db[h], t, r, marks'.misplaced)
      BY <2>2 DEF BatchOK
  <2>5. QED
      BY <1>0, <2>1, <2>2, <2>3, <2>4, RequestGoesOn
<1>13. QED
    BY <1>7, <1>8, <1>9, <1>11, <1>12 DEF Change

LEMMA ServeLineage ==
    ASSUME Inv, HostsLineage, NEW h \in Hosts, NEW c, Serve(h, c)
    PROVE  HostsLineage'
<1> USE DEF Rpc
<1>0. FunctionsOK /\ Len(chain) \in Nat
    BY SequenceLen DEF Inv, ChainOK
<1>1. /\ HostLineage(db[h], txn[h], rpc[h], mgr[h], files[h], marks.misplaced)
      /\ HostOK(h \in marks.raced, db[h], txn[h], locks[h], rpc[h], mgr[h], chain)
      /\ rpc[h] = [f \in RpcFields |-> rpc[h][f]] /\ At(txn, txn, h, txn[h])
    BY <1>0, HostIs, Host, Kept DEF HostOK
<1>2. /\ Lineage(db[h]) /\ Lineage(txn[h]) /\ TreeGeneration(db[h]) <= TreeGeneration(txn[h])
      /\ TreeGeneration(db[h]) \in Int /\ TreeGeneration(txn[h]) \in Int
    BY <1>1 DEF HostLineage, Lineage, Contiguous
(* Where the request only goes on.                                         *)
<1>3. ASSUME NEW r, At(rpc, rpc', h, r), UNCHANGED <<db, txn, mgr, files, marks>>, r.pc # "changing"
      PROVE  HostsLineage'
  <2>1. /\ At(txn, txn', h, txn[h]) /\ BatchOK(db[h], txn[h], r, marks'.misplaced)
      BY <1>1, <1>3 DEF BatchOK
  <2>2. QED
      BY <1>0, <1>2, <1>3, <2>1, RequestGoesOn
(* The status is updated.                                                  *)
<1>4. ASSUME NEW s \in UpdateConfirmationStatus(txn[h])
      PROVE  Lineage(s) /\ TreeGeneration(s) >= TreeGeneration(db[h]) /\ TreeGeneration(s) \in Int
  <2>1. Lineage(s) /\ TreeGeneration(s) >= TreeGeneration(txn[h])
      BY <1>0, <1>2, <1>4, ConfirmLineage
  <2>2. TreeGeneration(s) \in Int
      BY <2>1 DEF Lineage, Contiguous
  <2>3. QED
      BY <1>2, <2>1, <2>2
<1>5. ASSUME NEW s \in UpdateConfirmationStatus(db[h])
      PROVE  Lineage(s) /\ TreeGeneration(s) >= TreeGeneration(db[h])
    BY <1>0, <1>2, <1>5, ConfirmLineage
<1>6. Idle.pc # "changing"
    BY Fields
<1>7. CASE ConfirmInTransaction(h)
  <2>0. UNCHANGED <<mgr, files, marks>>
      BY <1>7 DEF ConfirmInTransaction
  <2>1. CASE Raise(h)
      BY <1>0, <2>0, <2>1, RequestRaises
  <2>2. ASSUME NEW s \in UpdateConfirmationStatus(txn[h]), Transaction(h, s), Rpc(h, Idle)
        PROVE  HostsLineage'
    <3>1. At(db, db', h, s) /\ At(txn, txn', h, s) /\ At(rpc, rpc', h, Idle)
        BY <2>2 DEF Transaction, At
    <3>2. QED
        BY <1>0, <1>4, <1>6, <2>0, <3>1, RequestCommits
  <2>3. ASSUME NEW s \in UpdateConfirmationStatus(txn[h]), rpc[h].pc = "want_dl",
               txn' = [txn EXCEPT ![h] = s], UNCHANGED <<db, rpc>>
        PROVE  HostsLineage'
    <3>1. At(txn, txn', h, s) /\ At(rpc, rpc', h, rpc[h])
        BY <1>0, <2>3, Kept DEF At
    <3>2. BatchOK(db[h], s, rpc[h], marks'.misplaced)
        BY <2>3 DEF BatchOK
    <3>3. Lineage(s) /\ TreeGeneration(db[h]) <= TreeGeneration(s)
        BY <1>2, <1>4
    <3>4. QED
        BY <1>0, <2>0, <2>3, <3>1, <3>2, <3>3, RequestGoesOn
  <2>4. ASSUME NEW s \in UpdateConfirmationStatus(txn[h]), NEW left, TreeIdExists(s),
               txn' = [txn EXCEPT ![h] = s], UNCHANGED db,
               Rpc(h, [rpc[h] EXCEPT !.pc = "changing", !.hint = KeysValues(TreeRoot(s)),
                                     !.base = TreeGeneration(s), !.left = left])
        PROVE  HostsLineage'
    <3> DEFINE hint == KeysValues(TreeRoot(s))
               r == [rpc[h] EXCEPT !.pc = "changing", !.hint = hint,
                                   !.base = TreeGeneration(s), !.left = left]
    <3>1. At(txn, txn', h, s) /\ At(rpc, rpc', h, r)
        BY <2>4 DEF At
    <3>2. r.base = TreeGeneration(s) /\ r.hint = hint
        BY <1>1 DEF RpcFields
    <3> HIDE DEF r
    <3>3. TreeGeneration(s) \in Nat
        BY <1>4, <2>4 DEF TreeIdExists
    <3>4. BatchOK(db[h], s, r, marks'.misplaced)
        BY <1>2, <1>4, <3>2, <3>3 DEF BatchOK
    <3>5. Lineage(s) /\ TreeGeneration(db[h]) <= TreeGeneration(s)
        BY <1>2, <1>4
    <3>6. QED
        BY <1>0, <2>0, <2>4, <3>1, <3>4, <3>5, RequestGoesOn
  <2>5. QED
      BY <1>7, <2>1, <2>2, <2>3, <2>4 DEF ConfirmInTransaction
<1>8. CASE ChangeRaises(h)
    BY <1>0, <1>8, RequestRaises DEF ChangeRaises
<1>9. CASE ProveOffer(h)
  <2>0. UNCHANGED <<mgr, files, marks>>
      BY <1>9 DEF ProveOffer
  <2>1. CASE Raise(h)
      BY <1>0, <2>0, <2>1, RequestRaises
  <2>2. ASSUME NEW s \in UpdateConfirmationStatus(txn[h]), Transaction(h, s), Rpc(h, Idle)
        PROVE  HostsLineage'
    <3>1. At(db, db', h, s) /\ At(txn, txn', h, s) /\ At(rpc, rpc', h, Idle)
        BY <2>2 DEF Transaction, At
    <3>2. QED
        BY <1>0, <1>4, <1>6, <2>0, <3>1, RequestCommits
  <2>3. QED
      BY <1>9, <2>1, <2>2 DEF ProveOffer
<1>10. CASE BeginTransaction(h, c)
  <2> DEFINE r == [Idle EXCEPT !.pc = "want_dl", !.kind = calls[h][c].kind]
  <2>1. At(rpc, rpc', h, r) /\ UNCHANGED <<db, txn, mgr, files, marks>>
      BY <1>10 DEF BeginTransaction, At
  <2>2. r.pc # "changing"
      BY DEF Idle
  <2> HIDE DEF r
  <2>3. QED
      BY <1>3, <2>1, <2>2
<1>11. CASE ConfirmUnderLock(h, c)
  <2>0. UNCHANGED <<rpc, mgr, files, marks>>
      BY <1>11 DEF ConfirmUnderLock
  <2>1. CASE UNCHANGED <<db, txn>>
      BY <2>0, <2>1 DEF HostsLineage
  <2>2. CASE ~UNCHANGED <<db, txn>>
    <3>1. PICK s \in UpdateConfirmationStatus(db[h]) : Transaction(h, s)
        BY <1>11, <2>2 DEF ConfirmUnderLock
    <3>2. At(db, db', h, s) /\ At(txn, txn', h, s)
        BY <3>1 DEF Transaction, At
    <3>3. At(rpc, rpc', h, rpc[h]) /\ rpc[h].pc # "changing"
        BY <1>0, <1>1, <1>11, <2>0, Kept, FreeOutside DEF ConfirmUnderLock, Free
    <3>4. QED
        BY <1>0, <1>5, <2>0, <3>1, <3>2, <3>3, RequestCommits
  <2>3. QED
      BY <2>1, <2>2
(* No host changes.                                                        *)
<1>12. CASE TakeLock(h, c) \/ PublishRead(h, c) \/ PublishSend(h, c)
    BY <1>12 DEF TakeLock, PublishRead, PublishSend, HostsLineage
<1>13. QED
    BY <1>7, <1>8, <1>9, <1>10, <1>11, <1>12 DEF Serve

(* A file is written.                                                      *)
LEMMA FileNames ==
    ASSUME NEW fs, NEW f, NEW content
    PROVE  DOMAIN WithFile(fs, f, content) = DOMAIN fs \cup {f}
BY DEF WithFile, Inserted

LEMMA FileContent ==
    ASSUME NEW fs, NEW f, NEW content
    PROVE  WithFile(fs, f, content)[f] = content
BY DEF WithFile, Inserted

LEMMA OtherFiles ==
    ASSUME NEW fs, NEW f, NEW content, NEW g \in DOMAIN fs, g # f
    PROVE  WithFile(fs, f, content)[g] = fs[g]
BY DEF WithFile, Inserted

LEMMA FileWrittenOK ==
    ASSUME NEW fs, NEW f, NEW content, FilesOK(fs), content \subseteq Hashes
    PROVE  FilesOK(WithFile(fs, f, content))
<1>1. SUFFICES ASSUME NEW g \in DOMAIN WithFile(fs, f, content)
               PROVE  WithFile(fs, f, content)[g] \subseteq Hashes
    BY DEF FilesOK
<1>2. g \in DOMAIN fs \cup {f}
    BY FileNames
<1>3. CASE g = f
    BY <1>3, FileContent
<1>4. CASE g # f
  <2>1. g \in DOMAIN fs /\ WithFile(fs, f, content)[g] = fs[g]
      BY <1>2, <1>4, OtherFiles
  <2>2. QED
      BY <2>1 DEF FilesOK
<1>5. QED
    BY <1>3, <1>4

(* The manager goes on, with more files or fewer.                          *)
LEMMA ManagerGoesOn ==
    ASSUME FunctionsOK, HostsLineage, NEW h \in Hosts, NEW m, NEW fs,
           At(mgr, mgr', h, m), At(files, files', h, fs),
           UNCHANGED <<db, txn, rpc>>, marks'.misplaced = marks.misplaced,
           ManagerOK(db[h], m, fs), FilesOK(fs)
    PROVE  HostsLineage'
<1>1. /\ HostLineage(db[h], txn[h], rpc[h], mgr[h], files[h], marks.misplaced)
      /\ At(db, db', h, db[h]) /\ At(txn, txn', h, txn[h]) /\ At(rpc, rpc', h, rpc[h])
    BY HostIs, Kept
<1>2. HostLineage(db[h], txn[h], rpc[h], m, fs, marks'.misplaced)
    BY <1>1 DEF HostLineage
<1>3. QED
    BY <1>1, <1>2, LineageStep

(* It makes a transaction while no request is inside one.                  *)
LEMMA ManagerCommits ==
    ASSUME Inv, HostsLineage, NEW h \in Hosts, Free(h, "db"), NEW s, NEW m, NEW fs,
           At(db, db', h, s), At(txn, txn', h, s), At(mgr, mgr', h, m), At(files, files', h, fs),
           UNCHANGED rpc, marks'.misplaced = marks.misplaced,
           Lineage(s), ManagerOK(s, m, fs), FilesOK(fs)
    PROVE  HostsLineage'
<1>1. /\ FunctionsOK
      /\ HostOK(h \in marks.raced, db[h], txn[h], locks[h], rpc[h], mgr[h], chain)
    BY Host DEF Inv
<1>2. At(rpc, rpc', h, rpc[h])
    BY <1>1, Kept
<1>3. rpc[h].pc # "changing"
    BY <1>1, FreeOutside DEF Free
<1>4. TreeGeneration(s) \in Int
    BY DEF Lineage, Contiguous
<1>5. HostLineage(s, s, rpc[h], m, fs, marks'.misplaced)
    BY <1>3, <1>4 DEF HostLineage, BatchOK
<1>6. QED
    BY <1>1, <1>2, <1>5, LineageStep

LEMMA MinOfTwo ==
    ASSUME NEW a \in Int, NEW b \in Int
    PROVE  Min({a, b}) \in {a, b} /\ Min({a, b}) <= a /\ Min({a, b}) <= b
<1> DEFINE S == {a, b}
<1>1. \E x \in S : \A y \in S : x <= y
    OBVIOUS
<1>2. Min(S) \in S /\ \A y \in S : Min(S) <= y
  <2> HIDE DEF S
  <2>1. QED
      BY <1>1, Zenon DEF Min
<1>3. QED
    BY <1>2

(* The nodes of a delta file are nodes.                                    *)
LEMMA DeltaFileNodes ==
    ASSUME NEW s, Lineage(s), NEW g \in 0..TreeGeneration(s)
    PROVE  DeltaFile(s, g) \subseteq Hashes
<1>1. NodesOK(s) /\ g \in DOMAIN s.root
    BY RowTypes DEF Lineage
<1>2. Tree(s.root[g].hash) \subseteq s.node /\ s.node \subseteq Hashes
    BY <1>1, TreeOfRoot DEF NodesOK
<1>3. DeltaNodes(s, g) \subseteq Tree(s.root[g].hash)
    BY DEF DeltaNodes
<1>4. QED
    BY <1>2, <1>3 DEF DeltaFile

LEMMA ManageLineage ==
    ASSUME Inv, HostsLineage, NEW h \in Hosts, Manage(h)
    PROVE  HostsLineage'
<1> USE DEF Mgr
<1> DEFINE d == db[h]
           fs == files[h]
<1>0. FunctionsOK /\ Len(chain) \in Nat
    BY SequenceLen DEF Inv, ChainOK
<1>1. /\ HostLineage(d, txn[h], rpc[h], mgr[h], fs, marks.misplaced)
      /\ mgr[h] = [f \in MgrFields |-> mgr[h][f]]
      /\ At(files, files, h, fs) /\ At(db, db, h, d) /\ At(txn, txn, h, txn[h])
    BY <1>0, HostIs, Host, Kept DEF HostOK
<1>2. Lineage(d) /\ ManagerOK(d, mgr[h], fs) /\ FilesOK(fs) /\ TreeGeneration(d) \in Int
    BY <1>1 DEF HostLineage, Lineage, Contiguous
<1>3. mgr[h].from \in Hosts /\ Owner \in Hosts
    BY <1>2, DataLayerAssumption DEF ManagerOK
(* Where the manager has nothing to do with the tables yet.                *)
<1>4. ASSUME NEW m, m.from \in Hosts, m.pc \in {"sleep", "fetch_dl", "fetch_db", "fetched", "create"}
      PROVE  \A e, gs : ManagerOK(e, m, gs)
    BY <1>4 DEF ManagerOK, Downloading, Writing
<1>5. ASSUME NEW m, At(mgr, mgr', h, m), ManagerOK(d, m, fs),
             UNCHANGED <<db, txn, rpc, files, marks>>
      PROVE  HostsLineage'
  <2>1. At(files, files', h, fs) /\ marks'.misplaced = marks.misplaced
      BY <1>1, <1>5
  <2> HIDE DEF fs
  <2>2. QED
      BY <1>0, <1>2, <1>5, <2>1, ManagerGoesOn
<1>6. Asleep.from \in Hosts /\ Asleep.pc = "sleep"
    BY <1>3 DEF Asleep
<1>7. CASE FetchBegin(h)
  <2> DEFINE pc == IF Latest > 0 THEN "fetch_dl" ELSE "fetched"
             m == [mgr[h] EXCEPT !.pc = pc, !.target = Latest]
  <2>1. At(mgr, mgr', h, m) /\ UNCHANGED <<db, txn, rpc, files, marks>>
      BY <1>7 DEF FetchBegin, At
  <2>2. m.pc = pc /\ m.from = mgr[h].from
      BY <1>1 DEF MgrFields
  <2> HIDE DEF m
  <2>3. ManagerOK(d, m, fs)
      BY <1>3, <1>4, <2>2
  <2>4. QED
      BY <1>5, <2>1, <2>3
<1>8. CASE ManageLock(h)
  <2> DEFINE pc == IF mgr[h].pc = "fetch_dl" THEN "fetch_db" ELSE "upload_db"
             m == [mgr[h] EXCEPT !.pc = pc]
  <2>1. /\ At(mgr, mgr', h, m) /\ UNCHANGED <<db, txn, rpc, files, marks>>
        /\ mgr[h].pc \in {"fetch_dl", "upload_dl"}
      BY <1>8 DEF ManageLock, At
  <2>2. m.pc = pc /\ m.from = mgr[h].from /\ m.target = mgr[h].target
      BY <1>1 DEF MgrFields
  <2> HIDE DEF m
  <2>3. ManagerOK(d, m, fs)
      BY <1>2, <2>1, <2>2 DEF ManagerOK, Downloading, Writing
  <2>4. QED
      BY <1>5, <2>1, <2>3
<1>9. CASE ManageConfirm(h)
  <2>0. /\ UNCHANGED <<rpc, files, marks>> /\ Free(h, "db") /\ mgr[h].pc \in {"fetch_db", "upload_db"}
        /\ At(files, files', h, fs)
      BY <1>1, <1>9 DEF ManageConfirm
  <2>1. CASE At(mgr, mgr', h, Asleep) /\ UNCHANGED <<db, txn>>
    <3>1. ManagerOK(d, Asleep, fs)
        BY <1>4, <1>6
    <3>2. QED
        BY <1>5, <2>0, <2>1, <3>1
  <2> DEFINE pc == IF mgr[h].pc = "fetch_db" THEN "create" ELSE "upload"
             m == [mgr[h] EXCEPT !.pc = pc]
  <2>2. ASSUME NEW s \in UpdateConfirmationStatus(d), Transaction(h, s), At(mgr, mgr', h, m)
        PROVE  HostsLineage'
    <3>1. Lineage(s)
        BY <1>0, <1>2, <2>2, ConfirmLineage
    <3>2. At(db, db', h, s) /\ At(txn, txn', h, s)
        BY <2>2 DEF Transaction, At
    <3>3. m.pc = pc /\ m.from = mgr[h].from /\ m.target = mgr[h].target
        BY <1>1 DEF MgrFields
    <3> HIDE DEF m
    <3>4. ManagerOK(s, m, fs)
        BY <1>2, <2>0, <3>3 DEF ManagerOK, Downloading, Writing
    <3> HIDE DEF fs
    <3>5. QED
        BY <1>2, <2>0, <2>2, <3>1, <3>2, <3>4, ManagerCommits
  <2>3. QED
      BY <1>9, <2>1, <2>2 DEF ManageConfirm, At
<1>10. CASE FetchCreate(h)
  <2> DEFINE m == [mgr[h] EXCEPT !.pc = "server", !.servers = Hosts \ ({h} \cup ignored[h])]
             s == IF TreeIdExists(d) THEN d ELSE InsertRoot(d, Empty, "COMMITTED")
  <2>1. At(mgr, mgr', h, m) /\ UNCHANGED <<rpc, files, marks>> /\ Free(h, "db")
      BY <1>10 DEF FetchCreate, At
  <2>2. m.pc = "server" /\ m.from = mgr[h].from
      BY <1>1 DEF MgrFields
  <2> HIDE DEF m
  <2>3. CASE TreeIdExists(d)
    <3>1. ManagerOK(d, m, fs)
        BY <1>3, <2>2, <2>3 DEF ManagerOK, Downloading, Writing, TreeIdExists
    <3>2. UNCHANGED <<db, txn>>
        BY <1>10, <2>3 DEF FetchCreate
    <3>3. QED
        BY <1>5, <2>1, <3>1, <3>2
  <2>4. CASE ~TreeIdExists(d)
    <3>1. At(db, db', h, s) /\ At(txn, txn', h, s)
        BY <1>10, <2>4 DEF FetchCreate, Transaction, At
    <3>2. Lineage(s) /\ TreeGeneration(s) = TreeGeneration(d) + 1
      <4>1. s = InsertRoot(d, Empty, "COMMITTED")
          BY <2>4
      <4>2. IsStore(d)
          BY <1>2 DEF Lineage, Contiguous
      <4>3. Put(d, s, TreeGeneration(d) + 1, Empty, "COMMITTED")
          BY <4>1, <4>2, InsertRootIs
      <4>4. s.node = d.node /\ s.ancestors = d.ancestors
          BY <4>1, <4>2, InsertRootTables DEF RootRow
      <4> HIDE DEF s, d
      <4>5. QED
          BY <1>2, <4>3, <4>4, EmptyRootLineage
    <3> HIDE DEF s
    <3>3. TreeGeneration(s) >= 0
        BY <1>2, <3>2 DEF Lineage, Contiguous
    <3>4. ManagerOK(s, m, fs)
        BY <1>3, <2>2, <3>3 DEF ManagerOK, Downloading, Writing
    <3>5. At(files, files', h, fs) /\ marks'.misplaced = marks.misplaced
        BY <1>1, <2>1
    <3> HIDE DEF fs
    <3>6. QED
        BY <1>2, <2>1, <3>1, <3>2, <3>4, <3>5, ManagerCommits
  <2>5. QED
      BY <2>3, <2>4
<1>11. ASSUME NEW server \in Hosts, FetchServer(h, server)
       PROVE  HostsLineage'
  <2> DEFINE gen == TreeGeneration(d)
             roots == SubSeq(chain, gen + 2, mgr[h].target + 1)
             m == [mgr[h] EXCEPT !.pc = "download", !.servers = mgr[h].servers \ {server}, !.from = server,
                                 !.gen = gen, !.roots = roots]
  <2>1. At(mgr, mgr', h, m) /\ UNCHANGED <<db, txn, rpc, files, marks>> /\ mgr[h].pc = "server"
      BY <1>11 DEF FetchServer, At
  <2>2. m.pc = "download" /\ m.from = server /\ m.gen = gen
      BY <1>1 DEF MgrFields
  <2> HIDE DEF m
  <2>3. gen \in Nat
      BY <1>2, <2>1 DEF ManagerOK
  <2>4. ManagerOK(d, m, fs)
      BY <1>11, <2>2, <2>3 DEF ManagerOK, Downloading, Writing
  <2>5. QED
      BY <1>5, <2>1, <2>4
<1>12. CASE FetchEnds(h)
  <2> DEFINE m == [Asleep EXCEPT !.pc = "fetched"]
  <2>1. At(mgr, mgr', h, m) /\ UNCHANGED <<db, txn, rpc, files, marks>>
      BY <1>12 DEF FetchEnds, At
  <2>2. m.pc = "fetched" /\ m.from = Owner
      BY DEF Asleep
  <2> HIDE DEF m
  <2>3. ManagerOK(d, m, fs)
      BY <1>3, <1>4, <2>2
  <2>4. QED
      BY <1>5, <2>1, <2>3
<1>13. CASE DownloadFails(h)
  <2> DEFINE m == [mgr[h] EXCEPT !.pc = "server"]
  <2>1. At(mgr, mgr', h, m) /\ UNCHANGED <<db, txn, rpc, files, marks>> /\ mgr[h].pc = "download"
      BY <1>13 DEF DownloadFails, At
  <2>2. m.pc = "server" /\ m.from = mgr[h].from
      BY <1>1 DEF MgrFields
  <2> HIDE DEF m
  <2>3. ManagerOK(d, m, fs)
      BY <1>2, <2>1, <2>2 DEF ManagerOK, Downloading, Writing
  <2>4. QED
      BY <1>5, <2>1, <2>3
<1>14. CASE Download(h)
  <2> DEFINE m == [mgr[h] EXCEPT !.pc = "insert"]
             from == mgr[h].from
             content == files[from][Wanted(h)]
             gs == WithFile(fs, Wanted(h), content)
             partial == marks.partial \cup {h}
  <2>1. /\ At(mgr, mgr', h, m) /\ At(files, files', h, gs) /\ UNCHANGED <<db, txn, rpc>>
        /\ mgr[h].pc = "download" /\ Wanted(h) \in DOMAIN files[from]
        /\ marks' = marks \/ marks' = [marks EXCEPT !.partial = partial]
      BY <1>14 DEF Download, At
  <2>2. /\ m.pc = "insert" /\ m.from = from /\ m.gen = mgr[h].gen /\ m.roots = mgr[h].roots
      BY <1>1 DEF MgrFields
  <2> HIDE DEF m, partial
  <2>3. marks'.misplaced = marks.misplaced
      BY <1>0, <2>1 DEF FunctionsOK
  <2>4. content \subseteq Hashes
    <3>1. FilesOK(files[from])
        BY <1>3, HostIs DEF HostLineage
    <3>2. QED
        BY <2>1, <3>1 DEF FilesOK
  <2>5. FilesOK(gs)
    <3> HIDE DEF content, fs
    <3>1. QED
        BY <1>2, <2>4, FileWrittenOK
  <2>6. Wanted(h) \in DOMAIN gs
    <3> DEFINE f == Wanted(h)
    <3> HIDE DEF content, fs, f
    <3>1. DOMAIN gs = DOMAIN fs \cup {f}
      <4>1. gs = WithFile(fs, f, content)
          BY DEF f
      <4> HIDE DEF gs
      <4>2. QED
          BY <4>1, FileNames
    <3>2. QED
        BY <3>1 DEF f
  <2> HIDE DEF gs
  <2>7. ManagerOK(d, m, gs)
      BY <1>2, <2>1, <2>2, <2>6 DEF ManagerOK, Downloading, Writing, Wanted
  <2>8. QED
      BY <1>0, <2>1, <2>3, <2>5, <2>7, ManagerGoesOn
<1>15. CASE FullFile(h)
  <2> DEFINE f == File("full", Head(mgr[h].roots), mgr[h].gen + 1)
             gs == WithFile(fs, f, {})
             m == [mgr[h] EXCEPT !.pc = "download", !.gen = mgr[h].gen + 1, !.roots = Tail(mgr[h].roots)]
  <2>1. /\ At(mgr, mgr', h, m) /\ At(files, files', h, gs) /\ UNCHANGED <<db, txn, rpc, marks>>
        /\ mgr[h].pc = "full"
      BY <1>15 DEF FullFile, At
  <2>2. m.pc = "download" /\ m.from = mgr[h].from /\ m.gen = mgr[h].gen + 1
      BY <1>1 DEF MgrFields
  <2>3. FilesOK(gs)
    <3> HIDE DEF f, fs
    <3>1. QED
        BY <1>2, FileWrittenOK
  <2> HIDE DEF m, gs
  <2>4. ManagerOK(d, m, gs)
      BY <1>2, <2>1, <2>2 DEF ManagerOK, Downloading, Writing
  <2>5. QED
      BY <1>0, <2>1, <2>3, <2>4, ManagerGoesOn
<1>16. CASE InsertDelta(h)
  <2> DEFINE content == fs[Wanted(h)]
             hash == Head(mgr[h].roots)
  <2>1. mgr[h].pc = "insert" /\ Free(h, "db") /\ UNCHANGED rpc
      BY <1>16 DEF InsertDelta
  <2>2. /\ TreeGeneration(d) >= 0 /\ mgr[h].gen \in Nat /\ Wanted(h) \in DOMAIN fs
      BY <1>2, <2>1 DEF ManagerOK, Downloading, Wanted
  <2>3. content \subseteq Hashes
      BY <1>2, <2>2 DEF FilesOK
  <2>4. CASE FileFits(d, hash, content)
    <3> DEFINE u == InsertFromFile(d, hash, content)
               m == [mgr[h] EXCEPT !.pc = "full"]
               raced == marks.raced \cup {h}
    <3>1. /\ At(db, db', h, u) /\ At(txn, txn', h, u) /\ At(mgr, mgr', h, m) /\ files' = files
          /\ marks' = marks \/ marks' = [marks EXCEPT !.raced = raced]
        BY <1>16, <2>4 DEF InsertDelta, Transaction, At
    <3>2. m.pc = "full" /\ m.from = mgr[h].from /\ m.gen = mgr[h].gen
        BY <1>1 DEF MgrFields
    <3> HIDE DEF m, raced
    <3>3. marks'.misplaced = marks.misplaced
        BY <1>0, <3>1 DEF FunctionsOK
    <3>4. Lineage(u) /\ TreeGeneration(u) = TreeGeneration(d) + 1
      <4> HIDE DEF d, hash, content
      <4>1. QED
          BY <1>2, <2>2, <2>3, <2>4, FileLineage
    <3> HIDE DEF u
    <3>5. ManagerOK(u, m, fs)
        BY <1>2, <1>3, <2>2, <3>2, <3>4 DEF ManagerOK, Downloading, Writing
    <3>6. At(files, files', h, fs)
        BY <1>1, <3>1
    <3> HIDE DEF fs
    <3>7. QED
        BY <1>2, <2>1, <3>1, <3>3, <3>4, <3>5, <3>6, ManagerCommits
  <2>5. CASE ~FileFits(d, hash, content)
    <3>1. PICK kept \in KeptNodes(d, content) :
             Transaction(h, RollbackToGeneration([d EXCEPT !.node = @ \cup kept], mgr[h].gen))
        BY <1>16, <2>5 DEF InsertDelta
    <3> DEFINE a == [d EXCEPT !.node = @ \cup kept]
               u == RollbackToGeneration(a, mgr[h].gen)
               m == [mgr[h] EXCEPT !.pc = "server"]
               gs == [f \in DOMAIN fs \ {Wanted(h)} |-> fs[f]]
    <3>2. At(db, db', h, u) /\ At(txn, txn', h, u)
        BY <3>1 DEF Transaction, At
    <3>3. At(mgr, mgr', h, m) /\ marks' = marks /\ At(files, files', h, gs)
        BY <1>16, <2>5 DEF InsertDelta, At
    <3>4. m.pc = "server" /\ m.from = mgr[h].from
        BY <1>1 DEF MgrFields
    <3>5. FilesOK(gs)
        BY <1>2 DEF FilesOK
    <3>6. kept \subseteq content /\ \A n \in kept : Children(n) \subseteq d.node \cup kept
      <4> HIDE DEF d, content
      <4>1. QED
          BY <3>1 DEF KeptNodes
    <3>7. Lineage(a) /\ TreeGeneration(a) = TreeGeneration(d)
      <4>1. IsStore(d) /\ kept \subseteq Hashes
          BY <1>2, <2>3, <3>6 DEF Lineage, Contiguous
      <4> HIDE DEF d
      <4>2. Lineage(a)
          BY <1>2, <3>6, <4>1, NodesAdded
      <4>3. a.root = d.root
          BY <4>1, AddNodesTable
      <4>4. QED
          BY <4>2, <4>3 DEF TreeGeneration, RootsWith
    <3> HIDE DEF a
    <3>8. Lineage(u) /\ TreeGeneration(u) >= 0
      <4>1. mgr[h].gen \in Int /\ mgr[h].gen >= -1
          BY <2>2
      <4>2. Lineage(u)
          BY <3>7, <4>1, RollbackLineage
      <4>3. TreeGeneration(u) = IF mgr[h].gen < TreeGeneration(a) THEN mgr[h].gen ELSE TreeGeneration(a)
          BY <3>7, <4>1, RollbackIs DEF Lineage
      <4>4. QED
          BY <2>2, <3>7, <4>2, <4>3
    <3> HIDE DEF u, m, gs
    <3>9. ManagerOK(u, m, gs)
        BY <1>3, <3>4, <3>8 DEF ManagerOK, Downloading, Writing
    <3>10. QED
        BY <2>1, <3>2, <3>3, <3>5, <3>8, <3>9, ManagerCommits
  <2>6. QED
      BY <2>4, <2>5
<1>17. CASE UploadBegin(h)
  <2> DEFINE m == [Asleep EXCEPT !.pc = "upload_dl", !.target = Latest]
  <2>1. /\ IF chain = <<>> THEN At(mgr, mgr', h, Asleep) ELSE At(mgr, mgr', h, m)
        /\ UNCHANGED <<db, txn, rpc, files, marks>>
      BY <1>17 DEF UploadBegin, At
  <2>2. m.pc = "upload_dl" /\ m.from = Owner /\ m.target = Latest
      BY DEF Asleep
  <2> HIDE DEF m
  <2>3. ManagerOK(d, Asleep, fs)
      BY <1>4, <1>6
  <2>4. ASSUME chain # <<>> PROVE ManagerOK(d, m, fs)
    <3>1. PICK S : chain \in Seq(S)
        BY DEF Inv, ChainOK, Sequence
    <3>2. Latest \in Nat
        BY <2>4, <3>1 DEF Latest
    <3>3. QED
        BY <1>3, <2>2, <3>2 DEF ManagerOK, Downloading, Writing
  <2>5. QED
      BY <1>5, <2>1, <2>3, <2>4
<1>18. CASE UploadStart(h)
  <2> DEFINE gen == Min({mgr[h].target, TreeGeneration(d)})
             m == [mgr[h] EXCEPT !.pc = "write_full", !.gen = gen]
  <2>1. /\ IF TreeIdExists(d) THEN At(mgr, mgr', h, m) ELSE At(mgr, mgr', h, Asleep)
        /\ UNCHANGED <<db, txn, rpc, files, marks>> /\ mgr[h].pc = "upload"
      BY <1>18 DEF UploadStart, At
  <2>2. m.pc = "write_full" /\ m.from = mgr[h].from /\ m.gen = gen
      BY <1>1 DEF MgrFields
  <2> HIDE DEF m
  <2>3. ManagerOK(d, Asleep, fs)
      BY <1>4, <1>6
  <2>4. ASSUME TreeIdExists(d) PROVE ManagerOK(d, m, fs)
    <3>1. mgr[h].target \in Nat /\ TreeGeneration(d) \in Nat
        BY <1>2, <2>1, <2>4 DEF ManagerOK, TreeIdExists
    <3>2. gen \in Nat /\ gen <= TreeGeneration(d)
      <4> DEFINE a == mgr[h].target
                 b == TreeGeneration(d)
      <4>1. a \in Nat /\ b \in Nat /\ a \in Int /\ b \in Int
          BY <3>1
      <4>2. gen = Min({a, b})
          OBVIOUS
      <4> HIDE DEF gen, a, b
      <4>3. gen \in {a, b} /\ gen <= b
          BY <4>1, <4>2, MinOfTwo
      <4>4. QED
          BY <4>1, <4>3 DEF b
    <3> HIDE DEF gen
    <3>3. QED
        BY <1>3, <2>2, <3>2 DEF ManagerOK, Downloading, Writing
  <2>5. QED
      BY <1>5, <2>1, <2>3, <2>4
<1>19. CASE WriteFull(h)
  <2> DEFINE f == UploadFile(h, "full")
             gs == WithFile(fs, f, {})
             written == f \notin DOMAIN fs
             m == [mgr[h] EXCEPT !.pc = "write_delta", !.written = written]
  <2>1. /\ IF mgr[h].gen = 0 THEN At(mgr, mgr', h, Asleep) /\ files' = files
           ELSE At(mgr, mgr', h, m) /\ At(files, files', h, gs)
        /\ UNCHANGED <<db, txn, rpc, marks>> /\ mgr[h].pc = "write_full"
      BY <1>19 DEF WriteFull, At
  <2>2. m.pc = "write_delta" /\ m.from = mgr[h].from /\ m.gen = mgr[h].gen
    <3> HIDE DEF written
    <3>1. QED
        BY <1>1 DEF MgrFields
  <2>3. ManagerOK(d, Asleep, fs)
      BY <1>4, <1>6
  <2>4. FilesOK(gs)
    <3> HIDE DEF f, fs
    <3>1. QED
        BY <1>2, FileWrittenOK
  <2> HIDE DEF m, gs
  <2>5. ASSUME mgr[h].gen # 0 PROVE ManagerOK(d, m, gs)
      BY <1>2, <2>1, <2>2, <2>5 DEF ManagerOK, Downloading, Writing
  <2>6. CASE mgr[h].gen = 0
      BY <1>5, <2>1, <2>3, <2>6
  <2>7. CASE mgr[h].gen # 0
      BY <1>0, <2>1, <2>4, <2>5, <2>7, ManagerGoesOn
  <2>8. QED
      BY <2>6, <2>7
<1>20. CASE OpenDelta(h)
  <2> DEFINE f == UploadFile(h, "delta")
             gs == WithFile(fs, f, {})
             m == [mgr[h] EXCEPT !.pc = "write_full", !.gen = mgr[h].gen - 1]
             n == [mgr[h] EXCEPT !.pc = "fill_delta"]
  <2>1. /\ \/ (At(mgr, mgr', h, Asleep) \/ At(mgr, mgr', h, m)) /\ files' = files
           \/ At(mgr, mgr', h, n) /\ At(files, files', h, gs)
        /\ UNCHANGED <<db, txn, rpc, marks>> /\ mgr[h].pc = "write_delta"
      BY <1>20 DEF OpenDelta, At
  <2>2. m.pc = "write_full" /\ m.from = mgr[h].from /\ m.gen = mgr[h].gen - 1
      BY <1>1 DEF MgrFields
  <2>3. n.pc = "fill_delta" /\ n.from = mgr[h].from /\ n.gen = mgr[h].gen
      BY <1>1 DEF MgrFields
  <2>4. ManagerOK(d, Asleep, fs)
      BY <1>4, <1>6
  <2>5. FilesOK(gs)
    <3> HIDE DEF f, fs
    <3>1. QED
        BY <1>2, FileWrittenOK
  <2> HIDE DEF m, n, gs
  <2>6. ManagerOK(d, m, fs) /\ ManagerOK(d, n, gs)
      BY <1>2, <2>1, <2>2, <2>3 DEF ManagerOK, Downloading, Writing
  <2>7. CASE (At(mgr, mgr', h, Asleep) \/ At(mgr, mgr', h, m)) /\ files' = files
      BY <1>5, <2>1, <2>4, <2>6, <2>7
  <2>8. CASE At(mgr, mgr', h, n) /\ At(files, files', h, gs)
      BY <1>0, <2>1, <2>5, <2>6, <2>8, ManagerGoesOn
  <2>9. QED
      BY <2>1, <2>7, <2>8
<1>21. CASE FillDelta(h)
  <2> DEFINE f == UploadFile(h, "delta")
             content == DeltaFile(d, mgr[h].gen)
             gs == [fs EXCEPT ![f] = content]
             m == [mgr[h] EXCEPT !.pc = "write_full", !.gen = mgr[h].gen - 1]
  <2>1. /\ At(mgr, mgr', h, m) /\ At(files, files', h, gs) /\ UNCHANGED <<db, txn, rpc, marks>>
        /\ mgr[h].pc = "fill_delta"
      BY <1>21 DEF FillDelta, At
  <2>2. m.pc = "write_full" /\ m.from = mgr[h].from /\ m.gen = mgr[h].gen - 1
      BY <1>1 DEF MgrFields
  <2>3. mgr[h].gen \in Nat /\ mgr[h].gen > 0 /\ mgr[h].gen <= TreeGeneration(d)
      BY <1>2, <2>1 DEF ManagerOK, Writing
  <2>4. content \subseteq Hashes
    <3>1. mgr[h].gen \in 0..TreeGeneration(d)
        BY <1>2, <2>3
    <3> HIDE DEF d
    <3>2. QED
        BY <1>2, <3>1, DeltaFileNodes
  <2>5. FilesOK(gs)
    <3> HIDE DEF f, content
    <3>1. QED
        BY <1>2, <2>4 DEF FilesOK
  <2> HIDE DEF m, gs
  <2>6. ManagerOK(d, m, gs)
      BY <1>2, <1>3, <2>2, <2>3 DEF ManagerOK, Downloading, Writing
  <2>7. QED
      BY <1>0, <2>1, <2>5, <2>6, ManagerGoesOn
<1>22. QED
    BY <1>7, <1>8, <1>9, <1>10, <1>11, <1>12, <1>13, <1>14, <1>15, <1>16, <1>17, <1>18, <1>19,
       <1>20, <1>21 DEF Manage

LEMMA NewStoreLineage ==
    /\ Lineage(NewStore) /\ TreeGeneration(NewStore) = -1
    /\ Lineage(InsertRoot(NewStore, Empty, "PENDING"))
    /\ TreeGeneration(InsertRoot(NewStore, Empty, "PENDING")) = -1
<1>1. IsStore(NewStore) /\ RootsWith(NewStore, "COMMITTED") = {}
    BY DEF IsStore, NewStore, RootsWith
<1>2. Contiguous(NewStore) /\ TreeGeneration(NewStore) = -1
  <2>1. 0 \in Nat /\ RootsWith(NewStore, "COMMITTED") = 0..(0 - 1)
      BY <1>1
  <2>2. Contiguous(NewStore) /\ TreeGeneration(NewStore) = 0 - 1
      BY <1>1, <2>1, ContiguousIf
  <2>3. QED
      BY <2>2
<1>3. Lineage(NewStore)
  <2>1. DOMAIN NewStore.root = {} /\ DOMAIN NewStore.ancestors = {} /\ NewStore.node = {}
      BY DEF NewStore
  <2>2. NodesOK(NewStore)
      BY <2>1 DEF NodesOK
  <2>3. 0..TreeGeneration(NewStore) = {}
      BY <1>2
  <2>4. QED
      BY <1>2, <2>1, <2>2, <2>3 DEF Lineage
<1> DEFINE first == InsertRoot(NewStore, Empty, "PENDING")
<1>4. Lineage(first)
    BY <1>3, PendingLineage
<1>5. TreeGeneration(first) = -1
  <2>1. Put(NewStore, first, TreeGeneration(NewStore) + 1, Empty, "PENDING")
      BY <1>1, InsertRootIs
  <2> HIDE DEF first
  <2>2. QED
      BY <1>2, <2>1, PutPending
<1>6. QED
    BY <1>2, <1>3, <1>4, <1>5

LEMMA InitLineage ==
    ASSUME Init
    PROVE  HostsLineage
<1> DEFINE first == InsertRoot(NewStore, Empty, "PENDING")
<1>1. files = [h \in Hosts |-> files[h]]
    BY DEF Init
<1>2. ASSUME NEW h \in Hosts
      PROVE  HostLineage(db[h], txn[h], rpc[h], mgr[h], files[h], marks.misplaced)
  <2>1. /\ db[h] \in {NewStore, first} /\ txn[h] = db[h] /\ rpc[h] = Idle /\ mgr[h] = Asleep
        /\ files[h] = <<>>
      BY DEF Init
  <2>2. Lineage(db[h]) /\ TreeGeneration(db[h]) = -1
      BY <2>1, NewStoreLineage
  <2> HIDE DEF first
  <2>3. BatchOK(db[h], txn[h], rpc[h], marks.misplaced)
      BY <2>1, Fields DEF BatchOK
  <2>4. Asleep.from \in Hosts /\ Asleep.pc = "sleep"
      BY DataLayerAssumption DEF Asleep
  <2>5. ManagerOK(db[h], Asleep, files[h])
      BY <2>4 DEF ManagerOK, Downloading, Writing
  <2>6. FilesOK(files[h])
      BY <2>1 DEF FilesOK
  <2>7. QED
      BY <2>1, <2>2, <2>3, <2>5, <2>6 DEF HostLineage
<1>3. QED
    BY <1>1, <1>2 DEF HostsLineage

LEMMA CrashLineage ==
    ASSUME Inv, HostsLineage, NEW h \in Hosts, Crash(h)
    PROVE  HostsLineage'
<1> DEFINE torn == marks.torn \cup {h}
<1>0. FunctionsOK
    BY DEF Inv
<1>1. /\ At(db, db', h, db[h]) /\ At(txn, txn', h, db[h]) /\ At(files, files', h, files[h])
      /\ At(rpc, rpc', h, Idle) /\ At(mgr, mgr', h, Asleep)
    BY <1>0, Kept, HostIs DEF Crash, At, Rpc, Mgr
<1>2. marks' = marks \/ marks' = [marks EXCEPT !.torn = torn]
    BY DEF Crash
<1> HIDE DEF torn
<1>3. marks'.misplaced = marks.misplaced
    BY <1>0, <1>2 DEF FunctionsOK
<1>4. HostLineage(db[h], txn[h], rpc[h], mgr[h], files[h], marks.misplaced)
    BY HostIs
<1>5. TreeGeneration(db[h]) <= TreeGeneration(db[h])
    BY <1>4 DEF HostLineage, Lineage, Contiguous
<1>6. BatchOK(db[h], db[h], Idle, marks'.misplaced)
    BY Fields DEF BatchOK
<1>7. Asleep.from \in Hosts /\ Asleep.pc = "sleep"
    BY DataLayerAssumption DEF Asleep
<1>8. ManagerOK(db[h], Asleep, files[h])
    BY <1>7 DEF ManagerOK, Downloading, Writing
<1>9. HostLineage(db[h], db[h], Idle, Asleep, files[h], marks'.misplaced)
    BY <1>4, <1>5, <1>6, <1>8 DEF HostLineage
<1>10. QED
    BY <1>0, <1>1, <1>3, <1>9, LineageStep

LEMMA NextLineage ==
    ASSUME Inv, HostsLineage, [Next]_vars
    PROVE  HostsLineage'
<1>1. CASE UNCHANGED vars
    BY <1>1 DEF vars, HostsLineage
<1>2. ASSUME NEW h \in Hosts, AskAgain(h)
      PROVE  HostsLineage'
    BY <1>2 DEF AskAgain, HostsLineage
<1>3. ASSUME NEW spend, ConfirmSpend(spend)
      PROVE  HostsLineage'
    BY <1>3 DEF ConfirmSpend, HostsLineage
<1>4. QED
    BY <1>1, <1>2, <1>3, RequestLineage, ChangeLineage, ServeLineage, ManageLineage, CrashLineage DEF Next

LEMMA LineageAlways == Spec => [](Inv /\ HostsLineage)
<1>1. Init => Inv /\ HostsLineage
    BY InitOK, InitLineage
<1>2. Inv /\ HostsLineage /\ [Next]_vars => (Inv /\ HostsLineage)'
    BY NextOK, NextLineage
<1>3. QED
    BY <1>1, <1>2, PTL DEF Spec

(* The committed generations of every store are 0..n, with and without a   *)
(* batch under way.                                                        *)
NoGaps ==
    \A h \in Hosts :
        /\ RootsWith(db[h], "COMMITTED") = 0..TreeGeneration(db[h])
        /\ RootsWith(txn[h], "COMMITTED") = 0..TreeGeneration(txn[h])

(* A host never has tables with a gap, as _check_roots_are_incrementing    *)
(* wants, even when a request overtook one of its downloads.               *)
THEOREM NoGapsTheorem == Spec => []NoGaps
<1>1. Inv /\ HostsLineage => NoGaps
    BY HostIs DEF NoGaps, HostLineage, Lineage, Contiguous
<1>2. QED
    BY <1>1, LineageAlways, PTL

(* What a request reads from the ancestors table is the tree, for every    *)
(* generation, host and store: the rows that insert, delete, a batch that  *)
(* is rolled back, a delta file, a confirmed or shifted root write, and    *)
(* those that they leave alone, give every node its parent.                *)
THEOREM LineageTheorem == Spec => []LineageIsExact
<1>1. Inv /\ HostsLineage => LineageIsExact
  <2>1. SUFFICES ASSUME HostsLineage, NEW h \in Hosts
                 PROVE  LET s == txn[h] IN
                          /\ \A g \in RootsWith(s, "COMMITTED") : \A n \in Tree(s.root[g].hash) :
                               LET parent == OneAncestor(s, n, g)
                               IN  IF n = s.root[g].hash THEN parent = Empty
                                   ELSE parent \in Tree(s.root[g].hash) /\ n \in Children(parent)
                          /\ DOMAIN s.ancestors \subseteq s.node \X (DOMAIN s.root)
      BY DEF LineageIsExact
  <2> DEFINE s == txn[h]
  <2>2. Lineage(s)
      BY <2>1, HostIs DEF HostLineage
  <2> HIDE DEF s
  <2>3. /\ \A k \in DOMAIN s.ancestors : /\ k = <<k[1], k[2]>> /\ k[2] \in Nat /\ k[2] \in 0..TreeGeneration(s)
                                         /\ RowOK(s, k)
        /\ \A g \in 0..TreeGeneration(s) : Exact(s, g) /\ g \in DOMAIN s.root
        /\ RootsWith(s, "COMMITTED") = 0..TreeGeneration(s) /\ NodesOK(s)
    <3>1. /\ \A k \in DOMAIN s.ancestors : k = <<k[1], k[2]>> /\ k[2] \in Nat
          /\ \A g \in 0..TreeGeneration(s) : g \in DOMAIN s.root
        BY <2>2, RowTypes
    <3>2. \A k \in DOMAIN s.ancestors : RowOK(s, k)
        BY <2>2 DEF Lineage
    <3>3. \A k \in DOMAIN s.ancestors : k[2] \in 0..TreeGeneration(s)
        BY <3>2 DEF RowOK
    <3>4. /\ \A g \in 0..TreeGeneration(s) : Exact(s, g)
          /\ RootsWith(s, "COMMITTED") = 0..TreeGeneration(s) /\ NodesOK(s)
        BY <2>2 DEF Lineage, Contiguous
    <3>5. QED
        BY <3>1, <3>2, <3>3, <3>4
  <2>4. ASSUME NEW g \in RootsWith(s, "COMMITTED"), NEW n \in Tree(s.root[g].hash)
        PROVE  LET parent == OneAncestor(s, n, g)
               IN  IF n = s.root[g].hash THEN parent = Empty
                   ELSE parent \in Tree(s.root[g].hash) /\ n \in Children(parent)
    <3>0. TreeGeneration(s) \in Int
        BY <2>2 DEF Lineage, Contiguous
    <3>1. g \in Nat /\ Exact(s, g)
        BY <2>3, <3>0
    <3>2. CASE n = s.root[g].hash
      <4>1. <<n, g>> \in DOMAIN s.ancestors
          BY <3>1, <3>2 DEF Exact
      <4>2. OneAncestor(s, n, g) = s.ancestors[<<n, g>>]
          BY <2>3, <3>1, <4>1, RowHere
      <4>3. s.ancestors[<<n, g>>] = Empty
          BY <2>3, <3>2, <4>1 DEF RowOK
      <4>4. QED
          BY <3>2, <4>2, <4>3
    <3>3. CASE n # s.root[g].hash
        BY <3>1, <3>3 DEF Exact
    <3>4. QED
        BY <3>2, <3>3
  <2>5. DOMAIN s.ancestors \subseteq s.node \X (DOMAIN s.root)
    <3>1. SUFFICES ASSUME NEW k \in DOMAIN s.ancestors PROVE k \in s.node \X (DOMAIN s.root)
        OBVIOUS
    <3>2. k[2] \in DOMAIN s.root /\ k[1] \in Tree(s.root[k[2]].hash)
        BY <2>3 DEF RowOK
    <3>3. k[1] \in s.node
        BY <2>3, <3>2, TreeOfRoot
    <3>4. k = <<k[1], k[2]>>
        BY <2>3
    <3>5. QED
        BY <3>2, <3>3, <3>4
  <2>6. QED
      BY <2>4, <2>5 DEF s
<1>2. QED
    BY <1>1, LineageAlways, PTL

(* Inside a batch the dict of insert_batch, which its duplicate checks and *)
(* autoinsert go by, has exactly the leaves of the tree, for any number of *)
(* insertions and deletions.                                               *)
THEOREM HintTheorem == Spec => []HintIsTree
<1>1. Inv /\ HostsLineage => HintIsTree
    BY HostIs DEF HostLineage, BatchOK, HintIsTree
<1>2. QED
    BY <1>1, LineageAlways, PTL

--------------------------------------------------------------------------------
(* Delta files.                                                            *)

(* What a file has, with the trees of the generations before its own.      *)
Available(f, content, ch) == content \cup UNION {Tree(ch[g + 1]) : g \in 0..f.generation - 1}
Suffices(f, content, ch) == Tree(f.hash) \subseteq Available(f, content, ch)

(* Where a node was before, there was all that is below it.                *)
LEMMA KnownBefore ==
    ASSUME NEW s, Lineage(s), NEW gen \in Nat, gen > 0, gen <= TreeGeneration(s),
           NEW n \in Tree(s.root[gen].hash), FirstGeneration(s, n) # gen
    PROVE  \E g \in 0..gen - 1 : Tree(n) \subseteq Tree(s.root[g].hash)
<1> DEFINE root == s.root[gen].hash
           G == {g \in DOMAIN s.root : <<n, g>> \in DOMAIN s.ancestors} \cup {TreeGeneration(s) + 1}
<1>1. /\ TreeGeneration(s) \in Int /\ NodesOK(s) /\ gen \in DOMAIN s.root /\ gen \in 0..TreeGeneration(s)
      /\ \A k \in DOMAIN s.ancestors : k = <<k[1], k[2]>> /\ k[2] \in Nat /\ k[2] <= TreeGeneration(s) /\ RowOK(s, k)
      /\ Exact(s, gen) /\ \A g \in 0..TreeGeneration(s) : g \in DOMAIN s.root
  <2>1. /\ \A k \in DOMAIN s.ancestors : k = <<k[1], k[2]>> /\ k[2] \in Nat /\ k[2] <= TreeGeneration(s)
        /\ TreeGeneration(s) \in Int
        /\ \A g \in 0..TreeGeneration(s) : g \in DOMAIN s.root
      BY RowTypes
  <2>2. gen \in 0..TreeGeneration(s)
      BY <2>1
  <2>3. NodesOK(s) /\ Exact(s, gen) /\ \A k \in DOMAIN s.ancestors : RowOK(s, k)
      BY <2>2 DEF Lineage
  <2>4. QED
      BY <2>1, <2>2, <2>3
<1>2. n \in Hashes /\ Empty \notin Hashes
    BY <1>1, TreeOfRoot, TreeParts DEF NodesOK
<1>3. \E k \in DOMAIN s.ancestors : k[1] = n /\ k[2] <= gen
  <2>1. CASE n = root
    <3>1. <<n, gen>> \in DOMAIN s.ancestors
        BY <1>1, <2>1 DEF Exact
    <3>2. QED
        BY <3>1
  <2>2. CASE n # root
    <3>1. OneAncestor(s, n, gen) \in Tree(root)
        BY <1>1, <2>2 DEF Exact
    <3>2. Tree(root) \subseteq Hashes
        BY <1>1, TreeOfRoot DEF NodesOK
    <3>3. Rows(s, n, gen) # {}
        BY <1>2, <3>1, <3>2, NoRow
    <3>4. QED
        BY <3>3 DEF Rows
  <2>3. QED
      BY <2>1, <2>2
<1>4. PICK k \in DOMAIN s.ancestors : k[1] = n /\ k[2] <= gen
    BY <1>3
<1>5. k[2] \in G
  <2>1. k[2] \in 0..TreeGeneration(s) /\ <<n, k[2]>> \in DOMAIN s.ancestors
      BY <1>1, <1>4
  <2>2. QED
      BY <1>1, <2>1
<1>6. G \subseteq Nat
    BY <1>1 DEF NodesOK
<1>7. FirstGeneration(s, n) \in G /\ \A g \in G : FirstGeneration(s, n) <= g
  <2>1. FirstGeneration(s, n) = Min(G)
      BY DEF FirstGeneration
  <2> HIDE DEF G
  <2>2. \E x \in G : \A y \in G : x <= y
      BY <1>5, <1>6, LeastNumber
  <2>3. Min(G) \in G /\ \A y \in G : Min(G) <= y
      BY <2>2, Zenon DEF Min
  <2>4. QED
      BY <2>1, <2>3
<1> DEFINE first == FirstGeneration(s, n)
<1> HIDE DEF first
<1>8. first \in Nat /\ first < gen
  <2>1. first \in G /\ first <= k[2] /\ first # gen
      BY <1>5, <1>7 DEF first
  <2>2. k[2] \in Nat /\ k[2] <= gen /\ first \in Nat
      BY <1>1, <1>4, <1>6, <2>1
  <2> HIDE DEF G
  <2>3. QED
      BY <2>1, <2>2
<1>9. <<n, first>> \in DOMAIN s.ancestors
  <2>1. first \in G
      BY <1>7 DEF first
  <2>2. first # TreeGeneration(s) + 1
      BY <1>1, <1>8
  <2>3. QED
      BY <2>1, <2>2
<1>10. n \in Tree(s.root[first].hash) /\ first \in DOMAIN s.root
  <2>1. RowOK(s, <<n, first>>)
      BY <1>1, <1>9
  <2>2. first \in 0..TreeGeneration(s)
      BY <1>1, <1>8
  <2>3. QED
      BY <1>1, <2>1, <2>2 DEF RowOK
<1>11. Tree(n) \subseteq Tree(s.root[first].hash)
  <2>1. s.root[first].hash # Empty
      BY <1>10 DEF Tree
  <2>2. s.root[first].hash \in Hashes /\ Tree(s.root[first].hash) = Nodes[s.root[first].hash]
      BY <1>1, <1>10, <2>1, TreeOfRoot
  <2>3. Tree(n) = Nodes[n]
      BY <1>2 DEF Tree
  <2>4. QED
      BY <1>10, <2>2, <2>3, Subtree
<1>12. first \in 0..gen - 1
    BY <1>8
<1>13. QED
    BY <1>11, <1>12

(* write_files_for_root writes enough.                                     *)
LEMMA DeltaFileSuffices ==
    ASSUME NEW s, NEW ch, Lineage(s), StoreFollows(s, ch),
           NEW gen \in Nat, gen > 0, gen <= TreeGeneration(s),
           NEW x \in Tree(s.root[gen].hash), x \notin DeltaFile(s, gen)
    PROVE  \E g \in 0..gen - 1 : x \in Tree(ch[g + 1])
<1> DEFINE root == s.root[gen].hash
<1>1. /\ TreeGeneration(s) \in Int
      /\ \A g \in 0..TreeGeneration(s) : s.root[g].hash = ch[g + 1]
      /\ NodesOK(s) /\ gen \in DOMAIN s.root
  <2>1. /\ TreeGeneration(s) \in Int /\ NodesOK(s)
        /\ \A g \in 0..TreeGeneration(s) : s.root[g].hash = ch[g + 1]
      BY DEF Lineage, StoreFollows, Follows, Contiguous
  <2>2. gen \in DOMAIN s.root
      BY <2>1, RowTypes
  <2>3. QED
      BY <2>1, <2>2
<1>2. SUFFICES \E g \in 0..gen - 1 : x \in Tree(s.root[g].hash)
  <2>1. \A g \in 0..gen - 1 : g \in 0..TreeGeneration(s)
      BY <1>1
  <2>2. QED
      BY <1>1, <2>1
<1>3. CASE SeenBefore(s, gen)
  <2>1. PICK g \in DOMAIN s.root : g < gen /\ s.root[g].hash = root
      BY <1>3 DEF SeenBefore
  <2>2. g \in 0..gen - 1
      BY <1>1, <2>1 DEF NodesOK
  <2>3. QED
      BY <2>1, <2>2
<1>4. CASE ~SeenBefore(s, gen)
  <2>1. x \notin DeltaNodes(s, gen)
      BY <1>4 DEF DeltaFile
  <2>2. PICK n \in Tree(root) : FirstGeneration(s, n) # gen /\ x \in Tree(n)
      BY <2>1 DEF DeltaNodes
  <2>3. PICK g \in 0..gen - 1 : Tree(n) \subseteq Tree(s.root[g].hash)
      BY <2>2, KnownBefore
  <2>4. QED
      BY <2>2, <2>3
<1>5. QED
    BY <1>3, <1>4

(* A delta file is of a generation on the chain, and is enough to follow   *)
(* it, unless the manager is still filling it.                             *)
DeltaOK(f, content, m, ch) ==
    /\ f = File("delta", f.hash, f.generation)
    /\ f.generation \in Nat /\ f.generation > 0 /\ f.generation < Len(ch)
    /\ f.hash = ch[f.generation + 1]
    /\ ~(m.pc = "fill_delta" /\ m.gen = f.generation) => Suffices(f, content, ch)

DeltasOK(fs, m, ch) == \A f \in DOMAIN fs : f.kind = "delta" => DeltaOK(f, fs[f], m, ch)

(* No upload was interrupted, no download was overtaken, and none was of a *)
(* file that was being written.                                            *)
Calm == marks.torn = {} /\ marks.raced = {} /\ marks.partial = {}

HostsDeltas == Calm => \A h \in Hosts : DeltasOK(files[h], mgr[h], chain)

LEMMA DeltasStep ==
    ASSUME FunctionsOK, HostsLineage, HostsDeltas, NEW h \in Hosts, NEW m, NEW fs,
           At(mgr, mgr', h, m), At(files, files', h, fs), chain' = chain,
           Calm' => Calm /\ DeltasOK(fs, m, chain)
    PROVE  HostsDeltas'
<1>1. SUFFICES ASSUME Calm', NEW k \in Hosts PROVE DeltasOK(files'[k], mgr'[k], chain)
    BY DEF HostsDeltas
<1>2. CASE k = h
  <2>1. mgr'[h] = m /\ files'[h] = fs
      BY DEF FunctionsOK, HostsLineage, At
  <2>2. QED
      BY <1>1, <1>2, <2>1
<1>3. CASE k # h
  <2>1. mgr'[k] = mgr[k] /\ files'[k] = files[k]
      BY <1>3 DEF FunctionsOK, HostsLineage, At
  <2>2. QED
      BY <1>1, <2>1 DEF HostsDeltas
<1>4. QED
    BY <1>2, <1>3

(* Requests leave the files alone.                                         *)
LEMMA DeltasKept ==
    ASSUME HostsDeltas, UNCHANGED <<chain, mgr, files>>,
           marks'.torn = marks.torn, marks'.raced = marks.raced, marks'.partial = marks.partial
    PROVE  HostsDeltas'
BY DEF HostsDeltas, Calm

LEMMA RequestDeltas ==
    ASSUME FunctionsOK, HostsDeltas, NEW h, NEW c, Request(h) \/ Change(h) \/ Serve(h, c)
    PROVE  HostsDeltas'
<1> DEFINE dropped == marks.dropped \cup {db[h].root[g].hash : g \in PendingRoots(db[h])}
<1>1. UNCHANGED <<chain, mgr, files>>
    BY DEF Request, Change, Serve, Arrive, BeginTransaction, TakeLock, CancelOffer, CancelOfferSecurely,
           ChangeInsert, ChangeInsertFirst, ChangeDelete, EndBatch, EndOfferChanges,
           ConfirmInTransaction, ChangeRaises, ProveOffer, ConfirmUnderLock,
           PublishRead, PublishSend
<1>2. \/ marks' = marks
      \/ \E misplaced : marks' = [marks EXCEPT !.misplaced = misplaced]
      \/ marks' = [marks EXCEPT !.dropped = dropped]
    BY DEF Request, Change, Serve, Arrive, BeginTransaction, TakeLock, CancelOffer, CancelOfferSecurely,
           ChangeInsert, ChangeInsertFirst, ChangeDelete, EndBatch, EndOfferChanges,
           ConfirmInTransaction, ChangeRaises, ProveOffer, ConfirmUnderLock,
           PublishRead, PublishSend
<1> HIDE DEF dropped
<1>3. marks'.torn = marks.torn /\ marks'.raced = marks.raced /\ marks'.partial = marks.partial
    BY <1>2 DEF FunctionsOK
<1>4. QED
    BY <1>1, <1>3, DeltasKept

(* A file that is not a delta does not matter.                             *)
LEMMA FullFileDeltas ==
    ASSUME NEW fs, NEW m, NEW n, NEW ch, NEW hash, NEW gen, DeltasOK(fs, m, ch), m.pc # "fill_delta"
    PROVE  DeltasOK(WithFile(fs, File("full", hash, gen), {}), n, ch)
<1> DEFINE f == File("full", hash, gen)
           gs == WithFile(fs, f, {})
<1>1. f.kind = "full"
    BY DEF File
<1> HIDE DEF f
<1>2. SUFFICES ASSUME NEW g \in DOMAIN gs, g.kind = "delta" PROVE DeltaOK(g, gs[g], n, ch)
    BY DEF DeltasOK, f
<1>3. g \in DOMAIN fs \cup {f} /\ g # f
    BY <1>1, <1>2, FileNames
<1>4. gs[g] = fs[g] /\ g \in DOMAIN fs
    BY <1>3, OtherFiles
<1>5. DeltaOK(g, fs[g], m, ch)
    BY <1>2, <1>4 DEF DeltasOK
<1>6. QED
    BY <1>4, <1>5 DEF DeltaOK

(* The spend that is confirmed is the next part of the chain.              *)
LEMMA ConfirmExtends ==
    ASSUME ChainOK(chain, spends), NEW spend, ConfirmSpend(spend)
    PROVE  Extends(chain, chain')
<1>1. spend \in spends /\ chain' = chain \o spend.roots
    BY DEF ConfirmSpend
<1>2. PICK S : chain \in Seq(S)
    BY DEF ChainOK, Sequence
<1>3. PICK R : spend.roots \in Seq(R)
    BY <1>1 DEF ChainOK, Sequence
<1> DEFINE roots == spend.roots
<1>4. chain \in Seq(S \cup R) /\ roots \in Seq(S \cup R)
    BY <1>2, <1>3
<1> HIDE DEF roots
<1>5. /\ Len(chain') = Len(chain) + Len(roots)
      /\ \A i \in 1..Len(chain) : chain'[i] = chain[i]
      /\ Len(chain) \in Nat /\ Len(roots) \in Nat
    BY <1>1, <1>4 DEF roots
<1>6. QED
    BY <1>5 DEF Extends

LEMMA SufficesOn ==
    ASSUME NEW f, NEW content, NEW m, NEW ch, NEW longer, Extends(ch, longer), DeltaOK(f, content, m, ch)
    PROVE  DeltaOK(f, content, m, longer)
<1>1. f.generation \in Nat /\ f.generation > 0 /\ f.generation < Len(ch) /\ Len(longer) \in Nat /\ Len(ch) \in Nat
    BY DEF DeltaOK, Extends
<1>2. \A g \in 0..f.generation : longer[g + 1] = ch[g + 1]
  <2>1. TAKE g \in 0..f.generation
  <2>2. g + 1 \in 1..Len(ch)
      BY <1>1
  <2>3. QED
      BY <2>2 DEF Extends
<1>3. UNION {Tree(longer[g + 1]) : g \in 0..f.generation - 1} =
      UNION {Tree(ch[g + 1]) : g \in 0..f.generation - 1}
  <2>1. \A g \in 0..f.generation - 1 : g \in 0..f.generation
      BY <1>1
  <2>2. \A g \in 0..f.generation - 1 : Tree(longer[g + 1]) = Tree(ch[g + 1])
      BY <1>2, <2>1
  <2>3. QED
      BY <2>2
<1>4. Suffices(f, content, ch) => Suffices(f, content, longer)
    BY <1>3 DEF Suffices, Available
<1>5. f.hash = longer[f.generation + 1]
    BY <1>1, <1>2 DEF DeltaOK
<1>6. f.generation < Len(longer)
    BY <1>1 DEF Extends
<1>7. QED
    BY <1>4, <1>5, <1>6 DEF DeltaOK

LEMMA ConfirmDeltas ==
    ASSUME Inv, HostsDeltas, NEW spend, ConfirmSpend(spend)
    PROVE  HostsDeltas'
<1>1. Extends(chain, chain')
    BY ConfirmExtends DEF Inv
<1>2. UNCHANGED <<mgr, files, marks>>
    BY DEF ConfirmSpend
<1>3. ASSUME NEW h \in Hosts, DeltasOK(files[h], mgr[h], chain)
      PROVE  DeltasOK(files[h], mgr[h], chain')
    BY <1>1, <1>3, SufficesOn DEF DeltasOK
<1>4. QED
    BY <1>2, <1>3 DEF HostsDeltas, Calm

LEMMA CrashDeltas ==
    ASSUME FunctionsOK, HostsLineage, HostsDeltas, NEW h \in Hosts, Crash(h)
    PROVE  HostsDeltas'
<1> DEFINE torn == marks.torn \cup {h}
<1>1. /\ At(mgr, mgr', h, Asleep) /\ At(files, files', h, files[h]) /\ chain' = chain
      /\ marks' = marks \/ marks' = [marks EXCEPT !.torn = torn]
      /\ mgr[h].pc = "fill_delta" => marks' = [marks EXCEPT !.torn = torn]
    BY HostIs DEF Crash, Mgr, At
<1>2. torn # {}
    OBVIOUS
<1> HIDE DEF torn
<1>3. Calm' => Calm /\ mgr[h].pc # "fill_delta"
    BY <1>1, <1>2 DEF FunctionsOK, Calm
<1>4. Calm' => DeltasOK(files[h], Asleep, chain)
    BY <1>3 DEF HostsDeltas, DeltasOK, DeltaOK
<1>5. QED
    BY <1>1, <1>3, <1>4, DeltasStep

LEMMA InitDeltas ==
    ASSUME Init
    PROVE  HostsDeltas
<1>1. \A h \in Hosts : files[h] = <<>>
    BY DEF Init
<1>2. QED
    BY <1>1 DEF HostsDeltas, DeltasOK

LEMMA ManageDeltas ==
    ASSUME Inv, HostsLineage, HostsDeltas, NEW h \in Hosts, Manage(h)
    PROVE  HostsDeltas'
<1> USE DEF Mgr
<1> DEFINE d == db[h]
           fs == files[h]
           m0 == mgr[h]
           gen == mgr[h].gen
<1>0. FunctionsOK /\ Sequence(chain) /\ Len(chain) \in Nat
    BY SequenceLen DEF Inv, ChainOK
<1>1. /\ HostLineage(d, txn[h], rpc[h], m0, fs, marks.misplaced)
      /\ HostOK(h \in marks.raced, d, txn[h], locks[h], rpc[h], m0, chain)
      /\ m0 = [f \in MgrFields |-> m0[f]]
      /\ At(files, files, h, fs) /\ At(mgr, mgr, h, m0)
    BY <1>0, HostIs, Host, Kept DEF HostOK
<1>2. Lineage(d) /\ ManagerOK(d, m0, fs) /\ TreeGeneration(d) \in Int
    BY <1>1 DEF HostLineage, Lineage, Contiguous
<1>3. Calm => DeltasOK(fs, m0, chain) /\ StoreFollows(d, chain) /\ FetchOK(m0, chain)
    BY <1>1 DEF HostsDeltas, Calm, HostOK
<1>4. marks' = marks => (Calm' => Calm)
    BY DEF Calm
(* Where it goes on and the files stay, or some go.                        *)
<1>5. ASSUME NEW m, NEW gs, At(mgr, mgr', h, m), At(files, files', h, gs), chain' = chain,
             Calm' => Calm, m0.pc # "fill_delta", DOMAIN gs \subseteq DOMAIN fs,
             \A f \in DOMAIN gs : gs[f] = fs[f]
      PROVE  HostsDeltas'
  <2>1. Calm => DeltasOK(gs, m, chain)
      BY <1>3, <1>5 DEF DeltasOK, DeltaOK
  <2>2. QED
      BY <1>0, <1>5, <2>1, DeltasStep
<1>6. ASSUME NEW m, At(mgr, mgr', h, m), UNCHANGED <<chain, files>>, Calm' => Calm, m0.pc # "fill_delta"
      PROVE  HostsDeltas'
  <2>1. At(files, files', h, fs)
      BY <1>1, <1>6
  <2> HIDE DEF fs, m0
  <2>2. QED
      BY <1>5, <1>6, <2>1
<1>7. CASE \/ FetchBegin(h) \/ ManageLock(h) \/ ManageConfirm(h) \/ FetchCreate(h)
           \/ (\E server \in Hosts : FetchServer(h, server))
           \/ FetchEnds(h) \/ DownloadFails(h) \/ UploadBegin(h) \/ UploadStart(h)
  <2>1. UNCHANGED <<chain, files, marks>> /\ m0.pc # "fill_delta"
      BY <1>7 DEF FetchBegin, ManageLock, ManageConfirm, FetchCreate, FetchServer, FetchEnds,
                  DownloadFails, UploadBegin, UploadStart
  <2>2. \E m : At(mgr, mgr', h, m)
      BY <1>7 DEF FetchBegin, ManageLock, ManageConfirm, FetchCreate, FetchServer, FetchEnds,
                  DownloadFails, UploadBegin, UploadStart, At
  <2> HIDE DEF m0
  <2>3. QED
      BY <1>4, <1>6, <2>1, <2>2
(* A new delta file.                                                       *)
<1>8. ASSUME NEW m, NEW f, NEW content, At(mgr, mgr', h, m),
             At(files, files', h, WithFile(fs, f, content)), chain' = chain,
             Calm' => Calm /\ DeltaOK(f, content, m, chain), m0.pc # "fill_delta"
      PROVE  HostsDeltas'
  <2> DEFINE gs == WithFile(fs, f, content)
  <2>1. ASSUME Calm', NEW g \in DOMAIN gs, g.kind = "delta"
        PROVE  DeltaOK(g, gs[g], m, chain)
    <3>1. g \in DOMAIN fs \cup {f}
        BY <2>1, FileNames
    <3>2. CASE g = f
      <4>1. gs[g] = content
          BY <3>2, FileContent
      <4>2. QED
          BY <1>8, <2>1, <3>2, <4>1
    <3>3. CASE g # f
      <4>1. g \in DOMAIN fs /\ gs[g] = fs[g]
          BY <3>1, <3>3, OtherFiles
      <4>2. DeltaOK(g, fs[g], m0, chain)
          BY <1>3, <1>8, <2>1, <4>1 DEF DeltasOK
      <4>3. QED
          BY <1>8, <4>1, <4>2 DEF DeltaOK
    <3>4. QED
        BY <3>2, <3>3
  <2> HIDE DEF gs
  <2>2. Calm' => Calm /\ DeltasOK(gs, m, chain)
      BY <1>8, <2>1 DEF DeltasOK
  <2>3. At(files, files', h, gs)
      BY <1>8 DEF gs
  <2>4. QED
      BY <1>0, <1>8, <2>2, <2>3, DeltasStep
<1>9. CASE Download(h)
  <2> DEFINE m == [mgr[h] EXCEPT !.pc = "insert"]
             from == mgr[h].from
             f == Wanted(h)
             content == files[from][f]
             partial == marks.partial \cup {h}
  <2>1. /\ At(mgr, mgr', h, m) /\ At(files, files', h, WithFile(fs, f, content)) /\ chain' = chain
        /\ m0.pc = "download" /\ f \in DOMAIN files[from] /\ mgr[h].roots # <<>>
        /\ marks' = IF Filling(from, gen + 1) THEN [marks EXCEPT !.partial = partial] ELSE marks
      BY <1>9 DEF Download, At
  <2>2. f.kind = "delta" /\ f.generation = gen + 1
      BY DEF Wanted, File
  <2>3. m.pc = "insert"
      BY <1>1 DEF MgrFields
  <2>4. Calm' => Calm /\ ~Filling(from, gen + 1)
    <3>1. partial # {}
        OBVIOUS
    <3> HIDE DEF partial, from, gen
    <3>2. QED
        BY <1>0, <2>1, <3>1 DEF FunctionsOK, Calm
  <2>5. Calm' => DeltaOK(f, content, m, chain)
    <3>1. SUFFICES ASSUME Calm' PROVE DeltaOK(f, content, m, chain)
        OBVIOUS
    <3>2. from \in Hosts
        BY <1>2 DEF ManagerOK
    <3>3. DeltaOK(f, content, mgr[from], chain)
        BY <2>1, <2>2, <2>4, <3>1, <3>2 DEF HostsDeltas, DeltasOK
    <3>4. ~(mgr[from].pc = "fill_delta" /\ mgr[from].gen = f.generation)
        BY <2>2, <2>4, <3>1 DEF Filling
    <3> HIDE DEF f, content, m
    <3>5. QED
        BY <3>3, <3>4 DEF DeltaOK
  <2> HIDE DEF f, content, m, m0, fs
  <2>6. QED
      BY <1>8, <2>1, <2>4, <2>5
<1>10. CASE InsertDelta(h)
  <2> DEFINE hash == Head(mgr[h].roots)
             content == fs[Wanted(h)]
             raced == marks.raced \cup {h}
             m == [mgr[h] EXCEPT !.pc = "full"]
             n == [mgr[h] EXCEPT !.pc = "server"]
             gs == [f \in DOMAIN fs \ {Wanted(h)} |-> fs[f]]
  <2>1. m0.pc = "insert" /\ chain' = chain
      BY <1>10 DEF InsertDelta
  <2>2. CASE FileFits(d, hash, content)
    <3>1. /\ At(mgr, mgr', h, m) /\ files' = files
          /\ marks' = marks \/ marks' = [marks EXCEPT !.raced = raced]
        BY <1>10, <2>2 DEF InsertDelta, At
    <3>2. raced # {}
        OBVIOUS
    <3> HIDE DEF raced, m, m0
    <3>3. Calm' => Calm
        BY <1>0, <3>1, <3>2 DEF FunctionsOK, Calm
    <3>4. QED
        BY <1>6, <2>1, <3>1, <3>3
  <2>3. CASE ~FileFits(d, hash, content)
    <3>1. At(mgr, mgr', h, n) /\ At(files, files', h, gs) /\ marks' = marks
        BY <1>10, <2>3 DEF InsertDelta, At
    <3>2. DOMAIN gs \subseteq DOMAIN fs /\ \A f \in DOMAIN gs : gs[f] = fs[f]
        OBVIOUS
    <3> HIDE DEF gs, n, m0, fs
    <3>3. QED
        BY <1>4, <1>5, <2>1, <3>1, <3>2
  <2>4. QED
      BY <2>2, <2>3
(* Files of whole trees.                                                   *)
<1>11. ASSUME NEW m, NEW hash, NEW g, At(mgr, mgr', h, m), chain' = chain, marks' = marks,
              At(files, files', h, WithFile(fs, File("full", hash, g), {})), m0.pc # "fill_delta"
       PROVE  HostsDeltas'
  <2>1. Calm => DeltasOK(WithFile(fs, File("full", hash, g), {}), m, chain)
    <3> HIDE DEF fs, m0
    <3>1. QED
        BY <1>3, <1>11, FullFileDeltas
  <2>2. QED
      BY <1>0, <1>4, <1>11, <2>1, DeltasStep
<1>12. CASE FullFile(h)
  <2> DEFINE m == [mgr[h] EXCEPT !.pc = "download", !.gen = mgr[h].gen + 1, !.roots = Tail(mgr[h].roots)]
             hash == Head(mgr[h].roots)
  <2>1. /\ At(mgr, mgr', h, m) /\ At(files, files', h, WithFile(fs, File("full", hash, gen + 1), {}))
        /\ chain' = chain /\ marks' = marks /\ m0.pc # "fill_delta"
      BY <1>12 DEF FullFile, At
  <2> HIDE DEF m, hash, fs, m0, gen
  <2>2. QED
      BY <1>11, <2>1
<1>13. CASE WriteFull(h)
  <2> DEFINE hash == d.root[gen].hash
             m == [mgr[h] EXCEPT !.pc = "write_delta", !.written = UploadFile(h, "full") \notin DOMAIN fs]
  <2>1. chain' = chain /\ marks' = marks /\ m0.pc # "fill_delta"
      BY <1>13 DEF WriteFull
  <2>2. CASE gen = 0
    <3>1. At(mgr, mgr', h, Asleep) /\ files' = files
        BY <1>13, <2>2 DEF WriteFull, At
    <3> HIDE DEF m0
    <3>2. QED
        BY <1>4, <1>6, <2>1, <3>1
  <2>3. CASE gen # 0
    <3>1. At(mgr, mgr', h, m) /\ At(files, files', h, WithFile(fs, File("full", hash, gen), {}))
        BY <1>13, <2>3 DEF WriteFull, At, UploadFile
    <3> HIDE DEF m, hash, fs, m0, gen
    <3>2. QED
        BY <1>11, <2>1, <3>1
  <2>4. QED
      BY <2>2, <2>3
(* The delta file of a generation.                                         *)
<1>14. ASSUME m0.pc \in {"write_delta", "fill_delta"}, Calm
       PROVE  /\ gen \in Nat /\ gen > 0 /\ gen <= TreeGeneration(d) /\ gen < Len(chain)
              /\ d.root[gen].hash = chain[gen + 1]
  <2>1. gen \in Nat /\ gen > 0 /\ gen <= TreeGeneration(d)
      BY <1>2, <1>14 DEF ManagerOK, Writing
  <2>2. TreeGeneration(d) < Len(chain) /\ \A g \in 0..TreeGeneration(d) : d.root[g].hash = chain[g + 1]
      BY <1>3, <1>14 DEF StoreFollows, Follows
  <2>3. gen \in 0..TreeGeneration(d) /\ gen < Len(chain)
      BY <1>0, <1>2, <2>1, <2>2
  <2>4. QED
      BY <2>1, <2>2, <2>3
<1>15. CASE OpenDelta(h)
  <2> DEFINE f == UploadFile(h, "delta")
             m == [mgr[h] EXCEPT !.pc = "fill_delta"]
             n == IF mgr[h].written THEN [mgr[h] EXCEPT !.pc = "write_full", !.gen = mgr[h].gen - 1]
                  ELSE Asleep
  <2>1. chain' = chain /\ marks' = marks /\ m0.pc = "write_delta"
      BY <1>15 DEF OpenDelta
  <2>2. CASE f \in DOMAIN fs
    <3>1. At(mgr, mgr', h, n) /\ files' = files
        BY <1>15, <2>2 DEF OpenDelta, At
    <3> HIDE DEF n, m0
    <3>2. QED
        BY <1>4, <1>6, <2>1, <3>1
  <2>3. CASE f \notin DOMAIN fs
    <3>1. At(mgr, mgr', h, m) /\ At(files, files', h, WithFile(fs, f, {}))
        BY <1>15, <2>3 DEF OpenDelta, At
    <3>2. m.pc = "fill_delta" /\ m.gen = gen
        BY <1>1 DEF MgrFields
    <3>3. f = File("delta", f.hash, f.generation) /\ f.hash = d.root[gen].hash /\ f.generation = gen
        BY DEF UploadFile, File
    <3> HIDE DEF f, m, m0, gen, d
    <3>4. Calm => DeltaOK(f, {}, m, chain)
        BY <1>14, <2>1, <3>2, <3>3 DEF DeltaOK
    <3> HIDE DEF fs
    <3>5. QED
        BY <1>4, <1>8, <2>1, <3>1, <3>4
  <2>4. QED
      BY <2>2, <2>3
<1>16. CASE FillDelta(h)
  <2> DEFINE f == UploadFile(h, "delta")
             content == DeltaFile(d, gen)
             gs == [fs EXCEPT ![f] = content]
             m == [mgr[h] EXCEPT !.pc = "write_full", !.gen = mgr[h].gen - 1]
  <2>1. /\ At(mgr, mgr', h, m) /\ At(files, files', h, gs) /\ chain' = chain /\ marks' = marks
        /\ m0.pc = "fill_delta"
      BY <1>16 DEF FillDelta, At
  <2>2. m.pc = "write_full"
      BY <1>1 DEF MgrFields
  <2>3. f = File("delta", f.hash, f.generation) /\ f.hash = d.root[gen].hash /\ f.generation = gen
      BY DEF UploadFile, File
  <2>4. ASSUME Calm, NEW g \in DOMAIN gs, g.kind = "delta"
        PROVE  DeltaOK(g, gs[g], m, chain)
    <3>1. g \in DOMAIN fs /\ DeltaOK(g, fs[g], m0, chain)
        BY <1>3, <2>4 DEF DeltasOK
    <3>2. CASE g = f
      <4>1. gs[g] = content
          BY <3>1, <3>2
      <4>2. Suffices(f, content, chain)
        <5>1. SUFFICES ASSUME NEW x \in Tree(f.hash), x \notin content
                       PROVE  \E i \in 0..f.generation - 1 : x \in Tree(chain[i + 1])
            BY DEF Suffices, Available
        <5>2. /\ gen \in Nat /\ gen > 0 /\ gen <= TreeGeneration(d) /\ x \in Tree(d.root[gen].hash)
              /\ x \notin DeltaFile(d, gen) /\ Lineage(d) /\ StoreFollows(d, chain)
            BY <1>2, <1>3, <1>14, <2>1, <2>3, <2>4, <5>1
        <5> HIDE DEF d, gen
        <5>3. \E i \in 0..gen - 1 : x \in Tree(chain[i + 1])
            BY <5>2, DeltaFileSuffices
        <5>4. QED
            BY <2>3, <5>3
      <4> HIDE DEF f, content, gs, m, m0
      <4>3. QED
          BY <3>1, <3>2, <4>1, <4>2 DEF DeltaOK
    <3>3. CASE g # f
      <4>1. gs[g] = fs[g]
          BY <3>1, <3>3
      <4>2. g.generation # gen
        <5>1. d.root[gen].hash = chain[gen + 1]
            BY <1>14, <2>1, <2>4
        <5>2. g = File("delta", g.hash, g.generation) /\ g.hash = chain[g.generation + 1]
            BY <3>1 DEF DeltaOK
        <5> HIDE DEF f, d, gen
        <5>3. QED
            BY <2>3, <3>3, <5>1, <5>2
      <4> HIDE DEF f, gs, m
      <4>3. QED
          BY <3>1, <4>1, <4>2 DEF DeltaOK
    <3>4. QED
        BY <3>2, <3>3
  <2> HIDE DEF gs, m
  <2>5. Calm' => Calm /\ DeltasOK(gs, m, chain)
      BY <1>4, <2>1, <2>4 DEF DeltasOK
  <2>6. QED
      BY <1>0, <2>1, <2>5, DeltasStep
<1>17. QED
    BY <1>7, <1>9, <1>10, <1>12, <1>13, <1>15, <1>16 DEF Manage

LEMMA NextDeltas ==
    ASSUME Inv, HostsLineage, HostsDeltas, [Next]_vars
    PROVE  HostsDeltas'
<1>0. FunctionsOK
    BY DEF Inv
<1>1. CASE UNCHANGED vars
    BY <1>1, DeltasKept DEF vars
<1>2. ASSUME NEW h \in Hosts, AskAgain(h)
      PROVE  HostsDeltas'
    BY <1>2, DeltasKept DEF AskAgain
<1>3. ASSUME NEW h \in Hosts, NEW c \in Calls, Serve(h, c)
      PROVE  HostsDeltas'
    BY <1>0, <1>3, RequestDeltas
<1>4. ASSUME NEW h \in Hosts, Request(h) \/ Change(h)
      PROVE  HostsDeltas'
    BY <1>0, <1>4, RequestDeltas
<1>5. QED
    BY <1>0, <1>1, <1>2, <1>3, <1>4, ManageDeltas, CrashDeltas, ConfirmDeltas DEF Next

(* A host that has the generations before can make the next one from its   *)
(* delta file, whichever host wrote it or passed it on.  Left out are the  *)
(* hosts after an upload that a crash interrupted, a download that a       *)
(* request overtook, or one of a file that was still being filled.         *)
THEOREM DeltaTheorem == Spec => []DeltaSuffices
<1>1. Init => Inv /\ HostsLineage /\ HostsDeltas
    BY InitOK, InitLineage, InitDeltas
<1>2. Inv /\ HostsLineage /\ HostsDeltas /\ [Next]_vars => (Inv /\ HostsLineage /\ HostsDeltas)'
    BY NextOK, NextLineage, NextDeltas
<1>3. HostsDeltas => DeltaSuffices
  <2>1. SUFFICES ASSUME HostsDeltas, NEW h \in Hosts, NEW f \in DOMAIN files[h],
                        f.kind = "delta", ~Filling(h, f.generation), Calm
                 PROVE  Tree(f.hash) \subseteq
                          files[h][f] \cup UNION {Tree(RootAt(g)) : g \in 0..f.generation - 1}
      BY DEF DeltaSuffices, Calm
  <2>2. DeltaOK(f, files[h][f], mgr[h], chain)
      BY <2>1 DEF HostsDeltas, DeltasOK
  <2>3. QED
      BY <2>1, <2>2 DEF DeltaOK, Suffices, Available, Filling, RootAt
<1>4. QED
    BY <1>1, <1>2, <1>3, PTL DEF Spec
==================================================================================
