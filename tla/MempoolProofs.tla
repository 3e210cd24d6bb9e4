----------------------------- MODULE MempoolProofs -----------------------------
(***************************************************************************)
(* What the mempool keeps true, for every set of transactions, every tree  *)
(* of blocks and all limits, with tasks cancelled at any moment.           *)
(***************************************************************************)
EXTENDS Mempool, FiniteSetTheorems, NaturalsInduction, WellFoundedInduction, TLAPS

--------------------------------------------------------------------------------
(* Sequences.                                                              *)

(* A set of numbers has a least one.                                       *)
LEMMA LeastNumber ==
    ASSUME NEW T, T \subseteq Nat, T # {}
    PROVE  \E n \in T : \A k \in T : n <= k
<1>1. \E n \in T : \A k \in T : ~(<<k, n>> \in OpToRel(<, Nat))
    BY NatLessThanWellFounded, WFMin, Zenon
<1>2. PICK n \in T : \A k \in T : ~(k < n)
    BY <1>1 DEF OpToRel
<1>3. \A k \in T : n <= k
  <2>1. TAKE k \in T
  <2>2. k \in Nat /\ n \in Nat /\ ~(k < n)
      BY <1>2
  <2>3. QED
      BY <2>2
<1>4. QED
    BY <1>3

(* The function that Without computes with exists.                         *)
LEMMA WithoutExists ==
    ASSUME NEW s, Len(s) \in Nat, NEW S
    PROVE  \E left : /\ left = [i \in 0..Len(s) |->
                                  IF i = 0 THEN <<>>
                                  ELSE IF s[i] \in S THEN left[i - 1] ELSE Append(left[i - 1], s[i])]
                     /\ Without(s, S) = left[Len(s)]
<1> DEFINE Step(f, i) == IF i = 0 THEN <<>>
                         ELSE IF s[i] \in S THEN f[i - 1] ELSE Append(f[i - 1], s[i])
           Bad == {n \in Nat : n <= Len(s) /\ ~(\E f : f = [i \in 0..n |-> Step(f, i)])}
<1>1. ASSUME Bad # {} PROVE FALSE
  <2>1. PICK n \in Bad : \A k \in Bad : n <= k
    <3>1. Bad \subseteq Nat
        OBVIOUS
    <3> HIDE DEF Bad
    <3>2. QED
        BY <1>1, <3>1, LeastNumber
  <2>0. n \in Nat /\ n <= Len(s) /\ ~(\E f : f = [i \in 0..n |-> Step(f, i)])
      OBVIOUS
  <2>2. CASE n = 0
    <3> DEFINE f == [i \in 0..n |-> <<>>]
    <3>1. f = [i \in 0..n |-> Step(f, i)]
        BY <2>2
    <3> HIDE DEF f
    <3>2. QED
        BY <2>0, <3>1
  <2>3. CASE n > 0
    <3>0. n - 1 \in Nat /\ n - 1 <= Len(s) /\ ~(n <= n - 1)
        BY <2>0, <2>3
    <3>1. n - 1 \in Nat /\ n - 1 <= Len(s) /\ n - 1 \notin Bad
      <4> HIDE DEF Bad
      <4>1. QED
          BY <2>1, <3>0
    <3>2. PICK f : f = [i \in 0..(n - 1) |-> Step(f, i)]
        BY <3>1
    <3> DEFINE g == [i \in 0..n |-> IF i = n THEN Step(f, n) ELSE f[i]]
    <3>3. \A i \in 0..(n - 1) : g[i] = f[i] /\ f[i] = Step(f, i)
      <4>1. TAKE i \in 0..(n - 1)
      <4>2. i \in 0..n /\ i # n
          BY <2>0
      <4> HIDE DEF Step, Bad
      <4>3. QED
          BY <3>2, <4>2
    <3>4. \A i \in 0..n : g[i] = Step(g, i)
      <4>1. TAKE i \in 0..n
      <4>2. i > 0 => i - 1 \in 0..(n - 1)
          BY <3>1
      <4> HIDE DEF g
      <4>3. Step(g, i) = Step(f, i)
          BY <4>2, <3>3
      <4>4. CASE i = n
          BY <4>3, <4>4 DEF g
      <4>5. CASE i # n
          BY <4>3, <4>5, <3>1, <3>3
      <4>6. QED
          BY <4>4, <4>5
    <3>5. g = [i \in 0..n |-> Step(g, i)]
      <4>1. g = [i \in 0..n |-> g[i]]
          OBVIOUS
      <4> HIDE DEF g
      <4>2. QED
          BY <3>4, <4>1
    <3> HIDE DEF g
    <3>6. QED
        BY <2>0, <3>5
  <2>4. QED
      BY <2>2, <2>3
<1>2. \E f : f = [i \in 0..Len(s) |-> Step(f, i)]
    BY <1>1
<1> DEFINE left == CHOOSE f : f = [i \in 0..Len(s) |-> Step(f, i)]
<1>3. left = [i \in 0..Len(s) |-> Step(left, i)]
    BY <1>2
<1>4. Without(s, S) = left[Len(s)]
    BY DEF Without
<1>5. QED
    BY <1>3, <1>4

(* It keeps the members that are not in S, once, in their order.           *)
LEMMA WithoutKeeps ==
    ASSUME NEW X, NEW s \in Seq(X), NEW S
    PROVE  /\ Without(s, S) \in Seq(X)
           /\ Range(Without(s, S)) = Range(s) \ S
           /\ \E at \in [1..Len(Without(s, S)) -> 1..Len(s)] :
                 /\ \A i \in 1..Len(Without(s, S)) : Without(s, S)[i] = s[at[i]]
                 /\ \A i, j \in 1..Len(Without(s, S)) : i < j => at[i] < at[j]
<1>0. Len(s) \in Nat
    OBVIOUS
<1>1. PICK left : /\ left = [i \in 0..Len(s) |->
                               IF i = 0 THEN <<>>
                               ELSE IF s[i] \in S THEN left[i - 1] ELSE Append(left[i - 1], s[i])]
                  /\ Without(s, S) = left[Len(s)]
    BY <1>0, WithoutExists
<1>2. /\ left[0] = <<>>
      /\ \A i \in 1..Len(s) : left[i] = IF s[i] \in S THEN left[i - 1] ELSE Append(left[i - 1], s[i])
  <2> DEFINE Step(i) == IF i = 0 THEN <<>>
                        ELSE IF s[i] \in S THEN left[i - 1] ELSE Append(left[i - 1], s[i])
  <2>1. left = [i \in 0..Len(s) |-> Step(i)]
      BY <1>1
  <2> HIDE DEF Step
  <2>2. \A i \in 0..Len(s) : left[i] = Step(i)
      BY <2>1
  <2>3. 0 \in 0..Len(s) /\ \A i \in 1..Len(s) : i \in 0..Len(s) /\ i # 0
      BY <1>0
  <2>4. QED
      BY <2>2, <2>3 DEF Step
<1> DEFINE Kept(i) == {s[k] : k \in 1..i} \ S
           Good(i) == /\ left[i] \in Seq(X)
                      /\ Range(left[i]) = Kept(i)
                      /\ \E at \in [1..Len(left[i]) -> 1..i] :
                            /\ \A k \in 1..Len(left[i]) : left[i][k] = s[at[k]]
                            /\ \A k, l \in 1..Len(left[i]) : k < l => at[k] < at[l]
           Bad == {i \in Nat : i <= Len(s) /\ ~Good(i)}
<1>3. Good(0)
  <2>1. left[0] \in Seq(X) /\ Range(left[0]) = {} /\ Kept(0) = {} /\ Len(left[0]) = 0
      BY <1>2 DEF Range
  <2>2. [k \in 1..0 |-> 1] \in [1..0 -> 1..0]
      OBVIOUS
  <2>3. QED
      BY <2>1, <2>2
<1>4. ASSUME NEW i \in 1..Len(s), Good(i - 1) PROVE Good(i)
  <2> DEFINE l == left[i - 1]
             n == Len(l)
  <2>0. i \in Nat /\ i >= 1 /\ i - 1 \in Nat /\ n \in Nat /\ l \in Seq(X) /\ s[i] \in X
      BY <1>0, <1>4
  <2>1. PICK at \in [1..n -> 1..(i - 1)] :
            /\ \A k \in 1..n : l[k] = s[at[k]]
            /\ \A k, m \in 1..n : k < m => at[k] < at[m]
      BY <1>4
  <2>2. Range(l) = Kept(i - 1)
      BY <1>4
  <2>3. {s[k] : k \in 1..i} = {s[k] : k \in 1..(i - 1)} \cup {s[i]}
      BY <2>0
  <2>4. CASE s[i] \in S
    <3>1. left[i] = l
        BY <1>2, <2>4
    <3>2. Kept(i) = Kept(i - 1)
        BY <2>3, <2>4
    <3>3. at \in [1..n -> 1..i]
        BY <2>0, <2>1
    <3> HIDE DEF Kept, l
    <3>4. QED
        BY <2>0, <2>1, <2>2, <3>1, <3>2, <3>3
  <2>5. CASE s[i] \notin S
    <3>1. left[i] = Append(l, s[i])
        BY <1>2, <2>5
    <3>2. Kept(i) = Kept(i - 1) \cup {s[i]}
        BY <2>3, <2>5
    <3> DEFINE to == [k \in 1..(n + 1) |-> IF k = n + 1 THEN i ELSE at[k]]
    <3> HIDE DEF l
    <3>3. /\ left[i] \in Seq(X) /\ Len(left[i]) = n + 1
          /\ \A k \in 1..n : left[i][k] = l[k]
          /\ left[i][n + 1] = s[i]
        BY <2>0, <3>1
    <3>4. Range(left[i]) = Range(l) \cup {s[i]}
      <4>1. DOMAIN left[i] = 1..(n + 1) /\ DOMAIN l = 1..n
          BY <2>0, <3>3
      <4>2. \A k : k \in 1..(n + 1) <=> k \in 1..n \/ k = n + 1
          BY <2>0
      <4> HIDE DEF n
      <4>3. QED
          BY <3>3, <4>1, <4>2 DEF Range
    <3>5. to \in [1..(n + 1) -> 1..i]
        BY <2>0, <2>1
    <3>6. \A k \in 1..(n + 1) : left[i][k] = s[to[k]]
        BY <2>0, <2>1, <3>3
    <3>7. \A k, m \in 1..(n + 1) : k < m => to[k] < to[m]
      <4>1. TAKE k, m \in 1..(n + 1)
      <4>2. SUFFICES ASSUME k < m PROVE to[k] < to[m]
          OBVIOUS
      <4> HIDE DEF n
      <4>3. k \in 1..n /\ at[k] \in 1..(i - 1) /\ to[k] = at[k]
          BY <2>0, <2>1, <4>2
      <4>4. CASE m = n + 1
          BY <2>0, <4>3, <4>4
      <4>5. CASE m # n + 1
          BY <2>0, <2>1, <4>2, <4>3, <4>5
      <4>6. QED
          BY <4>4, <4>5
    <3> HIDE DEF to, Kept
    <3>8. QED
        BY <2>2, <3>2, <3>3, <3>4, <3>5, <3>6, <3>7
  <2>6. QED
      BY <2>4, <2>5
<1>5. Good(Len(s))
  <2> HIDE DEF Good
  <2>1. SUFFICES ASSUME Bad # {} PROVE FALSE
      BY <1>0
  <2>2. PICK i \in Bad : \A k \in Bad : i <= k
    <3>1. Bad \subseteq Nat
        OBVIOUS
    <3> HIDE DEF Bad
    <3>2. QED
        BY <2>1, <3>1, LeastNumber
  <2>3. i \in 1..Len(s) /\ i - 1 \in Nat /\ i - 1 <= Len(s) /\ ~(i <= i - 1)
      BY <1>0, <1>3
  <2>4. Good(i - 1)
      BY <2>2, <2>3
  <2>5. QED
      BY <1>4, <2>3, <2>4
<1>6. Kept(Len(s)) = Range(s) \ S
    BY DEF Range
<1>7. QED
    BY <1>1, <1>5, <1>6
--------------------------------------------------------------------------------
(* Sums over finite sets.                                                  *)

(* A collection of subsets of a finite set has a minimal one.              *)
LEMMA MinimalSet ==
    ASSUME NEW S, IsFiniteSet(S), NEW F, F \subseteq SUBSET S, F # {}
    PROVE  \E m \in F : \A k \in F : k \subseteq m => k = m
<1>1. IsWellFoundedOn(StrictSubsetOrdering(S), SUBSET S)
    BY FS_StrictSubsetOrderingWellFounded, FS_FiniteSubsetsOfFinite, Zenon
<1>2. \E m \in F : \A k \in F : ~(<<k, m>> \in StrictSubsetOrdering(S))
    BY <1>1, WFMin, Zenon
<1>3. QED
    BY <1>2 DEF StrictSubsetOrdering

(* The function by which MapThenSumSet adds up the weights w over S.       *)
Adds1(w, s, it) == LET x == CHOOSE y \in s : TRUE
                   IN IF s = {} THEN 0 ELSE w[x] + it[s \ {x}]
IsIter(w, S, it) == it = [s \in SUBSET S |-> Adds1(w, s, it)]

LEMMA IterExists ==
    ASSUME NEW S, IsFiniteSet(S), NEW w
    PROVE  \E it : IsIter(w, S, it)
<1> DEFINE Level(n) == {s \in SUBSET S : Cardinality(s) <= n}
           Good(n) == \E f : f = [s \in Level(n) |-> Adds1(w, s, f)]
           Bad == {n \in Nat : ~Good(n)}
<1>1. \A s \in SUBSET S : Cardinality(s) \in Nat /\ (Cardinality(s) <= 0 => s = {})
  <2>1. TAKE s \in SUBSET S
  <2>2. IsFiniteSet(s)
      BY FS_Subset
  <2>3. QED
      BY <2>2, FS_CardinalityType, FS_EmptySet
<1>2. Good(0)
  <2> DEFINE f == [s \in Level(0) |-> 0]
  <2>1. \A s \in Level(0) : s = {}
      BY <1>1
  <2>2. f = [s \in Level(0) |-> Adds1(w, s, f)]
      BY <2>1 DEF Adds1
  <2> HIDE DEF f
  <2>3. QED
      BY <2>2
<1>3. ASSUME NEW n \in Nat, n > 0, Good(n - 1) PROVE Good(n)
  <2>1. PICK f : f = [s \in Level(n - 1) |-> Adds1(w, s, f)]
      BY <1>3
  <2> DEFINE g == [s \in Level(n) |-> Adds1(w, s, f)]
  <2>2. ASSUME NEW s \in Level(n), s # {}, NEW x \in s PROVE s \ {x} \in Level(n - 1) /\ s \ {x} \in Level(n)
    <3>1. IsFiniteSet(s) /\ Cardinality(s) \in Nat /\ Cardinality(s) <= n
        BY <1>1, FS_Subset
    <3>2. Cardinality(s \ {x}) = Cardinality(s) - 1
        BY <2>2, <3>1, FS_RemoveElement
    <3>3. QED
        BY <3>1, <3>2
  <2>3. \A r \in Level(n - 1) : f[r] = Adds1(w, r, f)
    <3> HIDE DEF Level
    <3>1. QED
        BY <2>1
  <2>4. \A r \in Level(n) : g[r] = Adds1(w, r, f)
    <3> HIDE DEF Level
    <3>1. QED
        OBVIOUS
  <2>5. ASSUME NEW s \in Level(n) PROVE Adds1(w, s, g) = Adds1(w, s, f)
    <3> HIDE DEF g, Level
    <3>1. CASE s = {}
        BY <3>1 DEF Adds1
    <3>2. CASE s # {}
      <4> DEFINE x == CHOOSE y \in s : TRUE
      <4>1. x \in s
          BY <3>2
      <4> HIDE DEF x
      <4>2. g[s \ {x}] = f[s \ {x}]
          BY <2>2, <2>3, <2>4, <3>2, <4>1
      <4>3. QED
          BY <4>2 DEF Adds1, x
    <3>3. QED
        BY <3>1, <3>2
  <2>6. g = [s \in Level(n) |-> Adds1(w, s, g)]
    <3>1. g = [s \in Level(n) |-> Adds1(w, s, f)]
        OBVIOUS
    <3> HIDE DEF g, Level
    <3>2. QED
        BY <2>5, <3>1
  <2> HIDE DEF g
  <2>7. QED
      BY <2>6
<1>4. Good(Cardinality(S))
  <2> HIDE DEF Good
  <2>1. SUFFICES ASSUME Bad # {} PROVE FALSE
      BY <1>1
  <2>2. PICK n \in Bad : \A k \in Bad : n <= k
    <3>1. Bad \subseteq Nat
        OBVIOUS
    <3> HIDE DEF Bad
    <3>2. QED
        BY <2>1, <3>1, LeastNumber
  <2>3. n \in Nat /\ n > 0 /\ n - 1 \in Nat /\ ~(n <= n - 1)
      BY <1>2
  <2>4. Good(n - 1)
      BY <2>2, <2>3
  <2>5. QED
      BY <1>3, <2>3, <2>4
<1>5. Level(Cardinality(S)) = SUBSET S
    BY FS_Subset
<1>6. QED
  <2> HIDE DEF Level
  <2>1. QED
      BY <1>4, <1>5 DEF IsIter

LEMMA IterAt ==
    ASSUME NEW S, NEW w, NEW it, IsIter(w, S, it), NEW s \in SUBSET S
    PROVE  it[s] = Adds1(w, s, it)
    BY DEF IsIter

(* The order in which the members are chosen does not matter.              *)
LEMMA IterAdds ==
    ASSUME NEW S, IsFiniteSet(S), NEW w, \A t \in S : w[t] \in Nat, NEW it, IsIter(w, S, it)
    PROVE  \A s \in SUBSET S : it[s] \in Nat /\ \A t \in s : it[s] = w[t] + it[s \ {t}]
<1> DEFINE Good(s) == it[s] \in Nat /\ \A t \in s : it[s] = w[t] + it[s \ {t}]
           Bad == {s \in SUBSET S : ~Good(s)}
<1>1. SUFFICES ASSUME Bad # {} PROVE FALSE
    OBVIOUS
<1>2. PICK s \in Bad : \A k \in Bad : k \subseteq s => k = s
  <2>1. Bad \subseteq SUBSET S
      OBVIOUS
  <2> HIDE DEF Bad
  <2>2. QED
      BY <1>1, <2>1, MinimalSet
<1>3. s \in SUBSET S /\ ~Good(s)
    OBVIOUS
<1>4. ASSUME NEW r \in SUBSET s, r # s PROVE Good(r)
    BY <1>2, <1>3, <1>4
<1>0. it[s] = Adds1(w, s, it)
    BY <1>3, IterAt
<1>5. CASE s = {}
    BY <1>0, <1>3, <1>5 DEF Adds1
<1>6. CASE s # {}
  <2> DEFINE x == CHOOSE y \in s : TRUE
  <2>1. x \in s
      BY <1>6
  <2>2. it[s] = w[x] + it[s \ {x}]
      BY <1>0, <1>6 DEF Adds1
  <2> HIDE DEF x
  <2>3. Good(s \ {x}) /\ w[x] \in Nat
      BY <1>3, <1>4, <2>1
  <2>4. ASSUME NEW t \in s, t # x PROVE it[s] = w[t] + it[s \ {t}]
    <3>1. it[s \ {x}] = w[t] + it[(s \ {x}) \ {t}]
        BY <2>3, <2>4
    <3>2. it[s \ {t}] = w[x] + it[(s \ {t}) \ {x}]
        BY <1>4, <2>1, <2>4
    <3> DEFINE r == (s \ {x}) \ {t}
    <3>3. (s \ {t}) \ {x} = r /\ r \in SUBSET s /\ r # s
        BY <2>1
    <3> HIDE DEF r
    <3>4. w[t] \in Nat /\ it[r] \in Nat
        BY <1>3, <1>4, <3>3
    <3>5. it[s \ {x}] = w[t] + it[r] /\ it[s \ {t}] = w[x] + it[r]
        BY <3>1, <3>2, <3>3 DEF r
    <3>6. QED
        BY <2>2, <2>3, <3>4, <3>5
  <2>5. it[s] \in Nat
      BY <2>2, <2>3
  <2>6. QED
      BY <1>3, <2>2, <2>4, <2>5
<1>7. QED
    BY <1>5, <1>6

(* Nor does the set that it is a part of.                                  *)
LEMMA IterUnique ==
    ASSUME NEW S, IsFiniteSet(S), NEW w, NEW it, IsIter(w, S, it),
           NEW T \in SUBSET S, NEW jt, IsIter(w, T, jt)
    PROVE  it[T] = jt[T]
<1> DEFINE Bad == {s \in SUBSET T : it[s] # jt[s]}
<1>0. IsFiniteSet(T)
    BY FS_Subset
<1>1. SUFFICES ASSUME Bad # {} PROVE FALSE
    OBVIOUS
<1>2. PICK s \in Bad : \A k \in Bad : k \subseteq s => k = s
  <2>1. Bad \subseteq SUBSET T
      OBVIOUS
  <2> HIDE DEF Bad
  <2>2. QED
      BY <1>0, <1>1, <2>1, MinimalSet
<1>3. it[s] = Adds1(w, s, it) /\ jt[s] = Adds1(w, s, jt) /\ s \in SUBSET T /\ it[s] # jt[s]
    BY IterAt
<1>4. CASE s = {}
    BY <1>3, <1>4 DEF Adds1
<1>5. CASE s # {}
  <2> DEFINE x == CHOOSE y \in s : TRUE
  <2>1. x \in s
      BY <1>5
  <2>2. it[s] = w[x] + it[s \ {x}] /\ jt[s] = w[x] + jt[s \ {x}]
      BY <1>3, <1>5 DEF Adds1
  <2> HIDE DEF x
  <2>3. it[s \ {x}] = jt[s \ {x}]
      BY <1>2, <1>3, <2>1
  <2>4. QED
      BY <1>3, <2>2, <2>3
<1>6. QED
    BY <1>4, <1>5
(* What Cost computes with.                                                   *)
LEMMA CostIter ==
    ASSUME NEW S \in SUBSET Txs, IsFiniteSet(S)
    PROVE  \E it : IsIter([t \in Txs |-> Tx[t].cost], S, it) /\ Cost(S) = it[S]
<1> DEFINE w == [t \in Txs |-> Tx[t].cost]
           Body(F) == [s \in SUBSET S |->
                         IF s = {} THEN 0
                         ELSE LET x == CHOOSE y \in s : TRUE IN Tx[x].cost + F[s \ {x}]]
           it == CHOOSE F : F = Body(F)
<1>1. ASSUME NEW F PROVE IsIter(w, S, F) <=> F = Body(F)
  <2>1. ASSUME NEW s \in SUBSET S
        PROVE  Adds1(w, s, F) = IF s = {} THEN 0
                                ELSE LET x == CHOOSE y \in s : TRUE IN Tx[x].cost + F[s \ {x}]
    <3>1. CASE s = {}
        BY <3>1 DEF Adds1
    <3>2. CASE s # {}
      <4> DEFINE x == CHOOSE y \in s : TRUE
      <4>1. x \in Txs
          BY <3>2
      <4>2. w[x] = Tx[x].cost
        <5> HIDE DEF x
        <5>1. QED
            BY <4>1
      <4> HIDE DEF w
      <4>3. QED
          BY <3>2, <4>2 DEF Adds1
    <3>3. QED
        BY <3>1, <3>2
  <2>2. [s \in SUBSET S |-> Adds1(w, s, F)] = Body(F)
      BY <2>1
  <2> HIDE DEF Body, w
  <2>3. QED
      BY <2>2 DEF IsIter
<1>2. Cost(S) = it[S]
    BY DEF Cost, MapThenSumSet, MapThenFoldSet
<1>3. \E F : F = Body(F)
  <2> HIDE DEF Body, w
  <2>1. QED
      BY <1>1, IterExists
<1> HIDE DEF Body, w
<1>4. it = Body(it)
    BY <1>3
<1> HIDE DEF it
<1>5. IsIter(w, S, it)
    BY <1>1, <1>4
<1>6. QED
    BY <1>2, <1>5 DEF w

(* What Fees computes with.                                                   *)
LEMMA FeesIter ==
    ASSUME NEW S \in SUBSET Txs, IsFiniteSet(S)
    PROVE  \E it : IsIter([t \in Txs |-> Tx[t].fee], S, it) /\ Fees(S) = it[S]
<1> DEFINE w == [t \in Txs |-> Tx[t].fee]
           Body(F) == [s \in SUBSET S |->
                         IF s = {} THEN 0
                         ELSE LET x == CHOOSE y \in s : TRUE IN Tx[x].fee + F[s \ {x}]]
           it == CHOOSE F : F = Body(F)
<1>1. ASSUME NEW F PROVE IsIter(w, S, F) <=> F = Body(F)
  <2>1. ASSUME NEW s \in SUBSET S
        PROVE  Adds1(w, s, F) = IF s = {} THEN 0
                                ELSE LET x == CHOOSE y \in s : TRUE IN Tx[x].fee + F[s \ {x}]
    <3>1. CASE s = {}
        BY <3>1 DEF Adds1
    <3>2. CASE s # {}
      <4> DEFINE x == CHOOSE y \in s : TRUE
      <4>1. x \in Txs
          BY <3>2
      <4>2. w[x] = Tx[x].fee
        <5> HIDE DEF x
        <5>1. QED
            BY <4>1
      <4> HIDE DEF w
      <4>3. QED
          BY <3>2, <4>2 DEF Adds1
    <3>3. QED
        BY <3>1, <3>2
  <2>2. [s \in SUBSET S |-> Adds1(w, s, F)] = Body(F)
      BY <2>1
  <2> HIDE DEF Body, w
  <2>3. QED
      BY <2>2 DEF IsIter
<1>2. Fees(S) = it[S]
    BY DEF Fees, MapThenSumSet, MapThenFoldSet
<1>3. \E F : F = Body(F)
  <2> HIDE DEF Body, w
  <2>1. QED
      BY <1>1, IterExists
<1> HIDE DEF Body, w
<1>4. it = Body(it)
    BY <1>3
<1> HIDE DEF it
<1>5. IsIter(w, S, it)
    BY <1>1, <1>4
<1>6. QED
    BY <1>2, <1>5 DEF w

(* The cost of a collection is that of one of its items and of the rest.   *)
LEMMA CostAdds ==
    ASSUME NEW S \in SUBSET Txs, IsFiniteSet(S)
    PROVE  /\ Cost(S) \in Nat
           /\ \A t \in S : Cost(S) = Tx[t].cost + Cost(S \ {t})
<1> DEFINE w == [t \in Txs |-> Tx[t].cost]
<1>0. \A t \in S : w[t] \in Nat /\ w[t] = Tx[t].cost
    BY MempoolAssumption
<1> HIDE DEF w
<1>1. PICK it : IsIter(w, S, it) /\ Cost(S) = it[S]
    BY CostIter DEF w
<1>2. it[S] \in Nat /\ \A t \in S : it[S] = w[t] + it[S \ {t}]
    BY <1>0, <1>1, IterAdds
<1>3. ASSUME NEW t \in S PROVE Cost(S \ {t}) = it[S \ {t}]
  <2>1. IsFiniteSet(S \ {t}) /\ S \ {t} \in SUBSET Txs /\ S \ {t} \in SUBSET S
      BY FS_RemoveElement
  <2>2. PICK jt : IsIter(w, S \ {t}, jt) /\ Cost(S \ {t}) = jt[S \ {t}]
      BY <2>1, CostIter DEF w
  <2>3. QED
      BY <1>1, <2>1, <2>2, IterUnique
<1>4. QED
    BY <1>0, <1>1, <1>2, <1>3

LEMMA CostOfNone == Cost({}) = 0
<1>1. IsFiniteSet({}) /\ {} \in SUBSET Txs /\ {} \in SUBSET {}
    BY FS_EmptySet
<1>2. PICK it : IsIter([t \in Txs |-> Tx[t].cost], {}, it) /\ Cost({}) = it[{}]
    BY <1>1, CostIter
<1>3. it[{}] = Adds1([t \in Txs |-> Tx[t].cost], {}, it)
    BY <1>1, <1>2, IterAt
<1>4. QED
    BY <1>2, <1>3 DEF Adds1

LEMMA CostOfOne ==
    ASSUME NEW t \in Txs
    PROVE  Cost({t}) = Tx[t].cost
<1>1. {t} \in SUBSET Txs /\ IsFiniteSet({t}) /\ {t} \ {t} = {}
    BY FS_Singleton
<1>2. Cost({t}) = Tx[t].cost + Cost({t} \ {t}) /\ Tx[t].cost \in Nat
    BY <1>1, CostAdds, MempoolAssumption
<1>3. QED
    BY <1>1, <1>2, CostOfNone

LEMMA CostOfMore ==
    ASSUME NEW S \in SUBSET Txs, IsFiniteSet(S), NEW t \in Txs, t \notin S
    PROVE  Cost(S \cup {t}) = Cost(S) + Tx[t].cost
<1> DEFINE U == S \cup {t}
<1>1. U \in SUBSET Txs /\ IsFiniteSet(U) /\ U \ {t} = S /\ t \in U
    BY FS_AddElement
<1> HIDE DEF U
<1>2. Cost(U) = Tx[t].cost + Cost(U \ {t})
    BY <1>1, CostAdds
<1>3. Tx[t].cost \in Nat /\ Cost(S) \in Nat
    BY CostAdds, MempoolAssumption
<1>4. Cost(U) = Tx[t].cost + Cost(S)
    BY <1>1, <1>2
<1>5. QED
    BY <1>3, <1>4 DEF U

(* Less costs less.                                                        *)
LEMMA CostOfFewer ==
    ASSUME NEW S \in SUBSET Txs, IsFiniteSet(S), NEW T \in SUBSET S
    PROVE  Cost(T) <= Cost(S) /\ Cost(T) \in Nat /\ Cost(S) \in Nat
<1> DEFINE Bad == {U \in SUBSET S : T \subseteq U /\ ~(Cost(T) <= Cost(U))}
<1>0. ASSUME NEW U \in SUBSET S PROVE U \in SUBSET Txs /\ IsFiniteSet(U) /\ Cost(U) \in Nat
    BY FS_Subset, CostAdds
<1>1. ASSUME Bad # {} PROVE FALSE
  <2>1. PICK U \in Bad : \A k \in Bad : k \subseteq U => k = U
    <3>1. Bad \subseteq SUBSET S
        OBVIOUS
    <3> HIDE DEF Bad
    <3>2. QED
        BY <1>1, <3>1, MinimalSet
  <2>2. U \in SUBSET S /\ T \subseteq U /\ ~(Cost(T) <= Cost(U)) /\ Cost(T) \in Nat /\ Cost(U) \in Nat
      BY <1>0
  <2>3. PICK t \in U : t \notin T
      BY <2>2
  <2>4. Cost(U) = Tx[t].cost + Cost(U \ {t}) /\ Tx[t].cost \in Nat /\ Cost(U \ {t}) \in Nat
      BY <1>0, <2>2, CostAdds, MempoolAssumption
  <2>5. Cost(T) <= Cost(U \ {t})
    <3>1. U \ {t} \in SUBSET S /\ T \subseteq U \ {t} /\ U \ {t} \subseteq U /\ U \ {t} # U
        BY <2>2, <2>3
    <3>2. U \ {t} \notin Bad
      <4> HIDE DEF Bad
      <4>1. QED
          BY <2>1, <3>1
    <3>3. QED
        BY <3>1, <3>2
  <2>6. QED
      BY <2>2, <2>4, <2>5
<1>2. QED
    BY <1>0, <1>1
LEMMA FeesOfOne ==
    ASSUME NEW t \in Txs
    PROVE  Fees({t}) = Tx[t].fee
<1> DEFINE w == [u \in Txs |-> Tx[u].fee]
<1>1. {t} \in SUBSET Txs /\ IsFiniteSet({t}) /\ {t} \in SUBSET {t} /\ {} \in SUBSET {t}
    BY FS_Singleton
<1>2. PICK it : IsIter(w, {t}, it) /\ Fees({t}) = it[{t}]
    BY <1>1, FeesIter
<1>3. w[t] = Tx[t].fee /\ w[t] \in Nat
    BY MempoolAssumption
<1> HIDE DEF w
<1>4. it[{t}] = Adds1(w, {t}, it) /\ it[{}] = Adds1(w, {}, it)
    BY <1>1, <1>2, IterAt
<1>5. it[{}] = 0
    BY <1>4 DEF Adds1
<1>6. Adds1(w, {t}, it) = w[t] + it[{}]
  <2>1. (CHOOSE y \in {t} : TRUE) = t /\ {t} \ {t} = {} /\ {t} # {}
      OBVIOUS
  <2>2. QED
      BY <2>1 DEF Adds1
<1>7. QED
    BY <1>2, <1>3, <1>4, <1>5, <1>6

--------------------------------------------------------------------------------
(* The order of the pool.                                                  *)

LEMMA Multiply ==
    ASSUME NEW a \in Nat, NEW b \in Nat, NEW c \in Nat, c > 0
    PROVE  /\ a < b <=> a * c < b * c
           /\ a <= b <=> a * c <= b * c
    OBVIOUS

(* Fractions f / c.                                                        *)
LEMMA FractionOrder ==
    ASSUME NEW f1 \in Nat, NEW f2 \in Nat, NEW f3 \in Nat,
           NEW c1 \in Nat, NEW c2 \in Nat, NEW c3 \in Nat, c1 > 0, c2 > 0, c3 > 0
    PROVE  /\ f1 * c2 < f2 * c1 /\ f2 * c3 <= f3 * c2 => f1 * c3 < f3 * c1
           /\ f1 * c2 <= f2 * c1 /\ f2 * c3 < f3 * c2 => f1 * c3 < f3 * c1
<1>1. /\ (f1 * c2) * c3 = (f1 * c3) * c2
      /\ (f2 * c1) * c3 = (f2 * c3) * c1
      /\ (f3 * c2) * c1 = (f3 * c1) * c2
    OBVIOUS
<1>2. /\ f1 * c2 \in Nat /\ f2 * c1 \in Nat /\ f2 * c3 \in Nat
      /\ f3 * c2 \in Nat /\ f1 * c3 \in Nat /\ f3 * c1 \in Nat
    OBVIOUS
<1>3. ASSUME f1 * c2 < f2 * c1, f2 * c3 <= f3 * c2 PROVE f1 * c3 < f3 * c1
  <2>1. (f1 * c2) * c3 < (f2 * c1) * c3
      BY <1>2, <1>3, Multiply
  <2>2. (f2 * c3) * c1 <= (f3 * c2) * c1
      BY <1>2, <1>3, Multiply
  <2>3. (f1 * c3) * c2 < (f3 * c1) * c2
      BY <1>1, <2>1, <2>2
  <2>4. QED
      BY <1>2, <2>3, Multiply
<1>4. ASSUME f1 * c2 <= f2 * c1, f2 * c3 < f3 * c2 PROVE f1 * c3 < f3 * c1
  <2>1. (f1 * c2) * c3 <= (f2 * c1) * c3
      BY <1>2, <1>4, Multiply
  <2>2. (f2 * c3) * c1 < (f3 * c2) * c1
      BY <1>2, <1>4, Multiply
  <2>3. (f1 * c3) * c2 < (f3 * c1) * c2
      BY <1>1, <2>1, <2>2
  <2>4. QED
      BY <1>2, <2>3, Multiply
<1>5. QED
    BY <1>3, <1>4
(* Fee per cost.                                                           *)
LEMMA CheaperIsOrder ==
    ASSUME NEW t \in Txs, NEW u \in Txs, NEW v \in Txs
    PROVE  /\ ~CheaperPerCost({t}, {t})
           /\ CheaperPerCost({t}, {u}) => ~CheaperPerCost({u}, {t})
           /\ CheaperPerCost({t}, {u}) /\ ~CheaperPerCost({v}, {u}) => CheaperPerCost({t}, {v})
           /\ ~CheaperPerCost({u}, {t}) /\ CheaperPerCost({u}, {v}) => CheaperPerCost({t}, {v})
<1> DEFINE f(x) == Tx[x].fee
           c(x) == Tx[x].cost
<1>1. \A x \in Txs : f(x) \in Nat /\ c(x) \in Nat /\ c(x) > 0
    BY MempoolAssumption
<1>2. \A x, y \in Txs : CheaperPerCost({x}, {y}) <=> f(x) * c(y) < f(y) * c(x)
    BY FeesOfOne, CostOfOne DEF CheaperPerCost
<1> HIDE DEF f, c
<1>3. \A x, y \in Txs : f(x) * c(y) \in Nat
    BY <1>1
<1>4. /\ f(t) * c(u) < f(u) * c(t) /\ f(u) * c(v) <= f(v) * c(u) => f(t) * c(v) < f(v) * c(t)
      /\ f(t) * c(u) <= f(u) * c(t) /\ f(u) * c(v) < f(v) * c(u) => f(t) * c(v) < f(v) * c(t)
    BY <1>1, FractionOrder
<1>5. QED
    BY <1>2, <1>3, <1>4

(* R orders S; the part of S up to t.                                      *)
IsOrderOn(R, S) ==
    \A t, u, v \in S :
        /\ <<t, t>> \notin R
        /\ <<t, u>> \in R /\ <<u, v>> \in R => <<t, v>> \in R
        /\ t # u => <<t, u>> \in R \/ <<u, t>> \in R
UpTo(R, S, t) == {u \in S : u = t \/ <<u, t>> \in R}

LEMMA HasLast ==
    ASSUME NEW S, IsFiniteSet(S), NEW R, IsOrderOn(R, S), NEW I \in SUBSET S, I # {}
    PROVE  \E m \in I : \A u \in I : u = m \/ <<u, m>> \in R
<1> DEFINE Rest(t) == I \ UpTo(R, S, t)
           F == {Rest(t) : t \in I}
<1>1. PICK t \in I : \A u \in I : Rest(u) \subseteq Rest(t) => Rest(u) = Rest(t)
  <2>1. F \subseteq SUBSET S /\ F # {}
      OBVIOUS
  <2>2. PICK m \in F : \A k \in F : k \subseteq m => k = m
    <3> HIDE DEF F
    <3>1. QED
        BY <2>1, MinimalSet
  <2> HIDE DEF Rest
  <2>3. PICK t \in I : m = Rest(t)
      OBVIOUS
  <2>4. \A u \in I : Rest(u) \in F
      OBVIOUS
  <2> HIDE DEF F
  <2>5. QED
      BY <2>2, <2>3, <2>4
<1>2. ASSUME NEW u \in I, u # t, <<u, t>> \notin R PROVE FALSE
  <2>1. <<t, u>> \in R
      BY <1>2 DEF IsOrderOn
  <2>2. UpTo(R, S, t) \subseteq UpTo(R, S, u)
      BY <2>1 DEF UpTo, IsOrderOn
  <2>3. u \in UpTo(R, S, u) /\ u \notin UpTo(R, S, t)
      BY <1>2 DEF UpTo
  <2>4. QED
      BY <1>1, <2>2, <2>3
<1>3. QED
    BY <1>2

(* What is closed downwards is the part up to its last member.             *)
LEMMA SegmentIsUpTo ==
    ASSUME NEW S, IsFiniteSet(S), NEW R, IsOrderOn(R, S), NEW I \in SUBSET S, I # {},
           \A u \in I, v \in S : <<v, u>> \in R => v \in I
    PROVE  \E m \in I : I = UpTo(R, S, m)
<1>1. PICK m \in I : \A u \in I : u = m \/ <<u, m>> \in R
    BY HasLast
<1>2. I = UpTo(R, S, m)
    BY <1>1 DEF UpTo
<1>3. QED
    BY <1>2

(* Of parts that contain one another there is a least.                     *)
LEMMA LeastSet ==
    ASSUME NEW S, IsFiniteSet(S), NEW F, F \subseteq SUBSET S, F # {},
           \A k, m \in F : k \subseteq m \/ m \subseteq k
    PROVE  \E m \in F : \A k \in F : m \subseteq k
<1>1. PICK m \in F : \A k \in F : k \subseteq m => k = m
    BY MinimalSet
<1>2. QED
    BY <1>1

LEMMA UpToCompare ==
    ASSUME NEW S, NEW R, IsOrderOn(R, S), NEW t \in S, NEW u \in S
    PROVE  UpTo(R, S, t) \subseteq UpTo(R, S, u) \/ UpTo(R, S, u) \subseteq UpTo(R, S, t)
<1>1. CASE t = u
    BY <1>1
<1>2. CASE <<t, u>> \in R
    BY <1>2 DEF UpTo, IsOrderOn
<1>3. CASE <<u, t>> \in R
    BY <1>3 DEF UpTo, IsOrderOn
<1>4. QED
    BY <1>1, <1>2, <1>3 DEF IsOrderOn
(* The items of a pool.                                                    *)
IsPool(p) == p \in Seq(Txs) /\ IsInjective(p)

LEMMA PoolIsFinite ==
    ASSUME NEW p, IsPool(p)
    PROVE  IsFiniteSet(Range(p)) /\ Range(p) \in SUBSET Txs
<1>1. p \in [1..Len(p) -> Txs] /\ Len(p) \in Nat
    BY DEF IsPool
<1>2. p \in Surjection(1..Len(p), Range(p))
    BY <1>1 DEF Surjection, Range
<1>3. IsFiniteSet(1..Len(p))
    BY <1>1, FS_Interval
<1>4. QED
    BY <1>1, <1>2, <1>3, FS_Surjection DEF Range

LEMMA PositionIs ==
    ASSUME NEW p, IsPool(p)
    PROVE  /\ \A t \in Range(p) : Position(p, t) \in DOMAIN p /\ p[Position(p, t)] = t
           /\ \A i \in DOMAIN p : Position(p, p[i]) = i
<1>1. \A t \in Range(p) : Position(p, t) \in DOMAIN p /\ p[Position(p, t)] = t
    BY DEF Position, Range
<1>2. QED
    BY <1>1 DEF IsPool, IsInjective, Range

(* Items are taken out in place.                                           *)
LEMMA WithoutIsPool ==
    ASSUME NEW p, IsPool(p), NEW S
    PROVE  /\ IsPool(Without(p, S)) /\ Range(Without(p, S)) = Range(p) \ S
           /\ \A t, u \in Range(p) \ S :
                 Position(Without(p, S), t) < Position(Without(p, S), u)
                    <=> Position(p, t) < Position(p, u)
<1> DEFINE q == Without(p, S)
<1>1. q \in Seq(Txs) /\ Range(q) = Range(p) \ S
    BY WithoutKeeps DEF IsPool
<1>2. PICK at \in [1..Len(q) -> 1..Len(p)] :
            /\ \A i \in 1..Len(q) : q[i] = p[at[i]]
            /\ \A i, j \in 1..Len(q) : i < j => at[i] < at[j]
    BY WithoutKeeps DEF IsPool
<1> HIDE DEF q
<1>3. Len(q) \in Nat /\ DOMAIN q = 1..Len(q) /\ Len(p) \in Nat /\ DOMAIN p = 1..Len(p)
    BY <1>1 DEF IsPool
<1>4. \A i, j \in 1..Len(q) : i # j => at[i] # at[j]
  <2>1. TAKE i, j \in 1..Len(q)
  <2>2. at[i] \in Nat /\ at[j] \in Nat
      BY <1>2, <1>3
  <2>3. i < j \/ j < i \/ i = j
      BY <1>3
  <2>4. QED
      BY <1>2, <2>2, <2>3
<1>5. IsPool(q)
  <2>1. \A i, j \in 1..Len(q) : q[i] = q[j] => i = j
      BY <1>2, <1>3, <1>4 DEF IsPool, IsInjective
  <2>2. QED
      BY <1>1, <1>3, <2>1 DEF IsPool, IsInjective
<1>6. ASSUME NEW t \in Range(p) \ S, NEW u \in Range(p) \ S
      PROVE  Position(q, t) < Position(q, u) <=> Position(p, t) < Position(p, u)
  <2> DEFINE i == Position(q, t)
             j == Position(q, u)
  <2>1. i \in 1..Len(q) /\ q[i] = t /\ j \in 1..Len(q) /\ q[j] = u
      BY <1>1, <1>3, <1>5, PositionIs
  <2> HIDE DEF i, j
  <2>2. Position(p, t) = at[i] /\ Position(p, u) = at[j]
      BY <1>2, <1>3, <2>1, PositionIs
  <2>3. i \in Nat /\ j \in Nat /\ at[i] \in Nat /\ at[j] \in Nat
      BY <1>2, <1>3, <2>1
  <2>4. i < j => at[i] < at[j]
      BY <1>2, <2>1
  <2>5. j < i => at[j] < at[i]
      BY <1>2, <2>1
  <2>6. i < j <=> at[i] < at[j]
      BY <2>3, <2>4, <2>5
  <2>7. QED
      BY <2>2, <2>6 DEF i, j
<1>7. QED
    BY <1>1, <1>5, <1>6 DEF q

Sorted(p) == {e \in Range(p) \X Range(p) : SortedBefore(p, e[1], e[2])}

LEMMA SortedIsOrder ==
    ASSUME NEW p, IsPool(p)
    PROVE  IsOrderOn(Sorted(p), Range(p))
<1>1. SUFFICES ASSUME NEW t \in Range(p), NEW u \in Range(p), NEW v \in Range(p)
               PROVE  /\ ~SortedBefore(p, t, t)
                      /\ SortedBefore(p, t, u) /\ SortedBefore(p, u, v) => SortedBefore(p, t, v)
                      /\ t # u => SortedBefore(p, t, u) \/ SortedBefore(p, u, t)
    BY DEF IsOrderOn, Sorted
<1>2. t \in Txs /\ u \in Txs /\ v \in Txs
    BY PoolIsFinite
<1>3. /\ Position(p, t) \in Nat /\ Position(p, u) \in Nat /\ Position(p, v) \in Nat
      /\ t # u => Position(p, t) # Position(p, u)
    BY PositionIs DEF IsPool
<1>4. ~SortedBefore(p, t, t)
    BY <1>2, <1>3, CheaperIsOrder DEF SortedBefore
<1>5. ASSUME SortedBefore(p, t, u), SortedBefore(p, u, v) PROVE SortedBefore(p, t, v)
  <2>1. CASE CheaperPerCost({t}, {u}) /\ ~CheaperPerCost({v}, {u})
      BY <1>2, <2>1, CheaperIsOrder DEF SortedBefore
  <2>2. CASE ~CheaperPerCost({u}, {t}) /\ CheaperPerCost({u}, {v})
      BY <1>2, <2>2, CheaperIsOrder DEF SortedBefore
  <2>3. CASE /\ ~CheaperPerCost({u}, {t}) /\ Position(p, t) < Position(p, u)
             /\ ~CheaperPerCost({v}, {u}) /\ Position(p, u) < Position(p, v)
    <3>1. ~CheaperPerCost({v}, {t})
        BY <1>2, <2>3, CheaperIsOrder
    <3>2. Position(p, t) < Position(p, v)
        BY <1>3, <2>3
    <3>3. QED
        BY <3>1, <3>2 DEF SortedBefore
  <2>4. CheaperPerCost({u}, {v}) => ~CheaperPerCost({v}, {u})
      BY <1>2, CheaperIsOrder
  <2>5. CheaperPerCost({t}, {u}) => ~CheaperPerCost({u}, {t})
      BY <1>2, CheaperIsOrder
  <2>6. QED
      BY <1>5, <2>1, <2>2, <2>3, <2>4, <2>5 DEF SortedBefore
<1>6. ASSUME t # u PROVE SortedBefore(p, t, u) \/ SortedBefore(p, u, t)
    BY <1>3, <1>6 DEF SortedBefore
<1>7. QED
    BY <1>4, <1>5, <1>6

(* add_to_pool evicts an initial part of the sorted items that is enough,  *)
(* and the least one.                                                      *)
IsSegment(p, I) == /\ I \in SUBSET Range(p)
                   /\ \A u \in I, v \in Range(p) : SortedBefore(p, v, u) => v \in I

LEMMA ToEvictIsLeast ==
    ASSUME NEW p, IsPool(p), NEW cost \in 0..MaxPoolCost
    PROVE  /\ IsSegment(p, ToEvict(p, cost))
           /\ ~AtFullCapacity(Range(p) \ ToEvict(p, cost), cost)
           /\ \A I : IsSegment(p, I) /\ ~AtFullCapacity(Range(p) \ I, cost) => ToEvict(p, cost) \subseteq I
<1> DEFINE S == Range(p)
           R == Sorted(p)
           segments == {{}} \cup {SortedUpTo(p, t) : t \in Range(p)}
           enough == {I \in segments : ~AtFullCapacity(Range(p) \ I, cost)}
<1>0. IsFiniteSet(S) /\ S \in SUBSET Txs /\ IsOrderOn(R, S)
    BY PoolIsFinite, SortedIsOrder
<1>1. \A t \in S : SortedUpTo(p, t) = UpTo(R, S, t)
    BY DEF SortedUpTo, UpTo, Sorted
<1>2. ASSUME NEW I, IsSegment(p, I) PROVE I \in segments
  <2>1. CASE I = {}
      BY <2>1
  <2>2. CASE I # {}
    <3>1. I \in SUBSET S /\ \A u \in I, v \in S : <<v, u>> \in R => v \in I
        BY <1>2 DEF IsSegment, Sorted
    <3>2. PICK m \in I : I = UpTo(R, S, m)
      <4> HIDE DEF R, S
      <4>1. QED
          BY <1>0, <2>2, <3>1, SegmentIsUpTo
    <3>3. QED
        BY <1>1, <3>1, <3>2
  <2>3. QED
      BY <2>1, <2>2
<1>3. ASSUME NEW I \in segments PROVE IsSegment(p, I)
  <2>1. CASE I = {}
      BY <2>1 DEF IsSegment
  <2>2. CASE I # {}
    <3>1. PICK t \in S : I = UpTo(R, S, t)
        BY <1>1, <2>2
    <3>2. \A u \in I, v \in S : <<v, u>> \in R => v \in I
      <4> HIDE DEF R, S
      <4>1. QED
          BY <1>0, <3>1 DEF UpTo, IsOrderOn
    <3>3. QED
        BY <3>1, <3>2 DEF IsSegment, UpTo, Sorted
  <2>3. QED
      BY <2>1, <2>2
<1>4. ASSUME NEW I \in segments, NEW J \in segments PROVE I \subseteq J \/ J \subseteq I
  <2>1. CASE I = {} \/ J = {}
      BY <2>1
  <2>2. CASE I # {} /\ J # {}
    <3>1. PICK t \in S : I = UpTo(R, S, t)
        BY <1>1, <2>2
    <3>2. PICK u \in S : J = UpTo(R, S, u)
        BY <1>1, <2>2
    <3> HIDE DEF S, R
    <3>3. QED
        BY <1>0, <3>1, <3>2, UpToCompare
  <2>3. QED
      BY <2>1, <2>2
<1>5. S \in enough
  <2>1. IsSegment(p, S)
      BY DEF IsSegment
  <2>2. ~AtFullCapacity(S \ S, cost)
    <3>1. Cost(S \ S) = 0
      <4>1. S \ S = {}
          OBVIOUS
      <4>2. QED
          BY <4>1, CostOfNone
    <3>2. MaxPoolCost \in Nat /\ cost <= MaxPoolCost /\ cost \in Nat
        BY MempoolAssumption
    <3>3. QED
        BY <3>1, <3>2 DEF AtFullCapacity
  <2>3. QED
      BY <1>2, <2>1, <2>2
<1>6. enough \subseteq SUBSET S
    BY <1>3 DEF IsSegment
<1>7. \E I \in enough : \A J \in enough : I \subseteq J
  <2>1. \A I, J \in enough : I \subseteq J \/ J \subseteq I
      BY <1>4
  <2> HIDE DEF enough, S
  <2>2. QED
      BY <1>0, <1>5, <1>6, <2>1, LeastSet
<1>8. ToEvict(p, cost) = CHOOSE I \in enough : \A J \in enough : I \subseteq J
    BY DEF ToEvict
<1>9. ToEvict(p, cost) \in enough /\ \A J \in enough : ToEvict(p, cost) \subseteq J
  <2> HIDE DEF enough
  <2>1. QED
      BY <1>7, <1>8
<1>10. QED
    BY <1>2, <1>3, <1>9
(* To take items out first only makes fewer go.                            *)
LEMMA EvictsFewer ==
    ASSUME NEW p, IsPool(p), NEW C, NEW cost \in 0..MaxPoolCost
    PROVE  /\ ToEvict(Without(p, C), cost) \subseteq ToEvict(p, cost)
           /\ ~AtFullCapacity(Range(p), cost) => ToEvict(Without(p, C), cost) = {}
<1> DEFINE q == Without(p, C)
           E == ToEvict(p, cost)
<1>1. /\ IsPool(q) /\ Range(q) = Range(p) \ C
      /\ \A t, u \in Range(q) : SortedBefore(q, t, u) <=> SortedBefore(p, t, u)
    BY WithoutIsPool DEF SortedBefore
<1>2. IsSegment(p, E) /\ ~AtFullCapacity(Range(p) \ E, cost)
    BY ToEvictIsLeast
<1> HIDE DEF q, E
<1>3. ASSUME NEW I, I \subseteq Range(p), ~AtFullCapacity(Range(p) \ I, cost)
      PROVE  ~AtFullCapacity(Range(q) \ (I \ C), cost)
  <2>1. Range(q) \ (I \ C) \in SUBSET (Range(p) \ I)
      BY <1>1
  <2>2. Range(p) \ I \in SUBSET Txs /\ IsFiniteSet(Range(p) \ I)
      BY PoolIsFinite, FS_Subset
  <2>3. /\ Cost(Range(q) \ (I \ C)) <= Cost(Range(p) \ I)
        /\ Cost(Range(q) \ (I \ C)) \in Nat /\ Cost(Range(p) \ I) \in Nat
      BY <2>1, <2>2, CostOfFewer
  <2>4. QED
      BY <1>3, <2>3, MempoolAssumption DEF AtFullCapacity
<1>4. \A I : IsSegment(q, I) /\ ~AtFullCapacity(Range(q) \ I, cost) => ToEvict(q, cost) \subseteq I
    BY <1>1, ToEvictIsLeast
<1>5. ToEvict(q, cost) \subseteq E
  <2>1. IsSegment(q, E \ C)
      BY <1>1, <1>2 DEF IsSegment
  <2>2. ~AtFullCapacity(Range(q) \ (E \ C), cost)
      BY <1>2, <1>3 DEF IsSegment
  <2>3. QED
      BY <1>4, <2>1, <2>2
<1>6. ASSUME ~AtFullCapacity(Range(p), cost) PROVE ToEvict(q, cost) = {}
  <2>1. Range(p) \ {} = Range(p) /\ {} \ C = {}
      OBVIOUS
  <2>2. ~AtFullCapacity(Range(q) \ {}, cost)
      BY <1>3, <1>6, <2>1
  <2>3. IsSegment(q, {})
      BY DEF IsSegment
  <2>4. QED
      BY <1>4, <2>2, <2>3
<1>7. QED
    BY <1>5, <1>6 DEF q, E

Fits(p) == Cost(Range(p)) <= MaxPoolCost

AllDisjoint(p) == \A t, u \in Range(p) : t # u => Removals(t) \cap Removals(u) = {}

(* Why u is no longer in the pool when t has been added to p.              *)
GivesWay(u, t, p) ==
    IF Removals(u) \cap Removals(t) = {} THEN CheaperPerCost({u}, {t})
    ELSE u \in Conflicts(t, p) /\ CanReplace(Conflicts(t, p), t)

LEMMA AppendIsPool ==
    ASSUME NEW p, IsPool(p), NEW t \in Txs, t \notin Range(p)
    PROVE  IsPool(Append(p, t)) /\ Range(Append(p, t)) = Range(p) \cup {t}
<1>1. p \in Seq(Txs) /\ Len(p) \in Nat /\ DOMAIN p = 1..Len(p)
    BY DEF IsPool
<1> DEFINE q == Append(p, t)
           n == Len(p)
<1>2. /\ q \in Seq(Txs) /\ DOMAIN q = 1..(n + 1)
      /\ \A i \in 1..n : q[i] = p[i]
      /\ q[n + 1] = t
    BY <1>1
<1> HIDE DEF q
<1>3. \A i : i \in 1..(n + 1) <=> i \in 1..n \/ i = n + 1
    BY <1>1
<1>4. Range(q) = Range(p) \cup {t}
  <2> HIDE DEF n
  <2>1. QED
      BY <1>1, <1>2, <1>3 DEF Range, n
<1>5. IsInjective(q)
  <2>1. \A i \in 1..n : p[i] # t
      BY <1>1 DEF Range
  <2> HIDE DEF n
  <2>2. QED
      BY <1>1, <1>2, <1>3, <2>1 DEF IsPool, IsInjective, n
<1>6. QED
    BY <1>2, <1>4, <1>5 DEF IsPool, q

(* What add_spendbundle does to a pool.                                    *)
LEMMA PoolAfterIs ==
    ASSUME NEW p, IsPool(p), NEW t \in Txs, NEW m, NEW b
    PROVE  LET q == PoolAfter(t, p, m, b)
           IN  /\ IsPool(q) /\ Range(q) \subseteq Range(p) \cup {t}
               /\ Status(t, p, m, b) = "SUCCESS" => t \in Range(q)
               /\ Status(t, p, m, b) # "SUCCESS" => q = p
               /\ AllDisjoint(p) => AllDisjoint(q)
               /\ Fits(p) => Fits(q)
               /\ \A u \in Range(p) \ Range(q) :
                     Status(t, p, m, b) = "SUCCESS" /\ t \notin Range(p) /\ GivesWay(u, t, p)
<1> DEFINE q == PoolAfter(t, p, m, b)
           C == Conflicts(t, p)
           r == Without(p, C)
           E == ToEvict(r, Tx[t].cost)
<1>0. Tx[t].cost \in 0..MaxPoolCost /\ Tx[t].cost \in Nat /\ MaxPoolCost \in Nat
    BY MempoolAssumption
<1>1. CASE ~(Status(t, p, m, b) = "SUCCESS" /\ t \notin Range(p))
  <2>1. q = p
      BY <1>1 DEF PoolAfter
  <2> HIDE DEF q
  <2>2. QED
      BY <1>1, <2>1 DEF q
<1>2. CASE Status(t, p, m, b) = "SUCCESS" /\ t \notin Range(p)
  <2>1. IsPool(r) /\ Range(r) = Range(p) \ C
      BY WithoutIsPool
  <2>2. IsPool(Without(r, E)) /\ Range(Without(r, E)) = (Range(p) \ C) \ E
      BY <2>1, WithoutIsPool
  <2>3. ~AtFullCapacity(Range(r) \ E, Tx[t].cost)
      BY <1>0, <2>1, ToEvictIsLeast
  <2>4. q = Append(Without(r, E), t)
      BY <1>2 DEF PoolAfter, AddToPool
  <2>5. IsPool(q) /\ Range(q) = ((Range(p) \ C) \ E) \cup {t}
      BY <1>2, <2>2, <2>4, AppendIsPool
  <2>6. FeeIsEnough(t, p) /\ (C # {} => CanReplace(C, t))
    <3> HIDE DEF C
    <3>1. QED
        BY <1>2 DEF Status, C
  <2>7. \A u \in E : CheaperPerCost({u}, {t})
    <3>1. E \subseteq ToEvict(p, Tx[t].cost) /\ (~AtFullCapacity(Range(p), Tx[t].cost) => E = {})
        BY <1>0, EvictsFewer
    <3> HIDE DEF E
    <3>2. QED
        BY <2>6, <3>1 DEF FeeIsEnough
  <2>8. AllDisjoint(p) => AllDisjoint(q)
    <3>1. \A u \in Range(p) \ C : Removals(u) \cap Removals(t) = {}
        BY DEF Conflicts
    <3> HIDE DEF q, C, E, r
    <3>2. QED
        BY <2>5, <3>1 DEF AllDisjoint
  <2>9. Fits(q)
    <3> DEFINE K == (Range(p) \ C) \ E
    <3>1. K \in SUBSET Txs /\ IsFiniteSet(K) /\ t \notin K
        BY <1>2, <2>2, PoolIsFinite
    <3>2. Cost(K) + Tx[t].cost <= MaxPoolCost /\ Cost(K) \in Nat
      <4>1. Cost(K) \in Nat
          BY <3>1, CostAdds
      <4>2. ~(Cost(K) + Tx[t].cost > MaxPoolCost)
          BY <2>1, <2>3 DEF AtFullCapacity
      <4> HIDE DEF K
      <4>3. QED
          BY <1>0, <4>1, <4>2
    <3> HIDE DEF K
    <3>3. Cost(K \cup {t}) = Cost(K) + Tx[t].cost
        BY <3>1, CostOfMore
    <3>4. QED
        BY <2>5, <3>2, <3>3 DEF Fits, K
  <2>10. ASSUME NEW u \in Range(p) \ Range(q) PROVE GivesWay(u, t, p)
    <3>1. u \in Range(p) /\ (u \in C \/ u \in E)
        BY <2>5
    <3> HIDE DEF E, q, r
    <3>2. CASE u \in C
        BY <2>6, <3>2 DEF GivesWay, Conflicts
    <3>3. CASE u \notin C
        BY <2>7, <3>1, <3>3 DEF GivesWay, Conflicts
    <3>4. QED
        BY <3>2, <3>3
  <2> HIDE DEF q, r, E, C
  <2>11. QED
      BY <1>2, <2>5, <2>8, <2>9, <2>10 DEF q
<1>3. QED
    BY <1>1, <1>2
--------------------------------------------------------------------------------
(* The pending cache and the names seen.                                   *)

LEMMA SubSeqIsPool ==
    ASSUME NEW p, IsPool(p), NEW k \in 1..(Len(p) + 1)
    PROVE  LET q == SubSeq(p, k, Len(p))
           IN  IsPool(q) /\ Range(q) \subseteq Range(p) /\ Len(q) = Len(p) - k + 1
<1> DEFINE q == SubSeq(p, k, Len(p))
<1>1. p \in Seq(Txs) /\ Len(p) \in Nat /\ DOMAIN p = 1..Len(p) /\ k \in Nat /\ k >= 1 /\ k <= Len(p) + 1
    BY DEF IsPool
<1>2. /\ q \in Seq(Txs) /\ Len(q) = Len(p) - k + 1 /\ DOMAIN q = 1..(Len(p) - k + 1)
      /\ \A i \in 1..(Len(p) - k + 1) : q[i] = p[k + i - 1]
    BY <1>1
<1> HIDE DEF q
<1>3. \A i \in DOMAIN q : k + i - 1 \in DOMAIN p
    BY <1>1, <1>2
<1>4. Range(q) \subseteq Range(p)
    BY <1>2, <1>3 DEF Range
<1>5. IsInjective(q)
  <2>1. SUFFICES ASSUME NEW i \in DOMAIN q, NEW j \in DOMAIN q, q[i] = q[j] PROVE i = j
      BY DEF IsInjective
  <2>2. p[k + i - 1] = p[k + j - 1]
      BY <1>2, <2>1
  <2>3. k + i - 1 = k + j - 1
      BY <1>3, <2>2 DEF IsPool, IsInjective
  <2>4. QED
      BY <1>1, <1>2, <2>3
<1>6. QED
    BY <1>2, <1>4, <1>5 DEF IsPool, q

LEMMA CacheAddIs ==
    ASSUME NEW c, IsPool(c), Cost(Range(c)) <= MaxCacheCost, NEW t \in Txs
    PROVE  IsPool(CacheAdd(c, t)) /\ Cost(Range(CacheAdd(c, t))) <= MaxCacheCost
<1>1. CASE t \in Range(c)
    BY <1>1 DEF CacheAdd
<1>2. CASE t \notin Range(c)
  <2> DEFINE all == Append(c, t)
             rest(k) == SubSeq(all, k, Len(all))
             fit == {k \in 1..(Len(all) + 1) : Cost(Range(rest(k))) <= MaxCacheCost}
  <2>1. IsPool(all) /\ Len(all) \in Nat
      BY <1>2, AppendIsPool DEF IsPool
  <2> HIDE DEF all
  <2>2. Len(all) + 1 \in fit
    <3>1. Len(all) + 1 \in 1..(Len(all) + 1)
        BY <2>1
    <3>2. rest(Len(all) + 1) = <<>>
        BY <2>1 DEF IsPool
    <3>3. Range(<<>>) = {}
        BY DEF Range
    <3>4. Cost({}) <= MaxCacheCost
        BY CostOfNone, MempoolAssumption
    <3> HIDE DEF rest
    <3>5. QED
        BY <3>1, <3>2, <3>3, <3>4
  <2>3. Min(fit) \in fit
    <3>1. fit \subseteq Nat /\ fit # {}
        BY <2>1, <2>2
    <3> HIDE DEF fit
    <3>2. \E n \in fit : \A k \in fit : n <= k
        BY <3>1, LeastNumber
    <3>3. QED
        BY <3>2 DEF Min
  <2>4. IsPool(rest(Min(fit))) /\ Cost(Range(rest(Min(fit)))) <= MaxCacheCost
    <3>1. Min(fit) \in 1..(Len(all) + 1) /\ Cost(Range(rest(Min(fit)))) <= MaxCacheCost
        BY <2>3
    <3> HIDE DEF fit
    <3>2. QED
        BY <2>1, <3>1, SubSeqIsPool
  <2>5. CacheAdd(c, t) = rest(Min(fit))
      BY <1>2 DEF CacheAdd, all
  <2> HIDE DEF rest, fit
  <2>6. QED
      BY <2>4, <2>5
<1>3. QED
    BY <1>1, <1>2

LEMMA CacheAfterIs ==
    ASSUME NEW c, IsPool(c), Cost(Range(c)) <= MaxCacheCost, NEW t \in Txs, NEW p, NEW m, NEW b
    PROVE  /\ IsPool(CacheAfter(t, p, c, m, b))
           /\ Cost(Range(CacheAfter(t, p, c, m, b))) <= MaxCacheCost
    BY CacheAddIs DEF CacheAfter

LEMMA SeenAddIs ==
    ASSUME NEW s, IsPool(s), Len(s) <= SeenSize, NEW t \in Txs, t \notin Range(s)
    PROVE  /\ IsPool(SeenAdd(s, t)) /\ Len(SeenAdd(s, t)) <= SeenSize
           /\ Range(SeenAdd(s, t)) \subseteq Range(s) \cup {t}
<1> DEFINE all == Append(s, t)
<1>1. IsPool(all) /\ Len(all) \in Nat /\ Len(all) <= SeenSize + 1 /\ SeenSize \in Nat
      /\ Range(all) = Range(s) \cup {t}
    BY AppendIsPool, MempoolAssumption DEF IsPool
<1> HIDE DEF all
<1>2. CASE Len(all) > SeenSize
  <2>1. Len(all) - SeenSize + 1 \in 1..(Len(all) + 1) /\ Len(all) - (Len(all) - SeenSize + 1) + 1 = SeenSize
      BY <1>1, <1>2
  <2>2. SeenAdd(s, t) = SubSeq(all, Len(all) - SeenSize + 1, Len(all))
      BY <1>2 DEF SeenAdd, all
  <2>3. /\ IsPool(SeenAdd(s, t)) /\ Range(SeenAdd(s, t)) \subseteq Range(all)
        /\ Len(SeenAdd(s, t)) = Len(all) - (Len(all) - SeenSize + 1) + 1
      BY <1>1, <2>1, <2>2, SubSeqIsPool
  <2>4. QED
      BY <1>1, <2>1, <2>3
<1>3. CASE ~(Len(all) > SeenSize)
  <2>1. SeenAdd(s, t) = all
      BY <1>3 DEF SeenAdd, all
  <2>2. QED
      BY <1>1, <1>3, <2>1
<1>4. QED
    BY <1>2, <1>3

(* Names are taken out of seen_bundle_hashes.                              *)
LEMMA WithoutIsShorter ==
    ASSUME NEW s, IsPool(s), NEW S
    PROVE  Len(Without(s, S)) <= Len(s)
<1> DEFINE q == Without(s, S)
<1>1. IsPool(q) /\ Range(q) \subseteq Range(s)
    BY WithoutIsPool
<1>2. ASSUME NEW p, IsPool(p) PROVE Cardinality(Range(p)) = Len(p) /\ Len(p) \in Nat
  <2>1. p \in [1..Len(p) -> Txs] /\ Len(p) \in Nat
      BY <1>2 DEF IsPool
  <2>2. p \in Bijection(1..Len(p), Range(p))
      BY <1>2, <2>1 DEF Bijection, Injection, Surjection, Range, IsPool, IsInjective
  <2>3. IsFiniteSet(1..Len(p)) /\ Cardinality(1..Len(p)) = Len(p)
    <3>1. /\ IsFiniteSet(1..Len(p))
          /\ Cardinality(1..Len(p)) = IF 1 > Len(p) THEN 0 ELSE Len(p) - 1 + 1
        BY <2>1, FS_Interval
    <3>2. QED
        BY <2>1, <3>1
  <2>4. QED
      BY <2>1, <2>2, <2>3, FS_Bijection DEF ExistsBijection
<1> HIDE DEF q
<1>3. Cardinality(Range(q)) <= Cardinality(Range(s))
    BY <1>1, PoolIsFinite, FS_Subset
<1>4. QED
    BY <1>1, <1>2, <1>3 DEF q
--------------------------------------------------------------------------------
(* The invariant.                                                          *)

Jobs == [phase : Phases, todo : Seq(Txs), added : Seq(Txs)]

PoolOk(p, c, s) ==
    /\ IsPool(p) /\ AllDisjoint(p) /\ Fits(p)
    /\ IsPool(c) /\ Cost(Range(c)) <= MaxCacheCost
    /\ IsPool(s) /\ Len(s) <= SeenSize

(* A rebuild has something left to do, and only a drain adds.              *)
JobOk(j) ==
    /\ j \in Jobs
    /\ j.phase = "rebuild" => j.todo # <<>>
    /\ j.phase # "drain" => j.added = <<>>

(* SeenIsExplained and AddedUnlessOvertaken, of the values the variables   *)
(* get.                                                                    *)
HeldIn(p, j) == Range(p) \cup (IF j.phase = "rebuild" THEN Range(j.todo) ELSE {})

Explained(s, p, j, f, l) == Range(s) \subseteq HeldIn(p, j) \cup {t \in Txs : f[t] > 0} \cup l

AddedOk(p, j) ==
    \A i \in DOMAIN j.added :
        \/ j.added[i] \in Range(p)
        \/ \E k \in i + 1 .. Len(j.added) :
             \/ Removals(j.added[i]) \cap Removals(j.added[k]) # {}
             \/ CheaperPerCost({j.added[i]}, {j.added[k]})

Inv ==
    /\ PoolOk(pool, cache, seen)
    /\ JobOk(job)
    /\ flight \in [Txs -> Nat]
    /\ Explained(seen, pool, job, flight, leftBehind)
    /\ AddedOk(pool, job)

LEMMA IdleIs == /\ Idle \in Jobs /\ Idle.phase = "idle" /\ Idle.added = <<>> /\ Idle.todo = <<>>
                /\ JobOk(Idle) /\ \A p : AddedOk(p, Idle)
<1>1. Idle \in Jobs /\ Idle.phase = "idle" /\ Idle.added = <<>> /\ Idle.todo = <<>>
    BY DEF Idle, Jobs, Phases
<1>2. QED
    BY <1>1 DEF JobOk, AddedOk

LEMMA EmptyIsPool == /\ IsPool(<<>>) /\ Range(<<>>) = {} /\ AllDisjoint(<<>>) /\ Fits(<<>>)
                     /\ Cost(Range(<<>>)) <= MaxCacheCost
<1>1. IsPool(<<>>) /\ Range(<<>>) = {}
    BY DEF IsPool, IsInjective, Range
<1>2. Cost(Range(<<>>)) = 0
    BY <1>1, CostOfNone
<1>3. QED
    BY <1>1, <1>2, MempoolAssumption DEF AllDisjoint, Fits

LEMMA InitInv == Init => Inv
<1> SUFFICES ASSUME Init PROVE Inv
    OBVIOUS
<1>1. PoolOk(pool, cache, seen)
    BY EmptyIsPool, MempoolAssumption DEF Init, PoolOk
<1>2. flight \in [Txs -> Nat]
    BY DEF Init
<1>3. JobOk(job) /\ AddedOk(pool, job)
    BY IdleIs DEF Init
<1>4. Explained(seen, pool, job, flight, leftBehind)
    BY EmptyIsPool DEF Init, Explained
<1>5. QED
    BY <1>1, <1>2, <1>3, <1>4 DEF Inv

(* Items that leave the pool as such disturb nothing else.                 *)
LEMMA FewerItems ==
    ASSUME NEW p, IsPool(p), AllDisjoint(p), Fits(p), NEW S
    PROVE  LET q == Without(p, S)
           IN  IsPool(q) /\ AllDisjoint(q) /\ Fits(q) /\ Range(q) = Range(p) \ S
<1> DEFINE q == Without(p, S)
<1>1. IsPool(q) /\ Range(q) = Range(p) \ S
    BY WithoutIsPool
<1> HIDE DEF q
<1>2. Range(q) \in SUBSET Range(p)
    BY <1>1
<1>3. Cost(Range(q)) <= Cost(Range(p)) /\ Cost(Range(q)) \in Nat /\ Cost(Range(p)) \in Nat
    BY <1>2, PoolIsFinite, CostOfFewer
<1>4. QED
    BY <1>1, <1>2, <1>3, MempoolAssumption DEF AllDisjoint, Fits, q

LEMMA FewerSeen ==
    ASSUME NEW s, IsPool(s), Len(s) <= SeenSize, NEW S
    PROVE  /\ IsPool(Without(s, S)) /\ Len(Without(s, S)) <= SeenSize
           /\ Range(Without(s, S)) = Range(s) \ S
<1>1. IsPool(Without(s, S)) /\ Range(Without(s, S)) = Range(s) \ S /\ Len(Without(s, S)) <= Len(s)
    BY WithoutIsPool, WithoutIsShorter
<1>2. Len(Without(s, S)) \in Nat /\ Len(s) \in Nat /\ SeenSize \in Nat
    BY <1>1, MempoolAssumption DEF IsPool
<1>3. QED
    BY <1>1, <1>2

LEMMA ExplainedIs ==
    ASSUME NEW s, NEW p, NEW j, NEW f, NEW l
    PROVE  Explained(s, p, j, f, l) <=>
             \A u \in Range(s) : u \in HeldIn(p, j) \/ (u \in Txs /\ f[u] > 0) \/ u \in l
    BY DEF Explained

(* A name that is not held or in validation is among those left behind.    *)
LEMMA LeaveBehindExplains ==
    ASSUME NEW S, LeaveBehind(S),
           \A t \in Range(seen') : \/ t \in HeldIn(pool', job')
                                   \/ (t \in Txs /\ flight'[t] > 0)
                                   \/ t \in leftBehind \cup S
    PROVE  Explained(seen', pool', job', flight', leftBehind')
    BY DEF LeaveBehind, Explained, HeldIn

LEMMA RespondTransactionInv ==
    ASSUME Inv, NEW t \in Txs, RespondTransaction(t)
    PROVE  Inv'
<1>1. pool' = pool /\ cache' = cache /\ job' = job /\ LeaveBehind({})
    BY DEF RespondTransaction
<1>2. /\ IsPool(seen') /\ Len(seen') <= SeenSize /\ flight' \in [Txs -> Nat]
      /\ \A u \in Range(seen') : (u \in Range(seen) /\ flight'[u] = flight[u]) \/ (u = t /\ flight'[t] > 0)
  <2>0. IsPool(seen) /\ Len(seen) <= SeenSize /\ flight \in [Txs -> Nat]
      BY DEF Inv, PoolOk
  <2>1. CASE t \in Range(pool)
    <3>1. seen' = Without(seen, {t}) /\ flight' = flight
        BY <2>1 DEF RespondTransaction
    <3>2. IsPool(seen') /\ Len(seen') <= SeenSize /\ Range(seen') = Range(seen) \ {t}
        BY <2>0, <3>1, FewerSeen
    <3>3. QED
        BY <2>0, <3>1, <3>2
  <2>2. CASE t \notin Range(pool)
    <3>1. t \notin Range(seen) /\ seen' = SeenAdd(seen, t) /\ flight' = [flight EXCEPT ![t] = @ + 1]
        BY <2>2 DEF RespondTransaction
    <3>2. /\ IsPool(seen') /\ Len(seen') <= SeenSize /\ Range(seen') \subseteq Range(seen) \cup {t}
        BY <2>0, <3>1, SeenAddIs
    <3>3. flight' \in [Txs -> Nat] /\ flight'[t] > 0 /\ \A u \in Txs : u # t => flight'[u] = flight[u]
        BY <2>0, <3>1
    <3>4. Range(seen) \subseteq Txs
        BY <2>0, PoolIsFinite
    <3>5. QED
        BY <3>2, <3>3, <3>4
  <2>3. QED
      BY <2>1, <2>2
<1>3. Explained(seen', pool', job', flight', leftBehind')
  <2>1. \A u \in Range(seen) : u \in HeldIn(pool', job') \/ (u \in Txs /\ flight[u] > 0) \/ u \in leftBehind
      BY <1>1, ExplainedIs DEF Inv
  <2>2. QED
      BY <1>1, <1>2, <2>1, LeaveBehindExplains
<1>4. QED
    BY <1>1, <1>2, <1>3 DEF Inv, PoolOk

LEMMA PreValidateFailsInv ==
    ASSUME Inv, NEW t \in Txs, PreValidateFails(t)
    PROVE  Inv'
<1>1. /\ pool' = pool /\ cache' = cache /\ job' = job /\ LeaveBehind({})
      /\ seen' = Without(seen, {t}) /\ flight[t] > 0 /\ flight' = [flight EXCEPT ![t] = @ - 1]
    BY DEF PreValidateFails
<1>2. flight' \in [Txs -> Nat] /\ \A u \in Txs : u # t => flight'[u] = flight[u]
    BY <1>1 DEF Inv
<1>3. IsPool(seen') /\ Len(seen') <= SeenSize /\ Range(seen') = Range(seen) \ {t}
    BY <1>1, FewerSeen DEF Inv, PoolOk
<1>4. Explained(seen', pool', job', flight', leftBehind')
  <2>1. \A u \in Range(seen) : u \in HeldIn(pool', job') \/ (u \in Txs /\ flight[u] > 0) \/ u \in leftBehind
      BY <1>1, ExplainedIs DEF Inv
  <2>2. QED
      BY <1>1, <1>2, <1>3, <2>1, LeaveBehindExplains
<1>5. QED
    BY <1>1, <1>2, <1>3, <1>4 DEF Inv, PoolOk

LEMMA AddTransactionInv ==
    ASSUME Inv, NEW t \in Txs, AddTransaction(t)
    PROVE  Inv'
<1>1. job = Idle /\ job' = job /\ flight[t] > 0 /\ flight' = [flight EXCEPT ![t] = @ - 1]
    BY DEF AddTransaction
<1>2. flight' \in [Txs -> Nat] /\ \A u \in Txs : u # t => flight'[u] = flight[u]
    BY <1>1 DEF Inv
<1>3. /\ HeldIn(pool, job) = Range(pool) /\ HeldIn(pool', job') = Range(pool')
      /\ JobOk(job') /\ AddedOk(pool', job')
    BY <1>1, IdleIs DEF HeldIn
<1>4. \A u \in Range(seen) : u \in Range(pool) \/ (u \in Txs /\ flight[u] > 0) \/ u \in leftBehind
    BY <1>3, ExplainedIs DEF Inv
<1>5. CASE t \in Range(pool)
  <2>1. pool' = pool /\ cache' = cache /\ seen' = Without(seen, {t}) /\ LeaveBehind({})
      BY <1>5 DEF AddTransaction
  <2>2. IsPool(seen') /\ Len(seen') <= SeenSize /\ Range(seen') = Range(seen) \ {t}
      BY <2>1, FewerSeen DEF Inv, PoolOk
  <2>3. Explained(seen', pool', job', flight', leftBehind')
      BY <1>2, <1>3, <1>4, <2>1, <2>2, LeaveBehindExplains
  <2>4. QED
      BY <1>2, <1>3, <2>1, <2>2, <2>3 DEF Inv, PoolOk
<1>6. CASE t \notin Range(pool)
  <2>1. /\ pool' = PoolAfter(t, pool, peakOfPool, peak)
        /\ LeaveBehind(Range(pool) \ Range(pool'))
        /\ cache' = CacheAfter(t, pool, cache, peakOfPool, peak)
        /\ seen' = IF Status(t, pool, peakOfPool, peak) = "SUCCESS" THEN seen ELSE Without(seen, {t})
      BY <1>6 DEF AddTransaction, AddSpendBundle
  <2>2. /\ IsPool(pool') /\ AllDisjoint(pool') /\ Fits(pool')
        /\ Status(t, pool, peakOfPool, peak) = "SUCCESS" => t \in Range(pool')
      BY <2>1, PoolAfterIs DEF Inv, PoolOk
  <2>3. IsPool(cache') /\ Cost(Range(cache')) <= MaxCacheCost
      BY <2>1, CacheAfterIs DEF Inv, PoolOk
  <2>4. /\ IsPool(seen') /\ Len(seen') <= SeenSize
        /\ Range(seen') \subseteq Range(seen) /\ (t \in Range(seen') => t \in Range(pool'))
      BY <2>1, <2>2, FewerSeen DEF Inv, PoolOk
  <2>5. Explained(seen', pool', job', flight', leftBehind')
    <3>1. \A u \in Range(seen') : u \in Range(pool') \/ (u \in Txs /\ flight'[u] > 0)
                                  \/ u \in leftBehind \cup (Range(pool) \ Range(pool'))
      <4>1. TAKE u \in Range(seen')
      <4>2. u \in Range(seen) /\ (u = t => u \in Range(pool'))
          BY <2>4
      <4>3. QED
          BY <1>2, <1>4, <4>2
    <3>2. QED
        BY <1>3, <2>1, <3>1, LeaveBehindExplains
  <2>6. QED
      BY <1>2, <1>3, <2>2, <2>3, <2>4, <2>5 DEF Inv, PoolOk
<1>7. QED
    BY <1>5, <1>6

(* The shapes of a job.                                                    *)
LEMMA DrainIs ==
    ASSUME NEW c, IsPool(c)
    PROVE  LET j == [phase |-> "drain", todo |-> c, added |-> <<>>]
           IN  JobOk(j) /\ \A p : AddedOk(p, j) /\ HeldIn(p, j) = Range(p)
<1> DEFINE j == [phase |-> "drain", todo |-> c, added |-> <<>>]
<1>1. j \in Jobs /\ j.phase = "drain" /\ j.added = <<>>
    BY DEF IsPool, Jobs, Phases
<1> HIDE DEF j
<1>2. QED
    BY <1>1 DEF JobOk, AddedOk, HeldIn, j

LEMMA RebuildIs ==
    ASSUME NEW c, IsPool(c), c # <<>>
    PROVE  LET j == [phase |-> "rebuild", todo |-> c, added |-> <<>>]
           IN  JobOk(j) /\ \A p : AddedOk(p, j) /\ HeldIn(p, j) = Range(p) \cup Range(c)
<1> DEFINE j == [phase |-> "rebuild", todo |-> c, added |-> <<>>]
<1>1. j \in Jobs /\ j.phase = "rebuild" /\ j.added = <<>> /\ j.todo = c
    BY DEF IsPool, Jobs, Phases
<1> HIDE DEF j
<1>2. QED
    BY <1>1 DEF JobOk, AddedOk, HeldIn, j

LEMMA HeadAndTail ==
    ASSUME NEW s \in Seq(Txs), s # <<>>
    PROVE  /\ Head(s) \in Txs /\ Tail(s) \in Seq(Txs)
           /\ \A u \in Range(s) : u = Head(s) \/ u \in Range(Tail(s))
           /\ Len(s) = 1 => Range(Tail(s)) = {}
           /\ Len(s) # 1 => Tail(s) # <<>>
<1>1. Len(s) \in Nat /\ Len(s) # 0 /\ DOMAIN s = 1..Len(s)
    BY SMT
<1>2. Head(s) = s[1] /\ Head(s) \in Txs /\ Tail(s) \in Seq(Txs) /\ Len(Tail(s)) = Len(s) - 1
      /\ DOMAIN Tail(s) = 1..(Len(s) - 1) /\ \A i \in 1..(Len(s) - 1) : Tail(s)[i] = s[i + 1]
    BY <1>1
<1> DEFINE q == Tail(s)
<1> HIDE DEF q
<1>3. ASSUME NEW u \in Range(s) PROVE u = s[1] \/ u \in Range(q)
  <2>1. PICK i \in 1..Len(s) : s[i] = u
      BY <1>1, <1>3 DEF Range
  <2>2. CASE i = 1
      BY <2>1, <2>2
  <2>3. CASE i # 1
    <3>1. i - 1 \in 1..(Len(s) - 1) /\ (i - 1) + 1 = i
        BY <1>1, <2>3
    <3>2. q[i - 1] = u /\ i - 1 \in DOMAIN q
        BY <1>2, <2>1, <3>1 DEF q
    <3>3. QED
        BY <3>2 DEF Range
  <2>4. QED
      BY <2>2, <2>3
<1>4. Len(s) = 1 => Range(q) = {}
    BY <1>1, <1>2 DEF q, Range
<1>5. Len(s) # 1 => q # <<>>
  <2>1. Len(q) = Len(s) - 1
      BY <1>2 DEF q
  <2>2. Len(<<>>) = 0
      OBVIOUS
  <2>3. QED
      BY <1>1, <2>1, <2>2
<1>6. QED
    BY <1>2, <1>3, <1>4, <1>5 DEF q

(* MempoolManager.new_peak up to its first await.                          *)
LEMMA NewPeakInv ==
    ASSUME Inv, job = Idle, NEW b, NEW npc, NewPeak(b, npc), flight' = flight, LeaveBehind({})
    PROVE  Inv'
<1>1. /\ IsPool(pool) /\ AllDisjoint(pool) /\ Fits(pool)
      /\ IsPool(cache) /\ Cost(Range(cache)) <= MaxCacheCost
      /\ IsPool(seen) /\ Len(seen) <= SeenSize /\ flight' \in [Txs -> Nat]
    BY DEF Inv, PoolOk
<1>2. \A u \in Range(seen) : u \in Range(pool) \/ (u \in Txs /\ flight'[u] > 0) \/ u \in leftBehind
  <2>1. HeldIn(pool, job) = Range(pool)
      BY IdleIs DEF HeldIn
  <2>2. QED
      BY <2>1, ExplainedIs DEF Inv
<1>3. CASE Ignores(b)
  <2>1. pool' = pool /\ cache' = cache /\ seen' = seen /\ job' = job
      BY <1>3 DEF NewPeak
  <2>2. HeldIn(pool', job') = Range(pool)
      BY <2>1, IdleIs DEF HeldIn
  <2>3. Explained(seen', pool', job', flight', leftBehind')
      BY <1>2, <2>1, <2>2, LeaveBehindExplains
  <2>4. QED
      BY <1>1, <2>1, <2>3 DEF Inv, PoolOk
<1>4. CASE ~Ignores(b) /\ UsesOptimization(b, npc)
  <2> DEFINE kicked == {t \in Range(pool) : Removals(t) \cap Block[npc].removals # {}}
  <2>1. /\ pool' = Without(pool, kicked) /\ seen' = Without(seen, kicked) /\ cache' = <<>>
        /\ job' = [phase |-> "drain", todo |-> cache, added |-> <<>>]
      BY <1>4 DEF NewPeak, KickSpent
  <2> HIDE DEF kicked
  <2>2. IsPool(pool') /\ AllDisjoint(pool') /\ Fits(pool') /\ Range(pool') = Range(pool) \ kicked
      BY <1>1, <2>1, FewerItems
  <2>3. IsPool(seen') /\ Len(seen') <= SeenSize /\ Range(seen') = Range(seen) \ kicked
      BY <1>1, <2>1, FewerSeen
  <2>4. JobOk(job') /\ AddedOk(pool', job') /\ HeldIn(pool', job') = Range(pool')
      BY <1>1, <2>1, DrainIs
  <2>5. Explained(seen', pool', job', flight', leftBehind')
    <3>1. \A u \in Range(seen') : u \in HeldIn(pool', job') \/ (u \in Txs /\ flight'[u] > 0) \/ u \in leftBehind
        BY <1>2, <2>2, <2>3, <2>4
    <3>2. QED
        BY <3>1, LeaveBehindExplains
  <2>6. IsPool(cache') /\ Cost(Range(cache')) <= MaxCacheCost
      BY <2>1, EmptyIsPool
  <2>7. QED
      BY <1>1, <2>2, <2>3, <2>4, <2>5, <2>6 DEF Inv, PoolOk
<1>5. CASE ~Ignores(b) /\ ~UsesOptimization(b, npc)
  <2>1. pool' = <<>> /\ seen' = seen
      BY <1>5 DEF NewPeak, StartRebuild
  <2>2. IsPool(pool') /\ AllDisjoint(pool') /\ Fits(pool') /\ Range(pool') = {}
      BY <2>1, EmptyIsPool
  <2>3. /\ JobOk(job') /\ AddedOk(pool', job') /\ Range(pool) \subseteq HeldIn(pool', job')
        /\ IsPool(cache') /\ Cost(Range(cache')) <= MaxCacheCost
    <3>1. CASE pool = <<>>
      <4>1. cache' = <<>> /\ job' = [phase |-> "drain", todo |-> cache, added |-> <<>>]
          BY <1>5, <3>1 DEF NewPeak, StartRebuild
      <4>2. Range(pool) = {} /\ IsPool(cache') /\ Cost(Range(cache')) <= MaxCacheCost
          BY <3>1, <4>1, EmptyIsPool
      <4>3. JobOk(job') /\ AddedOk(pool', job')
          BY <1>1, <4>1, DrainIs
      <4>4. QED
          BY <4>2, <4>3
    <3>2. CASE pool # <<>>
      <4>1. cache' = cache /\ job' = [phase |-> "rebuild", todo |-> pool, added |-> <<>>]
          BY <1>5, <3>2 DEF NewPeak, StartRebuild
      <4>2. JobOk(job') /\ AddedOk(pool', job') /\ HeldIn(pool', job') = Range(pool') \cup Range(pool)
          BY <1>1, <3>2, <4>1, RebuildIs
      <4>3. QED
          BY <1>1, <4>1, <4>2
    <3>3. QED
        BY <3>1, <3>2
  <2>4. Explained(seen', pool', job', flight', leftBehind')
    <3>1. \A u \in Range(seen') : u \in HeldIn(pool', job') \/ (u \in Txs /\ flight'[u] > 0) \/ u \in leftBehind
        BY <1>2, <2>1, <2>3
    <3>2. QED
        BY <3>1, LeaveBehindExplains
  <2>5. QED
      BY <1>1, <2>1, <2>2, <2>3, <2>4 DEF Inv, PoolOk
<1>6. QED
    BY <1>3, <1>4, <1>5

(* What add_spendbundle(t) leaves explained, whoever calls it: the name of *)
(* an item that it pushes out stays behind.                                *)
LEMMA AddExplains ==
    ASSUME Inv, NEW t \in Txs, AddSpendBundle(t), flight' = flight,
           Range(seen') \subseteq Range(seen),
           \A u \in Range(seen') \cap (HeldIn(pool, job) \ Range(pool)) : u \in HeldIn(pool', job')
    PROVE  Explained(seen', pool', job', flight', leftBehind')
<1>1. \A u \in Range(seen) : u \in HeldIn(pool, job) \/ (u \in Txs /\ flight[u] > 0) \/ u \in leftBehind
    BY ExplainedIs DEF Inv
<1>2. Range(pool') \subseteq HeldIn(pool', job')
    BY DEF HeldIn
<1>3. \A u \in Range(seen') : \/ u \in HeldIn(pool', job') \/ (u \in Txs /\ flight'[u] > 0)
                              \/ u \in leftBehind \cup (Range(pool) \ Range(pool'))
    BY <1>1, <1>2
<1>4. LeaveBehind(Range(pool) \ Range(pool'))
    BY DEF AddSpendBundle
<1>5. QED
    BY <1>3, <1>4, LeaveBehindExplains

LEMMA ReaddInv ==
    ASSUME Inv, Readd
    PROVE  Inv'
<1> DEFINE t == Head(job.todo)
           pending == CacheAfter(t, pool, cache, peakOfPool, peak)
<1>1. /\ IsPool(pool) /\ AllDisjoint(pool) /\ Fits(pool)
      /\ IsPool(cache) /\ Cost(Range(cache)) <= MaxCacheCost
      /\ IsPool(seen) /\ Len(seen) <= SeenSize /\ flight \in [Txs -> Nat]
      /\ job \in Jobs /\ job.added = <<>> /\ job.phase = "rebuild" /\ job.todo # <<>>
    BY DEF Inv, PoolOk, JobOk, Readd
<1>2. job.todo \in Seq(Txs)
    BY <1>1 DEF Jobs
<1>3. /\ t \in Txs /\ Tail(job.todo) \in Seq(Txs)
      /\ \A u \in Range(job.todo) : u = t \/ u \in Range(Tail(job.todo))
      /\ Len(job.todo) = 1 => Range(Tail(job.todo)) = {}
      /\ Len(job.todo) # 1 => Tail(job.todo) # <<>>
    BY <1>1, <1>2, HeadAndTail
<1>4. /\ seen' = IF Status(t, pool, peakOfPool, peak) = "SUCCESS" THEN seen ELSE Without(seen, {t})
      /\ AddSpendBundle(t) /\ flight' = flight
      /\ pool' = PoolAfter(t, pool, peakOfPool, peak)
    BY DEF Readd, AddSpendBundle
<1>5. IF Len(job.todo) = 1
      THEN job' = [phase |-> "drain", todo |-> pending, added |-> <<>>] /\ cache' = <<>>
      ELSE job' = [job EXCEPT !.todo = Tail(@)] /\ cache' = pending
    BY DEF Readd
<1> HIDE DEF t
<1>6. IsPool(pending) /\ Cost(Range(pending)) <= MaxCacheCost
    BY <1>1, <1>3, CacheAfterIs
<1> HIDE DEF pending
<1>7. /\ IsPool(pool') /\ AllDisjoint(pool') /\ Fits(pool')
      /\ Status(t, pool, peakOfPool, peak) = "SUCCESS" => t \in Range(pool')
    BY <1>1, <1>3, <1>4, PoolAfterIs
<1>8. /\ IsPool(seen') /\ Len(seen') <= SeenSize
      /\ Range(seen') \subseteq Range(seen) /\ (t \in Range(seen') => t \in Range(pool'))
    BY <1>1, <1>4, <1>7, FewerSeen
<1>9. HeldIn(pool, job) = Range(pool) \cup Range(job.todo) /\ Range(pool') \subseteq HeldIn(pool', job')
    BY <1>1 DEF HeldIn
<1>10. CASE Len(job.todo) = 1
  <2>1. JobOk(job') /\ AddedOk(pool', job')
      BY <1>5, <1>6, <1>10, DrainIs
  <2>2. Explained(seen', pool', job', flight', leftBehind')
      BY <1>3, <1>4, <1>8, <1>9, <1>10, AddExplains
  <2>3. IsPool(cache') /\ Cost(Range(cache')) <= MaxCacheCost
      BY <1>5, <1>10, EmptyIsPool
  <2>4. QED
      BY <1>1, <1>4, <1>7, <1>8, <2>1, <2>2, <2>3 DEF Inv, PoolOk
<1>11. CASE Len(job.todo) # 1
  <2>1. /\ job' \in Jobs /\ job'.phase = "rebuild" /\ job'.added = <<>> /\ job'.todo = Tail(job.todo)
      BY <1>1, <1>3, <1>5, <1>11 DEF Jobs
  <2>2. JobOk(job') /\ AddedOk(pool', job')
      BY <1>3, <1>11, <2>1 DEF JobOk, AddedOk
  <2>3. Explained(seen', pool', job', flight', leftBehind')
    <3>1. Range(Tail(job.todo)) \subseteq HeldIn(pool', job')
        BY <2>1 DEF HeldIn
    <3>2. QED
        BY <1>3, <1>4, <1>8, <1>9, <3>1, AddExplains
  <2>4. IsPool(cache') /\ Cost(Range(cache')) <= MaxCacheCost
      BY <1>5, <1>6, <1>11
  <2>5. QED
      BY <1>1, <1>4, <1>7, <1>8, <2>2, <2>3, <2>4 DEF Inv, PoolOk
<1>12. QED
    BY <1>10, <1>11

(* The list of what was added: an item that is pushed out gives way to the *)
(* one that is appended.                                                   *)
LEMMA AppendAdded ==
    ASSUME NEW a \in Seq(Txs), NEW p, NEW q, NEW t \in Txs, NEW j, NEW k,
           j.added = a, AddedOk(p, j), k.added = Append(a, t), t \in Range(q),
           \A u \in Range(p) \ Range(q) :
               Removals(u) \cap Removals(t) # {} \/ CheaperPerCost({u}, {t})
    PROVE  AddedOk(q, k)
<1> DEFINE b == Append(a, t)
<1>1. /\ Len(a) \in Nat /\ DOMAIN a = 1..Len(a) /\ Len(b) = Len(a) + 1 /\ DOMAIN b = 1..(Len(a) + 1)
      /\ b[Len(a) + 1] = t /\ \A i \in 1..Len(a) : b[i] = a[i]
    BY SMT
<1> HIDE DEF b
<1>2. ASSUME NEW i \in DOMAIN b
      PROVE  \/ b[i] \in Range(q)
             \/ \E n \in i + 1 .. Len(b) : \/ Removals(b[i]) \cap Removals(b[n]) # {}
                                           \/ CheaperPerCost({b[i]}, {b[n]})
  <2>1. CASE i = Len(a) + 1
      BY <1>1, <2>1
  <2>2. CASE i # Len(a) + 1
    <3>1. i \in 1..Len(a) /\ i \in DOMAIN a /\ i \in Nat /\ b[i] = a[i]
        BY <1>1, <2>2
    <3>2. \/ a[i] \in Range(p)
          \/ \E n \in i + 1 .. Len(a) : \/ Removals(a[i]) \cap Removals(a[n]) # {}
                                        \/ CheaperPerCost({a[i]}, {a[n]})
        BY <3>1 DEF AddedOk
    <3>3. CASE a[i] \in Range(p) /\ a[i] \notin Range(q)
      <4>1. Removals(b[i]) \cap Removals(b[Len(a) + 1]) # {} \/ CheaperPerCost({b[i]}, {b[Len(a) + 1]})
          BY <1>1, <3>1, <3>3
      <4>2. Len(a) + 1 \in i + 1 .. Len(b)
          BY <1>1, <3>1
      <4>3. QED
          BY <4>1, <4>2
    <3>4. CASE \E n \in i + 1 .. Len(a) : \/ Removals(a[i]) \cap Removals(a[n]) # {}
                                          \/ CheaperPerCost({a[i]}, {a[n]})
      <4>1. PICK n \in i + 1 .. Len(a) : \/ Removals(a[i]) \cap Removals(a[n]) # {}
                                         \/ CheaperPerCost({a[i]}, {a[n]})
          BY <3>4
      <4>2. n \in 1..Len(a) /\ n \in i + 1 .. Len(b)
          BY <1>1, <3>1
      <4>3. b[n] = a[n]
          BY <1>1, <4>2
      <4>4. QED
          BY <3>1, <4>1, <4>2, <4>3
    <3>5. QED
        BY <3>1, <3>2, <3>3, <3>4
  <2>3. QED
      BY <2>1, <2>2
<1>3. QED
    BY <1>2 DEF AddedOk, b

LEMMA RetryInv ==
    ASSUME Inv, Retry
    PROVE  Inv'
<1> DEFINE t == Head(job.todo)
           success == Status(t, pool, peakOfPool, peak) = "SUCCESS"
<1>1. /\ IsPool(pool) /\ AllDisjoint(pool) /\ Fits(pool)
      /\ IsPool(cache) /\ Cost(Range(cache)) <= MaxCacheCost
      /\ IsPool(seen) /\ Len(seen) <= SeenSize /\ flight \in [Txs -> Nat]
      /\ job \in Jobs /\ job.phase = "drain" /\ job.todo # <<>> /\ AddedOk(pool, job)
    BY DEF Inv, PoolOk, JobOk, Retry
<1>2. job.todo \in Seq(Txs) /\ job.added \in Seq(Txs)
    BY <1>1 DEF Jobs
<1>3. t \in Txs /\ Tail(job.todo) \in Seq(Txs)
    BY <1>1, <1>2, HeadAndTail
<1>4. /\ seen' = seen /\ AddSpendBundle(t) /\ flight' = flight
      /\ pool' = PoolAfter(t, pool, peakOfPool, peak)
      /\ cache' = CacheAfter(t, pool, cache, peakOfPool, peak)
      /\ job' = [job EXCEPT !.todo = Tail(@), !.added = IF success THEN Append(@, t) ELSE @]
    BY DEF Retry, AddSpendBundle
<1> HIDE DEF t
<1>5. IsPool(cache') /\ Cost(Range(cache')) <= MaxCacheCost
    BY <1>1, <1>3, <1>4, CacheAfterIs
<1>6. /\ IsPool(pool') /\ AllDisjoint(pool') /\ Fits(pool')
      /\ success => t \in Range(pool')
      /\ ~success => pool' = pool
      /\ \A u \in Range(pool) \ Range(pool') : GivesWay(u, t, pool)
    BY <1>1, <1>3, <1>4, PoolAfterIs
<1> HIDE DEF success
<1>7. /\ job' \in Jobs /\ job'.phase = "drain"
      /\ job'.added = IF success THEN Append(job.added, t) ELSE job.added
  <2> DEFINE more == IF success THEN Append(job.added, t) ELSE job.added
             less == Tail(job.todo)
  <2>1. more \in Seq(Txs) /\ less \in Seq(Txs)
      BY <1>2, <1>3
  <2>2. job' = [job EXCEPT !.todo = less, !.added = more]
      BY <1>4
  <2> HIDE DEF more, less
  <2>3. job' \in Jobs /\ job'.phase = "drain" /\ job'.added = more
      BY <1>1, <2>1, <2>2 DEF Jobs
  <2>4. QED
      BY <2>3 DEF more
<1>8. JobOk(job')
    BY <1>7 DEF JobOk
<1>9. AddedOk(pool', job')
  <2>1. CASE success
    <3>1. \A u \in Range(pool) \ Range(pool') :
              Removals(u) \cap Removals(t) # {} \/ CheaperPerCost({u}, {t})
        BY <1>6 DEF GivesWay
    <3>2. QED
        BY <1>1, <1>2, <1>3, <1>6, <1>7, <2>1, <3>1, AppendAdded
  <2>2. CASE ~success
      BY <1>1, <1>6, <1>7, <2>2 DEF AddedOk
  <2>3. QED
      BY <2>1, <2>2
<1>10. Explained(seen', pool', job', flight', leftBehind')
  <2>1. HeldIn(pool, job) = Range(pool)
      BY <1>1 DEF HeldIn
  <2>2. QED
      BY <1>3, <1>4, <2>1, AddExplains
<1>11. QED
    BY <1>1, <1>4, <1>5, <1>6, <1>8, <1>9, <1>10 DEF Inv, PoolOk

LEMMA EndPeakInv ==
    ASSUME Inv, EndPeak
    PROVE  Inv'
<1>1. /\ job' = Idle /\ pool' = pool /\ cache' = cache /\ seen' = seen /\ flight' = flight
      /\ leftBehind' = leftBehind /\ job.phase = "drain"
    BY DEF EndPeak
<1>2. HeldIn(pool', job') = HeldIn(pool, job)
    BY <1>1, IdleIs DEF HeldIn
<1>3. Explained(seen', pool', job', flight', leftBehind')
    BY <1>1, <1>2 DEF Inv, Explained
<1>4. JobOk(job') /\ AddedOk(pool', job')
    BY <1>1, IdleIs
<1>5. QED
    BY <1>1, <1>3, <1>4 DEF Inv

(* The names of the items a cancelled rebuild drops stay behind.           *)
LEMMA CancelRespondBlockInv ==
    ASSUME Inv, CancelRespondBlock
    PROVE  Inv'
<1> DEFINE S == IF job.phase = "rebuild" THEN Range(job.todo) ELSE {}
<1>1. /\ job' = Idle /\ pool' = pool /\ cache' = cache /\ seen' = seen /\ flight' = flight
      /\ LeaveBehind(S)
    BY DEF CancelRespondBlock
<1>2. HeldIn(pool, job) = Range(pool) \cup S /\ HeldIn(pool', job') = Range(pool)
    BY <1>1, IdleIs DEF HeldIn
<1> HIDE DEF S
<1>3. Explained(seen', pool', job', flight', leftBehind')
  <2>1. \A u \in Range(seen) : u \in HeldIn(pool, job) \/ (u \in Txs /\ flight[u] > 0) \/ u \in leftBehind
      BY ExplainedIs DEF Inv
  <2>2. QED
      BY <1>1, <1>2, <2>1, LeaveBehindExplains
<1>4. JobOk(job') /\ AddedOk(pool', job')
    BY <1>1, IdleIs
<1>5. QED
    BY <1>1, <1>3, <1>4 DEF Inv

LEMMA NextInv ==
    ASSUME Inv, [Next]_vars
    PROVE  Inv'
<1>1. CASE UNCHANGED vars
    BY <1>1 DEF Inv, vars
<1>2. ASSUME NEW t \in Txs, RespondTransaction(t) \/ PreValidateFails(t) \/ AddTransaction(t)
      PROVE  Inv'
    BY <1>2, RespondTransactionInv, PreValidateFailsInv, AddTransactionInv
<1>3. ASSUME NEW b \in Blocks, RespondBlock(b) PROVE Inv'
  <2>1. /\ job = Idle /\ NewPeak(b, LastGenerator(peak, b)) /\ flight' = flight /\ LeaveBehind({})
      BY <1>3 DEF RespondBlock
  <2>2. QED
      BY <2>1, NewPeakInv
<1>4. ASSUME NEW b \in Blocks, LongSync(b) PROVE Inv'
    BY <1>4 DEF LongSync, Inv
<1>5. CASE FinishSync
  <2>1. /\ job = Idle /\ NewPeak(peak, None) /\ flight' = flight /\ LeaveBehind({})
      BY <1>5 DEF FinishSync
  <2>2. QED
      BY <2>1, NewPeakInv
<1>6. ASSUME NEW list \in reports, Announce(list) PROVE Inv'
    BY <1>6 DEF Announce, Inv
<1>7. QED
    BY <1>1, <1>2, <1>3, <1>4, <1>5, <1>6, ReaddInv, RetryInv, EndPeakInv, CancelRespondBlockInv DEF Next

--------------------------------------------------------------------------------
(* The theorems.                                                           *)

LEMMA InvHolds == Spec => []Inv
    BY InitInv, NextInv, PTL DEF Spec

(* No coin is spent by two items of the pool, for every set of spend       *)
(* bundles, costs, fees and limits: the conflicting items are removed by   *)
(* add_spendbundle in the step that adds, and a rebuild starts from        *)
(* nothing.                                                                *)
THEOREM NoDoubleSpendTheorem == Spec => []NoDoubleSpend
<1>1. Inv => NoDoubleSpend
    BY DEF Inv, PoolOk, AllDisjoint, NoDoubleSpend
<1>2. QED
    BY <1>1, InvHolds, PTL

(* The pool, the pending cache and the seen names never pass their limits: *)
(* add_to_pool evicts the shortest run of the cheapest items that leaves   *)
(* room, which exists because no single bundle costs more than the pool    *)
(* holds.                                                                  *)
THEOREM WithinCapacityTheorem == Spec => []WithinCapacity
<1>1. Inv => WithinCapacity
    BY DEF Inv, PoolOk, Fits, WithinCapacity
<1>2. QED
    BY <1>1, InvHolds, PTL

(* A name in seen_bundle_hashes is of a transaction that is held or in     *)
(* validation, or one of those the code leaves behind.                     *)
THEOREM SeenIsExplainedTheorem == Spec => []SeenIsExplained
<1>1. Inv => SeenIsExplained
    BY DEF Inv, Explained, HeldIn, SeenIsExplained, Held
<1>2. QED
    BY <1>1, InvHolds, PTL

(* What new_peak reports as added is in the pool, or a later item of the   *)
(* list took its place: while new_peak has the lock, nothing else falsifies *)
(* the assertion of peak_post_processing_2.                                *)
THEOREM AddedUnlessOvertakenTheorem == Spec => []AddedUnlessOvertaken
<1>1. Inv => AddedUnlessOvertaken
    BY DEF Inv, AddedOk, AddedUnlessOvertaken
<1>2. QED
    BY <1>1, InvHolds, PTL
--------------------------------------------------------------------------------
(* The chain: what the two recursive functions on blocks compute.          *)

(* Sets of blocks that hold the block before each of their members.        *)
Closed == {C \in SUBSET Blocks : \A a \in C : Prev[a] # None => Prev[a] \in C}

(* The function Ancestry is defined by its equation: the least closed set  *)
(* around b satisfies it.                                                  *)
LEMMA AncestryIs ==
    ASSUME NEW b \in Blocks
    PROVE  Ancestry[b] = {b} \cup (IF Prev[b] = None THEN {} ELSE Ancestry[Prev[b]])
<1> DEFINE Step(f, x) == {x} \cup (IF Prev[x] = None THEN {} ELSE f[Prev[x]])
           g == [x \in Blocks |-> {a \in Blocks : \A C \in Closed : x \in C => a \in C}]
<1>1. ASSUME NEW x \in Blocks PROVE g[x] = Step(g, x)
  <2>1. Prev[x] # None => Prev[x] \in Blocks
      BY MempoolAssumption
  <2>2. g[x] = {a \in Blocks : \A C \in Closed : x \in C => a \in C}
      OBVIOUS
  <2>3. Prev[x] # None => g[Prev[x]] = {a \in Blocks : \A C \in Closed : Prev[x] \in C => a \in C}
      BY <2>1
  <2> HIDE DEF g
  <2>4. ASSUME NEW a \in Step(g, x) PROVE a \in g[x]
    <3>1. CASE a = x
        BY <2>2, <3>1
    <3>2. CASE Prev[x] # None /\ a \in g[Prev[x]]
        BY <2>2, <2>3, <3>2 DEF Closed
    <3>3. QED
        BY <2>4, <3>1, <3>2
  <2>5. ASSUME NEW a \in g[x], a # x PROVE Prev[x] # None /\ a \in g[Prev[x]]
    <3>1. Prev[x] # None
      <4>1. SUFFICES ASSUME Prev[x] = None PROVE FALSE
          OBVIOUS
      <4>2. {x} \in Closed
          BY <4>1 DEF Closed
      <4>3. a \in {x}
          BY <2>2, <2>5, <4>2
      <4>4. QED
          BY <2>5, <4>3
    <3>2. ASSUME NEW C \in Closed, Prev[x] \in C PROVE a \in C
      <4>1. C \cup {x} \in Closed
          BY <3>2 DEF Closed
      <4>2. a \in C \cup {x}
          BY <2>2, <2>5, <4>1
      <4>3. QED
          BY <2>5, <4>2
    <3>3. a \in Blocks
        BY <2>2, <2>5
    <3>4. QED
        BY <2>3, <3>1, <3>2, <3>3
  <2>6. QED
      BY <2>4, <2>5
<1>2. g = [x \in Blocks |-> Step(g, x)]
  <2>1. g = [x \in Blocks |-> g[x]]
      OBVIOUS
  <2> HIDE DEF g
  <2>2. QED
      BY <1>1, <2>1
<1> HIDE DEF g
<1> DEFINE f == CHOOSE h : h = [x \in Blocks |-> Step(h, x)]
<1>3. f = [x \in Blocks |-> Step(f, x)]
    BY <1>2
<1>4. Ancestry = f
    BY DEF Ancestry
<1> HIDE DEF f
<1>5. QED
    BY <1>3, <1>4

(* A property of blocks that every block has if the block before has it;   *)
(* P is the set of blocks that have it.                                    *)
LEMMA AlongTheChain ==
    ASSUME NEW P, \A b \in Blocks : (Prev[b] # None => Prev[b] \in P) => b \in P
    PROVE  Blocks \subseteq P
<1> DEFINE Bad == {b \in Blocks : b \notin P}
           T == {Block[b].height : b \in Bad}
<1>1. SUFFICES ASSUME Bad # {} PROVE FALSE
    OBVIOUS
<1>2. T \subseteq Nat /\ T # {}
    BY <1>1, ChainAssumption
<1>3. PICK n \in T : \A k \in T : n <= k
  <2> HIDE DEF T
  <2>1. QED
      BY <1>2, LeastNumber
<1>4. PICK b \in Bad : Block[b].height = n
    OBVIOUS
<1>5. Prev[b] # None /\ Prev[b] \in Bad
    BY MempoolAssumption
<1>6. Block[Prev[b]].height \in Nat /\ Block[b].height = Block[Prev[b]].height + 1
    BY <1>5, ChainAssumption
<1>7. Block[Prev[b]].height \in T
    BY <1>5
<1> HIDE DEF T, Bad
<1>8. n <= Block[Prev[b]].height
    BY <1>3, <1>7
<1>9. QED
    BY <1>4, <1>6, <1>8

LEMMA AncestryHolds ==
    ASSUME NEW b \in Blocks
    PROVE  /\ b \in Ancestry[b] /\ Ancestry[b] \subseteq Blocks
           /\ \A a \in Ancestry[b] : /\ Ancestry[a] \subseteq Ancestry[b]
                                     /\ a = b \/ Block[a].height < Block[b].height
<1> DEFINE Good(x) == /\ x \in Ancestry[x] /\ Ancestry[x] \subseteq Blocks
                      /\ \A a \in Ancestry[x] : /\ Ancestry[a] \subseteq Ancestry[x]
                                                /\ a = x \/ Block[a].height < Block[x].height
           P == {x \in Blocks : Good(x)}
<1>1. ASSUME NEW x \in Blocks, Prev[x] # None => Prev[x] \in P PROVE x \in P
  <2>1. Ancestry[x] = {x} \cup (IF Prev[x] = None THEN {} ELSE Ancestry[Prev[x]])
      BY AncestryIs
  <2>2. CASE Prev[x] = None
      BY <2>1, <2>2
  <2>3. CASE Prev[x] # None
    <3>1. Good(Prev[x]) /\ Prev[x] \in Blocks
        BY <1>1, <2>3
    <3>2. /\ Block[x].height = Block[Prev[x]].height + 1 /\ Block[Prev[x]].height \in Nat
          /\ \A a \in Blocks : Block[a].height \in Nat
        BY <2>3, <3>1, ChainAssumption
    <3>3. ASSUME NEW a \in Ancestry[x] PROVE /\ Ancestry[a] \subseteq Ancestry[x]
                                             /\ a = x \/ Block[a].height < Block[x].height
      <4>1. CASE a = x
          BY <4>1
      <4>2. CASE a \in Ancestry[Prev[x]]
        <5>1. Ancestry[a] \subseteq Ancestry[Prev[x]] /\ a \in Blocks
            BY <3>1, <4>2
        <5>2. a = Prev[x] \/ Block[a].height < Block[Prev[x]].height
            BY <3>1, <4>2
        <5>3. Block[a].height < Block[x].height
            BY <3>2, <5>1, <5>2
        <5>4. QED
            BY <2>1, <2>3, <5>1, <5>3
      <4>3. QED
          BY <2>1, <4>1, <4>2
    <3>4. QED
        BY <2>1, <2>3, <3>1, <3>3
  <2>4. QED
      BY <2>2, <2>3
<1>2. Blocks \subseteq P
  <2> HIDE DEF P
  <2>1. QED
      BY <1>1, AlongTheChain
<1>3. QED
    BY <1>2

(* m is the last transaction block at or before b, or None.                *)
IsLastTx(m, b) ==
    IF m = None THEN \A a \in Ancestry[b] : ~Block[a].isTx
    ELSE m \in Ancestry[b] /\ Block[m].isTx /\ \A a \in Ancestry[b] \ Ancestry[m] : ~Block[a].isTx

LEMMA LastTxUnique ==
    ASSUME NEW b \in Blocks, NEW m, IsLastTx(m, b), NEW n, IsLastTx(n, b)
    PROVE  m = n
<1>1. CASE m = None \/ n = None
    BY <1>1 DEF IsLastTx
<1>2. CASE m # None /\ n # None
  <2>1. m \in Ancestry[n] /\ n \in Ancestry[m] /\ m \in Blocks /\ n \in Blocks
      BY <1>2, AncestryHolds DEF IsLastTx
  <2>2. m = n \/ (Block[m].height < Block[n].height /\ Block[n].height < Block[m].height)
      BY <2>1, AncestryHolds
  <2>3. Block[m].height \in Nat /\ Block[n].height \in Nat
      BY <2>1, ChainAssumption
  <2>4. QED
      BY <2>2, <2>3
<1>3. QED
    BY <1>1, <1>2

LEMMA LastTxSteps ==
    ASSUME NEW b \in Blocks, NEW m,
           IF Block[b].isTx THEN m = b
           ELSE IF Prev[b] = None THEN m = None ELSE IsLastTx(m, Prev[b])
    PROVE  IsLastTx(m, b)
<1>1. Ancestry[b] = {b} \cup (IF Prev[b] = None THEN {} ELSE Ancestry[Prev[b]])
    BY AncestryIs
<1>2. CASE Block[b].isTx
  <2>1. m = b /\ b # None /\ b \in Ancestry[b]
      BY <1>2, AncestryHolds, MempoolAssumption
  <2>2. QED
      BY <1>2, <2>1 DEF IsLastTx
<1>3. CASE ~Block[b].isTx /\ Prev[b] = None
    BY <1>1, <1>3 DEF IsLastTx
<1>4. CASE ~Block[b].isTx /\ Prev[b] # None
    BY <1>1, <1>4 DEF IsLastTx
<1>5. QED
    BY <1>2, <1>3, <1>4

LEMMA LastTxExists ==
    ASSUME NEW b \in Blocks
    PROVE  \E m : IsLastTx(m, b)
<1> DEFINE P == {x \in Blocks : \E m : IsLastTx(m, x)}
<1>1. ASSUME NEW x \in Blocks, Prev[x] # None => Prev[x] \in P PROVE x \in P
    BY <1>1, LastTxSteps
<1>2. Blocks \subseteq P
  <2> HIDE DEF P
  <2>1. QED
      BY <1>1, AlongTheChain
<1>3. QED
    BY <1>2

LEMMA LastTxIs ==
    ASSUME NEW b \in Blocks
    PROVE  IsLastTx(LastTx[b], b) /\ LastTx[None] = None
<1> DEFINE Step(f, x) == IF x = None THEN None ELSE IF Block[x].isTx THEN x ELSE f[Prev[x]]
           g == [x \in Blocks \cup {None} |-> IF x = None THEN None ELSE CHOOSE m : IsLastTx(m, x)]
           D == Blocks \cup {None}
<1>0. \A x \in Blocks : x # None /\ Prev[x] \in D
    BY MempoolAssumption
<1>1. \A x \in Blocks : IsLastTx(g[x], x)
    BY <1>0, LastTxExists
<1>2. g[None] = None
    OBVIOUS
<1>3. \A x \in D : g[x] = Step(g, x)
  <2> HIDE DEF g
  <2>1. ASSUME NEW x \in Blocks PROVE g[x] = Step(g, x)
    <3>1. IsLastTx(Step(g, x), x)
        BY <1>0, <1>1, <1>2, LastTxSteps
    <3>2. QED
        BY <1>1, <3>1, LastTxUnique
  <2>2. QED
      BY <1>2, <2>1
<1>4. g = [x \in D |-> Step(g, x)]
  <2>1. g = [x \in D |-> g[x]]
      OBVIOUS
  <2> HIDE DEF g
  <2>2. QED
      BY <1>3, <2>1
<1> HIDE DEF g
<1> DEFINE f == CHOOSE h : h = [x \in D |-> Step(h, x)]
<1>5. f = [x \in D |-> Step(f, x)]
    BY <1>4
<1>6. LastTx = f
    BY DEF LastTx
<1> HIDE DEF f
<1>7. \A x \in D : f[x] = Step(f, x)
    BY <1>5
<1> DEFINE P == {x \in Blocks : IsLastTx(f[x], x)}
<1>8. ASSUME NEW x \in Blocks, Prev[x] # None => Prev[x] \in P PROVE x \in P
  <2>1. f[None] = None /\ f[x] = Step(f, x)
      BY <1>7
  <2>2. QED
      BY <1>0, <1>8, <2>1, LastTxSteps
<1>9. Blocks \subseteq P
  <2> HIDE DEF P
  <2>1. QED
      BY <1>8, AlongTheChain
<1>10. QED
    BY <1>6, <1>7, <1>9
--------------------------------------------------------------------------------
(* Bundles that can be in the next block.                                  *)

(* t can follow the transaction block m.                                   *)
ValidAt(t, m) == KnowsCoins(t, m) /\ ~SpendsSpent(t, m) /\ TimeLocks(t, m, m) = "OK"

(* What is in the pool was valid at the pool's block when it came in, and  *)
(* has stayed so.                                                          *)
PoolIsValid ==
    /\ peak \in Blocks /\ peakOfPool \in Blocks \cup {None}
    /\ peakOfPool = None => Range(pool) = {}
    /\ peakOfPool # None => /\ Block[peakOfPool].isTx
                            /\ \A t \in Range(pool) \ astray : ValidAt(t, peakOfPool)

(* While new_peak runs the pool is at the peak, and what was in the pool   *)
(* when it began fits together still.                                      *)
RebuildOk ==
    /\ job.phase # "idle" => peakOfPool = peak
    /\ \A t \in HeldIn(pool, job) : Tx[t].cost <= MaxBundleCost
    /\ job.phase = "rebuild" =>
         /\ IsInjective(job.todo) /\ Range(pool) \cap Range(job.todo) = {}
         /\ \A t, u \in HeldIn(pool, job) : t # u => Removals(t) \cap Removals(u) = {}
         /\ Cost(HeldIn(pool, job)) <= MaxPoolCost
(* The time locks of t hold at the block m.                                *)
Unlocked(t, m, b) ==
    /\ ~(Block[m].height < Tx[t].heightAbsolute) /\ ~(Block[m].time < Tx[t].secondsAbsolute)
    /\ \A i \in DOMAIN Tx[t].spends :
         /\ \A h \in Tx[t].spends[i].heightRelative :
              ~(Block[m].height < CoinHeight(t, Tx[t].spends[i].coin, m, b) + h)
         /\ ~(Block[m].time < CoinTime(t, Tx[t].spends[i].coin, m, b) + Tx[t].spends[i].secondsRelative)

LEMMA UnlockedIs ==
    ASSUME NEW t, NEW m, NEW b
    PROVE  /\ TimeLocks(t, m, b) = "OK" <=> Unlocked(t, m, b)
           /\ TimeLocks(t, m, b) \in {"OK", "HEIGHT", "SECONDS"}
<1> DEFINE height(i) == \E h \in Tx[t].spends[i].heightRelative :
                            Block[m].height < CoinHeight(t, Tx[t].spends[i].coin, m, b) + h
           time(i) == Block[m].time
                        < CoinTime(t, Tx[t].spends[i].coin, m, b) + Tx[t].spends[i].secondsRelative
           late == {i \in DOMAIN Tx[t].spends : height(i) \/ time(i)}
<1>1. TimeLocks(t, m, b) = IF Block[m].height < Tx[t].heightAbsolute THEN "HEIGHT"
                           ELSE IF Block[m].time < Tx[t].secondsAbsolute THEN "SECONDS"
                           ELSE IF late = {} THEN "OK"
                           ELSE IF height(Min(late)) THEN "HEIGHT" ELSE "SECONDS"
    BY DEF TimeLocks
<1>2. late = {} <=> \A i \in DOMAIN Tx[t].spends : ~height(i) /\ ~time(i)
    OBVIOUS
<1>3. Unlocked(t, m, b) <=> /\ ~(Block[m].height < Tx[t].heightAbsolute)
                            /\ ~(Block[m].time < Tx[t].secondsAbsolute)
                            /\ \A i \in DOMAIN Tx[t].spends : ~height(i) /\ ~time(i)
    BY DEF Unlocked
<1> HIDE DEF late, height, time
<1>4. QED
    BY <1>1, <1>2, <1>3

(* Blocks without transactions do not change what is known of coins.       *)
LEMMA SameCoins ==
    ASSUME NEW b \in Blocks, LastTx[b] # None, NEW c
    PROVE  /\ Origin(c, b) = Origin(c, LastTx[b]) /\ (Spent(c, b) <=> Spent(c, LastTx[b]))
           /\ LastTx[b] \in Blocks /\ Block[LastTx[b]].isTx
           /\ LastTx[b] \in Ancestry[b] /\ Block[LastTx[b]].height <= Block[b].height
<1> DEFINE m == LastTx[b]
<1>1. m \in Ancestry[b] /\ Block[m].isTx /\ \A a \in Ancestry[b] \ Ancestry[m] : ~Block[a].isTx
    BY LastTxIs DEF IsLastTx
<1>2. m \in Blocks /\ Ancestry[m] \subseteq Ancestry[b] /\ Ancestry[b] \subseteq Blocks
    BY <1>1, AncestryHolds
<1>3. \A a \in Ancestry[b] \ Ancestry[m] : Block[a].removals = {} /\ Block[a].additions = {}
    BY <1>1, <1>2, MempoolAssumption
<1>4. m = b \/ Block[m].height < Block[b].height
    BY <1>1, AncestryHolds
<1>5. Block[m].height \in Nat /\ Block[b].height \in Nat
    BY <1>2, ChainAssumption
<1> HIDE DEF m
<1>6. Block[m].height <= Block[b].height
    BY <1>4, <1>5
<1>7. Origin(c, b) = Origin(c, m)
    BY <1>2, <1>3 DEF Origin
<1>8. Spent(c, b) <=> Spent(c, m)
    BY <1>2, <1>3 DEF Spent
<1>9. QED
    BY <1>1, <1>2, <1>6, <1>7, <1>8 DEF m

LEMMA ValidAtLastTx ==
    ASSUME NEW b \in Blocks, LastTx[b] # None, NEW t
    PROVE  /\ ValidOn(t, b) <=> ValidAt(t, LastTx[b])
           /\ ValidOn(t, b) <=> /\ KnowsCoins(t, b) /\ ~SpendsSpent(t, b)
                                /\ TimeLocks(t, LastTx[b], b) = "OK"
<1> DEFINE m == LastTx[b]
<1>1. /\ \A c : Origin(c, b) = Origin(c, m)
      /\ \A c : Spent(c, b) <=> Spent(c, m)
    BY SameCoins
<1> HIDE DEF m
<1>2. /\ \A c : CoinHeight(t, c, m, b) = CoinHeight(t, c, m, m)
      /\ \A c : CoinTime(t, c, m, b) = CoinTime(t, c, m, m)
  <2>1. SUFFICES ASSUME NEW c PROVE /\ CoinHeight(t, c, m, b) = CoinHeight(t, c, m, m)
                                    /\ CoinTime(t, c, m, b) = CoinTime(t, c, m, m)
      OBVIOUS
  <2>2. Origin(c, b) = Origin(c, m)
      BY <1>1
  <2>3. QED
      BY <2>2 DEF CoinHeight, CoinTime
<1>3. Unlocked(t, m, b) <=> Unlocked(t, m, m)
    BY <1>2 DEF Unlocked
<1>4. KnowsCoins(t, b) <=> KnowsCoins(t, m)
    BY <1>1 DEF KnowsCoins
<1>5. SpendsSpent(t, b) <=> SpendsSpent(t, m)
    BY <1>1 DEF SpendsSpent
<1>6. QED
    BY <1>3, <1>4, <1>5, UnlockedIs DEF ValidOn, ValidAt, m

(* The removals of t are the coins of its spends.                          *)
LEMMA SpendIs ==
    ASSUME NEW t \in Txs, NEW i \in DOMAIN Tx[t].spends
    PROVE  /\ Tx[t].spends[i].coin \in Removals(t)
           /\ Tx[t].spends[i].heightRelative \subseteq Nat /\ Tx[t].spends[i].secondsRelative \in Nat
<1>1. Tx[t].spends[i] \in Spends(t)
    BY DEF Spends, Range
<1>2. QED
    BY <1>1, TxAssumption DEF Removals

(* What is valid at a transaction block is valid at the next one if that   *)
(* does not spend its coins.                                               *)
LEMMA StaysValid ==
    ASSUME NEW t \in Txs, NEW b \in Blocks, Block[b].isTx, LastTx[Prev[b]] # None,
           ValidAt(t, LastTx[Prev[b]]), Removals(t) \cap Block[b].removals = {}
    PROVE  ValidAt(t, b)
<1> DEFINE p == Prev[b]
           m == LastTx[p]
<1>1. p \in Blocks /\ p # None
    BY LastTxIs, MempoolAssumption
<1>2. /\ \A c : Origin(c, p) = Origin(c, m)
      /\ \A c : Spent(c, p) <=> Spent(c, m)
      /\ m \in Blocks /\ Block[m].height <= Block[p].height
    BY <1>1, SameCoins
<1>3. Ancestry[b] = {b} \cup Ancestry[p] /\ b \notin Ancestry[p] /\ Ancestry[p] \subseteq Blocks
  <2>1. Ancestry[b] = {b} \cup Ancestry[p]
      BY <1>1, AncestryIs
  <2>2. Block[p].height < Block[b].height /\ Block[p].height \in Nat /\ Block[b].height \in Nat
      BY <1>1, ChainAssumption
  <2>3. b \in Ancestry[p] => b = p \/ Block[b].height < Block[p].height
      BY <1>1, AncestryHolds
  <2>4. Ancestry[p] \subseteq Blocks
      BY <1>1, AncestryHolds
  <2> HIDE DEF p
  <2>5. QED
      BY <2>1, <2>2, <2>3, <2>4
<1>4. /\ Block[m].height <= Block[b].height /\ Block[m].time <= Block[b].time
      /\ {Block[m].height, Block[b].height, Block[m].time, Block[b].time} \subseteq Nat
  <2>1. Block[b].height = Block[p].height + 1 /\ Block[p].height \in Nat
      BY <1>1, ChainAssumption
  <2>2. {Block[m].height, Block[b].height, Block[m].time, Block[b].time} \subseteq Nat
      BY <1>2, ChainAssumption
  <2>3. Block[m].time <= Block[b].time
      BY ChainAssumption
  <2> HIDE DEF m, p
  <2>4. QED
      BY <1>2, <2>1, <2>2, <2>3
<1> HIDE DEF m, p
<1>5. \A c : Origin(c, m) \subseteq Origin(c, b)
    BY <1>2, <1>3 DEF Origin
<1>6. \A c : Origin(c, m) # {} => Origin(c, b) = Origin(c, m)
  <2>1. SUFFICES ASSUME NEW c, Origin(c, m) # {} PROVE Origin(c, b) = Origin(c, m)
      OBVIOUS
  <2>2. PICK a \in Ancestry[p] : c \in Block[a].additions
      BY <1>2, <2>1 DEF Origin
  <2>3. c \notin Block[b].additions
      BY <1>3, <2>2, CoinIdAssumption
  <2>4. QED
      BY <1>2, <1>3, <2>3 DEF Origin
<1>7. KnowsCoins(t, m) /\ ~SpendsSpent(t, m) /\ Unlocked(t, m, m)
    BY UnlockedIs DEF ValidAt, m, p
<1>8. KnowsCoins(t, b)
    BY <1>5, <1>7 DEF KnowsCoins
<1>9. ~SpendsSpent(t, b)
  <2>1. \A c \in Removals(t) : Spent(c, b) => Spent(c, m)
      BY <1>2, <1>3 DEF Spent
  <2>2. QED
      BY <1>7, <2>1 DEF SpendsSpent
<1>10. Unlocked(t, b, b)
  <2>1. ASSUME NEW i \in DOMAIN Tx[t].spends
        PROVE  /\ \A h \in Tx[t].spends[i].heightRelative :
                    ~(Block[b].height < CoinHeight(t, Tx[t].spends[i].coin, b, b) + h)
               /\ ~(Block[b].time < CoinTime(t, Tx[t].spends[i].coin, b, b)
                                      + Tx[t].spends[i].secondsRelative)
    <3> DEFINE c == Tx[t].spends[i].coin
               R == Tx[t].spends[i].heightRelative
               s == Tx[t].spends[i].secondsRelative
    <3>1. c \in Removals(t) /\ R \subseteq Nat /\ s \in Nat
        BY SpendIs
    <3>2. /\ \A h \in R : ~(Block[m].height < CoinHeight(t, c, m, m) + h)
          /\ ~(Block[m].time < CoinTime(t, c, m, m) + s)
        BY <1>7 DEF Unlocked
    <3> HIDE DEF c, R, s
    <3>3. CASE c \in Tx[t].additions
      <4>1. /\ CoinHeight(t, c, m, m) = Block[m].height + 1 /\ CoinTime(t, c, m, m) = Block[m].time
            /\ CoinHeight(t, c, b, b) = Block[b].height + 1 /\ CoinTime(t, c, b, b) = Block[b].time
          BY <3>3 DEF CoinHeight, CoinTime
      <4>2. R = {}
          BY <1>4, <3>1, <3>2, <4>1
      <4>3. QED
          BY <1>4, <3>1, <3>2, <4>1, <4>2 DEF c, R, s
    <3>4. CASE c \notin Tx[t].additions
      <4>1. Origin(c, m) # {} /\ Origin(c, b) = Origin(c, m)
          BY <1>6, <1>7, <3>1, <3>4 DEF KnowsCoins
      <4> DEFINE a == CHOOSE x \in Origin(c, m) : TRUE
      <4>2. a \in Origin(c, m)
          BY <4>1
      <4>3. a \in Blocks
          BY <1>2, <4>2, AncestryHolds DEF Origin
      <4>4. /\ CoinHeight(t, c, m, m) = Block[a].height /\ CoinTime(t, c, m, m) = Block[a].time
            /\ CoinHeight(t, c, b, b) = Block[a].height /\ CoinTime(t, c, b, b) = Block[a].time
          BY <3>4, <4>1 DEF CoinHeight, CoinTime
      <4>5. Block[a].height \in Nat /\ Block[a].time \in Nat
          BY <4>3, ChainAssumption
      <4> HIDE DEF a
      <4>6. /\ \A h \in R : ~(Block[b].height < Block[a].height + h)
            /\ ~(Block[b].time < Block[a].time + s)
        <5>1. \A h \in R : ~(Block[m].height < Block[a].height + h)
            BY <3>2, <4>4
        <5>2. ~(Block[m].time < Block[a].time + s)
            BY <3>2, <4>4
        <5>3. ASSUME NEW h \in R PROVE ~(Block[b].height < Block[a].height + h)
          <6>1. h \in Nat /\ ~(Block[m].height < Block[a].height + h)
              BY <3>1, <5>1
          <6>2. QED
              BY <1>4, <4>5, <6>1
        <5>4. QED
            BY <1>4, <3>1, <4>5, <5>2, <5>3
      <4>7. QED
          BY <4>4, <4>6 DEF c, R, s
    <3>5. QED
        BY <3>3, <3>4
  <2>2. /\ ~(Block[m].height < Tx[t].heightAbsolute) /\ ~(Block[m].time < Tx[t].secondsAbsolute)
      BY <1>7 DEF Unlocked
  <2>3. Tx[t].heightAbsolute \in Nat /\ Tx[t].secondsAbsolute \in Nat
      BY TxAssumption
  <2>4. ~(Block[b].height < Tx[t].heightAbsolute) /\ ~(Block[b].time < Tx[t].secondsAbsolute)
      BY <1>4, <2>2, <2>3
  <2>5. QED
      BY <2>1, <2>4 DEF Unlocked
<1>11. QED
    BY <1>8, <1>9, <1>10, UnlockedIs DEF ValidAt

(* The generator that new_peak looks at is on the chain of the new peak,   *)
(* and is that of the new peak if it has one.                              *)
LEMMA LastGeneratorIs ==
    ASSUME NEW old \in Blocks, NEW b \in Blocks, LastGenerator(old, b) # None
    PROVE  /\ LastGenerator(old, b) \in Ancestry[b]
           /\ Block[b].hasGenerator => LastGenerator(old, b) = b
<1> DEFINE fresh == {a \in Ancestry[b] \ Ancestry[old] : Block[a].hasGenerator}
           n == LastGenerator(old, b)
           T == {Block[b].height - Block[a].height : a \in fresh}
<1>1. fresh # {} /\ n = CHOOSE a \in fresh : \A o \in fresh : Block[o].height <= Block[a].height
    BY DEF LastGenerator
<1>2. \A a \in fresh : /\ a \in Blocks /\ Block[a].height \in Nat /\ Block[b].height \in Nat
                       /\ a = b \/ Block[a].height < Block[b].height
    BY AncestryHolds, ChainAssumption
<1>3. \E a \in fresh : \A o \in fresh : Block[o].height <= Block[a].height
  <2> HIDE DEF fresh
  <2>1. T \subseteq Nat /\ T # {}
    <3>1. \A a \in fresh : Block[b].height - Block[a].height \in Nat
        BY <1>2
    <3>2. QED
        BY <1>1, <3>1
  <2>2. PICK d \in T : \A k \in T : d <= k
    <3> HIDE DEF T
    <3>1. QED
        BY <2>1, LeastNumber
  <2>3. PICK a \in fresh : d = Block[b].height - Block[a].height
      OBVIOUS
  <2>4. \A o \in fresh : Block[b].height - Block[a].height <= Block[b].height - Block[o].height
      BY <2>2, <2>3
  <2>5. QED
      BY <1>2, <2>4
<1>4. n \in fresh /\ \A o \in fresh : Block[o].height <= Block[n].height
    BY <1>1, <1>3
<1>5. ASSUME Block[b].hasGenerator PROVE n = b
  <2>1. b \in Ancestry[b] /\ b \notin Ancestry[old]
      BY <1>1, AncestryHolds
  <2>2. b \in fresh
      BY <1>5, <2>1
  <2>3. Block[b].height <= Block[n].height /\ (n = b \/ Block[n].height < Block[b].height)
      BY <1>2, <1>4, <2>2
  <2>4. Block[n].height \in Nat /\ Block[b].height \in Nat
      BY <1>2, <1>4
  <2> HIDE DEF n, fresh
  <2>5. QED
      BY <2>3, <2>4
<1>6. QED
    BY <1>4, <1>5

(* What the new peak's optimisation kicks out could not be in a block any  *)
(* more.                                                                   *)
LEMMA KickedIsSpent ==
    ASSUME NEW t \in Txs, NEW b \in Blocks, NEW n \in Ancestry[b],
           Removals(t) \cap Block[n].removals # {}
    PROVE  SpendsSpent(t, b)
<1>1. PICK c \in Removals(t) : c \in Block[n].removals
    OBVIOUS
<1>2. n \in Blocks /\ Ancestry[n] \subseteq Ancestry[b] /\ n \in Ancestry[n]
    BY AncestryHolds
<1>3. CASE c \notin Tx[t].additions
    BY <1>1, <1>3 DEF SpendsSpent, Spent
<1>4. CASE c \in Tx[t].additions
  <2>1. Origin(c, n) # {}
      BY <1>1, <1>2, CoinIdAssumption
  <2>2. SpendsSpent(t, n)
      BY <1>2, <1>4, <2>1, CoinIdAssumption
  <2>3. QED
      BY <1>2, <2>2 DEF SpendsSpent, Spent
<1>5. QED
    BY <1>3, <1>4
(* When add_spendbundle accepts.                                           *)
LEMMA SuccessMeans ==
    ASSUME NEW t \in Txs, NEW p, t \notin Range(p), NEW m, NEW b
    PROVE  Status(t, p, m, b) = "SUCCESS" <=>
             /\ m # None /\ Tx[t].cost <= MaxBundleCost
             /\ KnowsCoins(t, b) /\ ~SpendsSpent(t, b) /\ TimeLocks(t, m, b) = "OK"
             /\ FeeIsEnough(t, p) /\ (Conflicts(t, p) # {} => CanReplace(Conflicts(t, p), t))
<1>1. Tx[t].cost > MaxBundleCost <=> ~(Tx[t].cost <= MaxBundleCost)
  <2>1. Tx[t].cost \in Nat /\ MaxBundleCost \in Nat
      BY MempoolAssumption
  <2>2. QED
      BY <2>1
<1>2. TimeLocks(t, m, b) \in {"OK", "HEIGHT", "SECONDS"}
    BY UnlockedIs
<1>3. QED
    BY <1>1, <1>2 DEF Status

(* add_spendbundle, whoever calls it, keeps the pool valid.                *)
LEMMA AddKeepsValid ==
    ASSUME Inv, PoolIsValid, NEW t \in Txs, AddSpendBundle(t), peak' = peak, peakOfPool' = peakOfPool
    PROVE  /\ PoolIsValid'
           /\ Range(pool') \subseteq Range(pool) \cup {t}
           /\ \A u \in Range(pool') \ Range(pool) : Tx[u].cost <= MaxBundleCost
<1>1. pool' = PoolAfter(t, pool, peakOfPool, peak) /\ IsPool(pool)
    BY DEF AddSpendBundle, Inv, PoolOk
<1>2. /\ Range(pool') \subseteq Range(pool) \cup {t}
      /\ Status(t, pool, peakOfPool, peak) # "SUCCESS" => pool' = pool
    BY <1>1, PoolAfterIs
<1>3. ASSUME NEW u \in Range(pool') \ Range(pool)
      PROVE  /\ u = t /\ Tx[u].cost <= MaxBundleCost /\ peakOfPool # None
             /\ peakOfPool = LastTx[peak] => ValidAt(u, peakOfPool)
  <2>1. u = t /\ t \notin Range(pool) /\ Status(t, pool, peakOfPool, peak) = "SUCCESS"
      BY <1>2
  <2>2. /\ peakOfPool # None /\ Tx[t].cost <= MaxBundleCost
        /\ KnowsCoins(t, peak) /\ ~SpendsSpent(t, peak) /\ TimeLocks(t, peakOfPool, peak) = "OK"
      BY <2>1, SuccessMeans
  <2>3. ASSUME peakOfPool = LastTx[peak] PROVE ValidAt(t, peakOfPool)
      BY <2>2, <2>3, ValidAtLastTx DEF PoolIsValid
  <2>4. QED
      BY <2>1, <2>2, <2>3
<1>4. astray' = (astray \cup (IF peakOfPool = LastTx[peak] THEN {} ELSE Range(pool') \ Range(pool)))
                  \cap Range(pool')
    BY DEF AddSpendBundle
<1>5. ASSUME NEW u \in Range(pool') \ astray', peakOfPool # None PROVE ValidAt(u, peakOfPool)
    BY <1>3, <1>4, <1>5 DEF PoolIsValid
<1>6. QED
    BY <1>2, <1>3, <1>5 DEF PoolIsValid

(* new_peak up to its first await.                                         *)
LEMMA NewPeakValid ==
    ASSUME Inv, PoolIsValid, RebuildOk, job = Idle, NEW b \in Blocks, NEW npc, NewPeak(b, npc),
           peak' = b, npc = None \/ npc = LastGenerator(peak, b)
    PROVE  PoolIsValid' /\ RebuildOk'
<1>1. IsPool(pool) /\ AllDisjoint(pool) /\ Fits(pool) /\ job.phase = "idle" /\ b # None
    BY IdleIs, MempoolAssumption DEF Inv, PoolOk
<1>2. \A u \in Range(pool) : Tx[u].cost <= MaxBundleCost
    BY DEF RebuildOk, HeldIn
<1>3. CASE Ignores(b)
  <2>1. pool' = pool /\ peakOfPool' = peakOfPool /\ job' = job /\ astray' = astray
      BY <1>3 DEF NewPeak
  <2>2. QED
      BY <1>1, <2>1 DEF PoolIsValid, RebuildOk, HeldIn
<1>4. CASE ~Ignores(b) /\ UsesOptimization(b, npc)
  <2> DEFINE kicked == {t \in Range(pool) : Removals(t) \cap Block[npc].removals # {}}
  <2>1. /\ pool' = Without(pool, kicked) /\ astray' = astray \ kicked /\ peakOfPool' = b
        /\ job' = [phase |-> "drain", todo |-> cache, added |-> <<>>]
      BY <1>4 DEF NewPeak, KickSpent
  <2>2. npc # None /\ peakOfPool # None /\ LastTx[Prev[b]] = peakOfPool /\ Block[b].isTx
      BY <1>4 DEF UsesOptimization, Ignores
  <2>3. Range(pool') = Range(pool) \ kicked
      BY <1>1, <2>1, WithoutIsPool
  <2>4. ASSUME NEW t \in Range(pool') \ astray' PROVE ValidAt(t, b)
    <3>1. t \in Txs /\ t \in Range(pool) /\ t \notin astray /\ Removals(t) \cap Block[npc].removals = {}
        BY <1>1, <2>1, <2>3, PoolIsFinite
    <3>2. Removals(t) \cap Block[b].removals = {}
        BY <2>2, <3>1, LastGeneratorIs, ChainAssumption DEF PoolIsValid
    <3>3. ValidAt(t, LastTx[Prev[b]])
        BY <2>2, <3>1 DEF PoolIsValid
    <3>4. QED
        BY <2>2, <3>1, <3>2, <3>3, StaysValid
  <2>5. job'.phase = "drain" /\ HeldIn(pool', job') = Range(pool')
      BY <2>1 DEF HeldIn
  <2> HIDE DEF kicked
  <2>6. QED
      BY <1>1, <1>2, <2>1, <2>2, <2>3, <2>4, <2>5 DEF PoolIsValid, RebuildOk
<1>5. CASE ~Ignores(b) /\ ~UsesOptimization(b, npc)
  <2>1. pool' = <<>> /\ peakOfPool' = b /\ Range(pool') = {} /\ Block[b].isTx
      BY <1>5, EmptyIsPool DEF NewPeak, StartRebuild, Ignores
  <2>2. PoolIsValid'
      BY <1>1, <2>1 DEF PoolIsValid
  <2>3. CASE pool = <<>>
    <3>1. job' = [phase |-> "drain", todo |-> cache, added |-> <<>>]
        BY <1>5, <2>3 DEF NewPeak, StartRebuild
    <3>2. job'.phase = "drain" /\ HeldIn(pool', job') = {}
        BY <2>1, <3>1 DEF HeldIn
    <3>3. QED
        BY <2>1, <2>2, <3>2 DEF RebuildOk
  <2>4. CASE pool # <<>>
    <3>1. job' = [phase |-> "rebuild", todo |-> pool, added |-> <<>>]
        BY <1>5, <2>4 DEF NewPeak, StartRebuild
    <3>2. job'.phase = "rebuild" /\ job'.todo = pool /\ HeldIn(pool', job') = Range(pool)
        BY <2>1, <3>1 DEF HeldIn
    <3>3. QED
        BY <1>1, <1>2, <2>1, <2>2, <3>2 DEF RebuildOk, IsPool, AllDisjoint, Fits
  <2>5. QED
      BY <2>3, <2>4
<1>6. QED
    BY <1>3, <1>4, <1>5

(* The rest of a sequence without repetitions.                             *)
LEMMA TailOfPool ==
    ASSUME NEW s, IsPool(s), s # <<>>
    PROVE  /\ IsPool(Tail(s)) /\ Range(s) = Range(Tail(s)) \cup {Head(s)}
           /\ Head(s) \in Txs /\ Head(s) \notin Range(Tail(s))
<1>1. s \in Seq(Txs) /\ Len(s) \in Nat /\ Len(s) # 0 /\ DOMAIN s = 1..Len(s)
    BY DEF IsPool
<1> DEFINE q == Tail(s)
<1>2. /\ Head(s) = s[1] /\ s[1] \in Txs /\ q \in Seq(Txs) /\ DOMAIN q = 1..(Len(s) - 1)
      /\ \A i \in 1..(Len(s) - 1) : q[i] = s[i + 1]
    BY <1>1
<1> HIDE DEF q
<1>3. \A i, j \in 1..Len(s) : s[i] = s[j] => i = j
    BY <1>1 DEF IsPool, IsInjective
<1>4. IsInjective(q)
  <2>1. SUFFICES ASSUME NEW i \in 1..(Len(s) - 1), NEW j \in 1..(Len(s) - 1), q[i] = q[j] PROVE i = j
      BY <1>2 DEF IsInjective
  <2>2. i + 1 \in 1..Len(s) /\ j + 1 \in 1..Len(s) /\ s[i + 1] = s[j + 1]
      BY <1>1, <1>2, <2>1
  <2>3. i + 1 = j + 1
      BY <1>3, <2>2
  <2>4. QED
      BY <2>3
<1>5. s[1] \notin Range(q)
  <2>1. SUFFICES ASSUME NEW i \in 1..(Len(s) - 1), q[i] = s[1] PROVE FALSE
      BY <1>2 DEF Range
  <2>2. i + 1 \in 1..Len(s) /\ 1 \in 1..Len(s) /\ s[i + 1] = s[1]
      BY <1>1, <1>2, <2>1
  <2>3. i + 1 = 1
      BY <1>3, <2>2
  <2>4. QED
      BY <2>3
<1>6. Range(q) \cup {s[1]} \subseteq Range(s)
  <2>1. \A i \in 1..(Len(s) - 1) : i + 1 \in 1..Len(s)
      BY <1>1
  <2>2. 1 \in 1..Len(s)
      BY <1>1
  <2>3. QED
      BY <1>1, <1>2, <2>1, <2>2 DEF Range
<1>7. \A u \in Range(s) : u = Head(s) \/ u \in Range(Tail(s))
    BY <1>1, HeadAndTail
<1>8. QED
    BY <1>2, <1>4, <1>5, <1>6, <1>7 DEF IsPool, q
--------------------------------------------------------------------------------
(* Why a transaction leaves.                                               *)

LEMMA HeldIs == Held = HeldIn(pool, job) /\ Held' = HeldIn(pool', job')
    BY DEF Held, HeldIn

(* What add_spendbundle drops gives way to what it adds.                   *)
LEMMA AddHasReason ==
    ASSUME Inv, NEW t \in Txs, AddSpendBundle(t), NEW u \in Range(pool) \ Range(pool')
    PROVE  HasReason(u)
<1>1. pool' = PoolAfter(t, pool, peakOfPool, peak) /\ IsPool(pool)
    BY DEF AddSpendBundle, Inv, PoolOk
<1>2. /\ Status(t, pool, peakOfPool, peak) = "SUCCESS" /\ t \notin Range(pool)
      /\ t \in Range(pool') /\ GivesWay(u, t, pool)
    BY <1>1, PoolAfterIs
<1>3. Fees({t}) = Tx[t].fee
    BY FeesOfOne
<1>4. IF Removals(u) \cap Removals(t) = {}
      THEN CheaperPerCost({u}, {t})
      ELSE /\ Removals(u) \subseteq Removals(t)
           /\ Tx[t].fee >= Fees(Conflicts(t, pool)) + MinFeeIncrease
    BY <1>2, <1>3 DEF GivesWay, CanReplace
<1>5. QED
    BY <1>2, <1>4 DEF HasReason

(* A step of the rebuild: the item goes back unless it cannot be in a      *)
(* block on top of the new peak.                                           *)
LEMMA ReaddValid ==
    ASSUME Inv, PoolIsValid, RebuildOk, Readd
    PROVE  PoolIsValid' /\ RebuildOk' /\ ForAReason
<1> DEFINE t == Head(job.todo)
           H == HeldIn(pool, job)
<1>1. /\ IsPool(pool) /\ job \in Jobs /\ job.phase = "rebuild" /\ job.todo # <<>>
      /\ peakOfPool = peak /\ peak \in Blocks /\ Block[peak].isTx
      /\ IsPool(job.todo) /\ Range(pool) \cap Range(job.todo) = {}
      /\ \A x, y \in H : x # y => Removals(x) \cap Removals(y) = {}
      /\ Cost(H) <= MaxPoolCost /\ \A x \in H : Tx[x].cost <= MaxBundleCost
      /\ H = Range(pool) \cup Range(job.todo)
  <2>1. job \in Jobs /\ job.phase = "rebuild" /\ job.todo # <<>>
      BY DEF Inv, JobOk, Readd
  <2>2. job.todo \in Seq(Txs)
      BY <2>1 DEF Jobs
  <2>3. peakOfPool = peak /\ peak # None
      BY <2>1, MempoolAssumption DEF RebuildOk, PoolIsValid
  <2>4. QED
      BY <2>1, <2>2, <2>3 DEF Inv, PoolOk, RebuildOk, PoolIsValid, IsPool, HeldIn
<1>2. /\ IsPool(Tail(job.todo)) /\ Range(job.todo) = Range(Tail(job.todo)) \cup {t}
      /\ t \in Txs /\ t \notin Range(Tail(job.todo))
    BY <1>1, TailOfPool
<1>3. /\ AddSpendBundle(t) /\ peak' = peak /\ peakOfPool' = peakOfPool
      /\ pool' = PoolAfter(t, pool, peakOfPool, peak)
    BY DEF Readd, AddSpendBundle
<1>4. IF Len(job.todo) = 1
      THEN job' = [phase |-> "drain", todo |-> CacheAfter(t, pool, cache, peakOfPool, peak),
                   added |-> <<>>]
      ELSE job' = [job EXCEPT !.todo = Tail(@)]
    BY DEF Readd
<1>5. H \in SUBSET Txs /\ IsFiniteSet(H)
    BY <1>1, PoolIsFinite, FS_Union
<1> HIDE DEF t, H
<1>6. PoolIsValid' /\ Range(pool') \subseteq Range(pool) \cup {t}
    BY <1>2, <1>3, AddKeepsValid
<1>7. /\ Range(pool') \subseteq HeldIn(pool', job') /\ Range(Tail(job.todo)) \subseteq HeldIn(pool', job')
      /\ HeldIn(pool', job') \subseteq H /\ RebuildOk'
  <2>1. CASE Len(job.todo) = 1
    <3>1. job'.phase = "drain" /\ HeldIn(pool', job') = Range(pool')
        BY <1>4, <2>1 DEF HeldIn
    <3>2. Range(Tail(job.todo)) = {}
        BY <1>1, <2>1, HeadAndTail DEF IsPool
    <3>3. QED
        BY <1>1, <1>2, <1>3, <1>6, <3>1, <3>2 DEF RebuildOk
  <2>2. CASE Len(job.todo) # 1
    <3>1. job'.phase = "rebuild" /\ job'.todo = Tail(job.todo)
        BY <1>1, <1>4, <2>2 DEF Jobs
    <3>2. HeldIn(pool', job') = Range(pool') \cup Range(Tail(job.todo))
        BY <3>1 DEF HeldIn
    <3>3. HeldIn(pool', job') \subseteq H
        BY <1>1, <1>2, <1>6, <3>2
    <3>4. Cost(HeldIn(pool', job')) <= MaxPoolCost
      <4>1. /\ Cost(HeldIn(pool', job')) <= Cost(H)
            /\ Cost(HeldIn(pool', job')) \in Nat /\ Cost(H) \in Nat
          BY <1>5, <3>3, CostOfFewer
      <4>2. MaxPoolCost \in Nat
          BY MempoolAssumption
      <4>3. QED
          BY <1>1, <4>1, <4>2
    <3>5. Range(pool') \cap Range(Tail(job.todo)) = {}
        BY <1>1, <1>2, <1>6
    <3>6. QED
        BY <1>1, <1>2, <1>3, <3>1, <3>2, <3>3, <3>4, <3>5 DEF RebuildOk, IsPool
  <2>3. QED
      BY <2>1, <2>2
<1>8. ASSUME ValidOn(t, peak) PROVE t \in Range(pool')
  <2>1. t \in H /\ t \notin Range(pool)
      BY <1>1, <1>2
  <2>2. Conflicts(t, pool) = {}
    <3>1. \A u \in Range(pool) : Removals(u) \cap Removals(t) = {}
        BY <1>1, <2>1
    <3>2. QED
        BY <3>1 DEF Conflicts
  <2>3. FeeIsEnough(t, pool)
    <3>1. Range(pool) \in SUBSET Txs /\ IsFiniteSet(Range(pool)) /\ Range(pool) \cup {t} \subseteq H
        BY <1>1, <2>1, PoolIsFinite
    <3>2. Cost(Range(pool) \cup {t}) = Cost(Range(pool)) + Tx[t].cost
        BY <1>2, <2>1, <3>1, CostOfMore
    <3>3. /\ Cost(Range(pool) \cup {t}) <= Cost(H)
          /\ Cost(Range(pool) \cup {t}) \in Nat /\ Cost(H) \in Nat
        BY <1>5, <3>1, CostOfFewer
    <3>4. MaxPoolCost \in Nat
        BY MempoolAssumption
    <3>5. ~(Cost(Range(pool)) + Tx[t].cost > MaxPoolCost)
        BY <1>1, <3>2, <3>3, <3>4
    <3>6. QED
        BY <3>5 DEF FeeIsEnough, AtFullCapacity
  <2>4. LastTx[peak] = peak
    <3>1. IsLastTx(peak, peak)
        BY <1>1, LastTxSteps
    <3>2. QED
        BY <1>1, <3>1, LastTxIs, LastTxUnique
  <2>5. Status(t, pool, peakOfPool, peak) = "SUCCESS"
    <3>1. /\ peakOfPool # None /\ Tx[t].cost <= MaxBundleCost
          /\ KnowsCoins(t, peak) /\ ~SpendsSpent(t, peak) /\ TimeLocks(t, peakOfPool, peak) = "OK"
        BY <1>1, <1>8, <2>1, <2>4, MempoolAssumption DEF ValidOn
    <3>2. QED
        BY <1>2, <2>1, <2>2, <2>3, <3>1, SuccessMeans
  <2>6. QED
      BY <1>1, <1>2, <1>3, <2>5, PoolAfterIs
<1>9. ASSUME NEW u \in H \ HeldIn(pool', job') PROVE HasReason(u)
  <2>1. CASE u \in Range(pool)
    <3>1. u \in Range(pool) \ Range(pool')
        BY <1>7, <1>9, <2>1
    <3>2. QED
        BY <1>2, <1>3, <3>1, AddHasReason
  <2>2. CASE u \notin Range(pool)
    <3>1. u = t /\ u \notin Range(pool')
        BY <1>1, <1>2, <1>7, <1>9, <2>2
    <3>2. QED
        BY <1>3, <1>8, <3>1 DEF HasReason
  <2>3. QED
      BY <2>1, <2>2
<1>10. QED
    BY <1>6, <1>7, <1>9, HeldIs DEF ForAReason, H

(* The first step of new_peak drops what the new chain spent.              *)
LEMMA NewPeakHasReason ==
    ASSUME Inv, PoolIsValid, job = Idle, NEW b \in Blocks, NEW npc, NewPeak(b, npc), peak' = b,
           npc = None \/ npc = LastGenerator(peak, b)
    PROVE  ForAReason
<1>1. IsPool(pool) /\ job.phase = "idle" /\ HeldIn(pool, job) = Range(pool)
    BY IdleIs DEF Inv, PoolOk, HeldIn
<1>2. SUFFICES ASSUME NEW u \in Range(pool), u \notin HeldIn(pool', job') PROVE HasReason(u)
    BY <1>1, HeldIs DEF ForAReason
<1>3. u \notin Range(pool')
    BY <1>2 DEF HeldIn
<1>4. CASE Ignores(b)
    BY <1>3, <1>4 DEF NewPeak
<1>5. CASE ~Ignores(b) /\ UsesOptimization(b, npc)
  <2> DEFINE kicked == {t \in Range(pool) : Removals(t) \cap Block[npc].removals # {}}
  <2>1. pool' = Without(pool, kicked) /\ npc # None
      BY <1>5 DEF NewPeak, KickSpent, UsesOptimization
  <2>2. Range(pool') = Range(pool) \ kicked
      BY <1>1, <2>1, WithoutIsPool
  <2>3. u \in Txs /\ Removals(u) \cap Block[npc].removals # {}
      BY <1>1, <1>3, <2>2, PoolIsFinite
  <2>4. npc \in Ancestry[b]
      BY <2>1, LastGeneratorIs DEF PoolIsValid
  <2>5. SpendsSpent(u, b)
      BY <2>3, <2>4, KickedIsSpent
  <2>6. QED
      BY <2>5 DEF HasReason, ValidOn
<1>6. CASE ~Ignores(b) /\ ~UsesOptimization(b, npc)
  <2>1. pool # <<>>
      BY EmptyIsPool
  <2>2. job' = [phase |-> "rebuild", todo |-> pool, added |-> <<>>]
      BY <1>6, <2>1 DEF NewPeak, StartRebuild
  <2>3. QED
      BY <1>2, <2>2 DEF HeldIn
<1>7. QED
    BY <1>4, <1>5, <1>6

(* The other steps that add.                                               *)
LEMMA AddTransactionValid ==
    ASSUME Inv, PoolIsValid, RebuildOk, NEW t \in Txs, AddTransaction(t)
    PROVE  PoolIsValid' /\ RebuildOk' /\ ForAReason
<1>1. job = Idle /\ job' = job /\ peak' = peak /\ peakOfPool' = peakOfPool
    BY DEF AddTransaction
<1>2. /\ job.phase = "idle" /\ job'.phase = "idle"
      /\ HeldIn(pool, job) = Range(pool) /\ HeldIn(pool', job') = Range(pool')
    BY <1>1, IdleIs DEF HeldIn
<1>3. CASE t \in Range(pool)
  <2>1. pool' = pool /\ astray' = astray
      BY <1>3 DEF AddTransaction
  <2>2. QED
      BY <1>1, <1>2, <2>1, HeldIs DEF PoolIsValid, RebuildOk, ForAReason
<1>4. CASE t \notin Range(pool)
  <2>1. AddSpendBundle(t)
      BY <1>4 DEF AddTransaction
  <2>2. /\ PoolIsValid' /\ Range(pool') \subseteq Range(pool) \cup {t}
        /\ \A u \in Range(pool') \ Range(pool) : Tx[u].cost <= MaxBundleCost
      BY <1>1, <2>1, AddKeepsValid
  <2>3. RebuildOk'
      BY <1>2, <2>2 DEF RebuildOk
  <2>4. ForAReason
      BY <1>2, <2>1, HeldIs, AddHasReason DEF ForAReason
  <2>5. QED
      BY <2>2, <2>3, <2>4
<1>5. QED
    BY <1>3, <1>4

LEMMA RetryValid ==
    ASSUME Inv, PoolIsValid, RebuildOk, Retry
    PROVE  PoolIsValid' /\ RebuildOk' /\ ForAReason
<1> DEFINE t == Head(job.todo)
<1>1. /\ job \in Jobs /\ job.phase = "drain" /\ job.todo # <<>>
      /\ AddSpendBundle(t) /\ peak' = peak /\ peakOfPool' = peakOfPool
    BY DEF Inv, JobOk, Retry
<1>2. t \in Txs
  <2>1. job.todo \in Seq(Txs)
      BY <1>1 DEF Jobs
  <2>2. QED
      BY <1>1, <2>1, HeadAndTail
<1>3. job'.phase = "drain"
    BY <1>1 DEF Retry, Jobs
<1>4. HeldIn(pool, job) = Range(pool) /\ HeldIn(pool', job') = Range(pool')
    BY <1>1, <1>3 DEF HeldIn
<1> HIDE DEF t
<1>5. /\ PoolIsValid' /\ Range(pool') \subseteq Range(pool) \cup {t}
      /\ \A u \in Range(pool') \ Range(pool) : Tx[u].cost <= MaxBundleCost
    BY <1>1, <1>2, AddKeepsValid
<1>6. RebuildOk'
    BY <1>1, <1>3, <1>4, <1>5 DEF RebuildOk
<1>7. ForAReason
    BY <1>1, <1>2, <1>4, HeldIs, AddHasReason DEF ForAReason
<1>8. QED
    BY <1>5, <1>6, <1>7

(* Steps that leave the pool alone.                                        *)
LEMMA OtherValid ==
    ASSUME Inv, PoolIsValid, RebuildOk, pool' = pool, peakOfPool' = peakOfPool, astray' = astray,
           peak' \in Blocks, peak' = peak \/ job = Idle,
           job' = job \/ job' = Idle, job' # job /\ job.phase = "rebuild" => cancels' # cancels
    PROVE  PoolIsValid' /\ RebuildOk' /\ ForAReason
<1>1. PoolIsValid'
    BY DEF PoolIsValid
<1>2. CASE job' = job
  <2>1. RebuildOk'
      BY <1>2, IdleIs DEF RebuildOk
  <2>2. QED
      BY <1>1, <1>2, <2>1, HeldIs DEF ForAReason
<1>3. CASE job' = Idle
  <2>1. job'.phase = "idle" /\ HeldIn(pool', job') = Range(pool) /\ Range(pool) \subseteq HeldIn(pool, job)
      BY <1>3, IdleIs DEF HeldIn
  <2>2. RebuildOk'
      BY <2>1 DEF RebuildOk
  <2>3. ForAReason
    <3>1. CASE job.phase = "rebuild"
        BY <2>1, <3>1 DEF ForAReason, HasReason
    <3>2. CASE job.phase # "rebuild"
        BY <2>1, <3>2, HeldIs DEF HeldIn, ForAReason
    <3>3. QED
        BY <3>1, <3>2
  <2>4. QED
      BY <1>1, <2>2, <2>3
<1>4. QED
    BY <1>2, <1>3

LEMMA CancelsCount ==
    ASSUME cancels \in Nat, [Next]_vars
    PROVE  cancels' \in Nat
<1>1. cancels' = cancels \/ cancels' = cancels + 1
    BY DEF Next, vars, RespondTransaction, PreValidateFails, AddTransaction, RespondBlock, LongSync,
           Announce, FinishSync, Readd, Retry, EndPeak, CancelRespondBlock
<1>2. QED
    BY <1>1

LEMMA NextValid ==
    ASSUME Inv, PoolIsValid, RebuildOk, cancels \in Nat, [Next]_vars
    PROVE  PoolIsValid' /\ RebuildOk' /\ ForAReason
<1>0. peak \in Blocks
    BY DEF PoolIsValid
<1>1. CASE UNCHANGED vars
    BY <1>0, <1>1, OtherValid DEF vars
<1>2. ASSUME NEW t \in Txs, RespondTransaction(t) PROVE PoolIsValid' /\ RebuildOk' /\ ForAReason
    BY <1>0, <1>2, OtherValid DEF RespondTransaction
<1>3. ASSUME NEW t \in Txs, PreValidateFails(t) PROVE PoolIsValid' /\ RebuildOk' /\ ForAReason
    BY <1>0, <1>3, OtherValid DEF PreValidateFails
<1>4. ASSUME NEW t \in Txs, AddTransaction(t) PROVE PoolIsValid' /\ RebuildOk' /\ ForAReason
    BY <1>4, AddTransactionValid
<1>5. ASSUME NEW b \in Blocks, RespondBlock(b) PROVE PoolIsValid' /\ RebuildOk' /\ ForAReason
    BY <1>5, NewPeakValid, NewPeakHasReason DEF RespondBlock
<1>6. ASSUME NEW b \in Blocks, LongSync(b) PROVE PoolIsValid' /\ RebuildOk' /\ ForAReason
    BY <1>6, OtherValid DEF LongSync
<1>7. CASE FinishSync
    BY <1>0, <1>7, NewPeakValid, NewPeakHasReason DEF FinishSync
<1>8. CASE Readd
    BY <1>8, ReaddValid
<1>9. CASE Retry
    BY <1>9, RetryValid
<1>10. CASE EndPeak
    BY <1>0, <1>10, OtherValid DEF EndPeak
<1>11. CASE CancelRespondBlock
  <2>1. cancels' # cancels
      BY <1>11 DEF CancelRespondBlock
  <2>2. QED
      BY <1>0, <1>11, <2>1, OtherValid DEF CancelRespondBlock
<1>12. ASSUME NEW list \in reports, Announce(list) PROVE PoolIsValid' /\ RebuildOk' /\ ForAReason
    BY <1>0, <1>12, OtherValid DEF Announce
<1>13. QED
    BY <1>1, <1>2, <1>3, <1>4, <1>5, <1>6, <1>7, <1>8, <1>9, <1>10, <1>11, <1>12 DEF Next

ValidInv == Inv /\ PoolIsValid /\ RebuildOk /\ cancels \in Nat

LEMMA ValidInvHolds == Spec => []ValidInv
<1>1. Init => ValidInv
  <2>1. SUFFICES ASSUME Init PROVE PoolIsValid /\ RebuildOk /\ cancels \in Nat
      BY InitInv DEF ValidInv
  <2>2. /\ peak \in Blocks /\ peakOfPool = (IF Block[peak].isTx THEN peak ELSE None)
        /\ pool = <<>> /\ job = Idle /\ cancels = 0 /\ peak # None
    <3>1. peak \in StartPeaks /\ StartPeaks \subseteq Blocks /\ None \notin Blocks
        BY <2>1, MempoolAssumption DEF Init
    <3>2. QED
        BY <2>1, <3>1 DEF Init
  <2>3. Range(pool) = {} /\ job.phase = "idle" /\ HeldIn(pool, job) = {}
      BY <2>2, EmptyIsPool, IdleIs DEF HeldIn
  <2>4. QED
      BY <2>2, <2>3 DEF PoolIsValid, RebuildOk
<1>2. ValidInv /\ [Next]_vars => ValidInv'
    BY NextInv, NextValid, CancelsCount DEF ValidInv
<1>3. QED
    BY <1>1, <1>2, PTL DEF Spec

(* The order in which create_bundle_from_mempool takes the items.          *)
Ahead(p) == {e \in Range(p) \X Range(p) :
                \/ CheaperPerCost({e[2]}, {e[1]})
                \/ ~CheaperPerCost({e[1]}, {e[2]}) /\ Position(p, e[1]) < Position(p, e[2])}

LEMMA AheadIsOrder ==
    ASSUME NEW p, IsPool(p)
    PROVE  IsOrderOn(Ahead(p), Range(p))
<1> DEFINE B(t, u) == \/ CheaperPerCost({u}, {t})
                      \/ ~CheaperPerCost({t}, {u}) /\ Position(p, t) < Position(p, u)
<1>1. SUFFICES ASSUME NEW t \in Range(p), NEW u \in Range(p), NEW v \in Range(p)
               PROVE  ~B(t, t) /\ (B(t, u) /\ B(u, v) => B(t, v)) /\ (t # u => B(t, u) \/ B(u, t))
  <2>1. \A x, y \in Range(p) : <<x, y>> \in Ahead(p) <=> B(x, y)
      BY DEF Ahead
  <2> HIDE DEF B
  <2>2. QED
      BY <2>1 DEF IsOrderOn
<1>2. t \in Txs /\ u \in Txs /\ v \in Txs
    BY PoolIsFinite
<1>3. /\ Position(p, t) \in Nat /\ Position(p, u) \in Nat /\ Position(p, v) \in Nat
      /\ t # u => Position(p, t) # Position(p, u)
    BY PositionIs DEF IsPool
<1>4. ~B(t, t)
    BY <1>2, <1>3, CheaperIsOrder
<1>5. ASSUME B(t, u), B(u, v) PROVE B(t, v)
  <2>1. CASE CheaperPerCost({u}, {t}) /\ ~CheaperPerCost({u}, {v})
      BY <1>2, <2>1, CheaperIsOrder
  <2>2. CASE ~CheaperPerCost({t}, {u}) /\ CheaperPerCost({v}, {u})
      BY <1>2, <2>2, CheaperIsOrder
  <2>3. CASE /\ ~CheaperPerCost({t}, {u}) /\ Position(p, t) < Position(p, u)
             /\ ~CheaperPerCost({u}, {v}) /\ Position(p, u) < Position(p, v)
    <3>1. ~CheaperPerCost({t}, {v})
        BY <1>2, <2>3, CheaperIsOrder
    <3>2. Position(p, t) < Position(p, v)
        BY <1>3, <2>3
    <3>3. QED
        BY <3>1, <3>2
  <2>4. CheaperPerCost({v}, {u}) => ~CheaperPerCost({u}, {v})
      BY <1>2, CheaperIsOrder
  <2>5. CheaperPerCost({u}, {t}) => ~CheaperPerCost({t}, {u})
      BY <1>2, CheaperIsOrder
  <2>6. QED
      BY <1>5, <2>1, <2>2, <2>3, <2>4, <2>5
<1>6. ASSUME t # u PROVE B(t, u) \/ B(u, t)
    BY <1>3, <1>6
<1>7. QED
    BY <1>4, <1>5, <1>6

(* The bundle is the part of the pool up to its last item, which fits.     *)
LEMMA BundleFits ==
    ASSUME NEW p, IsPool(p)
    PROVE  Cost(CreateBundle(p)) <= MaxBundleCost /\ CreateBundle(p) \subseteq Range(p)
<1> DEFINE S == Range(p)
           R == Ahead(p)
           I == {t \in S : Cost(UpTo(R, S, t)) <= MaxBundleCost}
<1>1. CreateBundle(p) = I
  <2>1. \A t, u \in S : <<u, t>> \in R <=> \/ CheaperPerCost({t}, {u})
                                           \/ ~CheaperPerCost({u}, {t}) /\ Position(p, u) < Position(p, t)
      BY DEF Ahead
  <2>2. \A t \in S : UpTo(R, S, t) =
            {u \in S : u = t \/ (\/ CheaperPerCost({t}, {u})
                                 \/ ~CheaperPerCost({u}, {t}) /\ Position(p, u) < Position(p, t))}
      BY <2>1 DEF UpTo
  <2> HIDE DEF R
  <2>3. QED
      BY <2>2 DEF CreateBundle
<1>2. IsFiniteSet(S) /\ S \in SUBSET Txs /\ IsOrderOn(R, S) /\ MaxBundleCost \in Nat
    BY PoolIsFinite, AheadIsOrder, MempoolAssumption
<1> HIDE DEF R, S
<1>3. ASSUME NEW u \in I, NEW v \in S, <<v, u>> \in R PROVE v \in I
  <2>1. UpTo(R, S, v) \subseteq UpTo(R, S, u)
      BY <1>2, <1>3 DEF UpTo, IsOrderOn
  <2>2. UpTo(R, S, u) \in SUBSET Txs /\ IsFiniteSet(UpTo(R, S, u))
      BY <1>2, FS_Subset DEF UpTo
  <2>3. /\ Cost(UpTo(R, S, v)) <= Cost(UpTo(R, S, u))
        /\ Cost(UpTo(R, S, v)) \in Nat /\ Cost(UpTo(R, S, u)) \in Nat
      BY <2>1, <2>2, CostOfFewer
  <2>4. Cost(UpTo(R, S, u)) <= MaxBundleCost
      OBVIOUS
  <2>5. QED
      BY <1>2, <2>3, <2>4
<1>4. CASE I = {}
    BY <1>1, <1>2, <1>4, CostOfNone
<1>5. CASE I # {}
  <2>1. PICK m \in I : I = UpTo(R, S, m)
    <3>1. I \in SUBSET S /\ \A u \in I, v \in S : <<v, u>> \in R => v \in I
        BY <1>3
    <3> HIDE DEF I
    <3>2. QED
        BY <1>2, <1>5, <3>1, SegmentIsUpTo
  <2>2. Cost(UpTo(R, S, m)) <= MaxBundleCost
      OBVIOUS
  <2>3. QED
      BY <1>1, <2>1, <2>2 DEF S
<1>6. QED
    BY <1>1, <1>4, <1>5 DEF S

(* What create_bundle_from_mempool puts into the next block is valid on    *)
(* top of the peak and within the cost limit, for every tree of blocks,    *)
(* every set of spend bundles and all limits, whatever reorganisations,    *)
(* syncs and cancelled updates came before: new_peak's optimisation keeps  *)
(* only what the one new generator does not spend, and locks that were     *)
(* open stay open along a chain.                                           *)
THEOREM BundleIsValidTheorem == Spec => []BundleIsValid
<1>1. ValidInv => BundleIsValid
  <2>1. SUFFICES ASSUME ValidInv, peakOfPool = LastTx[peak]
                 PROVE  /\ Cost(CreateBundle(pool)) <= MaxBundleCost
                        /\ \A t \in CreateBundle(pool) : ValidOn(t, peak) \/ t \in astray
      BY DEF BundleIsValid
  <2>2. /\ Cost(CreateBundle(pool)) <= MaxBundleCost /\ CreateBundle(pool) \subseteq Range(pool)
        /\ PoolIsValid /\ peak \in Blocks
      BY <2>1, BundleFits DEF ValidInv, Inv, PoolOk, PoolIsValid
  <2>3. ASSUME NEW t \in Range(pool), t \notin astray PROVE ValidOn(t, peak)
    <3>1. peakOfPool # None /\ ValidAt(t, peakOfPool)
        BY <2>2, <2>3 DEF PoolIsValid
    <3>2. QED
        BY <2>1, <2>2, <3>1, ValidAtLastTx
  <2>4. QED
      BY <2>2, <2>3
<1>2. QED
    BY <1>1, ValidInvHolds, PTL

(* An accepted transaction leaves the pool only for one of the reasons of  *)
(* LeavesForAReason, with the same generality: in particular a rebuild     *)
(* brings back every item that could still be in a block.                  *)
THEOREM LeavesTheorem == Spec => LeavesForAReason
<1>1. ValidInv /\ [Next]_vars => [ForAReason]_vars
    BY NextValid DEF ValidInv
<1>2. QED
    BY <1>1, ValidInvHolds, PTL DEF Spec, LeavesForAReason
================================================================================
