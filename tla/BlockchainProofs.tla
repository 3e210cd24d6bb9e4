---------------------------- MODULE BlockchainProofs ---------------------------
(***************************************************************************)
(* What receive_block keeps true of the database and of the memory, for    *)
(* every tree of blocks, every order of arrival, and crashes at any point. *)
(***************************************************************************)
EXTENDS Blockchain, NaturalsInduction, WellFoundedInduction, TLAPS

--------------------------------------------------------------------------------
(* The tree of blocks.                                                     *)

(* Chains that meet at a height agree below it.                            *)
LEMMA AgreeBelow ==
    ASSUME NEW a \in Blocks, NEW b \in Blocks, NEW h \in Int,
           h <= Height[a], h <= Height[b],
           h >= 0 => Chain[a][h] = Chain[b][h]
    PROVE  Agree(a, b, h)
<1>1. CASE h < 0
    BY <1>1 DEF Agree
<1>2. CASE h >= 0
  <2>1. \A i \in 0..h : Chain[Chain[a][h]][i] = Chain[a][i] /\ Chain[Chain[b][h]][i] = Chain[b][i]
      BY <1>2, ChainAssumption
  <2>2. QED
      BY <1>2, <2>1 DEF Agree
<1>3. QED
    BY <1>1, <1>2

(* A block agrees with its parent up to the height of the parent.          *)
LEMMA PrevAgrees ==
    ASSUME NEW b \in Blocks, Height[b] > 0
    PROVE  Prev(b) \in Blocks /\ Height[Prev(b)] = Height[b] - 1 /\ Agree(Prev(b), b, Height[b] - 1)
<1>1. Prev(b) \in Blocks /\ Height[Prev(b)] = Height[b] - 1
    BY ChainAssumption DEF Prev
<1>2. Chain[Prev(b)][Height[b] - 1] = Chain[b][Height[b] - 1]
    BY <1>1, ChainAssumption DEF Prev
<1>3. QED
    BY <1>1, <1>2, AgreeBelow, ChainAssumption

--------------------------------------------------------------------------------
(* The coin table.                                                         *)

(* Chains that agree up to h leave the same coins at h.                    *)
LEMMA ReplayAgree ==
    ASSUME NEW a \in Blocks, NEW b \in Blocks, NEW h \in Int, NEW d,
           Agree(a, b, h), CoinsReplay(d, a, h)
    PROVE  CoinsReplay(d, b, h)
<1>1. \A c \in Coins : CreatedAt(c, a, h) = CreatedAt(c, b, h) /\ SpentAt(c, a, h) = SpentAt(c, b, h)
    BY DEF Agree, CreatedAt, SpentAt
<1>2. QED
    BY <1>1 DEF CoinsReplay

(***************************************************************************)
(* rollback_to_block takes the coin table back to what it was at height h. *)
(***************************************************************************)
LEMMA ReplayRollback ==
    ASSUME NEW b \in Blocks, NEW h \in -1..Height[b], NEW d \in Database,
           CoinsReplay(d, b, Height[b]), SpentAfterCreated(d)
    PROVE  /\ CoinsReplay(RollbackToBlock(d, h), b, h)
           /\ SpentAfterCreated(RollbackToBlock(d, h))
           /\ RollbackToBlock(d, h) \in Database
<1> DEFINE r == RollbackToBlock(d, h)
<1>1. Height[b] \in Nat
    BY ChainAssumption
<1>2. /\ r.stored = d.stored /\ r.inMain = d.inMain /\ r.peak = d.peak
      /\ r \in Database
      /\ \A c \in Coins :
          /\ r.conf[c] = IF d.conf[c] > h THEN -1 ELSE d.conf[c]
          /\ r.spent[c] = IF d.conf[c] > h \/ d.spent[c] > h THEN 0 ELSE d.spent[c]
  <2> DEFINE cf == [c \in Coins |-> IF d.conf[c] > h THEN -1 ELSE d.conf[c]]
             sp == [c \in Coins |-> IF d.conf[c] > h \/ d.spent[c] > h THEN 0 ELSE d.spent[c]]
  <2>1. cf \in [Coins -> Int] /\ sp \in [Coins -> Nat]
      BY DEF Database
  <2>2. r = [d EXCEPT !.conf = cf, !.spent = sp]
      BY DEF RollbackToBlock
  <2> HIDE DEF cf, sp, r
  <2>3. r \in Database /\ r.conf = cf /\ r.spent = sp
        /\ r.stored = d.stored /\ r.inMain = d.inMain /\ r.peak = d.peak
      BY <2>1, <2>2 DEF Database
  <2>4. QED
      BY <2>3 DEF cf, sp
<1>3. ASSUME NEW c \in Coins
      PROVE  /\ CreatedAt(c, b, h) = IF r.conf[c] = -1 THEN {} ELSE {r.conf[c]}
             /\ SpentAt(c, b, h) = IF r.spent[c] = 0 THEN {} ELSE {r.spent[c]}
  <2>1. CreatedAt(c, b, h) = {i \in CreatedAt(c, b, Height[b]) : i <= h}
      BY <1>1 DEF CreatedAt
  <2>2. SpentAt(c, b, h) = {i \in SpentAt(c, b, Height[b]) : i <= h}
      BY <1>1 DEF SpentAt
  <2>3. /\ CreatedAt(c, b, Height[b]) = IF d.conf[c] = -1 THEN {} ELSE {d.conf[c]}
        /\ SpentAt(c, b, Height[b]) = IF d.spent[c] = 0 THEN {} ELSE {d.spent[c]}
        /\ d.spent[c] # 0 => d.conf[c] # -1 /\ d.conf[c] <= d.spent[c]
        /\ d.conf[c] \in Int /\ d.spent[c] \in Nat
      BY DEF CoinsReplay, SpentAfterCreated, Database
  <2>4. CreatedAt(c, b, h) = IF r.conf[c] = -1 THEN {} ELSE {r.conf[c]}
      BY <1>2, <2>1, <2>3
  <2>5. SpentAt(c, b, h) = IF r.spent[c] = 0 THEN {} ELSE {r.spent[c]}
      BY <1>2, <2>2, <2>3
  <2>6. QED
      BY <2>4, <2>5
<1>4. SpentAfterCreated(r)
    BY <1>2 DEF SpentAfterCreated, Database
<1>5. QED
    BY <1>2, <1>3, <1>4 DEF CoinsReplay

(***************************************************************************)
(* new_block takes the coin table from height h - 1 to height h.           *)
(***************************************************************************)
LEMMA ReplayNewBlock ==
    ASSUME NEW b \in Blocks, NEW h \in 0..Height[b], NEW d \in Database,
           CoinsReplay(d, b, h - 1), SpentAfterCreated(d),
           IsTx[Chain[b][h]] => CanApply(d, Chain[b][h])
    PROVE  LET n == IF IsTx[Chain[b][h]] THEN NewBlock(d, Chain[b][h]) ELSE d
           IN  CoinsReplay(n, b, h) /\ SpentAfterCreated(n) /\ n \in Database
               /\ n.stored = d.stored /\ n.inMain = d.inMain /\ n.peak = d.peak
<1> DEFINE x == Chain[b][h]
           n == IF IsTx[x] THEN NewBlock(d, x) ELSE d
<1>1. x \in Blocks /\ Height[x] = h /\ Height[b] \in Nat
    BY ChainAssumption
<1>2. /\ ~IsTx[x] => Removals[x] = {} /\ Adds(x) = {}
      /\ h = 0 => Removals[x] = {}
      /\ Adds(x) \subseteq Coins /\ Removals[x] \subseteq Coins
    BY <1>1, CoinsAssumption DEF Adds
<1> HIDE DEF x
<1>3. /\ n.stored = d.stored /\ n.inMain = d.inMain /\ n.peak = d.peak /\ n \in Database
      /\ \A c \in Coins : /\ n.conf[c] = IF c \in Adds(x) THEN h ELSE d.conf[c]
                          /\ n.spent[c] = IF c \in Removals[x] THEN h ELSE d.spent[c]
  <2> DEFINE cf == [c \in Coins |-> IF c \in Adds(x) THEN Height[x] ELSE d.conf[c]]
             sp == [c \in Coins |-> IF c \in Removals[x] THEN Height[x] ELSE d.spent[c]]
  <2>1. cf \in [Coins -> Int] /\ sp \in [Coins -> Nat]
    <3>1. d.conf \in [Coins -> Int] /\ d.spent \in [Coins -> Nat] /\ Height[x] \in Nat
        BY <1>1 DEF Database
    <3>2. QED
        BY <3>1
  <2>2. NewBlock(d, x) = [d EXCEPT !.conf = cf, !.spent = sp]
      BY DEF NewBlock
  <2>3. \A c \in Coins : /\ cf[c] = IF c \in Adds(x) THEN h ELSE d.conf[c]
                         /\ sp[c] = IF c \in Removals[x] THEN h ELSE d.spent[c]
      BY <1>1
  <2> HIDE DEF cf, sp
  <2>4. CASE IsTx[x]
    <3>1. n = [d EXCEPT !.conf = cf, !.spent = sp]
        BY <2>2, <2>4
    <3> HIDE DEF n
    <3>2. n \in Database /\ n.conf = cf /\ n.spent = sp
          /\ n.stored = d.stored /\ n.inMain = d.inMain /\ n.peak = d.peak
        BY <2>1, <3>1 DEF Database
    <3>3. QED
        BY <3>2, <2>3
  <2>5. CASE ~IsTx[x]
      BY <2>5, <1>2
  <2>6. QED
      BY <2>4, <2>5
<1>4. /\ \A c \in Adds(x) : d.conf[c] = -1
      /\ \A c \in Removals[x] : (c \in Adds(x) \/ d.conf[c] # -1) /\ d.spent[c] = 0
    BY <1>2 DEF CanApply, x
<1>5. ASSUME NEW c \in Coins
      PROVE  /\ CreatedAt(c, b, h) = IF n.conf[c] = -1 THEN {} ELSE {n.conf[c]}
             /\ SpentAt(c, b, h) = IF n.spent[c] = 0 THEN {} ELSE {n.spent[c]}
  <2>1. CreatedAt(c, b, h) = CreatedAt(c, b, h - 1) \cup (IF c \in Adds(x) THEN {h} ELSE {})
      BY <1>1 DEF CreatedAt, x
  <2>2. SpentAt(c, b, h) = SpentAt(c, b, h - 1) \cup (IF c \in Removals[x] THEN {h} ELSE {})
      BY <1>1 DEF SpentAt, x
  <2>3. /\ CreatedAt(c, b, h - 1) = IF d.conf[c] = -1 THEN {} ELSE {d.conf[c]}
        /\ SpentAt(c, b, h - 1) = IF d.spent[c] = 0 THEN {} ELSE {d.spent[c]}
      BY DEF CoinsReplay
  <2>4. QED
      BY <1>2, <1>3, <1>4, <2>1, <2>2, <2>3
<1>6. SpentAfterCreated(n)
  <2>1. ASSUME NEW c \in Coins, n.spent[c] # 0
        PROVE  n.conf[c] # -1 /\ n.conf[c] <= n.spent[c]
    <3>1. d.conf[c] # -1 => d.conf[c] \in 0..(h - 1)
        BY DEF CoinsReplay, CreatedAt
    <3>2. d.spent[c] # 0 => d.conf[c] # -1 /\ d.conf[c] <= d.spent[c]
        BY DEF SpentAfterCreated
    <3>3. QED
        BY <1>2, <1>3, <1>4, <2>1, <3>1, <3>2
  <2>2. QED
      BY <2>1 DEF SpentAfterCreated
<1>7. QED
    BY <1>3, <1>5, <1>6 DEF CoinsReplay, x

--------------------------------------------------------------------------------
(* Memory and database.                                                    *)

(* get_peak() returns the committed peak between two calls.                *)
LEMMA GetPeakIsPeak ==
    ASSUME db.peak \in Blocks \cup {NoBlock}, MapIs(db.peak), PeakHeightIs(db.peak)
    PROVE  GetPeak = db.peak
<1>1. CASE db.peak = NoBlock
    BY <1>1 DEF GetPeak, PeakHeightIs
<1>2. CASE db.peak \in Blocks
    BY <1>2, ChainAssumption DEF GetPeak, MapIs, PeakHeightIs
<1>3. QED
    BY <1>1, <1>2

(* A fork height at which the chains agree: blocks_to_add starts after it. *)
LEMMA FirstAfterFork ==
    ASSUME NEW b \in Blocks, NEW f \in -1..Height[b],
           db.peak \in Blocks \cup {NoBlock}, MapIs(db.peak),
           db.peak = NoBlock => f = -1,
           db.peak # NoBlock => Agree(db.peak, b, f)
    PROVE  FirstToAdd(b, f) = f + 1
<1>1. CASE f = -1
  <2>1. f \notin DOMAIN heightMap
      BY <1>1, ChainAssumption DEF MapIs, Empty
  <2>2. QED
      BY <1>1, <2>1 DEF FirstToAdd
<1>2. CASE f # -1
  <2>1. heightMap = Chain[db.peak] /\ DOMAIN heightMap = 0..Height[db.peak]
      BY <1>2, ChainAssumption DEF MapIs
  <2>2. f \in 0..Height[db.peak] /\ f <= Height[b] /\ Chain[db.peak][f] = Chain[b][f]
      BY <1>2, ChainAssumption DEF Agree
  <2>3. QED
      BY <2>1, <2>2 DEF FirstToAdd
<1>3. QED
    BY <1>1, <1>2

--------------------------------------------------------------------------------
(* One lemma per action.                                                   *)

LEMMA InitInv == Init => Inv
<1> SUFFICES ASSUME Init PROVE Inv
    OBVIOUS
<1>1. EmptyDatabase \in Database /\ EmptyDatabase.peak = NoBlock
    BY DEF EmptyDatabase, Database
<1>2. TypeOK
  <2>1. DOMAIN heightMap = {} /\ summary \in BOOLEAN
      BY DEF Init, Empty
  <2>2. QED
      BY <1>1, <2>1 DEF Init, TypeOK
<1>3. ~summary
    BY DEF Init
<1>4. db.peak = NoBlock /\ db = EmptyDatabase
    BY <1>1 DEF Init
<1>5. DatabaseOk(db) /\ PeakInRecords
    BY <1>4 DEF DatabaseOk, PeakInRecords
<1>6. Idle
    BY <1>4 DEF Init, Idle, MapIs, PeakHeightIs
<1>7. Applying /\ Committing /\ Committed
    BY DEF Init, Applying, Committing, Committed
<1>8. QED
    BY <1>2, <1>3, <1>5, <1>6, <1>7 DEF Inv

LEMMA ReceiveGenesisInv ==
    ASSUME Inv, NEW b \in Blocks, ReceiveGenesis(b)
    PROVE  Inv'
<1>1. pc = "idle" /\ db.peak \in Blocks \cup {NoBlock} /\ records \subseteq db.stored
      /\ MapIs(db.peak) /\ PeakHeightIs(db.peak)
    BY DEF ReceiveGenesis, Accepts, Inv, Idle, TypeOK, Database
<1>2. db.peak = NoBlock
    BY <1>1, GetPeakIsPeak DEF ReceiveGenesis
<1>3. db = EmptyDatabase /\ Height[b] = 0
    BY <1>2 DEF Inv, DatabaseOk, ReceiveGenesis
<1>4. txn' \in Database /\ txn'.stored = db.stored \cup {b} /\ txn'.inMain = db.inMain
      /\ txn'.peak = db.peak /\ txn'.conf = db.conf /\ txn'.spent = db.spent
    BY DEF ReceiveGenesis, AddFullBlock, Inv, TypeOK, Database
<1>5. CoinsReplay(txn', b, -1) /\ SpentAfterCreated(txn')
    BY <1>3, <1>4 DEF EmptyDatabase, CoinsReplay, SpentAfterCreated, CreatedAt, SpentAt
<1>6. TypeOK'
    BY <1>4 DEF ReceiveGenesis, Inv, TypeOK, memory
<1>7. Applying'
  <2>1. Chain[b][0] = b
      BY <1>3, ChainAssumption
  <2>2. QED
      BY <1>1, <1>2, <1>3, <1>4, <1>5, <2>1 DEF ReceiveGenesis, Applying, MapIs, PeakHeightIs, memory
<1>8. DatabaseOk(db') /\ PeakInRecords' /\ Idle' /\ Committing' /\ Committed'
    BY DEF ReceiveGenesis, memory, Inv, PeakInRecords, Idle, Committing, Committed
<1>9. ~summary'
    BY <1>1 DEF ReceiveGenesis, Inv
<1>10. QED
    BY <1>6, <1>7, <1>8, <1>9 DEF Inv

(* What holds when receive_block begins.                                   *)
LEMMA AtIdle ==
    ASSUME Inv, pc = "idle"
    PROVE  /\ db \in Database /\ db.peak \in Blocks \cup {NoBlock}
           /\ records \subseteq db.stored /\ MapIs(db.peak) /\ PeakHeightIs(db.peak)
           /\ GetPeak = db.peak /\ DatabaseOk(db) /\ PeakInRecords /\ ~summary
<1>1. /\ db \in Database /\ db.peak \in Blocks \cup {NoBlock}
      /\ records \subseteq db.stored /\ MapIs(db.peak) /\ PeakHeightIs(db.peak)
      /\ DatabaseOk(db) /\ PeakInRecords
    BY DEF Inv, Idle, TypeOK, Database
<1>2. ~summary
    BY DEF Inv
<1>3. QED
    BY <1>1, <1>2, GetPeakIsPeak

LEMMA ReceiveOrphanInv ==
    ASSUME Inv, NEW b \in Blocks, NEW arg, ReceiveOrphan(b, arg)
    PROVE  Inv'
<1>1. pc = "idle" /\ GetPeak # NoBlock
    BY DEF ReceiveOrphan, Accepts
<1>2. /\ db \in Database /\ db.peak \in Blocks
      /\ records \subseteq db.stored /\ MapIs(db.peak) /\ PeakHeightIs(db.peak)
      /\ GetPeak = db.peak /\ DatabaseOk(db) /\ db.peak \in records /\ ~summary
    BY <1>1, AtIdle DEF PeakInRecords
<1>3. txn' \in Database /\ txn'.stored = db.stored \cup {b} /\ txn'.inMain = db.inMain
      /\ txn'.peak = db.peak /\ txn'.conf = db.conf /\ txn'.spent = db.spent
    BY <1>2 DEF ReceiveOrphan, AddFullBlock, Database
(* Another first block is not heavier than the one the peak descends from. *)
<1>4. Weight[b] <= Weight[db.peak]
  <2>1. CASE ~IsHeavier(b)
      BY <1>2, <2>1, WeightAssumption DEF IsHeavier
  <2>2. CASE Height[b] = 0
    <3>1. Chain[db.peak][0] \in Blocks /\ Height[Chain[db.peak][0]] = 0
          /\ Height[db.peak] \in Nat /\ (Height[db.peak] = 0 => Chain[db.peak][0] = db.peak)
        BY <1>2, ChainAssumption
    <3>2. Weight[b] = Weight[Chain[db.peak][0]]
        BY <2>2, <3>1, WeightAssumption
    <3>3. QED
        BY <1>2, <3>1, <3>2, WeightAssumption
  <2>3. QED
      BY <2>1, <2>2 DEF ReceiveOrphan
<1>5. DatabaseOk(txn')
  <2>1. /\ CoinsReplay(db, db.peak, Height[db.peak]) /\ SpentAfterCreated(db)
        /\ db.inMain = PathOf(db.peak) /\ PathOf(db.peak) \subseteq db.stored
        /\ \A x \in db.stored : Weight[x] <= Weight[db.peak]
        /\ db.peak # NoBlock
      BY <1>2, ChainAssumption DEF DatabaseOk
  <2>2. CoinsReplay(txn', db.peak, Height[db.peak]) /\ SpentAfterCreated(txn')
      BY <1>3, <2>1 DEF CoinsReplay, SpentAfterCreated
  <2>3. QED
      BY <1>3, <1>4, <2>1, <2>2 DEF DatabaseOk
<1>6. TypeOK'
  <2>1. summary' \in BOOLEAN
      BY DEF ReceiveOrphan, Inv, TypeOK
  <2>2. QED
      BY <1>3, <2>1 DEF ReceiveOrphan, Inv, TypeOK
<1>7. Committing'
    BY <1>2, <1>3, <1>5, ChainAssumption
       DEF ReceiveOrphan, Committing, MapIs, PeakHeightIs
<1>8. DatabaseOk(db') /\ PeakInRecords' /\ Idle' /\ Applying' /\ Committed'
    BY <1>2 DEF ReceiveOrphan, PeakInRecords, Idle, Applying, Committed
<1>9. ~summary'
    BY <1>2 DEF ReceiveOrphan
<1>10. QED
    BY <1>6, <1>7, <1>8, <1>9 DEF Inv

(* The fork height of a heavier block is one at which the chains agree.    *)
LEMMA ForkHeightAgrees ==
    ASSUME Undisturbed, NEW b \in Blocks, NEW p \in Blocks, NEW arg \in ForkArgs \cup {NoForkArg},
           NEW f \in ForkArgs \cup -1..Height[b],
           GetPeak = p, heightMap = Chain[p], Height[b] > 0, Weight[b] > Weight[p],
           IsForkArg(b, arg), IsForkHeight(b, arg, f)
    PROVE  f \in -1..(Height[b] - 1) /\ Agree(p, b, f)
<1>1. CASE Prev(b) = p
  <2>1. f = Height[b] - 1 /\ Agree(p, b, Height[b] - 1)
      BY <1>1, PrevAgrees DEF IsForkHeight
  <2>2. QED
      BY <2>1, ChainAssumption
<1>2. CASE Prev(b) # p /\ arg # NoForkArg
  <2>1. f = arg /\ f \in Nat
      BY <1>2, ParametersAssumption DEF IsForkHeight, NoForkArg
  <2>2. f \in 0..Height[p] /\ f < Height[b] /\ Chain[p][f] = Chain[b][f]
      BY <1>2, <2>1, ChainAssumption DEF IsForkArg, Undisturbed
  <2>3. QED
      BY <2>1, <2>2, AgreeBelow, ChainAssumption
<1>3. CASE Prev(b) # p /\ arg = NoForkArg
  <2>1. f \in -1..Height[b] /\ f <= Height[p] /\ (f >= 0 => Chain[b][f] = Chain[p][f])
      BY <1>3 DEF IsForkHeight, IsForkPoint
  (* The block itself is not on the chain of the peak: it is heavier.      *)
  <2>2. f # Height[b]
    <3>1. SUFFICES ASSUME f = Height[b] PROVE FALSE
        OBVIOUS
    <3>2. Chain[p][Height[b]] = b /\ Height[b] \in 0..Height[p]
        BY <2>1, <3>1, ChainAssumption
    <3>3. QED
        BY <3>2, WeightAssumption, ChainAssumption
  <2>3. QED
      BY <2>1, <2>2, AgreeBelow, ChainAssumption
<1>4. QED
    BY <1>1, <1>2, <1>3

LEMMA ReceiveHeavierInv ==
    ASSUME Undisturbed, Inv, NEW b \in Blocks, NEW arg \in ForkArgs \cup {NoForkArg},
           IsForkArg(b, arg), ReceiveHeavier(b, arg)
    PROVE  Inv'
<1>1. pc = "idle" /\ GetPeak # NoBlock
    BY DEF ReceiveHeavier, Accepts
<1>2. /\ db \in Database /\ db.peak \in Blocks /\ db.peak # NoBlock
      /\ records \subseteq db.stored /\ MapIs(db.peak) /\ PeakHeightIs(db.peak)
      /\ GetPeak = db.peak /\ DatabaseOk(db) /\ PeakInRecords /\ ~summary
      /\ Height[b] > 0 /\ Weight[b] > Weight[db.peak]
    BY <1>1, AtIdle DEF ReceiveHeavier, IsHeavier
<1>3. PICK f \in ForkArgs \cup -1..Height[b] :
        /\ IsForkHeight(b, arg, f)
        /\ fork' = f
        /\ next' = FirstToAdd(b, f)
        /\ txn' = IF Prev(b) = GetPeak THEN AddFullBlock(db, b)
                  ELSE RollbackToBlock(AddFullBlock(db, b), f)
        /\ \A i \in FirstToAdd(b, f)..Height[b] : Chain[b][i] \in txn'.stored
    BY DEF ReceiveHeavier
<1>4. f \in -1..(Height[b] - 1) /\ Agree(db.peak, b, f)
    BY <1>2, <1>3, ForkHeightAgrees DEF MapIs
<1>5. FirstToAdd(b, f) = f + 1
    BY <1>2, <1>4, FirstAfterFork, ChainAssumption
<1> DEFINE d == AddFullBlock(db, b)
<1>6. /\ d \in Database /\ d.stored = db.stored \cup {b} /\ d.inMain = db.inMain
      /\ d.peak = db.peak /\ d.conf = db.conf /\ d.spent = db.spent
    BY <1>2 DEF AddFullBlock, Database
<1>7. CoinsReplay(d, db.peak, Height[db.peak]) /\ SpentAfterCreated(d)
  <2>1. CoinsReplay(db, db.peak, Height[db.peak]) /\ SpentAfterCreated(db)
      BY <1>2 DEF DatabaseOk
  <2>2. QED
      BY <1>6, <2>1 DEF CoinsReplay, SpentAfterCreated
<1> HIDE DEF d
<1>8. /\ txn' \in Database /\ txn'.stored = d.stored /\ txn'.inMain = d.inMain /\ txn'.peak = d.peak
      /\ CoinsReplay(txn', b, f) /\ SpentAfterCreated(txn')
  <2>1. CASE Prev(b) = GetPeak
    <3>1. f = Height[db.peak] /\ txn' = d
        BY <1>2, <1>3, <2>1 DEF IsForkHeight, d
    <3>2. CoinsReplay(d, b, f)
        BY <1>2, <1>4, <1>7, <3>1, ReplayAgree
    <3>3. QED
        BY <1>6, <1>7, <3>1, <3>2
  <2>2. CASE Prev(b) # GetPeak
    <3>1. txn' = RollbackToBlock(d, f)
        BY <1>3, <2>2 DEF d
    <3>2. f \in -1..Height[db.peak]
        BY <1>4 DEF Agree
    <3>3. CoinsReplay(txn', db.peak, f) /\ SpentAfterCreated(txn') /\ txn' \in Database
        BY <1>2, <1>6, <1>7, <3>1, <3>2, ReplayRollback
    <3>4. CoinsReplay(txn', b, f)
        BY <1>2, <1>4, <3>3, ReplayAgree
    <3>5. txn'.stored = d.stored /\ txn'.inMain = d.inMain /\ txn'.peak = d.peak
        BY <1>6, <3>1 DEF RollbackToBlock, Database
    <3>6. QED
        BY <3>3, <3>4, <3>5
  <2>3. QED
      BY <2>1, <2>2
<1>9. TypeOK'
  <2>1. summary' \in BOOLEAN
      BY DEF ReceiveHeavier, Inv, TypeOK
  <2>2. QED
      BY <1>3, <1>4, <1>5, <1>8, <2>1 DEF ReceiveHeavier, Inv, TypeOK, memory
<1>10. Applying'
  <2>1. /\ pc' = "apply" /\ block' = b /\ fork' = f /\ next' = f + 1 /\ next' - 1 = f
        /\ db' = db /\ records' = records /\ heightMap' = heightMap /\ peakHeight' = peakHeight
      BY <1>3, <1>4, <1>5 DEF ReceiveHeavier, memory
  <2>2. f + 1 \in (f + 1)..(Height[b] + 1)
      BY <1>4, ChainAssumption
  <2>3. QED
      BY <1>2, <1>3, <1>4, <1>5, <1>6, <1>8, <2>1, <2>2 DEF Applying, MapIs, PeakHeightIs
<1>11. DatabaseOk(db') /\ PeakInRecords' /\ Idle' /\ Committing' /\ Committed'
    BY <1>2 DEF ReceiveHeavier, memory, PeakInRecords, Idle, Committing, Committed
<1>12. ~summary'
    BY <1>2 DEF ReceiveHeavier
<1>13. QED
    BY <1>9, <1>10, <1>11, <1>12 DEF Inv

(* What holds in the loop over blocks_to_add.                              *)
LEMMA AtApply ==
    ASSUME Inv, pc = "apply"
    PROVE  /\ db \in Database /\ txn \in Database /\ block \in Blocks /\ Height[block] \in Nat
           /\ fork \in -1..(Height[block] - 1) /\ next \in (fork + 1)..(Height[block] + 1)
           /\ DatabaseOk(db) /\ PeakInRecords /\ ~summary
           /\ records \subseteq db.stored /\ MapIs(db.peak) /\ PeakHeightIs(db.peak)
           /\ txn.stored = db.stored \cup {block}
           /\ txn.inMain = db.inMain /\ txn.peak = db.peak
           /\ \A i \in (fork + 1)..Height[block] : Chain[block][i] \in txn.stored
           /\ CoinsReplay(txn, block, next - 1) /\ SpentAfterCreated(txn)
           /\ IF db.peak = NoBlock THEN Height[block] = 0 /\ fork = -1
              ELSE /\ Height[block] > 0 /\ Weight[block] > Weight[db.peak]
                   /\ Agree(db.peak, block, fork)
<1>1. ~summary
    BY DEF Inv
<1>2. db \in Database /\ txn \in Database /\ DatabaseOk(db) /\ PeakInRecords
    BY DEF Inv, TypeOK
<1>3. Applying
    BY DEF Inv
<1>4. QED
    BY <1>1, <1>2, <1>3, ChainAssumption DEF Applying

LEMMA ApplyBlockInv ==
    ASSUME Inv, ApplyBlock
    PROVE  Inv'
<1> DEFINE b == Chain[block][next]
<1>1. /\ pc = "apply" /\ next <= Height[block]
      /\ IsTx[b] => CanApply(txn, b)
      /\ txn' = IF IsTx[b] THEN NewBlock(txn, b) ELSE txn
      /\ next' = next + 1
      /\ db' = db /\ records' = records /\ heightMap' = heightMap /\ peakHeight' = peakHeight
      /\ pc' = "apply" /\ block' = block /\ fork' = fork
    BY DEF ApplyBlock, memory
<1>2. next \in 0..Height[block] /\ next \in Nat /\ next' - 1 = next
      /\ next' \in (fork + 1)..(Height[block] + 1)
  <2>1. /\ Height[block] \in Nat /\ fork \in -1..(Height[block] - 1)
        /\ next \in (fork + 1)..(Height[block] + 1)
      BY <1>1, AtApply
  <2>2. QED
      BY <1>1, <2>1
<1>3. /\ CoinsReplay(txn', block, next) /\ SpentAfterCreated(txn') /\ txn' \in Database
      /\ txn'.stored = txn.stored /\ txn'.inMain = txn.inMain /\ txn'.peak = txn.peak
  <2>1. /\ CoinsReplay(txn, block, next - 1) /\ SpentAfterCreated(txn)
        /\ txn \in Database /\ block \in Blocks
      BY <1>1, AtApply
  <2>2. LET n == IF IsTx[b] THEN NewBlock(txn, b) ELSE txn
        IN  CoinsReplay(n, block, next) /\ SpentAfterCreated(n) /\ n \in Database
            /\ n.stored = txn.stored /\ n.inMain = txn.inMain /\ n.peak = txn.peak
      BY <1>1, <1>2, <2>1, ReplayNewBlock
  <2>3. QED
      BY <1>1, <2>2
<1>4. summary' \in BOOLEAN
    BY DEF ApplyBlock, Inv, TypeOK
<1>5. TypeOK'
    BY <1>1, <1>2, <1>3, <1>4 DEF Inv, TypeOK
<1>6. Applying'
  <2>1. CoinsReplay(txn', block, next' - 1)
      BY <1>2, <1>3
  <2>2. QED
      BY <1>1, <1>2, <1>3, <2>1, AtApply DEF Applying, MapIs, PeakHeightIs
<1>7. DatabaseOk(db') /\ PeakInRecords' /\ Idle' /\ Committing' /\ Committed'
    BY <1>1, AtApply DEF PeakInRecords, Idle, Committing, Committed
<1>8. ~summary'
    BY <1>1, AtApply DEF ApplyBlock
<1>9. QED
    BY <1>5, <1>6, <1>7, <1>8 DEF Inv

(* A call that ends with the transaction and the memory as they were.      *)
LEMMA RollbackInv ==
    ASSUME Inv, pc = "apply", txn' = db, EndCall, UNCHANGED <<db, memory>>
    PROVE  Inv'
<1>1. /\ pc' = "idle" /\ block' = NoBlock /\ fork' = -1 /\ next' = 0
      /\ db' = db /\ records' = records /\ heightMap' = heightMap /\ peakHeight' = peakHeight
    BY DEF EndCall, memory
<1>2. ~summary' /\ summary' \in BOOLEAN
    BY DEF EndCall
<1>3. TypeOK'
    BY <1>1, <1>2 DEF Inv, TypeOK
<1>4. Idle' /\ DatabaseOk(db') /\ PeakInRecords'
    BY <1>1, AtApply DEF Idle, MapIs, PeakHeightIs, PeakInRecords
<1>5. Applying' /\ Committing' /\ Committed'
    BY <1>1 DEF Applying, Committing, Committed
<1>6. QED
    BY <1>2, <1>3, <1>4, <1>5 DEF Inv

(***************************************************************************)
(* After the rollback and the updates, the height map is the chain of the  *)
(* new peak, and the main chain its path.                                  *)
(***************************************************************************)
LEMMA NewChain ==
    ASSUME Inv, pc = "apply"
    PROVE  /\ NewHeightMap(block, fork) = Chain[block]
           /\ NewInMain(txn, block, fork) = PathOf(block)
<1>1. FirstToAdd(block, fork) = fork + 1
  <2>1. db.peak \in Blocks \cup {NoBlock}
      BY AtApply DEF Database
  <2>2. fork \in -1..Height[block]
      BY AtApply
  <2>3. QED
      BY <2>1, <2>2, AtApply, FirstAfterFork
<1>2. Chain[block] \in [0..Height[block] -> Blocks] /\ fork \in Int /\ fork < Height[block]
    BY AtApply, ChainAssumption
<1>3. CASE db.peak = NoBlock
  <2>1. heightMap = Empty /\ DOMAIN heightMap = {} /\ db.inMain = {} /\ fork = -1 /\ Height[block] = 0
      BY <1>3, AtApply DEF MapIs, Empty, DatabaseOk, EmptyDatabase
  <2>2. NewHeightMap(block, fork) = [i \in 0..Height[block] |-> Chain[block][i]]
      BY <1>1, <2>1 DEF NewHeightMap
  <2>3. NewInMain(txn, block, fork) = PathOf(block)
      BY <1>1, <2>1, AtApply DEF NewInMain, PathOf
  <2>4. QED
      BY <1>2, <2>2, <2>3
<1>4. CASE db.peak # NoBlock
  <2>1. /\ db.peak \in Blocks /\ heightMap = Chain[db.peak]
        /\ txn.inMain = PathOf(db.peak) /\ Height[block] > 0
        /\ Agree(db.peak, block, fork)
      BY <1>4, AtApply DEF MapIs, Database, DatabaseOk
  <2>2. DOMAIN heightMap = 0..Height[db.peak] /\ Height[db.peak] \in Nat
      BY <2>1, ChainAssumption
  <2>3. fork <= Height[db.peak] /\ \A i \in 0..fork : Chain[db.peak][i] = Chain[block][i]
      BY <2>1 DEF Agree
  <2>4. NewHeightMap(block, fork) = [i \in 0..Height[block] |-> Chain[block][i]]
    (* Height 0 is kept even when the chains have nothing in common, and   *)
    (* then overwritten.                                                   *)
    <3> DEFINE kept == {i \in DOMAIN heightMap : i <= fork \/ i = 0}
               added == (fork + 1)..Height[block]
    <3>1. kept \cup added = 0..Height[block]
      <4>1. fork \in Int /\ fork >= -1 /\ fork < Height[block] /\ Height[block] \in Nat
          BY AtApply
      <4>2. QED
          BY <2>2, <2>3, <4>1
    <3>2. \A i \in kept : i \notin added => heightMap[i] = Chain[block][i]
        BY <1>2, <2>1, <2>2, <2>3, AtApply
    <3>3. NewHeightMap(block, fork)
            = [i \in kept \cup added |-> IF i \in added THEN Chain[block][i] ELSE heightMap[i]]
        BY <1>1 DEF NewHeightMap
    <3> HIDE DEF kept, added
    <3>4. \A i \in kept \cup added :
            (IF i \in added THEN Chain[block][i] ELSE heightMap[i]) = Chain[block][i]
        BY <3>2
    <3>5. QED
        BY <3>1, <3>3, <3>4
  <2>5. NewInMain(txn, block, fork) = PathOf(block)
    <3>1. {x \in PathOf(db.peak) : Height[x] <= fork} = {Chain[block][i] : i \in 0..fork}
      <4>1. \A i \in 0..Height[db.peak] : Height[Chain[db.peak][i]] = i
          BY <2>1, ChainAssumption
      <4>2. {x \in PathOf(db.peak) : Height[x] <= fork} = {Chain[db.peak][i] : i \in 0..fork}
          BY <1>2, <2>2, <2>3, <4>1 DEF PathOf
      <4>3. QED
          BY <2>3, <4>2
    <3>2. NewInMain(txn, block, fork)
            = {Chain[block][i] : i \in 0..fork} \cup {Chain[block][i] : i \in (fork + 1)..Height[block]}
        BY <1>1, <2>1, <3>1 DEF NewInMain
    <3>3. 0..Height[block] = (0..fork) \cup ((fork + 1)..Height[block])
        BY <1>2, AtApply
    <3>4. QED
        BY <3>2, <3>3 DEF PathOf
  <2>6. QED
      BY <1>2, <2>4, <2>5
<1>5. QED
    BY <1>3, <1>4

LEMMA SetPeakInv ==
    ASSUME Inv, SetPeak
    PROVE  Inv'
<1>1. /\ pc = "apply" /\ next > Height[block]
      /\ txn' = [txn EXCEPT !.inMain = NewInMain(txn, block, fork), !.peak = block]
      /\ records' = records \cup {block} /\ heightMap' = NewHeightMap(block, fork)
      /\ pc' = "commit"
      /\ db' = db /\ peakHeight' = peakHeight /\ block' = block /\ fork' = fork /\ next' = next
    BY DEF SetPeak
<1>2. summary' = TRUE /\ summary' \in BOOLEAN /\ summary'
    BY DEF SetPeak
<1>3. heightMap' = Chain[block] /\ DOMAIN heightMap' = 0..Height[block]
    BY <1>1, AtApply, NewChain, ChainAssumption
<1>4. PathOf(block) \subseteq Blocks
    BY <1>1, AtApply, ChainAssumption DEF PathOf
<1>5. /\ txn' \in Database /\ txn'.stored = txn.stored /\ txn'.inMain = PathOf(block)
      /\ txn'.peak = block /\ txn'.conf = txn.conf /\ txn'.spent = txn.spent
  <2>1. txn' = [txn EXCEPT !.inMain = PathOf(block), !.peak = block] /\ txn \in Database
        /\ block \in Blocks
      BY <1>1, AtApply, NewChain
  <2>2. QED
      BY <1>4, <2>1 DEF Database
<1>6. next - 1 = Height[block]
  <2>1. Height[block] \in Nat /\ fork \in Int /\ next \in (fork + 1)..(Height[block] + 1)
      BY <1>1, AtApply
  <2>2. QED
      BY <1>1, <2>1
<1>7. CoinsReplay(txn', block, Height[block]) /\ SpentAfterCreated(txn')
  <2>1. CoinsReplay(txn, block, Height[block]) /\ SpentAfterCreated(txn)
      BY <1>1, <1>6, AtApply
  <2>2. QED
      BY <1>5, <2>1 DEF CoinsReplay, SpentAfterCreated
(* Below the fork the path is that of the old peak; above it, blocks_to_add*)
(* were read from the store.                                               *)
<1>8. PathOf(block) \subseteq txn.stored
  <2>1. ASSUME NEW i \in 0..Height[block]
        PROVE  Chain[block][i] \in txn.stored
    <3>1. CASE i > fork
      <4>1. i \in (fork + 1)..Height[block]
          BY <1>1, <3>1, AtApply
      <4>2. QED
          BY <1>1, <4>1, AtApply
    <3>2. CASE i <= fork
      <4>1. /\ db.peak # NoBlock /\ i \in 0..fork /\ fork <= Height[db.peak]
            /\ Chain[db.peak][i] = Chain[block][i]
          BY <1>1, <3>2, AtApply DEF Agree
      <4>2. i \in 0..Height[db.peak]
        <5>1. db.peak \in Blocks /\ fork \in Int
            BY <1>1, <4>1, AtApply DEF Database
        <5>2. QED
            BY <4>1, <5>1, ChainAssumption
      <4>3. Chain[db.peak][i] \in PathOf(db.peak)
          BY <4>2 DEF PathOf
      <4>4. PathOf(db.peak) \subseteq txn.stored
          BY <1>1, <4>1, AtApply DEF DatabaseOk
      <4>5. QED
          BY <4>1, <4>3, <4>4
    <3>3. QED
        BY <1>1, <3>1, <3>2, AtApply
  <2>2. QED
      BY <2>1 DEF PathOf
<1>9. \A x \in txn.stored : Weight[x] <= Weight[block]
  <2>1. Weight[block] \in Nat /\ txn.stored = db.stored \cup {block} /\ db.stored \subseteq Blocks
      BY <1>1, AtApply, WeightAssumption DEF Database
  <2>2. CASE db.peak = NoBlock
      BY <1>1, <2>1, <2>2, AtApply DEF DatabaseOk, EmptyDatabase
  <2>3. CASE db.peak # NoBlock
    <3>1. db.peak \in Blocks /\ Weight[db.peak] < Weight[block]
          /\ \A x \in db.stored : Weight[x] <= Weight[db.peak]
        BY <1>1, <2>3, AtApply DEF DatabaseOk, Database
    <3>2. QED
        BY <2>1, <3>1, WeightAssumption
  <2>4. QED
      BY <2>2, <2>3
<1>10. block \in Blocks /\ block # NoBlock
    BY <1>1, AtApply, ChainAssumption
<1>11. DatabaseOk(txn')
    BY <1>5, <1>7, <1>8, <1>9, <1>10 DEF DatabaseOk
<1>12. TypeOK'
  <2>1. records' \in SUBSET Blocks /\ DOMAIN heightMap' \subseteq Nat
      BY <1>1, <1>3, <1>10 DEF Inv, TypeOK
  <2>2. QED
      BY <1>1, <1>2, <1>5, <2>1 DEF Inv, TypeOK
<1>13. Committing'
  <2>1. records' \subseteq txn'.stored
      BY <1>1, <1>5, AtApply
  <2>2. db.peak # NoBlock => Weight[block] > Weight[db.peak]
      BY <1>1, AtApply
  <2>3. MapIs(txn.peak)'
      BY <1>3, <1>5, <1>10 DEF MapIs
  <2>4. QED
      BY <1>1, <1>2, <1>5, <1>10, <1>11, <2>1, <2>2, <2>3 DEF Committing
<1>14. DatabaseOk(db') /\ PeakInRecords' /\ Idle' /\ Applying' /\ Committed'
    BY <1>1, AtApply DEF PeakInRecords, Idle, Applying, Committed
<1>15. QED
    BY <1>1, <1>2, <1>12, <1>13, <1>14 DEF Inv

LEMMA CommitInv ==
    ASSUME Inv, Commit
    PROVE  Inv'
<1>1. /\ pc = "commit" /\ db' = txn /\ pc' = "committed" /\ txn' = txn
      /\ records' = records /\ heightMap' = heightMap /\ peakHeight' = peakHeight
      /\ block' = block /\ fork' = fork /\ next' = next
    BY DEF Commit, memory
<1>2. summary' = summary /\ summary \in BOOLEAN
    BY DEF Commit, Inv, TypeOK
<1>3. /\ block \in Blocks
      /\ DatabaseOk(txn) /\ txn.peak # NoBlock /\ txn.peak \in records
      /\ records \subseteq txn.stored /\ MapIs(txn.peak)
      /\ IF summary THEN txn.peak = block ELSE txn.peak = db.peak /\ PeakHeightIs(db.peak)
    BY <1>1 DEF Inv, Committing
<1>4. TypeOK'
    BY <1>1, <1>2 DEF Inv, TypeOK
<1>5. Committed'
  <2>1. CASE summary
    <3>1. summary' /\ txn.peak = block
        BY <1>2, <1>3, <2>1
    <3>2. QED
        BY <1>1, <1>3, <3>1 DEF Committed, MapIs
  <2>2. CASE ~summary
    <3>1. ~summary' /\ txn.peak = db.peak /\ PeakHeightIs(db.peak)
        BY <1>2, <1>3, <2>2
    <3>2. QED
        BY <1>1, <1>3, <3>1 DEF Committed, MapIs, PeakHeightIs
  <2>3. QED
      BY <2>1, <2>2
<1>6. DatabaseOk(db') /\ PeakInRecords' /\ Idle' /\ Applying' /\ Committing'
    BY <1>1, <1>3 DEF PeakInRecords, Idle, Applying, Committing
<1>7. QED
    BY <1>1, <1>4, <1>5, <1>6 DEF Inv

LEMMA UpdatePeakHeightInv ==
    ASSUME Inv, UpdatePeakHeight
    PROVE  Inv'
<1>1. /\ pc = "committed" /\ pc' = "idle" /\ block' = NoBlock /\ fork' = -1 /\ next' = 0
      /\ db' = db /\ txn' = txn /\ records' = records /\ heightMap' = heightMap
      /\ peakHeight' = IF summary THEN Height[block] ELSE peakHeight
    BY DEF UpdatePeakHeight, EndCall
<1>2. summary' \in BOOLEAN /\ ~summary'
    BY DEF UpdatePeakHeight, EndCall
<1>3. /\ block \in Blocks /\ db.peak # NoBlock
      /\ records \subseteq db.stored /\ MapIs(db.peak)
      /\ IF summary THEN db.peak = block ELSE PeakHeightIs(db.peak)
    BY <1>1 DEF Inv, Committed
<1>4. peakHeight' = Height[db.peak]
  <2>1. CASE summary
      BY <1>1, <1>3, <2>1
  <2>2. CASE ~summary
      BY <1>1, <1>3, <2>2 DEF PeakHeightIs
  <2>3. QED
      BY <2>1, <2>2
<1>5. TypeOK'
  <2>1. Height[db.peak] \in Nat
      BY <1>3, ChainAssumption DEF Inv, TypeOK, Database
  <2>2. QED
      BY <1>1, <1>2, <1>4, <2>1 DEF Inv, TypeOK
<1>6. Idle'
    BY <1>1, <1>3, <1>4 DEF Idle, MapIs, PeakHeightIs
<1>7. DatabaseOk(db') /\ PeakInRecords' /\ Applying' /\ Committing' /\ Committed'
    BY <1>1 DEF Inv, PeakInRecords, Applying, Committing, Committed
<1>8. QED
    BY <1>2, <1>5, <1>6, <1>7 DEF Inv

(* clean_block_records never removes the record of the peak.               *)
LEMMA CleanBlockRecordsInv ==
    ASSUME Inv, CleanBlockRecords
    PROVE  Inv'
<1>1. /\ pc = "idle" /\ pc' = pc /\ block' = block /\ fork' = fork /\ next' = next
      /\ db' = db /\ txn' = txn /\ heightMap' = heightMap /\ peakHeight' = peakHeight
      /\ records' \subseteq records
    BY DEF CleanBlockRecords, call
<1>2. summary' \in BOOLEAN /\ ~summary'
  <2>1. summary' = summary
      BY DEF CleanBlockRecords, call
  <2>2. ~summary
      BY <1>1, AtIdle
  <2>3. summary \in BOOLEAN
      BY DEF Inv, TypeOK
  <2>4. QED
      BY <2>1, <2>2, <2>3
<1>3. PeakInRecords'
  <2>1. SUFFICES ASSUME db.peak # NoBlock PROVE db.peak \in records'
      BY <1>1 DEF PeakInRecords
  <2>2. db.peak \in records /\ peakHeight = Height[db.peak] /\ db.peak \in Blocks
      BY <1>1, <2>1, AtIdle DEF PeakInRecords, PeakHeightIs
  <2>3. peakHeight \in Nat /\ Height[db.peak] > peakHeight - CacheSize
      BY <2>2, ChainAssumption, ParametersAssumption
  <2>4. QED
      BY <2>2, <2>3 DEF CleanBlockRecords
<1>4. TypeOK'
    BY <1>1, <1>2 DEF Inv, TypeOK
<1>5. Idle' /\ DatabaseOk(db')
    BY <1>1, AtIdle DEF Idle, MapIs, PeakHeightIs
<1>6. Applying' /\ Committing' /\ Committed'
    BY <1>1 DEF Applying, Committing, Committed
<1>7. QED
    BY <1>2, <1>3, <1>4, <1>5, <1>6 DEF Inv

LEMMA WarmupInv ==
    ASSUME Inv, NEW h \in ForkArgs, Warmup(h)
    PROVE  Inv'
<1>1. /\ pc = "idle" /\ pc' = pc /\ block' = block /\ fork' = fork /\ next' = next
      /\ db' = db /\ txn' = txn /\ heightMap' = heightMap /\ peakHeight' = peakHeight
      /\ records \subseteq records' /\ records' \subseteq records \cup db.stored
    BY DEF Warmup, call
<1>2. summary' \in BOOLEAN /\ ~summary'
  <2>1. summary' = summary
      BY DEF Warmup, call
  <2>2. ~summary
      BY <1>1, AtIdle
  <2>3. summary \in BOOLEAN
      BY DEF Inv, TypeOK
  <2>4. QED
      BY <2>1, <2>2, <2>3
<1>3. TypeOK'
    BY <1>1, <1>2 DEF Inv, TypeOK, Database
<1>4. PeakInRecords' /\ Idle' /\ DatabaseOk(db')
    BY <1>1, AtIdle DEF PeakInRecords, Idle, MapIs, PeakHeightIs
<1>5. Applying' /\ Committing' /\ Committed'
    BY <1>1 DEF Applying, Committing, Committed
<1>6. QED
    BY <1>2, <1>3, <1>4, <1>5 DEF Inv

LEMMA RestartInv ==
    ASSUME Inv, Restart
    PROVE  Inv'
<1>1. /\ pc' = "idle" /\ block' = NoBlock /\ fork' = -1 /\ next' = 0
      /\ db' = db /\ txn' = db
      /\ records' = {b \in db.stored : db.peak # NoBlock /\ Height[b] >= Height[db.peak] - CacheSize}
      /\ heightMap' = IF db.peak = NoBlock THEN Empty ELSE Chain[db.peak]
      /\ peakHeight' = IF db.peak = NoBlock THEN -1 ELSE Height[db.peak]
    BY DEF Restart, EndCall
<1>2. summary' \in BOOLEAN /\ ~summary'
    BY DEF Restart, EndCall
<1>3. db \in Database /\ db.stored \subseteq Blocks /\ db.peak \in Blocks \cup {NoBlock} /\ DatabaseOk(db)
    BY DEF Inv, TypeOK, Database
<1>4. Idle'
    BY <1>1 DEF Idle, MapIs, PeakHeightIs
<1>5. PeakInRecords'
  <2>1. SUFFICES ASSUME db.peak # NoBlock PROVE db.peak \in records'
      BY <1>1 DEF PeakInRecords
  <2>2. db.peak \in Blocks /\ Height[db.peak] \in Nat /\ Chain[db.peak][Height[db.peak]] = db.peak
      BY <1>3, <2>1, ChainAssumption
  <2>3. db.peak \in db.stored
      BY <1>3, <2>1, <2>2 DEF DatabaseOk, PathOf
  <2>4. QED
      BY <1>1, <2>1, <2>2, <2>3, ParametersAssumption
<1>6. TypeOK'
  <2>1. DOMAIN heightMap' \subseteq Nat /\ peakHeight' \in Nat \cup {-1}
      BY <1>1, <1>3, ChainAssumption DEF Empty
  <2>2. QED
      BY <1>1, <1>2, <1>3, <2>1 DEF TypeOK
<1>7. DatabaseOk(db') /\ Applying' /\ Committing' /\ Committed'
    BY <1>1, <1>3 DEF Applying, Committing, Committed
<1>8. QED
    BY <1>2, <1>4, <1>5, <1>6, <1>7 DEF Inv

(* A step that changes nothing.                                            *)
LEMMA StutterInv ==
    ASSUME Inv, UNCHANGED vars
    PROVE  Inv'
BY DEF vars, Inv, TypeOK, PeakInRecords, Idle, Applying, Committing, Committed, MapIs, PeakHeightIs

LEMMA NextInv == Undisturbed /\ Inv /\ [Next]_vars => Inv'
<1> SUFFICES ASSUME Undisturbed, Inv, [Next]_vars
             PROVE  Inv'
    OBVIOUS
<1>1. ASSUME NEW b \in Blocks, ReceiveGenesis(b) PROVE Inv'
    BY <1>1, ReceiveGenesisInv
<1>2. ASSUME NEW b \in Blocks, NEW arg \in ForkArgs \cup {NoForkArg},
             IsForkArg(b, arg), ReceiveOrphan(b, arg) \/ ReceiveHeavier(b, arg)
      PROVE  Inv'
    BY <1>2, ReceiveOrphanInv, ReceiveHeavierInv
<1>3. CASE ApplyBlock
    BY <1>3, ApplyBlockInv
<1>4. CASE RaiseInNewBlock
    BY <1>4, RollbackInv DEF RaiseInNewBlock
<1>5. CASE SetPeak
    BY <1>5, SetPeakInv
<1>6. CASE Commit
    BY <1>6, CommitInv
<1>7. CASE UpdatePeakHeight
    BY <1>7, UpdatePeakHeightInv
<1>8. CASE CancelInTransaction \/ CancelInCommit
    BY <1>8 DEF CancelInTransaction, CancelInCommit, Undisturbed
<1>9. CASE CleanBlockRecords
    BY <1>9, CleanBlockRecordsInv
<1>10. ASSUME NEW h \in ForkArgs, Warmup(h) PROVE Inv'
    BY <1>10, WarmupInv
<1>11. CASE Restart
    BY <1>11, RestartInv
<1>12. CASE UNCHANGED vars
    BY <1>12, StutterInv
<1>13. QED
    BY <1>1, <1>2, <1>3, <1>4, <1>5, <1>6, <1>7, <1>8, <1>9, <1>10, <1>11, <1>12 DEF Next

--------------------------------------------------------------------------------
(* The theorems.                                                           *)

(***************************************************************************)
(* The invariant holds of every run of receive_block in which no task is   *)
(* cancelled and no caller passes a fork point that is out of date;        *)
(* crashes are allowed at any point.                                       *)
(***************************************************************************)
THEOREM Invariance == ASSUME Undisturbed PROVE Spec => []Inv
<1>1. Inv /\ [Next]_vars => Inv'
    BY NextInv
<1>2. QED
    BY <1>1, InitInv, PTL DEF Spec

(***************************************************************************)
(* The types of the database, of the memory of Blockchain and of the       *)
(* locals of receive_block.                                                *)
(***************************************************************************)
THEOREM TypeCorrect == ASSUME Undisturbed PROVE Spec => []TypeOK
<1>1. Inv => TypeOK
    BY DEF Inv
<1>2. QED
    BY <1>1, Invariance, PTL

(***************************************************************************)
(* Whatever the tree of blocks, the order of arrival and the crashes, the  *)
(* committed coin table is the one that replaying the chain of the         *)
(* committed peak gives: _reconsider_peak rolls back what it has to.       *)
(***************************************************************************)
THEOREM CoinTableTheorem == ASSUME Undisturbed PROVE Spec => []CoinTableIsReplay
<1>1. Inv => CoinTableIsReplay
    BY DEF Inv, DatabaseOk, CoinTableIsReplay
<1>2. QED
    BY <1>1, Invariance, PTL

(***************************************************************************)
(* in_main_chain marks exactly the blocks of the path to the peak.         *)
(***************************************************************************)
THEOREM MainChainTheorem == ASSUME Undisturbed PROVE Spec => []MainChainIsPath
<1>1. Inv => MainChainIsPath
    BY DEF Inv, DatabaseOk, MainChainIsPath, EmptyDatabase
<1>2. QED
    BY <1>1, Invariance, PTL

(***************************************************************************)
(* A heavier block is never left behind as an orphan.                      *)
(***************************************************************************)
THEOREM HeaviestTheorem == ASSUME Undisturbed PROVE Spec => []PeakIsHeaviest
<1>1. Inv => PeakIsHeaviest
    BY DEF Inv, DatabaseOk, PeakIsHeaviest
<1>2. QED
    BY <1>1, Invariance, PTL

(***************************************************************************)
(* Between two calls of receive_block the peak that get_peak returns, the  *)
(* height map and the block records are those of the committed database.   *)
(***************************************************************************)
THEOREM MemoryTheorem == ASSUME Undisturbed PROVE Spec => []MemoryMatchesDatabase
<1>1. Inv => MemoryMatchesDatabase
  <2>1. SUFFICES ASSUME Inv, pc = "idle" PROVE MemoryMatchesDatabase
      BY DEF MemoryMatchesDatabase
  <2>2. PeakReadable
      BY <2>1, AtIdle, ChainAssumption DEF PeakReadable, MapIs, PeakHeightIs, PeakInRecords
  <2>3. QED
      BY <2>1, <2>2, AtIdle DEF MemoryMatchesDatabase, MapIs, PeakHeightIs
<1>2. QED
    BY <1>1, Invariance, PTL

(***************************************************************************)
(* The committed peak is only ever replaced by a heavier one.              *)
(***************************************************************************)
THEOREM OnlyHeavierTheorem == ASSUME Undisturbed PROVE Spec => OnlyHeavierReplaces
<1>1. Inv /\ [Next]_vars
        => [db.peak # NoBlock /\ db'.peak # db.peak => Weight[db'.peak] > Weight[db.peak]]_vars
  <2>1. SUFFICES ASSUME Inv, Next, db.peak # NoBlock, db'.peak # db.peak
                 PROVE  Weight[db'.peak] > Weight[db.peak]
      BY DEF vars
  <2>2. pc = "commit" /\ db' = txn
      BY <2>1 DEF Next, ReceiveGenesis, ReceiveOrphan, ReceiveHeavier, ApplyBlock, RaiseInNewBlock,
                  SetPeak, Commit, UpdatePeakHeight, CancelInTransaction, CancelInCommit,
                  CleanBlockRecords, Warmup, Restart
  <2>3. QED
      BY <2>1, <2>2 DEF Inv, Committing
<1>2. QED
    BY <1>1, Invariance, PTL DEF Spec, OnlyHeavierReplaces

--------------------------------------------------------------------------------
(***************************************************************************)
(* The path to the peak stays in the database whatever is cancelled and    *)
(* whatever fork point is passed.  The chain of the peak need not be what  *)
(* the height map holds then: what the argument needs of the map is that   *)
(* every block in it has its path in the main chain, also one at a height  *)
(* above the peak that a stale fork point has left there.                  *)
(***************************************************************************)
DatabaseFields == {"stored", "inMain", "peak", "conf", "spent"}
PathIn(b, d) == b \in Blocks /\ PathOf(b) \subseteq d.stored \cap d.inMain
PeakIn(d) == d.peak # NoBlock => PathIn(d.peak, d)
MapIn(d) ==
    /\ DOMAIN heightMap \subseteq Nat
    /\ \A i \in DOMAIN heightMap : PathIn(heightMap[i], d) /\ Height[heightMap[i]] = i

PathInv ==
    /\ db = [f \in DatabaseFields |-> db[f]] /\ txn = [f \in DatabaseFields |-> txn[f]]
    /\ PeakIn(db)
    /\ pc # "commit" => MapIn(db)
    /\ pc = "apply" =>
        /\ block \in Blocks /\ fork \in Int
        /\ txn.inMain = db.inMain /\ db.stored \subseteq txn.stored
        /\ \A i \in FirstToAdd(block, fork)..Height[block] : Chain[block][i] \in txn.stored
    /\ pc = "commit" => PeakIn(txn) /\ MapIn(txn)

(* Blocks are added to a path, and a longer one is kept.                   *)
LEMMA PathInMore ==
    ASSUME NEW b, NEW d, NEW e, PathIn(b, d), d.stored \subseteq e.stored, d.inMain \subseteq e.inMain
    PROVE  PathIn(b, e)
    BY DEF PathIn

LEMMA PathOfAncestor ==
    ASSUME NEW b \in Blocks, NEW i \in 0..Height[b], NEW d, PathIn(b, d)
    PROVE  PathIn(Chain[b][i], d) /\ Height[Chain[b][i]] = i
<1>1. /\ Chain[b][i] \in Blocks /\ Height[Chain[b][i]] = i
      /\ \A j \in 0..i : Chain[Chain[b][i]][j] = Chain[b][j] /\ j \in 0..Height[b]
    BY ChainAssumption
<1>2. QED
    BY <1>1 DEF PathIn, PathOf

(***************************************************************************)
(* After set_in_chain and the rollbacks the path to the new peak is in the *)
(* database, and so is that of every block that the map has kept.          *)
(***************************************************************************)
LEMMA NewPathIn ==
    ASSUME NEW d, MapIn(db), db.stored \subseteq d.stored, db.inMain \subseteq d.inMain,
           NEW b \in Blocks, NEW f \in Int,
           \A i \in FirstToAdd(b, f)..Height[b] : Chain[b][i] \in d.stored,
           NEW e, e.stored = d.stored, e.inMain = NewInMain(d, b, f)
    PROVE  /\ PathIn(b, e)
           /\ \A i \in DOMAIN heightMap : i <= f => PathIn(heightMap[i], e)
<1>0. Height[b] \in Nat
    BY ChainAssumption
<1>1. \A i \in FirstToAdd(b, f)..Height[b] : Chain[b][i] \in e.stored \cap e.inMain
    BY DEF NewInMain
<1>2. ASSUME NEW x, x \in db.stored, x \in db.inMain, Height[x] <= f
      PROVE  x \in e.stored \cap e.inMain
    BY <1>2 DEF NewInMain
<1>3. ASSUME NEW i \in DOMAIN heightMap, i <= f
      PROVE  PathIn(heightMap[i], e)
  <2>1. heightMap[i] \in Blocks /\ Height[heightMap[i]] = i /\ i \in Nat
      BY DEF MapIn, PathIn
  <2>2. ASSUME NEW j \in 0..i
        PROVE  Chain[heightMap[i]][j] \in e.stored \cap e.inMain
    <3>1. Height[Chain[heightMap[i]][j]] = j
        BY <2>1, ChainAssumption
    <3>2. Chain[heightMap[i]][j] \in db.stored \cap db.inMain
        BY <2>1 DEF MapIn, PathIn, PathOf
    <3>3. QED
        BY <1>2, <1>3, <2>1, <3>1, <3>2
  <2>3. QED
      BY <2>1, <2>2 DEF PathIn, PathOf
<1>4. CASE FirstToAdd(b, f) = 0
    BY <1>1, <1>3, <1>4 DEF PathIn, PathOf
<1>5. CASE FirstToAdd(b, f) # 0
  <2>1. FirstToAdd(b, f) = f + 1 /\ f \in DOMAIN heightMap /\ f <= Height[b] /\ heightMap[f] = Chain[b][f]
      BY <1>5 DEF FirstToAdd
  <2>2. f \in 0..Height[b] /\ PathIn(Chain[b][f], e)
      BY <1>3, <2>1 DEF MapIn
  <2>3. ASSUME NEW j \in 0..Height[b]
        PROVE  Chain[b][j] \in e.stored \cap e.inMain
    <3>1. CASE j > f
        BY <1>1, <2>1, <2>2, <3>1
    <3>2. CASE j <= f
      <4>1. Chain[Chain[b][f]][j] = Chain[b][j] /\ Height[Chain[b][f]] = f
          BY <2>2, <3>2, ChainAssumption
      <4>2. QED
          BY <2>2, <3>2, <4>1 DEF PathIn, PathOf
    <3>3. QED
        BY <1>0, <2>2, <3>1, <3>2
  <2>4. QED
      BY <1>3, <2>3 DEF PathIn, PathOf
<1>6. QED
    BY <1>4, <1>5

LEMMA InitPath == Init => PathInv
<1> SUFFICES ASSUME Init PROVE PathInv
    OBVIOUS
<1>1. EmptyDatabase = [f \in DatabaseFields |-> EmptyDatabase[f]] /\ EmptyDatabase.peak = NoBlock
    BY DEF EmptyDatabase, DatabaseFields
<1>2. DOMAIN heightMap = {}
    BY DEF Init, Empty
<1>3. QED
    BY <1>1, <1>2 DEF Init, PathInv, PeakIn, MapIn

LEMMA SetPeakPath ==
    ASSUME PathInv, SetPeak
    PROVE  PathInv'
<1>1. /\ pc = "apply" /\ pc' = "commit" /\ db' = db
      /\ block \in Blocks /\ fork \in Int
      /\ txn.inMain = db.inMain /\ db.stored \subseteq txn.stored /\ MapIn(db)
      /\ \A i \in FirstToAdd(block, fork)..Height[block] : Chain[block][i] \in txn.stored
      /\ txn = [f \in DatabaseFields |-> txn[f]]
      /\ heightMap' = NewHeightMap(block, fork)
    BY DEF SetPeak, PathInv
<1>2. /\ txn' = [f \in DatabaseFields |-> txn'[f]]
      /\ txn'.stored = txn.stored /\ txn'.inMain = NewInMain(txn, block, fork) /\ txn'.peak = block
  <2> DEFINE n == NewInMain(txn, block, fork)
  <2>1. txn' = [txn EXCEPT !.inMain = n, !.peak = block]
      BY DEF SetPeak
  <2> HIDE DEF n
  <2>2. /\ txn' = [f \in DatabaseFields |-> txn'[f]]
        /\ txn'.stored = txn.stored /\ txn'.inMain = n /\ txn'.peak = block
      BY <1>1, <2>1 DEF DatabaseFields
  <2>3. QED
      BY <2>2 DEF n
<1>3. /\ PathIn(block, txn')
      /\ \A i \in DOMAIN heightMap : i <= fork => PathIn(heightMap[i], txn')
    BY <1>1, <1>2, NewPathIn
<1>4. MapIn(txn)'
  <2> DEFINE first == FirstToAdd(block, fork)
             added == first..Height[block]
             kept == {i \in DOMAIN heightMap : i <= fork \/ i = 0}
  <2>1. heightMap' = [i \in kept \cup added |-> IF i \in added THEN Chain[block][i] ELSE heightMap[i]]
      BY <1>1 DEF NewHeightMap
  <2>2. first \in Nat /\ Height[block] \in Nat /\ (first # 0 => fork \in Nat)
      BY <1>1, ChainAssumption DEF FirstToAdd, MapIn
  <2> HIDE DEF first
  <2>3. ASSUME NEW i \in added
        PROVE  i \in Nat /\ PathIn(Chain[block][i], txn') /\ Height[Chain[block][i]] = i
    <3>1. i \in 0..Height[block]
        BY <2>2
    <3>2. QED
        BY <1>1, <1>3, <3>1, PathOfAncestor
  <2>4. ASSUME NEW i \in kept, i \notin added
        PROVE  i \in Nat /\ PathIn(heightMap[i], txn') /\ Height[heightMap[i]] = i
    <3>1. i \in DOMAIN heightMap /\ i \in Nat /\ Height[heightMap[i]] = i
        BY <1>1 DEF MapIn
    <3>2. i <= fork
        BY <2>2, <2>4, <3>1
    <3>3. QED
        BY <1>3, <3>1, <3>2
  <2>5. QED
      BY <2>1, <2>3, <2>4 DEF MapIn
<1>5. QED
    BY <1>1, <1>2, <1>3, <1>4 DEF PathInv, PeakIn

(* The other steps leave the map, or rebuild it from the database.         *)
LEMMA ReceivePath ==
    ASSUME PathInv, NEW b \in Blocks, NEW arg,
           ReceiveGenesis(b) \/ ReceiveOrphan(b, arg) \/ ReceiveHeavier(b, arg)
    PROVE  PathInv'
<1> DEFINE d == AddFullBlock(db, b)
<1>1. pc = "idle" /\ db' = db /\ heightMap' = heightMap /\ MapIn(db) /\ PeakIn(db)
      /\ db = [f \in DatabaseFields |-> db[f]]
    BY DEF ReceiveGenesis, ReceiveOrphan, ReceiveHeavier, Accepts, memory, PathInv
<1>2. /\ d = [f \in DatabaseFields |-> d[f]]
      /\ d.stored = db.stored \cup {b} /\ d.inMain = db.inMain /\ d.peak = db.peak
    BY <1>1 DEF AddFullBlock, DatabaseFields
<1>3. MapIn(db)'
    BY <1>1 DEF MapIn
<1>4. CASE ReceiveGenesis(b)
  <2>1. /\ txn' = d /\ pc' = "apply" /\ block' = b /\ fork' = -1 /\ Height[b] = 0
      BY <1>4 DEF ReceiveGenesis
  <2>2. FirstToAdd(b, -1)' = 0
      BY <1>1 DEF FirstToAdd, MapIn
  <2>3. Chain[b][0] = b
      BY <2>1, ChainAssumption
  <2> HIDE DEF d
  <2>4. QED
      BY <1>1, <1>2, <1>3, <2>1, <2>2, <2>3 DEF PathInv, PeakIn
<1>5. CASE ReceiveOrphan(b, arg)
  <2>1. txn' = d /\ pc' = "commit"
      BY <1>5 DEF ReceiveOrphan
  <2> HIDE DEF d
  <2>2. PeakIn(txn)' /\ MapIn(txn)'
      BY <1>1, <1>2, <2>1, PathInMore DEF PeakIn, MapIn
  <2>3. QED
      BY <1>1, <1>2, <2>1, <2>2 DEF PathInv, PeakIn
<1>6. CASE ReceiveHeavier(b, arg)
  <2>1. PICK f \in ForkArgs \cup -1..Height[b] :
          /\ fork' = f
          /\ txn' = IF Prev(b) = GetPeak THEN d ELSE RollbackToBlock(d, f)
          /\ \A i \in FirstToAdd(b, f)..Height[b] : Chain[b][i] \in txn'.stored
      BY <1>6 DEF ReceiveHeavier
  <2>2. pc' = "apply" /\ block' = b /\ f \in Int
    <3>1. Height[b] \in Nat
        BY ChainAssumption
    <3>2. QED
        BY <1>6, <3>1, ParametersAssumption DEF ReceiveHeavier
  <2> HIDE DEF d
  <2>3. /\ txn' = [g \in DatabaseFields |-> txn'[g]]
        /\ txn'.stored = d.stored /\ txn'.inMain = d.inMain
    <3>1. CASE txn' = d
        BY <1>2, <3>1
    <3>2. CASE txn' = RollbackToBlock(d, f)
      <4> DEFINE cf == [c \in Coins |-> IF d.conf[c] > f THEN -1 ELSE d.conf[c]]
                 sp == [c \in Coins |-> IF d.conf[c] > f \/ d.spent[c] > f THEN 0 ELSE d.spent[c]]
      <4>1. txn' = [d EXCEPT !.conf = cf, !.spent = sp]
          BY <3>2 DEF RollbackToBlock
      <4> HIDE DEF cf, sp
      <4>2. QED
          BY <1>2, <4>1 DEF DatabaseFields
    <3>3. QED
        BY <2>1, <3>1, <3>2
  <2>4. \A i \in FirstToAdd(b, f)'..Height[b] : Chain[b][i] \in txn'.stored
      BY <1>1, <2>1 DEF FirstToAdd
  <2>5. QED
      BY <1>1, <1>2, <1>3, <2>1, <2>2, <2>3, <2>4 DEF PathInv, PeakIn
<1>7. QED
    BY <1>4, <1>5, <1>6

LEMMA ApplyBlockPath ==
    ASSUME PathInv, ApplyBlock
    PROVE  PathInv'
<1> DEFINE x == Chain[block][next]
           cf == [c \in Coins |-> IF c \in Adds(x) THEN Height[x] ELSE txn.conf[c]]
           sp == [c \in Coins |-> IF c \in Removals[x] THEN Height[x] ELSE txn.spent[c]]
<1>1. /\ pc = "apply" /\ pc' = pc /\ db' = db /\ block' = block /\ fork' = fork
      /\ heightMap' = heightMap
      /\ txn' = txn \/ txn' = [txn EXCEPT !.conf = cf, !.spent = sp]
    BY DEF ApplyBlock, memory, NewBlock
<1> HIDE DEF cf, sp
<1>2. txn' = [f \in DatabaseFields |-> txn'[f]] /\ txn'.stored = txn.stored /\ txn'.inMain = txn.inMain
    BY <1>1 DEF PathInv, DatabaseFields
<1>3. QED
    BY <1>1, <1>2 DEF PathInv, PeakIn, MapIn, FirstToAdd

LEMMA RestartPath ==
    ASSUME PathInv, Restart
    PROVE  PathInv'
<1>1. /\ db' = db /\ txn' = db /\ pc' = "idle" /\ PeakIn(db)
      /\ heightMap' = IF db.peak = NoBlock THEN Empty ELSE Chain[db.peak]
      /\ db = [f \in DatabaseFields |-> db[f]]
    BY DEF Restart, EndCall, PathInv
<1>2. MapIn(db)'
  <2>1. CASE db.peak = NoBlock
    <3>1. DOMAIN heightMap' = {}
        BY <1>1, <2>1 DEF Empty
    <3>2. QED
        BY <3>1 DEF MapIn
  <2>2. CASE db.peak # NoBlock
    <3>1. db.peak \in Blocks /\ PathIn(db.peak, db)
        BY <1>1, <2>2 DEF PeakIn, PathIn
    <3>2. heightMap' = Chain[db.peak] /\ DOMAIN heightMap' = 0..Height[db.peak] /\ Height[db.peak] \in Nat
        BY <1>1, <2>2, <3>1, ChainAssumption
    <3>3. QED
        BY <1>1, <3>1, <3>2, PathOfAncestor DEF MapIn
  <2>3. QED
      BY <2>1, <2>2
<1>3. QED
    BY <1>1, <1>2 DEF PathInv, PeakIn

LEMMA NextPath == PathInv /\ [Next]_vars => PathInv'
<1> SUFFICES ASSUME PathInv, [Next]_vars PROVE PathInv'
    OBVIOUS
<1>1. ASSUME NEW b \in Blocks, NEW arg,
             ReceiveGenesis(b) \/ ReceiveOrphan(b, arg) \/ ReceiveHeavier(b, arg)
      PROVE  PathInv'
    BY <1>1, ReceivePath
<1>2. CASE ApplyBlock
    BY <1>2, ApplyBlockPath
<1>3. CASE SetPeak
    BY <1>3, SetPeakPath
<1>4. CASE RaiseInNewBlock \/ CancelInTransaction
  <2>1. pc = "apply" /\ pc' = "idle" /\ db' = db /\ txn' = db /\ heightMap' = heightMap
      BY <1>4 DEF RaiseInNewBlock, CancelInTransaction, EndCall, memory
  <2>2. QED
      BY <2>1 DEF PathInv, PeakIn, MapIn
<1>5. CASE Commit
  <2>1. pc = "commit" /\ pc' = "committed" /\ db' = txn /\ txn' = txn /\ heightMap' = heightMap
      BY <1>5 DEF Commit, memory
  <2>2. QED
      BY <2>1 DEF PathInv, PeakIn, MapIn
<1>6. CASE UpdatePeakHeight \/ CancelInCommit
  <2>1. pc = "committed" /\ pc' = "idle" /\ db' = db /\ txn' = txn /\ heightMap' = heightMap
      BY <1>6 DEF UpdatePeakHeight, CancelInCommit, EndCall, memory
  <2>2. QED
      BY <2>1 DEF PathInv, PeakIn, MapIn
<1>7. CASE CleanBlockRecords \/ (\E h \in ForkArgs : Warmup(h)) \/ UNCHANGED vars
  <2>1. pc' = pc /\ db' = db /\ txn' = txn /\ heightMap' = heightMap /\ block' = block /\ fork' = fork
      BY <1>7 DEF CleanBlockRecords, Warmup, vars, call
  <2>2. QED
      BY <2>1 DEF PathInv, PeakIn, MapIn, FirstToAdd
<1>8. CASE Restart
    BY <1>8, RestartPath
<1>9. QED
    BY <1>1, <1>2, <1>3, <1>4, <1>5, <1>6, <1>7, <1>8 DEF Next

(***************************************************************************)
(* The node can start from every committed database: the path to its peak  *)
(* is stored and marked, whatever task was cancelled, whenever the process *)
(* died and whatever fork points the callers of receive_block passed.      *)
(***************************************************************************)
THEOREM PathTheorem == Spec => []PathIsStored
<1>1. PathInv /\ [Next]_vars => PathInv'
    BY NextPath
<1>2. PathInv => PathIsStored
    BY DEF PathInv, PeakIn, PathIn, PathIsStored
<1>3. QED
    BY <1>1, <1>2, InitPath, PTL DEF Spec

--------------------------------------------------------------------------------
(***************************************************************************)
(* What the other tasks see between the steps of receive_block: until the  *)
(* new peak is committed, _peak_height is that of the old one, and the     *)
(* height map has changed above the fork only.                             *)
(***************************************************************************)
Exposed ==
    pc = "commit" /\ summary =>
        PeakHeightIs(db.peak) /\ (db.peak # NoBlock => Agree(db.peak, block, fork))

LEMMA ExposedNext == Inv /\ Exposed /\ [Next]_vars => Exposed'
<1> SUFFICES ASSUME Inv, Exposed, [Next]_vars, pc' = "commit", summary'
             PROVE  PeakHeightIs(db.peak)' /\ (db'.peak # NoBlock => Agree(db'.peak, block', fork'))
    BY DEF Exposed
<1>1. CASE SetPeak
  <2>1. pc = "apply" /\ UNCHANGED <<db, peakHeight, block, fork>>
      BY <1>1 DEF SetPeak
  <2>2. QED
      BY <2>1, AtApply DEF PeakHeightIs
<1>2. CASE UNCHANGED vars
  <2>1. UNCHANGED <<pc, summary, db, peakHeight, block, fork>>
      BY <1>2 DEF vars
  <2>2. QED
      BY <2>1 DEF Exposed, PeakHeightIs
<1>3. ASSUME NEW b \in Blocks, NEW arg,
             ReceiveGenesis(b) \/ ReceiveOrphan(b, arg) \/ ReceiveHeavier(b, arg)
      PROVE  FALSE
  <2>1. pc = "idle" /\ summary' = summary
      BY <1>3 DEF ReceiveGenesis, ReceiveOrphan, ReceiveHeavier, Accepts
  <2>2. QED
      BY <2>1, AtIdle
<1>4. ASSUME \/ ApplyBlock \/ RaiseInNewBlock \/ Commit \/ UpdatePeakHeight \/ CancelInTransaction
             \/ CancelInCommit \/ CleanBlockRecords \/ (\E h \in ForkArgs : Warmup(h)) \/ Restart
      PROVE  FALSE
    BY <1>4 DEF ApplyBlock, RaiseInNewBlock, Commit, UpdatePeakHeight, CancelInTransaction,
                CancelInCommit, CleanBlockRecords, Warmup, Restart, EndCall, call
<1>5. QED
    BY <1>1, <1>2, <1>3, <1>4 DEF Next

LEMMA ExposedAvailable == Inv /\ Exposed => AvailableUnlessReorg
<1> SUFFICES ASSUME Inv, Exposed, peakHeight # -1, ~ReorgCommits
             PROVE  peakHeight \in DOMAIN heightMap /\ heightMap[peakHeight] \in db.stored
    BY DEF AvailableUnlessReorg
<1>1. db.peak # NoBlock => db.peak \in Blocks /\ PathOf(db.peak) \subseteq db.stored
    BY DEF Inv, TypeOK, Database, DatabaseOk
<1>2. ASSUME NEW p \in Blocks, heightMap = Chain[p], peakHeight \in 0..Height[p],
             Chain[p][peakHeight] \in db.stored
      PROVE  peakHeight \in DOMAIN heightMap /\ heightMap[peakHeight] \in db.stored
    BY <1>2, ChainAssumption
<1>3. CASE MapIs(db.peak) /\ PeakHeightIs(db.peak)
  <2>1. /\ db.peak \in Blocks /\ heightMap = Chain[db.peak] /\ peakHeight = Height[db.peak]
        /\ Height[db.peak] \in Nat
      BY <1>1, <1>3, ChainAssumption DEF MapIs, PeakHeightIs
  <2>2. Chain[db.peak][peakHeight] \in db.stored
      BY <1>1, <2>1, ChainAssumption DEF PathOf
  <2>3. QED
      BY <1>2, <2>1, <2>2
<1>4. CASE pc \in {"idle", "apply"}
    BY <1>3, <1>4 DEF Inv, Idle, Applying
<1>5. CASE pc = "commit"
  <2>1. CASE ~summary
      BY <1>3, <1>5, <2>1 DEF Inv, Committing
  <2>2. CASE summary
    <3>1. /\ block \in Blocks /\ heightMap = Chain[block]
          /\ db.peak \in Blocks /\ peakHeight = Height[db.peak] /\ Agree(db.peak, block, fork)
          /\ Height[db.peak] \in Nat /\ fork \in Int
        BY <1>1, <1>5, <2>2, ChainAssumption DEF Inv, TypeOK, Committing, MapIs, Exposed, PeakHeightIs
    (* The block extends the peak, which is below it on its chain.         *)
    <3>2. fork = Height[db.peak] /\ Height[db.peak] <= Height[block]
        BY <1>1, <1>5, <3>1, ChainAssumption DEF ReorgCommits, Agree
    <3>3. Chain[block][peakHeight] = db.peak
        BY <3>1, <3>2, ChainAssumption DEF Agree
    <3>4. db.peak \in db.stored
        BY <1>1, <3>1, ChainAssumption DEF PathOf
    <3>5. QED
        BY <1>2, <3>1, <3>2, <3>3, <3>4, ChainAssumption
  <2>3. QED
      BY <2>1, <2>2
<1>6. CASE pc = "committed"
  <2>1. CASE ~summary
      BY <1>3, <1>6, <2>1 DEF Inv, Committed
  <2>2. CASE summary
    <3>1. block \in Blocks /\ db.peak = block /\ heightMap = Chain[block] /\ Height[block] \in Nat
        BY <1>6, <2>2, ChainAssumption DEF Inv, Committed, MapIs
    <3>2. peakHeight \in 0..Height[block]
        BY <1>6, <3>1 DEF ReorgCommits, Inv, TypeOK
    <3>3. Chain[block][peakHeight] \in db.stored
        BY <1>1, <3>1, <3>2, ChainAssumption DEF PathOf
    <3>4. QED
        BY <1>2, <3>1, <3>2, <3>3
  <2>3. QED
      BY <2>1, <2>2
<1>7. QED
    BY <1>4, <1>5, <1>6 DEF Inv, TypeOK

(***************************************************************************)
(* A task that does not hold the blockchain lock finds the block at        *)
(* _peak_height in the height map and in the database, at every step of    *)
(* receive_block but those of a reorganisation.                            *)
(***************************************************************************)
THEOREM AvailableTheorem == ASSUME Undisturbed PROVE Spec => []AvailableUnlessReorg
<1>1. Init => Exposed
    BY DEF Init, Exposed
<1>2. Inv /\ Exposed /\ [Next]_vars => Exposed'
    BY ExposedNext
<1>3. Inv /\ Exposed => AvailableUnlessReorg
    BY ExposedAvailable
<1>4. QED
    BY <1>1, <1>2, <1>3, Invariance, PTL DEF Spec

--------------------------------------------------------------------------------
(* The transaction blocks of a chain.                                      *)

(* There is a last transaction block below every height but the first:     *)
(* the first block is one.                                                 *)
LEMMA LastTxExists ==
    ASSUME NEW b \in Blocks, NEW h \in 1..Height[b]
    PROVE  /\ LastTx(b, h) \in 0..(h - 1) /\ IsTx[Chain[b][LastTx(b, h)]]
           /\ \A j \in (LastTx(b, h) + 1)..(h - 1) : ~IsTx[Chain[b][j]]
<1>0. Height[b] \in Nat /\ h \in Nat /\ h <= Height[b] /\ 1 <= h
    BY ChainAssumption
<1> DEFINE T == {k \in Nat : k <= h - 1 /\ IsTx[Chain[b][h - 1 - k]]}
<1>1. h - 1 \in T
  <2>1. Chain[b][0] \in Blocks /\ Height[Chain[b][0]] = 0
      BY <1>0, ChainAssumption
  <2>2. IsTx[Chain[b][h - 1 - (h - 1)]]
      BY <1>0, <2>1, BodyAssumption
  <2>3. QED
      BY <1>0, <2>2
<1>2. \E k \in T : \A j \in T : ~(<<j, k>> \in OpToRel(<, Nat))
  <2>1. T \subseteq Nat /\ T # {}
      BY <1>1
  <2> HIDE DEF T
  <2>2. QED
      BY <2>1, NatLessThanWellFounded, WFMin, Zenon
<1>3. PICK k \in T : \A j \in T : ~(j < k)
    BY <1>2 DEF OpToRel
<1>4. /\ h - 1 - k \in 0..(h - 1) /\ IsTx[Chain[b][h - 1 - k]]
      /\ \A j \in (h - 1 - k + 1)..(h - 1) : ~IsTx[Chain[b][j]]
  <2>1. h - 1 - k \in 0..(h - 1) /\ IsTx[Chain[b][h - 1 - k]]
      BY <1>0
  <2>2. ASSUME NEW j \in (h - 1 - k + 1)..(h - 1), IsTx[Chain[b][j]] PROVE FALSE
    <3>1. h - 1 - j \in Nat /\ h - 1 - j <= h - 1 /\ h - 1 - j < k /\ h - 1 - (h - 1 - j) = j
        BY <1>0
    <3>2. h - 1 - j \in T
        BY <3>1, <2>2
    <3>3. QED
        BY <3>1, <3>2, <1>3
  <2>3. QED
      BY <2>1, <2>2
<1>5. QED
    BY <1>4 DEF LastTx

(* No transaction block is after it.                                       *)
LEMMA LastTxIsLast ==
    ASSUME NEW b \in Blocks, NEW h \in 1..Height[b], NEW i \in 0..(h - 1), IsTx[Chain[b][i]]
    PROVE  i <= LastTx(b, h)
<1>1. h \in Nat /\ LastTx(b, h) \in Nat
    BY LastTxExists, ChainAssumption
<1>2. QED
    BY <1>1, LastTxExists

(* It is the same for a block further up the chain.                        *)
LEMMA LastTxOfAncestor ==
    ASSUME NEW b \in Blocks, NEW i \in 0..Height[b], NEW h \in 1..i
    PROVE  LastTx(Chain[b][i], h) = LastTx(b, h)
<1>1. i \in Nat /\ h \in Nat /\ \A j \in 0..(h - 1) : Chain[Chain[b][i]][j] = Chain[b][j]
    BY ChainAssumption
<1>2. \A k \in 0..(h - 1) : \A j \in (k + 1)..(h - 1) : j \in 0..(h - 1)
    BY <1>1
<1>3. QED
    BY <1>1, <1>2 DEF LastTx

(* A block claims rewards of blocks before it.                             *)
LEMMA RewardHeightsBelow ==
    ASSUME NEW b \in Blocks
    PROVE  /\ RewardHeights(b) \subseteq 0..Height[b]
           /\ RewardHeights(b) = {} <=> Height[b] = 0
           /\ Height[b] > 0 => PrevTxHeight(b) \in 0..(Height[b] - 1)
<1> DEFINE h == Height[b]
           t == LastTx(b, h)
<1>1. h \in Nat
    BY ChainAssumption
<1>2. CASE h = 0
    BY <1>2 DEF RewardHeights
<1>3. CASE h > 0
  <2>1. PrevTxHeight(b) = t /\ t \in 0..(h - 1)
    <3>1. h \in 1..Height[b]
        BY <1>1, <1>3
    <3>2. QED
        BY <1>3, <3>1, LastTxExists DEF PrevTxHeight
  <2>2. CASE t = 0
      BY <1>1, <1>3, <2>1, <2>2 DEF RewardHeights
  <2>3. CASE t # 0
    <3>1. t \in 1..Height[b]
        BY <1>1, <2>1, <2>3
    <3>2. LastTx(b, t) \in 0..(t - 1)
        BY <3>1, LastTxExists
    <3>3. RewardHeights(b) = (LastTx(b, t) + 1)..t
        BY <1>3, <2>1, <2>3 DEF RewardHeights
    <3>4. t \in RewardHeights(b)
        BY <3>1, <3>2, <3>3
    <3>5. QED
        BY <1>1, <1>3, <2>1, <3>2, <3>3, <3>4
  <2>4. QED
      BY <2>2, <2>3
<1>4. QED
    BY <1>1, <1>2, <1>3

(* Two transaction blocks of one chain claim the rewards of different      *)
(* heights (check 5).                                                      *)
LEMMA RewardHeightsDisjoint ==
    ASSUME NEW b \in Blocks, NEW i \in 0..Height[b], NEW j \in 0..Height[b], i < j,
           IsTx[Chain[b][i]], IsTx[Chain[b][j]]
    PROVE  /\ RewardHeights(Chain[b][i]) \cap RewardHeights(Chain[b][j]) = {}
           /\ RewardHeights(Chain[b][i]) \subseteq 0..(i - 1)
<1> DEFINE x == Chain[b][i]
           y == Chain[b][j]
           t == LastTx(b, j)
<1>0. Height[b] \in Nat
    BY ChainAssumption
<1>1. /\ i \in Nat /\ j \in Nat /\ j \in 1..j /\ j \in 1..Height[b] /\ i \in 0..(j - 1)
      /\ j <= Height[b]
      /\ x \in Blocks /\ Height[x] = i /\ y \in Blocks /\ Height[y] = j
    BY ChainAssumption
<1>2. PrevTxHeight(y) = t /\ t \in 0..(j - 1) /\ i <= t
  <2>1. LastTx(y, j) = t
      BY <1>1, LastTxOfAncestor
  <2>2. PrevTxHeight(y) = t
      BY <1>1, <2>1 DEF PrevTxHeight
  <2>3. t \in 0..(j - 1)
      BY <1>1, LastTxExists
  <2>4. i <= t
      BY <1>1, LastTxIsLast
  <2>5. QED
      BY <2>2, <2>3, <2>4
<1>3. CASE i = 0
    BY <1>1, <1>3 DEF RewardHeights
<1>4. CASE i > 0
  <2> DEFINE s == LastTx(b, i)
             u == LastTx(b, t)
  <2>1. i \in 1..i /\ i \in 1..Height[b]
      BY <1>1, <1>4
  <2>2. PrevTxHeight(x) = s /\ s \in 0..(i - 1) /\ IsTx[Chain[b][s]]
    <3>1. LastTx(x, i) = s
        BY <2>1, LastTxOfAncestor
    <3>2. PrevTxHeight(x) = s
        BY <1>1, <1>4, <3>1 DEF PrevTxHeight
    <3>3. s \in 0..(i - 1) /\ IsTx[Chain[b][s]]
        BY <2>1, LastTxExists
    <3>4. QED
        BY <3>2, <3>3
  <2>3. RewardHeights(x) \subseteq 0..s
    <3>1. CASE s = 0
        BY <1>1, <1>4, <2>2, <3>1 DEF RewardHeights
    <3>2. CASE s # 0
      <4>1. s \in 1..i /\ s \in 1..Height[b]
          BY <1>0, <1>1, <2>1, <2>2, <3>2
      <4>2. LastTx(x, s) \in Nat
          BY <4>1, LastTxOfAncestor, LastTxExists
      <4>3. RewardHeights(x) = (LastTx(x, s) + 1)..s
          BY <1>1, <1>4, <2>2, <3>2 DEF RewardHeights
      <4>4. QED
          BY <4>2, <4>3, <2>2
    <3>3. QED
        BY <3>1, <3>2
  <2>4. t \in 1..j /\ t \in 1..Height[b] /\ s \in 0..(t - 1)
      BY <1>0, <1>1, <1>2, <1>4, <2>2
  <2>5. RewardHeights(y) = (u + 1)..t /\ u \in Nat /\ s <= u
    <3>1. LastTx(y, t) = u
        BY <2>4, LastTxOfAncestor
    <3>2. u \in 0..(t - 1)
        BY <2>4, LastTxExists
    <3>3. s <= u
        BY <2>2, <2>4, LastTxIsLast
    <3>4. RewardHeights(y) = (u + 1)..t
        BY <1>1, <1>2, <2>4, <3>1 DEF RewardHeights
    <3>5. QED
        BY <3>2, <3>3, <3>4
  <2>6. QED
      BY <2>2, <2>3, <2>5
<1>5. QED
    BY <1>1, <1>3, <1>4

--------------------------------------------------------------------------------
(* What the coins of a chain of valid blocks look like.                    *)

(* What validation decides of a block alone with its chain.                *)
ValidOnOwnChain(b) ==
    IsTx[b] =>
        /\ Claims[b] = {Reward[Chain[b][i]] : i \in RewardHeights(b)}
        /\ Additions[b] \cap Claims[b] = {}
        /\ \A c \in Removals[b] : SpendOnOwnChain(b, c)

(* No coin is created twice: a reward is claimed once, and the parent of   *)
(* any other coin would be created twice too.                              *)
LEMMA CreatedOnce ==
    ASSUME NEW b \in Blocks, \A x \in PathOf(b) : ValidOnOwnChain(x),
           NEW c \in Coins, NEW i \in CreatedAt(c, b, Height[b]), NEW j \in CreatedAt(c, b, Height[b])
    PROVE  i = j
<1> DEFINE S == {e \in Coins : \E k, l \in 0..Height[b] :
                     k < l /\ e \in Adds(Chain[b][k]) /\ e \in Adds(Chain[b][l])}
<1>1. SUFFICES S = {}
    BY <1>1, ChainAssumption DEF CreatedAt
<1>2. SUFFICES ASSUME S # {} PROVE FALSE
    OBVIOUS
<1>3. PICK e \in S : ParentCoin[e] \notin S
    BY <1>2, CoinIdAssumption
<1>4. PICK k \in 0..Height[b], l \in 0..Height[b] :
        k < l /\ e \in Adds(Chain[b][k]) /\ e \in Adds(Chain[b][l])
    BY <1>3
<1> DEFINE x == Chain[b][k]
           y == Chain[b][l]
<1>5. /\ Height[b] \in Nat /\ x \in Blocks /\ y \in Blocks /\ Height[x] = k /\ Height[y] = l
      /\ IsTx[x] /\ IsTx[y]
      /\ \A m \in 0..k : Chain[x][m] = Chain[b][m]
      /\ \A m \in 0..l : Chain[y][m] = Chain[b][m]
  <2>1. /\ Height[b] \in Nat /\ x \in Blocks /\ y \in Blocks /\ Height[x] = k /\ Height[y] = l
        /\ \A m \in 0..k : Chain[x][m] = Chain[b][m]
        /\ \A m \in 0..l : Chain[y][m] = Chain[b][m]
      BY ChainAssumption
  <2>2. IsTx[x] /\ IsTx[y]
      BY <1>4, <2>1, CoinsAssumption
  <2>3. QED
      BY <2>1, <2>2
<1>6. ValidOnOwnChain(x) /\ ValidOnOwnChain(y)
    BY DEF PathOf
<1>7. CASE e \in Claims[x] \/ e \in Claims[y]
  <2>1. RewardHeights(x) \cap RewardHeights(y) = {}
      BY <1>4, <1>5, RewardHeightsDisjoint
  <2>2. e \in Claims[x] /\ e \in Claims[y]
    <3>1. \E a \in Blocks : e = Reward[a]
      <4>1. RewardHeights(x) \subseteq 0..Height[x] /\ RewardHeights(y) \subseteq 0..Height[y]
          BY <1>5, RewardHeightsBelow
      <4>2. QED
        <5>1. \A m \in RewardHeights(x) : Chain[x][m] \in Blocks
            BY <1>5, <4>1, ChainAssumption
        <5>2. \A m \in RewardHeights(y) : Chain[y][m] \in Blocks
            BY <1>5, <4>1, ChainAssumption
        <5>3. CASE e \in Claims[x]
            BY <1>5, <1>6, <5>1, <5>3 DEF ValidOnOwnChain
        <5>4. CASE e \in Claims[y]
            BY <1>5, <1>6, <5>2, <5>4 DEF ValidOnOwnChain
        <5>5. QED
            BY <1>7, <5>3, <5>4
    <3>2. QED
        BY <1>4, <1>5, <3>1, CoinIdAssumption DEF Adds
  <2>3. PICK m \in RewardHeights(x) : e = Reward[Chain[x][m]]
      BY <1>5, <1>6, <2>2 DEF ValidOnOwnChain
  <2>4. PICK n \in RewardHeights(y) : e = Reward[Chain[y][n]]
      BY <1>5, <1>6, <2>2 DEF ValidOnOwnChain
  <2>5. m \in 0..Height[x] /\ n \in 0..Height[y]
      BY <1>5, RewardHeightsBelow
  <2>6. /\ Chain[x][m] \in Blocks /\ Height[Chain[x][m]] = m
        /\ Chain[y][n] \in Blocks /\ Height[Chain[y][n]] = n
      BY <1>5, <2>5, ChainAssumption
  <2>7. m = n
    <3>1. Reward[Chain[x][m]] = Reward[Chain[y][n]]
        BY <2>3, <2>4
    <3>2. Height[Chain[x][m]] = Height[Chain[y][n]]
        BY <2>6, <3>1, CoinIdAssumption, Zenon
    <3>3. QED
        BY <2>6, <3>2
  <2>8. QED
      BY <2>1, <2>7
<1>8. CASE e \in Additions[x] /\ e \in Additions[y]
  <2> DEFINE p == ParentCoin[e]
  <2>1. p \in Removals[x] /\ p \in Removals[y] /\ p \in Coins
      BY <1>5, <1>8, CoinIdAssumption, CoinsAssumption
  <2>2. SpendOnOwnChain(x, p) /\ SpendOnOwnChain(y, p)
      BY <1>5, <1>6, <2>1 DEF ValidOnOwnChain
  <2>3. p \in Adds(y)
    <3>1. k \in SpentAt(p, y, Height[y] - 1)
        BY <1>4, <1>5, <2>1 DEF SpentAt
    <3>2. QED
        BY <2>2, <3>1 DEF SpendOnOwnChain
  <2>4. \E m \in 0..k : p \in Adds(Chain[b][m])
    <3>1. CASE p \in Adds(x)
        BY <3>1
    <3>2. CASE CreatedAt(p, x, Height[x] - 1) # {}
        BY <1>5, <3>2 DEF CreatedAt
    <3>3. QED
        BY <2>2, <3>1, <3>2 DEF SpendOnOwnChain
  <2>5. p \in S
      BY <1>4, <1>5, <2>1, <2>3, <2>4
  <2>6. QED
      BY <1>3, <2>5
<1>9. QED
    BY <1>4, <1>7, <1>8 DEF Adds

(* A coin is spent only where it is created, or after.                     *)
LEMMA SpentOnlyIfCreated ==
    ASSUME NEW b \in Blocks, \A x \in PathOf(b) : ValidOnOwnChain(x),
           NEW c \in Coins, NEW i \in SpentAt(c, b, Height[b])
    PROVE  \E k \in CreatedAt(c, b, Height[b]) : k <= i
<1>1. i \in 0..Height[b] /\ Height[b] \in Nat /\ c \in Removals[Chain[b][i]]
    BY ChainAssumption DEF SpentAt
<1> DEFINE x == Chain[b][i]
<1>2. x \in Blocks /\ Height[x] = i /\ \A m \in 0..i : Chain[x][m] = Chain[b][m]
    BY <1>1, ChainAssumption
<1>3. SpendOnOwnChain(x, c)
  <2>1. ValidOnOwnChain(x)
      BY <1>1 DEF PathOf
  <2>2. IsTx[x]
      BY <1>1, <1>2, CoinsAssumption
  <2>3. QED
      BY <1>1, <2>1, <2>2 DEF ValidOnOwnChain
<1>4. CASE c \in Adds(x)
    BY <1>1, <1>4 DEF CreatedAt
<1>5. CASE CreatedAt(c, x, i - 1) # {}
  <2>1. PICK k \in 0..(i - 1) : c \in Adds(Chain[x][k])
      BY <1>5 DEF CreatedAt
  <2>2. k \in 0..Height[b] /\ k <= i /\ Chain[x][k] = Chain[b][k]
      BY <1>1, <1>2
  <2>3. QED
      BY <2>1, <2>2 DEF CreatedAt
<1>6. QED
    BY <1>2, <1>3, <1>4, <1>5 DEF SpendOnOwnChain

(* A block on a chain of valid blocks can be applied to the coins that the *)
(* chain below it leaves.                                                  *)
LEMMA ValidApplies ==
    ASSUME NEW b \in Blocks, \A x \in PathOf(b) : ValidOnOwnChain(x),
           NEW h \in 0..Height[b], IsTx[Chain[b][h]],
           NEW d \in Database, CoinsReplay(d, b, h - 1)
    PROVE  CanApply(d, Chain[b][h])
<1> DEFINE x == Chain[b][h]
<1>1. /\ Height[b] \in Nat /\ h \in Nat /\ h <= Height[b] /\ x \in Blocks /\ Height[x] = h
      /\ \A m \in 0..h : Chain[x][m] = Chain[b][m]
    BY ChainAssumption
<1>2. /\ Claims[x] = {Reward[Chain[x][i]] : i \in RewardHeights(x)}
      /\ Additions[x] \cap Claims[x] = {}
      /\ \A c \in Removals[x] : SpendOnOwnChain(x, c)
    BY DEF PathOf, ValidOnOwnChain
<1>3. Height[x] = 0 <=> Claims[x] = {}
  <2>1. RewardHeights(x) = {} <=> Height[x] = 0
      BY <1>1, RewardHeightsBelow
  <2>2. QED
      BY <1>2, <2>1
<1>4. \A c \in Adds(x) : c \in Coins /\ CreatedAt(c, b, h - 1) = {}
  <2>1. SUFFICES ASSUME NEW c \in Adds(x), NEW i \in CreatedAt(c, b, h - 1) PROVE c \in Coins /\ FALSE
      BY <1>1, CoinsAssumption DEF Adds
  <2>2. c \in Coins
      BY <1>1, CoinsAssumption DEF Adds
  <2>3. i \in CreatedAt(c, b, Height[b]) /\ h \in CreatedAt(c, b, Height[b]) /\ i # h
      BY <1>1 DEF CreatedAt
  <2>4. QED
      BY <2>2, <2>3, CreatedOnce
<1>5. \A c \in Adds(x) : d.conf[c] = -1
    BY <1>4 DEF CoinsReplay
<1>6. ASSUME NEW c \in Removals[x] PROVE (c \in Adds(x) \/ d.conf[c] # -1) /\ d.spent[c] = 0
  <2>0. c \in Coins
      BY <1>1, CoinsAssumption
  <2>1. CASE c \in Adds(x)
    <3>1. ASSUME NEW i \in SpentAt(c, b, h - 1) PROVE FALSE
      <4>1. i \in 0..(h - 1) /\ i \in SpentAt(c, b, Height[b])
          BY <1>1 DEF SpentAt
      <4>2. PICK k \in CreatedAt(c, b, Height[b]) : k <= i
          BY <2>0, <4>1, SpentOnlyIfCreated
      <4>3. k \in CreatedAt(c, b, h - 1)
          BY <1>1, <4>1, <4>2 DEF CreatedAt
      <4>4. QED
          BY <1>4, <2>1, <4>3
    <3>2. SpentAt(c, b, h - 1) = {}
        BY <3>1
    <3>3. QED
        BY <2>0, <2>1, <3>2 DEF CoinsReplay
  <2>2. CASE c \notin Adds(x)
    <3>1. SpentAt(c, x, h - 1) = {} /\ CreatedAt(c, x, h - 1) # {}
        BY <1>1, <1>2, <2>2 DEF SpendOnOwnChain
    <3>2. SpentAt(c, b, h - 1) = SpentAt(c, x, h - 1) /\ CreatedAt(c, b, h - 1) = CreatedAt(c, x, h - 1)
        BY <1>1 DEF SpentAt, CreatedAt
    <3>3. QED
        BY <2>0, <3>1, <3>2 DEF CoinsReplay
  <2>3. QED
      BY <2>1, <2>2
<1>7. QED
    BY <1>2, <1>3, <1>5, <1>6 DEF CanApply

--------------------------------------------------------------------------------
(* Validation against the coin table of the peak.                          *)

(* The fork point that validation uses is one up to which the chain of the *)
(* block and that of the peak agree, unless there is none.                 *)
ForkAgrees(b, f) ==
    /\ f \in -1..(Height[b] - 1)
    /\ db.peak = NoBlock => f = -1
    /\ db.peak # NoBlock => Agree(db.peak, b, f)

LEMMA ValidationForkAgrees ==
    ASSUME Undisturbed, Inv, pc = "idle", NEW b \in Blocks, NEW arg \in ForkArgs \cup {NoForkArg},
           IsForkArg(b, arg), NEW f, IsValidationFork(b, arg, f)
    PROVE  ForkAgrees(b, f)
<1>1. /\ db.peak \in Blocks \cup {NoBlock} /\ GetPeak = db.peak
      /\ MapIs(db.peak) /\ NoBlock \notin Blocks /\ Height[b] \in Nat
    BY AtIdle, ChainAssumption
<1>2. CASE db.peak = NoBlock
    BY <1>1, <1>2 DEF IsValidationFork, ForkAgrees
<1>3. CASE db.peak \in Blocks /\ Height[b] = 0
  <2>1. f = -1 /\ Height[db.peak] \in Nat
      BY <1>1, <1>3, ChainAssumption DEF IsValidationFork
  <2>2. Agree(db.peak, b, f)
      BY <1>1, <1>3, <2>1 DEF Agree
  <2>3. QED
      BY <1>1, <1>3, <2>1, <2>2 DEF ForkAgrees
<1>4. CASE db.peak \in Blocks /\ Height[b] > 0
  <2> DEFINE p == db.peak
  <2>1. p # NoBlock /\ heightMap = Chain[p] /\ DOMAIN heightMap = 0..Height[p] /\ Height[p] \in Nat
      BY <1>1, <1>4, ChainAssumption DEF MapIs
  <2>2. CASE arg # NoForkArg
    <3>1. f = arg /\ arg \in DOMAIN heightMap /\ arg < Height[b] /\ heightMap[arg] = Chain[b][arg]
        BY <1>1, <1>4, <2>1, <2>2 DEF IsValidationFork, IsForkArg, Undisturbed
    <3>2. Agree(p, b, f)
        BY <1>1, <1>4, <2>1, <3>1, AgreeBelow
    <3>3. QED
        BY <1>1, <2>1, <3>1, <3>2 DEF ForkAgrees
  <2>3. CASE arg = NoForkArg
    <3>1. IsForkPoint(p, Prev(b), f)
        BY <1>1, <1>4, <2>1, <2>3 DEF IsValidationFork
    <3>2. /\ Prev(b) \in Blocks /\ Height[Prev(b)] = Height[b] - 1
          /\ \A i \in 0..(Height[b] - 1) : Chain[Prev(b)][i] = Chain[b][i]
        BY <1>4, PrevAgrees DEF Agree
    <3>3. /\ f \in -1..Height[p] /\ f <= Height[b] - 1
          /\ f >= 0 => Chain[p][f] = Chain[b][f]
        BY <3>1, <3>2, <2>1, <1>1 DEF IsForkPoint
    <3>4. Agree(p, b, f)
        BY <1>1, <1>4, <2>1, <3>3, AgreeBelow
    <3>5. QED
        BY <1>1, <2>1, <3>3, <3>4 DEF ForkAgrees
  <2>4. QED
      BY <2>2, <2>3
<1>5. QED
    BY <1>1, <1>2, <1>3, <1>4

(* The coin table of the peak tells what the chain of b created and spent  *)
(* up to the fork point.                                                   *)
LEMMA TableAtFork ==
    ASSUME DatabaseOk(db), db \in Database, NEW b \in Blocks, NEW f, ForkAgrees(b, f), NEW c \in Coins
    PROVE  /\ InStoreBeforeFork(f, c) <=> CreatedAt(c, b, f) # {}
           /\ InStoreBeforeFork(f, c) => db.conf[c] \in CreatedAt(c, b, f)
           /\ db.spent[c] = 0 \/ db.spent[c] > f <=> SpentAt(c, b, f) = {}
           /\ CreatedAt(c, b, f) = {} => SpentAt(c, b, f) = {}
<1>1. f \in -1..(Height[b] - 1) /\ f \in Int /\ Height[b] \in Nat
    BY ChainAssumption DEF ForkAgrees
<1>2. CASE db.peak = NoBlock
  <2>1. f = -1 /\ db.conf[c] = -1 /\ db.spent[c] = 0
      BY <1>2 DEF ForkAgrees, DatabaseOk, EmptyDatabase
  <2>2. CreatedAt(c, b, f) = {} /\ SpentAt(c, b, f) = {}
      BY <2>1 DEF CreatedAt, SpentAt
  <2>3. QED
      BY <2>1, <2>2 DEF InStoreBeforeFork
<1>3. CASE db.peak # NoBlock
  <2> DEFINE p == db.peak
  <2>1. /\ p \in Blocks /\ Height[p] \in Nat /\ f <= Height[p]
        /\ \A i \in 0..f : Chain[p][i] = Chain[b][i]
      BY <1>3, ChainAssumption DEF ForkAgrees, Agree, Database
  <2>2. /\ CreatedAt(c, p, Height[p]) = IF db.conf[c] = -1 THEN {} ELSE {db.conf[c]}
        /\ SpentAt(c, p, Height[p]) = IF db.spent[c] = 0 THEN {} ELSE {db.spent[c]}
        /\ db.spent[c] # 0 => db.conf[c] # -1 /\ db.conf[c] <= db.spent[c]
      BY <1>3 DEF DatabaseOk, CoinsReplay, SpentAfterCreated
  <2>3. db.conf[c] \in Int /\ db.spent[c] \in Nat
      BY DEF Database
  <2>4. CreatedAt(c, b, f) = {i \in CreatedAt(c, p, Height[p]) : i <= f}
    <3>1. \A i \in 0..f : i \in 0..Height[p]
        BY <1>1, <2>1
    <3>2. QED
        BY <1>1, <2>1, <3>1 DEF CreatedAt
  <2>5. SpentAt(c, b, f) = {i \in SpentAt(c, p, Height[p]) : i <= f}
    <3>1. \A i \in 0..f : i \in 0..Height[p]
        BY <1>1, <2>1
    <3>2. QED
        BY <1>1, <2>1, <3>1 DEF SpentAt
  <2>6. QED
      BY <1>1, <2>2, <2>3, <2>4, <2>5 DEF InStoreBeforeFork
<1>4. QED
    BY <1>2, <1>3

(* Check 15 decides as if it looked at the chain of the block alone.       *)
LEMMA RemovalIsExact ==
    ASSUME DatabaseOk(db), db \in Database, NEW b \in Blocks, NEW f, ForkAgrees(b, f), NEW c \in Coins
    PROVE  RemovalOk(b, f, c) <=> SpendOnOwnChain(b, c)
<1> DEFINE h == Height[b] - 1
<1>1. f \in -1..h /\ f \in Int /\ Height[b] \in Nat
    BY ChainAssumption DEF ForkAgrees
<1>2. SpentAt(c, b, h) = {} <=> SpentAt(c, b, f) = {} /\ ~RemovedSinceFork(b, f, c)
    BY <1>1 DEF SpentAt, RemovedSinceFork, SinceFork
<1>3. CreatedAt(c, b, h) # {} <=>
        CreatedAt(c, b, f) # {} \/ \E i \in SinceFork(b, f) : c \in Adds(Chain[b][i])
    BY <1>1 DEF CreatedAt, SinceFork
<1>4. QED
    BY <1>2, <1>3, TableAtFork DEF RemovalOk, SpendOnOwnChain

(* Check 21 too, for a block on a chain of valid blocks: the height it     *)
(* takes the coin to be confirmed at is the one where it is created.       *)
LEMMA LocksAreExact ==
    ASSUME DatabaseOk(db), db \in Database, NEW b \in Blocks, NEW f, ForkAgrees(b, f),
           \A x \in PathOf(b) : ValidOnOwnChain(x),
           \A c \in Removals[b] : SpendOnOwnChain(b, c)
    PROVE  HeightLocksOk(b, f) <=> LocksOnOwnChain(b)
<1> DEFINE h == Height[b]
<1>1. f \in -1..(h - 1) /\ f \in Int /\ h \in Nat /\ Chain[b][h] = b
    BY ChainAssumption DEF ForkAgrees
<1>2. ASSUME NEW c \in Removals[b] PROVE c \in Coins /\ ConfirmedHeight(b, f, c) \in CreatedAt(c, b, h)
  <2>1. c \in Coins
      BY CoinsAssumption
  <2>2. CASE c \in Adds(b)
      BY <1>1, <2>1, <2>2 DEF ConfirmedHeight, CreatedAt
  <2>3. CASE c \notin Adds(b) /\ InStoreBeforeFork(f, c)
    <3>1. db.conf[c] \in CreatedAt(c, b, f)
        BY <2>1, <2>3, TableAtFork
    <3>2. QED
        BY <1>1, <2>1, <2>3, <3>1 DEF ConfirmedHeight, CreatedAt
  <2>4. CASE c \notin Adds(b) /\ ~InStoreBeforeFork(f, c)
    <3>1. RemovalOk(b, f, c)
        BY <1>2, <2>1, RemovalIsExact
    <3>2. \E i \in SinceFork(b, f) : c \in Adds(Chain[b][i])
        BY <2>4, <3>1 DEF RemovalOk
    <3>3. ConfirmedHeight(b, f, c) \in SinceFork(b, f) /\ c \in Adds(Chain[b][ConfirmedHeight(b, f, c)])
        BY <2>4, <3>2 DEF ConfirmedHeight
    <3>4. QED
        BY <1>1, <2>1, <3>3 DEF SinceFork, CreatedAt
  <2>5. QED
      BY <2>2, <2>3, <2>4
<1>3. ASSUME NEW c \in DOMAIN HeightLock[b]
      PROVE  PrevTxHeight(b) >= ConfirmedHeight(b, f, c) + HeightLock[b][c]
             <=> \A i \in CreatedAt(c, b, h) : PrevTxHeight(b) >= i + HeightLock[b][c]
  <2>1. c \in Removals[b]
      BY BodyAssumption
  <2>2. c \in Coins /\ ConfirmedHeight(b, f, c) \in CreatedAt(c, b, h)
      BY <1>2, <2>1
  <2>3. \A i \in CreatedAt(c, b, h) : i = ConfirmedHeight(b, f, c)
      BY <2>2, CreatedOnce
  <2>4. QED
      BY <2>2, <2>3
<1>4. QED
    BY <1>3 DEF HeightLocksOk, LocksOnOwnChain

--------------------------------------------------------------------------------
(* Every stored block is valid on its own chain, and so is its path.       *)

StoredOk(d) == \A b \in d.stored : PathOf(b) \subseteq d.stored /\ ValidOnOwnChain(b)

StoredInv == StoredOk(db) /\ (pc \in {"apply", "commit"} => StoredOk(txn))

(* What receive_block accepts, it may store.                               *)
LEMMA AcceptedIsValid ==
    ASSUME Undisturbed, Inv, StoredOk(db), NEW b \in Blocks, NEW arg \in ForkArgs \cup {NoForkArg},
           IsForkArg(b, arg), Accepts(b, arg),
           NEW d, d.stored = db.stored \cup {b}
    PROVE  StoredOk(d)
<1>1. /\ pc = "idle" /\ db \in Database /\ DatabaseOk(db) /\ records \subseteq db.stored
      /\ Height[b] \in Nat
    BY AtIdle, ChainAssumption DEF Accepts
<1>2. PathOf(b) \subseteq db.stored \cup {b}
  <2>1. ASSUME NEW i \in 0..(Height[b] - 1) PROVE Chain[b][i] \in db.stored
    <3>1. Height[b] > 0 /\ Prev(b) \in db.stored
        BY <1>1 DEF Accepts
    <3>2. Height[Prev(b)] = Height[b] - 1 /\ Chain[Prev(b)][i] = Chain[b][i]
        BY <3>1, PrevAgrees DEF Agree
    <3>3. Chain[Prev(b)][i] \in PathOf(Prev(b))
        BY <3>2 DEF PathOf
    <3>4. QED
        BY <3>1, <3>2, <3>3 DEF StoredOk
  <2>2. \A i \in 0..Height[b] : i \in 0..(Height[b] - 1) \/ Chain[b][i] = b
      BY <1>1, ChainAssumption
  <2>3. QED
      BY <2>1, <2>2 DEF PathOf
<1>3. ValidOnOwnChain(b)
  <2>1. SUFFICES ASSUME IsTx[b] PROVE ValidOnOwnChain(b)
      BY DEF ValidOnOwnChain
  <2>2. PICK f \in -1..Height[b] : IsValidationFork(b, arg, f) /\ ValidBody(b, f)
      BY <2>1 DEF Accepts
  <2>3. ForkAgrees(b, f)
      BY <1>1, <2>2, ValidationForkAgrees
  <2>4. \A c \in Removals[b] : c \in Coins /\ RemovalOk(b, f, c)
      BY <2>2, CoinsAssumption DEF ValidBody
  <2>5. \A c \in Removals[b] : SpendOnOwnChain(b, c)
      BY <1>1, <2>3, <2>4, RemovalIsExact
  <2>6. QED
      BY <2>2, <2>5 DEF ValidBody, RewardsOk, ValidOnOwnChain
<1>4. QED
    BY <1>2, <1>3 DEF StoredOk

LEMMA StoredNext == Undisturbed /\ Inv /\ StoredInv /\ [Next]_vars => StoredInv'
<1> SUFFICES ASSUME Undisturbed, Inv, StoredInv, [Next]_vars PROVE StoredInv'
    OBVIOUS
<1>0. db \in Database /\ txn \in Database
    BY DEF Inv, TypeOK
<1>1. ASSUME NEW d, NEW e, d.stored = e.stored, StoredOk(d) PROVE StoredOk(e)
    BY <1>1 DEF StoredOk
<1>2. ASSUME NEW b \in Blocks, ReceiveGenesis(b) PROVE StoredInv'
  <2>1. db' = db /\ txn'.stored = db.stored \cup {b} /\ Accepts(b, NoForkArg)
      BY <1>0, <1>2 DEF ReceiveGenesis, AddFullBlock, Database
  <2>2. IsForkArg(b, NoForkArg)
      BY DEF IsForkArg
  <2>3. StoredOk(txn')
      BY <2>1, <2>2, AcceptedIsValid DEF StoredInv
  <2>4. QED
      BY <2>1, <2>3 DEF StoredInv
<1>3. ASSUME NEW b \in Blocks, NEW arg \in ForkArgs \cup {NoForkArg}, IsForkArg(b, arg),
             ReceiveOrphan(b, arg) \/ ReceiveHeavier(b, arg)
      PROVE  StoredInv'
  <2>1. db' = db /\ txn'.stored = db.stored \cup {b} /\ Accepts(b, arg)
    <3>1. CASE ReceiveOrphan(b, arg)
        BY <1>0, <3>1 DEF ReceiveOrphan, AddFullBlock, Database
    <3>2. CASE ReceiveHeavier(b, arg)
      <4>1. AddFullBlock(db, b) \in Database /\ AddFullBlock(db, b).stored = db.stored \cup {b}
          BY <1>0 DEF AddFullBlock, Database
      <4>2. PICK f : txn' = IF Prev(b) = GetPeak THEN AddFullBlock(db, b)
                            ELSE RollbackToBlock(AddFullBlock(db, b), f)
          BY <3>2 DEF ReceiveHeavier
      <4>3. txn'.stored = AddFullBlock(db, b).stored
          BY <4>1, <4>2 DEF RollbackToBlock, Database
      <4>4. QED
          BY <3>2, <4>1, <4>3 DEF ReceiveHeavier
    <3>3. QED
        BY <1>3, <3>1, <3>2
  <2>2. StoredOk(txn')
      BY <1>3, <2>1, AcceptedIsValid DEF StoredInv
  <2>3. QED
      BY <2>1, <2>2 DEF StoredInv
<1>4. CASE ApplyBlock
  <2>1. /\ db' = db /\ pc = "apply"
        /\ txn' = txn \/ txn' = NewBlock(txn, Chain[block][next])
      BY <1>4 DEF ApplyBlock
  <2>2. txn'.stored = txn.stored
      BY <1>0, <2>1 DEF NewBlock, Database
  <2>3. QED
      BY <1>1, <2>1, <2>2 DEF StoredInv
<1>5. CASE SetPeak
  <2>1. db' = db /\ pc = "apply" /\ txn'.stored = txn.stored
      BY <1>0, <1>5 DEF SetPeak, Database
  <2>2. QED
      BY <1>1, <2>1 DEF StoredInv
<1>6. CASE Commit
    BY <1>6 DEF Commit, StoredInv
<1>7. CASE RaiseInNewBlock \/ UpdatePeakHeight \/ CancelInTransaction \/ CancelInCommit \/ Restart
    BY <1>7 DEF RaiseInNewBlock, UpdatePeakHeight, CancelInTransaction, CancelInCommit, Restart,
                EndCall, StoredInv
<1>8. CASE CleanBlockRecords \/ (\E h \in ForkArgs : Warmup(h)) \/ UNCHANGED vars
    BY <1>8 DEF CleanBlockRecords, Warmup, call, vars, StoredInv
<1>9. QED
    BY <1>2, <1>3, <1>4, <1>5, <1>6, <1>7, <1>8 DEF Next

(***************************************************************************)
(* What is in full_blocks, in the main chain or not, came through          *)
(* validate_block_body as if its own chain had been the peak's, with all   *)
(* that is below it.                                                       *)
(***************************************************************************)
THEOREM StoredBlocksAreValid == ASSUME Undisturbed PROVE Spec => []StoredInv
<1>1. Init => StoredInv
    BY DEF Init, EmptyDatabase, StoredInv, StoredOk
<1>2. Inv /\ StoredInv /\ [Next]_vars => StoredInv'
    BY StoredNext
<1>3. QED
    BY <1>1, <1>2, Invariance, PTL DEF Spec

(***************************************************************************)
(* new_block never raises in a reorganisation: a block that                *)
(* validate_block_body accepted, against whatever peak there was then, can *)
(* be applied once the loop of _reconsider_peak gets to it.                *)
(***************************************************************************)
THEOREM AppliesTheorem == ASSUME Undisturbed PROVE Spec => []AcceptedBlocksApply
<1>1. Inv /\ StoredInv => AcceptedBlocksApply
  <2>1. SUFFICES ASSUME Inv, StoredInv, pc = "apply", next <= Height[block], IsTx[Chain[block][next]]
                 PROVE  CanApply(txn, Chain[block][next])
      BY DEF AcceptedBlocksApply
  <2>2. /\ txn \in Database /\ block \in Blocks /\ block \in txn.stored
        /\ next \in 0..Height[block] /\ CoinsReplay(txn, block, next - 1)
      BY <2>1, AtApply
  <2>3. \A x \in PathOf(block) : ValidOnOwnChain(x)
      BY <2>1, <2>2 DEF StoredInv, StoredOk
  <2>4. QED
      BY <2>1, <2>2, <2>3, ValidApplies
<1>2. QED
    BY <1>1, Invariance, StoredBlocksAreValid, PTL

(***************************************************************************)
(* validate_block_body, which reads the coin table of the current peak and *)
(* the blocks since the fork, accepts exactly the spends and height locks  *)
(* that are valid on the chain of the block.                               *)
(***************************************************************************)
THEOREM ExactTheorem == ASSUME Undisturbed PROVE Spec => []ValidationIsExact
<1>1. Inv /\ StoredInv => ValidationIsExact
  <2>1. SUFFICES ASSUME Inv, StoredInv, pc = "idle", NEW b \in Blocks, NEW f,
                        Height[b] > 0 => Prev(b) \in records,
                        IsTx[b], RewardsOk(b), Additions[b] \cap Claims[b] = {},
                        IsValidationFork(b, NoForkArg, f)
                 PROVE  ValidBody(b, f) <=>
                            (\A c \in Removals[b] : SpendOnOwnChain(b, c)) /\ LocksOnOwnChain(b)
      BY DEF ValidationIsExact
  <2>2. /\ db \in Database /\ DatabaseOk(db) /\ records \subseteq db.stored /\ Height[b] \in Nat
        /\ IsForkArg(b, NoForkArg)
      BY <2>1, AtIdle, ChainAssumption DEF IsForkArg
  <2>3. ForkAgrees(b, f)
      BY <2>1, <2>2, ValidationForkAgrees
  <2>4. \A c \in Removals[b] : RemovalOk(b, f, c) <=> SpendOnOwnChain(b, c)
      BY <2>2, <2>3, RemovalIsExact, CoinsAssumption
  <2>5. ASSUME NEW i \in 0..(Height[b] - 1) PROVE Chain[b][i] \in db.stored
    <3>1. Height[b] > 0 /\ Prev(b) \in db.stored
        BY <2>1, <2>2
    <3>2. Height[Prev(b)] = Height[b] - 1 /\ Chain[Prev(b)][i] = Chain[b][i]
        BY <3>1, PrevAgrees DEF Agree
    <3>3. Chain[Prev(b)][i] \in PathOf(Prev(b))
        BY <3>2 DEF PathOf
    <3>4. QED
        BY <2>1, <3>1, <3>2, <3>3 DEF StoredInv, StoredOk
  <2>6. ASSUME \A c \in Removals[b] : SpendOnOwnChain(b, c)
        PROVE  HeightLocksOk(b, f) <=> LocksOnOwnChain(b)
    <3>1. ValidOnOwnChain(b)
        BY <2>1, <2>6 DEF ValidOnOwnChain, RewardsOk
    <3>2. \A i \in 0..Height[b] : i \in 0..(Height[b] - 1) \/ Chain[b][i] = b
        BY <2>2, ChainAssumption
    <3>3. \A x \in PathOf(b) : ValidOnOwnChain(x)
        BY <2>1, <2>5, <3>1, <3>2 DEF PathOf, StoredInv, StoredOk
    <3>4. QED
        BY <2>2, <2>3, <2>6, <3>3, LocksAreExact
  <2>7. \A i \in SinceFork(b, f) : Chain[b][i] \in db.stored
      BY <2>5 DEF SinceFork
  <2>8. QED
      BY <2>1, <2>4, <2>6, <2>7 DEF ValidBody
<1>2. QED
    BY <1>1, Invariance, StoredBlocksAreValid, PTL
================================================================================
