------------------------------- MODULE Blockchain ------------------------------
(***************************************************************************)
(* Adding blocks to the chain: Blockchain.receive_block and                *)
(* _reconsider_peak (lotus/consensus/blockchain.py), the coin and block    *)
(* stores they write (lotus/full_node/coin_store.py, block_store.py), and  *)
(* what validate_block_body checks of the coins a block spends.            *)
(*                                                                         *)
(* The tree of blocks that peers can send is a constant of the model.  A   *)
(* header hash commits to all the ancestors of its block, so a block is    *)
(* given with its chain.  The header checks and the checks that need       *)
(* nothing but the block itself (signatures, roots, cost, amounts) are     *)
(* left out: every block of the tree passes them.                          *)
(*                                                                         *)
(* receive_block runs under the blockchain lock, hence one at a time.      *)
(* What other tasks see between its steps is the memory of Blockchain      *)
(* (block records, height map, peak height) and the committed database:    *)
(* readers use their own connections and do not see the open transaction.  *)
(***************************************************************************)
EXTENDS Integers, FiniteSets

CONSTANTS
    Blocks,         \* the blocks that may be received
    Height,         \* height of each block
    Chain,          \* Chain[b][i] is the ancestor of b at height i; b itself is the last
    Weight,         \* total difficulty of the chain of each block
    IsTx,           \* is it a transaction block?
    Coins,          \* coin ids
    Removals,       \* coins spent by each block
    Additions,      \* coins created by the spends of each block
    Claims,         \* reward coins that each block incorporates
    Reward,         \* the reward coin that farming each block earns
    ParentCoin,     \* the coin whose spend creates each coin; not a coin for a reward
    HeightLock,     \* HeightLock[b][c]: ASSERT_HEIGHT_RELATIVE of b's spend of c
    NoBlock,        \* no peak
    CacheSize,      \* BLOCKS_CACHE_SIZE
    ForkArgs,       \* heights that callers pass as fork_point_with_peak, besides None
    StaleForkArgs,  \* may they pass a height at which the chains differ by now?
    Interrupts      \* what may happen to a task: see InterruptKinds

InterruptKinds == {"cancel", "crash"}

Adds(b) == Additions[b] \cup Claims[b]

(* Height[b] > 0 *)
Prev(b) == Chain[b][Height[b] - 1]

(***************************************************************************)
(* A block has one ancestor at every height up to its own, and shares      *)
(* their ancestors.                                                        *)
(***************************************************************************)
ASSUME ChainAssumption ==
    /\ NoBlock \notin Blocks
    /\ Height \in [Blocks -> Nat]
    /\ \A b \in Blocks :
        /\ Chain[b] \in [0..Height[b] -> Blocks]
        /\ Chain[b][Height[b]] = b
        /\ \A i \in 0..Height[b] :
            /\ Height[Chain[b][i]] = i
            /\ \A j \in 0..i : Chain[Chain[b][i]][j] = Chain[b][j]

(* Difficulty is positive, and every chain starts with the same one.       *)
ASSUME WeightAssumption ==
    /\ Weight \in [Blocks -> Nat]
    /\ \A b \in Blocks : \A i \in 0..(Height[b] - 1) : Weight[Chain[b][i]] < Weight[b]
    /\ \A b, c \in Blocks : Height[b] = 0 /\ Height[c] = 0 => Weight[b] = Weight[c]

(* Only transaction blocks touch coins, and the first block spends none.   *)
ASSUME CoinsAssumption ==
    /\ IsTx \in [Blocks -> BOOLEAN]
    /\ Removals \in [Blocks -> SUBSET Coins]
    /\ Additions \in [Blocks -> SUBSET Coins]
    /\ Claims \in [Blocks -> SUBSET Coins]
    /\ \A b \in Blocks : ~IsTx[b] => Removals[b] = {} /\ Adds(b) = {}
    /\ \A b \in Blocks : Height[b] = 0 => Removals[b] = {}

(***************************************************************************)
(* The id of a coin is a hash over its parent and, of a reward, over the   *)
(* height that earned it: no coin is among its own ancestors, and what a   *)
(* block creates descends from what it spends.                             *)
(***************************************************************************)
ASSUME CoinIdAssumption ==
    /\ \A b \in Blocks : \A c \in Additions[b] : ParentCoin[c] \in Removals[b]
    /\ \A S \in SUBSET Coins : S # {} => \E c \in S : ParentCoin[c] \notin S
    /\ Reward \in [Blocks -> Coins]
    /\ \A a, b \in Blocks : Reward[a] = Reward[b] => Height[a] = Height[b]
    /\ \A a, b \in Blocks : Reward[a] \notin Additions[b]

(* The header checks let only a transaction block be the first, and a lock *)
(* belongs to a spend.                                                     *)
ASSUME BodyAssumption ==
    \A b \in Blocks :
        /\ Height[b] = 0 => IsTx[b]
        /\ DOMAIN HeightLock[b] \subseteq Removals[b]
        /\ \A c \in DOMAIN HeightLock[b] : HeightLock[b][c] \in Nat

ASSUME ParametersAssumption ==
    /\ CacheSize \in Nat \ {0}
    /\ ForkArgs \in SUBSET Nat
    /\ StaleForkArgs \in BOOLEAN
    /\ Interrupts \in SUBSET InterruptKinds

VARIABLES
    db,             \* the committed database
    txn,            \* the database as the open transaction sees it
    records,        \* __block_records: blocks whose record is in memory
    heightMap,      \* __height_map: a function from 0..n, or empty
    peakHeight,     \* _peak_height, -1 for None
    pc,             \* the await at which receive_block is suspended
    block,          \* the block it was called with
    fork,           \* fork_height
    next,           \* the height of the next block of blocks_to_add
    summary         \* is state_change_summary set: is block the new peak?

memory == <<records, heightMap, peakHeight>>
call == <<pc, block, fork, next, summary>>
vars == <<db, txn, records, heightMap, peakHeight, pc, block, fork, next, summary>>

(***************************************************************************)
(* The tables full_blocks (stored, inMain), current_peak and coin_record.  *)
(* conf[c] = -1 when coin c has no row; spent[c] = 0 when it is unspent.   *)
(***************************************************************************)
Database ==
    [stored : SUBSET Blocks,
     inMain : SUBSET Blocks,
     peak   : Blocks \cup {NoBlock},
     conf   : [Coins -> Int],
     spent  : [Coins -> Nat]]

EmptyDatabase ==
    [stored |-> {}, inMain |-> {}, peak |-> NoBlock,
     conf |-> [c \in Coins |-> -1], spent |-> [c \in Coins |-> 0]]

Empty == [i \in {} |-> NoBlock]

TypeOK ==
    /\ db \in Database
    /\ txn \in Database
    /\ records \in SUBSET Blocks
    /\ peakHeight \in Nat \cup {-1}
    /\ DOMAIN heightMap \subseteq Nat
    /\ pc \in {"idle", "apply", "commit", "committed"}
    /\ block \in Blocks \cup {NoBlock}
    /\ fork \in Int
    /\ next \in Nat
    /\ summary \in BOOLEAN

Init ==
    /\ db = EmptyDatabase
    /\ txn = EmptyDatabase
    /\ records = {}
    /\ heightMap = Empty
    /\ peakHeight = -1
    /\ pc = "idle"
    /\ block = NoBlock
    /\ fork = -1
    /\ next = 0
    /\ summary = FALSE

--------------------------------------------------------------------------------
(* get_peak: height_to_block_record(_peak_height).                         *)
GetPeak == IF peakHeight = -1 THEN NoBlock ELSE heightMap[peakHeight]

(* It raises when the height is not in the map or the record not in memory.*)
PeakReadable ==
    peakHeight # -1 =>
        peakHeight \in DOMAIN heightMap /\ heightMap[peakHeight] \in records

(***************************************************************************)
(* find_fork_point_in_chain(a, b) returns f: the last height at which the  *)
(* two chains agree, -1 if there is none.                                  *)
(***************************************************************************)
IsForkPoint(a, b, f) ==
    /\ f \in -1..Height[a] /\ f <= Height[b]
    /\ f >= 0 => Chain[a][f] = Chain[b][f]
    /\ \A i \in 0..Height[a] : f < i /\ i <= Height[b] => Chain[a][i] # Chain[b][i]

(* It walks back over the records of both, which have to be in memory.     *)
WalkLoaded(a, f) == \A i \in 0..(Height[a] - 1) : i >= f => Chain[a][i] \in records

NoForkArg == -1     \* fork_point_with_peak is None

(***************************************************************************)
(* What callers pass as fork_point_with_peak.  A sync passes the height up *)
(* to which it found the peer's chain and ours to agree, not necessarily   *)
(* the last one; it does so before it has the lock.                        *)
(***************************************************************************)
IsForkArg(b, arg) ==
    \/ arg = NoForkArg
    \/ StaleForkArgs
    \/ arg \in DOMAIN heightMap /\ arg < Height[b] /\ heightMap[arg] = Chain[b][arg]

--------------------------------------------------------------------------------
(* validate_block_body: the coins.                                         *)

(* The last transaction block of the chain of b below height h.            *)
LastTx(b, h) ==
    CHOOSE i \in 0..(h - 1) : IsTx[Chain[b][i]] /\ \A j \in (i + 1)..(h - 1) : ~IsTx[Chain[b][j]]

PrevTxHeight(b) == IF Height[b] = 0 THEN 0 ELSE LastTx(b, Height[b])

(***************************************************************************)
(* Check 5: the rewards of the previous transaction block and of the       *)
(* blocks between it and the transaction block before it.                  *)
(***************************************************************************)
RewardHeights(b) ==
    IF Height[b] = 0 THEN {}
    ELSE LET t == PrevTxHeight(b) IN IF t = 0 THEN {0} ELSE (LastTx(b, t) + 1)..t

RewardsOk(b) ==
    /\ \A i \in RewardHeights(b) : Chain[b][i] \in records
    /\ Claims[b] = {Reward[Chain[b][i]] : i \in RewardHeights(b)}

(* The fork point that validation uses (line 277 on).                      *)
IsValidationFork(b, arg, f) ==
    IF GetPeak = NoBlock \/ Height[b] = 0 THEN f = -1
    ELSE IF arg # NoForkArg THEN f = arg /\ f <= Height[b] - 1
    ELSE /\ IsForkPoint(GetPeak, Prev(b), f)
         /\ WalkLoaded(GetPeak, f) /\ WalkLoaded(Prev(b), f)

(* Heights of the blocks between the fork point and b.                     *)
SinceFork(b, f) == {i \in 0..(Height[b] - 1) : i > f}

RemovedSinceFork(b, f, c) == \E i \in SinceFork(b, f) : c \in Removals[Chain[b][i]]

(* In the coin store, confirmed at or before the fork point.               *)
InStoreBeforeFork(f, c) == db.conf[c] # -1 /\ db.conf[c] <= f

(* Mutant of RemovalOk: without DOUBLE_SPEND_IN_FORK.                      *)
RemovalOkNoForkCheck(b, f, c) ==
    \/ c \in Adds(b)
    \/ IF InStoreBeforeFork(f, c)
       THEN db.spent[c] = 0 \/ db.spent[c] > f
       ELSE \E i \in SinceFork(b, f) : c \in Adds(Chain[b][i])

(***************************************************************************)
(* Check 15 for a coin that b spends: it is created by b, or it is         *)
(* confirmed and unspent at the fork point, or created after it; and it is *)
(* not spent between the fork point and b.                                 *)
(***************************************************************************)
RemovalOk(b, f, c) ==
    \/ c \in Adds(b)
    \/ /\ ~RemovedSinceFork(b, f, c)
       /\ IF InStoreBeforeFork(f, c)
          THEN db.spent[c] = 0 \/ db.spent[c] > f
          ELSE \E i \in SinceFork(b, f) : c \in Adds(Chain[b][i])

(* Mutant of ConfirmedHeight: the row of the coin store, whatever the fork.*)
ConfirmedHeightInStore(b, f, c) ==
    IF c \in Adds(b) THEN Height[b]
    ELSE IF db.conf[c] # -1 THEN db.conf[c]
    ELSE CHOOSE i \in SinceFork(b, f) : c \in Adds(Chain[b][i])

(* The height at which the coin is confirmed, for the relative time locks. *)
ConfirmedHeight(b, f, c) ==
    IF c \in Adds(b) THEN Height[b]
    ELSE IF InStoreBeforeFork(f, c) THEN db.conf[c]
    ELSE CHOOSE i \in SinceFork(b, f) : c \in Adds(Chain[b][i])

(* Check 21.  HeightLock[b] is defined for the spends with a lock.         *)
HeightLocksOk(b, f) ==
    \A c \in DOMAIN HeightLock[b] :
        PrevTxHeight(b) >= ConfirmedHeight(b, f, c) + HeightLock[b][c]

(* A transaction block, with the fork point f.                             *)
ValidBody(b, f) ==
    /\ RewardsOk(b)
    /\ Additions[b] \cap Claims[b] = {}
    /\ \A i \in SinceFork(b, f) : Chain[b][i] \in db.stored
    /\ \A c \in Removals[b] : RemovalOk(b, f, c)
    /\ HeightLocksOk(b, f)

(* Another block: only the walk back to the last transaction block.        *)
PrevTxLoaded(b) == \A i \in PrevTxHeight(b)..(Height[b] - 1) : Chain[b][i] \in records

--------------------------------------------------------------------------------
(* The stores.  d is the database as the transaction sees it.              *)

(* BlockStore.add_full_block: INSERT OR IGNORE, not in the main chain.     *)
AddFullBlock(d, b) == [d EXCEPT !.stored = @ \cup {b}]

(* Mutant of RollbackToBlock: the coins spent after h stay spent.          *)
RollbackKeepsSpent(d, h) ==
    [d EXCEPT !.conf = [c \in Coins |-> IF d.conf[c] > h THEN -1 ELSE d.conf[c]],
              !.spent = [c \in Coins |-> IF d.conf[c] > h THEN 0 ELSE d.spent[c]]]

(***************************************************************************)
(* CoinStore.rollback_to_block: deletes the rows confirmed after the       *)
(* height, and makes the coins spent after it unspent.                     *)
(***************************************************************************)
RollbackToBlock(d, h) ==
    [d EXCEPT !.conf = [c \in Coins |-> IF d.conf[c] > h THEN -1 ELSE d.conf[c]],
              !.spent = [c \in Coins |-> IF d.conf[c] > h \/ d.spent[c] > h
                                         THEN 0 ELSE d.spent[c]]]

(* CoinStore.new_block: INSERT the additions, UPDATE the removals.         *)
NewBlock(d, b) ==
    [d EXCEPT !.conf = [c \in Coins |-> IF c \in Adds(b) THEN Height[b] ELSE d.conf[c]],
              !.spent = [c \in Coins |-> IF c \in Removals[b] THEN Height[b] ELSE d.spent[c]]]

(***************************************************************************)
(* It raises when it finds the wrong number of rewards, when a coin has a  *)
(* row already, and when _set_spent does not update as many unspent rows   *)
(* as there are removals.                                                  *)
(***************************************************************************)
CanApply(d, b) ==
    /\ Height[b] = 0 <=> Claims[b] = {}
    /\ Additions[b] \cap Claims[b] = {}
    /\ \A c \in Adds(b) : d.conf[c] = -1
    /\ \A c \in Removals[b] : (c \in Adds(b) \/ d.conf[c] # -1) /\ d.spent[c] = 0

--------------------------------------------------------------------------------
(* receive_block.  Its early returns (ALREADY_HAVE_BLOCK,                  *)
(* DISCONNECTED_BLOCK, INVALID_BLOCK) and an exception before the          *)
(* transaction change nothing: the actions below are not enabled then.     *)
Accepts(b, arg) ==
    /\ pc = "idle"
    /\ b \notin records
    /\ Height[b] > 0 => Prev(b) \in records
    /\ PeakReadable
    /\ IF IsTx[b] THEN \E f \in -1..Height[b] : IsValidationFork(b, arg, f) /\ ValidBody(b, f)
       ELSE PrevTxLoaded(b)

(* The first block ever: new_block, set_in_chain, set_peak, no rollback.   *)
ReceiveGenesis(b) ==
    /\ Accepts(b, NoForkArg)
    /\ Height[b] = 0
    /\ GetPeak = NoBlock
    /\ txn' = AddFullBlock(db, b)
    /\ pc' = "apply"
    /\ block' = b
    /\ fork' = -1
    /\ next' = 0
    /\ UNCHANGED <<db, memory, summary>>

(* Mutant of ReceiveOrphan: a chain that is not longer stays an orphan.    *)
ReceiveOrphanByHeight(b, arg) ==
    /\ Accepts(b, arg)
    /\ GetPeak # NoBlock
    /\ Height[b] = 0 \/ Height[b] <= Height[GetPeak]
    /\ txn' = AddFullBlock(db, b)
    /\ records' = records \cup {b}
    /\ pc' = "commit"
    /\ block' = b
    /\ UNCHANGED <<db, heightMap, peakHeight, fork, next, summary>>

(* `block_record.weight <= peak.weight' is its negation.                   *)
IsHeavier(b) == Weight[b] > Weight[GetPeak]

(***************************************************************************)
(* A block that is not heavier than the peak, or another first block, is   *)
(* stored, and nothing else.                                               *)
(***************************************************************************)
ReceiveOrphan(b, arg) ==
    /\ Accepts(b, arg)
    /\ GetPeak # NoBlock
    /\ Height[b] = 0 \/ ~IsHeavier(b)
    /\ txn' = AddFullBlock(db, b)
    /\ records' = records \cup {b}
    /\ pc' = "commit"
    /\ block' = b
    /\ UNCHANGED <<db, heightMap, peakHeight, fork, next, summary>>

(* fork_height of _reconsider_peak.                                        *)
IsForkHeight(b, arg, f) ==
    IF Prev(b) = GetPeak THEN f = Height[GetPeak]
    ELSE IF arg # NoForkArg THEN f = arg
    ELSE IsForkPoint(b, GetPeak, f) /\ WalkLoaded(b, f) /\ WalkLoaded(GetPeak, f)

(***************************************************************************)
(* The blocks to add go back from b until the block that the height map    *)
(* has at the fork height, or to the first block if that is never met.     *)
(***************************************************************************)
FirstToAdd(b, f) ==
    IF f \in DOMAIN heightMap /\ f <= Height[b] /\ heightMap[f] = Chain[b][f]
    THEN f + 1 ELSE 0

(* A heavier block: roll the coins back, fetch the blocks to add.          *)
ReceiveHeavier(b, arg) ==
    /\ Accepts(b, arg)
    /\ GetPeak # NoBlock
    /\ Height[b] > 0 /\ IsHeavier(b)
    /\ \E f \in ForkArgs \cup -1..Height[b] :
        /\ IsForkHeight(b, arg, f)
        /\ fork' = f
        /\ next' = FirstToAdd(b, f)
        /\ txn' = LET d == AddFullBlock(db, b)
                  IN  IF Prev(b) = GetPeak THEN d ELSE RollbackToBlock(d, f)
        /\ \A i \in FirstToAdd(b, f)..Height[b] : Chain[b][i] \in txn'.stored
    /\ pc' = "apply"
    /\ block' = b
    /\ UNCHANGED <<db, memory, summary>>

(* One iteration of the loop over blocks_to_add.                           *)
ApplyBlock ==
    /\ pc = "apply"
    /\ next <= Height[block]
    /\ LET b == Chain[block][next]
       IN  /\ IsTx[b] => CanApply(txn, b)
           /\ txn' = IF IsTx[b] THEN NewBlock(txn, b) ELSE txn
    /\ next' = next + 1
    /\ UNCHANGED <<db, memory, pc, block, fork, summary>>

(* After the receive_block that ends, the variables of the call are reset. *)
EndCall ==
    /\ pc' = "idle"
    /\ block' = NoBlock
    /\ fork' = -1
    /\ next' = 0
    /\ summary' = FALSE

(* new_block raises: ROLLBACK, and the block is taken out of the cache.    *)
RaiseInNewBlock ==
    /\ pc = "apply"
    /\ next <= Height[block]
    /\ IsTx[Chain[block][next]] /\ ~CanApply(txn, Chain[block][next])
    /\ txn' = db
    /\ EndCall
    /\ UNCHANGED <<db, memory>>

(* Mutant of NewHeightMap: update_height without the rollback.             *)
NewHeightMapNoRollback(b, f) ==
    LET added == FirstToAdd(b, f)..Height[b]
    IN  [i \in DOMAIN heightMap \cup added |-> IF i \in added THEN Chain[b][i] ELSE heightMap[i]]

(* BlockHeightMap.rollback(max(fork_height, 0)), then update_height.       *)
NewHeightMap(b, f) ==
    LET kept == {i \in DOMAIN heightMap : i <= f \/ i = 0}
        added == FirstToAdd(b, f)..Height[b]
    IN  [i \in kept \cup added |-> IF i \in added THEN Chain[b][i] ELSE heightMap[i]]

(* Mutant of NewInMain: the abandoned blocks stay in the main chain.       *)
NewInMainNoRollback(d, b, f) ==
    d.inMain \cup {Chain[b][i] : i \in FirstToAdd(b, f)..Height[b]}

(* Mutant of NewInMain: only the new peak is marked.                       *)
NewInMainPeakOnly(d, b, f) ==
    {x \in d.inMain : Height[b] = 0 \/ Height[x] <= f} \cup {b}

(* BlockStore.rollback, which the first block ever does not call, and      *)
(* set_in_chain.                                                           *)
NewInMain(d, b, f) ==
    {x \in d.inMain : Height[b] = 0 \/ Height[x] <= f}
        \cup {Chain[b][i] : i \in FirstToAdd(b, f)..Height[b]}

(* Mutant: _peak_height is set with the rest of the memory.                *)
SetPeakEarly ==
    /\ pc = "apply"
    /\ next > Height[block]
    /\ txn' = [txn EXCEPT !.inMain = NewInMain(txn, block, fork), !.peak = block]
    /\ records' = records \cup {block}
    /\ heightMap' = NewHeightMap(block, fork)
    /\ pc' = "commit"
    /\ summary' = TRUE
    /\ peakHeight' = Height[block]
    /\ UNCHANGED <<db, block, fork, next>>

(***************************************************************************)
(* The end of _reconsider_peak, with set_peak, and the update of the       *)
(* memory that follows it before the transaction is committed.             *)
(***************************************************************************)
SetPeak ==
    /\ pc = "apply"
    /\ next > Height[block]
    /\ txn' = [txn EXCEPT !.inMain = NewInMain(txn, block, fork), !.peak = block]
    /\ records' = records \cup {block}
    /\ heightMap' = NewHeightMap(block, fork)
    /\ pc' = "commit"
    /\ summary' = TRUE
    /\ UNCHANGED <<db, peakHeight, block, fork, next>>

(* The writer() context ends: RELEASE of the outermost savepoint.          *)
Commit ==
    /\ pc = "commit"
    /\ db' = txn
    /\ pc' = "committed"
    /\ UNCHANGED <<txn, memory, block, fork, next, summary>>

(* The task resumes after the commit and sets _peak_height.                *)
UpdatePeakHeight ==
    /\ pc = "committed"
    /\ peakHeight' = IF summary THEN Height[block] ELSE peakHeight
    /\ EndCall
    /\ UNCHANGED <<db, txn, records, heightMap>>

(***************************************************************************)
(* The task is cancelled in the transaction, which is rolled back.         *)
(***************************************************************************)
CancelInTransaction ==
    /\ "cancel" \in Interrupts
    /\ pc = "apply"
    /\ txn' = db
    /\ EndCall
    /\ UNCHANGED <<db, memory>>

(***************************************************************************)
(* The task is cancelled while it awaits the commit, which the thread of   *)
(* the database connection carries out all the same.                       *)
(***************************************************************************)
CancelInCommit ==
    /\ "cancel" \in Interrupts
    /\ pc = "committed"
    /\ EndCall
    /\ UNCHANGED <<db, txn, memory>>

(* clean_block_records: from the height down to the first gap.             *)
CleanBlockRecords ==
    LET h == peakHeight - CacheSize
        cached(i) == \E r \in records : Height[r] = i
    IN  /\ pc = "idle"
        /\ Cardinality(records) >= CacheSize
        /\ h >= 0
        /\ cached(h)
        /\ records' = {r \in records : Height[r] > h \/ \E i \in Height[r]..h : ~cached(i)}
        /\ UNCHANGED <<db, txn, heightMap, peakHeight, call>>

(* warmup, before a sync: the records of all stored blocks up to the fork. *)
Warmup(h) ==
    /\ pc = "idle"
    /\ peakHeight # -1
    /\ records' = records \cup {b \in db.stored : Height[b] \in (h - CacheSize)..h}
    /\ UNCHANGED <<db, txn, heightMap, peakHeight, call>>

(***************************************************************************)
(* The process dies at any point and starts again: the open transaction is *)
(* lost, _load_chain_from_store rebuilds the memory.  (The height map is   *)
(* partly read from files: module BlockHeightMap.)                         *)
(***************************************************************************)
Restart ==
    /\ "crash" \in Interrupts
    /\ records' = {b \in db.stored : db.peak # NoBlock /\ Height[b] >= Height[db.peak] - CacheSize}
    /\ heightMap' = IF db.peak = NoBlock THEN Empty ELSE Chain[db.peak]
    /\ peakHeight' = IF db.peak = NoBlock THEN -1 ELSE Height[db.peak]
    /\ txn' = db
    /\ EndCall
    /\ UNCHANGED db

Next ==
    \/ \E b \in Blocks :
        \/ ReceiveGenesis(b)
        \/ \E arg \in ForkArgs \cup {NoForkArg} :
            IsForkArg(b, arg) /\ (ReceiveOrphan(b, arg) \/ ReceiveHeavier(b, arg))
    \/ ApplyBlock
    \/ RaiseInNewBlock
    \/ SetPeak
    \/ Commit
    \/ UpdatePeakHeight
    \/ CancelInTransaction
    \/ CancelInCommit
    \/ CleanBlockRecords
    \/ \E h \in ForkArgs : Warmup(h)
    \/ Restart

Spec == Init /\ [][Next]_vars

--------------------------------------------------------------------------------
(* The coins as the chain of b up to height h leaves them.                 *)
CreatedAt(c, b, h) == {i \in 0..h : c \in Adds(Chain[b][i])}
SpentAt(c, b, h) == {i \in 0..h : c \in Removals[Chain[b][i]]}

(***************************************************************************)
(* d's coin table is what replaying the chain of b up to height h gives:   *)
(* every coin created there has a row, created and spent at most once.     *)
(***************************************************************************)
CoinsReplay(d, b, h) ==
    \A c \in Coins :
        /\ CreatedAt(c, b, h) = IF d.conf[c] = -1 THEN {} ELSE {d.conf[c]}
        /\ SpentAt(c, b, h) = IF d.spent[c] = 0 THEN {} ELSE {d.spent[c]}

PathOf(b) == {Chain[b][i] : i \in 0..Height[b]}

(***************************************************************************)
(* After any sequence of blocks, forks and crashes, the committed coin     *)
(* table is that of the chain of the committed peak: a reorganisation      *)
(* leaves no coin and no spend of the abandoned blocks behind, restores    *)
(* the coins they spent, and misses none of the new ones.                  *)
(***************************************************************************)
CoinTableIsReplay ==
    IF db.peak = NoBlock THEN db.conf = EmptyDatabase.conf /\ db.spent = EmptyDatabase.spent
    ELSE CoinsReplay(db, db.peak, Height[db.peak])

(***************************************************************************)
(* in_main_chain marks exactly the blocks of the path to the peak.         *)
(***************************************************************************)
MainChainIsPath ==
    db.inMain = IF db.peak = NoBlock THEN {} ELSE PathOf(db.peak)

(***************************************************************************)
(* No stored block is heavier than the peak: a heavier chain is never left *)
(* as an orphan.                                                           *)
(***************************************************************************)
PeakIsHeaviest ==
    db.peak # NoBlock => \A b \in db.stored : Weight[b] <= Weight[db.peak]

(***************************************************************************)
(* The coin set changes only for a block heavier than the heaviest seen    *)
(* ("This is not a heavier block than the heaviest we have seen, so we     *)
(* don't change the coin set").                                            *)
(***************************************************************************)
OnlyHeavierReplaces ==
    [][db.peak # NoBlock /\ db'.peak # db.peak => Weight[db'.peak] > Weight[db.peak]]_vars

(***************************************************************************)
(* A block that validate_block_body accepts can be applied: once it is     *)
(* part of the heaviest chain, new_block never raises for it or for an     *)
(* orphan below it that was validated against another peak (the chain      *)
(* could not be adopted, ever).                                            *)
(***************************************************************************)
AcceptedBlocksApply ==
    pc = "apply" /\ next <= Height[block] =>
        LET b == Chain[block][next] IN IsTx[b] => CanApply(txn, b)

(***************************************************************************)
(* Validation, which reads the coin table of the current peak and the      *)
(* blocks since the fork, decides as if it looked at the chain of the      *)
(* block alone.                                                            *)
(***************************************************************************)
SpendOnOwnChain(b, c) ==
    \/ c \in Adds(b)
    \/ /\ SpentAt(c, b, Height[b] - 1) = {}
       /\ CreatedAt(c, b, Height[b] - 1) # {}

LocksOnOwnChain(b) ==
    \A c \in DOMAIN HeightLock[b] :
        \A i \in CreatedAt(c, b, Height[b]) : PrevTxHeight(b) >= i + HeightLock[b][c]

ValidationIsExact ==
    pc = "idle" /\ PeakReadable =>
        \A b \in Blocks, f \in -1..Cardinality(Blocks) :
            /\ b \notin records
            /\ Height[b] > 0 => Prev(b) \in records
            /\ IsTx[b] /\ RewardsOk(b) /\ Additions[b] \cap Claims[b] = {}
            /\ IsValidationFork(b, NoForkArg, f)
            => (ValidBody(b, f) <=>
                    /\ \A c \in Removals[b] : SpendOnOwnChain(b, c)
                    /\ LocksOnOwnChain(b))

(***************************************************************************)
(* Between two calls of receive_block the memory agrees with the database. *)
(***************************************************************************)
MemoryMatchesDatabase ==
    pc = "idle" =>
        /\ records \subseteq db.stored
        /\ PeakReadable
        /\ IF db.peak = NoBlock THEN peakHeight = -1 /\ heightMap = Empty
           ELSE peakHeight = Height[db.peak] /\ heightMap = Chain[db.peak]

(***************************************************************************)
(* The node can always start: every block of the path to the committed     *)
(* peak is stored (BlockHeightMap raises "block with header hash is        *)
(* missing from your blockchain database" otherwise) and marked as part of *)
(* the main chain, whatever is cancelled and whatever fork point is        *)
(* passed.                                                                 *)
(***************************************************************************)
PathIsStored ==
    db.peak # NoBlock => PathOf(db.peak) \subseteq db.stored \cap db.inMain

(* A reorganisation is about to commit, or did with a shorter chain.       *)
ReorgCommits ==
    \/ pc = "commit" /\ db.peak # NoBlock /\ fork < Height[db.peak]
    \/ pc = "committed" /\ Height[block] < peakHeight

(***************************************************************************)
(* Tasks that do not hold the lock find the block that get_peak names in   *)
(* the database ("make sure to update _peak_height after the transaction   *)
(* is committed, otherwise other tasks may go look for this block before   *)
(* it's available"), but for a reorganisation: before its commit it has    *)
(* changed the height map at _peak_height, and a shorter chain has no      *)
(* block at that height until _peak_height follows.                        *)
(***************************************************************************)
AvailableUnlessReorg ==
    peakHeight # -1 /\ ~ReorgCommits =>
        /\ peakHeight \in DOMAIN heightMap
        /\ heightMap[peakHeight] \in db.stored

--------------------------------------------------------------------------------
(***************************************************************************)
(* The inductive invariant, for tasks that are not cancelled and fork      *)
(* points that are not stale.                                              *)
(***************************************************************************)
Undisturbed == "cancel" \notin Interrupts /\ StaleForkArgs = FALSE

(* The chains of a and b are the same up to height h.                      *)
Agree(a, b, h) ==
    /\ h <= Height[a] /\ h <= Height[b]
    /\ \A i \in 0..h : Chain[a][i] = Chain[b][i]

SpentAfterCreated(d) ==
    \A c \in Coins : d.spent[c] # 0 => d.conf[c] # -1 /\ d.conf[c] <= d.spent[c]

(* What holds of every committed database.                                 *)
DatabaseOk(d) ==
    IF d.peak = NoBlock
    THEN d = EmptyDatabase
    ELSE /\ CoinsReplay(d, d.peak, Height[d.peak])
         /\ SpentAfterCreated(d)
         /\ d.inMain = PathOf(d.peak)
         /\ PathOf(d.peak) \subseteq d.stored
         /\ \A b \in d.stored : Weight[b] <= Weight[d.peak]

(* The memory is that of a node whose peak is p.                           *)
MapIs(p) == heightMap = IF p = NoBlock THEN Empty ELSE Chain[p]
PeakHeightIs(p) == peakHeight = IF p = NoBlock THEN -1 ELSE Height[p]

Idle == pc = "idle" => records \subseteq db.stored /\ MapIs(db.peak) /\ PeakHeightIs(db.peak)

(* The peak is in memory, whatever was cleaned.                            *)
PeakInRecords == db.peak # NoBlock => db.peak \in records

(* The loop over blocks_to_add: the chain of block up to next is applied.  *)
Applying ==
    pc = "apply" =>
        /\ block \in Blocks
        /\ records \subseteq db.stored /\ MapIs(db.peak) /\ PeakHeightIs(db.peak)
        /\ txn.stored = db.stored \cup {block}
        /\ txn.inMain = db.inMain /\ txn.peak = db.peak
        /\ fork \in -1..(Height[block] - 1) /\ next \in (fork + 1)..(Height[block] + 1)
        /\ \A i \in (fork + 1)..Height[block] : Chain[block][i] \in txn.stored
        /\ CoinsReplay(txn, block, next - 1) /\ SpentAfterCreated(txn)
        /\ IF db.peak = NoBlock THEN Height[block] = 0 /\ fork = -1
           ELSE /\ Height[block] > 0 /\ Weight[block] > Weight[db.peak]
                /\ Agree(db.peak, block, fork)

Committing ==
    pc = "commit" =>
        /\ block \in Blocks
        /\ DatabaseOk(txn) /\ txn.peak # NoBlock /\ txn.peak \in records
        /\ records \subseteq txn.stored /\ MapIs(txn.peak)
        /\ IF summary THEN txn.peak = block ELSE txn.peak = db.peak /\ PeakHeightIs(db.peak)
        /\ txn.peak # db.peak /\ db.peak # NoBlock => Weight[txn.peak] > Weight[db.peak]

Committed ==
    pc = "committed" =>
        /\ block \in Blocks
        /\ txn = db /\ db.peak # NoBlock
        /\ records \subseteq db.stored /\ MapIs(db.peak)
        /\ IF summary THEN db.peak = block ELSE PeakHeightIs(db.peak)

Inv ==
    /\ TypeOK
    /\ DatabaseOk(db)
    /\ PeakInRecords
    /\ Idle
    /\ Applying
    /\ Committing
    /\ Committed
    /\ summary => pc \in {"commit", "committed"}
================================================================================
