-------------------------------- MODULE Mempool --------------------------------
(***************************************************************************)
(* The transactions a full node holds for the next block:                  *)
(* lotus/full_node/mempool.py, mempool_manager.py and pending_tx_cache.py, *)
(* with the tasks of full_node.py that drive them: respond_transaction,    *)
(* which checks and books a name before it awaits the validation of the    *)
(* spend bundle and adds it under the low priority lock, and respond_block *)
(* (short_sync_batch, _finish_sync), which move the peak under the high    *)
(* priority lock and then bring the mempool after it across many awaits.   *)
(*                                                                         *)
(* The coin store is the replay of the chain of the peak, which is what    *)
(* module Blockchain shows of it.  A dictionary of Python keeps the order  *)
(* of insertion, and the code depends on it (eviction among equals, the    *)
(* rebuild, the seen and the pending cache): it is a sequence here.        *)
(***************************************************************************)
EXTENDS Naturals, Sequences, FiniteSetsExt, Functions

CONSTANTS
    Blocks,         \* the blocks that can become a peak
    Prev,           \* Prev[b]: the block before b, None for a first block
    None,           \* no block
    Block,          \* Block[b]: height, weight, isTx, hasGenerator, time, removals, additions
    Txs,            \* the spend bundles, by name
    Tx,             \* Tx[t]: spends, additions, fee, cost, heightAbsolute, secondsAbsolute
    StartPeaks,     \* the peaks the node can be started with
    MaxPoolCost,    \* mempool_max_total_cost
    MaxCacheCost,   \* the cost limit of the pending cache
    MaxBundleCost,  \* limit_factor * MAX_BLOCK_COST_CLVM
    MinFpc,         \* nonzero_fee_minimum_fpc
    MinFeeIncrease, \* get_min_fee_increase
    SeenSize,       \* seen_cache_size
    MaxFlight,      \* bound: spend bundles in validation at one time
    MaxReports,     \* bound: lists of new_peak that are announced at one time
    MaxCancels      \* bound: cancelled tasks

ASSUME MempoolAssumption ==
    /\ {MaxPoolCost, MaxCacheCost, MaxBundleCost, MinFpc, MinFeeIncrease,
        SeenSize, MaxFlight, MaxReports, MaxCancels} \subseteq Nat
    /\ None \notin Blocks
    /\ StartPeaks \subseteq Blocks
    /\ Prev \in [Blocks -> Blocks \cup {None}]
    /\ \A b \in Blocks : ~Block[b].isTx =>
         /\ Block[b].removals = {} /\ Block[b].additions = {} /\ ~Block[b].hasGenerator
    /\ \A t \in Txs : Tx[t].cost \in 1..MaxPoolCost /\ Tx[t].fee \in Nat

VARIABLES
    peak,           \* blockchain.get_peak()
    peakOfPool,     \* MempoolManager.peak
    pool,           \* mempool.spends, in the order of insertion
    cache,          \* potential_cache, in the order of insertion
    seen,           \* seen_bundle_hashes, in the order of insertion
    flight,         \* flight[t]: the tasks of respond_transaction that validate t
    job,            \* the new_peak under way: its lock is held while it is not Idle
    reports,        \* what new_peak returned and peak_post_processing_2 has not announced yet
    syncEnded,      \* a long sync moved the peak and _finish_sync has not run yet
    cancels,        \* number of tasks that were cancelled
    leftBehind,     \* history: names in seen of items evicted, replaced, or lost in a cancelled rebuild
    astray          \* history: items accepted while the pool was not at the chain's last
                    \* transaction block, and not checked again since

vars == <<peak, peakOfPool, pool, cache, seen, flight, job, reports,
          syncEnded, cancels, leftBehind, astray>>

--------------------------------------------------------------------------------
(* The chain.                                                              *)

Ancestry[b \in Blocks] == {b} \cup (IF Prev[b] = None THEN {} ELSE Ancestry[Prev[b]])

(* The last block with transactions at or before b.                        *)
LastTx[b \in Blocks \cup {None}] ==
    IF b = None THEN None ELSE IF Block[b].isTx THEN b ELSE LastTx[Prev[b]]

(* The blocks that coin_store has a record of c from, and whether it is    *)
(* spent on the chain of b.                                                *)
Origin(c, b) == {a \in Ancestry[b] : c \in Block[a].additions}
Spent(c, b) == \E a \in Ancestry[b] : c \in Block[a].removals

(* new_npc_results[-1]: the last generator among the blocks that the new   *)
(* peak b adds to the chain of the old one; None if there is none.         *)
LastGenerator(old, b) ==
    LET fresh == {a \in Ancestry[b] \ Ancestry[old] : Block[a].hasGenerator}
    IN IF fresh = {} THEN None
       ELSE CHOOSE a \in fresh : \A o \in fresh : Block[o].height <= Block[a].height

(* Heights count along a chain, time passes from one transaction block to  *)
(* the next (check 26b of block_header_validation.py), and only a generator *)
(* spends coins.                                                           *)
ASSUME ChainAssumption ==
    \A b \in Blocks :
        /\ Block[b].height \in Nat /\ Block[b].time \in Nat
        /\ Prev[b] # None => Block[b].height = Block[Prev[b]].height + 1
        /\ Block[b].isTx \in BOOLEAN /\ Block[b].hasGenerator \in BOOLEAN
        /\ ~Block[b].hasGenerator => Block[b].removals = {}
        /\ LET p == LastTx[Prev[b]]
           IN  Block[b].isTx /\ p # None => Block[p].time <= Block[b].time

--------------------------------------------------------------------------------
(* Spend bundles, and the order of the pool.                               *)

Spends(t) == Range(Tx[t].spends)
Removals(t) == {s.coin : s \in Spends(t)}
Cost(S) == LET cost(t) == Tx[t].cost IN MapThenSumSet(cost, S)
Fees(S) == LET fee(t) == Tx[t].fee IN MapThenSumSet(fee, S)

(* fees / cost of one collection is below that of another.                 *)
CheaperPerCost(S, T) == Fees(S) * Cost(T) < Fees(T) * Cost(S)

(* s without the members of S, in order: what is left of its first i.      *)
Without(s, S) ==
    LET left[i \in 0..Len(s)] ==
            IF i = 0 THEN <<>>
            ELSE IF s[i] \in S THEN left[i - 1] ELSE Append(left[i - 1], s[i])
    IN left[Len(s)]

Position(s, t) == CHOOSE i \in DOMAIN s : s[i] = t

(* sorted_spends: by fee per cost, and by insertion among equals.          *)
SortedBefore(p, t, u) ==
    \/ CheaperPerCost({t}, {u})
    \/ ~CheaperPerCost({u}, {t}) /\ Position(p, t) < Position(p, u)

(* at_full_capacity, for a pool of the items S.                            *)
AtFullCapacity(S, cost) == Cost(S) + cost > MaxPoolCost

SortedUpTo(p, t) == {u \in Range(p) : u = t \/ SortedBefore(p, u, t)}

(* The loop of add_to_pool, which is also that of get_min_fee_rate: the    *)
(* items in increasing order until the new one fits.                       *)
ToEvict(p, cost) ==
    LET enough == {S \in {{}} \cup {SortedUpTo(p, t) : t \in Range(p)} :
                      ~AtFullCapacity(Range(p) \ S, cost)}
    IN CHOOSE S \in enough : \A T \in enough : S \subseteq T

(* create_bundle_from_mempool: the items in decreasing order (by insertion *)
(* among equals) up to the first that does not fit.                        *)
CreateBundle(p) ==
    LET ahead(t, u) == \/ CheaperPerCost({u}, {t})
                       \/ ~CheaperPerCost({t}, {u}) /\ Position(p, t) < Position(p, u)
        upTo(t) == {u \in Range(p) : u = t \/ ahead(u, t)}
    IN {t \in Range(p) : Cost(upTo(t)) <= MaxBundleCost}

(* PendingTxCache.add: the oldest go until the cost is within the limit.   *)
CacheAdd(c, t) ==
    IF t \in Range(c) THEN c
    ELSE LET all == Append(c, t)
             rest(k) == SubSeq(all, k, Len(all))
         IN rest(Min({k \in 1..(Len(all) + 1) : Cost(Range(rest(k))) <= MaxCacheCost}))

(* add_and_maybe_pop_seen.                                                 *)
SeenAdd(s, t) ==
    LET all == Append(s, t)
    IN IF Len(all) > SeenSize THEN SubSeq(all, Len(all) - SeenSize + 1, Len(all)) ELSE all

--------------------------------------------------------------------------------
(* MempoolManager.add_spendbundle(t) with the pool p at the block m and    *)
(* the coin store at the block b.                                          *)

(* A coin is read from coin_store, and taken as created by the next block  *)
(* if the bundle itself adds it.                                           *)
CoinHeight(t, c, m, b) ==
    IF c \in Tx[t].additions THEN Block[m].height + 1
    ELSE Block[CHOOSE a \in Origin(c, b) : TRUE].height
CoinTime(t, c, m, b) ==
    IF c \in Tx[t].additions THEN Block[m].time
    ELSE Block[CHOOSE a \in Origin(c, b) : TRUE].time

KnowsCoins(t, b) == \A c \in Removals(t) : Origin(c, b) # {} \/ c \in Tx[t].additions
SpendsSpent(t, b) == \E c \in Removals(t) \ Tx[t].additions : Spent(c, b)

(* A chain creates a coin once and spends what it created.  The id of a    *)
(* coin is a hash over that of its parent: what a bundle would create, a   *)
(* chain can have created only if it spent a coin of the bundle.           *)
ASSUME CoinIdAssumption ==
    \A b \in Blocks :
        /\ \A a \in Ancestry[b] \ {b} : Block[a].additions \cap Block[b].additions = {}
        /\ \A c \in Block[b].removals : Origin(c, b) # {}
        /\ \A t \in Txs : \A c \in Tx[t].additions : Origin(c, b) # {} => SpendsSpent(t, b)

ASSUME TxAssumption ==
    \A t \in Txs :
        /\ Tx[t].heightAbsolute \in Nat /\ Tx[t].secondsAbsolute \in Nat
        /\ Tx[t].spends \in Seq(Range(Tx[t].spends))
        /\ \A s \in Spends(t) : s.heightRelative \subseteq Nat /\ s.secondsRelative \in Nat

(* mempool_check_time_locks: the first lock that does not hold.  The       *)
(* relative height of a spend is optional: a set of at most one number.    *)
TimeLocks(t, m, b) ==
    LET height(i) == \E h \in Tx[t].spends[i].heightRelative :
                         Block[m].height < CoinHeight(t, Tx[t].spends[i].coin, m, b) + h
        time(i) == Block[m].time
                     < CoinTime(t, Tx[t].spends[i].coin, m, b) + Tx[t].spends[i].secondsRelative
        late == {i \in DOMAIN Tx[t].spends : height(i) \/ time(i)}
    IN IF Block[m].height < Tx[t].heightAbsolute THEN "HEIGHT"
       ELSE IF Block[m].time < Tx[t].secondsAbsolute THEN "SECONDS"
       ELSE IF late = {} THEN "OK"
       ELSE IF height(Min(late)) THEN "HEIGHT" ELSE "SECONDS"

Conflicts(t, p) == {u \in Range(p) : Removals(u) \cap Removals(t) # {}}

(* Mutant: without the superset rule.                                      *)
CanReplaceSome(C, t) ==
    CheaperPerCost(C, {t}) /\ Fees({t}) >= Fees(C) + MinFeeIncrease

(* can_replace: the superset rule, a higher fee per cost than all of them  *)
(* together, and a minimal increase of the fee.                            *)
CanReplace(C, t) ==
    /\ \A u \in C : Removals(u) \subseteq Removals(t)
    /\ CheaperPerCost(C, {t})
    /\ Fees({t}) >= Fees(C) + MinFeeIncrease

(* is_fee_enough, and the same test in add_spendbundle.                    *)
FeeIsEnough(t, p) ==
    AtFullCapacity(Range(p), Tx[t].cost) =>
        /\ Tx[t].fee >= MinFpc * Tx[t].cost
        /\ \A u \in ToEvict(p, Tx[t].cost) : CheaperPerCost({u}, {t})

(* The status add_spendbundle returns, in the order of its tests.          *)
Status(t, p, m, b) ==
    LET C == Conflicts(t, p)
        lock == TimeLocks(t, m, b)
    IN IF m = None \/ Tx[t].cost > MaxBundleCost THEN "FAILED"
       ELSE IF t \in Range(p) THEN "SUCCESS"
       ELSE IF ~KnowsCoins(t, b) \/ ~FeeIsEnough(t, p) \/ SpendsSpent(t, b) THEN "FAILED"
       ELSE IF C # {} /\ ~CanReplace(C, t) THEN "PENDING"
       ELSE IF lock = "HEIGHT" THEN "PENDING"
       ELSE IF lock = "SECONDS" THEN "FAILED" ELSE "SUCCESS"

(* Mutant: room is made once, for the cheapest item only.                  *)
AddToPoolEvictsOne(p, t) ==
    Append(Without(p, {u \in ToEvict(p, Tx[t].cost) : \A o \in Range(p) : ~SortedBefore(p, o, u)}), t)

(* add_to_pool: evicts, then appends.                                      *)
AddToPool(p, t) == Append(Without(p, ToEvict(p, Tx[t].cost)), t)

(* Mutant: the conflicting items stay.                                     *)
PoolKeepsConflicts(t, p, m, b) ==
    IF Status(t, p, m, b) = "SUCCESS" /\ t \notin Range(p) THEN AddToPool(p, t) ELSE p

(* The pool and the pending cache after add_spendbundle.                   *)
PoolAfter(t, p, m, b) ==
    IF Status(t, p, m, b) = "SUCCESS" /\ t \notin Range(p)
    THEN AddToPool(Without(p, Conflicts(t, p)), t)
    ELSE p
CacheAfter(t, p, c, m, b) == IF Status(t, p, m, b) = "PENDING" THEN CacheAdd(c, t) ELSE c

--------------------------------------------------------------------------------
Idle == [phase |-> "idle", todo |-> <<>>, added |-> <<>>]

Phases == {"idle", "rebuild", "drain"}

(* One type invariant for the module.                                      *)
TypeOK ==
    /\ peak \in Blocks /\ peakOfPool \in Blocks \cup {None}
    /\ {pool, cache, seen, job.todo, job.added} \subseteq Seq(Txs)
    /\ \A s \in {pool, cache, seen} : IsInjective(s)
    /\ Len(seen) <= SeenSize
    /\ flight \in [Txs -> 0..MaxFlight]
    /\ job.phase \in Phases
    /\ reports \subseteq Seq(Txs) \ {<<>>}
    /\ syncEnded \in BOOLEAN
    /\ cancels \in 0..MaxCancels
    /\ leftBehind \cup astray \subseteq Txs

(* A node is started: new_peak(get_peak(), None) on empty pools.           *)
Init ==
    /\ peak \in StartPeaks
    /\ peakOfPool = IF Block[peak].isTx THEN peak ELSE None
    /\ pool = <<>> /\ cache = <<>> /\ seen = <<>>
    /\ flight = [t \in Txs |-> 0]
    /\ job = Idle
    /\ reports = {}
    /\ syncEnded = FALSE
    /\ cancels = 0
    /\ leftBehind = {} /\ astray = {}

(* Names of S that stay in seen_bundle_hashes (history).                   *)
LeaveBehind(S) == leftBehind' = ((leftBehind \cup S) \cap Range(seen')) \ Range(pool')

--------------------------------------------------------------------------------
(* FullNode.respond_transaction.                                           *)

(* Up to the await of pre_validate_spendbundle: no lock is held.           *)
RespondTransaction(t) ==
    /\ IF t \in Range(pool)
       THEN /\ seen' = Without(seen, {t})
            /\ UNCHANGED flight
       ELSE /\ t \notin Range(seen)
            /\ MapThenSumSet(LAMBDA u : flight[u], Txs) < MaxFlight
            /\ seen' = SeenAdd(seen, t)
            /\ flight' = [flight EXCEPT ![t] = @ + 1]
    /\ UNCHANGED <<peak, peakOfPool, pool, cache, job, reports, syncEnded, cancels, astray>>
    /\ LeaveBehind({})

(* pre_validate_spendbundle raises: the bundle is invalid or the worker    *)
(* process fails.                                                          *)
PreValidateFails(t) ==
    /\ flight[t] > 0
    /\ flight' = [flight EXCEPT ![t] = @ - 1]
    /\ seen' = Without(seen, {t})
    /\ UNCHANGED <<peak, peakOfPool, pool, cache, job, reports, syncEnded, cancels, astray>>
    /\ LeaveBehind({})

(* What add_spendbundle(t) does to the pool, and to the history.           *)
AddSpendBundle(t) ==
    /\ pool' = PoolAfter(t, pool, peakOfPool, peak)
    /\ LeaveBehind(Range(pool) \ Range(pool'))
    /\ astray' = (astray \cup (IF peakOfPool = LastTx[peak] THEN {} ELSE Range(pool') \ Range(pool)))
                   \cap Range(pool')

(* The part under the low priority lock.                                   *)
AddTransaction(t) ==
    /\ flight[t] > 0
    /\ job = Idle
    /\ flight' = [flight EXCEPT ![t] = @ - 1]
    /\ IF t \in Range(pool)
       THEN /\ seen' = Without(seen, {t})
            /\ UNCHANGED <<pool, cache, astray>>
            /\ LeaveBehind({})
       ELSE /\ seen' = IF Status(t, pool, peakOfPool, peak) = "SUCCESS" THEN seen ELSE Without(seen, {t})
            /\ cache' = CacheAfter(t, pool, cache, peakOfPool, peak)
            /\ AddSpendBundle(t)
    /\ UNCHANGED <<peak, peakOfPool, job, reports, syncEnded, cancels>>

--------------------------------------------------------------------------------
(* MempoolManager.new_peak(b, npc), from its call to its first await.      *)

(* Mutant: the previous transaction block is not compared.                 *)
AlwaysOptimizes(b, npc) == npc # None /\ peakOfPool # None

(* Nothing to do for a block without transactions or for the same block.   *)
Ignores(b) == ~Block[b].isTx \/ b = peakOfPool

UsesOptimization(b, npc) == npc # None /\ peakOfPool # None /\ LastTx[Prev[b]] = peakOfPool

(* Mutant: without remove_seen.                                            *)
KickSpentKeepsSeen(npc) ==
    LET kicked == {t \in Range(pool) : Removals(t) \cap Block[npc].removals # {}}
    IN /\ pool' = Without(pool, kicked)
       /\ UNCHANGED seen
       /\ job' = [phase |-> "drain", todo |-> cache, added |-> <<>>]
       /\ cache' = <<>>
       /\ astray' = astray \ kicked

(* The pool is kept, without what the last generator spends.               *)
KickSpent(npc) ==
    LET kicked == {t \in Range(pool) : Removals(t) \cap Block[npc].removals # {}}
    IN /\ pool' = Without(pool, kicked)
       /\ seen' = Without(seen, kicked)
       /\ job' = [phase |-> "drain", todo |-> cache, added |-> <<>>]
       /\ cache' = <<>>
       /\ astray' = astray \ kicked

(* The pool is emptied, and what was in it is added again one by one.      *)
StartRebuild ==
    /\ pool' = <<>>
    /\ astray' = {}
    /\ UNCHANGED seen
    /\ IF pool = <<>>
       THEN /\ job' = [phase |-> "drain", todo |-> cache, added |-> <<>>]
            /\ cache' = <<>>
       ELSE /\ job' = [phase |-> "rebuild", todo |-> pool, added |-> <<>>]
            /\ UNCHANGED cache

(* An ignored block leaves at once, with nothing to announce.              *)
NewPeak(b, npc) ==
    IF Ignores(b)
    THEN UNCHANGED <<peakOfPool, pool, cache, seen, job, astray>>
    ELSE /\ peakOfPool' = b
         /\ IF UsesOptimization(b, npc) THEN KickSpent(npc) ELSE StartRebuild

(* respond_block, or a batch of short_sync_batch, with the new peak b.     *)
RespondBlock(b) ==
    /\ job = Idle
    /\ Block[b].weight > Block[peak].weight
    /\ peak' = b
    /\ NewPeak(b, LastGenerator(peak, b))
    /\ UNCHANGED <<flight, reports, syncEnded, cancels>>
    /\ LeaveBehind({})

(* A long sync takes the chain to b under the lock and in sync mode,       *)
(* without the mempool ...                                                 *)
LongSync(b) ==
    /\ job = Idle
    /\ ~syncEnded
    /\ Block[b].weight > Block[peak].weight
    /\ peak' = b
    /\ syncEnded' = TRUE
    /\ UNCHANGED <<peakOfPool, pool, cache, seen, flight, job, reports, cancels, leftBehind, astray>>

(* ... and _finish_sync takes the lock again to process the peak then.     *)
FinishSync ==
    /\ job = Idle
    /\ syncEnded
    /\ syncEnded' = FALSE
    /\ NewPeak(peak, None)
    /\ UNCHANGED <<peak, flight, reports, cancels>>
    /\ LeaveBehind({})

(* The next item of the rebuild; what does not come back can be submitted  *)
(* again.  After the last item the pending cache is drained.               *)
Readd ==
    LET t == Head(job.todo)
        pending == CacheAfter(t, pool, cache, peakOfPool, peak)
    IN /\ job.phase = "rebuild"
       /\ seen' = IF Status(t, pool, peakOfPool, peak) = "SUCCESS" THEN seen ELSE Without(seen, {t})
       /\ AddSpendBundle(t)
       /\ IF Len(job.todo) = 1
          THEN /\ job' = [phase |-> "drain", todo |-> pending, added |-> <<>>]
               /\ cache' = <<>>
          ELSE /\ job' = [job EXCEPT !.todo = Tail(@)]
               /\ cache' = pending
       /\ UNCHANGED <<peak, peakOfPool, flight, reports, syncEnded, cancels>>

(* The next item that was pending.                                         *)
Retry ==
    LET t == Head(job.todo)
        success == Status(t, pool, peakOfPool, peak) = "SUCCESS"
    IN /\ job.phase = "drain"
       /\ job.todo # <<>>
       /\ cache' = CacheAfter(t, pool, cache, peakOfPool, peak)
       /\ job' = [job EXCEPT !.todo = Tail(@), !.added = IF success THEN Append(@, t) ELSE @]
       /\ UNCHANGED <<peak, peakOfPool, seen, flight, reports, syncEnded, cancels>>
       /\ AddSpendBundle(t)

(* peak_post_processing_2 looks up the first of its list to announce it,   *)
(* and goes on with the rest when the peers were told; an item that is not *)
(* in the pool raises.                                                     *)
Announced(list) ==
    IF list = <<>> \/ Head(list) \notin Range(pool) THEN {} ELSE {Tail(list)} \ {<<>>}

(* new_peak returns what it added, and the lock is released; then there is *)
(* no await before the first announcement.                                 *)
EndPeak ==
    /\ job.phase = "drain"
    /\ job.todo = <<>>
    /\ Cardinality(reports) < MaxReports
    /\ job' = Idle
    /\ reports' = reports \cup Announced(job.added)
    /\ UNCHANGED <<peak, peakOfPool, pool, cache, seen, flight, syncEnded, cancels, leftBehind, astray>>

(* The others are announced without the lock, an await after each.         *)
Announce(list) ==
    /\ list \in reports
    /\ reports' = (reports \ {list}) \cup Announced(list)
    /\ UNCHANGED <<peak, peakOfPool, pool, cache, seen, flight, job, syncEnded, cancels, leftBehind, astray>>

(* The task is cancelled in the middle of new_peak.  respond_block calls   *)
(* peak_post_processing again, whose new_peak returns at once, because the *)
(* pool is at this peak already: what was still to do is gone.             *)
CancelRespondBlock ==
    /\ job # Idle
    /\ job.todo # <<>>
    /\ cancels < MaxCancels
    /\ cancels' = cancels + 1
    /\ job' = Idle
    /\ UNCHANGED <<peak, peakOfPool, pool, cache, seen, flight, reports, syncEnded, astray>>
    /\ LeaveBehind(IF job.phase = "rebuild" THEN Range(job.todo) ELSE {})

Next ==
    \/ \E t \in Txs : RespondTransaction(t) \/ PreValidateFails(t) \/ AddTransaction(t)
    \/ \E b \in Blocks : RespondBlock(b) \/ LongSync(b)
    \/ \E list \in reports : Announce(list)
    \/ FinishSync \/ Readd \/ Retry \/ EndPeak \/ CancelRespondBlock

Spec == Init /\ [][Next]_vars

--------------------------------------------------------------------------------
(* Properties.                                                             *)

(* What is in the pool or about to be put back into it.                    *)
Held == Range(pool) \cup (IF job.phase = "rebuild" THEN Range(job.todo) ELSE {})

(* A bundle that can be in a block on top of the chain of b.               *)
ValidOn(t, b) ==
    /\ KnowsCoins(t, b) /\ ~SpendsSpent(t, b)
    /\ LastTx[b] # None /\ TimeLocks(t, LastTx[b], b) = "OK"

(* No coin is spent by two items of the pool, whatever the order of        *)
(* replacements, evictions, rebuilds and retries: add_spendbundle removes  *)
(* every item it conflicts with before it adds one.                        *)
NoDoubleSpend ==
    \A t, u \in Range(pool) : t # u => Removals(t) \cap Removals(u) = {}

(* Whenever declare_proof_of_space can take the lock and the pool is at    *)
(* the chain's last transaction block, every spend in the bundle it        *)
(* creates can be included on top of the peak, save the ones accepted      *)
(* while the chain was on another branch (astray) which new_peak's         *)
(* optimisation kept when the chain came back.                             *)
BundleIsValid ==
    job = Idle /\ peakOfPool = LastTx[peak] =>
        /\ Cost(CreateBundle(pool)) <= MaxBundleCost
        /\ \A t \in CreateBundle(pool) : ValidOn(t, peak) \/ t \in astray

(* The pool, the pending cache and the seen names stay within their        *)
(* limits, although the capacity of the pool is tested before the          *)
(* conflicting items go and room is made after.                            *)
WithinCapacity ==
    /\ Cost(Range(pool)) <= MaxPoolCost
    /\ Cost(Range(cache)) <= MaxCacheCost
    /\ Len(seen) <= SeenSize

(* A name in seen_bundle_hashes, which keeps the transaction from being    *)
(* submitted again, is that of a transaction that is held or in            *)
(* validation; the exceptions are the items that were evicted or replaced, *)
(* and the ones a cancelled rebuild lost, whose names the code leaves.     *)
SeenIsExplained ==
    Range(seen) \subseteq Held \cup {t \in Txs : flight[t] > 0} \cup leftBehind

(* Why a step may drop u: it can no longer be in a block, or one more      *)
(* valuable takes its place: one that spends all its coins and pays at     *)
(* least the minimal increase more than all that it replaces, or, where    *)
(* room is made, one that pays more per cost; or a rebuild is cancelled.   *)
HasReason(u) ==
    \/ ~ValidOn(u, peak')
    \/ u \in astray
    \/ cancels' # cancels
    \/ \E v \in Range(pool') \ Range(pool) :
          IF Removals(u) \cap Removals(v) = {}
          THEN CheaperPerCost({u}, {v})
          ELSE /\ Removals(u) \subseteq Removals(v)
               /\ Tx[v].fee >= Fees(Conflicts(v, pool)) + MinFeeIncrease

ForAReason == \A u \in Held \ Held' : HasReason(u)

(* A transaction that was accepted leaves the pool only for one of these   *)
(* reasons, in every step: evictions, replacements, what new_peak kicks    *)
(* out and what its rebuild does not bring back.                           *)
LeavesForAReason == [][ForAReason]_vars

(* peak_post_processing_2 asserts that what new_peak reports as added is   *)
(* in the pool when it comes to announce it: the first of the list when    *)
(* new_peak returns, the others whenever a task goes on with its list.     *)
AnnouncedIsInPool ==
    LET next == reports \cup (IF job.phase = "drain" /\ job.todo = <<>> THEN {job.added} \ {<<>>} ELSE {})
    IN  \A list \in next : Head(list) \in Range(pool)

(* What new_peak has added is in the pool while it goes on, except where a *)
(* later one of its list has taken its place.                              *)
AddedUnlessOvertaken ==
    \A i \in DOMAIN job.added :
        \/ job.added[i] \in Range(pool)
        \/ \E k \in i + 1 .. Len(job.added) :
             \/ Removals(job.added[i]) \cap Removals(job.added[k]) # {}
             \/ CheaperPerCost({job.added[i]}, {job.added[k]})

================================================================================
