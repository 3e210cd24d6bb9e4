# TLA+ models of the Lotus full node

Lotus is a proof-of-space-and-time blockchain. Its programs are asyncio programs: many
tasks (message handlers, syncs, requests) share state in memory and an SQLite
database, and every `await` is a place where they interleave. This directory models the
parts in which a mistake would be expensive and a test would hardly find it: of the full
node, the lock around the chain, the adding of blocks and reorganisations, the database
transactions, the height map with its files, the mempool, and the synchronisation
with peers; of the farmer and harvester, the synchronisation of plots; and the data
layer with its store. TLC checks the models on small instances; TLAPS proves most of the
safety properties for every tree of blocks, every set of transactions and every number of
tasks, peers or hosts.

`PROJECT.json` lists the components, runs, mutants, hazards and theorems, and maps each
definition to the lines it models.

## Inventory

| Part | State | Operations | How it interacts | Modelled |
|---|---|---|---|---|
| LockQueue (`full_node/lock_queue.py`) | heap of callbacks, inner lock, release event, runner task | `__aenter__`, `_run`, `release`, `close` | every handler that adds blocks or transactions enters it; the server cancels handlers | LockQueue, LockQueueHeap |
| Blockchain (`consensus/blockchain.py`, `find_fork_point.py`) | block records, height map, peak height | `receive_block`, `_reconsider_peak`, `warmup`, `clean_block_records`, loading | runs under the lock, writes the stores in one transaction | Blockchain |
| Body validation (`consensus/block_body_validation.py`) | none; reads the coin table and the blocks since the fork | `validate_block_body` | decides what `receive_block` stores | Blockchain |
| Coin store, block store (`full_node/coin_store.py`, `block_store.py`) | tables `coin_record`, `full_blocks`, `current_peak` | `new_block`, `rollback_to_block`, `add_full_block`, `set_in_chain`, `rollback`, `set_peak` | inside the transaction of `receive_block` | Blockchain |
| Database wrapper (`util/db_wrapper.py`) | write lock, current writer, pool of readers, savepoints | `writer`, `writer_maybe_transaction`, `reader_no_transaction` | below all stores | DBWrapper |
| Height map (`full_node/block_height_map.py`) | map and summaries in memory, two files | `update_height`, `rollback`, `maybe_flush`, `create` | changed by `receive_block`, rebuilt at start | BlockHeightMap |
| Mempool (`full_node/mempool*.py`, `pending_tx_cache.py`) | pool by fee rate, seen names, pending cache | `add_spendbundle`, `new_peak`, `create_bundle_from_mempool`, eviction | under the low-priority lock; brought after a new peak by the handlers and the sync | Mempool |
| Plot sync (`plot_sync/`, the refresh thread of `plotting/manager.py`) | message list, sync ids, delta, the receiver's plots | `_send_next_message`, `_reset`, `_process_*` | harvester to farmer, over a connection that may break; two threads on the harvester | PlotSync |
| Sync and handlers (`full_node/full_node.py`, `sync_store.py`) | peers' peaks, sync flags, syncs under way | `new_peak`, backtrack, batch and long sync, `_finish_sync` | callers of `receive_block`, clients of the lock | Sync (partly) |
| Data layer (`data_layer/`) | roots, nodes and ancestors of one store; files; two locks | batches, offers, `_update_confirmation_status`, upload and download of files | owner, wallet, chain of the singleton, mirrors | DataStore, DataLayer (partly) |
| Full node store, timelord, wallet, pools, server, daemon, RPC, ... | | | | no, see below |

What is hard here:

- *cancellation*: the server cancels the handlers of a peer that disconnects
  (`server.py:535`) and those that take too long; every `await` is a place where a task
  may end. aiosqlite executes a command on its own thread even if the task that
  asked for it is gone;
- *reorganisations*: orphans are validated against whatever the peak was, and
  applied much later, without validation;
- *crashes* between the tables, the memory and the files;
- *boundaries*: fork height -1, a shorter chain that is heavier, a coin that both sides
  of a fork create or spend at different heights;
- *stale values*: fork points computed before the lock was taken, files of an earlier
  flush, a mempool at the last block of a chain that was abandoned;
- *two tasks of one kind*: a sync that finishes while the next one has begun, a refresh
  of the plots that meets a reset of its sender, a request that meets a download;
- *answers that are late, lost or wrong*, and what was sent once being sent again.

What makes each part correct: the lock has one holder and is released; the tables
are those of the heaviest chain whatever the history; what validation accepts can
be applied; transactions are all or nothing; the map is the path to the peak; the pool
could be put into the next block and loses nothing without a reason; the farmer shows
the plots the harvester has; the notes of the syncs describe the syncs that run, and
the node gets to the heaviest chain; every host has the generations of the chain, with
the ancestors that its trees have.

## Modules

**LockQueue.** A *call* is one execution of `async with client`. `Enter` queues its
callback; `RunCallback` is one round of `_run` (take an entry of least priority, new
release event, acquire the inner lock, run the callback), in one step because the
inner lock is always free there, which is what `RunnerFindsLockFree` shows; `Resume` and
`Exit` are the two ends of the body; `Cancel` ends a call at `await called.wait()`, before
or after its event is set; `Close` ends the runner. **LockQueueHeap** replaces
the set of callbacks by the list and the sift operations of Python's `heapq`
(external), and is shown to implement LockQueue: `RefinesLockQueue == L!Spec` with
`queue <- Entries`. The run `lock` checks the properties of LockQueue on the heap itself.

**Blockchain.** The tree of blocks that peers can send is a constant: each block
with its chain, weight, coins spent and created, reward claims and relative height
locks. `db` is the committed database, `txn` what the open transaction sees;
`records`, `heightMap`, `peakHeight` are the memory. `receive_block` is cut at the awaits
that matter: validation and the decision (`ReceiveGenesis`, `ReceiveOrphan`,
`ReceiveHeavier`, each with the whole of `validate_block_body`'s treatment of coins in
`ValidBody`), one `ApplyBlock` per block of the new branch (`RaiseInNewBlock` if
`new_block` fails), `SetPeak`, `Commit`, and `UpdatePeakHeight` after the commit. `CancelInTransaction`
and `CancelInCommit` end the task inside; `Restart` is a crash at any moment.
`Warmup` and `CleanBlockRecords` change the window of records in memory.
Callers may pass a fork point (`ForkArgs`); with `StaleForkArgs` it may be one that was
right when it was computed and is not any more.

**DBWrapper.** Tasks nest contexts: an outermost transaction, nested ones, readers.
The commands of the write connection go through a queue to its thread, so a task
can be cancelled between asking for `SAVEPOINT`, `ROLLBACK TO` or `RELEASE` and its
execution, and another task can take the lock meanwhile. The content of the
database is the set of writes made to it. SQLite's savepoints and aiosqlite are external.
Blockchain's `Commit` and `CancelInCommit` are what this module says of one
outermost transaction.

**BlockHeightMap.** `NewPeak` is `rollback` and `update_height` for one new peak with
the start of `maybe_flush`; `WriteHashes` and `WriteSummaries` are the two files, in this
order; `WriteFails` is `write_file_async` that could not move its file (it logs and goes on);
`CancelFlush` a cancelled task; `Restart` is `create`, from files that may be old,
of another chain, or of two different flushes, and from the database.
`torn` is a history variable: some flush did not write both files.

**Mempool.** A transaction has coins, a fee, a cost and time locks; what the chain knows of
its coins is the replay of the chain of `peak`, as Blockchain's `CoinTableIsReplay` allows.
`AddSpendBundle` is the whole of `add_spendbundle`, from the coin records to the conflicts, the
capacity and the pending cache. `respond_transaction` is cut where it validates without the lock
(`flight` counts those) and where it has the lock; `new_peak` empties the pool and adds the
items again one await at a time (`job`), and can be cancelled there. What it reports as added is announced by
`peak_post_processing_2`, one transaction after another (`reports`), after the lock is released. Two history variables
name what the code is known to leave: `leftBehind` (names in `seen` without a transaction) and `astray`
(items accepted while the pool stood at a block of an abandoned chain).

**PlotSync.** On the harvester the thread of the plot manager (`pm`) and the event loop share the
`Sender`. A step of the event loop ends at an await or where it blocks (`loop`): in `_reset`, which
needs the plot manager's lock, and in the join of `stop_refreshing`. A message whose answer
does not come in time is sent again; the receiver may have applied it. The farmer's
handlers are one step each. `crossed` remembers that the last reset met a refresh
whose sync had started.

**Sync.** The permits of `new_peak_sem` are handlers; a handler is cut at its requests to
peers and where it waits for the lock. A long sync has the tasks of `_sync` and, under the lock,
`fetch_block_batches` and `validate_block_batches` with their bounded queue (`pipe`). `store` is the
whole `SyncStore`. Peers run the same program: they answer from their main chain, which
only moves to heavier blocks; an answer may fail to come, or close the connection.
History variables: `leaked`, `cleared`, `partial` (see below).

**DataStore** holds the tables of one store as pure operators on a record: `node` is the set of
hashes, `root` a function from generations, `ancestors` a function from nodes and
generations. **DataLayer** runs on them: per host the requests that are being served (`calls`) and `periodically_manage_data`,
the two locks they share, the files they write and download, and the chain of
the singleton. `txn` is what the holder of the database lock sees, `db` what is committed, `rpc` how far the
request has come whose transaction is open. `spends` is what the owner's wallet has made of the singleton: it refuses a spend while it
has a record of one that is not confirmed (`Spendable`), keeps no record of spends for offers, made or taken, and makes a recorded
spend anew when another one was confirmed that left the root alone (`Resubmitted`).
A file that is read while its server still writes it is empty in the model. `marks` is history: whose download
was overtaken (`raced`), who died while writing files (`torn`), who fetched a file that was still being written
(`partial`), whose offer lost its root (`dropped`), and whether a batch put a node into the wrong place (`misplaced`).

**MC modules** hold the instances. **Proof modules** (`LockQueueProofs`, `BlockchainProofs`,
`BlockHeightMapProofs`, `DBWrapperProofs`, `MempoolProofs`, `SyncProofs`, `PlotSyncProofs`,
`DataLayerProofs`) extend the module they are about.

How they fit: LockQueue's `MutualExclusion` is why Blockchain runs one `receive_block`
at a time; DBWrapper's `AllOrNothing` is why `db` changes in one step; Blockchain's
`PathIsStored` is why `create` finds the blocks it asks for, and BlockHeightMap's `MapIsPath`
is what Blockchain assumes of the memory after a restart. Mempool takes from Blockchain that
the coin table is the replay of the peak's chain, and Sync that blocks are added under the
lock, one `receive_block` after another. Sync's `PostProcessed` is why the mempool hears of a peak.

## Runs

All runs hold, with no error, but `mempool_announced`: it checks an assertion of the code, which TLC
finds violated.

| Run | Properties | What it shows |
|---|---|---|
| `lock` | MutualExclusion, ReleasedUnlessLost, TopPriorityServed, RefinesLockQueue | One call inside at a time, with cancellation and closing at any moment. Unless the lock is lost to a cancelled call, it is released again and a call of highest priority is served. The queue is the heap, which yields an entry of least priority and loses none. |
| `chain_reorg` | CoinTableIsReplay, MainChainIsPath, PeakIsHeaviest, AcceptedBlocksApply, ValidationIsExact, MemoryMatchesDatabase, AvailableUnlessReorg | Blocks in any order, crashes at any point: coin table, main chain, peak, and memory are those of the heaviest chain; accepted blocks can be applied; validation on the current coin table decides as if it looked at the block's own chain; who reads without the lock finds the peak in the database, but for a reorganisation. |
| `chain_interrupts` | PathIsStored | With cancelled tasks and stale fork points too, the node can still load its chain. |
| `map` | MapIsPath, CompleteUnlessTorn, ReorgKeepsOnPath | The rebuilt map is the path to the peak whatever failed; summaries are complete unless a flush was torn; reorganisations leave no summary behind. |
| `db` | AllOrNothing, WriterSeesItsWrites, DurableUnlessOrphaned, WriterServed | Committed content is whole transactions, a writer sees exactly its own writes, what was returned is committed unless a `SAVEPOINT` was orphaned, and every waiting writer is served. |
| `mempool` | NoDoubleSpend, BundleIsValid, WithinCapacity, SeenIsExplained, LeavesForAReason | Submissions, blocks, reorganisations, syncs and a cancelled update in any order: no coin is spent twice, limits are kept, the bundle of the next block is valid, a name in `seen` has a transaction, and an accepted transaction leaves only for a reason. |
| `mempool_announced` | AnnouncedIsInPool (violated) | `peak_post_processing_2` asserts that what `new_peak` reports as added is in the pool. It may not be: a pending transaction that is retried later takes the place of one reported before it, or, after the lock is released, a submission or the next peak takes it out. The assertion then ends the handler. |
| `plot_sync` | DeltaIsPrefix, SettledInStep, ComesInStep | Refreshes, resends, resets and reconnects with two faults: the receiver collects exactly what was acknowledged (and perhaps a part of a batch that it refuses), shows what the harvester has whenever nothing is under way, and comes to do so again and again. |
| `sync` | FlagsMatch, SyncingReleased, PostProcessed, TargetKept | Two handlers and two long syncs, one of them finishing: flags and notes describe exactly the tasks that run, and the peak that the chain stops at was processed. |
| `sync_live` | LongSyncEnds, CatchesUp | Two slots for long syncs, so that one may start while the last one finishes: every long sync ends, and the node gets to the heaviest chain as long as some peer keeps sending it, unless syncs clear each other's notes for ever. |
| `data_store` | LineageIsExact, HintIsTree, DeltaSuffices, RequestsEnd | Two requests at a time: the ancestors table is exact in every generation and inside a batch, the deltas are complete, and requests end unless two tasks wait for each other's lock. |
| `data_layer` | LocalIsChain, CatchesUp | Local generations are those of the chain, and every host gets them all. |

Every property that holds is broken by a mutant of the code it is about; the mutants stand before the
definitions they change.

### Cases the properties except

Several properties hold with an exception that is named in the module. Each is a state
that the code reaches and that a reader of the code should know:

- *lock*: a waiter cancelled inside `__aenter__` leaves its callback in the queue; the lock is then
  acquired for nobody and never released (`Lost`, `lock_queue.py:82`).
- *chain*: in a reorganisation the height map changes before the commit, so that `get_peak` may
  name a block that is not in the database, or raise (`ReorgCommits`, `blockchain.py:284`). A task
  cancelled at the commit leaves `_peak_height` behind the database; the next
  reorganisation then skips the rollback of the coin table (`blockchain.py:301`, `362`), which is why
  `chain_interrupts` checks only `PathIsStored`. The same goes for fork points that
  are out of date.
- *height map*: a crash between the two files loses summaries for good (`torn`); a restart after a
  reorganisation keeps summaries of the abandoned chain at and above the peak's height, so
  `ReorgKeepsOnPath` is about running, not about loading.
- *database*: a task cancelled while awaiting its outermost `SAVEPOINT` leaves a transaction
  open, and nothing is committed from then on (the orphan of `DurableUnlessOrphaned`).
- *mempool*: an item that is evicted or replaced, or lost with a cancelled rebuild, keeps its name in
  `seen` (`leftBehind`), so that it is refused when it is sent again; a cancelled rebuild loses the
  rest of the pool, as the repeated `new_peak` returns at once; items accepted on another
  branch stay unchecked when the old one wins again (`astray`). What `new_peak` reports as added and is
  no longer there when it is announced is the finding of `mempool_announced`.
- *plot sync*: a reset in the middle of a refresh throws away what the refresh queues after
  it (`crossed`); `_reset` may wait on the event loop for a sync that only this loop could end,
  and a second lost connection may cancel the task its handshake awaits (`Hung`). A batch that is
  refused at one of its files leaves those before it in the delta until the next reset
  (`receiver.py:206`); it is never applied (`AppliedIsQueued`).
- *sync*: `_finish_sync` of one long sync clears the target of the next, as does `respond_block` at
  heights divisible by 1000 (`cleared`); the first request of a batch sync raises outside the
  `try` and leaves the peer in `batch_syncing` (`leaked`, `full_node.py:429`); a batch that fails half way
  skips `peak_post_processing` (`partial`); a heavier chain that is not higher is not followed by
  a long sync (`IsHighest`). `_finish_sync` resets the flags before it waits for the lock, so that the next
  `_sync` may have collected peaks when they are cleared (`full_node.py:1184`); if this happens in sync
  after sync, the node stays behind (`ClearsNextSync`).
- *data layer*: the two locks are taken in opposite orders, by `batch_insert`, `get_value` and the offers
  (`data_layer.py:148`, `208`) and by `get_keys`, its like, `publish_update` and `periodically_manage_data`
  (`226`, `179`, `333`): two requests, or a request and the periodic task, wait for each other
  for ever (`Embraced`; both pairs occur in `data_store`); a pending root in the way of a root that stays the same makes
  `_update_confirmation_status` raise in every round; a download overtaken by a request inserts its root
  one generation too high (`raced`); a crash during an upload leaves an empty file or a gap (`torn`), and so
  does the download of a delta that its server is still filling, which the mirror keeps and serves in turn (`partial`); an offer taken
  after its root was dropped cannot be committed (`dropped`); from the third batch on, a reference to a leaf that is no
  longer in the tree may misplace a node (`misplaced`).

### Where the models are coarser than the code

- *chain*: the reward claims of a block are compared with its own chain, without the read of the record of the
  earlier transaction block; for an orphan that is committed `ReorgCommits` is a little wider than a reorganisation.
- *plot sync*: the appends of `sync_done` and the batch of a refresh with its check that refreshing is enabled are one
  step of the plot manager each; a reset between two appends is a case of `crossed`.
- *sync*: one request fails at a time where several are gathered; a weight proof that is refused is one that does not
  come; a refused batch ends the handler before it takes the lock rather than after; `respond_block` does not ask again
  for a block that came without its generator, and clears the notes in the step in which it adds the block.
- *data layer*: the nodes of a file and its root are inserted in one step (a crash between them leaves nodes that
  no tree has). A leaf with the key of the new one that is still in the node table, and no longer in the tree, is not
  taken as a reference: the code would take it, and make a tree that has the key twice, a case of `misplaced`.

### Bounds

- `lock`: five calls of priorities 0, 1, 1, 2, 2: the node has three clients (ultra,
  high, low), calls of one priority are the case the heap does not order, and five entries
  fill three levels of it.
- `chain_*`: 13 blocks up to height 4 with two first blocks, a heavier but shorter
  chain, the same transaction at two heights, a double spend, a time lock that
  only one chain satisfies, blocks without transactions. `CacheSize = 2`
  makes the window of records smaller than the tree, so that blocks are cleaned and
  loaded again. `MCBlockchain` explains each block.
- `map`: 15 blocks, three chains, summaries at different heights; `FlushLimit = 3` puts
  flushes in the middle of chains and leaves unflushed entries behind others.
- `db`: two tasks, one read connection (the smallest pool, where readers and
  writers could block each other), `MaxContexts = 4` contexts entered in all,
  `MaxDepth = 3` of them nested, `MaxWrites = 2` writes. Two levels of one task
  and a second task that takes over the connection fit in this.
- `mempool`: 6 blocks with a reorganisation, 5 transactions that conflict, replace,
  wait for a height and differ in fee rate. Pool, cache and bundle hold a cost of 3, so that
  each is full in the middle of behaviours; `SeenSize = 1` makes names overflow; each
  transaction may be in validation twice (`MaxFlight`); one rebuild is cancelled; at most
  `MaxReports = 1` list of added transactions waits to be announced.
- `plot_sync`: two files, batches of one, one of the three kinds of lists (one function
  handles them), two faults of any kind. `MaxClock = 1` lets two syncs start in one second or
  in two; `MaxFails` and `MaxAsserts` bound repetitions of one step. Larger instances were run once, for the
  invariants: batches of two with four faults, and three faults with syncs in three different seconds.
- `sync`: 9 blocks on three branches, of which one has an invalid block; a peer that stays and
  one that moves on; one fault. The thresholds are the smallest for which each of the three
  kinds of sync is chosen and batches have a second request; `MaxPeaks = 2` is the limit 256.
  Handlers and syncs are symmetric. Both runs have two slots for `_sync`, one that runs
  and one that finishes.
- `data_store`: one host, all trees of three leaves and height at most 2, two generations, two
  events, of which one may be a crash; both may be requests that are served together (`Calls`), which is
  enough for each order of the locks to meet the other. `data_layer`: an owner and a mirror,
  one leaf, requests that make, drop and read a root, one at a time on a host (with two at a time the
  run takes twice as long; it holds too).

Runs say `CHECK_DEADLOCK FALSE` because these systems may stop: all blocks of
the tree were received, the bound on contexts, faults or events is used up, the lock is
closed or lost.

### Fairness

`lock` assumes weak fairness of the runner, of resuming a task whose event is set,
and of leaving the body: asyncio runs every ready task, and bodies end. Entering,
cancelling and closing are never forced. `db` assumes the same of the tasks
(`Progress`) and of the thread of the connection (`Execute`). `asyncio.Lock` serves its
waiters in order; `asyncio.Queue` does not promise it, and nothing is claimed of tasks that wait
for a read connection.

`plot_sync` assumes weak fairness of the plot manager's thread, the sender's task, the farmer,
the delivery of answers, and of connecting again; timeouts, lost connections and changes of files
are never forced. `sync` and `sync_live` assume weak fairness of handlers and of the tasks of a
sync. Of a peer with the heaviest chain they assume that it connects again and moves on,
that it keeps announcing its peak (strong, also while a sync waits for peaks: the wait of 30 s
is longer than the time between blocks), and that a sync which can choose its tip at one time or other does.
`data_store` and `data_layer` assume strong fairness of every request that is served, as
`asyncio.Lock` serves its waiters in order and the other tasks give their locks back, and weak fairness of
`periodically_manage_data` and of asking an ignored server again. Requests, spends and
crashes are not forced.

## Proofs

All proofs are checked by TLAPS, without any unproved step. Every inductive invariant was
checked by TLC on the instance of a run before it was proved.

**LockQueueProofs** (any set of calls, any priorities).
`MutualExclusion` and `RunnerFindsLockFree`: mutual exclusion is not inductive; `Inv` adds that a
call inside owns the inner lock while the release event is not set (`OwnsTheLock`), and that
a set event means a free lock, so that a second callback cannot run.
`HeapRefinesTheorem`: LockQueueHeap implements LockQueue (`RefinesLockQueue`). The two loops of
heapq keep a list in which only one entry may be out of order, with its parent (`Rising`) or
with its children too (`Sinking`), and in which what is below that entry is in order with what is
above it (`GapAt`). Each round keeps the entries and moves closer to the end of the loop, so that
push and pop leave a heap; the first entry of a heap is a least one. Calls are queued once
(`HeapInv`).

**BlockchainProofs** (every tree of blocks, cache size and set of fork points, with crashes).
`TypeOK`, `CoinTableIsReplay`, `MainChainIsPath`, `PeakIsHeaviest`, `MemoryMatchesDatabase`,
`AvailableUnlessReorg` and the action property `OnlyHeavierReplaces`. The inductive invariant says
what the open transaction holds at each await: in the loop over the new branch, `txn` is the
replay of the new chain up to `next` (`Applying`); before the commit, `txn` is a correct
database for its own peak (`Committing`); after it, only `_peak_height` is behind (`Committed`).
`StoredBlocksAreValid`: every stored block, orphans included, is valid on its own chain. From this
and the replay follow `AcceptedBlocksApply` and `ValidationIsExact`: what the coin table of
another peak and the blocks since the fork say of a coin is what the block's own chain says.
`PathIsStored` holds with cancellation and stale fork points too, and has an invariant of its own.
Assumptions: the tree is a tree (`ChainAssumption`), weights grow along a chain (`WeightAssumption`),
only transaction blocks touch coins (`CoinsAssumption`); coin ids are hashes over parents and, of
rewards, over the height (`CoinIdAssumption`: `coinbase.py` puts the height into the parent of a
reward); the first block is a transaction block (`BodyAssumption`, check 15 of
`block_header_validation.py`). All but `PathIsStored` assume `Undisturbed` (no cancellation, no stale
fork points: the properties fail otherwise, as said above).

**BlockHeightMapProofs** (every tree, flush limit and kind of interruption).
`MapIsPath` whatever is interrupted or fails: the file always holds the chain of *some* block
(`FileIsChain`), and chains that meet at a height agree below it, so finding one right entry is
enough. `CompleteUnlessTorn`: the file of the summaries covers the blocks of the other file
(`FilesMatch`), but between the two writes, when the first file equals the memory.
`ReorgKeepsOnPath`: what rollback keeps is below the fork; at a fork height of -1 it keeps height
0, whose block includes no summary.

**DBWrapperProofs** (any number of tasks, contexts, depth and writes).
`AllOrNothing`, `WriterSeesItsWrites`, `DurableUnlessOrphaned`. As the thread of the connection may be
any number of commands behind the tasks, the invariant speaks of the state the connection is
going to be in once its queue is executed, and of everything that is committed on the way there
(`Pending`). It is this state whose savepoints match the contexts of the task that holds the lock
(`Held`). An orphaned savepoint is at the bottom of the stack, where nothing of the holder is
below it, and so nothing is committed from then on.

**MempoolProofs** (every tree of blocks, every set of transactions, all limits).
`NoDoubleSpend`, `WithinCapacity`, `SeenIsExplained`, `AddedUnlessOvertaken`, `BundleIsValid`, `LeavesForAReason`. For the
first four the invariant (`PoolOk`, `JobOk`, `Explained`, `AddedOk`) is not far from the properties; the work is in
the loop of `add_to_pool`. Fee per cost is a total order on the items (by cross multiplication), the sets that the
loop tries are nested, and the one it stops at is the smallest that makes room: it exists because a single item fits
into the pool (`MempoolAssumption`: a cost is at least 1 and at most the limit; larger ones are refused at
`MaxBundleCost`), and every item in it is cheaper than the new one.
For the last two: what is in the pool and not astray is valid at the block the pool stands at (`PoolIsValid`), and while
`new_peak` rebuilds the pool, what it has added and what it still has to add fit together (`RebuildOk`), so that adding
one again fails only when the new chain forbids it. That the optimisation of `new_peak` may keep the pool and kick
out only what the last generator spends needs that the new blocks hold no other generator, and that locks which are open
stay open along a chain (`StaysValid`). Assumptions: heights count and time does not go back from one
transaction block to the next (check 26b of `block_header_validation.py`), and only generators spend (`ChainAssumption`); a
chain creates a coin once and spends only what it created, and what a bundle would create a chain has created only if it
spent a coin of the bundle, ids being hashes over the parent's (`CoinIdAssumption`); locks are natural numbers
(`TxAssumption`). TLC evaluates all of them on the instance of the run.

**SyncProofs** (any number of peers, handlers and long syncs, any faults).
`FlagsMatch`, `SyncingReleased`, `PostProcessed`, `TargetKept`. Beyond the properties the invariant has that two
handlers never batch-sync from one peer, so that what a handler gives back is its own
(`ReleasedOK`); that at most one long sync runs and the lock is its (`FlagsOK`); and that its
target is known, which `peer_has_block` puts back when it comes to evict it, unless it was cleared (`TargetOK`).

**PlotSyncProofs** (any finite set of files, any kinds of lists, batch size, clock and number of faults).
`DeltaIsPrefix`, `SettledInStep`, and the action property `AppliedIsQueued`: a sync that is applied changes the receiver's plots
by exactly what was queued between its start and its done message. The connection may hold
copies of a message, of which some were given up, and ids of syncs are used again within one second. The invariant
says that one message is under way at a time: the net holds only copies of the sender's current
message and answers to it, and none is left when an answer is accepted (`ConnOK`, `WaitOK`); so the
receiver stands either before the current message or behind it, the answer says which, and what it has
collected is what the queue says up to there (`SyncOK`, with `QueueOK` on the form of the queue).
`DeltaIsPrefix` first said that the delta is a prefix of the queue, which the proof refuted: a batch of two or
more that is refused has been collected in part. It now says so, and `AppliedIsQueued` that this part is dropped.
`SettledInStep` needs the three parties at once (`StepOK`): a queue with a done message, applied to what the receiver has,
makes the plots and lists of the plot manager, or has already done so; a queue without one belongs to a refresh under
way, and accounts for what this has dropped and loaded so far (`RefreshOK`); with no sync the two agree, or the first refresh
is still to come; and the receiver of an initial sync has forgotten its plots once it has answered the start
message, which is not so before as an id may be used again (`FromNothing`). That batches leave nothing out
(`BatchesCover`) and that lists are queued under their own kinds (`AddListsSays`) are lemmas about the operators. It also
needs that the plot manager's thread has ended before a sender is started again (`ThreadOK`). The
excuse `crossed` stays: there the code does lose what the refresh queues.
Assumption: the kinds of lists are finitely many and are none of the other kinds of messages
(`PlotSyncAssumption`).

**DataLayerProofs** (any number of hosts, leaves, generations, events and faults).
`LocalIsChain`: the committed generations in `db` are 0..n with the roots
of the chain (`StoreFollows`); inside a batch the same holds of `txn` up to the generation the batch
began at (`BatchFollows`); a request inside a transaction holds the database lock, so that what it
read is still true when it writes (`LockOK`); and the roots that a round still has to download
are those of the chain above the generation it started from (`FetchOK`), unless a request overtook
it (`raced`).

`LineageIsExact`, `NoGaps` and `HintIsTree` rest on a second invariant (`HostsLineage`) that does not speak of the chain
and so holds of raced hosts too. Of a store it says (`Lineage`) that its generations have no gap, that it has every
node of its trees (`NodesOK`), that a row of the ancestors table for a node and a generation is the node's parent in
that generation's tree (`RowOK`), and that the last row of a node at or before a generation is still right there
(`Exact`). The last part is what `build_ancestor_table_for_latest_root` relies on when it writes rows only for nodes that
the generation before lacks: a node both generations have keeps its parent, or its parent is new and the
row was written. It is shown once, for a generation that is added with a set of nodes that were made (`MadeFor`), and
then of `insert`, `delete`, the end of a batch, a file that is inserted, and a root that is committed or shifted.
`insert` and `delete` need what the loop up the path does to the leaves of every tree on it; this is an
induction over the path, and facts about trees are shown for a smallest tree that lacks them (`TreeInduction`).
`BatchOK` carries the dict of a batch, which has the leaves of the tree after every change.

`DeltaSuffices` rests on a third (`HostsDeltas`): every delta file is of a generation of the chain and
has the nodes that no earlier generation has, unless it is being filled. It uses `Lineage`, as
`get_first_generation` reads the rows of the ancestors table: a node whose first row is at this generation is one the trees
before do not have. The proof did not go through for the property as it first stood: a mirror may fetch a delta that its
server has opened and not yet filled. Where the mirror has the nodes already, for instance
from a file that did not fit, the empty file is accepted and kept. The property now excepts that by name (`partial`); it is
in turn about all files, also of generations the host does not have.

Assumptions on the constants (`DataStoreAssumption`): hashes do not collide; the keys of a tree are unique and so each of
its nodes is in it once, as `insert` and `insert_batch` refuse a key twice; and two trees without a common key have a
node that joins them.

`RunnerFindsLockFree`, `OnlyHeavierReplaces`, `StoredInv`, `NoGaps`, `AppliedIsQueued` and `AddedUnlessOvertaken` (inside
`new_peak`, what was added is in the pool unless a later one took its place) are proved and not repeated in a run.
Facts about recursive functions and loops (the rounds of heapq, `Without`, `AddLists`, sums over sets) are proved by
their least counterexample (`LeastNumber`), as induction schemes cannot be instantiated by the provers.

Only model-checked:

- liveness, as fairness is beyond the prover: `ReleasedUnlessLost`, `TopPriorityServed`, `WriterServed`,
  `ComesInStep`, `LongSyncEnds`, both `CatchesUp`, `RequestsEnd`;
- the type invariants of these modules, but Blockchain's and those that are part of an inductive invariant.

## Not modelled

- Header checks, VDFs, proofs of space, weight proofs, signatures, costs, amounts: arithmetic and
  cryptography on one block. Blocks of the model have passed them.
- Of the full node's handlers: unfinished blocks, signage points, compact proofs, the wallets' subscriptions, and the
  full node store they use.
- Of the data layer: subscriptions, mirrors, `add_missing_files`, proofs of inclusion, the comparison of two roots. A
  reorganisation of the singleton's chain, which the code does not handle either: confirmed spends stay.
- The timelord, the farmer's and harvester's challenges and partials, pools, wallet, server, introducer, seeder,
  daemon, RPC, command line, plotting, simulator, types: other programs of the repository, I/O or data
  definitions (`PROJECT.json` has a reason for each).
- `DBWrapper2.add_connection` and `close`, the older `DBWrapper`; `replace_proof` and the
  challenge segments of the block store, which no modelled decision reads.

## Plan

1. An abstract specification of the chain ("the coin table is a function of the heaviest valid
   chain") that Blockchain refines.
2. The full node store: the caches of unfinished blocks, signage points and end-of-slot bundles.
