---------------------------------- MODULE Sync ---------------------------------
(***************************************************************************)
(* How a full node follows its peers: the handler of new_peak with its     *)
(* backtrack and batch syncs, and the long sync, in                        *)
(* lotus/full_node/full_node.py, over the notes kept in                    *)
(* lotus/full_node/sync_store.py.                                          *)
(*                                                                         *)
(* A task is cut at its requests to peers and where it waits for the       *)
(* blockchain lock.  What a handler does under the lock is one step; the   *)
(* long sync holds it while its two tasks, fetch_block_batches and         *)
(* validate_block_batches, pass batches through a bounded queue.           *)
(*                                                                         *)
(* The peers run the same program: they answer from their main chain,      *)
(* which only moves to heavier blocks, though not all of them need be      *)
(* valid for us.  An answer may fail to come in time, or be a message of   *)
(* the wrong type, which closes the connection and raises; a connection    *)
(* may be lost at any time.                                                *)
(***************************************************************************)
EXTENDS Integers, Sequences, FiniteSetsExt, SequencesExt

CONSTANTS
    Blocks,         \* the blocks of all chains
    None,           \* no block, no task
    Prev,           \* Prev[b]: the block before b, None for the first
    Height,         \* height of each block
    Weight,         \* total difficulty of the chain of each block
    Invalid,        \* blocks that fail the validation of their body
    StartPeak,      \* the peak of the node when it starts
    Peers,          \* node ids of the peers
    Journey,        \* Journey[p]: the peaks that peer p goes through
    Handlers,       \* the permits of new_peak_sem
    Syncs,          \* bound: tasks of _sync that exist at one time
    BatchSize,      \* MAX_BLOCK_COUNT_PER_REQUESTS
    BufferSize,     \* buffer_size of sync_from_fork_point
    ShortThreshold, \* short_sync_blocks_behind_threshold
    SyncThreshold,  \* sync_blocks_behind_threshold
    RecentBlocks,   \* WEIGHT_PROOF_RECENT_BLOCKS
    BacktrackDepth, \* how far below the peak a backtrack sync looks (5)
    BatchMargin,    \* how far below the peak a batch sync starts (6)
    MaxPeaks,       \* size of peak_to_peer (256)
    ClearEvery,     \* every so many blocks clear_sync_info is called (1000)
    MaxFaults       \* bound: lost connections, late and wrong answers

ASSUME SyncAssumption ==
    /\ {BatchSize, BufferSize, MaxPeaks, ClearEvery} \subseteq Nat \ {0}
    /\ {ShortThreshold, SyncThreshold, RecentBlocks, BacktrackDepth, BatchMargin,
        MaxFaults} \subseteq Nat
    /\ None \notin Blocks \cup Syncs
    /\ IsFiniteSet(Handlers)
    /\ StartPeak \in Blocks \ Invalid
    /\ \A b \in Blocks :
         IF Height[b] = 0 THEN Prev[b] = None
         ELSE /\ Prev[b] \in Blocks
              /\ Height[b] = Height[Prev[b]] + 1
              /\ Weight[b] > Weight[Prev[b]]
    /\ \A p \in Peers : Journey[p] \in Seq(Blocks) /\ Journey[p] # <<>>
    /\ \A p \in Peers : \A i \in 2..Len(Journey[p]) :
         Weight[Journey[p][i]] > Weight[Journey[p][i - 1]]

VARIABLES
    peak,           \* blockchain.get_peak()
    records,        \* the blocks for which contains_block holds
    processed,      \* the peak that peak_post_processing last saw
    stage,          \* stage[p]: how far peer p is on its journey
    conn,           \* the peers that are connected
    waiting,        \* messages new_peak that wait on new_peak_sem, of closed connections
    store,          \* the SyncStore
    task,           \* task[h]: the call of new_peak that holds permit h
    sync,           \* sync[s]: a task of _sync
    lock,           \* the task of _sync that holds the blockchain lock, or None
    pipe,           \* the two tasks of sync_from_fork_point and their queue
    faults,         \* number of faults so far
    leaked,         \* history: peers left in batch_syncing by an exception
    cleared,        \* history: the target of the running sync was deleted by clear_sync_info
    partial         \* history: a batch failed after it had moved the peak

vars == <<peak, records, processed, stage, conn, waiting, store, task, sync, lock, pipe,
          faults, leaked, cleared, partial>>
chain == <<peak, records, processed, partial>>

--------------------------------------------------------------------------------
(* Chains.                                                                 *)

Chain[b \in Blocks] == IF Prev[b] = None THEN <<b>> ELSE Append(Chain[Prev[b]], b)

(* The block at height i of the chain that ends with b.                    *)
At(b, i) == Chain[b][i + 1]

Ancestors(b) == Range(Chain[b])

(* The height of the last block that two chains share.                     *)
ForkHeight(b, c) == Max({Height[x] : x \in Ancestors(b) \cap Ancestors(c)} \cup {0})

Tip(p) == Journey[p][stage[p]]

(* request_proof_of_weight is answered for every block that the peer has.  *)
Has(p, b) == \E i \in 1..stage[p] : b \in Ancestors(Journey[p][i])

(* request_block and request_blocks are answered from the main chain, or   *)
(* rejected when it is not that high.                                      *)
HasHeight(p, i) == i <= Height[Tip(p)]
Served(p, i, j) == SubSeq(Chain[Tip(p)], i + 1, j + 1)

--------------------------------------------------------------------------------
(* SyncStore.                                                              *)

Known(st) == {st.peakToPeer[i].hash : i \in DOMAIN st.peakToPeer}

PeersThatHave(st, b) ==
    UNION {st.peakToPeer[i].peers :
             i \in {j \in DOMAIN st.peakToPeer : st.peakToPeer[j].hash = b}}

(* Mutant of Evicted: the oldest goes, target or not.                      *)
EvictedOldest(seq, target) == IF Len(seq) <= MaxPeaks THEN seq ELSE Tail(seq)

(* One entry too many: the oldest goes, unless it is the target, which is  *)
(* moved to the end.                                                       *)
Evicted(seq, target) ==
    IF Len(seq) <= MaxPeaks THEN seq
    ELSE IF Head(seq).hash = target THEN Append(Tail(Tail(seq)), Head(seq))
    ELSE Tail(seq)

(* The entry of b has the peers ps, too.                                   *)
Noted(seq, b, ps) ==
    [i \in DOMAIN seq |-> IF seq[i].hash = b THEN [seq[i] EXCEPT !.peers = @ \cup ps] ELSE seq[i]]

(* peer_has_block, for the peers ps that have announced b or been found to *)
(* have it.                                                                *)
PeerHasBlock(st, b, ps, isNewPeak) ==
    IF ps = {} THEN st
    ELSE [st EXCEPT
            !.changed = @ \/ b = st.target,
            !.peakToPeer =
               IF b \in Known(st) THEN Noted(@, b, ps)
               ELSE Evicted(Append(@, [hash |-> b, peers |-> ps]), st.target),
            !.peerToPeak = IF isNewPeak THEN [p \in Peers |-> IF p \in ps THEN b ELSE @[p]] ELSE @]

(* get_heaviest_peak, among the peaks that are still known.                *)
Candidates(st) == {st.peerToPeak[p] : p \in Peers} \cap Known(st)
IsHeaviest(st, b) == b \in Candidates(st) /\ \A c \in Candidates(st) : Weight[c] <= Weight[b]

ClearSyncInfo(st) == [st EXCEPT !.peakToPeer = <<>>]

Forgotten(seq, p) == [i \in DOMAIN seq |-> [seq[i] EXCEPT !.peers = @ \ {p}]]

PeerDisconnected(st, p) ==
    [st EXCEPT !.peerToPeak[p] = None,
               !.peakToPeer = Forgotten(@, p),
               !.changed = TRUE]

--------------------------------------------------------------------------------
IdleTask == [pc |-> "idle", peer |-> None, live |-> FALSE, tip |-> None,
             from |-> 0, at |-> 0, got |-> <<>>]
IdleSync == [pc |-> "idle", peer |-> None, live |-> FALSE, fork |-> 0]
(* None in the queue: there are no more batches.                           *)
EndMark == [peer |-> None, blocks |-> <<>>]
IdlePipe == [fetch |-> "off", at |-> 0, peers |-> {}, todo |-> {}, item |-> EndMark,
             queue |-> <<>>, advanced |-> FALSE, validated |-> FALSE]

Init ==
    /\ peak = StartPeak
    /\ records = Ancestors(StartPeak)
    /\ processed = StartPeak
    /\ stage = [p \in Peers |-> 1]
    /\ conn = Peers
    /\ waiting = {}
    /\ store = [peakToPeer |-> <<>>, peerToPeak |-> [p \in Peers |-> None],
                syncMode |-> FALSE, longSync |-> FALSE, target |-> None, changed |-> FALSE,
                batch |-> {}, backtrack |-> [p \in Peers |-> 0]]
    /\ task = [h \in Handlers |-> IdleTask]
    /\ sync = [s \in Syncs |-> IdleSync]
    /\ lock = None
    /\ pipe = IdlePipe
    /\ faults = 0
    /\ leaked = {}
    /\ cleared = FALSE
    /\ partial = FALSE

--------------------------------------------------------------------------------
(* Connections.                                                            *)

(* connection_closed: the requests that wait for p get None, now and for   *)
(* as long as their tasks use this connection.                             *)
Closed(p, st, ts, ss, pi) ==
    /\ conn' = conn \ {p}
    /\ store' = PeerDisconnected(st, p)
    /\ task' = [h \in Handlers |-> IF ts[h].peer = p THEN [ts[h] EXCEPT !.live = FALSE] ELSE ts[h]]
    /\ sync' = [s \in Syncs |-> IF ss[s].peer = p THEN [ss[s] EXCEPT !.live = FALSE] ELSE ss[s]]
    /\ pipe' = [pi EXCEPT !.peers = @ \ {p}, !.todo = @ \ {p}]

Open(st, ts, ss, pi) == store' = st /\ task' = ts /\ sync' = ss /\ pipe' = pi /\ UNCHANGED conn

Fault == faults < MaxFaults /\ faults' = faults + 1

(* With no permit free, a message of the peer may wait for one: its        *)
(* handler is not cancelled with the connection (execute_task).            *)
Disconnect(p) ==
    /\ p \in conn
    /\ Fault
    /\ Closed(p, store, task, sync, pipe)
    /\ \/ UNCHANGED waiting
       \/ /\ \A h \in Handlers : task[h].pc # "idle"
          /\ waiting' = waiting \cup {[peer |-> p, tip |-> Tip(p)]}
    /\ UNCHANGED <<chain, stage, lock, leaked, cleared>>

Reconnect(p) ==
    /\ p \notin conn
    /\ conn' = conn \cup {p}
    /\ UNCHANGED <<chain, stage, waiting, store, task, sync, lock, pipe, faults, leaked, cleared>>

(* The peer's own chain moves on.                                          *)
Advance(p) ==
    /\ stage[p] < Len(Journey[p])
    /\ stage' = [stage EXCEPT ![p] = @ + 1]
    /\ UNCHANGED <<chain, conn, waiting, store, task, sync, lock, pipe, faults, leaked, cleared>>

--------------------------------------------------------------------------------
(* receive_block_batch.  Blocks that are known at the beginning of the     *)
(* batch are skipped.  fork is the height that the caller believes to be   *)
(* the fork point, or -1 for None.                                         *)

Unknown(bs) == LET new == {i \in DOMAIN bs : bs[i] \notin records}
               IN IF new = {} THEN <<>> ELSE SubSeq(bs, Min(new), Len(bs))

(* _reconsider_peak with a fork point that is not on both chains walks     *)
(* back to the first block and adds coins that are in the coin store.      *)
ForkIsStale(b, fork) ==
    /\ Prev[b] # peak
    /\ fork # -1
    /\ fork > Height[peak] \/ At(peak, fork) \notin Ancestors(b)

(* The index of the first block that is refused, or at which an exception  *)
(* is raised: the blocks before it have been added.                        *)
Refused(bs) == {i \in DOMAIN bs : bs[i] \in Invalid \/ (i = 1 /\ Prev[bs[1]] \notin records \cup {None})}
Raised(bs, fork) ==
    LET heavier == {i \in DOMAIN bs : Weight[bs[i]] > Weight[peak]}
    IN {i \in heavier : i = Min(heavier) /\ ForkIsStale(bs[i], fork)}

ReceiveBatch(batch, fork) ==
    LET bs == Unknown(batch)
        stops == Refused(bs) \cup Raised(bs, fork)
        n == IF stops = {} THEN Len(bs) ELSE Min(stops) - 1
    IN [ok |-> stops = {},
        raised |-> stops # {} /\ Min(stops) \notin Refused(bs),
        records |-> records \cup {bs[i] : i \in 1..n},
        peak |-> IF n > 0 /\ Weight[bs[n]] > Weight[peak] THEN bs[n] ELSE peak]

--------------------------------------------------------------------------------
(* The handler of new_peak.                                                *)

EndTask(h) == [task EXCEPT ![h] = IdleTask]

(* The exception closes the connection it came from, if it is still open.  *)
Raise(h, st) ==
    IF task[h].live THEN Closed(task[h].peer, st, EndTask(h), sync, pipe)
    ELSE Open(st, EndTask(h), sync, pipe)

(* Mutant of Busy: long_sync is not looked at.                             *)
BusyIfSyncMode(st) == st.syncMode

(* create_task(self._sync()): only one long sync at a time.                *)
Busy(st) == st.syncMode \/ st.longSync

SpawnSync(h, st) ==
    IF Busy(st) THEN Open(st, EndTask(h), sync, pipe)
    ELSE \E s \in Syncs :
           /\ sync[s].pc = "idle"
           /\ Open([st EXCEPT !.longSync = TRUE], EndTask(h), [sync EXCEPT ![s].pc = "wait"], pipe)

(* short_sync_batch up to its first request: nothing to do for a peer      *)
(* that is synced from already, and for an empty range.                    *)
StartBatch(h, t, start, st) ==
    IF st.backtrack[t.peer] > 0 \/ t.peer \in st.batch \/ (start = 0 /\ Height[t.tip] = 0)
    THEN Open(st, EndTask(h), sync, pipe)
    ELSE Open([st EXCEPT !.batch = @ \cup {t.peer}],
              [task EXCEPT ![h] = [t EXCEPT !.pc = IF start > 0 THEN "first" ELSE "fetch",
                                            !.at = start, !.got = <<>>]],
              sync, pipe)

(* new_peak after the backtrack sync, which was not tried or has failed.   *)
AfterBacktrack(h, t, st) ==
    IF Height[t.tip] < RecentBlocks THEN StartBatch(h, t, 0, st)
    ELSE IF Height[t.tip] < t.from + SyncThreshold
    THEN StartBatch(h, t, Max({t.from - BatchMargin, 0}), st)
    ELSE SpawnSync(h, st)

(* The answer of a connection that was closed is None.                     *)
Answered(h, pc) == task[h].pc = pc /\ task[h].live /\ UNCHANGED faults

(* A request fails: no answer in time, or the connection is closed.        *)
Unanswered(h, pc) ==
    /\ task[h].pc = pc
    /\ IF task[h].live THEN Fault ELSE UNCHANGED faults

(* The answer has the wrong type: the peer is banned, and invoke raises.   *)
WrongAnswer(h, pc) == task[h].pc = pc /\ task[h].live /\ Fault

(* new_peak, for the peak t of a peer whose connection may be closed.      *)
Announced(h, p, t, live) ==
    /\ task[h].pc = "idle"
    /\ LET st == PeerHasBlock(store, t, {p}, TRUE)
           call == [IdleTask EXCEPT !.peer = p, !.live = live, !.tip = t, !.from = Height[peak]]
       IN IF t \in records \/ Weight[peak] > Weight[t]
          THEN Open(st, task, sync, pipe)
          ELSE IF store.syncMode
          THEN IF t # store.target /\ p \notin PeersThatHave(st, store.target)
               THEN Open(st, [task EXCEPT ![h] = [call EXCEPT !.pc = "ask", !.got = <<store.target>>]],
                         sync, pipe)
               ELSE Open(st, task, sync, pipe)
          ELSE IF Height[t] <= Height[peak] + ShortThreshold /\ Height[t] > Height[peak] - BacktrackDepth
          THEN Open([st EXCEPT !.backtrack[p] = @ + 1],
                    [task EXCEPT ![h] = [call EXCEPT !.pc = "back", !.at = Height[t]]],
                    sync, pipe)
          ELSE AfterBacktrack(h, call, st)
    /\ UNCHANGED <<chain, stage, lock, faults, leaked, cleared>>

NewPeak(h, p) == p \in conn /\ Announced(h, p, Tip(p), TRUE) /\ UNCHANGED waiting

LatePeak(h) == \E w \in waiting : Announced(h, w.peer, w.tip, FALSE) /\ waiting' = waiting \ {w}

(* Has the peer a block at the height we sync to?  Any block will do.      *)
AskTarget(h) ==
    /\ LET t == task[h]
           b == t.got[1]
       IN \/ /\ Answered(h, "ask")
             /\ Open(IF HasHeight(t.peer, Height[b]) THEN PeerHasBlock(store, b, {t.peer}, FALSE) ELSE store,
                     EndTask(h), sync, pipe)
          \/ Unanswered(h, "ask") /\ Open(store, EndTask(h), sync, pipe)
          \/ WrongAnswer(h, "ask") /\ Raise(h, store)
    /\ UNCHANGED <<chain, stage, waiting, lock, leaked, cleared>>

Released(h) == [store EXCEPT !.backtrack[task[h].peer] = @ - 1]

(* short_sync_backtrack: from the new peak down, until a block connects    *)
(* with one we have, or we are too far below our peak.                     *)
BacktrackFetch(h) ==
    /\ LET t == task[h]
           b == At(Tip(t.peer), t.at)
           got == [t EXCEPT !.got = Append(@, b)]
       IN \/ /\ Answered(h, "back")
             /\ IF ~HasHeight(t.peer, t.at) THEN Raise(h, Released(h))
                ELSE IF Prev[b] \in records \cup {None}
                THEN IF store.syncMode THEN Open(Released(h), EndTask(h), sync, pipe)
                     ELSE Open(store, [task EXCEPT ![h] = [got EXCEPT !.pc = "apply"]], sync, pipe)
                ELSE IF t.at - 1 > t.from - BacktrackDepth
                THEN Open(store, [task EXCEPT ![h] = [got EXCEPT !.at = @ - 1]], sync, pipe)
                ELSE AfterBacktrack(h, t, Released(h))
          \/ Unanswered(h, "back") /\ Raise(h, Released(h))
          \/ WrongAnswer(h, "back") /\ Raise(h, Released(h))
    /\ UNCHANGED <<chain, stage, waiting, lock, leaked, cleared>>

(* A sync in progress loses its target when the notes are cleared.         *)
HasTarget == {"ask", "proof", "validate", "lock", "sync"}
TargetInUse == \E s \in Syncs : sync[s].pc \in HasTarget

(* respond_block for the blocks of a backtrack sync, the oldest first.  A  *)
(* block is ignored in sync mode, which may begin while it waits for the   *)
(* lock; the notes are only cleared out of sync mode.                      *)
RespondBlock(h) ==
    /\ task[h].pc = "apply"
    /\ LET b == Last(task[h].got)
           isLast == Len(task[h].got) = 1
           st == IF isLast THEN Released(h) ELSE store
           rest == IF isLast THEN EndTask(h) ELSE [task EXCEPT ![h].got = Front(@)]
           known == b \in records \/ Prev[b] \notin records \cup {None}
       IN \/ /\ store.syncMode \/ known
             /\ Open(st, rest, sync, pipe)
             /\ UNCHANGED <<chain, cleared>>
          \/ /\ ~known
             /\ lock = None
             /\ b \in Invalid
             /\ Raise(h, Released(h))
             /\ UNCHANGED <<chain, cleared>>
          \/ /\ ~known
             /\ lock = None
             /\ b \notin Invalid
             /\ records' = records \cup {b}
             /\ peak' = IF Weight[b] > Weight[peak] THEN b ELSE peak
             /\ processed' = IF Weight[b] > Weight[peak] THEN b ELSE processed
             /\ LET clear == Height[peak'] % ClearEvery = 0 /\ ~store.syncMode
                IN /\ Open(IF clear THEN ClearSyncInfo(st) ELSE st, rest, sync, pipe)
                   /\ cleared' = (cleared \/ (clear /\ TargetInUse))
             /\ UNCHANGED partial
    /\ UNCHANGED <<stage, waiting, lock, faults, leaked>>

(* Mutant of BatchReleased: the peer stays in batch_syncing.               *)
BatchKept(h) == store
BatchReleased(h) == [store EXCEPT !.batch = @ \ {task[h].peer}]

(* short_sync_batch: is the first block connected to our chain?            *)
BatchFirst(h) ==
    /\ LET t == task[h]
       IN \/ /\ Answered(h, "first")
             /\ IF ~HasHeight(t.peer, t.at) THEN Raise(h, BatchReleased(h))
                ELSE IF Prev[At(Tip(t.peer), t.at)] \notin records THEN SpawnSync(h, BatchReleased(h))
                ELSE IF t.at >= Height[t.tip] THEN Open(BatchReleased(h), EndTask(h), sync, pipe)
                ELSE Open(store, [task EXCEPT ![h].pc = "fetch"], sync, pipe)
             /\ UNCHANGED leaked
          \/ Unanswered(h, "first") /\ Raise(h, BatchReleased(h)) /\ UNCHANGED leaked
          \/ WrongAnswer(h, "first") /\ Raise(h, store) /\ leaked' = leaked \cup {t.peer}
    /\ UNCHANGED <<chain, stage, waiting, lock, cleared>>

BatchEnd(start, target) == Min({target, start + BatchSize})

BatchFetch(h) ==
    /\ LET t == task[h]
           end == BatchEnd(t.at, Height[t.tip])
       IN \/ /\ Answered(h, "fetch")
             /\ IF ~HasHeight(t.peer, end) THEN Raise(h, BatchReleased(h))
                ELSE Open(store,
                          [task EXCEPT ![h] = [t EXCEPT !.pc = "add", !.got = Served(t.peer, t.at, end)]],
                          sync, pipe)
          \/ Unanswered(h, "fetch") /\ Raise(h, BatchReleased(h))
          \/ WrongAnswer(h, "fetch") /\ Raise(h, BatchReleased(h))
    /\ UNCHANGED <<chain, stage, waiting, lock, leaked, cleared>>

(* A batch that fails has moved the peak if some of its blocks were good:  *)
(* the exception passes by the post processing.                            *)
BatchAdd(h) ==
    /\ task[h].pc = "add"
    /\ lock = None
    /\ LET t == task[h]
           r == ReceiveBatch(t.got, -1)
           next == t.at + BatchSize
       IN /\ records' = r.records
          /\ peak' = r.peak
          /\ IF r.ok
             THEN /\ processed' = IF r.peak # peak THEN r.peak ELSE processed
                  /\ UNCHANGED partial
                  /\ IF next >= Height[t.tip] THEN Open(BatchReleased(h), EndTask(h), sync, pipe)
                     ELSE Open(store, [task EXCEPT ![h] = [t EXCEPT !.pc = "fetch", !.at = next, !.got = <<>>]],
                               sync, pipe)
             ELSE /\ partial' = (partial \/ r.peak # peak)
                  /\ UNCHANGED processed
                  /\ Raise(h, BatchReleased(h))
    /\ UNCHANGED <<stage, waiting, lock, faults, leaked, cleared>>

--------------------------------------------------------------------------------
(* The long sync.                                                          *)

(* Mutant of EndSync: the task ends without the rest of _finish_sync.      *)
EndSyncAtOnce(s) == [sync EXCEPT ![s] = IdleSync]

(* The finally of _sync and the first lines of _finish_sync: whatever      *)
(* happened, the flags are cleared before the task waits for the lock.     *)
Finishing(st) == [st EXCEPT !.syncMode = FALSE, !.longSync = FALSE]
EndSync(s) == [sync EXCEPT ![s] = [IdleSync EXCEPT !.pc = "finish"]]

(* An exception; ban holds when the peer that was asked is closed.         *)
RaiseSync(s, st, ban) ==
    IF ban /\ sync[s].live THEN Closed(sync[s].peer, Finishing(st), task, EndSync(s), pipe)
    ELSE Open(Finishing(st), task, EndSync(s), pipe)

MoveTo(s, pc) == [sync EXCEPT ![s].pc = pc]

(* The time for peers to send their peaks is over.  No peak known: an      *)
(* exception.                                                              *)
SelectPeak(s) ==
    /\ sync[s].pc = "wait"
    /\ IF Candidates(store) = {} THEN RaiseSync(s, store, FALSE)
       ELSE \E b \in Blocks :
              /\ IsHeaviest(store, b)
              /\ Open([store EXCEPT !.target = b], task, MoveTo(s, "ask"), pipe)
    /\ cleared' = FALSE
    /\ UNCHANGED <<chain, stage, waiting, lock, faults, leaked>>

(* Every peer is asked for its block at the height of the target, and one  *)
(* of those that have one for a weight proof.                              *)
AskProof(s, answers) ==
    LET st == PeerHasBlock(store, store.target, answers, FALSE)
        withPeak == conn \cap PeersThatHave(st, store.target)
    IN IF withPeak = {} \/ Weight[store.target] <= Weight[peak] THEN RaiseSync(s, st, FALSE)
       ELSE \E p \in withPeak :
              Open(st, task, [sync EXCEPT ![s].pc = "proof", ![s].peer = p, ![s].live = TRUE], pipe)

AskPeers(s) ==
    /\ sync[s].pc = "ask"
    /\ LET having == {p \in conn : HasHeight(p, Height[store.target])}
       IN \/ AskProof(s, having) /\ UNCHANGED faults
          \/ \E p \in having : Fault /\ AskProof(s, having \ {p})
          \/ \E p \in conn : Fault /\ Closed(p, Finishing(store), task, EndSync(s), pipe)
    /\ UNCHANGED <<chain, stage, waiting, lock, leaked, cleared>>

(* The weight proof, of which get_fork_point takes the fork point: at most *)
(* the height at which the chains differ now.                              *)
ReceiveProof(s) ==
    /\ sync[s].pc = "proof"
    /\ LET b == store.target
       IN \/ /\ sync[s].live /\ Has(sync[s].peer, b)
             /\ UNCHANGED faults
             /\ IF Weight[b] <= Weight[peak] THEN RaiseSync(s, store, FALSE)
                ELSE \E f \in 0..ForkHeight(peak, b) :
                       Open(store, task, [sync EXCEPT ![s].pc = "validate", ![s].fork = f], pipe)
          \/ /\ IF sync[s].live /\ Has(sync[s].peer, b) THEN Fault ELSE UNCHANGED faults
             /\ RaiseSync(s, store, TRUE)
    /\ UNCHANGED <<chain, stage, waiting, lock, leaked, cleared>>

ValidateProof(s) ==
    /\ sync[s].pc = "validate"
    /\ Open([store EXCEPT !.syncMode = TRUE], task, MoveTo(s, "lock"), pipe)
    /\ UNCHANGED <<chain, stage, waiting, lock, faults, leaked, cleared>>

(* get_peers_with_peak *)
PeersWithPeak == conn \cap PeersThatHave(store, store.target)

(* check_fork_next_block: the next block of a peer extends our peak.       *)
NextBlockFits == \E p \in PeersWithPeak :
    HasHeight(p, Height[peak] + 1) /\ Prev[At(Tip(p), Height[peak] + 1)] = peak

(* The loop of fetch_block_batches, at its start and after a batch.        *)
FetchFrom(pi, height) ==
    IF height >= Height[store.target]
    THEN [pi EXCEPT !.fetch = "end", !.at = 0, !.peers = {}, !.item = EndMark]
    ELSE [pi EXCEPT !.fetch = "request", !.at = height, !.todo = pi.peers, !.item = EndMark]

StartPipe(s) ==
    /\ sync[s].pc = "lock"
    /\ lock = None
    /\ lock' = s
    /\ \E f \in {sync[s].fork} \cup (IF NextBlockFits THEN {Height[peak]} ELSE {}) :
         Open(store, task, [sync EXCEPT ![s] = [IdleSync EXCEPT !.pc = "sync", !.fork = f]],
              FetchFrom([IdlePipe EXCEPT !.peers = PeersWithPeak], f))
    /\ UNCHANGED <<chain, stage, waiting, faults, leaked, cleared>>

--------------------------------------------------------------------------------
(* fetch_block_batches                                                     *)

FetchBatch(p) ==
    /\ pipe.fetch = "request"
    /\ p \in pipe.todo
    /\ LET end == BatchEnd(pipe.at, Height[store.target])
       IN \/ /\ UNCHANGED faults
             /\ Open(store, task, sync,
                     IF HasHeight(p, end)
                     THEN [pipe EXCEPT !.fetch = "put", !.todo = {}, !.item = [peer |-> p, blocks |-> Served(p, pipe.at, end)]]
                     ELSE [pipe EXCEPT !.todo = @ \ {p}])
          \/ Fault /\ Closed(p, store, task, sync, pipe)
          \/ Fault /\ Closed(p, store, task, sync, [pipe EXCEPT !.fetch = "end", !.todo = {}])
    /\ UNCHANGED <<chain, stage, waiting, lock, leaked, cleared>>

(* Mutant of FetchFails: the end is never signalled.                       *)
FetchFailsSilently ==
    /\ pipe.fetch = "request"
    /\ pipe.todo = {}
    /\ Open(store, task, sync, [pipe EXCEPT !.fetch = "done"])
    /\ UNCHANGED <<chain, stage, waiting, lock, faults, leaked, cleared>>

(* No peer has the batch: the end is signalled here, and again at the end. *)
FetchFails ==
    /\ pipe.fetch = "request"
    /\ pipe.todo = {}
    /\ Open(store, task, sync, [pipe EXCEPT !.fetch = "put"])
    /\ UNCHANGED <<chain, stage, waiting, lock, faults, leaked, cleared>>

Put == pipe.fetch \in {"put", "end"} /\ Len(pipe.queue) < BufferSize
Queued == [pipe EXCEPT !.queue = Append(@, pipe.item)]

PutBatch ==
    /\ Put
    /\ pipe.item # EndMark
    /\ LET refreshed == IF store.changed THEN [Queued EXCEPT !.peers = PeersWithPeak] ELSE Queued
       IN Open([store EXCEPT !.changed = FALSE], task, sync, FetchFrom(refreshed, pipe.at + BatchSize))
    /\ UNCHANGED <<chain, stage, waiting, lock, faults, leaked, cleared>>

PutNone ==
    /\ Put
    /\ pipe.item = EndMark
    /\ Open(store, task, sync, [Queued EXCEPT !.fetch = IF @ = "put" THEN "end" ELSE "done"])
    /\ UNCHANGED <<chain, stage, waiting, lock, faults, leaked, cleared>>

(* validate_block_batches                                                  *)
ValidateBatch(s) ==
    /\ sync[s].pc = "sync"
    /\ ~pipe.validated
    /\ pipe.queue # <<>>
    /\ LET item == Head(pipe.queue)
           rest == [pipe EXCEPT !.queue = Tail(@)]
       IN IF item = EndMark
          THEN Open(store, task, sync, [rest EXCEPT !.validated = TRUE]) /\ UNCHANGED <<chain, lock>>
          ELSE LET r == ReceiveBatch(item.blocks, IF pipe.advanced THEN -1 ELSE sync[s].fork)
               IN /\ records' = r.records
                  /\ peak' = r.peak
                  /\ UNCHANGED <<processed, partial>>
                  /\ IF r.ok
                     THEN /\ Open(store, task, sync, [rest EXCEPT !.advanced = @ \/ r.peak # peak])
                          /\ UNCHANGED lock
                     ELSE /\ lock' = None
                          /\ IF r.raised \/ item.peer \notin conn
                             THEN Open(Finishing(store), task, EndSync(s), IdlePipe)
                             ELSE Closed(item.peer, Finishing(store), task, EndSync(s), IdlePipe)
    /\ UNCHANGED <<stage, waiting, faults, leaked, cleared>>

(* Both tasks have ended: the lock is released.                            *)
EndPipe(s) ==
    /\ sync[s].pc = "sync"
    /\ pipe.validated
    /\ pipe.fetch = "done"
    /\ lock' = None
    /\ Open(Finishing(store), task, EndSync(s), IdlePipe)
    /\ UNCHANGED <<chain, stage, waiting, faults, leaked, cleared>>

(* _finish_sync under the lock.                                            *)
FinishSync(s) ==
    /\ sync[s].pc = "finish"
    /\ lock = None
    /\ Open(ClearSyncInfo(store), task, [sync EXCEPT ![s] = IdleSync], pipe)
    /\ processed' = peak
    /\ cleared' = (cleared \/ TargetInUse)
    /\ UNCHANGED <<peak, records, partial, stage, waiting, lock, faults, leaked>>

--------------------------------------------------------------------------------
HandlerStep(h) ==
    \/ LatePeak(h) \/ AskTarget(h) \/ BacktrackFetch(h) \/ RespondBlock(h)
    \/ BatchFirst(h) \/ BatchFetch(h) \/ BatchAdd(h)

SyncStep(s) ==
    \/ SelectPeak(s) \/ AskPeers(s) \/ ReceiveProof(s) \/ ValidateProof(s)
    \/ StartPipe(s) \/ ValidateBatch(s) \/ EndPipe(s) \/ FinishSync(s)

FetchStep == (\E p \in Peers : FetchBatch(p)) \/ FetchFails \/ PutBatch \/ PutNone

Next ==
    \/ \E p \in Peers : Disconnect(p) \/ Reconnect(p) \/ Advance(p)
    \/ \E h \in Handlers : HandlerStep(h) \/ \E p \in Peers : NewPeak(h, p)
    \/ \E s \in Syncs : SyncStep(s)
    \/ FetchStep

(* The peers whose last peak is the heaviest.                              *)
Best == {p \in Peers : \A q \in Peers : Weight[Last(Journey[q])] <= Weight[Last(Journey[p])]}

(***************************************************************************)
(* The tasks of the event loop run, and a request ends with an answer or   *)
(* at its timeout.  A peer with the heaviest chain comes back, and keeps   *)
(* sending its peak: the 30 s for which a long sync waits are longer than  *)
(* the time between two blocks, so that it hears of this peak now and      *)
(* then.  Nothing is assumed of the other peers.                           *)
(***************************************************************************)
Waiting == \E s \in Syncs : sync[s].pc = "wait"
Fairness ==
    /\ \A h \in Handlers : WF_vars(HandlerStep(h))
    /\ \A s \in Syncs : WF_vars(SyncStep(s))
    /\ WF_vars(FetchStep)
    /\ \A p \in Best :
         /\ WF_vars(Reconnect(p) \/ Advance(p))
         /\ SF_vars(\E h \in Handlers : NewPeak(h, p))
         /\ SF_vars(Waiting /\ \E h \in Handlers : NewPeak(h, p))
         /\ SF_vars(\E s \in Syncs : SelectPeak(s) /\ sync'[s].pc = "ask" /\ store'.target = Tip(p))

Spec == Init /\ [][Next]_vars /\ Fairness

--------------------------------------------------------------------------------
TypeOK ==
    /\ peak \in records /\ processed \in records /\ records \subseteq Blocks
    /\ \A p \in Peers : stage[p] \in DOMAIN Journey[p]
    /\ conn \subseteq Peers
    /\ waiting \subseteq [peer : Peers, tip : Blocks]
    /\ store.peakToPeer \in Seq([hash : Blocks, peers : SUBSET Peers])
    /\ Len(store.peakToPeer) <= MaxPeaks
    /\ store.peerToPeak \in [Peers -> Blocks \cup {None}]
    /\ {store.syncMode, store.longSync, store.changed, cleared, partial} \subseteq BOOLEAN
    /\ store.target \in Blocks \cup {None}
    /\ store.batch \subseteq Peers
    /\ store.backtrack \in [Peers -> Nat]
    /\ \A h \in Handlers : task[h].pc \in {"idle", "ask", "back", "apply", "first", "fetch", "add"}
    /\ \A s \in Syncs : sync[s].pc \in {"idle", "wait", "finish"} \cup HasTarget
    /\ lock \in Syncs \cup {None}
    /\ pipe.fetch \in {"off", "request", "put", "end", "done"}
    /\ Len(pipe.queue) <= BufferSize
    /\ faults \in 0..MaxFaults
    /\ leaked \subseteq Peers

(***************************************************************************)
(* The flags of the SyncStore belong to the one long sync that runs, also  *)
(* while an earlier one still finishes: long_sync from its start, and      *)
(* sync_mode once it has a valid proof, with the lock only in its hands.   *)
(***************************************************************************)
FlagsMatch ==
    LET running == {s \in Syncs : sync[s].pc \in {"wait"} \cup HasTarget}
    IN /\ Cardinality(running) = (IF store.longSync THEN 1 ELSE 0)
       /\ store.syncMode = (\E s \in running : sync[s].pc \in {"lock", "sync"})
       /\ \A s \in Syncs : lock = s <=> sync[s].pc = "sync"

(***************************************************************************)
(* batch_syncing and backtrack_syncing name the peers that some handler    *)
(* syncs from, whatever that handler met; a peer that answered the first   *)
(* request of a batch sync with a message of the wrong type is left in     *)
(* batch_syncing.                                                          *)
(***************************************************************************)
SyncingReleased ==
    /\ store.batch = leaked \cup {task[h].peer : h \in {k \in Handlers : task[k].pc \in {"first", "fetch", "add"}}}
    /\ \A p \in Peers :
         store.backtrack[p] = Cardinality({h \in Handlers : task[h].pc \in {"back", "apply"} /\ task[h].peer = p})

(***************************************************************************)
(* The peak of the chain has been through peak_post_processing, which      *)
(* brings the mempool after it, unless a long sync has moved it and has    *)
(* not finished, or a batch failed half way.                               *)
(***************************************************************************)
PostProcessed ==
    \/ processed = peak
    \/ \E s \in Syncs : sync[s].pc \in {"sync", "finish"}
    \/ partial

(***************************************************************************)
(* The peers of the block that a long sync goes to are not forgotten, at   *)
(* the limit of peak_to_peer and otherwise, unless another task called     *)
(* clear_sync_info; and the limit is kept.                                 *)
(***************************************************************************)
TargetKept ==
    /\ TargetInUse => store.target \in Known(store) \/ cleared
    /\ Len(store.peakToPeer) <= MaxPeaks

(* Every long sync ends, also when peers fail or hand in invalid blocks.   *)
LongSyncEnds == store.longSync ~> ~store.longSync

(***************************************************************************)
(* A long sync that is over clears the notes of the peers' peaks while the *)
(* next one runs already: _finish_sync resets the flags before it waits    *)
(* for the lock.                                                           *)
(***************************************************************************)
ClearsNextSync == store.longSync /\ \E s \in Syncs : FinishSync(s)

(***************************************************************************)
(* With faults that come to an end, and a peer that keeps sending the      *)
(* heaviest peak, the node gets to that peak, if it is also the highest    *)
(* and its peer was not left in batch_syncing; unless long syncs overlap   *)
(* again and again, each clearing the notes of the next.                   *)
(***************************************************************************)
IsHighest == \A p \in Best : \A b \in Ancestors(StartPeak) \cup {Last(Journey[q]) : q \in Peers \ Best} :
    Height[b] < Height[Last(Journey[p])]
CaughtUp == \A p \in Best : Weight[peak] >= Weight[Tip(p)]
CatchesUp ==
    IsHighest => <>[](CaughtUp \/ leaked # {}) \/ []<><<ClearsNextSync>>_vars
================================================================================
