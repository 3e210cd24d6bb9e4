-------------------------------- MODULE SyncProofs ------------------------------
(***************************************************************************)
(* What the tasks that follow the peers keep true of the notes they share, *)
(* for any number of peers, handlers and blocks, and any faults.           *)
(***************************************************************************)
EXTENDS Sync, FiniteSetTheorems, SequenceTheorems, TLAPS

--------------------------------------------------------------------------------
(* The shape of the state, as far as the proofs need it.                   *)

Entries == [hash : Blocks, peers : SUBSET Peers]
StoreFields == {"peakToPeer", "peerToPeak", "syncMode", "longSync", "target", "changed",
                "batch", "backtrack"}
TaskFields == {"pc", "peer", "live", "tip", "from", "at", "got"}
SyncFields == {"pc", "peer", "live", "fork"}

StoreOK(st) ==
    /\ st = [f \in StoreFields |-> st[f]]
    /\ st.peakToPeer \in Seq(Entries)
    /\ Len(st.peakToPeer) <= MaxPeaks
    /\ st.syncMode \in BOOLEAN /\ st.longSync \in BOOLEAN
    /\ st.batch \subseteq Peers
    /\ st.backtrack \in [Peers -> Int]

TasksOK(ts) ==
    /\ ts = [h \in Handlers |-> ts[h]]
    /\ \A h \in Handlers :
         /\ ts[h] = [f \in TaskFields |-> ts[h][f]]
         /\ ts[h].pc # "idle" => ts[h].peer \in Peers
         /\ ts[h].pc = "ask" => ts[h].got[1] \in Blocks

SyncsOK(ss) ==
    /\ ss = [s \in Syncs |-> ss[s]]
    /\ \A s \in Syncs : ss[s] = [f \in SyncFields |-> ss[s][f]]

--------------------------------------------------------------------------------
(* The inductive invariant, of the values that the variables have or will  *)
(* have.                                                                   *)

Running == {"wait"} \cup HasTarget

(* At most one long sync runs, and the flags are its.                      *)
FlagsOK(st, ss, lk) ==
    /\ \A r, s \in Syncs : ss[r].pc \in Running /\ ss[s].pc \in Running => r = s
    /\ st.longSync <=> \E s \in Syncs : ss[s].pc \in Running
    /\ st.syncMode <=> \E s \in Syncs : ss[s].pc \in {"lock", "sync"}
    /\ \A s \in Syncs : lk = s <=> ss[s].pc = "sync"

Batching(ts) == {h \in Handlers : ts[h].pc \in {"first", "fetch", "add"}}
Backtracking(ts, p) == {h \in Handlers : ts[h].pc \in {"back", "apply"} /\ ts[h].peer = p}

(* Two handlers never batch-sync from one peer, nor does one from a peer   *)
(* that was left in batch_syncing: what a handler gives back is its own.   *)
ReleasedOK(st, ts, lost) ==
    /\ st.batch = lost \cup {ts[h].peer : h \in Batching(ts)}
    /\ \A h, k \in Batching(ts) : ts[h].peer = ts[k].peer => h = k
    /\ \A h \in Batching(ts) : ts[h].peer \notin lost
    /\ \A p \in Peers : st.backtrack[p] = Cardinality(Backtracking(ts, p))

TargetOK(st, ss, cl) ==
    \A s \in Syncs : ss[s].pc \in HasTarget =>
      st.target \in Blocks /\ (st.target \in Known(st) \/ cl)

PostOK(ss, done) == done \/ \E s \in Syncs : ss[s].pc \in {"sync", "finish"}

Good(st, ts, ss, lk, lost, cl, done) ==
    /\ StoreOK(st) /\ TasksOK(ts) /\ SyncsOK(ss)
    /\ FlagsOK(st, ss, lk)
    /\ ReleasedOK(st, ts, lost)
    /\ TargetOK(st, ss, cl)
    /\ PostOK(ss, done)

Done == processed = peak \/ partial

(* What comes from outside.                                                *)
PeersOK ==
    /\ conn \subseteq Peers
    /\ stage \in [Peers -> Nat]
    /\ \A p \in Peers : stage[p] \in 1..Len(Journey[p])
    /\ waiting \subseteq [peer : Peers, tip : Blocks]

Inv == PeersOK /\ Good(store, task, sync, lock, leaked, cleared, Done)

--------------------------------------------------------------------------------
(* The operations of the SyncStore.                                        *)

(* Of what the proofs look at, s and t differ at most in peak_to_peer,     *)
(* where t keeps the target.                                               *)
KeepsTarget(s, t) == s.target \in Known(s) => s.target \in Known(t)
Alike(s, t) ==
    /\ StoreOK(t)
    /\ t.syncMode = s.syncMode /\ t.longSync = s.longSync /\ t.target = s.target
    /\ t.batch = s.batch /\ t.backtrack = s.backtrack

(* The limit is kept, and the target stays where it was known.             *)
LEMMA EvictedKeeps ==
    ASSUME NEW seq \in Seq(Entries), Len(seq) <= MaxPeaks + 1, NEW target
    PROVE  /\ Evicted(seq, target) \in Seq(Entries)
           /\ Len(Evicted(seq, target)) <= MaxPeaks
           /\ \A i \in DOMAIN seq : seq[i].hash = target =>
                \E j \in DOMAIN Evicted(seq, target) : Evicted(seq, target)[j].hash = target
<1>0. MaxPeaks \in Nat \ {0}
    BY SyncAssumption
<1>1. CASE Len(seq) <= MaxPeaks
    BY <1>1 DEF Evicted
<1>2. CASE Len(seq) = MaxPeaks + 1 /\ Head(seq).hash = target
  <2>1. /\ Tail(seq) \in Seq(Entries) /\ Len(Tail(seq)) = MaxPeaks
        /\ Tail(Tail(seq)) \in Seq(Entries) /\ Len(Tail(Tail(seq))) = MaxPeaks - 1
        /\ Head(seq) \in Entries
    <3>1. seq # <<>> /\ Tail(seq) \in Seq(Entries) /\ Len(Tail(seq)) = MaxPeaks /\ Head(seq) \in Entries
        BY <1>0, <1>2
    <3>2. Tail(seq) # <<>>
        BY <1>0, <3>1
    <3>3. Tail(Tail(seq)) \in Seq(Entries) /\ Len(Tail(Tail(seq))) = MaxPeaks - 1
        BY <1>0, <3>1, <3>2, HeadTailProperties
    <3>4. QED
        BY <3>1, <3>3
  <2>2. Evicted(seq, target) = Append(Tail(Tail(seq)), Head(seq))
      BY <1>0, <1>2 DEF Evicted
  <2>3. /\ Evicted(seq, target) \in Seq(Entries) /\ Len(Evicted(seq, target)) = MaxPeaks
        /\ Evicted(seq, target)[MaxPeaks] = Head(seq)
      BY <1>0, <2>1, <2>2
  <2>4. QED
      BY <1>0, <1>2, <2>3
<1>3. CASE Len(seq) = MaxPeaks + 1 /\ Head(seq).hash # target
  <2>1. Evicted(seq, target) = Tail(seq)
      BY <1>0, <1>3 DEF Evicted
  <2>2. /\ Tail(seq) \in Seq(Entries) /\ Len(Tail(seq)) = MaxPeaks
        /\ \A i \in 2..Len(seq) : Tail(seq)[i - 1] = seq[i]
      BY <1>0, <1>3
  <2>3. ASSUME NEW i \in DOMAIN seq, seq[i].hash = target
        PROVE  \E j \in DOMAIN Tail(seq) : Tail(seq)[j].hash = target
    <3>1. i \in 2..Len(seq)
        BY <1>3, <2>3
    <3>2. i - 1 \in DOMAIN Tail(seq)
        BY <1>0, <1>3, <2>2, <3>1
    <3>3. QED
        BY <2>2, <2>3, <3>1, <3>2
  <2>4. QED
      BY <1>0, <2>1, <2>2, <2>3
<1>4. QED
    BY <1>0, <1>1, <1>2, <1>3

(* A function on 1..n is a sequence.                                       *)
LEMMA FunctionIsSequence ==
    ASSUME NEW S, NEW n \in Nat, NEW f \in [1..n -> S]
    PROVE  f \in Seq(S) /\ Len(f) = n
<1>1. f \in Seq(S)
    BY SeqDef
<1>2. QED
    BY <1>1, LenProperties

(* Changing the peers of entries leaves the blocks that are known.         *)
LEMMA EntryKeeps ==
    ASSUME NEW e \in Entries, NEW ps \in SUBSET Peers
    PROVE  /\ [e EXCEPT !.peers = ps] \in Entries
           /\ [e EXCEPT !.peers = ps].hash = e.hash
           /\ e.peers \in SUBSET Peers
    BY DEF Entries

LEMMA NotedKeeps ==
    ASSUME NEW seq \in Seq(Entries), NEW b, NEW ps \in SUBSET Peers
    PROVE  /\ Noted(seq, b, ps) \in Seq(Entries)
           /\ Len(Noted(seq, b, ps)) = Len(seq)
           /\ \A i \in DOMAIN seq : Noted(seq, b, ps)[i].hash = seq[i].hash
<1> DEFINE entry(e) == [e EXCEPT !.peers = e.peers \cup ps]
           new(i) == IF seq[i].hash = b THEN entry(seq[i]) ELSE seq[i]
<1>1. ASSUME NEW i \in DOMAIN seq
      PROVE  new(i) \in Entries /\ new(i).hash = seq[i].hash
  <2>1. seq[i] \in Entries
      BY ElementOfSeq, LenProperties
  <2>2. seq[i].peers \cup ps \in SUBSET Peers
      BY <2>1, EntryKeeps
  <2>3. entry(seq[i]) \in Entries /\ entry(seq[i]).hash = seq[i].hash
      BY <2>1, <2>2, EntryKeeps
  <2>4. QED
      BY <2>1, <2>3
<1> HIDE DEF new
<1>2. Noted(seq, b, ps) = [i \in DOMAIN seq |-> new(i)]
    BY DEF Noted, new
<1>3. DOMAIN seq = 1..Len(seq) /\ Len(seq) \in Nat
    BY LenProperties
<1>4. Noted(seq, b, ps) \in [1..Len(seq) -> Entries]
    BY <1>1, <1>2, <1>3
<1>5. QED
    BY <1>1, <1>2, <1>3, <1>4, FunctionIsSequence

LEMMA ForgottenKeeps ==
    ASSUME NEW seq \in Seq(Entries), NEW p
    PROVE  /\ Forgotten(seq, p) \in Seq(Entries)
           /\ Len(Forgotten(seq, p)) = Len(seq)
           /\ \A i \in DOMAIN seq : Forgotten(seq, p)[i].hash = seq[i].hash
<1> DEFINE new(i) == [seq[i] EXCEPT !.peers = seq[i].peers \ {p}]
<1>1. ASSUME NEW i \in DOMAIN seq
      PROVE  new(i) \in Entries /\ new(i).hash = seq[i].hash
  <2>1. seq[i] \in Entries
      BY ElementOfSeq, LenProperties
  <2>2. seq[i].peers \ {p} \in SUBSET Peers
      BY <2>1, EntryKeeps
  <2>3. QED
      BY <2>1, <2>2, EntryKeeps
<1> HIDE DEF new
<1>2. Forgotten(seq, p) = [i \in DOMAIN seq |-> new(i)]
    BY DEF Forgotten, new
<1>3. DOMAIN seq = 1..Len(seq) /\ Len(seq) \in Nat
    BY LenProperties
<1>4. Forgotten(seq, p) \in [1..Len(seq) -> Entries]
    BY <1>1, <1>2, <1>3
<1>5. QED
    BY <1>1, <1>2, <1>3, <1>4, FunctionIsSequence

LEMMA PeerHasBlockKeeps ==
    ASSUME NEW st, StoreOK(st), NEW b \in Blocks, NEW ps \in SUBSET Peers, NEW isNewPeak
    PROVE  /\ Alike(st, PeerHasBlock(st, b, ps, isNewPeak))
           /\ KeepsTarget(st, PeerHasBlock(st, b, ps, isNewPeak))
<1> DEFINE t == PeerHasBlock(st, b, ps, isNewPeak)
           entry == [hash |-> b, peers |-> ps]
           old == st.peakToPeer
<1>1. CASE ps = {}
    BY <1>1 DEF PeerHasBlock, Alike, KeepsTarget
<1>2. CASE ps # {}
  <2>1. /\ t = [f \in StoreFields |-> t[f]]
        /\ t.syncMode = st.syncMode /\ t.longSync = st.longSync /\ t.target = st.target
        /\ t.batch = st.batch /\ t.backtrack = st.backtrack
        /\ t.peakToPeer = IF b \in Known(st) THEN Noted(old, b, ps)
                          ELSE Evicted(Append(old, entry), st.target)
      BY <1>2 DEF PeerHasBlock, StoreOK, StoreFields
  <2>2. old \in Seq(Entries) /\ Len(old) <= MaxPeaks /\ Len(old) \in Nat /\ MaxPeaks \in Nat
      BY SyncAssumption DEF StoreOK
  <2>3. CASE b \in Known(st)
    <3>1. /\ t.peakToPeer \in Seq(Entries) /\ Len(t.peakToPeer) = Len(old)
          /\ \A i \in DOMAIN old : t.peakToPeer[i].hash = old[i].hash
        BY <2>1, <2>2, <2>3, NotedKeeps
    <3>2. DOMAIN t.peakToPeer = DOMAIN old
        BY <2>2, <3>1
    <3>3. QED
        BY <2>1, <2>2, <3>1, <3>2 DEF Alike, KeepsTarget, StoreOK, Known
  <2>4. CASE b \notin Known(st)
    <3>1. entry \in Entries
        BY DEF Entries
    <3> DEFINE more == Append(old, entry)
    <3>2. /\ more \in Seq(Entries)
          /\ Len(more) <= MaxPeaks + 1
          /\ \A i \in DOMAIN old : i \in DOMAIN more /\ more[i] = old[i]
        BY <2>2, <3>1
    <3>3. t.peakToPeer = Evicted(more, st.target)
        BY <2>1, <2>4
    <3> HIDE DEF more, t
    <3>5. /\ t.peakToPeer \in Seq(Entries)
          /\ Len(t.peakToPeer) <= MaxPeaks
          /\ \A i \in DOMAIN more : more[i].hash = st.target =>
                \E j \in DOMAIN t.peakToPeer : t.peakToPeer[j].hash = st.target
        BY <3>2, <3>3, EvictedKeeps
    <3>6. Alike(st, t) /\ KeepsTarget(st, t)
        BY <2>1, <3>2, <3>5 DEF Alike, KeepsTarget, StoreOK, Known
    <3>7. QED
        BY <3>6 DEF t
  <2>5. QED
      BY <2>3, <2>4
<1>3. QED
    BY <1>1, <1>2

LEMMA PeerDisconnectedKeeps ==
    ASSUME NEW st, StoreOK(st), NEW p
    PROVE  /\ Alike(st, PeerDisconnected(st, p))
           /\ Known(PeerDisconnected(st, p)) = Known(st)
<1> DEFINE t == PeerDisconnected(st, p)
           old == st.peakToPeer
<1>1. /\ t = [f \in StoreFields |-> t[f]]
      /\ t.syncMode = st.syncMode /\ t.longSync = st.longSync /\ t.target = st.target
      /\ t.batch = st.batch /\ t.backtrack = st.backtrack
      /\ t.peakToPeer = Forgotten(old, p)
    BY DEF PeerDisconnected, StoreOK, StoreFields
<1>2. /\ t.peakToPeer \in Seq(Entries) /\ Len(t.peakToPeer) = Len(old)
      /\ \A i \in DOMAIN old : t.peakToPeer[i].hash = old[i].hash
      /\ old \in Seq(Entries)
    BY <1>1, ForgottenKeeps DEF StoreOK
<1>3. DOMAIN t.peakToPeer = DOMAIN old
    BY <1>2
<1>4. QED
    BY <1>1, <1>2, <1>3 DEF Alike, StoreOK, Known

--------------------------------------------------------------------------------
(* How a step ends: connections stay as they are, or one is closed.        *)

LEMMA OpenKeeps ==
    ASSUME NEW st, NEW ts, NEW ss, NEW pi, Open(st, ts, ss, pi),
           Good(st, ts, ss, lock', leaked', cleared', Done')
    PROVE  Good(store, task, sync, lock, leaked, cleared, Done)' /\ conn' \subseteq conn
    BY DEF Open

LEMMA ClosedKeeps ==
    ASSUME NEW p, NEW st, NEW ts, NEW ss, NEW pi, Closed(p, st, ts, ss, pi),
           Good(st, ts, ss, lock', leaked', cleared', Done')
    PROVE  Good(store, task, sync, lock, leaked, cleared, Done)' /\ conn' \subseteq conn
<1>1. Alike(st, store') /\ Known(store') = Known(st)
    BY PeerDisconnectedKeeps DEF Closed, Good
<1>2. /\ TasksOK(task')
      /\ \A h \in Handlers : task'[h].pc = ts[h].pc /\ task'[h].peer = ts[h].peer
  <2>1. \A h \in Handlers : task'[h] = IF ts[h].peer = p THEN [ts[h] EXCEPT !.live = FALSE] ELSE ts[h]
      BY DEF Closed
  <2>2. task' = [h \in Handlers |-> task'[h]]
      BY DEF Closed
  <2>3. QED
      BY <2>1, <2>2 DEF Good, TasksOK, TaskFields
<1>3. SyncsOK(sync') /\ \A s \in Syncs : sync'[s].pc = ss[s].pc
  <2>1. \A s \in Syncs : sync'[s] = IF ss[s].peer = p THEN [ss[s] EXCEPT !.live = FALSE] ELSE ss[s]
      BY DEF Closed
  <2>2. sync' = [s \in Syncs |-> sync'[s]]
      BY DEF Closed
  <2>3. QED
      BY <2>1, <2>2 DEF Good, SyncsOK, SyncFields
<1>4. FlagsOK(store', sync', lock')
    BY <1>1, <1>3 DEF Good, FlagsOK, Alike
<1>5. ReleasedOK(store', task', leaked')
  <2>1. /\ Batching(task') = Batching(ts)
        /\ \A q : Backtracking(task', q) = Backtracking(ts, q)
      BY <1>2 DEF Batching, Backtracking
  <2>2. \A h \in Batching(ts) : task'[h].peer = ts[h].peer
      BY <1>2 DEF Batching
  <2>3. QED
      BY <1>1, <2>1, <2>2 DEF Good, ReleasedOK, Alike
<1>6. TargetOK(store', sync', cleared')
    BY <1>1, <1>3 DEF Good, TargetOK, Alike
<1>7. PostOK(sync', Done')
    BY <1>3 DEF Good, PostOK
<1>8. conn' \subseteq conn
    BY DEF Closed
<1>9. QED
    BY <1>1, <1>2, <1>3, <1>4, <1>5, <1>6, <1>7, <1>8 DEF Good, Alike

--------------------------------------------------------------------------------
(* What a handler notes and gives back.                                    *)

TaskOK(t) ==
    /\ t = [f \in TaskFields |-> t[f]]
    /\ t.pc # "idle" => t.peer \in Peers
    /\ t.pc = "ask" => t.got[1] \in Blocks

IsBatch(t) == t.pc \in {"first", "fetch", "add"}
IsBacktrack(t) == t.pc \in {"back", "apply"}

LEMMA IdleTaskOK == TaskOK(IdleTask) /\ ~IsBatch(IdleTask) /\ ~IsBacktrack(IdleTask)
    BY DEF TaskOK, IdleTask, TaskFields, IsBatch, IsBacktrack

LEMMA TaskUpdate ==
    ASSUME NEW ts, TasksOK(ts), NEW h \in Handlers, NEW t, TaskOK(t)
    PROVE  /\ TasksOK([ts EXCEPT ![h] = t])
           /\ [ts EXCEPT ![h] = t][h] = t
           /\ \A k \in Handlers \ {h} : [ts EXCEPT ![h] = t][k] = ts[k]
    BY DEF TasksOK, TaskOK

(* The handler keeps what it has noted.                                    *)
LEMMA ReleasedSame ==
    ASSUME NEW st, NEW u, NEW ts, TasksOK(ts), NEW lost, ReleasedOK(st, ts, lost),
           NEW h \in Handlers, NEW t, TaskOK(t),
           IsBatch(t) = IsBatch(ts[h]), IsBacktrack(t) = IsBacktrack(ts[h]),
           IsBatch(t) \/ IsBacktrack(t) => t.peer = ts[h].peer,
           u.batch = st.batch, u.backtrack = st.backtrack
    PROVE  ReleasedOK(u, [ts EXCEPT ![h] = t], lost)
<1> DEFINE new == [ts EXCEPT ![h] = t]
<1>1. new[h] = t /\ \A k \in Handlers \ {h} : new[k] = ts[k]
    BY DEF TasksOK
<1> HIDE DEF new
<1>2. Batching(new) = Batching(ts) /\ \A k \in Batching(ts) : new[k].peer = ts[k].peer
    BY <1>1 DEF Batching, IsBatch
<1>3. \A p : Backtracking(new, p) = Backtracking(ts, p)
    BY <1>1 DEF Backtracking, IsBacktrack
<1>4. ReleasedOK(u, new, lost)
    BY <1>2, <1>3 DEF ReleasedOK
<1>5. QED
    BY <1>4 DEF new

(* The end of a batch sync: the peer is given back, or left behind.        *)
LEMMA ReleasedBatch ==
    ASSUME NEW st, NEW u, NEW ts, TasksOK(ts), NEW lost, NEW more, ReleasedOK(st, ts, lost),
           NEW h \in Handlers, IsBatch(ts[h]), u.backtrack = st.backtrack,
           \/ u.batch = st.batch \ {ts[h].peer} /\ more = lost
           \/ u.batch = st.batch /\ more = lost \cup {ts[h].peer}
    PROVE  ReleasedOK(u, [ts EXCEPT ![h] = IdleTask], more)
<1> DEFINE new == [ts EXCEPT ![h] = IdleTask]
<1>1. new[h] = IdleTask /\ \A k \in Handlers \ {h} : new[k] = ts[k]
    BY DEF TasksOK
<1> HIDE DEF new
<1>2. Batching(new) = Batching(ts) \ {h} /\ h \in Batching(ts)
    BY <1>1, IdleTaskOK DEF Batching, IsBatch
<1>3. \A k \in Batching(new) : new[k].peer = ts[k].peer /\ ts[k].peer # ts[h].peer /\ k \in Batching(ts)
    BY <1>1, <1>2 DEF Batching, ReleasedOK
<1>4. \A p : Backtracking(new, p) = Backtracking(ts, p)
    BY <1>1, IdleTaskOK DEF Backtracking, IsBacktrack, IsBatch
<1>5. {ts[k].peer : k \in Batching(ts)} = {new[k].peer : k \in Batching(new)} \cup {ts[h].peer}
    BY <1>2, <1>3
<1>6. ts[h].peer \notin lost /\ ts[h].peer \notin {new[k].peer : k \in Batching(new)}
    BY <1>2, <1>3 DEF ReleasedOK
<1>7. u.batch = more \cup {new[k].peer : k \in Batching(new)}
    BY <1>5, <1>6 DEF ReleasedOK
<1>8. \A k \in Batching(new) : new[k].peer \notin more
    BY <1>3 DEF ReleasedOK
<1>9. ReleasedOK(u, new, more)
    BY <1>3, <1>4, <1>7, <1>8 DEF ReleasedOK
<1>10. QED
    BY <1>9 DEF new

(* The start of a batch sync.                                              *)
LEMMA ClaimedBatch ==
    ASSUME NEW st, NEW u, NEW ts, TasksOK(ts), NEW lost, ReleasedOK(st, ts, lost),
           NEW h \in Handlers, ~IsBatch(ts[h]), ~IsBacktrack(ts[h]),
           NEW t, TaskOK(t), IsBatch(t), t.peer \notin st.batch,
           u.batch = st.batch \cup {t.peer}, u.backtrack = st.backtrack
    PROVE  ReleasedOK(u, [ts EXCEPT ![h] = t], lost)
<1> DEFINE new == [ts EXCEPT ![h] = t]
<1>1. new[h] = t /\ \A k \in Handlers \ {h} : new[k] = ts[k]
    BY DEF TasksOK
<1> HIDE DEF new
<1>2. Batching(new) = Batching(ts) \cup {h} /\ h \notin Batching(ts)
    BY <1>1 DEF Batching, IsBatch
<1>3. \A k \in Batching(ts) : new[k].peer = ts[k].peer /\ ts[k].peer # t.peer
    BY <1>1, <1>2 DEF Batching, ReleasedOK
<1>4. \A p : Backtracking(new, p) = Backtracking(ts, p)
    BY <1>1 DEF Backtracking, IsBacktrack, IsBatch
<1>5. {new[k].peer : k \in Batching(new)} = {ts[k].peer : k \in Batching(ts)} \cup {t.peer}
    BY <1>1, <1>2, <1>3
<1>6. ReleasedOK(u, new, lost)
    BY <1>1, <1>2, <1>3, <1>4, <1>5 DEF ReleasedOK
<1>7. QED
    BY <1>6 DEF new

(* The start of a backtrack sync.                                          *)
LEMMA ClaimedBacktrack ==
    ASSUME NEW st, StoreOK(st), NEW u, NEW ts, TasksOK(ts), NEW lost, ReleasedOK(st, ts, lost),
           NEW h \in Handlers, ~IsBatch(ts[h]), ~IsBacktrack(ts[h]),
           NEW t, TaskOK(t), IsBacktrack(t),
           u.batch = st.batch, u.backtrack = [st.backtrack EXCEPT ![t.peer] = @ + 1]
    PROVE  ReleasedOK(u, [ts EXCEPT ![h] = t], lost)
<1> DEFINE new == [ts EXCEPT ![h] = t]
<1>1. new[h] = t /\ \A k \in Handlers \ {h} : new[k] = ts[k]
    BY DEF TasksOK
<1> HIDE DEF new
<1>2. Batching(new) = Batching(ts) /\ \A k \in Batching(ts) : new[k].peer = ts[k].peer
    BY <1>1 DEF Batching, IsBatch, IsBacktrack
<1>3. /\ \A p : p # t.peer => Backtracking(new, p) = Backtracking(ts, p)
      /\ Backtracking(new, t.peer) = Backtracking(ts, t.peer) \cup {h}
      /\ h \notin Backtracking(ts, t.peer)
    BY <1>1 DEF Backtracking, IsBacktrack
<1>4. Cardinality(Backtracking(new, t.peer)) = Cardinality(Backtracking(ts, t.peer)) + 1
  <2>1. IsFiniteSet(Backtracking(ts, t.peer))
      BY SyncAssumption, FS_Subset DEF Backtracking
  <2>2. QED
      BY <1>3, <2>1, FS_AddElement
<1>5. t.peer \in Peers /\ \A p \in Peers : u.backtrack[p] = Cardinality(Backtracking(new, p))
    BY <1>3, <1>4 DEF ReleasedOK, StoreOK, TaskOK, IsBacktrack
<1>6. ReleasedOK(u, new, lost)
    BY <1>2, <1>5 DEF ReleasedOK
<1>7. QED
    BY <1>6 DEF new

(* The end of a backtrack sync.                                            *)
LEMMA ReleasedBacktrack ==
    ASSUME NEW st, StoreOK(st), NEW u, NEW ts, TasksOK(ts), NEW lost, ReleasedOK(st, ts, lost),
           NEW h \in Handlers, IsBacktrack(ts[h]),
           u.batch = st.batch, u.backtrack = [st.backtrack EXCEPT ![ts[h].peer] = @ - 1]
    PROVE  ReleasedOK(u, [ts EXCEPT ![h] = IdleTask], lost)
<1> DEFINE new == [ts EXCEPT ![h] = IdleTask]
           p == ts[h].peer
<1>1. new[h] = IdleTask /\ \A k \in Handlers \ {h} : new[k] = ts[k]
    BY DEF TasksOK
<1> HIDE DEF new
<1>2. Batching(new) = Batching(ts) /\ \A k \in Batching(ts) : new[k].peer = ts[k].peer
    BY <1>1, IdleTaskOK DEF Batching, IsBatch, IsBacktrack
<1>3. /\ \A q : q # p => Backtracking(new, q) = Backtracking(ts, q)
      /\ Backtracking(new, p) = Backtracking(ts, p) \ {h}
      /\ h \in Backtracking(ts, p)
    BY <1>1, IdleTaskOK DEF Backtracking, IsBacktrack
<1>4. Cardinality(Backtracking(new, p)) = Cardinality(Backtracking(ts, p)) - 1
  <2>1. IsFiniteSet(Backtracking(ts, p))
      BY SyncAssumption, FS_Subset DEF Backtracking
  <2>2. QED
      BY <1>3, <2>1, FS_RemoveElement
<1>5. p \in Peers /\ \A q \in Peers : u.backtrack[q] = Cardinality(Backtracking(new, q))
    BY <1>3, <1>4 DEF ReleasedOK, StoreOK, TasksOK, IsBacktrack
<1>6. ReleasedOK(u, new, lost)
    BY <1>2, <1>5 DEF ReleasedOK
<1>7. QED
    BY <1>6 DEF new

--------------------------------------------------------------------------------
(* The ways on of a handler.                                               *)

(* The long syncs do not see what the handlers do with the other notes.    *)
LEMMA HandlerKeeps ==
    ASSUME NEW st, NEW ts, NEW lost, NEW u, NEW vs, NEW more, NEW ss, NEW lk, NEW cl, NEW done,
           Good(st, ts, ss, lk, lost, cl, done),
           StoreOK(u), TasksOK(vs), ReleasedOK(u, vs, more),
           u.syncMode = st.syncMode, u.longSync = st.longSync, u.target = st.target,
           KeepsTarget(st, u)
    PROVE  Good(u, vs, ss, lk, more, cl, done)
<1>1. FlagsOK(u, ss, lk)
    BY DEF Good, FlagsOK
<1>2. TargetOK(u, ss, cl)
    BY DEF Good, TargetOK, KeepsTarget
<1>3. QED
    BY <1>1, <1>2 DEF Good

GoodFor(st, ts, ss) == Good(st, ts, ss, lock, leaked, cleared, Done)

LEMMA TaskKeeps ==
    ASSUME NEW st, NEW ss, GoodFor(st, task, ss), NEW h \in Handlers, NEW t, TaskOK(t),
           IsBatch(t) = IsBatch(task[h]), IsBacktrack(t) = IsBacktrack(task[h]),
           IsBatch(t) \/ IsBacktrack(t) => t.peer = task[h].peer
    PROVE  GoodFor(st, [task EXCEPT ![h] = t], ss)
<1>1. TasksOK(task) /\ ReleasedOK(st, task, leaked) /\ StoreOK(st)
    BY DEF GoodFor, Good
<1>2. TasksOK([task EXCEPT ![h] = t])
    BY <1>1, TaskUpdate
<1>3. ReleasedOK(st, [task EXCEPT ![h] = t], leaked)
    BY <1>1, ReleasedSame
<1>4. QED
    BY <1>1, <1>2, <1>3, HandlerKeeps DEF GoodFor, KeepsTarget

LEMMA EndIdleKeeps ==
    ASSUME NEW st, GoodFor(st, task, sync), NEW h \in Handlers,
           ~IsBatch(task[h]), ~IsBacktrack(task[h])
    PROVE  GoodFor(st, EndTask(h), sync)
<1>1. /\ IsBatch(IdleTask) = IsBatch(task[h]) /\ IsBacktrack(IdleTask) = IsBacktrack(task[h])
      /\ ~(IsBatch(IdleTask) \/ IsBacktrack(IdleTask))
    BY IdleTaskOK DEF IsBatch, IsBacktrack
<1>2. QED
    BY <1>1, TaskKeeps, IdleTaskOK DEF EndTask

LEMMA EndBatchKeeps ==
    ASSUME GoodFor(store, task, sync), NEW h \in Handlers, IsBatch(task[h])
    PROVE  /\ GoodFor(BatchReleased(h), EndTask(h), sync)
           /\ Good(store, EndTask(h), sync, lock, leaked \cup {task[h].peer}, cleared, Done)
<1>1. TasksOK(task) /\ ReleasedOK(store, task, leaked) /\ StoreOK(store)
    BY DEF GoodFor, Good
<1>2. TasksOK(EndTask(h))
    BY <1>1, TaskUpdate, IdleTaskOK DEF EndTask
<1>3. /\ StoreOK(BatchReleased(h))
      /\ BatchReleased(h).peakToPeer = store.peakToPeer
      /\ BatchReleased(h).batch = store.batch \ {task[h].peer}
      /\ BatchReleased(h).backtrack = store.backtrack
      /\ BatchReleased(h).syncMode = store.syncMode
      /\ BatchReleased(h).longSync = store.longSync
      /\ BatchReleased(h).target = store.target
    BY <1>1 DEF BatchReleased, StoreOK, StoreFields
<1>4. KeepsTarget(store, BatchReleased(h)) /\ KeepsTarget(store, store)
    BY <1>3 DEF KeepsTarget, Known
<1>5. ReleasedOK(BatchReleased(h), EndTask(h), leaked)
    BY <1>1, <1>3, ReleasedBatch DEF EndTask
<1>6. ReleasedOK(store, EndTask(h), leaked \cup {task[h].peer})
    BY <1>1, ReleasedBatch DEF EndTask
<1>7. GoodFor(BatchReleased(h), EndTask(h), sync)
    BY <1>2, <1>3, <1>4, <1>5, HandlerKeeps DEF GoodFor
<1>8. QED
    BY <1>1, <1>2, <1>4, <1>6, <1>7, HandlerKeeps DEF GoodFor

LEMMA EndBacktrackKeeps ==
    ASSUME GoodFor(store, task, sync), NEW h \in Handlers, IsBacktrack(task[h])
    PROVE  GoodFor(Released(h), EndTask(h), sync)
<1>1. TasksOK(task) /\ ReleasedOK(store, task, leaked) /\ StoreOK(store)
    BY DEF GoodFor, Good
<1>2. TasksOK(EndTask(h))
    BY <1>1, TaskUpdate, IdleTaskOK DEF EndTask
<1>3. task[h].peer \in Peers
    BY <1>1 DEF TasksOK, IsBacktrack
<1> DEFINE bt == [store.backtrack EXCEPT ![task[h].peer] = @ - 1]
<1>8. Released(h) = [store EXCEPT !.backtrack = bt]
    BY <1>1 DEF Released, StoreOK, StoreFields
<1>9. bt \in [Peers -> Int]
    BY <1>1, <1>3 DEF StoreOK
<1> HIDE DEF bt
<1>4. /\ Released(h) = [f \in StoreFields |-> Released(h)[f]]
      /\ Released(h).peakToPeer = store.peakToPeer
      /\ Released(h).batch = store.batch
      /\ Released(h).backtrack = bt
      /\ Released(h).syncMode = store.syncMode
      /\ Released(h).longSync = store.longSync
      /\ Released(h).target = store.target
    BY <1>1, <1>8 DEF StoreOK, StoreFields
<1>5. KeepsTarget(store, Released(h)) /\ StoreOK(Released(h))
    BY <1>1, <1>9, <1>4 DEF KeepsTarget, Known, StoreOK
<1>6. ReleasedOK(Released(h), EndTask(h), leaked)
    BY <1>1, <1>4, ReleasedBacktrack DEF EndTask, bt
<1>7. QED
    BY <1>2, <1>4, <1>5, <1>6, HandlerKeeps DEF GoodFor

(* Steps that touch neither the chain nor the lock.                        *)
Quiet == UNCHANGED <<chain, lock, leaked, cleared>>
GoodNext == GoodFor(store, task, sync)' /\ conn' \subseteq conn

LEMMA QuietDone ==
    ASSUME Quiet
    PROVE  Done' = Done /\ lock' = lock /\ leaked' = leaked /\ cleared' = cleared
    BY DEF Quiet, chain, Done

LEMMA QuietOpen ==
    ASSUME Quiet, NEW st, NEW ts, NEW ss, NEW pi, GoodFor(st, ts, ss), Open(st, ts, ss, pi)
    PROVE  GoodNext
<1>1. Good(st, ts, ss, lock', leaked', cleared', Done')
    BY QuietDone DEF GoodFor
<1>2. QED
    BY <1>1, OpenKeeps DEF GoodNext, GoodFor

LEMMA QuietClosed ==
    ASSUME Quiet, NEW p, NEW st, NEW ts, NEW ss, NEW pi, GoodFor(st, ts, ss), Closed(p, st, ts, ss, pi)
    PROVE  GoodNext
<1>1. Good(st, ts, ss, lock', leaked', cleared', Done')
    BY QuietDone DEF GoodFor
<1>2. QED
    BY <1>1, ClosedKeeps DEF GoodNext, GoodFor

LEMMA QuietRaise ==
    ASSUME Quiet, NEW h, NEW st, GoodFor(st, EndTask(h), sync), Raise(h, st)
    PROVE  GoodNext
    BY QuietOpen, QuietClosed DEF Raise

LEMMA SyncUpdate ==
    ASSUME NEW ss, SyncsOK(ss), NEW s \in Syncs, NEW x, x = [f \in SyncFields |-> x[f]]
    PROVE  /\ SyncsOK([ss EXCEPT ![s] = x])
           /\ [ss EXCEPT ![s] = x][s] = x
           /\ \A r \in Syncs \ {s} : [ss EXCEPT ![s] = x][r] = ss[r]
    BY DEF SyncsOK

(* create_task(self._sync())                                               *)
LEMMA SpawnKeeps ==
    ASSUME Quiet, NEW h, NEW st, GoodFor(st, EndTask(h), sync), SpawnSync(h, st)
    PROVE  GoodNext
<1>1. CASE Busy(st)
    BY <1>1, QuietOpen DEF SpawnSync
<1>2. CASE ~Busy(st)
  <2> DEFINE u == [st EXCEPT !.longSync = TRUE]
             started(s) == [sync EXCEPT ![s].pc = "wait"]
  <2>1. PICK s \in Syncs : sync[s].pc = "idle" /\ Open(u, EndTask(h), started(s), pipe)
      BY <1>2 DEF SpawnSync
  <2> DEFINE ss == started(s)
  <2>2. /\ StoreOK(st) /\ TasksOK(EndTask(h)) /\ SyncsOK(sync) /\ FlagsOK(st, sync, lock)
        /\ ReleasedOK(st, EndTask(h), leaked) /\ TargetOK(st, sync, cleared) /\ PostOK(sync, Done)
      BY DEF GoodFor, Good
  <2>3. /\ StoreOK(u) /\ u.longSync = TRUE /\ u.syncMode = st.syncMode /\ u.target = st.target
        /\ u.peakToPeer = st.peakToPeer /\ u.batch = st.batch /\ u.backtrack = st.backtrack
      BY <2>2 DEF StoreOK, StoreFields
  <2>4. /\ SyncsOK(ss) /\ ss[s].pc = "wait"
        /\ \A r \in Syncs \ {s} : ss[r].pc = sync[r].pc
      BY <2>2 DEF SyncsOK, SyncFields
  <2> HIDE DEF u, ss
  <2>5. \A r \in Syncs : sync[r].pc \notin Running
      BY <1>2, <2>2 DEF FlagsOK, Busy
  <2>6. FlagsOK(u, ss, lock)
      BY <2>1, <2>2, <2>3, <2>4, <2>5 DEF FlagsOK, Running, HasTarget
  <2>7. ReleasedOK(u, EndTask(h), leaked)
      BY <2>2, <2>3 DEF ReleasedOK
  <2>8. TargetOK(u, ss, cleared)
      BY <2>4, <2>5 DEF TargetOK, Running, HasTarget
  <2>9. PostOK(ss, Done)
      BY <2>1, <2>2, <2>4 DEF PostOK
  <2>10. GoodFor(u, EndTask(h), ss)
      BY <2>2, <2>3, <2>4, <2>6, <2>7, <2>8, <2>9 DEF GoodFor, Good
  <2>11. Open(u, EndTask(h), ss, pipe)
      BY <2>1 DEF u, ss
  <2>12. QED
      BY <2>10, <2>11, QuietOpen
<1>3. QED
    BY <1>1, <1>2

(* The start of short_sync_batch.                                          *)
LEMMA StartBatchKeeps ==
    ASSUME Quiet, NEW h \in Handlers, NEW st, GoodFor(st, EndTask(h), sync), TasksOK(task),
           NEW t, t = [f \in TaskFields |-> t[f]], t.peer \in Peers, NEW start,
           StartBatch(h, t, start, st)
    PROVE  GoodNext
<1> DEFINE u == [st EXCEPT !.batch = @ \cup {t.peer}]
           x == [t EXCEPT !.pc = IF start > 0 THEN "first" ELSE "fetch", !.at = start, !.got = <<>>]
           ts == [task EXCEPT ![h] = x]
<1>1. CASE Open(st, EndTask(h), sync, pipe)
    BY <1>1, QuietOpen
<1>2. CASE t.peer \notin st.batch /\ Open(u, ts, sync, pipe)
  <2>1. StoreOK(st) /\ TasksOK(EndTask(h)) /\ ReleasedOK(st, EndTask(h), leaked)
      BY DEF GoodFor, Good
  <2>2. /\ StoreOK(u) /\ u.batch = st.batch \cup {t.peer}
        /\ u.longSync = st.longSync /\ u.syncMode = st.syncMode /\ u.target = st.target
        /\ u.peakToPeer = st.peakToPeer /\ u.backtrack = st.backtrack
      BY <2>1 DEF StoreOK, StoreFields
  <2>3. TaskOK(x) /\ IsBatch(x) /\ x.peer = t.peer
      BY DEF TaskOK, TaskFields, IsBatch
  <2> HIDE DEF x, u
  <2>4. EndTask(h)[h] = IdleTask /\ ts = [EndTask(h) EXCEPT ![h] = x]
      BY DEF EndTask, TasksOK
  <2>5. ~IsBatch(EndTask(h)[h]) /\ ~IsBacktrack(EndTask(h)[h])
      BY <2>4, IdleTaskOK
  <2>6. ReleasedOK(u, ts, leaked)
      BY <1>2, <2>1, <2>2, <2>3, <2>4, <2>5, ClaimedBatch
  <2>7. TasksOK(ts)
      BY <2>3, TaskUpdate
  <2>8. KeepsTarget(st, u)
      BY <2>2 DEF KeepsTarget, Known
  <2>9. GoodFor(u, ts, sync)
      BY <2>2, <2>6, <2>7, <2>8, HandlerKeeps DEF GoodFor
  <2>10. QED
      BY <1>2, <2>9, QuietOpen
<1>3. QED
    BY <1>1, <1>2 DEF StartBatch

LEMMA AfterBacktrackKeeps ==
    ASSUME Quiet, NEW h \in Handlers, NEW st, GoodFor(st, EndTask(h), sync), TasksOK(task),
           NEW t, t = [f \in TaskFields |-> t[f]], t.peer \in Peers,
           AfterBacktrack(h, t, st)
    PROVE  GoodNext
    BY StartBatchKeeps, SpawnKeeps DEF AfterBacktrack

--------------------------------------------------------------------------------
(* The actions of the handlers.                                            *)

LEMMA TipIsBlock ==
    ASSUME PeersOK, NEW p \in Peers
    PROVE  Tip(p) \in Blocks
    BY SyncAssumption DEF PeersOK, Tip

LEMMA AnnouncedKeeps ==
    ASSUME GoodFor(store, task, sync), NEW h \in Handlers, NEW p \in Peers, NEW t \in Blocks,
           NEW live, Announced(h, p, t, live)
    PROVE  GoodNext
<1> DEFINE st == PeerHasBlock(store, t, {p}, TRUE)
           call == [IdleTask EXCEPT !.peer = p, !.live = live, !.tip = t, !.from = Height[peak]]
<1>1. task[h].pc = "idle" /\ Quiet
    BY DEF Announced, Quiet
<1>2. StoreOK(store) /\ TasksOK(task) /\ ReleasedOK(store, task, leaked)
    BY DEF GoodFor, Good
<1>3. Alike(store, st) /\ KeepsTarget(store, st)
    BY <1>2, PeerHasBlockKeeps
<1>4. call = [f \in TaskFields |-> call[f]] /\ call.peer = p /\ call.pc = "idle"
    BY DEF IdleTask, TaskFields
<1> DEFINE ask == [call EXCEPT !.pc = "ask", !.got = <<store.target>>]
           back == [call EXCEPT !.pc = "back", !.at = Height[t]]
           u == [st EXCEPT !.backtrack[p] = @ + 1]
<1>5. \/ Open(st, task, sync, pipe)
      \/ store.syncMode /\ Open(st, [task EXCEPT ![h] = ask], sync, pipe)
      \/ Open(u, [task EXCEPT ![h] = back], sync, pipe)
      \/ AfterBacktrack(h, call, st)
    BY DEF Announced
<1> HIDE DEF st
<1>6. ~IsBatch(task[h]) /\ ~IsBacktrack(task[h])
    BY <1>1 DEF IsBatch, IsBacktrack
<1>7. ReleasedOK(st, task, leaked) /\ GoodFor(st, task, sync)
  <2>1. ReleasedOK(st, task, leaked)
      BY <1>2, <1>3 DEF ReleasedOK, Alike
  <2>2. QED
      BY <1>2, <1>3, <2>1, HandlerKeeps DEF GoodFor, Alike
<1>8. CASE Open(st, task, sync, pipe)
    BY <1>1, <1>7, <1>8, QuietOpen
<1>9. CASE store.syncMode /\ Open(st, [task EXCEPT ![h] = ask], sync, pipe)
  <2>1. store.target \in Blocks
      BY <1>9 DEF GoodFor, Good, FlagsOK, TargetOK, HasTarget
  <2>2. /\ ask = [f \in TaskFields |-> ask[f]]
        /\ ask.peer = p /\ ask.pc = "ask" /\ ask.got = <<store.target>>
      BY <1>4 DEF TaskFields
  <2> HIDE DEF call, ask
  <2>3. TaskOK(ask) /\ IsBatch(ask) = IsBatch(task[h]) /\ IsBacktrack(ask) = IsBacktrack(task[h])
        /\ ~(IsBatch(ask) \/ IsBacktrack(ask))
      BY <1>6, <2>1, <2>2 DEF TaskOK, IsBatch, IsBacktrack
  <2>4. GoodFor(st, [task EXCEPT ![h] = ask], sync)
      BY <1>7, <2>3, TaskKeeps
  <2>5. QED
      BY <1>1, <1>9, <2>4, QuietOpen
<1>10. CASE Open(u, [task EXCEPT ![h] = back], sync, pipe)
  <2> DEFINE bt == [st.backtrack EXCEPT ![p] = @ + 1]
  <2>1. /\ back = [f \in TaskFields |-> back[f]]
        /\ back.peer = p /\ back.pc = "back"
      BY <1>4 DEF TaskFields
  <2>2. u = [st EXCEPT !.backtrack = bt] /\ bt \in [Peers -> Int]
      BY <1>3 DEF Alike, StoreOK, StoreFields
  <2> HIDE DEF call, back, u, bt
  <2>3. /\ u = [f \in StoreFields |-> u[f]] /\ u.backtrack = bt
        /\ u.batch = st.batch /\ u.peakToPeer = st.peakToPeer
        /\ u.longSync = st.longSync /\ u.syncMode = st.syncMode /\ u.target = st.target
      BY <1>3, <2>2 DEF Alike, StoreOK, StoreFields
  <2>4. StoreOK(u) /\ KeepsTarget(st, u)
      BY <1>3, <2>2, <2>3 DEF Alike, StoreOK, KeepsTarget, Known
  <2>5. TaskOK(back) /\ IsBacktrack(back)
      BY <2>1 DEF TaskOK, IsBacktrack
  <2>6. u.backtrack = [st.backtrack EXCEPT ![back.peer] = @ + 1]
      BY <2>1, <2>3 DEF bt
  <2>7. ReleasedOK(u, [task EXCEPT ![h] = back], leaked)
      BY <1>2, <1>3, <1>6, <1>7, <2>3, <2>5, <2>6, ClaimedBacktrack DEF Alike
  <2>8. TasksOK([task EXCEPT ![h] = back])
      BY <1>2, <2>5, TaskUpdate
  <2>9. GoodFor(u, [task EXCEPT ![h] = back], sync)
      BY <1>7, <2>3, <2>4, <2>7, <2>8, HandlerKeeps DEF GoodFor
  <2>10. QED
      BY <1>1, <1>10, <2>9, QuietOpen
<1>11. CASE AfterBacktrack(h, call, st)
  <2>1. GoodFor(st, EndTask(h), sync)
      BY <1>6, <1>7, EndIdleKeeps
  <2> HIDE DEF call
  <2>2. QED
      BY <1>1, <1>2, <1>4, <1>11, <2>1, AfterBacktrackKeeps
<1>12. QED
    BY <1>5, <1>8, <1>9, <1>10, <1>11

LEMMA AskTargetKeeps ==
    ASSUME GoodFor(store, task, sync), NEW h \in Handlers, AskTarget(h)
    PROVE  GoodNext
<1> DEFINE b == task[h].got[1]
           p == task[h].peer
           st == PeerHasBlock(store, b, {p}, FALSE)
<1>1. task[h].pc = "ask" /\ Quiet
    BY DEF AskTarget, Answered, Unanswered, WrongAnswer, Quiet
<1>2. StoreOK(store) /\ TasksOK(task) /\ ReleasedOK(store, task, leaked)
    BY DEF GoodFor, Good
<1>3. b \in Blocks /\ p \in Peers /\ ~IsBatch(task[h]) /\ ~IsBacktrack(task[h])
    BY <1>1, <1>2 DEF TasksOK, IsBatch, IsBacktrack
<1>4. Alike(store, st) /\ KeepsTarget(store, st)
    BY <1>2, <1>3, PeerHasBlockKeeps
<1>5. \/ Open(st, EndTask(h), sync, pipe)
      \/ Open(store, EndTask(h), sync, pipe)
      \/ Raise(h, store)
    BY DEF AskTarget
<1> HIDE DEF st
<1>6. GoodFor(st, task, sync)
  <2>1. ReleasedOK(st, task, leaked)
      BY <1>2, <1>4 DEF ReleasedOK, Alike
  <2>2. QED
      BY <1>2, <1>4, <2>1, HandlerKeeps DEF GoodFor, Alike
<1>7. GoodFor(st, EndTask(h), sync) /\ GoodFor(store, EndTask(h), sync)
    BY <1>3, <1>6, EndIdleKeeps
<1>8. QED
    BY <1>1, <1>5, <1>7, QuietOpen, QuietRaise

LEMMA BacktrackFetchKeeps ==
    ASSUME GoodFor(store, task, sync), NEW h \in Handlers, BacktrackFetch(h)
    PROVE  GoodNext
<1> DEFINE t == task[h]
           b == At(Tip(t.peer), t.at)
           got == [t EXCEPT !.got = Append(@, b)]
           apply == [got EXCEPT !.pc = "apply"]
           down == [got EXCEPT !.at = @ - 1]
<1>1. t.pc = "back" /\ Quiet
    BY DEF BacktrackFetch, Answered, Unanswered, WrongAnswer, Quiet
<1>2. TasksOK(task) /\ t.peer \in Peers /\ t = [f \in TaskFields |-> t[f]]
    BY <1>1 DEF GoodFor, Good, TasksOK
<1>3. \/ Raise(h, Released(h))
      \/ Open(Released(h), EndTask(h), sync, pipe)
      \/ Open(store, [task EXCEPT ![h] = apply], sync, pipe)
      \/ Open(store, [task EXCEPT ![h] = down], sync, pipe)
      \/ AfterBacktrack(h, t, Released(h))
    BY DEF BacktrackFetch
<1>4. IsBacktrack(t)
    BY <1>1 DEF IsBacktrack
<1>5. GoodFor(Released(h), EndTask(h), sync)
    BY <1>4, EndBacktrackKeeps
<1>6. /\ apply = [f \in TaskFields |-> apply[f]] /\ apply.peer = t.peer /\ apply.pc = "apply"
      /\ down = [f \in TaskFields |-> down[f]] /\ down.peer = t.peer /\ down.pc = "back"
    BY <1>1, <1>2 DEF TaskFields
<1> HIDE DEF apply, down
<1>7. ASSUME NEW x \in {apply, down} PROVE GoodFor(store, [task EXCEPT ![h] = x], sync)
  <2>1. /\ TaskOK(x) /\ x.peer = task[h].peer
        /\ IsBatch(x) = IsBatch(task[h]) /\ IsBacktrack(x) = IsBacktrack(task[h])
      BY <1>1, <1>2, <1>6 DEF TaskOK, IsBatch, IsBacktrack
  <2>2. QED
      BY <2>1, TaskKeeps
<1>8. CASE Raise(h, Released(h))
    BY <1>1, <1>5, <1>8, QuietRaise
<1>9. CASE AfterBacktrack(h, t, Released(h))
    BY <1>1, <1>2, <1>5, <1>9, AfterBacktrackKeeps
<1>10. QED
    BY <1>1, <1>3, <1>5, <1>7, <1>8, <1>9, QuietOpen

LEMMA BatchFirstKeeps ==
    ASSUME GoodFor(store, task, sync), NEW h \in Handlers, BatchFirst(h)
    PROVE  GoodNext
<1> DEFINE t == task[h]
           x == [t EXCEPT !.pc = "fetch"]
<1>1. t.pc = "first" /\ lock' = lock /\ cleared' = cleared /\ Done' = Done
    BY DEF BatchFirst, Answered, Unanswered, WrongAnswer, chain, Done
<1>2. TasksOK(task) /\ t.peer \in Peers /\ t = [f \in TaskFields |-> t[f]]
    BY <1>1 DEF GoodFor, Good, TasksOK
<1>3. \/ /\ Quiet
         /\ \/ Raise(h, BatchReleased(h))
            \/ SpawnSync(h, BatchReleased(h))
            \/ Open(BatchReleased(h), EndTask(h), sync, pipe)
            \/ Open(store, [task EXCEPT ![h].pc = "fetch"], sync, pipe)
      \/ Raise(h, store) /\ leaked' = leaked \cup {t.peer}
    BY DEF BatchFirst, Quiet
<1>4. IsBatch(t)
    BY <1>1 DEF IsBatch
<1>5. /\ GoodFor(BatchReleased(h), EndTask(h), sync)
      /\ Good(store, EndTask(h), sync, lock, leaked \cup {t.peer}, cleared, Done)
    BY <1>4, EndBatchKeeps
<1>6. GoodFor(store, [task EXCEPT ![h].pc = "fetch"], sync)
  <2>1. x = [f \in TaskFields |-> x[f]] /\ x.peer = t.peer /\ x.pc = "fetch"
      BY <1>2 DEF TaskFields
  <2>2. [task EXCEPT ![h].pc = "fetch"] = [task EXCEPT ![h] = x]
      BY <1>2 DEF TasksOK
  <2> HIDE DEF x
  <2>3. /\ TaskOK(x) /\ x.peer = task[h].peer
        /\ IsBatch(x) = IsBatch(task[h]) /\ IsBacktrack(x) = IsBacktrack(task[h])
      BY <1>1, <1>2, <2>1 DEF TaskOK, IsBatch, IsBacktrack
  <2>4. QED
      BY <2>2, <2>3, TaskKeeps
<1>7. CASE Raise(h, store) /\ leaked' = leaked \cup {t.peer}
  <2>1. Good(store, EndTask(h), sync, lock', leaked', cleared', Done')
      BY <1>1, <1>5, <1>7
  <2>2. QED
      BY <1>7, <2>1, OpenKeeps, ClosedKeeps DEF Raise, GoodNext, GoodFor
<1>8. QED
    BY <1>3, <1>5, <1>6, <1>7, QuietOpen, QuietRaise, SpawnKeeps

LEMMA BatchFetchKeeps ==
    ASSUME GoodFor(store, task, sync), NEW h \in Handlers, BatchFetch(h)
    PROVE  GoodNext
<1> DEFINE t == task[h]
           end == BatchEnd(t.at, Height[t.tip])
           x == [t EXCEPT !.pc = "add", !.got = Served(t.peer, t.at, end)]
<1>1. t.pc = "fetch" /\ Quiet
    BY DEF BatchFetch, Answered, Unanswered, WrongAnswer, Quiet
<1>2. TasksOK(task) /\ t.peer \in Peers /\ t = [f \in TaskFields |-> t[f]]
    BY <1>1 DEF GoodFor, Good, TasksOK
<1>3. \/ Raise(h, BatchReleased(h))
      \/ Open(store, [task EXCEPT ![h] = x], sync, pipe)
    BY DEF BatchFetch
<1>4. IsBatch(t)
    BY <1>1 DEF IsBatch
<1>5. GoodFor(BatchReleased(h), EndTask(h), sync)
    BY <1>4, EndBatchKeeps
<1>6. x = [f \in TaskFields |-> x[f]] /\ x.peer = t.peer /\ x.pc = "add"
    BY <1>2 DEF TaskFields
<1> HIDE DEF x
<1>7. /\ TaskOK(x) /\ x.peer = task[h].peer
      /\ IsBatch(x) = IsBatch(task[h]) /\ IsBacktrack(x) = IsBacktrack(task[h])
    BY <1>1, <1>2, <1>6 DEF TaskOK, IsBatch, IsBacktrack
<1>8. GoodFor(store, [task EXCEPT ![h] = x], sync)
    BY <1>7, TaskKeeps
<1>9. QED
    BY <1>1, <1>3, <1>5, <1>8, QuietOpen, QuietRaise

(* The notes are cleared: a running sync loses its target, if it has one.  *)
LEMMA ClearKeeps ==
    ASSUME NEW st, NEW ts, NEW ss, NEW lk, NEW lost, NEW cl, NEW done, NEW more,
           Good(st, ts, ss, lk, lost, cl, done),
           \A s \in Syncs : ss[s].pc \in HasTarget => more
    PROVE  Good(ClearSyncInfo(st), ts, ss, lk, lost, more, done)
<1> DEFINE u == ClearSyncInfo(st)
<1>1. /\ StoreOK(u) /\ u.syncMode = st.syncMode /\ u.longSync = st.longSync /\ u.target = st.target
      /\ u.batch = st.batch /\ u.backtrack = st.backtrack
  <2>1. <<>> \in Seq(Entries) /\ Len(<<>>) = 0 /\ MaxPeaks \in Nat
      BY SyncAssumption
  <2>2. QED
      BY <2>1 DEF Good, StoreOK, StoreFields, ClearSyncInfo
<1> HIDE DEF u
<1>2. FlagsOK(u, ss, lk)
    BY <1>1 DEF Good, FlagsOK
<1>3. ReleasedOK(u, ts, lost)
    BY <1>1 DEF Good, ReleasedOK
<1>4. TargetOK(u, ss, more)
    BY <1>1 DEF Good, TargetOK
<1>5. Good(u, ts, ss, lk, lost, more, done)
    BY <1>1, <1>2, <1>3, <1>4 DEF Good
<1>6. QED
    BY <1>5 DEF u

(* A step of a handler on the chain brings the processing after it, or     *)
(* leaves both where they were.                                            *)
LEMMA DoneKeeps ==
    ASSUME NEW st, NEW ts, NEW ss, NEW lk, NEW lost, NEW cl,
           Good(st, ts, ss, lk, lost, cl, Done), Done => Done'
    PROVE  Good(st, ts, ss, lk, lost, cl, Done')
    BY DEF Good, PostOK

LEMMA RespondBlockKeeps ==
    ASSUME GoodFor(store, task, sync), NEW h \in Handlers, RespondBlock(h)
    PROVE  GoodNext
<1> DEFINE t == task[h]
           b == Last(t.got)
           isLast == Len(t.got) = 1
           x == [t EXCEPT !.got = Front(@)]
           st == IF isLast THEN Released(h) ELSE store
           rest == IF isLast THEN EndTask(h) ELSE [task EXCEPT ![h].got = Front(@)]
           clear == Height[peak'] % ClearEvery = 0 /\ ~store.syncMode
<1>1. t.pc = "apply" /\ lock' = lock /\ leaked' = leaked
    BY DEF RespondBlock
<1>2. TasksOK(task) /\ t.peer \in Peers /\ t = [f \in TaskFields |-> t[f]]
    BY <1>1 DEF GoodFor, Good, TasksOK
<1>3. IsBacktrack(t)
    BY <1>1 DEF IsBacktrack
<1>4. GoodFor(Released(h), EndTask(h), sync)
    BY <1>3, EndBacktrackKeeps
<1>5. GoodFor(store, [task EXCEPT ![h].got = Front(@)], sync)
  <2>1. x = [f \in TaskFields |-> x[f]] /\ x.peer = t.peer /\ x.pc = "apply"
      BY <1>1, <1>2 DEF TaskFields
  <2>2. [task EXCEPT ![h].got = Front(@)] = [task EXCEPT ![h] = x]
      BY <1>2 DEF TasksOK
  <2> HIDE DEF x
  <2>3. /\ TaskOK(x) /\ x.peer = task[h].peer
        /\ IsBatch(x) = IsBatch(task[h]) /\ IsBacktrack(x) = IsBacktrack(task[h])
      BY <1>1, <1>2, <2>1 DEF TaskOK, IsBatch, IsBacktrack
  <2>4. QED
      BY <2>2, <2>3, TaskKeeps
<1>6. GoodFor(st, rest, sync)
    BY <1>4, <1>5
<1>7. \/ Open(st, rest, sync, pipe) /\ UNCHANGED <<chain, cleared>>
      \/ Raise(h, Released(h)) /\ UNCHANGED <<chain, cleared>>
      \/ /\ peak' = IF Weight[b] > Weight[peak] THEN b ELSE peak
         /\ processed' = IF Weight[b] > Weight[peak] THEN b ELSE processed
         /\ partial' = partial
         /\ Open(IF clear THEN ClearSyncInfo(st) ELSE st, rest, sync, pipe)
         /\ cleared' = (cleared \/ (clear /\ TargetInUse))
    BY DEF RespondBlock
<1> HIDE DEF st, rest, clear, b
<1>8. CASE Open(st, rest, sync, pipe) /\ UNCHANGED <<chain, cleared>>
    BY <1>1, <1>6, <1>8, QuietOpen DEF Quiet
<1>9. CASE Raise(h, Released(h)) /\ UNCHANGED <<chain, cleared>>
    BY <1>1, <1>4, <1>9, QuietRaise DEF Quiet
<1>10. CASE /\ peak' = IF Weight[b] > Weight[peak] THEN b ELSE peak
            /\ processed' = IF Weight[b] > Weight[peak] THEN b ELSE processed
            /\ partial' = partial
            /\ Open(IF clear THEN ClearSyncInfo(st) ELSE st, rest, sync, pipe)
            /\ cleared' = (cleared \/ (clear /\ TargetInUse))
  <2>1. Done => Done'
      BY <1>10 DEF Done
  <2>2. Good(st, rest, sync, lock, leaked, cleared, Done')
      BY <1>6, <2>1, DoneKeeps DEF GoodFor
  <2>3. CASE clear
    <3>1. \A s \in Syncs : sync[s].pc \in HasTarget => cleared'
        BY <1>10, <2>3 DEF TargetInUse
    <3>2. Good(ClearSyncInfo(st), rest, sync, lock', leaked', cleared', Done')
        BY <1>1, <2>2, <3>1, ClearKeeps
    <3>3. QED
        BY <1>10, <2>3, <3>2, OpenKeeps DEF GoodNext, GoodFor
  <2>4. CASE ~clear
    <3>1. TargetOK(st, sync, cleared')
        BY <1>10, <2>2, <2>4 DEF Good, TargetOK
    <3>2. Good(st, rest, sync, lock', leaked', cleared', Done')
        BY <1>1, <2>2, <3>1 DEF Good
    <3>3. QED
        BY <1>10, <2>4, <3>2, OpenKeeps DEF GoodNext, GoodFor
  <2>5. QED
      BY <2>3, <2>4
<1>11. QED
    BY <1>7, <1>8, <1>9, <1>10

LEMMA BatchAddKeeps ==
    ASSUME GoodFor(store, task, sync), NEW h \in Handlers, BatchAdd(h)
    PROVE  GoodNext
<1> DEFINE t == task[h]
           r == ReceiveBatch(t.got, -1)
           next == t.at + BatchSize
           x == [t EXCEPT !.pc = "fetch", !.at = next, !.got = <<>>]
<1>1. /\ t.pc = "add" /\ lock' = lock /\ leaked' = leaked /\ cleared' = cleared
      /\ peak' = r.peak
      /\ IF r.ok
         THEN /\ processed' = IF r.peak # peak THEN r.peak ELSE processed
              /\ partial' = partial
              /\ \/ Open(BatchReleased(h), EndTask(h), sync, pipe)
                 \/ Open(store, [task EXCEPT ![h] = x], sync, pipe)
         ELSE /\ partial' = (partial \/ r.peak # peak)
              /\ processed' = processed
              /\ Raise(h, BatchReleased(h))
    BY DEF BatchAdd
<1> HIDE DEF r
<1>2. TasksOK(task) /\ t.peer \in Peers /\ t = [f \in TaskFields |-> t[f]]
    BY <1>1 DEF GoodFor, Good, TasksOK
<1>3. Done => Done'
    BY <1>1 DEF Done
<1>4. IsBatch(t)
    BY <1>1 DEF IsBatch
<1>5. GoodFor(BatchReleased(h), EndTask(h), sync)
    BY <1>4, EndBatchKeeps
<1>6. x = [f \in TaskFields |-> x[f]] /\ x.peer = t.peer /\ x.pc = "fetch"
    BY <1>2 DEF TaskFields
<1> HIDE DEF x
<1>7. /\ TaskOK(x) /\ x.peer = task[h].peer
      /\ IsBatch(x) = IsBatch(task[h]) /\ IsBacktrack(x) = IsBacktrack(task[h])
    BY <1>1, <1>2, <1>6 DEF TaskOK, IsBatch, IsBacktrack
<1>8. GoodFor(store, [task EXCEPT ![h] = x], sync)
    BY <1>7, TaskKeeps
<1>9. /\ Good(BatchReleased(h), EndTask(h), sync, lock', leaked', cleared', Done')
      /\ Good(store, [task EXCEPT ![h] = x], sync, lock', leaked', cleared', Done')
    BY <1>1, <1>3, <1>5, <1>8, DoneKeeps DEF GoodFor
<1>10. \/ Open(BatchReleased(h), EndTask(h), sync, pipe)
       \/ Open(store, [task EXCEPT ![h] = x], sync, pipe)
       \/ Raise(h, BatchReleased(h))
    BY <1>1
<1>11. QED
    BY <1>9, <1>10, OpenKeeps, ClosedKeeps DEF Raise, GoodNext, GoodFor

--------------------------------------------------------------------------------
(* The actions of the long syncs.                                          *)

(* The long sync that runs ends, with its lock: no flag is left.           *)
LEMMA EndSyncKeeps ==
    ASSUME NEW st, GoodFor(st, task, sync), NEW s \in Syncs, sync[s].pc \in Running,
           NEW lk, lk = IF sync[s].pc = "sync" THEN None ELSE lock, NEW cl, NEW done
    PROVE  Good(Finishing(st), task, EndSync(s), lk, leaked, cl, done)
<1> DEFINE u == Finishing(st)
           ss == EndSync(s)
<1>1. /\ StoreOK(st) /\ TasksOK(task) /\ SyncsOK(sync) /\ FlagsOK(st, sync, lock)
      /\ ReleasedOK(st, task, leaked)
    BY DEF GoodFor, Good
<1>2. /\ StoreOK(u) /\ u.syncMode = FALSE /\ u.longSync = FALSE
      /\ u.batch = st.batch /\ u.backtrack = st.backtrack
    BY <1>1 DEF Finishing, StoreOK, StoreFields
<1>3. /\ SyncsOK(ss) /\ ss[s].pc = "finish"
      /\ \A r \in Syncs \ {s} : ss[r].pc = sync[r].pc
    BY <1>1 DEF EndSync, IdleSync, SyncsOK, SyncFields
<1> HIDE DEF u, ss
<1>4. \A r \in Syncs : ss[r].pc \notin Running
    BY <1>1, <1>3 DEF FlagsOK, Running, HasTarget
<1>5. \A r \in Syncs : lk # r
  <2>1. None \notin Syncs
      BY SyncAssumption
  <2>2. ASSUME NEW r \in Syncs, lk = r PROVE FALSE
    <3>1. sync[s].pc # "sync" /\ lock = r
        BY <2>1, <2>2
    <3>2. sync[r].pc = "sync" /\ r # s
        BY <1>1, <3>1 DEF FlagsOK
    <3>3. QED
        BY <1>1, <3>2 DEF FlagsOK, Running, HasTarget
  <2>3. QED
      BY <2>2
<1>6. FlagsOK(u, ss, lk)
    BY <1>2, <1>4, <1>5 DEF FlagsOK, Running, HasTarget
<1>7. ReleasedOK(u, task, leaked)
    BY <1>1, <1>2 DEF ReleasedOK
<1>8. TargetOK(u, ss, cl) /\ PostOK(ss, done)
    BY <1>3, <1>4 DEF TargetOK, PostOK, Running
<1>9. Good(u, task, ss, lk, leaked, cl, done)
    BY <1>1, <1>2, <1>3, <1>6, <1>7, <1>8 DEF Good
<1>10. QED
    BY <1>9 DEF u, ss

(* The long sync that runs goes on to its next stage.                      *)
LEMMA MoveKeeps ==
    ASSUME NEW st, GoodFor(st, task, sync), NEW s \in Syncs,
           sync[s].pc \in Running \ {"sync"},
           NEW x, x = [f \in SyncFields |-> x[f]], x.pc \in HasTarget,
           NEW lk, lk = IF x.pc = "sync" THEN s ELSE lock, NEW cl,
           NEW u, StoreOK(u), u.longSync = st.longSync,
           u.syncMode <=> x.pc \in {"lock", "sync"},
           u.batch = st.batch, u.backtrack = st.backtrack,
           u.target \in Blocks, u.target \in Known(u) \/ cl
    PROVE  Good(u, task, [sync EXCEPT ![s] = x], lk, leaked, cl, Done)
<1> DEFINE ss == [sync EXCEPT ![s] = x]
<1>1. /\ StoreOK(st) /\ TasksOK(task) /\ SyncsOK(sync) /\ FlagsOK(st, sync, lock)
      /\ ReleasedOK(st, task, leaked) /\ PostOK(sync, Done)
    BY DEF GoodFor, Good
<1>2. SyncsOK(ss) /\ ss[s] = x /\ \A r \in Syncs \ {s} : ss[r] = sync[r]
    BY <1>1, SyncUpdate
<1> HIDE DEF ss
<1>3. \A r \in Syncs \ {s} : ss[r].pc \notin Running /\ sync[r].pc \notin Running
    BY <1>1, <1>2 DEF FlagsOK
<1>4. ss[s].pc \in Running /\ u.longSync = TRUE
    BY <1>1, <1>2 DEF FlagsOK, Running
<1>5. \A r \in Syncs : lk = r <=> ss[r].pc = "sync"
  <2>1. "sync" \in Running
      BY DEF Running, HasTarget
  <2>2. \A r \in Syncs : lock # r
      BY <1>1, <1>3, <2>1 DEF FlagsOK
  <2>3. QED
      BY <1>2, <1>3, <2>1, <2>2
<1>6. FlagsOK(u, ss, lk)
  <2>1. u.syncMode <=> \E r \in Syncs : ss[r].pc \in {"lock", "sync"}
    <3>1. x.pc \in {"lock", "sync"} => \E r \in Syncs : ss[r].pc \in {"lock", "sync"}
        BY <1>2
    <3>2. (\E r \in Syncs : ss[r].pc \in {"lock", "sync"}) => x.pc \in {"lock", "sync"}
        BY <1>2, <1>3 DEF Running, HasTarget
    <3>3. QED
        BY <3>1, <3>2
  <2>2. QED
      BY <1>3, <1>4, <1>5, <2>1 DEF FlagsOK
<1>7. ReleasedOK(u, task, leaked)
    BY <1>1 DEF ReleasedOK
<1>8. TargetOK(u, ss, cl)
    BY DEF TargetOK
<1>9. PostOK(ss, Done)
    BY <1>1, <1>2 DEF PostOK, Running, HasTarget
<1>10. Good(u, task, ss, lk, leaked, cl, Done)
    BY <1>1, <1>2, <1>6, <1>7, <1>8, <1>9 DEF Good
<1>11. QED
    BY <1>10 DEF ss

LEMMA RaiseSyncKeeps ==
    ASSUME NEW st, GoodFor(st, task, sync), NEW s \in Syncs, sync[s].pc \in Running \ {"sync"},
           NEW ban, RaiseSync(s, st, ban), UNCHANGED <<lock, leaked>>
    PROVE  GoodNext
<1>1. Good(Finishing(st), task, EndSync(s), lock', leaked', cleared', Done')
    BY EndSyncKeeps
<1>2. QED
    BY <1>1, OpenKeeps, ClosedKeeps DEF RaiseSync, GoodNext, GoodFor

LEMMA SelectPeakKeeps ==
    ASSUME GoodFor(store, task, sync), NEW s \in Syncs, SelectPeak(s)
    PROVE  GoodNext
<1>1. sync[s].pc = "wait" /\ cleared' = FALSE /\ UNCHANGED <<chain, lock, leaked>>
    BY DEF SelectPeak
<1>2. sync[s].pc \in Running \ {"sync"}
    BY <1>1 DEF Running
<1>3. CASE RaiseSync(s, store, FALSE)
    BY <1>1, <1>2, <1>3, RaiseSyncKeeps
<1>4. ASSUME NEW b \in Blocks, IsHeaviest(store, b),
             Open([store EXCEPT !.target = b], task, MoveTo(s, "ask"), pipe)
      PROVE  GoodNext
  <2> DEFINE u == [store EXCEPT !.target = b]
             x == [sync[s] EXCEPT !.pc = "ask"]
  <2>1. StoreOK(store) /\ SyncsOK(sync) /\ FlagsOK(store, sync, lock)
      BY DEF GoodFor, Good
  <2>2. /\ StoreOK(u) /\ u.longSync = store.longSync /\ u.syncMode = store.syncMode
        /\ u.batch = store.batch /\ u.backtrack = store.backtrack
        /\ u.peakToPeer = store.peakToPeer /\ u.target = b
      BY <2>1 DEF StoreOK, StoreFields
  <2>3. x = [f \in SyncFields |-> x[f]] /\ x.pc = "ask" /\ MoveTo(s, "ask") = [sync EXCEPT ![s] = x]
      BY <2>1 DEF SyncsOK, SyncFields, MoveTo
  <2>4. u.target \in Known(u)
      BY <1>4, <2>2 DEF IsHeaviest, Candidates, Known
  <2>5. u.syncMode = FALSE
      BY <1>1, <1>2, <2>1, <2>2 DEF FlagsOK, StoreOK, Running, HasTarget
  <2> HIDE DEF u, x
  <2>6. Good(u, task, [sync EXCEPT ![s] = x], lock, leaked, FALSE, Done)
    <3>1. (u.syncMode <=> x.pc \in {"lock", "sync"}) /\ x.pc \in HasTarget /\ x.pc # "sync"
        BY <2>3, <2>5 DEF HasTarget
    <3>2. QED
        BY <1>2, <2>2, <2>3, <2>4, <3>1, MoveKeeps
  <2>7. Done' = Done
      BY <1>1 DEF chain, Done
  <2>8. Good(u, task, [sync EXCEPT ![s] = x], lock', leaked', cleared', Done')
      BY <1>1, <2>6, <2>7
  <2>9. Open(u, task, [sync EXCEPT ![s] = x], pipe)
      BY <1>4, <2>3 DEF u
  <2>10. QED
      BY <2>8, <2>9, OpenKeeps DEF GoodNext, GoodFor
<1>5. QED
    BY <1>3, <1>4 DEF SelectPeak

LEMMA AskPeersKeeps ==
    ASSUME GoodFor(store, task, sync), PeersOK, NEW s \in Syncs, AskPeers(s)
    PROVE  GoodNext
<1> DEFINE having == {p \in conn : HasHeight(p, Height[store.target])}
<1>1. sync[s].pc = "ask" /\ Quiet
    BY DEF AskPeers, Quiet
<1>2. sync[s].pc \in Running \ {"sync"} /\ sync[s].pc \in HasTarget /\ having \in SUBSET Peers
    BY <1>1 DEF Running, HasTarget, PeersOK
<1>3. \/ \E answers \in SUBSET Peers : AskProof(s, answers)
      \/ \E p \in conn : Closed(p, Finishing(store), task, EndSync(s), pipe)
  <2>1. \A p : having \ {p} \in SUBSET Peers
      BY <1>2
  <2>2. \/ AskProof(s, having)
        \/ \E p \in having : AskProof(s, having \ {p})
        \/ \E p \in conn : Closed(p, Finishing(store), task, EndSync(s), pipe)
      BY DEF AskPeers
  <2> HIDE DEF having
  <2>3. QED
      BY <1>2, <2>1, <2>2
<1>4. ASSUME NEW answers \in SUBSET Peers, AskProof(s, answers) PROVE GoodNext
  <2> DEFINE st == PeerHasBlock(store, store.target, answers, FALSE)
             x(p) == [sync[s] EXCEPT !.pc = "proof", !.peer = p, !.live = TRUE]
  <2>1. /\ StoreOK(store) /\ SyncsOK(sync) /\ FlagsOK(store, sync, lock) /\ TasksOK(task)
        /\ store.target \in Blocks /\ (store.target \in Known(store) \/ cleared)
        /\ ReleasedOK(store, task, leaked)
      BY <1>2 DEF GoodFor, Good, TargetOK
  <2>2. Alike(store, st) /\ KeepsTarget(store, st)
      BY <2>1, PeerHasBlockKeeps
  <2>3. RaiseSync(s, st, FALSE)
        \/ \E p : Open(st, task, [sync EXCEPT ![s].pc = "proof", ![s].peer = p, ![s].live = TRUE], pipe)
      BY <1>4 DEF AskProof
  <2> HIDE DEF st
  <2>4. GoodFor(st, task, sync)
    <3>1. ReleasedOK(st, task, leaked)
        BY <2>1, <2>2 DEF ReleasedOK, Alike
    <3>2. QED
        BY <2>1, <2>2, <3>1, HandlerKeeps DEF GoodFor, Alike
  <2>5. CASE RaiseSync(s, st, FALSE)
      BY <1>1, <1>2, <2>4, <2>5, RaiseSyncKeeps DEF Quiet
  <2>6. ASSUME NEW p, Open(st, task, [sync EXCEPT ![s].pc = "proof", ![s].peer = p, ![s].live = TRUE], pipe)
        PROVE  GoodNext
    <3>1. /\ x(p) = [f \in SyncFields |-> x(p)[f]] /\ x(p).pc = "proof"
          /\ [sync EXCEPT ![s].pc = "proof", ![s].peer = p, ![s].live = TRUE] = [sync EXCEPT ![s] = x(p)]
        BY <2>1 DEF SyncsOK, SyncFields
    <3> HIDE DEF x
    <3>2. /\ ~st.syncMode /\ x(p).pc \in HasTarget /\ x(p).pc # "sync"
          /\ (st.syncMode <=> x(p).pc \in {"lock", "sync"})
        BY <1>1, <1>2, <2>1, <2>2, <3>1 DEF FlagsOK, Alike, Running, HasTarget
    <3>3. st.target \in Blocks /\ (st.target \in Known(st) \/ cleared)
        BY <2>1, <2>2 DEF Alike, KeepsTarget
    <3>4. GoodFor(st, task, [sync EXCEPT ![s] = x(p)])
        BY <1>2, <2>2, <2>4, <3>1, <3>2, <3>3, MoveKeeps DEF Alike, GoodFor
    <3>5. QED
        BY <1>1, <2>6, <3>1, <3>4, QuietOpen
  <2>7. QED
      BY <2>3, <2>5, <2>6
<1>5. ASSUME NEW p \in conn, Closed(p, Finishing(store), task, EndSync(s), pipe) PROVE GoodNext
  <2>1. Good(Finishing(store), task, EndSync(s), lock', leaked', cleared', Done')
      BY <1>1, <1>2, EndSyncKeeps DEF Quiet
  <2>2. QED
      BY <1>5, <2>1, ClosedKeeps DEF GoodNext, GoodFor
<1>6. QED
    BY <1>3, <1>4, <1>5

LEMMA ReceiveProofKeeps ==
    ASSUME GoodFor(store, task, sync), NEW s \in Syncs, ReceiveProof(s)
    PROVE  GoodNext
<1> DEFINE x(f) == [sync[s] EXCEPT !.pc = "validate", !.fork = f]
<1>1. sync[s].pc = "proof" /\ Quiet
    BY DEF ReceiveProof, Quiet
<1>2. sync[s].pc \in Running \ {"sync"} /\ sync[s].pc \in HasTarget
    BY <1>1 DEF Running, HasTarget
<1>3. /\ StoreOK(store) /\ SyncsOK(sync) /\ FlagsOK(store, sync, lock)
      /\ store.target \in Blocks /\ (store.target \in Known(store) \/ cleared)
    BY <1>2 DEF GoodFor, Good, TargetOK
<1>4. ASSUME NEW ban, RaiseSync(s, store, ban) PROVE GoodNext
    BY <1>1, <1>2, <1>4, RaiseSyncKeeps DEF Quiet
<1>5. ASSUME NEW f, Open(store, task, [sync EXCEPT ![s].pc = "validate", ![s].fork = f], pipe)
      PROVE  GoodNext
  <2>1. /\ x(f) = [g \in SyncFields |-> x(f)[g]] /\ x(f).pc = "validate"
        /\ [sync EXCEPT ![s].pc = "validate", ![s].fork = f] = [sync EXCEPT ![s] = x(f)]
      BY <1>3 DEF SyncsOK, SyncFields
  <2> HIDE DEF x
  <2>2. /\ x(f).pc \in HasTarget /\ x(f).pc # "sync"
        /\ (store.syncMode <=> x(f).pc \in {"lock", "sync"})
      BY <1>1, <1>2, <1>3, <2>1 DEF FlagsOK, Running, HasTarget
  <2>3. GoodFor(store, task, [sync EXCEPT ![s] = x(f)])
      BY <1>2, <1>3, <2>1, <2>2, MoveKeeps DEF GoodFor
  <2>4. QED
      BY <1>1, <1>5, <2>1, <2>3, QuietOpen
<1>6. QED
    BY <1>4, <1>5 DEF ReceiveProof

LEMMA ValidateProofKeeps ==
    ASSUME GoodFor(store, task, sync), NEW s \in Syncs, ValidateProof(s)
    PROVE  GoodNext
<1> DEFINE x == [sync[s] EXCEPT !.pc = "lock"]
           u == [store EXCEPT !.syncMode = TRUE]
<1>1. /\ sync[s].pc = "validate" /\ Quiet
      /\ Open(u, task, MoveTo(s, "lock"), pipe)
    BY DEF ValidateProof, Quiet
<1>2. sync[s].pc \in Running \ {"sync"} /\ sync[s].pc \in HasTarget
    BY <1>1 DEF Running, HasTarget
<1>3. /\ StoreOK(store) /\ SyncsOK(sync)
      /\ store.target \in Blocks /\ (store.target \in Known(store) \/ cleared)
    BY <1>2 DEF GoodFor, Good, TargetOK
<1>4. x = [f \in SyncFields |-> x[f]] /\ x.pc = "lock" /\ MoveTo(s, "lock") = [sync EXCEPT ![s] = x]
    BY <1>3 DEF SyncsOK, SyncFields, MoveTo
<1>5. /\ StoreOK(u) /\ u.longSync = store.longSync /\ u.syncMode = TRUE
      /\ u.batch = store.batch /\ u.backtrack = store.backtrack
      /\ u.peakToPeer = store.peakToPeer /\ u.target = store.target
    BY <1>3 DEF StoreOK, StoreFields
<1> HIDE DEF x, u
<1>6. x.pc \in HasTarget /\ x.pc # "sync" /\ (u.syncMode <=> x.pc \in {"lock", "sync"})
    BY <1>4, <1>5 DEF HasTarget
<1>7. u.target \in Blocks /\ (u.target \in Known(u) \/ cleared)
    BY <1>3, <1>5 DEF Known
<1>8. GoodFor(u, task, [sync EXCEPT ![s] = x])
    BY <1>2, <1>4, <1>5, <1>6, <1>7, MoveKeeps DEF GoodFor
<1>9. QED
    BY <1>1, <1>4, <1>8, QuietOpen

LEMMA StartPipeKeeps ==
    ASSUME GoodFor(store, task, sync), NEW s \in Syncs, StartPipe(s)
    PROVE  GoodNext
<1> DEFINE x(f) == [IdleSync EXCEPT !.pc = "sync", !.fork = f]
<1>1. /\ sync[s].pc = "lock" /\ lock' = s /\ UNCHANGED <<chain, leaked, cleared>>
      /\ \E f, pi : Open(store, task, [sync EXCEPT ![s] = x(f)], pi)
    BY DEF StartPipe
<1>2. PICK f, pi : Open(store, task, [sync EXCEPT ![s] = x(f)], pi)
    BY <1>1
<1>3. sync[s].pc \in Running \ {"sync"} /\ sync[s].pc \in HasTarget
    BY <1>1 DEF Running, HasTarget
<1>4. /\ StoreOK(store) /\ SyncsOK(sync) /\ FlagsOK(store, sync, lock)
      /\ store.target \in Blocks /\ (store.target \in Known(store) \/ cleared)
    BY <1>3 DEF GoodFor, Good, TargetOK
<1>5. x(f) = [g \in SyncFields |-> x(f)[g]] /\ x(f).pc = "sync"
    BY DEF IdleSync, SyncFields
<1> HIDE DEF x
<1>6. x(f).pc \in HasTarget /\ (store.syncMode <=> x(f).pc \in {"lock", "sync"})
    BY <1>1, <1>4, <1>5 DEF FlagsOK, HasTarget
<1>7. Good(store, task, [sync EXCEPT ![s] = x(f)], s, leaked, cleared, Done)
    BY <1>3, <1>4, <1>5, <1>6, MoveKeeps
<1>8. Done' = Done
    BY <1>1 DEF chain, Done
<1>9. Good(store, task, [sync EXCEPT ![s] = x(f)], lock', leaked', cleared', Done')
    BY <1>1, <1>7, <1>8
<1>10. QED
    BY <1>2, <1>9, OpenKeeps DEF GoodNext, GoodFor

LEMMA ValidateBatchKeeps ==
    ASSUME GoodFor(store, task, sync), NEW s \in Syncs, ValidateBatch(s)
    PROVE  GoodNext
<1>1. sync[s].pc = "sync" /\ leaked' = leaked /\ cleared' = cleared
    BY DEF ValidateBatch
<1>2. sync[s].pc \in Running
    BY <1>1 DEF Running, HasTarget
<1>3. \/ \E pi : Open(store, task, sync, pi) /\ lock' = lock
      \/ /\ lock' = None
         /\ \/ Open(Finishing(store), task, EndSync(s), IdlePipe)
            \/ \E p : Closed(p, Finishing(store), task, EndSync(s), IdlePipe)
    BY DEF ValidateBatch
<1>4. ASSUME NEW pi, Open(store, task, sync, pi), lock' = lock PROVE GoodNext
  <2>1. PostOK(sync, Done')
      BY <1>1 DEF PostOK
  <2>2. Good(store, task, sync, lock', leaked', cleared', Done')
      BY <1>1, <1>4, <2>1 DEF GoodFor, Good
  <2>3. QED
      BY <1>4, <2>2, OpenKeeps DEF GoodNext, GoodFor
<1>5. CASE /\ lock' = None
           /\ \/ Open(Finishing(store), task, EndSync(s), IdlePipe)
              \/ \E p : Closed(p, Finishing(store), task, EndSync(s), IdlePipe)
  <2>1. Good(Finishing(store), task, EndSync(s), lock', leaked', cleared', Done')
      BY <1>1, <1>2, <1>5, EndSyncKeeps
  <2>2. QED
      BY <1>5, <2>1, OpenKeeps, ClosedKeeps DEF GoodNext, GoodFor
<1>6. QED
    BY <1>3, <1>4, <1>5

LEMMA EndPipeKeeps ==
    ASSUME GoodFor(store, task, sync), NEW s \in Syncs, EndPipe(s)
    PROVE  GoodNext
<1>1. /\ sync[s].pc = "sync" /\ lock' = None /\ leaked' = leaked
      /\ Open(Finishing(store), task, EndSync(s), IdlePipe)
    BY DEF EndPipe
<1>2. sync[s].pc \in Running
    BY <1>1 DEF Running, HasTarget
<1>3. Good(Finishing(store), task, EndSync(s), lock', leaked', cleared', Done')
    BY <1>1, <1>2, EndSyncKeeps
<1>4. QED
    BY <1>1, <1>3, OpenKeeps DEF GoodNext, GoodFor

LEMMA FinishSyncKeeps ==
    ASSUME GoodFor(store, task, sync), NEW s \in Syncs, FinishSync(s)
    PROVE  GoodNext
<1> DEFINE ss == [sync EXCEPT ![s] = IdleSync]
<1>1. /\ sync[s].pc = "finish" /\ lock' = lock /\ leaked' = leaked
      /\ Open(ClearSyncInfo(store), task, ss, pipe)
      /\ processed' = peak /\ peak' = peak
      /\ cleared' = (cleared \/ TargetInUse)
    BY DEF FinishSync
<1>2. SyncsOK(sync)
    BY DEF GoodFor, Good
<1>3. /\ SyncsOK(ss) /\ ss[s].pc = "idle"
      /\ \A r \in Syncs \ {s} : ss[r].pc = sync[r].pc
    BY <1>2 DEF SyncsOK, IdleSync, SyncFields
<1> HIDE DEF ss
<1>4. Good(store, task, ss, lock, leaked, cleared, Done')
  <2>1. FlagsOK(store, ss, lock)
      BY <1>1, <1>3 DEF GoodFor, Good, FlagsOK, Running, HasTarget
  <2>2. TargetOK(store, ss, cleared)
      BY <1>3 DEF GoodFor, Good, TargetOK, HasTarget
  <2>3. PostOK(ss, Done')
      BY <1>1 DEF PostOK, Done
  <2>4. QED
      BY <1>3, <2>1, <2>2, <2>3 DEF GoodFor, Good
<1>5. \A r \in Syncs : ss[r].pc \in HasTarget => cleared'
    BY <1>1, <1>3 DEF TargetInUse, HasTarget
<1>6. Good(ClearSyncInfo(store), task, ss, lock', leaked', cleared', Done')
    BY <1>1, <1>4, <1>5, ClearKeeps
<1>7. QED
    BY <1>1, <1>6, OpenKeeps DEF GoodNext, GoodFor

(* fetch_block_batches *)
LEMMA FetchKeeps ==
    ASSUME GoodFor(store, task, sync), FetchStep
    PROVE  GoodNext
<1> DEFINE u == [store EXCEPT !.changed = FALSE]
<1>1. Quiet
    BY DEF FetchStep, FetchBatch, FetchFails, PutBatch, PutNone, Quiet
<1>2. \/ \E pi : Open(store, task, sync, pi)
      \/ \E pi : Open(u, task, sync, pi)
      \/ \E p, pi : Closed(p, store, task, sync, pi)
  <2>1. ASSUME NEW p \in Peers, FetchBatch(p)
        PROVE  \/ \E pi : Open(store, task, sync, pi)
               \/ \E q, pi : Closed(q, store, task, sync, pi)
      BY <2>1 DEF FetchBatch
  <2>2. CASE FetchFails
      BY <2>2 DEF FetchFails
  <2>3. CASE PutBatch
      BY <2>3 DEF PutBatch
  <2>4. CASE PutNone
      BY <2>4 DEF PutNone
  <2>5. QED
      BY <2>1, <2>2, <2>3, <2>4 DEF FetchStep
<1>3. StoreOK(store) /\ TasksOK(task) /\ ReleasedOK(store, task, leaked)
    BY DEF GoodFor, Good
<1>4. /\ StoreOK(u) /\ u.longSync = store.longSync /\ u.syncMode = store.syncMode
      /\ u.batch = store.batch /\ u.backtrack = store.backtrack
      /\ u.peakToPeer = store.peakToPeer /\ u.target = store.target
    BY <1>3 DEF StoreOK, StoreFields
<1> HIDE DEF u
<1>5. GoodFor(u, task, sync)
  <2>1. ReleasedOK(u, task, leaked) /\ KeepsTarget(store, u)
      BY <1>3, <1>4 DEF ReleasedOK, KeepsTarget, Known
  <2>2. QED
      BY <1>3, <1>4, <2>1, HandlerKeeps DEF GoodFor
<1>6. QED
    BY <1>1, <1>2, <1>5, QuietOpen, QuietClosed

--------------------------------------------------------------------------------
(* The invariant.                                                          *)

LEMMA InitInv == Init => Inv
<1> SUFFICES ASSUME Init PROVE Inv
    OBVIOUS
<1>1. PeersOK
    BY SyncAssumption DEF Init, PeersOK
<1>2. StoreOK(store) /\ store.batch = {} /\ \A p \in Peers : store.backtrack[p] = 0
  <2>1. <<>> \in Seq(Entries) /\ Len(<<>>) = 0 /\ MaxPeaks \in Nat
      BY SyncAssumption
  <2>2. store = [f \in StoreFields |-> store[f]]
      BY DEF Init, StoreFields
  <2>3. /\ store.peakToPeer = <<>> /\ store.batch = {} /\ store.backtrack = [p \in Peers |-> 0]
        /\ store.syncMode = FALSE /\ store.longSync = FALSE
      BY DEF Init
  <2>4. store.backtrack \in [Peers -> Int] /\ \A p \in Peers : store.backtrack[p] = 0
      BY <2>3
  <2>5. Len(store.peakToPeer) <= MaxPeaks /\ store.peakToPeer \in Seq(Entries)
      BY <2>1, <2>3
  <2>6. QED
      BY <2>2, <2>3, <2>4, <2>5 DEF StoreOK
<1>3. \A h \in Handlers : task[h] = IdleTask /\ task[h].pc = "idle"
    BY DEF Init, IdleTask
<1>4. TasksOK(task)
    BY <1>3, IdleTaskOK DEF Init, TasksOK, TaskOK
<1>5. SyncsOK(sync) /\ \A s \in Syncs : sync[s].pc = "idle"
    BY DEF Init, SyncsOK, IdleSync, SyncFields
<1>6. FlagsOK(store, sync, lock)
    BY <1>5, SyncAssumption DEF Init, FlagsOK, Running, HasTarget
<1>7. ReleasedOK(store, task, leaked)
  <2>1. Batching(task) = {} /\ \A p : Backtracking(task, p) = {}
      BY <1>3 DEF Batching, Backtracking
  <2>2. leaked = {}
      BY DEF Init
  <2>3. QED
      BY <1>2, <2>1, <2>2, FS_EmptySet DEF ReleasedOK
<1>8. TargetOK(store, sync, cleared) /\ PostOK(sync, Done)
    BY <1>5 DEF Init, TargetOK, PostOK, Done, HasTarget
<1>9. QED
    BY <1>1, <1>2, <1>4, <1>5, <1>6, <1>7, <1>8 DEF Inv, Good

LEMMA HandlerStepInv ==
    ASSUME PeersOK, GoodFor(store, task, sync), NEW h \in Handlers,
           HandlerStep(h) \/ \E p \in Peers : NewPeak(h, p)
    PROVE  GoodNext /\ PeersOK'
<1>1. GoodNext
  <2>1. CASE LatePeak(h)
    <3>1. PICK w \in waiting : Announced(h, w.peer, w.tip, FALSE)
        BY <2>1 DEF LatePeak
    <3>2. w.peer \in Peers /\ w.tip \in Blocks
        BY DEF PeersOK
    <3>3. QED
        BY <3>1, <3>2, AnnouncedKeeps
  <2>2. ASSUME NEW p \in Peers, NewPeak(h, p) PROVE GoodNext
      BY <2>2, TipIsBlock, AnnouncedKeeps DEF NewPeak
  <2>3. QED
      BY <2>1, <2>2, AskTargetKeeps, BacktrackFetchKeeps, RespondBlockKeeps, BatchFirstKeeps,
         BatchFetchKeeps, BatchAddKeeps DEF HandlerStep
<1>2. stage' = stage /\ waiting' \subseteq waiting
    BY DEF HandlerStep, LatePeak, NewPeak, Announced, AskTarget, BacktrackFetch, RespondBlock,
           BatchFirst, BatchFetch, BatchAdd
<1>3. QED
    BY <1>1, <1>2 DEF PeersOK, GoodNext

LEMMA SyncStepInv ==
    ASSUME PeersOK, GoodFor(store, task, sync), NEW s \in Syncs, SyncStep(s)
    PROVE  GoodNext /\ PeersOK'
<1>1. GoodNext
    BY SelectPeakKeeps, AskPeersKeeps, ReceiveProofKeeps, ValidateProofKeeps, StartPipeKeeps,
       ValidateBatchKeeps, EndPipeKeeps, FinishSyncKeeps DEF SyncStep
<1>2. stage' = stage /\ waiting' = waiting
    BY DEF SyncStep, SelectPeak, AskPeers, ReceiveProof, ValidateProof, StartPipe, ValidateBatch,
           EndPipe, FinishSync
<1>3. QED
    BY <1>1, <1>2 DEF PeersOK, GoodNext

LEMMA NextInv == Inv /\ [Next]_vars => Inv'
<1> SUFFICES ASSUME Inv, [Next]_vars PROVE Inv'
    OBVIOUS
<1>0. PeersOK /\ GoodFor(store, task, sync)
    BY DEF Inv, GoodFor
<1>1. ASSUME NEW p \in Peers, Disconnect(p) PROVE Inv'
  <2>1. Quiet /\ Closed(p, store, task, sync, pipe)
      BY <1>1 DEF Disconnect, Quiet
  <2>2. GoodNext
      BY <1>0, <2>1, QuietClosed
  <2>3. [peer |-> p, tip |-> Tip(p)] \in [peer : Peers, tip : Blocks]
      BY <1>0, TipIsBlock
  <2>4. PeersOK'
      BY <1>0, <1>1, <2>2, <2>3 DEF Disconnect, PeersOK, GoodNext
  <2>5. QED
      BY <2>2, <2>4 DEF Inv, GoodNext, GoodFor
<1>2. ASSUME NEW p \in Peers, Reconnect(p) PROVE Inv'
  <2>1. UNCHANGED <<chain, store, task, sync, lock, leaked, cleared>> /\ PeersOK'
      BY <1>0, <1>2 DEF Reconnect, PeersOK
  <2>2. QED
      BY <1>0, <2>1 DEF Inv, GoodFor, Done, chain
<1>3. ASSUME NEW p \in Peers, Advance(p) PROVE Inv'
  <2>1. UNCHANGED <<chain, store, task, sync, lock, leaked, cleared>> /\ PeersOK'
      BY <1>0, <1>3, SyncAssumption DEF Advance, PeersOK
  <2>2. QED
      BY <1>0, <2>1 DEF Inv, GoodFor, Done, chain
<1>4. ASSUME NEW h \in Handlers, HandlerStep(h) \/ \E p \in Peers : NewPeak(h, p) PROVE Inv'
    BY <1>0, <1>4, HandlerStepInv DEF Inv, GoodNext, GoodFor
<1>5. ASSUME NEW s \in Syncs, SyncStep(s) PROVE Inv'
    BY <1>0, <1>5, SyncStepInv DEF Inv, GoodNext, GoodFor
<1>6. CASE FetchStep
  <2>1. GoodNext
      BY <1>0, <1>6, FetchKeeps
  <2>2. stage' = stage /\ waiting' = waiting
      BY <1>6 DEF FetchStep, FetchBatch, FetchFails, PutBatch, PutNone
  <2>3. QED
      BY <1>0, <2>1, <2>2 DEF Inv, PeersOK, GoodNext, GoodFor
<1>7. CASE UNCHANGED vars
    BY <1>0, <1>7 DEF vars, Inv, PeersOK, GoodFor, Done
<1>8. QED
    BY <1>1, <1>2, <1>3, <1>4, <1>5, <1>6, <1>7 DEF Next

LEMMA InvHolds == Spec => []Inv
<1>1. Inv /\ [Next]_vars => Inv'
    BY NextInv
<1>2. QED
    BY <1>1, InitInv, PTL DEF Spec

--------------------------------------------------------------------------------
(***************************************************************************)
(* The flags long_sync and sync_mode belong to the one long sync that      *)
(* runs, and the blockchain lock to the one that has reached the blocks,   *)
(* however the handlers and the long syncs that still finish interleave.   *)
(***************************************************************************)
THEOREM FlagsTheorem == Spec => []FlagsMatch
<1>1. Inv => FlagsMatch
  <2> SUFFICES ASSUME Inv PROVE FlagsMatch
      OBVIOUS
  <2> DEFINE running == {s \in Syncs : sync[s].pc \in Running}
  <2>1. FlagsOK(store, sync, lock) /\ StoreOK(store)
      BY DEF Inv, Good
  <2>2. Cardinality(running) = (IF store.longSync THEN 1 ELSE 0)
    <3>1. CASE store.longSync
      <4>1. PICK s \in Syncs : sync[s].pc \in Running
          BY <2>1, <3>1 DEF FlagsOK
      <4>2. running = {s}
          BY <2>1, <4>1 DEF FlagsOK
      <4>3. QED
          BY <3>1, <4>2, FS_Singleton
    <3>2. CASE ~store.longSync
      <4>1. running = {}
          BY <2>1, <3>2 DEF FlagsOK
      <4>2. QED
          BY <3>2, <4>1, FS_EmptySet
    <3>3. QED
        BY <3>1, <3>2
  <2>3. store.syncMode <=> \E s \in running : sync[s].pc \in {"lock", "sync"}
      BY <2>1 DEF FlagsOK, Running, HasTarget
  <2>4. store.syncMode = (\E s \in running : sync[s].pc \in {"lock", "sync"})
      BY <2>1, <2>3 DEF StoreOK
  <2>5. QED
      BY <2>1, <2>2, <2>4 DEF FlagsMatch, FlagsOK, Running
<1>2. QED
    BY <1>1, InvHolds, PTL

(***************************************************************************)
(* batch_syncing and backtrack_syncing name exactly the peers that the     *)
(* handlers of new_peak sync from, on every way out of a handler, except   *)
(* the peers of the one request that raises outside the try.               *)
(***************************************************************************)
THEOREM SyncingReleasedTheorem == Spec => []SyncingReleased
<1>1. Inv => SyncingReleased
    BY DEF Inv, Good, ReleasedOK, SyncingReleased, Batching, Backtracking
<1>2. QED
    BY <1>1, InvHolds, PTL

(***************************************************************************)
(* The peak has been through peak_post_processing, unless a long sync has  *)
(* yet to finish or a batch failed half way.                               *)
(***************************************************************************)
THEOREM PostProcessedTheorem == Spec => []PostProcessed
<1>1. Inv => PostProcessed
    BY DEF Inv, Good, PostOK, Done, PostProcessed
<1>2. QED
    BY <1>1, InvHolds, PTL

(***************************************************************************)
(* peak_to_peer keeps its limit, and at it the entry of the block that a   *)
(* long sync goes to.                                                      *)
(***************************************************************************)
THEOREM TargetKeptTheorem == Spec => []TargetKept
<1>1. Inv => TargetKept
    BY DEF Inv, Good, TargetOK, StoreOK, TargetKept, TargetInUse
<1>2. QED
    BY <1>1, InvHolds, PTL
================================================================================
