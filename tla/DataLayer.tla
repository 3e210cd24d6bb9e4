------------------------------ MODULE DataLayer ------------------------------
(***************************************************************************)
(* The data layer (lotus/data_layer/data_layer.py, download_data.py) for   *)
(* one store.  The owner's changes make a pending root, its wallet spends  *)
(* the store's singleton to publish it, and _update_confirmation_status    *)
(* commits it when the spend is on the chain.  Every host writes files of  *)
(* its generations, and follows the chain by the delta files of the others.*)
(*                                                                         *)
(* The tasks of a host are periodically_manage_data and the requests it    *)
(* serves.  They share two locks, that of the database (db_wrapper.lock,   *)
(* held for a whole transaction) and DataLayer.lock around                 *)
(* _update_confirmation_status.  A step ends at an await at which another  *)
(* task may get in the way: waiting for a lock, a file, the wallet.        *)
(*                                                                         *)
(* Of the wallet there is what decides which spends of the singleton may   *)
(* be confirmed.  The chain is external: confirmed spends are never        *)
(* undone, and all hosts see the same chain.                               *)
(***************************************************************************)
EXTENDS DataStore

CONSTANTS
    Hosts,           \* data layers
    Owner,           \* the host whose wallet owns the store's singleton
    Leaves,          \* the keys with their values that are inserted
    Requests,        \* the kinds of requests made
    Calls,           \* bound: requests that a host serves at one time
    MaxGeneration,   \* bound: generations on the chain
    MaxChanges,      \* bound: changes in a batch
    MaxEvents,       \* bound: requests, crashes and failed downloads
    MaxFaults        \* bound: crashes and failed downloads among them

ASSUME DataLayerAssumption ==
    /\ Owner \in Hosts
    /\ Leaves \subseteq Terminals
    /\ Requests \subseteq {"batch", "offer", "take", "cancel", "cancel_secure",
                        "value", "keys"}
    /\ {MaxGeneration, MaxChanges, MaxEvents, MaxFaults} \subseteq Nat

VARIABLES
    chain,     \* the roots of the singleton, generation 0 first
    spends,    \* spends of the singleton that may be confirmed
    db,        \* host -> the committed tables
    txn,       \* host -> the tables as the task that has the db lock sees them
    locks,     \* host -> who holds the db lock, and DataLayer.lock
    calls,     \* host -> the requests that are being served
    rpc,       \* host -> the transaction of the request that has one open
    mgr,       \* host -> where periodically_manage_data is
    files,     \* host -> the files it serves, with the nodes in them
    ignored,   \* host -> servers that are not asked until ignore_till
    spent,     \* what the bounds count
    marks      \* history: what went wrong, see below

vars == <<chain, spends, db, txn, locks, calls, rpc, mgr, files, ignored, spent, marks>>

Latest == Len(chain) - 1
RootAt(g) == chain[g + 1]

Done == [pc |-> "idle", kind |-> "none", root |-> Empty]
Idle == [pc |-> "idle", kind |-> "none", hint |-> {}, base |-> 0, left |-> 0, root |-> Empty]
Asleep == [pc |-> "sleep", target |-> 0, servers |-> {}, from |-> Owner, gen |-> 0,
           roots |-> <<>>, written |-> FALSE]

(* The name of a file; get_full_tree_filename and get_delta_filename.      *)
File(kind, hash, generation) == [kind |-> kind, hash |-> hash, generation |-> generation]

(* A file is written, in place of one that has its name. *)
WithFile(fs, f, content) == Inserted([x \in {f} |-> content], fs)

(* The bounds on what goes wrong. *)
MayFail == spent.events < MaxEvents /\ spent.faults < MaxFaults
OneFault == [events |-> spent.events + 1, faults |-> spent.faults + 1]

-----------------------------------------------------------------------------
(* _update_confirmation_status *)

(* A mutant of GenerationShift: the generations whose root is the local    *)
(* one are counted wherever they are.                                      *)
SameRoots(s) ==
    Cardinality({g \in TreeGeneration(s)..Latest : RootAt(g) = TreeRoot(s)})

(* The generations on the chain above the local one that have its root. *)
GenerationShift(s) ==
    LET new == {g \in TreeGeneration(s) + 1..Latest :
                    \A i \in TreeGeneration(s) + 1..g : RootAt(i) = TreeRoot(s)}
    IN  Cardinality(new)

(* The tables after it.  There are none if it raises: the shifted root     *)
(* meets a pending one.                                                    *)
UpdateConfirmationStatus(s) ==
    LET next == TreeGeneration(s) + 1
        matches == next \in PendingRoots(s) /\ s.root[next].hash = RootAt(next)
        created == 0 \in PendingRoots(s) /\ s.root[0].hash = Empty
        shift == GenerationShift(s)
    IN  IF chain = <<>> \/ TreeGeneration(s) >= Latest \/ (~TreeIdExists(s) /\ ~created)
        THEN {s}
        ELSE IF ~TreeIdExists(s)
        THEN {ClearPendingRoots(t) : t \in {CommitRoot(s, 0)}}
        ELSE IF shift > 0
        THEN {ClearPendingRoots(t) : t \in IF ShiftFits(s, shift) THEN {ShiftRoot(s, shift)} ELSE {}}
        ELSE IF matches
        THEN {ClearPendingRoots(BuildAncestorTable(t)) : t \in {CommitRoot(s, next)}}
        ELSE {ClearPendingRoots(s)}

-----------------------------------------------------------------------------
(* Locks and transactions *)

Free(h, lock) == locks[h][lock] = "free"

(* A task gets a lock, or gives one back. *)
Lock(h, lock, task) == locks' = [locks EXCEPT ![h][lock] = task]
Unlock(h, task) ==
    locks' = [locks EXCEPT ![h] = [l \in {"db", "dl"} |->
                  IF locks[h][l] = task THEN "free" ELSE locks[h][l]]]

(* A transaction of one step, by a task that may hold DataLayer.lock and   *)
(* gives it back.                                                          *)
Transaction(h, s) ==
    /\ db' = [db EXCEPT ![h] = s]
    /\ txn' = [txn EXCEPT ![h] = s]

Rpc(h, r) == rpc' = [rpc EXCEPT ![h] = r]
Call(h, c, r) == calls' = [calls EXCEPT ![h][c] = r]

(* The request whose transaction is open goes on. *)
Leave(h, r) ==
    calls' = [calls EXCEPT ![h] = [c \in Calls |-> IF calls[h][c].pc = "txn" THEN r ELSE calls[h][c]]]

Mgr(h, m) == mgr' = [mgr EXCEPT ![h] = m]

(* A mutant of Raise: the locks are not given back. *)
RaiseHoldingLocks(h) ==
    /\ Rpc(h, Idle)
    /\ Leave(h, Done)
    /\ txn' = [txn EXCEPT ![h] = db[h]]
    /\ UNCHANGED <<db, locks>>

(* The exception of a request ends its transaction. *)
Raise(h) ==
    /\ Rpc(h, Idle)
    /\ Leave(h, Done)
    /\ Unlock(h, "rpc")
    /\ txn' = [txn EXCEPT ![h] = db[h]]
    /\ UNCHANGED db

-----------------------------------------------------------------------------
(* Requests *)

(* A request comes in.  get_keys, get_keys_values, get_local_root and      *)
(* get_ancestors want DataLayer.lock first, the others a transaction.      *)
Arrive(h, kind) ==
    /\ kind \in Requests \cap {"batch", "offer", "take", "value", "keys"}
    /\ kind \notin {"value", "keys"} => h = Owner
    /\ \E c \in Calls : calls[h][c].pc = "idle"
    /\ spent.events < MaxEvents
    /\ spent' = [spent EXCEPT !.events = @ + 1]
    /\ Call(h, CHOOSE c \in Calls : calls[h][c].pc = "idle",
               [pc |-> IF kind = "keys" THEN "lock" ELSE "begin", kind |-> kind, root |-> Empty])
    /\ UNCHANGED <<chain, spends, db, txn, locks, rpc, mgr, files, ignored, marks>>

(* batch_insert, make_offer, take_offer and get_value open a transaction   *)
(* and then want DataLayer.lock.                                           *)
BeginTransaction(h, c) ==
    /\ calls[h][c].pc = "begin" /\ Free(h, "db")
    /\ Lock(h, "db", "rpc")
    /\ Call(h, c, [calls[h][c] EXCEPT !.pc = "txn"])
    /\ Rpc(h, [Idle EXCEPT !.pc = "want_dl", !.kind = calls[h][c].kind])
    /\ UNCHANGED <<chain, spends, db, txn, mgr, files, ignored, spent, marks>>

(* get_keys and its like, and publish_update, want the locks the other way *)
(* round.                                                                  *)
TakeLock(h, c) ==
    /\ calls[h][c].pc = "lock" /\ Free(h, "dl")
    /\ Lock(h, "dl", "call")
    /\ Call(h, c, [calls[h][c] EXCEPT !.pc = "want_db"])
    /\ UNCHANGED <<chain, spends, db, txn, rpc, mgr, files, ignored, spent, marks>>

(* The status is updated inside the transaction, for an offer once more    *)
(* for every key.  Changes are refused while there is a pending root, and  *)
(* get_value raises if the key is not there, which undoes the update.      *)
OfOffer(kind) == kind \in {"offer", "take"}

ConfirmInTransaction(h) ==
    /\ rpc[h].pc = "want_dl" /\ Free(h, "dl")
    /\ \/ \E s \in UpdateConfirmationStatus(txn[h]) :
             \/ /\ rpc[h].kind # "value" /\ TreeIdExists(s)
                /\ PendingRoots(s) = {} \/ OfOffer(rpc[h].kind)
                /\ txn' = [txn EXCEPT ![h] = s]
                /\ \/ OfOffer(rpc[h].kind) /\ UNCHANGED rpc
                   \/ Rpc(h, [rpc[h] EXCEPT !.pc = "changing", !.hint = KeysValues(TreeRoot(s)),
                                            !.base = TreeGeneration(s),
                                            !.left = IF PendingRoots(s) = {} THEN MaxChanges ELSE 0])
                /\ UNCHANGED <<db, locks, calls>>
             \/ /\ rpc[h].kind = "value"
                /\ TreeIdExists(s) /\ KeysValues(TreeRoot(s)) # {}
                /\ Transaction(h, s)
                /\ Unlock(h, "rpc")
                /\ Rpc(h, Idle)
                /\ Leave(h, Done)
             \/ /\ rpc[h].kind # "value" => ~TreeIdExists(s) \/ PendingRoots(s) # {}
                /\ Raise(h)
       \/ /\ UpdateConfirmationStatus(txn[h]) = {}
          /\ Raise(h)
    /\ UNCHANGED <<chain, spends, mgr, files, ignored, spent, marks>>

(* One insertion of insert_batch: autoinsert at some leaf of the tree, or  *)
(* insert at the leaf the caller names, which may be any leaf in the node  *)
(* table.  Hashes has no trees with two leaves of one key.                 *)
ChangeInsert(h, leaf, reference, side) ==
    LET s == txn[h]
    IN  /\ rpc[h].pc = "changing" /\ rpc[h].left > 0
        /\ \A n \in rpc[h].hint : Key[n] # Key[leaf]
        /\ \A n \in KeysValues(TreeRoot(s)) \cup {reference} : Key[n] # Key[leaf]
        /\ TreeRoot(s) # Empty
        /\ InsertFits(s, reference)
        /\ OfOffer(rpc[h].kind) => reference \in Tree(TreeRoot(s))
        /\ txn' = [txn EXCEPT ![h] = Insert(s, leaf, reference, side)]
        /\ Rpc(h, [rpc[h] EXCEPT !.hint = @ \cup {leaf}, !.left = @ - 1])
        /\ marks' = [marks EXCEPT !.misplaced = @ \/ reference \notin Tree(TreeRoot(s))]
        /\ UNCHANGED <<chain, spends, db, locks, calls, mgr, files, ignored, spent>>

ChangeInsertFirst(h, leaf) ==
    /\ rpc[h].pc = "changing" /\ rpc[h].left > 0
    /\ TreeRoot(txn[h]) = Empty
    /\ txn' = [txn EXCEPT ![h] = InsertFirst(txn[h], leaf)]
    /\ Rpc(h, [rpc[h] EXCEPT !.hint = {n \in @ : Key[n] # Key[leaf]} \cup {leaf}, !.left = @ - 1])
    /\ UNCHANGED <<chain, spends, db, locks, calls, mgr, files, ignored, spent, marks>>

ChangeDelete(h, leaf) ==
    /\ rpc[h].pc = "changing" /\ rpc[h].left > 0
    /\ leaf \in rpc[h].hint
    /\ ReachesRoot(txn[h], Ancestors(txn[h], leaf))
    /\ txn' = [txn EXCEPT ![h] = Delete(txn[h], leaf)]
    /\ Rpc(h, [rpc[h] EXCEPT !.hint = @ \ {leaf}, !.left = @ - 1])
    /\ UNCHANGED <<chain, spends, db, locks, calls, mgr, files, ignored, spent, marks>>

(* A change that raises, and with it the batch: a key that is there, a     *)
(* reference that leads elsewhere.                                         *)
ChangeRaises(h) ==
    /\ rpc[h].pc = "changing"
    /\ Raise(h)
    /\ UNCHANGED <<chain, spends, mgr, files, ignored, spent, marks>>

(* The end of insert_batch: the generations of the single changes go, and  *)
(* the last root is pending.  A batch without effect raises.               *)
BatchResult(h) ==
    InsertRootWithAncestors(RollbackToGeneration(txn[h], rpc[h].base),
                            TreeRoot(txn[h]), "PENDING")

NoEffect(h) == TreeRoot(txn[h]) = txn[h].root[rpc[h].base].hash

(* get_spendable_singleton_info of the wallet: it has no record of a spend *)
(* that is not confirmed.                                                  *)
Spendable == \A sp \in spends : ~sp.recorded

EndBatch(h) ==
    /\ rpc[h].pc = "changing" /\ rpc[h].kind = "batch"
    /\ ~NoEffect(h)
    /\ \E s \in {BatchResult(h)} : Transaction(h, s)
    /\ Unlock(h, "rpc")
    /\ Rpc(h, Idle)
    /\ Leave(h, [pc |-> "lock", kind |-> "batch", root |-> Empty])
    /\ UNCHANGED <<chain, spends, mgr, files, ignored, spent, marks>>

(* build_offer_changelist gives insertions, and a deletion only where a    *)
(* key gets another value.  Without any the root on the chain is offered,  *)
(* which has to have the keys.                                             *)
OnlyInserts(h) ==
    \A n \in KeysValues(txn[h].root[rpc[h].base].hash) : \E m \in rpc[h].hint : Key[m] = Key[n]

EndOfferChanges(h) ==
    /\ rpc[h].pc = "changing" /\ OfOffer(rpc[h].kind)
    /\ OnlyInserts(h)
    /\ \/ /\ TreeGeneration(txn[h]) = rpc[h].base
          /\ RootAt(Latest) \in txn[h].node
          /\ rpc[h].hint \cap Tree(RootAt(Latest)) # {}
          /\ Rpc(h, [rpc[h] EXCEPT !.pc = "prove", !.root = RootAt(Latest)])
          /\ UNCHANGED txn
       \/ /\ ~NoEffect(h)
          /\ \E s \in {BatchResult(h)} : txn' = [txn EXCEPT ![h] = s]
          /\ Rpc(h, [rpc[h] EXCEPT !.pc = "prove", !.root = TreeRoot(txn[h])])
    /\ UNCHANGED <<chain, spends, db, locks, calls, mgr, files, ignored, spent, marks>>

(* get_key_value_hash updates the status again, with the new root pending. *)
(* The singleton is spent twice for an offer: the first spend announces    *)
(* the new root.  The wallet keeps no record of it (make_update_offer),    *)
(* whether the offer is made or, after the transaction, taken.             *)
ProveOffer(h) ==
    /\ rpc[h].pc = "prove" /\ Free(h, "dl")
    /\ \/ \E s \in UpdateConfirmationStatus(txn[h]) :
             /\ Transaction(h, s)
             /\ Unlock(h, "rpc")
             /\ Rpc(h, Idle)
             /\ \/ /\ rpc[h].kind = "offer" /\ Spendable
                   /\ spends' = spends \cup {[roots |-> <<rpc[h].root, rpc[h].root>>, recorded |-> FALSE]}
                   /\ Leave(h, Done)
                \/ /\ rpc[h].kind = "take"
                   /\ Leave(h, [pc |-> "send", kind |-> "take", root |-> rpc[h].root])
                   /\ UNCHANGED spends
       \/ /\ \/ UpdateConfirmationStatus(txn[h]) = {}
             \/ rpc[h].kind = "offer" /\ ~Spendable
          /\ Raise(h)
          /\ UNCHANGED spends
    /\ UNCHANGED <<chain, mgr, files, ignored, spent, marks>>

(* The status is updated under DataLayer.lock, in a transaction of its own;*)
(* publish_update then goes on.                                            *)
ConfirmUnderLock(h, c) ==
    /\ calls[h][c].pc = "want_db" /\ Free(h, "db")
    /\ Unlock(h, "call")
    /\ \/ \E s \in UpdateConfirmationStatus(db[h]) :
             /\ Transaction(h, s)
             /\ Call(h, c, IF calls[h][c].kind = "batch" THEN [calls[h][c] EXCEPT !.pc = "read"] ELSE Done)
       \/ /\ UpdateConfirmationStatus(db[h]) = {}
          /\ Call(h, c, Done)
          /\ UNCHANGED <<db, txn>>
    /\ UNCHANGED <<chain, spends, rpc, mgr, files, ignored, spent, marks>>

PublishRead(h, c) ==
    LET pending == PendingRoots(db[h])
    IN  /\ calls[h][c].pc = "read" /\ Free(h, "db")
        /\ Call(h, c, IF pending = {} THEN Done
                      ELSE [calls[h][c] EXCEPT !.pc = "send", !.root = db[h].root[Max(pending)].hash])
        /\ UNCHANGED <<chain, spends, db, txn, locks, rpc, mgr, files, ignored, spent, marks>>

(* dl_update_root, or take_offer of the wallet; it refuses while a spend   *)
(* is under way that it has recorded.                                      *)
PublishSend(h, c) ==
    LET root == calls[h][c].root
        spend == IF calls[h][c].kind = "take" THEN [roots |-> <<root, root>>, recorded |-> FALSE]
                 ELSE [roots |-> <<root>>, recorded |-> TRUE]
    IN
    /\ calls[h][c].pc = "send"
    /\ spends' = IF Spendable THEN spends \cup {spend} ELSE spends
    /\ Call(h, c, Done)
    /\ UNCHANGED <<chain, db, txn, locks, rpc, mgr, files, ignored, spent, marks>>

(* cancel_offer.  In secure mode the wallet spends the singleton, with the *)
(* root it has; otherwise the pending root is dropped, and the offer can   *)
(* still be taken.                                                         *)
CancelOffer(h) ==
    /\ "cancel" \in Requests /\ h = Owner
    /\ Free(h, "db")
    /\ \E sp \in spends : ~sp.recorded
    /\ spent.events < MaxEvents
    /\ spent' = [spent EXCEPT !.events = @ + 1]
    /\ Transaction(h, ClearPendingRoots(db[h]))
    /\ marks' = [marks EXCEPT !.dropped = @ \cup {db[h].root[g].hash : g \in PendingRoots(db[h])}]
    /\ UNCHANGED <<chain, spends, locks, calls, rpc, mgr, files, ignored>>

CancelOfferSecurely(h) ==
    /\ "cancel_secure" \in Requests /\ h = Owner
    /\ \E sp \in spends : ~sp.recorded
    /\ Spendable
    /\ spent.events < MaxEvents
    /\ spent' = [spent EXCEPT !.events = @ + 1]
    /\ spends' = spends \cup {[roots |-> <<RootAt(Latest)>>, recorded |-> TRUE]}
    /\ UNCHANGED <<chain, db, txn, locks, calls, rpc, mgr, files, ignored, marks>>

-----------------------------------------------------------------------------
(* periodically_manage_data: fetch_and_validate, then upload_files *)

(* A step of one of the two: it waits for the locks, and updates the       *)
(* status; if this raises the round is over.                               *)
ManageLock(h) ==
    /\ mgr[h].pc \in {"fetch_dl", "upload_dl"} /\ Free(h, "dl")
    /\ Lock(h, "dl", "mgr")
    /\ Mgr(h, [mgr[h] EXCEPT !.pc = IF @ = "fetch_dl" THEN "fetch_db" ELSE "upload_db"])
    /\ UNCHANGED <<chain, spends, db, txn, calls, rpc, files, ignored, spent, marks>>

ManageConfirm(h) ==
    /\ mgr[h].pc \in {"fetch_db", "upload_db"} /\ Free(h, "db")
    /\ Unlock(h, "mgr")
    /\ \/ \E s \in UpdateConfirmationStatus(db[h]) :
             /\ Transaction(h, s)
             /\ Mgr(h, [mgr[h] EXCEPT !.pc = IF @ = "fetch_db" THEN "create" ELSE "upload"])
       \/ /\ UpdateConfirmationStatus(db[h]) = {}
          /\ Mgr(h, Asleep)
          /\ UNCHANGED <<db, txn>>
    /\ UNCHANGED <<chain, spends, calls, rpc, files, ignored, spent, marks>>

(* The singleton is read before the locks are taken. *)
FetchBegin(h) ==
    /\ mgr[h].pc = "sleep"
    /\ Mgr(h, [mgr[h] EXCEPT !.pc = IF Latest > 0 THEN "fetch_dl" ELSE "fetched",
                             !.target = Latest])
    /\ UNCHANGED <<chain, spends, db, txn, locks, calls, rpc, files, ignored, spent, marks>>

(* create_tree for a store that is new here, and the servers to ask. *)
FetchCreate(h) ==
    /\ mgr[h].pc = "create" /\ Free(h, "db")
    /\ IF TreeIdExists(db[h]) THEN UNCHANGED <<db, txn>>
       ELSE Transaction(h, InsertRoot(db[h], Empty, "COMMITTED"))
    /\ Mgr(h, [mgr[h] EXCEPT !.pc = "server", !.servers = Hosts \ ({h} \cup ignored[h])])
    /\ UNCHANGED <<chain, spends, locks, calls, rpc, files, ignored, spent, marks>>

(* The next server: what is missing is computed anew. *)
FetchServer(h, server) ==
    LET gen == TreeGeneration(db[h])
    IN  /\ mgr[h].pc = "server" /\ Free(h, "db")
        /\ server \in mgr[h].servers /\ gen < mgr[h].target
        /\ Mgr(h, [mgr[h] EXCEPT !.pc = "download", !.servers = @ \ {server}, !.from = server,
                                 !.gen = gen, !.roots = SubSeq(chain, gen + 2, mgr[h].target + 1)])
        /\ UNCHANGED <<chain, spends, db, txn, locks, calls, rpc, files, ignored, spent, marks>>

(* All is there, or no server is left. *)
FetchEnds(h) ==
    /\ \/ /\ mgr[h].pc = "server" /\ Free(h, "db")
          /\ mgr[h].servers = {} \/ TreeGeneration(db[h]) >= mgr[h].target
       \/ mgr[h].pc = "download" /\ mgr[h].roots = <<>>
    /\ Mgr(h, [Asleep EXCEPT !.pc = "fetched"])
    /\ UNCHANGED <<chain, spends, db, txn, locks, calls, rpc, files, ignored, spent, marks>>

(* insert_from_delta_file asks the server for the delta of the next        *)
(* generation, and keeps the file.  The mark: the server is still writing  *)
(* it.                                                                     *)
Filling(h, generation) == mgr[h].pc = "fill_delta" /\ mgr[h].gen = generation
Wanted(h) == File("delta", Head(mgr[h].roots), mgr[h].gen + 1)

Download(h) ==
    /\ mgr[h].pc = "download" /\ mgr[h].roots # <<>>
    /\ Wanted(h) \in DOMAIN files[mgr[h].from]
    /\ files' = [files EXCEPT ![h] = WithFile(@, Wanted(h), files[mgr[h].from][Wanted(h)])]
    /\ Mgr(h, [mgr[h] EXCEPT !.pc = "insert"])
    /\ marks' = IF Filling(mgr[h].from, mgr[h].gen + 1)
                THEN [marks EXCEPT !.partial = @ \cup {h}] ELSE marks
    /\ UNCHANGED <<chain, spends, db, txn, locks, calls, rpc, ignored, spent>>

(* server_misses_file: there is no such file, or the request fails. *)
DownloadFails(h) ==
    LET missing == Wanted(h) \notin DOMAIN files[mgr[h].from]
    IN  /\ mgr[h].pc = "download" /\ mgr[h].roots # <<>> /\ Free(h, "db")
        /\ missing \/ MayFail
        /\ spent' = IF missing THEN spent ELSE OneFault
        /\ ignored' = [ignored EXCEPT ![h] = @ \cup {mgr[h].from}]
        /\ Mgr(h, [mgr[h] EXCEPT !.pc = "server"])
        /\ UNCHANGED <<chain, spends, db, txn, locks, calls, rpc, files, marks>>

(* The nodes that stay when a file is refused: all, if it is the root that *)
(* does not fit, otherwise those before the one that does not.             *)
KeptNodes(s, content) ==
    IF \A n \in content : Children(n) \subseteq s.node \cup content THEN {content}
    ELSE {kept \in SUBSET content : \A n \in kept : Children(n) \subseteq s.node \cup kept}

(* The root is inserted after the local one, whichever this is by now.  If *)
(* the file does not fit, it is removed, the server is not asked again for *)
(* a while, and generations above the one the download began with go.      *)
InsertDelta(h) ==
    LET s == db[h]
        content == files[h][Wanted(h)]
        hash == Head(mgr[h].roots)
    IN  /\ mgr[h].pc = "insert" /\ Free(h, "db")
        /\ \/ /\ FileFits(s, hash, content)
              /\ Transaction(h, InsertFromFile(s, hash, content))
              /\ Mgr(h, [mgr[h] EXCEPT !.pc = "full"])
              /\ marks' = IF TreeGeneration(s) = mgr[h].gen THEN marks
                          ELSE [marks EXCEPT !.raced = @ \cup {h}]
              /\ UNCHANGED <<files, ignored>>
           \/ /\ ~FileFits(s, hash, content)
              /\ files' = [files EXCEPT ![h] = [f \in DOMAIN @ \ {Wanted(h)} |-> @[f]]]
              /\ ignored' = [ignored EXCEPT ![h] = @ \cup {mgr[h].from}]
              /\ \E kept \in KeptNodes(s, content) :
                    Transaction(h, RollbackToGeneration([s EXCEPT !.node = @ \cup kept], mgr[h].gen))
              /\ Mgr(h, [mgr[h] EXCEPT !.pc = "server"])
              /\ UNCHANGED marks
        /\ UNCHANGED <<chain, spends, locks, calls, rpc, spent>>

FullFile(h) ==
    /\ mgr[h].pc = "full" /\ Free(h, "db")
    /\ files' = [files EXCEPT ![h] =
                    WithFile(@, File("full", Head(mgr[h].roots), mgr[h].gen + 1), {})]
    /\ Mgr(h, [mgr[h] EXCEPT !.pc = "download", !.gen = @ + 1, !.roots = Tail(@)])
    /\ UNCHANGED <<chain, spends, db, txn, locks, calls, rpc, ignored, spent, marks>>

(* upload_files *)
UploadBegin(h) ==
    /\ mgr[h].pc = "fetched"
    /\ Mgr(h, IF chain = <<>> THEN Asleep ELSE [Asleep EXCEPT !.pc = "upload_dl", !.target = Latest])
    /\ UNCHANGED <<chain, spends, db, txn, locks, calls, rpc, files, ignored, spent, marks>>

UploadStart(h) ==
    /\ mgr[h].pc = "upload" /\ Free(h, "db")
    /\ Mgr(h, IF ~TreeIdExists(db[h]) THEN Asleep
              ELSE [mgr[h] EXCEPT !.pc = "write_full",
                                  !.gen = Min({mgr[h].target, TreeGeneration(db[h])})])
    /\ UNCHANGED <<chain, spends, db, txn, locks, calls, rpc, files, ignored, spent, marks>>

(* write_files_for_root, from the last generation down to one whose files  *)
(* are there.                                                              *)
UploadFile(h, kind) == File(kind, db[h].root[mgr[h].gen].hash, mgr[h].gen)

WriteFull(h) ==
    LET f == UploadFile(h, "full")
    IN  /\ mgr[h].pc = "write_full" /\ Free(h, "db")
        /\ IF mgr[h].gen = 0
           THEN /\ Mgr(h, Asleep)
                /\ UNCHANGED files
           ELSE /\ Mgr(h, [mgr[h] EXCEPT !.pc = "write_delta",
                                         !.written = f \notin DOMAIN files[h]])
                /\ files' = [files EXCEPT ![h] = WithFile(@, f, {})]
        /\ UNCHANGED <<chain, spends, db, txn, locks, calls, rpc, ignored, spent, marks>>

(* The file is there, and empty, before its nodes are read. *)
OpenDelta(h) ==
    LET f == UploadFile(h, "delta")
    IN  /\ mgr[h].pc = "write_delta" /\ Free(h, "db")
        /\ IF f \in DOMAIN files[h]
           THEN /\ Mgr(h, IF mgr[h].written
                          THEN [mgr[h] EXCEPT !.pc = "write_full", !.gen = @ - 1] ELSE Asleep)
                /\ UNCHANGED files
           ELSE /\ Mgr(h, [mgr[h] EXCEPT !.pc = "fill_delta"])
                /\ files' = [files EXCEPT ![h] = WithFile(@, f, {})]
        /\ UNCHANGED <<chain, spends, db, txn, locks, calls, rpc, ignored, spent, marks>>

(* A mutant of FillDelta: the generations before the last are left out. *)
FillDeltaOfLast(h) ==
    /\ mgr[h].pc = "fill_delta" /\ Free(h, "db")
    /\ files' = [files EXCEPT ![h][UploadFile(h, "delta")] = DeltaFile(db[h], mgr[h].gen)]
    /\ Mgr(h, Asleep)
    /\ UNCHANGED <<chain, spends, db, txn, locks, calls, rpc, ignored, spent, marks>>

FillDelta(h) ==
    /\ mgr[h].pc = "fill_delta" /\ Free(h, "db")
    /\ files' = [files EXCEPT ![h][UploadFile(h, "delta")] = DeltaFile(db[h], mgr[h].gen)]
    /\ Mgr(h, [mgr[h] EXCEPT !.pc = "write_full", !.gen = @ - 1])
    /\ UNCHANGED <<chain, spends, db, txn, locks, calls, rpc, ignored, spent, marks>>

-----------------------------------------------------------------------------
(* The world *)

(* A spend of the singleton is confirmed; the others can not be any more.  *)
(* If the root stays the same, the wallet makes the spend it has recorded  *)
(* anew, on top of this one, unless something goes wrong.                  *)
Resubmitted(spend) ==
    {sp \in spends \ {spend} :
        sp.recorded /\ \A i \in DOMAIN spend.roots : spend.roots[i] = RootAt(Latest)}

ConfirmSpend(spend) ==
    /\ spend \in spends
    /\ Len(chain) + Len(spend.roots) <= MaxGeneration + 1
    /\ chain' = chain \o spend.roots
    /\ spends' \in {{}, Resubmitted(spend)}
    /\ UNCHANGED <<db, txn, locks, calls, rpc, mgr, files, ignored, spent, marks>>

(* ignore_till passes. *)
AskAgain(h) ==
    /\ ignored[h] # {}
    /\ ignored' = [ignored EXCEPT ![h] = {}]
    /\ UNCHANGED <<chain, spends, db, txn, locks, calls, rpc, mgr, files, spent, marks>>

(* The process dies and starts again.  The mark: it had written files of   *)
(* the later generations, and not yet those of the earlier ones.           *)
Crash(h) ==
    LET m == mgr[h]
        uploading == \/ m.pc = "fill_delta"
                     \/ /\ m.pc \in {"write_full", "write_delta"}
                        /\ m.gen < TreeGeneration(db[h]) \/ m.written
    IN  /\ MayFail
        /\ spent' = OneFault
        /\ calls' = [calls EXCEPT ![h] = [c \in Calls |-> Done]]
        /\ Rpc(h, Idle)
        /\ Mgr(h, Asleep)
        /\ locks' = [locks EXCEPT ![h] = [db |-> "free", dl |-> "free"]]
        /\ txn' = [txn EXCEPT ![h] = db[h]]
        /\ marks' = IF uploading THEN [marks EXCEPT !.torn = @ \cup {h}] ELSE marks
        /\ UNCHANGED <<chain, spends, db, files, ignored>>

(* The owner has created the store; its launcher is not confirmed yet. *)
Init ==
    /\ chain = <<>>
    /\ spends = {[roots |-> <<Empty>>, recorded |-> TRUE]}
    /\ db = [h \in Hosts |-> IF h = Owner THEN InsertRoot(NewStore, Empty, "PENDING") ELSE NewStore]
    /\ txn = db
    /\ locks = [h \in Hosts |-> [db |-> "free", dl |-> "free"]]
    /\ calls = [h \in Hosts |-> [c \in Calls |-> Done]]
    /\ rpc = [h \in Hosts |-> Idle]
    /\ mgr = [h \in Hosts |-> Asleep]
    /\ files = [h \in Hosts |-> <<>>]
    /\ ignored = [h \in Hosts |-> {}]
    /\ spent = [events |-> 0, faults |-> 0]
    /\ marks = [raced |-> {}, torn |-> {}, partial |-> {}, dropped |-> {}, misplaced |-> FALSE]

Request(h) ==
    \/ \E kind \in Requests : Arrive(h, kind)
    \/ CancelOffer(h)
    \/ CancelOfferSecurely(h)

Change(h) ==
    \/ \E leaf \in Leaves :
          \/ ChangeInsertFirst(h, leaf)
          \/ ChangeDelete(h, leaf)
          \/ \E reference \in Leaves, side \in {"LEFT", "RIGHT"} :
                ChangeInsert(h, leaf, reference, side)
    \/ EndBatch(h)
    \/ EndOfferChanges(h)

Serve(h, c) ==
    \/ BeginTransaction(h, c)
    \/ calls[h][c].pc = "txn" /\ (ConfirmInTransaction(h) \/ ChangeRaises(h) \/ ProveOffer(h))
    \/ TakeLock(h, c)
    \/ ConfirmUnderLock(h, c)
    \/ PublishRead(h, c)
    \/ PublishSend(h, c)

Manage(h) ==
    \/ FetchBegin(h)
    \/ ManageLock(h)
    \/ ManageConfirm(h)
    \/ FetchCreate(h)
    \/ \E server \in Hosts : FetchServer(h, server)
    \/ FetchEnds(h)
    \/ Download(h)
    \/ DownloadFails(h)
    \/ InsertDelta(h)
    \/ FullFile(h)
    \/ UploadBegin(h)
    \/ UploadStart(h)
    \/ WriteFull(h)
    \/ OpenDelta(h)
    \/ FillDelta(h)

Next ==
    \/ \E h \in Hosts : \/ Request(h) \/ Change(h) \/ Manage(h) \/ AskAgain(h) \/ Crash(h)
                       \/ \E c \in Calls : Serve(h, c)
    \/ \E spend \in spends : ConfirmSpend(spend)

(* Both locks are first in, first out: a request that waits for one gets   *)
(* it although other tasks come back for it.  A batch ends by itself or    *)
(* raises, so that its changes need no fairness of their own.              *)
Fairness ==
    \A h \in Hosts :
        /\ \A c \in Calls : SF_vars(Serve(h, c))
        /\ WF_vars(Manage(h)) /\ WF_vars(AskAgain(h))

Spec == Init /\ [][Next]_vars /\ Fairness

-----------------------------------------------------------------------------
(* Properties *)

StoreOK(s) ==
    /\ s.node \subseteq Hashes
    /\ DOMAIN s.root \subseteq Nat
    /\ \A g \in DOMAIN s.root : /\ s.root[g].hash \in s.node \cup {Empty}
                                /\ s.root[g].status \in {"PENDING", "COMMITTED"}
    /\ DOMAIN s.ancestors \subseteq s.node \X (DOMAIN s.root)
    /\ \A k \in DOMAIN s.ancestors : s.ancestors[k] \in s.node \cup {Empty}

(* Tables, locks and tasks have their types; the tables satisfy their      *)
(* foreign keys, and generations have no gaps, as _check_roots_are_        *)
(* incrementing wants.                                                     *)
TypeOK ==
    /\ chain \in Seq(Hashes \cup {Empty})
    /\ \A h \in Hosts :
         /\ StoreOK(db[h]) /\ StoreOK(txn[h])
         /\ DOMAIN db[h].root = 0..Cardinality(DOMAIN db[h].root) - 1
         /\ Cardinality(PendingRoots(db[h])) <= 1
         /\ locks[h].db \in {"free", "rpc"} /\ locks[h].dl \in {"free", "call", "mgr"}
         /\ locks[h].db = "free" => txn[h] = db[h]
         /\ \A f \in DOMAIN files[h] : files[h][f] \subseteq Hashes

(* The ancestors table gives the parent of every node of every generation: *)
(* what get_ancestors_optimized reads is what get_ancestors computes from  *)
(* the tree, also while a batch is under way; no row is of a generation    *)
(* that was rolled back.                                                   *)
LineageIsExact ==
    \A h \in Hosts : LET s == txn[h] IN
        /\ \A g \in RootsWith(s, "COMMITTED") : \A n \in Tree(s.root[g].hash) :
             LET parent == OneAncestor(s, n, g)
             IN  IF n = s.root[g].hash THEN parent = Empty
                 ELSE parent \in Tree(s.root[g].hash) /\ n \in Children(parent)
        /\ DOMAIN s.ancestors \subseteq s.node \X (DOMAIN s.root)

(* Inside a batch the tree holds exactly the keys and values of the dict   *)
(* that insert_batch keeps, unless a caller named a leaf outside of it.    *)
HintIsTree ==
    \A h \in Hosts : rpc[h].pc = "changing" /\ ~marks.misplaced =>
        KeysValues(TreeRoot(txn[h])) = rpc[h].hint

(* The committed roots of a host are those of the chain, generation by     *)
(* generation, unless a download was overtaken by a request.               *)
LocalIsChain ==
    \A h \in Hosts \ marks.raced : \A g \in RootsWith(db[h], "COMMITTED") :
        g <= Latest /\ db[h].root[g].hash = RootAt(g)

(* The delta file of a generation holds every node of its tree that the    *)
(* generations before do not have, once it is written; unless a crash left *)
(* one unfinished, or a host fetched one that was.                         *)
DeltaSuffices ==
    \A h \in Hosts : \A f \in DOMAIN files[h] :
        /\ f.kind = "delta" /\ ~Filling(h, f.generation)
        /\ marks.torn = {} /\ marks.raced = {} /\ marks.partial = {}
        => Tree(f.hash) \subseteq
             files[h][f] \cup UNION {Tree(RootAt(g)) : g \in 0..f.generation - 1}

(* A request has the lock of the database and wants DataLayer.lock, and    *)
(* who has that one, periodically_manage_data or another request, wants    *)
(* the lock of the database.                                               *)
Embraced(h) ==
    /\ rpc[h].pc \in {"want_dl", "prove"}
    /\ mgr[h].pc \in {"fetch_db", "upload_db"} \/ \E c \in Calls : calls[h][c].pc = "want_db"

(* Every request is answered, unless two tasks block each other and with   *)
(* them all others of the host.                                            *)
RequestsEnd ==
    \A h \in Hosts, c \in Calls :
        calls[h][c].pc # "idle" ~> (calls[h][c].pc = "idle" \/ Embraced(h))

(* Every host comes to have all generations of the chain (a store without  *)
(* data is not fetched), unless                                            *)
(*  - its tasks block each other, or a pending root is in the way of the   *)
(*    root that is on the chain;                                           *)
(*  - a download was overtaken, an upload interrupted by a crash;          *)
(*  - an offer was taken after its root was dropped.                       *)
Hindered(h) ==
    \/ Embraced(h) \/ UpdateConfirmationStatus(db[h]) = {}
    \/ marks.raced # {} \/ marks.torn # {}
    \/ \E i \in DOMAIN chain : chain[i] \in marks.dropped

CatchesUp ==
    <>[](\A h \in Hosts : \/ Hindered(h) \/ Hindered(Owner)
                          \/ TreeGeneration(db[h]) = Latest
                          \/ h # Owner /\ Latest = 0)
=============================================================================
