------------------------------ MODULE PlotSync ------------------------------
(***************************************************************************)
(* The synchronisation of a harvester's plots with its farmer              *)
(* (lotus/plot_sync).  On the harvester two threads share the Sender: the  *)
(* plot manager's thread, which refreshes the plots and queues messages,   *)
(* and the event loop, where the task Sender._run sends them one at a time *)
(* and waits for each answer.  The farmer's Receiver, one for every        *)
(* connection, collects a delta and applies it when the sync is done.      *)
(*                                                                         *)
(* Handlers of the farmer do not give up control and are one step each.    *)
(* A step of the event loop ends at an await, or where it blocks: in       *)
(* Sender._reset, which needs the plot manager's lock, and in the join of  *)
(* stop_refreshing; `loop' says so.  The connection keeps the order of its *)
(* messages.  A message that waits longer than the timeout is `late'.      *)
(***************************************************************************)
EXTENDS Integers, Sequences, FiniteSets, SequencesExt

CONSTANTS
    Files,        \* paths that may hold a plot
    Lists,        \* reasons for which a file is listed and not loaded
    StartDisks,   \* what the files may be when the harvester starts
    BatchSize,    \* refresh_parameter.batch_size
    MaxClock,     \* bound: up to here seconds may pass while nobody sleeps
    MaxFaults,    \* bound: late answers, lost connections and changed files
    MaxFails,     \* bound: sends to a connection that is closed
    MaxAsserts    \* bound: callbacks that come while _reset blocks the loop

ASSUME PlotSyncAssumption ==
    /\ IsFiniteSet(Files)
    /\ IsFiniteSet(Lists) /\ Lists # {}
    /\ Lists \cap {"start", "loaded", "removed", "done"} = {}
    /\ StartDisks \subseteq [Files -> {"absent", "plot"} \cup Lists]
    /\ BatchSize \in Nat \ {0}
    /\ {MaxClock, MaxFaults, MaxFails, MaxAsserts} \subseteq Nat
    /\ MaxClock > 0

VARIABLES
    disk,     \* file -> "absent", "plot", or the reason it cannot be used
    pm,       \* PlotManager and its thread
    snd,      \* Sender: _sync_id, _last_sync_id, _next_message_id, _messages
    resp,     \* Sender._response
    task,     \* Sender._task: where _run is
    stop,     \* Sender._stop_requested
    loop,     \* "free", or where the harvester's event loop blocks
    closer,   \* the await_closed of on_disconnect has not finished
    hs,       \* the handshake: not under way, sent, or awaiting await_closed
    conn,     \* "down", "up", or closed and on_disconnect still to come
    net,      \* messages to the farmer and answers to the harvester
    rcv,      \* Receiver: current sync, last sync, and what it applied
    clock,    \* time.time(), in seconds
    spent,    \* what the bounds count
    crossed   \* history: the last reset met a refresh whose sync had started

vars == <<disk, pm, snd, resp, task, stop, loop, closer, hs, conn, net, rcv,
          clock, spent, crossed>>

Empty == [l \in Lists |-> {}]
NoAnswer == [code |-> "none", sync |-> 0, id |-> 0]
NoResponse == [kind |-> "none", sync |-> 0, id |-> 0, ans |-> NoAnswer]
NoSync == [sync |-> 0, next |-> 0, adds |-> {}, rems |-> {}, found |-> Empty]
NoMessages == [toFarmer |-> <<>>, toHarvester |-> <<>>]

(* A Receiver as Farmer.on_connect creates it. *)
NewReceiver == [cur |-> NoSync, last |-> 0, plots |-> {}, lists |-> Empty]

Kinds == {"start", "loaded", "removed", "done"} \cup Lists
Messages == [kind : Kinds, sync : Nat, id : Nat, data : SUBSET Files,
             initial : BOOLEAN, last : Nat]
Answers == [code : {"none", "ok", "fail", "expect"}, sync : Nat, id : Nat]

Min2(a, b) == IF a < b THEN a ELSE b

(* The union of a sequence of sets. *)
Union(q) == UNION {q[i] : i \in DOMAIN q}

-----------------------------------------------------------------------------
(* The sender's queue, as both threads change it. *)

(* list_to_batches; an empty list still makes one message in               *)
(* _add_list_batched.                                                      *)
Batches(S) ==
    LET q == SetToSeq(S)
        n == (Len(q) + BatchSize - 1) \div BatchSize
    IN  [i \in 1..n |-> {q[j] : j \in ((i - 1) * BatchSize + 1)..Min2(i * BatchSize, Len(q))}]

AddListBatched(S) == IF S = {} THEN << {} >> ELSE Batches(S)

(* A message's id is its place in the queue. *)
Message(s, id, kind, data, initial) ==
    [kind |-> kind, sync |-> s.sync, id |-> id, data |-> data, initial |-> initial,
     last |-> IF kind = "start" THEN s.last ELSE 0]

(* _add_message *)
AddMessage(s, kind, data, initial) ==
    [s EXCEPT !.msgs = Append(@, Message(s, Len(s.msgs), kind, data, initial))]

AddMessages(s, kind, batches) ==
    [s EXCEPT !.msgs = @ \o [i \in 1..Len(batches) |->
                                Message(s, Len(s.msgs) + i - 1, kind, batches[i], FALSE)]]

(* sync_start once no sync is active, at time t. *)
SyncStart(s, initial, t) ==
    AddMessage([s EXCEPT !.sync = IF t = s.last THEN t + 1 ELSE t],
               "start", {}, initial)

(* process_batch *)
ProcessBatch(s, loaded, remaining) ==
    IF loaded # {} \/ remaining = 0 THEN AddMessage(s, "loaded", loaded, FALSE) ELSE s

(* The lists, one after the other. *)
AddLists(s, lists) ==
    LET order == SetToSeq(Lists)
        added[k \in 0..Len(order)] ==
            IF k = 0 THEN s
            ELSE AddMessages(added[k - 1], order[k], AddListBatched(lists[order[k]]))
    IN  added[Len(order)]

(* sync_done *)
SyncDone(s, removed, lists) ==
    AddMessage(AddLists(AddMessages(s, "removed", AddListBatched(removed)), lists),
               "done", {}, FALSE)

(* The first half of _reset, before it needs the plot manager. *)
Cleared == [sync |-> 0, last |-> 0, next |-> 0, msgs |-> <<>>]

(* The second half: a sync of everything the plot manager has. *)
Filled(t) ==
    LET loads == Batches(pm.plots)
    IN  SyncDone(AddMessages(SyncStart(Cleared, TRUE, t), "loaded", loads), {}, pm.lists)

(* Mutant of _finalize_sync: the sync stays active.                        *)
FinalizedStaysActive == [sync |-> snd.sync, last |-> snd.sync, next |-> 0, msgs |-> <<>>]

(* _finalize_sync *)
Finalized == [sync |-> 0, last |-> snd.sync, next |-> 0, msgs |-> <<>>]

(* int(time.time()) *)
Times == {clock} \cup {t \in {clock + 1} : t <= MaxClock}

-----------------------------------------------------------------------------
(* The plot manager's thread, _refresh_task. *)

InRefresh == pm.pc \in {"drop", "batch", "callback", "done"}

(* A refresh is due: the paths are listed before the callback.  From one   *)
(* refresh, or PlotManager.reset, to the next takes longer than _reset.    *)
PmBegin ==
    /\ pm.pc = "idle" /\ pm.enabled /\ loop # "reset"
    /\ pm' = [pm EXCEPT !.pc = "start", !.paths = {f \in Files : disk[f] # "absent"},
                        !.removed = {}]
    /\ UNCHANGED <<disk, snd, resp, task, stop, loop, closer, hs, conn, net, rcv,
                   clock, spent, crossed>>

(* The callback for `started': sync_start waits until no sync is active. *)
PmStarted ==
    /\ pm.pc = "start" /\ snd.sync = 0
    /\ \E t \in Times :
        /\ snd' = SyncStart(snd, pm.initial, t)
        /\ clock' = t
    /\ pm' = [pm EXCEPT !.pc = "drop"]
    /\ crossed' = (crossed /\ ~pm.initial)
    /\ UNCHANGED <<disk, resp, task, stop, loop, closer, hs, conn, net, rcv, spent>>

(* ... or is told to stop, and the refresh goes on without a sync. *)
PmStartAborted ==
    /\ pm.pc = "start" /\ snd.sync # 0 /\ stop
    /\ pm' = [pm EXCEPT !.pc = "drop"]
    /\ UNCHANGED <<disk, snd, resp, task, stop, loop, closer, hs, conn, net, rcv,
                   clock, spent, crossed>>

(* Plots and listed files that are gone are dropped. *)
PmDrop ==
    /\ pm.pc = "drop"
    /\ pm' = [pm EXCEPT !.pc = IF pm.paths = {} THEN "done" ELSE "batch",
                        !.plots = @ \cap pm.paths,
                        !.lists = [l \in Lists |-> @[l] \cap pm.paths],
                        !.removed = pm.plots \ pm.paths]
    /\ UNCHANGED <<disk, snd, resp, task, stop, loop, closer, hs, conn, net, rcv,
                   clock, spent, crossed>>

(* refresh_batch: files that are new are opened, and those that could not  *)
(* be used before when it is time to try again.  When refreshing has been  *)
(* switched off no file is read and the batches end.                       *)
PmBatch ==
    /\ pm.pc = "batch"
    /\ \E batch \in SUBSET pm.paths :
        /\ Cardinality(batch) = Min2(BatchSize, Cardinality(pm.paths))
        /\ \E tried \in SUBSET (batch \ pm.plots) :
            /\ IF pm.enabled THEN (batch \ pm.plots) \ tried \subseteq Union(pm.lists)
               ELSE tried = {}
            /\ LET loaded == {f \in tried : disk[f] = "plot"}
               IN  pm' = [pm EXCEPT
                     !.pc = IF pm.enabled THEN "callback" ELSE "done",
                     !.plots = @ \cup loaded,
                     !.loaded = loaded,
                     !.paths = @ \ batch,
                     !.lists = [l \in Lists |-> (@[l] \ loaded) \cup {f \in tried : disk[f] = l}]]
    /\ UNCHANGED <<disk, snd, resp, task, stop, loop, closer, hs, conn, net, rcv,
                   clock, spent, crossed>>

(* The assertion of _add_message fails when no sync is active; the         *)
(* exception brings the thread to PlotManager.reset.                       *)
PmReset ==
    /\ spent.asserts < MaxAsserts
    /\ spent' = [spent EXCEPT !.asserts = @ + 1]
    /\ pm' = [pm EXCEPT !.pc = "idle", !.plots = {}, !.lists = Empty, !.initial = TRUE,
                        !.paths = {}, !.removed = {}, !.loaded = {}]
    /\ UNCHANGED snd

(* The callback for `batch_processed'. *)
PmCallback ==
    /\ pm.pc = "callback"
    /\ LET remaining == Cardinality(pm.paths)
       IN  IF snd.sync = 0 /\ (pm.loaded # {} \/ remaining = 0)
           THEN PmReset
           ELSE /\ pm' = [pm EXCEPT !.pc = IF remaining = 0 THEN "done" ELSE "batch",
                                    !.loaded = {}]
                /\ snd' = ProcessBatch(snd, pm.loaded, remaining)
                /\ UNCHANGED spent
    /\ UNCHANGED <<disk, resp, task, stop, loop, closer, hs, conn, net, rcv,
                   clock, crossed>>

(* The callback for `done', left out when refreshing was switched off. *)
PmDone ==
    /\ pm.pc = "done"
    /\ IF pm.enabled /\ snd.sync = 0
       THEN PmReset
       ELSE /\ pm' = [pm EXCEPT !.pc = "idle", !.initial = FALSE, !.paths = {},
                                !.removed = {}, !.loaded = {}]
            /\ snd' = IF pm.enabled THEN SyncDone(snd, pm.removed, pm.lists) ELSE snd
            /\ UNCHANGED spent
    /\ UNCHANGED <<disk, resp, task, stop, loop, closer, hs, conn, net, rcv,
                   clock, crossed>>

(* The thread ends. *)
PmEnd ==
    /\ pm.pc = "idle" /\ ~pm.enabled
    /\ pm' = [pm EXCEPT !.pc = "off"]
    /\ UNCHANGED <<disk, snd, resp, task, stop, loop, closer, hs, conn, net, rcv,
                   clock, spent, crossed>>

PlotManagerThread ==
    PmBegin \/ PmStarted \/ PmStartAborted \/ PmDrop \/ PmBatch \/ PmCallback
    \/ PmDone \/ PmEnd

-----------------------------------------------------------------------------
(* The task Sender._run. *)

Late(q) == [i \in DOMAIN q |-> [q[i] EXCEPT !.late = TRUE]]

(* Whoever sleeps for the timeout finds what was under way expired. *)
AfterTimeout(n) == [toFarmer |-> Late(n.toFarmer), toHarvester |-> Late(n.toHarvester)]

(* failed(): _reset begins, and blocks the loop until it has filled the    *)
(* queue again.                                                            *)
Failed ==
    /\ snd' = Cleared
    /\ loop' = "reset"
    /\ task' = "sleep"

(* _send_next_message up to the wait. *)
Send ==
    /\ loop = "free" /\ task = "idle" /\ ~stop
    /\ snd.sync # 0 /\ snd.next < Len(snd.msgs)
    /\ LET m == snd.msgs[snd.next + 1]
       IN  /\ resp' = [kind |-> m.kind, sync |-> m.sync, id |-> m.id, ans |-> NoAnswer]
           /\ IF conn = "up"
              THEN /\ net' = [net EXCEPT !.toFarmer = Append(@, [msg |-> m, late |-> FALSE])]
                   /\ task' = "wait"
                   /\ UNCHANGED <<snd, loop, spent>>
              ELSE /\ spent.fails < MaxFails
                   /\ spent' = [spent EXCEPT !.fails = @ + 1]
                   /\ Failed
                   /\ UNCHANGED net
    /\ UNCHANGED <<disk, pm, stop, closer, hs, conn, rcv, clock, crossed>>

(* The end of _reset: it waits as sync_start does. *)
ResetFill ==
    /\ loop = "reset" /\ snd.sync = 0
    /\ \E t \in Times : snd' = Filled(t) /\ clock' = t
    /\ net' = AfterTimeout(net)
    /\ loop' = "free"
    /\ crossed' = InRefresh
    /\ UNCHANGED <<disk, pm, resp, task, stop, closer, hs, conn, rcv, spent>>

(* No answer to the message can come any more. *)
Unanswered == net = NoMessages

(* _wait_for_response gives up: the answer is late, or lost with the       *)
(* connection.                                                             *)
Timeout ==
    /\ loop = "free" /\ task = "wait" /\ resp.ans = NoAnswer
    /\ Unanswered \/ spent.faults < MaxFaults
    /\ spent' = [spent EXCEPT !.faults = IF Unanswered THEN @ ELSE @ + 1]
    /\ net' = AfterTimeout(net)
    /\ task' = "sleep"
    /\ UNCHANGED <<disk, pm, snd, resp, stop, loop, closer, hs, conn, rcv, clock, crossed>>

(* The timeout has passed, more than the second by which an id may run ahead. *)
Wake ==
    /\ loop = "free" /\ task = "sleep"
    /\ task' = "idle"
    /\ clock' = clock + 2
    /\ UNCHANGED <<disk, pm, snd, resp, stop, loop, closer, hs, conn, net, rcv,
                   spent, crossed>>

AllSent == Last(snd.msgs).kind = "done" /\ snd.next = Len(snd.msgs) - 1

(* The error says that the receiver has finished this sync already. *)
MissedDone == resp.ans.code = "expect" /\ resp.ans.sync = 0 /\ resp.ans.id = 0 /\ AllSent

(* The error says which message of this sync the receiver expects. *)
CanRewind ==
    resp.ans.code = "expect" /\ resp.ans.sync = snd.sync /\ resp.ans.id < Len(snd.msgs)

(* _send_next_message from the answer on. *)
Answered ==
    /\ loop = "free" /\ task = "wait" /\ resp.ans # NoAnswer
    /\ \/ /\ resp.ans.code = "ok"
          /\ snd' = IF resp.kind = "done" THEN Finalized ELSE [snd EXCEPT !.next = @ + 1]
          /\ task' = "idle"
          /\ UNCHANGED loop
       \/ /\ MissedDone
          /\ snd' = Finalized
          /\ task' = "idle"
          /\ UNCHANGED loop
       \/ /\ ~MissedDone /\ CanRewind
          /\ snd' = [snd EXCEPT !.next = resp.ans.id]
          /\ task' = "idle"
          /\ UNCHANGED loop
       \/ /\ resp.ans.code # "ok" /\ ~MissedDone /\ ~CanRewind
          /\ Failed
    /\ UNCHANGED <<disk, pm, resp, stop, closer, hs, conn, net, rcv, clock, spent,
                   crossed>>

RunEnds ==
    /\ loop = "free" /\ task = "idle" /\ stop
    /\ task' = "ended"
    /\ UNCHANGED <<disk, pm, snd, resp, stop, loop, closer, hs, conn, net, rcv,
                   clock, spent, crossed>>

SenderTask == Send \/ ResetFill \/ Wake \/ Answered \/ RunEnds \/ (Unanswered /\ Timeout)

-----------------------------------------------------------------------------
(* The farmer's Receiver. *)

Expect(r) == [code |-> "expect", sync |-> r.cur.sync, id |-> r.cur.next]
Code(c) == [code |-> c, sync |-> 0, id |-> 0]
Bumped(r) == [r EXCEPT !.cur.next = @ + 1]

(* _sync_started *)
SyncStarted(r0, m) ==
    LET r == IF m.initial THEN NewReceiver ELSE r0
    IN  IF m.id # r.cur.next THEN {<<r, Expect(r)>>}
        ELSE IF m.last # r.last \/ m.last = m.sync THEN {<<r, Code("fail")>>}
        ELSE {<<Bumped([r EXCEPT !.cur = [NoSync EXCEPT !.sync = m.sync, !.next = r.cur.next]]),
                Code("ok")>>}

(* What r has collected of a kind, and what it does not take of it. *)
Collected(r, kind) ==
    CASE kind = "loaded" -> r.cur.adds
      [] kind = "removed" -> r.cur.rems
      [] OTHER -> r.cur.found[kind]

Refused(r, kind) ==
    CASE kind = "loaded" -> r.plots \cup r.cur.adds
      [] kind = "removed" -> (Files \ r.plots) \cup r.cur.rems
      [] OTHER -> r.cur.found[kind]

Collect(r, kind, S) ==
    CASE kind = "loaded" -> [r EXCEPT !.cur.adds = @ \cup S]
      [] kind = "removed" -> [r EXCEPT !.cur.rems = @ \cup S]
      [] OTHER -> [r EXCEPT !.cur.found[kind] = @ \cup S]

(* _process_loaded and process_path_list, once the identifier is right: a  *)
(* batch is taken item by item up to the first that is refused.            *)
ProcessList(r, m) ==
    LET refused == m.data \cap Refused(r, m.kind)
    IN  IF refused = {} THEN {<<Bumped(Collect(r, m.kind, m.data)), Code("ok")>>}
        ELSE {<<Collect(r, m.kind, S), Code("fail")>> : S \in SUBSET (m.data \ Refused(r, m.kind))}

(* Mutant: removals are collected and not applied. *)
AppliedWithoutRemovals(r) ==
    [cur |-> NoSync, last |-> r.cur.sync, plots |-> r.plots \cup r.cur.adds,
     lists |-> r.cur.found]

(* _sync_done *)
Applied(r) ==
    [cur |-> NoSync, last |-> r.cur.sync,
     plots |-> (r.plots \cup r.cur.adds) \ r.cur.rems,
     lists |-> r.cur.found]

(* Mutant: only the sync id of a message is validated. *)
HandledAnyId(r, m) ==
    IF m.kind = "start" THEN SyncStarted(r, m)
    ELSE IF m.sync # r.cur.sync THEN {<<r, Expect(r)>>}
    ELSE IF m.kind = "done" THEN {<<Applied(r), Code("ok")>>}
    ELSE ProcessList(r, m)

(* The receiver after a message, and the answer. *)
Handled(r, m) ==
    IF m.kind = "start" THEN SyncStarted(r, m)
    ELSE IF m.sync # r.cur.sync \/ m.id # r.cur.next THEN {<<r, Expect(r)>>}
    ELSE IF m.kind = "done" THEN {<<Applied(r), Code("ok")>>}
    ELSE ProcessList(r, m)

FarmerHandles ==
    /\ conn = "up" /\ net.toFarmer # <<>>
    /\ LET m == Head(net.toFarmer).msg
       IN  \E o \in Handled(rcv, m) :
            /\ rcv' = o[1]
            /\ net' = [toFarmer |-> Tail(net.toFarmer),
                       toHarvester |-> Append(net.toHarvester,
                           [kind |-> m.kind, sync |-> m.sync, id |-> m.id,
                            ans |-> o[2], late |-> Head(net.toFarmer).late])]
    /\ UNCHANGED <<disk, pm, snd, resp, task, stop, loop, closer, hs, conn, clock,
                   spent, crossed>>

(* set_response *)
Accepts(r) ==
    /\ resp.ans = NoAnswer /\ ~r.late
    /\ r.sync = resp.sync /\ r.id = resp.id /\ r.kind = resp.kind

SetResponse ==
    /\ loop = "free" /\ conn = "up" /\ net.toHarvester # <<>>
    /\ LET r == Head(net.toHarvester)
       IN  resp' = IF Accepts(r) THEN [resp EXCEPT !.ans = r.ans] ELSE resp
    /\ net' = [net EXCEPT !.toHarvester = Tail(@)]
    /\ UNCHANGED <<disk, pm, snd, task, stop, loop, closer, hs, conn, rcv, clock,
                   spent, crossed>>

-----------------------------------------------------------------------------
(* Connections. *)

(* The harvester connects; the farmer makes a Receiver and sends the       *)
(* handshake.                                                              *)
Connect ==
    /\ loop = "free" /\ conn = "down"
    /\ conn' = "up" /\ hs' = "sent"
    /\ rcv' = NewReceiver
    /\ UNCHANGED <<disk, pm, snd, resp, task, stop, loop, closer, net, clock, spent,
                   crossed>>

(* What Sender.start does without a task, and start_refreshing. *)
Started(s) ==
    /\ task' = "idle"
    /\ IF pm.initial /\ s.sync = 0
       THEN snd' = s /\ UNCHANGED <<clock, crossed>>
       ELSE /\ \E t \in Times : snd' = Filled(t) /\ clock' = t
            /\ crossed' = FALSE
    /\ pm' = [pm EXCEPT !.enabled = TRUE, !.pc = "idle"]
    /\ hs' = "none"

(* harvester_handshake *)
Handshake ==
    /\ loop = "free" /\ hs = "sent"
    /\ \/ task = "none" /\ Started(snd)
       \/ /\ task \notin {"none", "cancelled"} /\ stop
          /\ hs' = "closing"
          /\ UNCHANGED <<task, snd, clock, pm, crossed>>
       \/ /\ task = "cancelled"      \* await_closed raises CancelledError
          /\ hs' = "none"
          /\ UNCHANGED <<task, snd, clock, pm, crossed>>
    /\ UNCHANGED <<disk, resp, stop, loop, closer, conn, net, rcv, spent>>

(* await_closed, for on_disconnect and then for the handshake that waits. *)
AwaitClosed ==
    /\ loop = "free" /\ closer /\ task = "ended"
    /\ closer' = FALSE
    /\ stop' = FALSE
    /\ IF hs = "closing" THEN Started(Cleared)
       ELSE /\ task' = "none" /\ snd' = Cleared
            /\ UNCHANGED <<clock, pm, hs, crossed>>
    /\ UNCHANGED <<disk, resp, loop, conn, net, rcv, spent>>

(* The connection is lost: nothing is sent or received any more. *)
ConnectionCloses ==
    /\ conn = "up" /\ spent.faults < MaxFaults
    /\ conn' = "closed"
    /\ net' = NoMessages
    /\ spent' = [spent EXCEPT !.faults = @ + 1]
    /\ UNCHANGED <<disk, pm, snd, resp, task, stop, loop, closer, hs, rcv, clock, crossed>>

(* connection_closed: the handlers of the peer are cancelled, and with a   *)
(* handshake that awaits it the task too; then on_disconnect, up to the    *)
(* join of the plot manager's thread.                                      *)
OnDisconnect ==
    /\ loop = "free" /\ conn = "closed"
    /\ task' = IF hs = "closing" /\ task # "ended" THEN "cancelled" ELSE task
    /\ hs' = "none"
    /\ stop' = TRUE
    /\ pm' = [pm EXCEPT !.enabled = FALSE]
    /\ loop' = "join"
    /\ UNCHANGED <<disk, snd, resp, closer, conn, net, rcv, clock, spent, crossed>>

(* The thread has ended and await_closed is scheduled: without a task it   *)
(* resets at once, and a cancelled task cancels it.                        *)
Joined ==
    /\ loop = "join" /\ pm.pc = "off"
    /\ loop' = "free" /\ conn' = "down"
    /\ closer' = (task \notin {"none", "cancelled"})
    /\ stop' = (task # "none")
    /\ snd' = IF task = "none" THEN Cleared ELSE snd
    /\ UNCHANGED <<disk, pm, resp, task, hs, net, rcv, clock, spent, crossed>>

DiskChanges ==
    /\ spent.faults < MaxFaults
    /\ \E f \in Files, k \in {"absent", "plot"} \cup Lists :
        /\ disk[f] # k
        /\ disk' = [disk EXCEPT ![f] = k]
    /\ spent' = [spent EXCEPT !.faults = @ + 1]
    /\ UNCHANGED <<pm, snd, resp, task, stop, loop, closer, hs, conn, net, rcv,
                   clock, crossed>>

Init ==
    /\ disk \in StartDisks
    /\ pm = [pc |-> "off", enabled |-> FALSE, initial |-> TRUE, plots |-> {},
             lists |-> Empty, paths |-> {}, removed |-> {}, loaded |-> {}]
    /\ snd = Cleared
    /\ resp = NoResponse
    /\ task = "none" /\ stop = FALSE /\ loop = "free" /\ closer = FALSE
    /\ hs = "none" /\ conn = "down"
    /\ net = NoMessages
    /\ rcv = NewReceiver
    /\ clock = 1
    /\ spent = [faults |-> 0, fails |-> 0, asserts |-> 0]
    /\ crossed = FALSE

Connections == Connect \/ Handshake \/ AwaitClosed \/ OnDisconnect \/ Joined

Next ==
    \/ PlotManagerThread
    \/ SenderTask \/ Timeout
    \/ FarmerHandles \/ SetResponse
    \/ Connections \/ ConnectionCloses
    \/ DiskChanges

Fairness ==
    /\ WF_vars(PlotManagerThread)
    /\ WF_vars(SenderTask)
    /\ WF_vars(FarmerHandles)
    /\ WF_vars(SetResponse)
    /\ WF_vars(Connections)

Spec == Init /\ [][Next]_vars /\ Fairness

-----------------------------------------------------------------------------
(* Properties. *)

(* The state is well formed. *)
TypeOK ==
    /\ disk \in [Files -> {"absent", "plot"} \cup Lists]
    /\ pm \in [pc : {"off", "idle", "start", "drop", "batch", "callback", "done"},
               enabled : BOOLEAN, initial : BOOLEAN, plots : SUBSET Files,
               lists : [Lists -> SUBSET Files], paths : SUBSET Files,
               removed : SUBSET Files, loaded : SUBSET Files]
    /\ {snd.sync, snd.last, snd.next} \subseteq Nat
    /\ Range(snd.msgs) \subseteq Messages
    /\ snd.next <= Len(snd.msgs)
    /\ resp.kind \in Kinds \cup {"none"} /\ resp.ans \in Answers
    /\ task \in {"none", "idle", "wait", "sleep", "ended", "cancelled"}
    /\ {stop, closer, crossed} \subseteq BOOLEAN
    /\ loop \in {"free", "reset", "join"}
    /\ hs \in {"none", "sent", "closing"}
    /\ conn \in {"down", "up", "closed"}
    /\ rcv.plots \subseteq Files /\ rcv.lists \in [Lists -> SUBSET Files]
    /\ rcv.cur.adds \cup rcv.cur.rems \subseteq Files

(* What the first n messages say of a kind. *)
DataOf(msgs, n, kind) == UNION {msgs[i].data : i \in {j \in 1..n : msgs[j].kind = kind}}

(* r has the first n messages of s and, at most, a part of the next one,    *)
(* which it refuses.                                                       *)
HasPrefix(r, s, n) ==
    /\ r.cur.sync = s.sync /\ r.cur.next = n /\ n <= Len(s.msgs)
    /\ \A kind \in {"loaded", "removed"} \cup Lists :
          \/ Collected(r, kind) = DataOf(s.msgs, n, kind)
          \/ /\ n < Len(s.msgs) /\ s.msgs[n + 1].kind = kind
             /\ DataOf(s.msgs, n, kind) \subseteq Collected(r, kind)
             /\ Collected(r, kind) \subseteq DataOf(s.msgs, n + 1, kind)
             /\ s.msgs[n + 1].data \cap Refused(r, kind) # {}

(* Once the start of a sync is acknowledged (a reset may take the id of    *)
(* the sync it gives up, when both fall into one second):                  *)
(* what the receiver has collected of the sync under way is what the       *)
(* messages it has acknowledged say, no more and no less: a message that   *)
(* is sent again because its answer came too late adds nothing, and        *)
(* nothing is skipped when the sender moves on or goes back.  Only a batch *)
(* that is refused leaves a part of it behind, and it is refused again     *)
(* whenever it is sent again: what is applied at the end is the whole      *)
(* queue up to the done message.                                           *)
DeltaIsPrefix ==
    (conn = "up" /\ rcv.cur.sync # 0 /\ rcv.cur.sync = snd.sync /\ snd.next > 0) =>
        HasPrefix(rcv, snd, rcv.cur.next)

(* No sync and no handshake is under way, and a refresh at most waits to    *)
(* start its sync.                                                         *)
Settled ==
    /\ conn = "up" /\ hs = "none" /\ loop = "free" /\ task = "idle" /\ ~stop
    /\ snd.sync = 0 /\ pm.pc \in {"idle", "start"} /\ ~pm.initial

InStep == rcv.plots = pm.plots /\ rcv.lists = pm.lists

(* Whenever everything is settled the farmer shows exactly the plots and   *)
(* the listed files that the harvester has, across resends, resets, lost   *)
(* connections and restarted refreshes.  The exception is a sender that    *)
(* reset itself while a refresh had started its sync: what the refresh     *)
(* queues after that is thrown away with the queue by _finalize_sync.      *)
SettledInStep == Settled => InStep \/ crossed

(* Sender._reset waits in sync_start for a sync that only the event loop   *)
(* it blocks could end, or the handshake of a second lost connection was   *)
(* cancelled while it awaited the task: neither ends.                      *)
Hung == (loop = "reset" /\ snd.sync # 0) \/ task = "cancelled"

(* Farmer and harvester come to agree again and again, once connections    *)
(* and answers stop failing: no order of resends, resets and reconnects    *)
(* leaves both waiting for each other, outside the cases of crossed and    *)
(* Hung.                                                                   *)
ComesInStep == []<>((Settled /\ InStep) \/ crossed \/ Hung)
=============================================================================
