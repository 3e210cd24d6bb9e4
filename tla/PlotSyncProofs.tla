---------------------------- MODULE PlotSyncProofs ----------------------------
(***************************************************************************)
(* What the receiver of a plot sync has collected is what its sender has   *)
(* queued, and when everything is settled it has what the harvester has,   *)
(* for every set of files, every batch size and any number of late         *)
(* answers, resets and lost connections.                                   *)
(*                                                                         *)
(* The argument: the sender sends one message until an answer that is not  *)
(* late comes, so that whatever is under way between the two is that       *)
(* message, or answers to it, and nothing is left of it when the answer is *)
(* accepted.  The receiver therefore stands before the message or just     *)
(* behind it, and the answer says which.  The queue in turn accounts for   *)
(* what the refresh under way has dropped and loaded so far, so that it    *)
(* makes the plot manager's plots of the receiver's once it is complete.   *)
(***************************************************************************)
EXTENDS PlotSync, FiniteSetTheorems, NaturalsInduction, WellFoundedInduction, TLAPS

-------------------------------------------------------------------------------
(* The invariant. *)

Syncs == [sync : Nat, next : Nat, adds : SUBSET Files, rems : SUBSET Files,
          found : [Lists -> SUBSET Files]]
Receivers == [cur : Syncs, last : Nat, plots : SUBSET Files,
              lists : [Lists -> SUBSET Files]]
Queues == [sync : Nat, last : Nat, next : Nat, msgs : Seq(Messages)]
Responses == [kind : Kinds, sync : Nat, id : Nat, ans : Answers, late : BOOLEAN]

(* The state is well formed. *)
Types ==
    /\ pm \in [pc : {"off", "idle", "start", "drop", "batch", "callback", "done"},
               enabled : BOOLEAN, initial : BOOLEAN, plots : SUBSET Files,
               lists : [Lists -> SUBSET Files], paths : SUBSET Files,
               removed : SUBSET Files, loaded : SUBSET Files]
    /\ resp \in [kind : Kinds \cup {"none"}, sync : Nat, id : Nat, ans : Answers]
    /\ task \in {"none", "idle", "wait", "sleep", "ended", "cancelled"}
    /\ loop \in {"free", "reset", "join"}
    /\ hs \in {"none", "sent", "closing"}
    /\ conn \in {"down", "up", "closed"}
    /\ stop \in BOOLEAN /\ closer \in BOOLEAN
    /\ net \in [toFarmer : Seq([msg : Messages, late : BOOLEAN]),
                toHarvester : Seq(Responses)]
    /\ rcv \in Receivers
    /\ clock \in Nat \ {0}

(* The queue is that of one sync: its messages are numbered, and the first *)
(* and no other starts it.                                                 *)
QueueOK(s) ==
    /\ s \in Queues
    /\ s.next <= Len(s.msgs)
    /\ s.sync = 0 <=> Len(s.msgs) = 0
    /\ \A i \in 1..Len(s.msgs) :
          /\ s.msgs[i].sync = s.sync
          /\ s.msgs[i].id = i - 1
          /\ s.msgs[i].kind = "start" <=> i = 1

(* The message that is sent, or will be next. *)
Current(s) == s.msgs[s.next + 1]

(* The receiver stands before the current message ... *)
Before(r, s) ==
    IF s.next = 0 THEN s.msgs[1].initial \/ r.cur = NoSync ELSE HasPrefix(r, s, s.next)

(* ... or behind it. *)
Behind(r, s) ==
    /\ s.next < Len(s.msgs)
    /\ IF Current(s).kind = "done" THEN r.cur = NoSync ELSE HasPrefix(r, s, s.next + 1)

(* What an answer to the current message says of the receiver. *)
AnswerOK(a, r, s) ==
    /\ a.code # "none"
    /\ a.code \in {"ok", "expect"} =>
          /\ Behind(r, s)
          /\ s.next = 0 /\ Current(s).initial => a.code = "ok" /\ Current(s).last = 0
    /\ a.code = "expect" => a.sync = r.cur.sync /\ a.id = r.cur.next

(* An answer that is not late can still come. *)
Awaited == task = "wait" /\ resp.ans = NoAnswer

(* What is under way is the current message and answers to it, and only    *)
(* the last of it is in time.                                              *)
NetOK ==
    /\ net # NoMessages => snd.next < Len(snd.msgs)
    /\ \A i \in 1..Len(net.toFarmer) :
          /\ net.toFarmer[i].msg = Current(snd)
          /\ net.toFarmer[i].late \/ (Awaited /\ i = Len(net.toFarmer))
    /\ \A i \in 1..Len(net.toHarvester) :
          /\ AnswerOK(net.toHarvester[i].ans, rcv, snd)
          /\ net.toHarvester[i].late
             \/ (Awaited /\ i = Len(net.toHarvester) /\ net.toFarmer = <<>>)
    /\ task = "wait" /\ resp.ans # NoAnswer =>
          net = NoMessages /\ AnswerOK(resp.ans, rcv, snd)

(* The sender does not send. *)
Stopped == stop \/ task \in {"none", "ended", "cancelled"}

ConnOK ==
    /\ conn # "up" => net = NoMessages
    /\ conn = "down" => hs = "none" /\ Stopped
    /\ loop = "join" => hs = "none" /\ stop /\ conn = "closed"
    /\ conn = "up" /\ Stopped => rcv.cur = NoSync /\ net = NoMessages

WaitOK == task = "wait" => /\ snd.next < Len(snd.msgs)
                           /\ resp.kind = Current(snd).kind

SyncOK ==
    conn = "up" /\ ~Stopped =>
        /\ snd.sync = 0 => net = NoMessages /\ (loop = "reset" \/ rcv.cur = NoSync)
        /\ snd.sync # 0 /\ loop = "reset" => snd.next = 0 /\ net = NoMessages
        /\ snd.sync # 0 /\ loop # "reset" => (Before(rcv, snd) \/ Behind(rcv, snd)) /\ NetOK

IInv == Types /\ QueueOK(snd) /\ ConnOK /\ WaitOK /\ SyncOK

-------------------------------------------------------------------------------
(* Sequences. *)

(* A set of numbers has a least one. *)
LEMMA LeastNumber ==
    ASSUME NEW T, T \subseteq Nat, T # {}
    PROVE  \E n \in T : \A k \in T : n <= k
<1>1. \E n \in T : \A k \in T : ~(<<k, n>> \in OpToRel(<, Nat))
    BY NatLessThanWellFounded, WFMin, Zenon
<1>2. PICK n \in T : \A k \in T : ~(k < n)
    BY <1>1 DEF OpToRel
<1>3. ASSUME NEW k \in T PROVE n <= k
    BY <1>2
<1>4. QED
    BY <1>3

(* A sequence of no elements is empty. *)
LEMMA EmptySeq ==
    ASSUME NEW T, NEW q \in Seq(T), Len(q) = 0
    PROVE  q = <<>>
    OBVIOUS

(* SetToSeq lists elements of a finite set. *)
LEMMA SetToSeqType ==
    ASSUME NEW S, IsFiniteSet(S)
    PROVE  SetToSeq(S) \in Seq(S)
<1>1. Cardinality(S) \in Nat /\ ExistsBijection(1..Cardinality(S), S)
    BY FS_CardinalityType
<1>2. PICK f \in [1..Cardinality(S) -> S] : IsInjective(f)
    BY <1>1 DEF ExistsBijection, Bijection, Injection, IsInjective
<1>3. SetToSeq(S) \in [1..Cardinality(S) -> S]
    BY <1>2 DEF SetToSeq
<1>4. QED
    BY <1>1, <1>3

(* list_to_batches makes a sequence of sets of files. *)
LEMMA BatchesType ==
    ASSUME NEW S \in SUBSET Files
    PROVE  Batches(S) \in Seq(SUBSET Files) /\ AddListBatched(S) \in Seq(SUBSET Files)
<1> DEFINE q == SetToSeq(S)
           n == (Len(q) + BatchSize - 1) \div BatchSize
           Batch(i) == {q[j] : j \in ((i - 1) * BatchSize + 1)..Min2(i * BatchSize, Len(q))}
<1>1. q \in Seq(S)
  <2>1. IsFiniteSet(S)
      BY PlotSyncAssumption, FS_Subset
  <2>2. QED
      BY <2>1, SetToSeqType
<1>2. n \in Int
    BY <1>1, PlotSyncAssumption
<1>3. ASSUME NEW i \in 1..n PROVE Batch(i) \in SUBSET Files
  <2>1. i * BatchSize \in Int /\ (i - 1) * BatchSize \in Int /\ (i - 1) * BatchSize >= 0
      BY <1>2, PlotSyncAssumption
  <2>2. ASSUME NEW j \in ((i - 1) * BatchSize + 1)..Min2(i * BatchSize, Len(q)) PROVE q[j] \in S
    <3> DEFINE lo == (i - 1) * BatchSize
               hi == i * BatchSize
    <3>0. Len(q) \in Nat /\ lo \in Int /\ hi \in Int /\ lo >= 0 /\ j \in (lo + 1)..Min2(hi, Len(q))
        BY <1>1, <2>1, <2>2
    <3> HIDE DEF lo, hi
    <3>1. j \in 1..Len(q)
        BY <3>0 DEF Min2
    <3>2. QED
        BY <1>1, <3>1
  <2>3. QED
      BY <2>2
<1> HIDE DEF n, Batch
<1>4. [i \in 1..n |-> Batch(i)] \in Seq(SUBSET Files)
  <2> DEFINE k == IF n \in Nat THEN n ELSE 0
  <2>1. k \in Nat /\ 1..n = 1..k
      BY <1>2
  <2> HIDE DEF k
  <2> DEFINE f == [i \in 1..n |-> Batch(i)]
  <2>2. f \in [1..k -> SUBSET Files]
      BY <1>3, <2>1
  <2> HIDE DEF f
  <2>3. f \in Seq(SUBSET Files)
      BY <2>1, <2>2
  <2>4. QED
      BY <2>3 DEF f
<1>5. Batches(S) = [i \in 1..n |-> Batch(i)]
    BY DEF Batches, n, Batch
<1>6. << {} >> \in Seq(SUBSET Files)
    OBVIOUS
<1>7. QED
    BY <1>4, <1>5, <1>6 DEF AddListBatched

-------------------------------------------------------------------------------
(* The queue. *)

(* t is s with messages added: numbered on, and none of them a start. *)
Extends(s, t) ==
    /\ t \in Queues
    /\ t.sync = s.sync /\ t.last = s.last /\ t.next = s.next
    /\ Len(s.msgs) <= Len(t.msgs)
    /\ \A i \in 1..Len(s.msgs) : t.msgs[i] = s.msgs[i]
    /\ \A i \in (Len(s.msgs) + 1)..Len(t.msgs) :
          t.msgs[i].sync = s.sync /\ t.msgs[i].id = i - 1 /\ t.msgs[i].kind # "start"

LEMMA ExtendsTransitive ==
    ASSUME NEW s \in Queues, NEW t \in Queues, NEW u \in Queues, Extends(s, t), Extends(t, u)
    PROVE  Extends(s, u)
<1> DEFINE a == Len(s.msgs)
           b == Len(t.msgs)
           c == Len(u.msgs)
<1>1. a \in Nat /\ b \in Nat /\ c \in Nat /\ a <= b /\ b <= c
    BY DEF Queues, Extends
<1>2. ASSUME NEW i \in 1..a PROVE u.msgs[i] = s.msgs[i]
    BY <1>1 DEF Extends
<1>3. ASSUME NEW i \in (a + 1)..c
      PROVE  u.msgs[i].sync = s.sync /\ u.msgs[i].id = i - 1 /\ u.msgs[i].kind # "start"
  <2>1. CASE i <= b
    <3>1. i \in (a + 1)..b /\ i \in 1..b
        BY <1>1, <2>1
    <3>2. QED
        BY <3>1 DEF Extends
  <2>2. CASE ~(i <= b)
    <3>1. i \in (b + 1)..c
        BY <1>1, <2>2
    <3>2. QED
        BY <3>1 DEF Extends
  <2>3. QED
      BY <2>1, <2>2
<1>4. QED
    BY <1>1, <1>2, <1>3 DEF Extends

(* _add_message adds one message. *)
LEMMA AddMessageExtends ==
    ASSUME NEW s \in Queues, NEW kind \in Kinds \ {"start"}, NEW data \in SUBSET Files
    PROVE  Extends(s, AddMessage(s, kind, data, FALSE))
<1> DEFINE m == Message(s, Len(s.msgs), kind, data, FALSE)
           t == AddMessage(s, kind, data, FALSE)
<1>1. s.msgs \in Seq(Messages) /\ Len(s.msgs) \in Nat
    BY DEF Queues
<1>2. m \in Messages /\ m.sync = s.sync /\ m.id = Len(s.msgs) /\ m.kind # "start"
    BY <1>1 DEF Message, Messages, Queues
<1> HIDE DEF m
<1>3. t = [s EXCEPT !.msgs = Append(s.msgs, m)]
    BY DEF AddMessage, m
<1> HIDE DEF t
<1>c. Append(s.msgs, m) \in Seq(Messages)
    BY <1>1, <1>2
<1>4. t \in Queues /\ t.msgs = Append(s.msgs, m) /\ t.sync = s.sync /\ t.last = s.last /\ t.next = s.next
    BY <1>3, <1>c DEF Queues
<1>5. Len(t.msgs) = Len(s.msgs) + 1
    BY <1>1, <1>4
<1>6. ASSUME NEW i \in 1..Len(s.msgs) PROVE t.msgs[i] = s.msgs[i]
    BY <1>1, <1>4
<1>7. ASSUME NEW i \in (Len(s.msgs) + 1)..Len(t.msgs)
      PROVE  t.msgs[i].sync = s.sync /\ t.msgs[i].id = i - 1 /\ t.msgs[i].kind # "start"
  <2>1. i = Len(s.msgs) + 1
      BY <1>1, <1>5
  <2>2. t.msgs[i] = m
      BY <1>1, <1>4, <2>1
  <2>3. QED
      BY <1>1, <1>2, <2>1, <2>2
<1>8. Extends(s, t)
    BY <1>1, <1>4, <1>5, <1>6, <1>7 DEF Extends
<1>9. QED
    BY <1>8 DEF t

(* _add_list_batched adds one for every batch. *)
LEMMA AddMessagesExtends ==
    ASSUME NEW s \in Queues, NEW kind \in Kinds \ {"start"}, NEW b \in Seq(SUBSET Files)
    PROVE  Extends(s, AddMessages(s, kind, b))
<1> DEFINE M(i) == Message(s, Len(s.msgs) + i - 1, kind, b[i], FALSE)
           q == [i \in 1..Len(b) |-> M(i)]
           t == AddMessages(s, kind, b)
<1>1. s.msgs \in Seq(Messages) /\ Len(s.msgs) \in Nat /\ Len(b) \in Nat
    BY DEF Queues
<1>2. ASSUME NEW i \in 1..Len(b)
      PROVE  M(i) \in Messages /\ M(i).sync = s.sync /\ M(i).id = Len(s.msgs) + i - 1 /\ M(i).kind # "start"
  <2>1. b[i] \in SUBSET Files /\ Len(s.msgs) + i - 1 \in Nat
      BY <1>1
  <2>2. QED
      BY <2>1 DEF Message, Messages, Queues
<1> HIDE DEF M
<1>q. q \in Seq(Messages) /\ Len(q) = Len(b) /\ \A i \in 1..Len(b) : q[i] = M(i)
    BY <1>1, <1>2
<1>3. t = [s EXCEPT !.msgs = s.msgs \o q]
    BY DEF AddMessages, M
<1> HIDE DEF t, q
<1>c. s.msgs \o q \in Seq(Messages) /\ Len(s.msgs \o q) = Len(s.msgs) + Len(q)
  <2>1. q \in Seq(Messages)
      BY <1>q
  <2>2. QED
      BY <1>1, <2>1
<1>4. t \in Queues /\ t.msgs = s.msgs \o q /\ t.sync = s.sync /\ t.last = s.last /\ t.next = s.next
    BY <1>3, <1>c DEF Queues
<1>5. Len(t.msgs) = Len(s.msgs) + Len(b)
    BY <1>c, <1>q, <1>4
<1>6. ASSUME NEW i \in 1..Len(s.msgs) PROVE t.msgs[i] = s.msgs[i]
    BY <1>1, <1>q, <1>4
<1>7. ASSUME NEW i \in (Len(s.msgs) + 1)..Len(t.msgs)
      PROVE  t.msgs[i].sync = s.sync /\ t.msgs[i].id = i - 1 /\ t.msgs[i].kind # "start"
  <2> DEFINE j == i - Len(s.msgs)
  <2>1. j \in 1..Len(b) /\ i \in Nat /\ i = Len(s.msgs) + j
      BY <1>1, <1>5
  <2>2. t.msgs[i] = q[j]
      BY <1>1, <1>q, <1>4, <2>1
  <2>3. t.msgs[i] = M(j) /\ M(j).id = i - 1 /\ M(j).sync = s.sync /\ M(j).kind # "start"
      BY <1>1, <1>2, <1>q, <2>1, <2>2
  <2>4. QED
      BY <2>3
<1>8. Extends(s, t)
    BY <1>1, <1>4, <1>5, <1>6, <1>7 DEF Extends
<1>9. QED
    BY <1>8 DEF t

(* The function that AddLists computes with exists. *)
LEMMA AddListsExists ==
    ASSUME NEW s, NEW lists, Len(SetToSeq(Lists)) \in Nat
    PROVE  \E added :
              /\ added = [k \in 0..Len(SetToSeq(Lists)) |->
                            IF k = 0 THEN s
                            ELSE AddMessages(added[k - 1], SetToSeq(Lists)[k],
                                             AddListBatched(lists[SetToSeq(Lists)[k]]))]
              /\ AddLists(s, lists) = added[Len(SetToSeq(Lists))]
<1> DEFINE order == SetToSeq(Lists)
           Step(f, k) == IF k = 0 THEN s
                         ELSE AddMessages(f[k - 1], order[k], AddListBatched(lists[order[k]]))
           Bad == {n \in Nat : n <= Len(order) /\ ~(\E f : f = [k \in 0..n |-> Step(f, k)])}
<1>1. ASSUME Bad # {} PROVE FALSE
  <2>1. PICK n \in Bad : \A k \in Bad : n <= k
    <3>1. Bad \subseteq Nat
        OBVIOUS
    <3> HIDE DEF Bad
    <3>2. QED
        BY <1>1, <3>1, LeastNumber
  <2>0. n \in Nat /\ n <= Len(order) /\ ~(\E f : f = [k \in 0..n |-> Step(f, k)])
      OBVIOUS
  <2>2. CASE n = 0
    <3> DEFINE f == [k \in 0..n |-> s]
    <3>1. f = [k \in 0..n |-> Step(f, k)]
        BY <2>2
    <3> HIDE DEF f
    <3>2. QED
        BY <2>0, <3>1
  <2>3. CASE n > 0
    <3>0. n - 1 \in Nat /\ n - 1 <= Len(order) /\ ~(n <= n - 1)
        BY <2>0, <2>3
    <3>1. n - 1 \in Nat /\ n - 1 <= Len(order) /\ n - 1 \notin Bad
      <4> HIDE DEF Bad
      <4>1. QED
          BY <2>1, <3>0
    <3>2. PICK f : f = [k \in 0..(n - 1) |-> Step(f, k)]
        BY <3>1
    <3> DEFINE g == [k \in 0..n |-> IF k = n THEN Step(f, n) ELSE f[k]]
    <3>3. \A k \in 0..(n - 1) : g[k] = f[k] /\ f[k] = Step(f, k)
      <4>1. TAKE k \in 0..(n - 1)
      <4>2. k \in 0..n /\ k # n
          BY <2>0
      <4> HIDE DEF Step, Bad
      <4>3. QED
          BY <3>2, <4>2
    <3>4. \A k \in 0..n : g[k] = Step(g, k)
      <4>1. TAKE k \in 0..n
      <4>2. k > 0 => k - 1 \in 0..(n - 1)
          BY <3>1
      <4> HIDE DEF g
      <4>3. Step(g, k) = Step(f, k)
          BY <4>2, <3>3
      <4>4. CASE k = n
          BY <4>3, <4>4 DEF g
      <4>5. CASE k # n
          BY <4>3, <4>5, <3>1, <3>3
      <4>6. QED
          BY <4>4, <4>5
    <3>5. g = [k \in 0..n |-> Step(g, k)]
      <4>1. g = [k \in 0..n |-> g[k]]
          OBVIOUS
      <4> HIDE DEF g
      <4>2. QED
          BY <3>4, <4>1
    <3> HIDE DEF g
    <3>6. QED
        BY <2>0, <3>5
  <2>4. QED
      BY <2>2, <2>3
<1>2. \E f : f = [k \in 0..Len(order) |-> Step(f, k)]
    BY <1>1
<1> DEFINE added == CHOOSE f : f = [k \in 0..Len(order) |-> Step(f, k)]
<1>3. added = [k \in 0..Len(order) |-> Step(added, k)]
    BY <1>2
<1>4. AddLists(s, lists) = added[Len(order)]
    BY DEF AddLists
<1>5. QED
    BY <1>3, <1>4

(* A queue extends itself. *)
LEMMA ExtendsReflexive ==
    ASSUME NEW s \in Queues
    PROVE  Extends(s, s)
    BY DEF Extends, Queues

(* The messages of all lists are added. *)
LEMMA AddListsExtends ==
    ASSUME NEW s \in Queues, NEW lists \in [Lists -> SUBSET Files]
    PROVE  Extends(s, AddLists(s, lists))
<1> DEFINE order == SetToSeq(Lists)
<1>1. order \in Seq(Lists) /\ Len(order) \in Nat
    BY PlotSyncAssumption, SetToSeqType
<1>2. PICK added :
          /\ added = [k \in 0..Len(order) |->
                        IF k = 0 THEN s
                        ELSE AddMessages(added[k - 1], order[k], AddListBatched(lists[order[k]]))]
          /\ AddLists(s, lists) = added[Len(order)]
    BY <1>1, AddListsExists
<1> HIDE DEF order
<1>3. /\ added[0] = s
      /\ \A k \in 1..Len(order) :
            added[k] = AddMessages(added[k - 1], order[k], AddListBatched(lists[order[k]]))
  <2> DEFINE Step(k) == IF k = 0 THEN s
                        ELSE AddMessages(added[k - 1], order[k], AddListBatched(lists[order[k]]))
  <2>1. added = [k \in 0..Len(order) |-> Step(k)]
      BY <1>2
  <2> HIDE DEF Step
  <2>2. \A k \in 0..Len(order) : added[k] = Step(k)
      BY <2>1
  <2>3. 0 \in 0..Len(order) /\ \A k \in 1..Len(order) : k \in 0..Len(order) /\ k # 0
      BY <1>1
  <2>4. QED
      BY <2>2, <2>3 DEF Step
<1> DEFINE Bad == {k \in Nat : k <= Len(order) /\ ~Extends(s, added[k])}
<1>4. Extends(s, added[0])
    BY <1>3, ExtendsReflexive
<1>5. ASSUME NEW k \in 1..Len(order), Extends(s, added[k - 1]) PROVE Extends(s, added[k])
  <2> DEFINE t == added[k - 1]
  <2>1. t \in Queues
      BY <1>5 DEF Extends
  <2>2. order[k] \in Lists
      BY <1>1
  <2>3. order[k] \in Kinds \ {"start"} /\ AddListBatched(lists[order[k]]) \in Seq(SUBSET Files)
      BY <2>2, PlotSyncAssumption, BatchesType DEF Kinds
  <2> HIDE DEF t
  <2>4. Extends(t, AddMessages(t, order[k], AddListBatched(lists[order[k]])))
      BY <2>1, <2>3, AddMessagesExtends
  <2>5. added[k] = AddMessages(t, order[k], AddListBatched(lists[order[k]]))
      BY <1>3 DEF t
  <2>6. Extends(s, t) /\ Extends(t, added[k]) /\ added[k] \in Queues
      BY <1>5, <2>4, <2>5 DEF Extends, t
  <2>7. QED
      BY <2>1, <2>6, ExtendsTransitive
<1>6. ASSUME Bad # {} PROVE FALSE
  <2>1. PICK k \in Bad : \A j \in Bad : k <= j
    <3>1. Bad \subseteq Nat
        OBVIOUS
    <3> HIDE DEF Bad
    <3>2. QED
        BY <1>6, <3>1, LeastNumber
  <2>2. k \in Nat /\ k <= Len(order) /\ ~Extends(s, added[k])
      OBVIOUS
  <2>3. k # 0
      BY <1>4, <2>2
  <2>4. k \in 1..Len(order) /\ k - 1 \in Nat /\ k - 1 <= Len(order) /\ ~(k <= k - 1)
      BY <1>1, <2>2, <2>3
  <2>5. k - 1 \notin Bad
    <3> HIDE DEF Bad
    <3>1. QED
        BY <2>1, <2>4
  <2>6. Extends(s, added[k - 1])
      BY <2>4, <2>5
  <2>7. QED
      BY <1>5, <2>2, <2>4, <2>6
<1>7. Extends(s, added[Len(order)])
    BY <1>1, <1>6
<1>8. QED
    BY <1>2, <1>7

(* sync_done adds the removals, the lists and the done message. *)
LEMMA SyncDoneExtends ==
    ASSUME NEW s \in Queues, NEW removed \in SUBSET Files, NEW lists \in [Lists -> SUBSET Files]
    PROVE  Extends(s, SyncDone(s, removed, lists))
<1> DEFINE a == AddMessages(s, "removed", AddListBatched(removed))
           b == AddLists(a, lists)
           c == AddMessage(b, "done", {}, FALSE)
<1>k. "removed" \in Kinds \ {"start"} /\ "done" \in Kinds \ {"start"} /\ {} \in SUBSET Files
    BY DEF Kinds
<1>b. AddListBatched(removed) \in Seq(SUBSET Files)
    BY BatchesType
<1>1. Extends(s, a)
    BY <1>k, <1>b, AddMessagesExtends
<1> HIDE DEF a
<1>2. a \in Queues
    BY <1>1 DEF Extends
<1>3. Extends(a, b)
    BY <1>2, AddListsExtends
<1> HIDE DEF b
<1>4. b \in Queues
    BY <1>3 DEF Extends
<1>5. Extends(b, c)
    BY <1>k, <1>4, AddMessageExtends
<1> HIDE DEF c
<1>6. c \in Queues
    BY <1>5 DEF Extends
<1>7. Extends(s, b)
    BY <1>1, <1>2, <1>3, <1>4, ExtendsTransitive
<1>8. Extends(s, c)
    BY <1>7, <1>4, <1>5, <1>6, ExtendsTransitive
<1>9. QED
    BY <1>8 DEF SyncDone, a, b, c

(* process_batch adds a message or none. *)
LEMMA ProcessBatchExtends ==
    ASSUME NEW s \in Queues, NEW loaded \in SUBSET Files, NEW remaining
    PROVE  Extends(s, ProcessBatch(s, loaded, remaining))
<1>1. "loaded" \in Kinds \ {"start"}
    BY DEF Kinds
<1>2. QED
    BY <1>1, AddMessageExtends, ExtendsReflexive DEF ProcessBatch

(* The queue of a sync that has started stays one when it is extended. *)
LEMMA ExtendsQueueOK ==
    ASSUME NEW s, QueueOK(s), s.sync # 0, NEW t, Extends(s, t)
    PROVE  QueueOK(t) /\ t.sync # 0
<1>1. /\ s \in Queues /\ t \in Queues /\ t.sync = s.sync /\ t.next = s.next
      /\ Len(s.msgs) \in Nat /\ Len(t.msgs) \in Nat /\ Len(s.msgs) <= Len(t.msgs)
      /\ Len(s.msgs) # 0 /\ s.next <= Len(s.msgs) /\ s.next \in Nat
    BY DEF QueueOK, Extends, Queues
<1>2. ASSUME NEW i \in 1..Len(t.msgs)
      PROVE  t.msgs[i].sync = t.sync /\ t.msgs[i].id = i - 1 /\ (t.msgs[i].kind = "start" <=> i = 1)
  <2>1. CASE i <= Len(s.msgs)
    <3>1. i \in 1..Len(s.msgs)
        BY <1>1, <2>1
    <3>2. QED
        BY <1>1, <3>1 DEF QueueOK, Extends
  <2>2. CASE ~(i <= Len(s.msgs))
    <3>1. i \in (Len(s.msgs) + 1)..Len(t.msgs) /\ i # 1
        BY <1>1, <2>2
    <3>2. QED
        BY <1>1, <3>1 DEF Extends
  <2>3. QED
      BY <2>1, <2>2
<1>3. QED
    BY <1>1, <1>2 DEF QueueOK

(* A queue as a sync begins: the start message alone. *)
LEMMA SyncStartOpens ==
    ASSUME NEW s \in Queues, s.next = 0, s.msgs = <<>>, NEW initial \in BOOLEAN,
           NEW t \in Nat \ {0}
    PROVE  /\ QueueOK(SyncStart(s, initial, t))
           /\ SyncStart(s, initial, t).sync # 0
           /\ SyncStart(s, initial, t).next = 0
           /\ SyncStart(s, initial, t).msgs[1].initial = initial
<1> DEFINE n == IF t = s.last THEN t + 1 ELSE t
           u == [s EXCEPT !.sync = n]
           m == Message(u, 0, "start", {}, initial)
           q == SyncStart(s, initial, t)
<1>1. n \in Nat \ {0}
    OBVIOUS
<1> HIDE DEF n
<1>2. u \in Queues /\ u.sync = n /\ u.next = 0 /\ u.msgs = <<>>
    BY <1>1 DEF Queues
<1>3. q = [u EXCEPT !.msgs = Append(<<>>, m)]
  <2>1. q = [u EXCEPT !.msgs = Append(u.msgs, Message(u, Len(u.msgs), "start", {}, initial))]
      BY DEF SyncStart, AddMessage, n
  <2> HIDE DEF u
  <2>2. Len(u.msgs) = 0
      BY <1>2
  <2>3. QED
      BY <1>2, <2>1, <2>2
<1> HIDE DEF q, u
<1>4. m \in Messages /\ m.sync = n /\ m.id = 0 /\ m.kind = "start" /\ m.initial = initial
    BY <1>1, <1>2 DEF Message, Messages, Kinds, Queues
<1> HIDE DEF m
<1>5. Append(<<>>, m) \in Seq(Messages) /\ Len(Append(<<>>, m)) = 1 /\ Append(<<>>, m)[1] = m
    BY <1>4
<1>6. q \in Queues /\ q.sync = n /\ q.next = 0 /\ q.msgs = Append(<<>>, m)
    BY <1>2, <1>3, <1>5 DEF Queues
<1>7. Len(q.msgs) = 1 /\ q.msgs[1] = m
    BY <1>5, <1>6
<1>8. \A i \in 1..Len(q.msgs) : i = 1
    BY <1>7
<1>9. QED
    BY <1>1, <1>4, <1>6, <1>7, <1>8 DEF QueueOK, q

(* The queue that _reset fills: a whole sync, which the receiver starts     *)
(* from nothing.                                                           *)
LEMMA FilledOK ==
    ASSUME Types, NEW t \in Nat \ {0}
    PROVE  /\ QueueOK(Filled(t))
           /\ Filled(t).sync # 0
           /\ Filled(t).next = 0
           /\ Filled(t).msgs[1].initial
<1> DEFINE a == SyncStart(Cleared, TRUE, t)
           b == AddMessages(a, "loaded", Batches(pm.plots))
           c == SyncDone(b, {}, pm.lists)
<1>1. Cleared \in Queues /\ Cleared.next = 0 /\ Cleared.msgs = <<>>
    BY DEF Cleared, Queues
<1>2. QueueOK(a) /\ a.sync # 0 /\ a.next = 0 /\ a.msgs[1].initial
    BY <1>1, SyncStartOpens
<1> HIDE DEF a
<1>3. pm.plots \in SUBSET Files /\ pm.lists \in [Lists -> SUBSET Files] /\ {} \in SUBSET Files
    BY DEF Types
<1>4. a \in Queues /\ Batches(pm.plots) \in Seq(SUBSET Files) /\ "loaded" \in Kinds \ {"start"}
    BY <1>2, <1>3, BatchesType DEF QueueOK, Kinds
<1>5. Extends(a, b)
    BY <1>4, AddMessagesExtends
<1> HIDE DEF b
<1>6. b \in Queues
    BY <1>5 DEF Extends
<1>7. Extends(b, c)
    BY <1>3, <1>6, SyncDoneExtends
<1> HIDE DEF c
<1>8. c \in Queues
    BY <1>7 DEF Extends
<1>9. Extends(a, c)
    BY <1>4, <1>5, <1>6, <1>7, <1>8, ExtendsTransitive
<1>10. Filled(t) = c
    BY DEF Filled, a, b, c
<1>11. QueueOK(c) /\ c.sync # 0
    BY <1>2, <1>9, ExtendsQueueOK
<1>12. 1 \in 1..Len(a.msgs)
    BY <1>2 DEF QueueOK, Queues
<1>13. c.next = 0 /\ c.msgs[1] = a.msgs[1]
    BY <1>2, <1>9, <1>12 DEF Extends
<1>14. QED
    BY <1>2, <1>10, <1>11, <1>13

-------------------------------------------------------------------------------
(* The receiver. *)

(* The kinds of messages that carry files. *)
Carriers == {"loaded", "removed"} \cup Lists

(* One message more adds its data to its kind. *)
LEMMA DataOfNext ==
    ASSUME NEW q, NEW n \in Nat, NEW kind
    PROVE  DataOf(q, n + 1, kind) =
             DataOf(q, n, kind) \cup (IF q[n + 1].kind = kind THEN q[n + 1].data ELSE {})
<1>1. ASSUME NEW j PROVE j \in 1..(n + 1) <=> (j \in 1..n \/ j = n + 1)
    OBVIOUS
<1>2. ASSUME NEW x
      PROVE  x \in DataOf(q, n + 1, kind) <=>
                (x \in DataOf(q, n, kind) \/ (q[n + 1].kind = kind /\ x \in q[n + 1].data))
  <2>1. \A k : x \in DataOf(q, k, kind) <=> \E j \in 1..k : q[j].kind = kind /\ x \in q[j].data
      BY DEF DataOf
  <2>2. QED
      BY <1>1, <2>1
<1>3. QED
    BY <1>2

(* Nothing is said before the first message, nor by the first. *)
LEMMA DataOfStart ==
    ASSUME NEW q, NEW kind, q[1].kind # kind
    PROVE  DataOf(q, 1, kind) = {}
<1>1. \A j \in 1..1 : j = 1
    OBVIOUS
<1>2. QED
    BY <1>1 DEF DataOf

LEMMA ExtendsHasPrefix ==
    ASSUME NEW s, QueueOK(s), NEW t, Extends(s, t), NEW r, NEW n \in Nat, HasPrefix(r, s, n)
    PROVE  HasPrefix(r, t, n)
<1>1. /\ Len(s.msgs) \in Nat /\ Len(t.msgs) \in Nat /\ Len(s.msgs) <= Len(t.msgs)
      /\ n <= Len(s.msgs) /\ t.sync = s.sync
    BY DEF QueueOK, Extends, Queues, HasPrefix
<1>2. ASSUME NEW k \in Nat, k <= Len(s.msgs), NEW kind
      PROVE  DataOf(t.msgs, k, kind) = DataOf(s.msgs, k, kind)
  <2>1. \A i \in 1..k : t.msgs[i] = s.msgs[i]
    <3>1. \A i \in 1..k : i \in 1..Len(s.msgs)
        BY <1>1, <1>2
    <3>2. QED
        BY <3>1 DEF Extends
  <2>2. QED
      BY <2>1 DEF DataOf
<1>3. ASSUME n < Len(s.msgs)
      PROVE  n < Len(t.msgs) /\ n + 1 \in Nat /\ n + 1 <= Len(s.msgs) /\ t.msgs[n + 1] = s.msgs[n + 1]
  <2>1. n + 1 \in 1..Len(s.msgs) /\ n < Len(t.msgs) /\ n + 1 <= Len(s.msgs)
      BY <1>1, <1>3
  <2>2. QED
      BY <2>1 DEF Extends
<1>4. ASSUME NEW kind \in {"loaded", "removed"} \cup Lists
      PROVE  \/ Collected(r, kind) = DataOf(t.msgs, n, kind)
             \/ /\ n < Len(t.msgs) /\ t.msgs[n + 1].kind = kind
                /\ DataOf(t.msgs, n, kind) \subseteq Collected(r, kind)
                /\ Collected(r, kind) \subseteq DataOf(t.msgs, n + 1, kind)
                /\ t.msgs[n + 1].data \cap Refused(r, kind) # {}
  <2>1. \/ Collected(r, kind) = DataOf(s.msgs, n, kind)
        \/ /\ n < Len(s.msgs) /\ s.msgs[n + 1].kind = kind
           /\ DataOf(s.msgs, n, kind) \subseteq Collected(r, kind)
           /\ Collected(r, kind) \subseteq DataOf(s.msgs, n + 1, kind)
           /\ s.msgs[n + 1].data \cap Refused(r, kind) # {}
      BY DEF HasPrefix
  <2>2. DataOf(t.msgs, n, kind) = DataOf(s.msgs, n, kind)
      BY <1>1, <1>2
  <2>3. CASE Collected(r, kind) = DataOf(s.msgs, n, kind)
      BY <2>2, <2>3
  <2>4. CASE ~(Collected(r, kind) = DataOf(s.msgs, n, kind))
    <3>1. DataOf(t.msgs, n + 1, kind) = DataOf(s.msgs, n + 1, kind)
        BY <1>2, <1>3, <2>1, <2>4
    <3>2. QED
        BY <1>3, <2>1, <2>2, <2>4, <3>1
  <2>5. QED
      BY <2>3, <2>4
<1>5. QED
    BY <1>1, <1>4 DEF HasPrefix

(* What is known of the receiver stays true when messages are queued. *)
LEMMA ExtendsKeeps ==
    ASSUME NEW s, QueueOK(s), s.sync # 0, NEW t, Extends(s, t), NEW r
    PROVE  /\ s.next < Len(s.msgs) => t.next < Len(t.msgs) /\ Current(t) = Current(s)
           /\ Before(r, s) => Before(r, t)
           /\ Behind(r, s) => Behind(r, t)
           /\ \A a : AnswerOK(a, r, s) => AnswerOK(a, r, t)
<1>1. /\ Len(s.msgs) \in Nat /\ Len(t.msgs) \in Nat /\ Len(s.msgs) <= Len(t.msgs)
      /\ Len(s.msgs) # 0 /\ s.next \in Nat /\ t.next = s.next
    BY DEF QueueOK, Extends, Queues
<1>2. t.msgs[1] = s.msgs[1]
  <2>1. 1 \in 1..Len(s.msgs)
      BY <1>1
  <2>2. QED
      BY <2>1 DEF Extends
<1>3. ASSUME s.next < Len(s.msgs) PROVE t.next < Len(t.msgs) /\ Current(t) = Current(s)
  <2>1. s.next + 1 \in 1..Len(s.msgs)
      BY <1>1, <1>3
  <2>2. QED
      BY <1>1, <1>3, <2>1 DEF Extends, Current
<1>4. ASSUME Before(r, s) PROVE Before(r, t)
    BY <1>1, <1>2, <1>4, ExtendsHasPrefix DEF Before
<1>5. ASSUME Behind(r, s) PROVE Behind(r, t)
  <2>1. s.next < Len(s.msgs) /\ s.next + 1 \in Nat
      BY <1>1, <1>5 DEF Behind
  <2>2. t.next < Len(t.msgs) /\ Current(t) = Current(s)
      BY <1>3, <2>1
  <2>3. QED
      BY <1>1, <1>5, <2>1, <2>2, ExtendsHasPrefix DEF Behind
<1>6. ASSUME NEW a, AnswerOK(a, r, s) PROVE AnswerOK(a, r, t)
  <2>1. CASE a.code \in {"ok", "expect"}
    <3>1. Behind(r, s) /\ s.next < Len(s.msgs)
        BY <1>6, <2>1 DEF AnswerOK, Behind
    <3>2. Behind(r, t) /\ Current(t) = Current(s)
        BY <1>3, <1>5, <3>1
    <3>3. QED
        BY <1>1, <1>6, <3>2 DEF AnswerOK
  <2>2. CASE a.code \notin {"ok", "expect"}
      BY <1>6, <2>2 DEF AnswerOK
  <2>3. QED
      BY <2>1, <2>2
<1>7. QED
    BY <1>3, <1>4, <1>5, <1>6

(* Collecting S of a kind changes that kind only. *)
LEMMA CollectKeeps ==
    ASSUME NEW r \in Receivers, NEW kind \in Carriers, NEW S \in SUBSET Files
    PROVE  /\ Collect(r, kind, S) \in Receivers
           /\ Collect(r, kind, S).cur.sync = r.cur.sync
           /\ Collect(r, kind, S).cur.next = r.cur.next
           /\ Collected(Collect(r, kind, S), kind) = Collected(r, kind) \cup S
           /\ Refused(r, kind) \subseteq Refused(Collect(r, kind, S), kind)
           /\ \A k \in Carriers \ {kind} : Collected(Collect(r, kind, S), k) = Collected(r, k)
<1> DEFINE q == Collect(r, kind, S)
<1>0. \A k \in Lists : k # "loaded" /\ k # "removed"
    BY PlotSyncAssumption
<1>1. CASE kind = "loaded"
  <2>1. q = [r EXCEPT !.cur.adds = @ \cup S]
      BY <1>1 DEF Collect
  <2> HIDE DEF q
  <2>2. /\ q \in Receivers /\ q.cur.sync = r.cur.sync /\ q.cur.next = r.cur.next
        /\ q.cur.adds = r.cur.adds \cup S /\ q.plots = r.plots
        /\ q.cur.rems = r.cur.rems /\ q.cur.found = r.cur.found
      BY <2>1 DEF Receivers, Syncs
  <2>3. Collected(q, kind) = Collected(r, kind) \cup S /\ Refused(r, kind) \subseteq Refused(q, kind)
      BY <1>1, <2>2 DEF Collected, Refused
  <2>4. \A k \in Carriers \ {kind} : Collected(q, k) = Collected(r, k)
      BY <1>1, <2>2 DEF Collected
  <2>5. QED
      BY <2>2, <2>3, <2>4 DEF q
<1>2. CASE kind = "removed"
  <2>1. q = [r EXCEPT !.cur.rems = @ \cup S]
      BY <1>2 DEF Collect
  <2> HIDE DEF q
  <2>2. /\ q \in Receivers /\ q.cur.sync = r.cur.sync /\ q.cur.next = r.cur.next
        /\ q.cur.rems = r.cur.rems \cup S /\ q.plots = r.plots
        /\ q.cur.adds = r.cur.adds /\ q.cur.found = r.cur.found
      BY <2>1 DEF Receivers, Syncs
  <2>3. Collected(q, kind) = Collected(r, kind) \cup S /\ Refused(r, kind) \subseteq Refused(q, kind)
      BY <1>2, <2>2 DEF Collected, Refused
  <2>4. \A k \in Carriers \ {kind} : Collected(q, k) = Collected(r, k)
      BY <1>2, <2>2 DEF Collected
  <2>5. QED
      BY <2>2, <2>3, <2>4 DEF q
<1>3. CASE kind \in Lists
  <2>1. q = [r EXCEPT !.cur.found[kind] = @ \cup S]
      BY <1>0, <1>3 DEF Collect
  <2> HIDE DEF q
  <2>2. /\ q \in Receivers /\ q.cur.sync = r.cur.sync /\ q.cur.next = r.cur.next
        /\ q.cur.found[kind] = r.cur.found[kind] \cup S /\ q.plots = r.plots
        /\ q.cur.adds = r.cur.adds /\ q.cur.rems = r.cur.rems
        /\ \A k \in Lists \ {kind} : q.cur.found[k] = r.cur.found[k]
      BY <1>3, <2>1 DEF Receivers, Syncs
  <2>3. Collected(q, kind) = Collected(r, kind) \cup S /\ Refused(r, kind) \subseteq Refused(q, kind)
      BY <1>0, <1>3, <2>2 DEF Collected, Refused
  <2>4. \A k \in Carriers \ {kind} : Collected(q, k) = Collected(r, k)
      BY <1>3, <2>2 DEF Collected, Carriers
  <2>5. QED
      BY <2>2, <2>3, <2>4 DEF q
<1>4. QED
    BY <1>1, <1>2, <1>3 DEF Carriers

(* bump_next_message_id changes nothing else. *)
LEMMA BumpedKeeps ==
    ASSUME NEW r \in Receivers
    PROVE  /\ Bumped(r) \in Receivers
           /\ Bumped(r).cur.sync = r.cur.sync
           /\ Bumped(r).cur.next = r.cur.next + 1
           /\ \A kind : Collected(Bumped(r), kind) = Collected(r, kind)
<1> DEFINE q == Bumped(r)
<1>1. q = [r EXCEPT !.cur.next = @ + 1]
    BY DEF Bumped
<1> HIDE DEF q
<1>2. /\ q \in Receivers /\ q.cur.sync = r.cur.sync /\ q.cur.next = r.cur.next + 1
      /\ q.cur.adds = r.cur.adds /\ q.cur.rems = r.cur.rems /\ q.cur.found = r.cur.found
    BY <1>1 DEF Receivers, Syncs
<1>3. \A kind : Collected(q, kind) = Collected(r, kind)
    BY <1>2 DEF Collected
<1>4. QED
    BY <1>2, <1>3 DEF q

(* A list that is processed: all of it, and the receiver is one message    *)
(* further, or a part of it, and it is refused.                            *)
LEMMA ProcessListOK ==
    ASSUME NEW s, QueueOK(s), s.sync # 0, s.next # 0, s.next < Len(s.msgs),
           NEW r \in Receivers, HasPrefix(r, s, s.next), Current(s).kind \in Carriers,
           NEW o \in ProcessList(r, Current(s))
    PROVE  /\ o[1] \in Receivers
           /\ \/ o[2] = Code("ok") /\ HasPrefix(o[1], s, s.next + 1)
              \/ o[2] = Code("fail") /\ HasPrefix(o[1], s, s.next)
<1> DEFINE m == Current(s)
           n == s.next
           kind == m.kind
<1>1. /\ n \in Nat /\ Len(s.msgs) \in Nat /\ n + 1 \in 1..Len(s.msgs) /\ n + 1 <= Len(s.msgs)
      /\ n < Len(s.msgs) /\ s.msgs[n + 1] = m
    BY DEF QueueOK, Queues, Current
<1>2. m.data \in SUBSET Files
  <2>1. s.msgs \in Seq(Messages)
      BY DEF QueueOK, Queues
  <2>2. m \in Messages
      BY <1>1, <2>1
  <2> HIDE DEF m
  <2>3. QED
      BY <2>2 DEF Messages
<1>3. ASSUME NEW k
      PROVE  DataOf(s.msgs, n + 1, k) = DataOf(s.msgs, n, k) \cup (IF kind = k THEN m.data ELSE {})
  <2> HIDE DEF n
  <2>1. DataOf(s.msgs, n + 1, k) =
            DataOf(s.msgs, n, k) \cup (IF s.msgs[n + 1].kind = k THEN s.msgs[n + 1].data ELSE {})
      BY <1>1, DataOfNext
  <2>2. QED
      BY <1>1, <2>1
<1>4. /\ r.cur.sync = s.sync /\ r.cur.next = n
      /\ \A k \in Carriers :
            \/ Collected(r, k) = DataOf(s.msgs, n, k)
            \/ /\ kind = k
               /\ DataOf(s.msgs, n, k) \subseteq Collected(r, k)
               /\ Collected(r, k) \subseteq DataOf(s.msgs, n + 1, k)
               /\ m.data \cap Refused(r, k) # {}
    BY <1>1 DEF HasPrefix, Carriers
<1>k. kind \in Carriers
    OBVIOUS
<1>o. \/ /\ m.data \cap Refused(r, kind) = {}
         /\ o = <<Bumped(Collect(r, kind, m.data)), Code("ok")>>
      \/ /\ m.data \cap Refused(r, kind) # {}
         /\ \E S \in SUBSET m.data : o = <<Collect(r, kind, S), Code("fail")>>
    BY DEF ProcessList
<1> HIDE DEF m, n, kind
<1>5. CASE m.data \cap Refused(r, kind) = {} /\ o = <<Bumped(Collect(r, kind, m.data)), Code("ok")>>
  <2> DEFINE c == Collect(r, kind, m.data)
             q == Bumped(c)
  <2>1. /\ c \in Receivers /\ c.cur.sync = s.sync /\ c.cur.next = n
        /\ Collected(c, kind) = Collected(r, kind) \cup m.data
        /\ \A k \in Carriers \ {kind} : Collected(c, k) = Collected(r, k)
      BY <1>2, <1>4, <1>k, CollectKeeps
  <2> HIDE DEF c
  <2>2. /\ q \in Receivers /\ q.cur.sync = s.sync /\ q.cur.next = n + 1
        /\ \A k : Collected(q, k) = Collected(c, k)
      BY <2>1, BumpedKeeps
  <2> HIDE DEF q
  <2>3. ASSUME NEW k \in Carriers PROVE Collected(q, k) = DataOf(s.msgs, n + 1, k)
    <3>1. Collected(r, k) = DataOf(s.msgs, n, k)
        BY <1>4, <1>5
    <3>2. QED
        BY <1>3, <2>1, <2>2, <3>1
  <2>4. HasPrefix(q, s, n + 1)
      BY <1>1, <2>2, <2>3 DEF HasPrefix, Carriers
  <2>5. o[1] = q /\ o[2] = Code("ok")
      BY <1>5 DEF q, c
  <2>6. QED
      BY <2>2, <2>4, <2>5 DEF n
<1>6. ASSUME m.data \cap Refused(r, kind) # {},
             NEW S \in SUBSET m.data, o = <<Collect(r, kind, S), Code("fail")>>
      PROVE  o[1] \in Receivers /\ o[2] = Code("fail") /\ HasPrefix(o[1], s, n)
  <2> DEFINE c == Collect(r, kind, S)
  <2>0. S \in SUBSET Files
      BY <1>2
  <2>1. /\ c \in Receivers /\ c.cur.sync = s.sync /\ c.cur.next = n
        /\ Collected(c, kind) = Collected(r, kind) \cup S
        /\ Refused(r, kind) \subseteq Refused(c, kind)
        /\ \A k \in Carriers \ {kind} : Collected(c, k) = Collected(r, k)
      BY <2>0, <1>4, <1>k, CollectKeeps
  <2> HIDE DEF c
  <2>2. ASSUME NEW k \in Carriers
        PROVE  \/ Collected(c, k) = DataOf(s.msgs, n, k)
               \/ /\ n < Len(s.msgs) /\ s.msgs[n + 1].kind = k
                  /\ DataOf(s.msgs, n, k) \subseteq Collected(c, k)
                  /\ Collected(c, k) \subseteq DataOf(s.msgs, n + 1, k)
                  /\ s.msgs[n + 1].data \cap Refused(c, k) # {}
    <3>1. CASE k # kind
        BY <1>4, <2>1, <3>1
    <3>2. CASE k = kind
      <4>1. /\ DataOf(s.msgs, n, k) \subseteq Collected(r, k)
            /\ Collected(r, k) \subseteq DataOf(s.msgs, n + 1, k)
          BY <1>3, <1>4, <3>2
      <4>2. /\ DataOf(s.msgs, n, k) \subseteq Collected(c, k)
            /\ Collected(c, k) \subseteq DataOf(s.msgs, n + 1, k)
          BY <1>3, <2>1, <3>2, <4>1
      <4>3. m.data \cap Refused(c, k) # {}
          BY <1>6, <2>1, <3>2
      <4>4. QED
          BY <1>1, <3>2, <4>2, <4>3 DEF kind
    <3>3. QED
        BY <3>1, <3>2
  <2>3. HasPrefix(c, s, n)
      BY <1>1, <2>1, <2>2 DEF HasPrefix, Carriers
  <2>4. QED
      BY <1>6, <2>1, <2>3 DEF c
<1>7. QED
    BY <1>o, <1>5, <1>6 DEF n

(* The receiver's handlers keep it before or behind the current message,   *)
(* their answers say where it is, and earlier answers stay true.           *)
LEMMA HandledOK ==
    ASSUME NEW s, QueueOK(s), s.sync # 0, s.next < Len(s.msgs),
           NEW r \in Receivers, Before(r, s) \/ Behind(r, s),
           NEW o \in Handled(r, Current(s))
    PROVE  /\ o[1] \in Receivers /\ o[2] \in Answers
           /\ Before(o[1], s) \/ Behind(o[1], s)
           /\ AnswerOK(o[2], o[1], s)
           /\ \A a : AnswerOK(a, r, s) => AnswerOK(a, o[1], s)
<1> DEFINE m == Current(s)
           n == s.next
<1>1. /\ n \in Nat /\ Len(s.msgs) \in Nat /\ n + 1 \in 1..Len(s.msgs)
      /\ m.sync = s.sync /\ m.id = n /\ (m.kind = "start" <=> n = 0)
      /\ s.msgs[n + 1] = m /\ s.sync \in Nat
    BY DEF QueueOK, Queues, Current
<1>2. m \in Messages
  <2>1. s.msgs \in Seq(Messages)
      BY DEF QueueOK, Queues
  <2>2. QED
      BY <1>1, <2>1
<1>3. ASSUME NEW q \in Receivers
      PROVE  Expect(q) \in Answers /\ Code("ok") \in Answers /\ Code("fail") \in Answers
    BY DEF Expect, Code, Answers, Receivers, Syncs
<1>s. NewReceiver \in Receivers /\ NewReceiver.cur = NoSync /\ NewReceiver.last = 0
    BY DEF NewReceiver, Receivers, Syncs, NoSync, Empty
<1>4. CASE n = 0
  <2> DEFINE q == IF m.initial THEN NewReceiver ELSE r
  <2>0. m.kind = "start" /\ m.id = 0 /\ s.msgs[1] = m
      BY <1>1, <1>4
  <2>h. o \in SyncStarted(r, m)
      BY <2>0 DEF Handled
  <2>1. q \in Receivers
      BY <1>s
  <2>2. Behind(q, s) <=> HasPrefix(q, s, 1)
      BY <1>1, <1>4, <2>0 DEF Behind
  <2>3. CASE m.id # q.cur.next
    <3>1. o = <<q, Expect(q)>>
        BY <2>h, <2>3 DEF SyncStarted
    <3>2. ~m.initial /\ q = r /\ r.cur # NoSync
      <4>1. NoSync.next = 0
          BY DEF NoSync
      <4>2. QED
          BY <1>s, <2>0, <2>3, <4>1
    <3>3. Behind(r, s)
        BY <1>1, <1>4, <2>0, <3>2 DEF Before
    <3>4. AnswerOK(Expect(r), r, s)
        BY <3>2, <3>3 DEF AnswerOK, Expect
    <3>5. QED
        BY <1>3, <3>1, <3>2, <3>3, <3>4
  <2>4. CASE m.id = q.cur.next /\ (m.last # q.last \/ m.last = m.sync)
    <3>1. o = <<q, Code("fail")>>
        BY <2>h, <2>4 DEF SyncStarted
    <3>2. Before(q, s) \/ Behind(q, s)
        BY <1>4, <2>0 DEF Before
    <3>3. AnswerOK(Code("fail"), q, s)
        BY DEF AnswerOK, Code
    <3>4. ASSUME NEW a, AnswerOK(a, r, s) PROVE AnswerOK(a, q, s)
      <4>1. CASE m.initial
        <5>1. m.last # 0 \/ m.last = m.sync
            BY <1>s, <2>4, <4>1
        <5>2. ~(a.code \in {"ok", "expect"})
            BY <1>1, <1>4, <3>4, <4>1, <5>1 DEF AnswerOK
        <5>3. QED
            BY <3>4, <5>2 DEF AnswerOK
      <4>2. CASE ~m.initial
          BY <3>4, <4>2
      <4>3. QED
          BY <4>1, <4>2
    <3> HIDE DEF q
    <3>5. QED
        BY <1>3, <2>1, <3>1, <3>2, <3>3, <3>4
  <2>5. CASE m.id = q.cur.next /\ ~(m.last # q.last \/ m.last = m.sync)
    <3> DEFINE c == [q EXCEPT !.cur = [NoSync EXCEPT !.sync = m.sync, !.next = q.cur.next]]
               p == Bumped(c)
    <3>1. o = <<p, Code("ok")>>
        BY <2>h, <2>5 DEF SyncStarted
    <3>2. /\ c \in Receivers /\ c.cur.sync = s.sync /\ c.cur.next = 0
          /\ c.cur.adds = {} /\ c.cur.rems = {} /\ c.cur.found = Empty
      <4> HIDE DEF q
      <4>1. q.cur.next = 0 /\ m.sync = s.sync
          BY <1>1, <2>0, <2>5
      <4>2. QED
          BY <1>1, <2>1, <4>1 DEF Receivers, Syncs, NoSync, Empty
    <3> HIDE DEF c
    <3>3. \A k \in Carriers : Collected(c, k) = {}
        BY <3>2, PlotSyncAssumption DEF Collected, Carriers, Empty
    <3>4. /\ p \in Receivers /\ p.cur.sync = s.sync /\ p.cur.next = 1
          /\ \A k : Collected(p, k) = Collected(c, k)
        BY <3>2, BumpedKeeps
    <3> HIDE DEF p
    <3>5. \A k \in Carriers : DataOf(s.msgs, 1, k) = {}
      <4>1. \A k \in Carriers : s.msgs[1].kind # k
          BY <2>0, PlotSyncAssumption DEF Carriers
      <4>2. QED
          BY <4>1, DataOfStart
    <3>6. 1 <= Len(s.msgs)
        BY <1>1
    <3>7. HasPrefix(p, s, 1)
        BY <3>3, <3>4, <3>5, <3>6 DEF HasPrefix, Carriers
    <3>8. Behind(p, s)
        BY <1>1, <1>4, <2>0, <3>7 DEF Behind
    <3>9. m.initial => m.last = 0
        BY <1>s, <2>5
    <3>10. AnswerOK(Code("ok"), p, s)
        BY <3>8, <3>9 DEF AnswerOK, Code
    <3>11. ASSUME NEW a, AnswerOK(a, r, s) PROVE AnswerOK(a, p, s)
      <4>1. CASE a.code # "expect"
          BY <3>8, <3>9, <3>11, <4>1 DEF AnswerOK
      <4>2. CASE a.code = "expect"
        <5>1. Behind(r, s) /\ (n = 0 /\ m.initial => a.code = "ok")
            BY <3>11, <4>2 DEF AnswerOK
        <5>2. ~m.initial
            BY <1>4, <4>2, <5>1
        <5>3. q = r
            BY <5>2
        <5>4. r.cur.next = 1
            BY <2>2, <5>1, <5>3 DEF HasPrefix
        <5>5. QED
            BY <2>0, <2>5, <5>3, <5>4
      <4>3. QED
          BY <4>1, <4>2
    <3>12. QED
        BY <1>3, <3>1, <3>4, <3>8, <3>10, <3>11
  <2>6. QED
      BY <2>3, <2>4, <2>5
<1>5. CASE n # 0 /\ (m.sync # r.cur.sync \/ m.id # r.cur.next)
  <2>1. o = <<r, Expect(r)>>
      BY <1>1, <1>5 DEF Handled
  <2>2. ~Before(r, s)
      BY <1>1, <1>5 DEF Before, HasPrefix
  <2>3. Behind(r, s)
      BY <2>2
  <2>4. AnswerOK(Expect(r), r, s)
      BY <1>5, <2>3 DEF AnswerOK, Expect
  <2>5. QED
      BY <1>3, <2>1, <2>3, <2>4
<1>6. CASE n # 0 /\ ~(m.sync # r.cur.sync \/ m.id # r.cur.next)
  <2>1. ~Behind(r, s)
    <3>1. n + 1 # n /\ NoSync.sync = 0
        BY <1>1 DEF NoSync
    <3>2. QED
        BY <1>1, <1>6, <3>1 DEF Behind, HasPrefix
  <2>2. HasPrefix(r, s, n)
      BY <1>6, <2>1 DEF Before
  <2>3. \A a : AnswerOK(a, r, s) => a.code \notin {"none", "ok", "expect"}
      BY <2>1 DEF AnswerOK
  <2>4. ASSUME NEW q, NEW a, AnswerOK(a, r, s) PROVE AnswerOK(a, q, s)
      BY <2>3, <2>4 DEF AnswerOK
  <2>5. CASE m.kind = "done"
    <3>1. o = <<Applied(r), Code("ok")>>
        BY <1>1, <1>6, <2>5 DEF Handled
    <3>2. Applied(r) \in Receivers /\ Applied(r).cur = NoSync
        BY DEF Applied, Receivers, Syncs, NoSync, Empty
    <3>3. Behind(Applied(r), s)
        BY <2>5, <3>2 DEF Behind
    <3>4. AnswerOK(Code("ok"), Applied(r), s)
        BY <1>6, <3>3 DEF AnswerOK, Code
    <3>5. QED
        BY <1>3, <2>4, <3>1, <3>2, <3>3, <3>4
  <2>6. CASE m.kind # "done"
    <3>1. m.kind \in Carriers
        BY <1>1, <1>2, <1>6, <2>6 DEF Messages, Kinds, Carriers
    <3>2. o \in ProcessList(r, m)
        BY <1>1, <1>6, <2>6 DEF Handled
    <3>3. /\ o[1] \in Receivers
          /\ \/ o[2] = Code("ok") /\ HasPrefix(o[1], s, n + 1)
             \/ o[2] = Code("fail") /\ HasPrefix(o[1], s, n)
        BY <1>6, <2>2, <3>1, <3>2, ProcessListOK
    <3>4. CASE o[2] = Code("ok") /\ HasPrefix(o[1], s, n + 1)
      <4>1. Behind(o[1], s)
          BY <2>6, <3>4 DEF Behind
      <4>2. AnswerOK(o[2], o[1], s)
          BY <1>6, <3>4, <4>1 DEF AnswerOK, Code
      <4>3. QED
          BY <1>3, <2>4, <3>3, <3>4, <4>1, <4>2
    <3>5. CASE o[2] = Code("fail") /\ HasPrefix(o[1], s, n)
      <4>1. Before(o[1], s)
          BY <1>6, <3>5 DEF Before
      <4>2. AnswerOK(o[2], o[1], s)
          BY <3>5 DEF AnswerOK, Code
      <4>3. QED
          BY <1>3, <2>4, <3>3, <3>5, <4>1, <4>2
    <3>6. QED
        BY <3>3, <3>4, <3>5
  <2>7. QED
      BY <2>5, <2>6
<1>7. QED
    BY <1>4, <1>5, <1>6

-------------------------------------------------------------------------------
(* The plot manager's thread. *)

Core == <<snd, resp, task, stop, loop, hs, conn, net, rcv>>

(* Only the types depend on the rest of the state. *)
LEMMA CoreUnchanged ==
    ASSUME IInv, UNCHANGED Core, Types'
    PROVE  IInv'
<1>1. QueueOK(snd)'
    BY DEF IInv, Core, QueueOK
<1>2. ConnOK'
    BY DEF IInv, Core, ConnOK, Stopped
<1>3. WaitOK'
    BY DEF IInv, Core, WaitOK, Current
<1>4. SyncOK'
    BY DEF IInv, Core, SyncOK, Stopped, NetOK, Before, Behind, HasPrefix, Current, AnswerOK, Awaited
<1>5. QED
    BY <1>1, <1>2, <1>3, <1>4 DEF IInv

(* Messages may be queued at any time behind those of a sync. *)
LEMMA QueueGrows ==
    ASSUME IInv, Types', snd.sync # 0, Extends(snd, snd'),
           UNCHANGED <<resp, task, stop, loop, hs, conn, net, rcv>>
    PROVE  IInv'
<1>1. QueueOK(snd) /\ ConnOK /\ WaitOK /\ SyncOK
    BY DEF IInv
<1>2. QueueOK(snd') /\ snd'.sync # 0 /\ snd'.next = snd.next
    BY <1>1, ExtendsQueueOK DEF Extends
<1>3. /\ snd.next < Len(snd.msgs) => snd'.next < Len(snd'.msgs) /\ Current(snd') = Current(snd)
      /\ Before(rcv, snd) => Before(rcv, snd')
      /\ Behind(rcv, snd) => Behind(rcv, snd')
      /\ \A a : AnswerOK(a, rcv, snd) => AnswerOK(a, rcv, snd')
    BY <1>1, ExtendsKeeps
<1>4. ConnOK'
    BY <1>1 DEF ConnOK, Stopped
<1>5. WaitOK'
    BY <1>1, <1>3 DEF WaitOK
<1>6. NetOK => NetOK'
  <2> SUFFICES ASSUME NetOK PROVE NetOK'
      OBVIOUS
  <2>1. (net # NoMessages => snd.next < Len(snd.msgs))'
      BY <1>3 DEF NetOK
  <2>2. ASSUME NEW i \in 1..Len(net.toFarmer)
        PROVE  /\ net.toFarmer[i].msg = Current(snd')
               /\ net.toFarmer[i].late \/ (Awaited' /\ i = Len(net.toFarmer))
    <3>1. net # NoMessages
        BY <2>2 DEF NoMessages
    <3>2. QED
        BY <1>3, <3>1 DEF NetOK, Awaited
  <2>3. ASSUME NEW i \in 1..Len(net.toHarvester)
        PROVE  /\ AnswerOK(net.toHarvester[i].ans, rcv, snd')
               /\ net.toHarvester[i].late
                  \/ (Awaited' /\ i = Len(net.toHarvester) /\ net.toFarmer = <<>>)
      BY <1>3 DEF NetOK, Awaited
  <2>4. ASSUME task = "wait" /\ resp.ans # NoAnswer
        PROVE  net = NoMessages /\ AnswerOK(resp.ans, rcv, snd')
      BY <1>3, <2>4 DEF NetOK
  <2>5. QED
      BY <2>1, <2>2, <2>3, <2>4 DEF NetOK
<1>7. SyncOK'
    BY <1>1, <1>2, <1>3, <1>6 DEF SyncOK, Stopped
<1>8. QED
    BY <1>2, <1>4, <1>5, <1>7 DEF IInv

(* A sync begins on an empty queue. *)
LEMMA QueueOpens ==
    ASSUME IInv, Types', snd.sync = 0, QueueOK(snd'), snd'.sync # 0, snd'.next = 0,
           UNCHANGED <<resp, task, stop, loop, hs, conn, net, rcv>>
    PROVE  IInv'
<1>1. QueueOK(snd) /\ ConnOK /\ WaitOK /\ SyncOK
    BY DEF IInv
<1>2. snd.next = Len(snd.msgs) /\ snd.next = 0
    BY <1>1 DEF QueueOK, Queues
<1>3. task # "wait"
    BY <1>1, <1>2 DEF WaitOK
<1>4. ConnOK' /\ WaitOK'
    BY <1>1, <1>3 DEF ConnOK, WaitOK, Stopped
<1>5. ASSUME net = NoMessages, rcv.cur = NoSync PROVE Before(rcv, snd') /\ NetOK'
  <2>1. Before(rcv, snd')
      BY <1>5 DEF Before
  <2>2. NetOK'
      BY <1>3, <1>5 DEF NetOK, NoMessages
  <2>3. QED
      BY <2>1, <2>2
<1>6. SyncOK'
    BY <1>1, <1>5 DEF SyncOK, Stopped
<1>7. QED
    BY <1>4, <1>6 DEF IInv

LEMMA TimesType ==
    ASSUME Types
    PROVE  \A t \in Times : t \in Nat \ {0}
    BY DEF Types, Times

(* A step of the plot manager's thread keeps the invariant. *)
LEMMA ThreadKeeps ==
    ASSUME IInv, PlotManagerThread
    PROVE  IInv'
<1>t. Types /\ QueueOK(snd) /\ snd \in Queues
    BY DEF IInv, QueueOK
<1>1. CASE PmBegin
  <2>1. Types'
      BY <1>t, <1>1 DEF PmBegin, Types
  <2>2. QED
      BY <1>1, <2>1, CoreUnchanged DEF PmBegin, Core
<1>2. CASE PmStarted
  <2>1. PICK t \in Times : snd' = SyncStart(snd, pm.initial, t) /\ clock' = t
      BY <1>2 DEF PmStarted
  <2>2. t \in Nat \ {0}
      BY <1>t, TimesType
  <2>3. Types'
      BY <1>t, <1>2, <2>1, <2>2 DEF PmStarted, Types
  <2>4. snd.sync = 0 /\ snd.next = 0 /\ snd.msgs = <<>> /\ pm.initial \in BOOLEAN
    <3>1. snd.sync = 0 /\ Len(snd.msgs) = 0 /\ snd.next <= 0 /\ snd.next \in Nat /\ snd.msgs \in Seq(Messages)
        BY <1>t, <1>2 DEF PmStarted, QueueOK, Queues
    <3>2. QED
        BY <1>t, <3>1 DEF Types
  <2>5. QueueOK(snd') /\ snd'.sync # 0 /\ snd'.next = 0
      BY <1>t, <2>1, <2>2, <2>4, SyncStartOpens
  <2>6. QED
      BY <1>2, <2>3, <2>4, <2>5, QueueOpens DEF PmStarted
<1>3. CASE PmStartAborted
  <2>1. Types'
      BY <1>t, <1>3 DEF PmStartAborted, Types
  <2>2. QED
      BY <1>3, <2>1, CoreUnchanged DEF PmStartAborted, Core
<1>4. CASE PmDrop
  <2>1. Types'
      BY <1>t, <1>4 DEF PmDrop, Types
  <2>2. QED
      BY <1>4, <2>1, CoreUnchanged DEF PmDrop, Core
<1>5. CASE PmBatch
  <2>u. UNCHANGED <<resp, task, stop, loop, closer, hs, conn, net, rcv, clock>>
      BY <1>5 DEF PmBatch
  <2>p. PICK batch \in SUBSET pm.paths, tried \in SUBSET pm.paths :
            LET loaded == {f \in tried : disk[f] = "plot"}
            IN  pm' = [pm EXCEPT
                  !.pc = IF pm.enabled THEN "callback" ELSE "done",
                  !.plots = @ \cup loaded,
                  !.loaded = loaded,
                  !.paths = @ \ batch,
                  !.lists = [l \in Lists |-> (@[l] \ loaded) \cup {f \in tried : disk[f] = l}]]
      BY <1>5 DEF PmBatch
  <2> DEFINE loaded == {f \in tried : disk[f] = "plot"}
             lists == [l \in Lists |-> (pm.lists[l] \ loaded) \cup {f \in tried : disk[f] = l}]
  <2>l. loaded \in SUBSET Files /\ lists \in [Lists -> SUBSET Files]
      BY <1>t DEF Types
  <2>e. pm' = [pm EXCEPT !.pc = IF pm.enabled THEN "callback" ELSE "done",
                         !.plots = pm.plots \cup loaded, !.loaded = loaded,
                         !.paths = pm.paths \ batch, !.lists = lists]
      BY <2>p
  <2> HIDE DEF loaded, lists
  <2>1. Types'
      BY <1>t, <2>u, <2>l, <2>e DEF Types
  <2>2. QED
      BY <1>5, <2>1, CoreUnchanged DEF PmBatch, Core
<1>r. ASSUME PmReset, UNCHANGED <<resp, task, stop, loop, closer, hs, conn, net, rcv, clock>>
      PROVE  IInv'
  <2>1. Types'
      BY <1>t, <1>r DEF PmReset, Types, Empty
  <2>2. QED
      BY <1>r, <2>1, CoreUnchanged DEF PmReset, Core
<1>6. CASE PmCallback
  <2> DEFINE remaining == Cardinality(pm.paths)
  <2>u. UNCHANGED <<resp, task, stop, loop, closer, hs, conn, net, rcv, clock>>
      BY <1>6 DEF PmCallback
  <2>1. CASE PmReset
      BY <1>r, <2>1, <2>u
  <2>2. CASE /\ ~(snd.sync = 0 /\ (pm.loaded # {} \/ remaining = 0))
             /\ pm' = [pm EXCEPT !.pc = IF remaining = 0 THEN "done" ELSE "batch", !.loaded = {}]
             /\ snd' = ProcessBatch(snd, pm.loaded, remaining)
    <3>1. Types'
        BY <1>t, <2>2, <2>u DEF Types
    <3>2. Extends(snd, snd')
      <4>1. pm.loaded \in SUBSET Files
          BY <1>t DEF Types
      <4>2. QED
          BY <1>t, <2>2, <4>1, ProcessBatchExtends
    <3>3. CASE snd.sync # 0
        BY <2>u, <3>1, <3>2, <3>3, QueueGrows
    <3>4. CASE snd.sync = 0
      <4>1. snd' = snd
          BY <2>2, <3>4 DEF ProcessBatch
      <4>2. QED
          BY <2>u, <3>1, <4>1, CoreUnchanged DEF Core
    <3>5. QED
        BY <3>3, <3>4
  <2>3. QED
      BY <1>6, <2>1, <2>2 DEF PmCallback
<1>7. CASE PmDone
  <2>u. UNCHANGED <<resp, task, stop, loop, closer, hs, conn, net, rcv, clock>>
      BY <1>7 DEF PmDone
  <2>1. CASE PmReset
      BY <1>r, <2>1, <2>u
  <2>2. CASE /\ ~(pm.enabled /\ snd.sync = 0)
             /\ pm' = [pm EXCEPT !.pc = "idle", !.initial = FALSE, !.paths = {},
                                 !.removed = {}, !.loaded = {}]
             /\ snd' = IF pm.enabled THEN SyncDone(snd, pm.removed, pm.lists) ELSE snd
    <3>1. Types'
        BY <1>t, <2>2, <2>u DEF Types
    <3>2. CASE pm.enabled
      <4>1. pm.removed \in SUBSET Files /\ pm.lists \in [Lists -> SUBSET Files]
          BY <1>t DEF Types
      <4>2. Extends(snd, snd') /\ snd.sync # 0
          BY <1>t, <2>2, <3>2, <4>1, SyncDoneExtends
      <4>3. QED
          BY <2>u, <3>1, <4>2, QueueGrows
    <3>3. CASE ~pm.enabled
      <4>1. snd' = snd
          BY <2>2, <3>3
      <4>2. QED
          BY <2>u, <3>1, <4>1, CoreUnchanged DEF Core
    <3>4. QED
        BY <3>2, <3>3
  <2>3. QED
      BY <1>7, <2>1, <2>2 DEF PmDone
<1>8. CASE PmEnd
  <2>1. Types'
      BY <1>t, <1>8 DEF PmEnd, Types
  <2>2. QED
      BY <1>8, <2>1, CoreUnchanged DEF PmEnd, Core
<1>9. QED
    BY <1>1, <1>2, <1>3, <1>4, <1>5, <1>6, <1>7, <1>8 DEF PlotManagerThread

-------------------------------------------------------------------------------
(* The sender's task. *)

LEMMA ClearedOK == Cleared \in Queues /\ QueueOK(Cleared) /\ Cleared.sync = 0
<1>1. Cleared \in Queues /\ Cleared.sync = 0 /\ Cleared.next = 0 /\ Cleared.msgs = <<>>
    BY DEF Cleared, Queues
<1>2. Len(Cleared.msgs) = 0
    BY <1>1
<1>3. QED
    BY <1>1, <1>2 DEF QueueOK

(* Whoever waits too long finds the same messages late. *)
LEMMA AfterTimeoutOK ==
    ASSUME Types
    PROVE  /\ AfterTimeout(net) \in [toFarmer : Seq([msg : Messages, late : BOOLEAN]),
                                     toHarvester : Seq(Responses)]
           /\ Len(AfterTimeout(net).toFarmer) = Len(net.toFarmer)
           /\ Len(AfterTimeout(net).toHarvester) = Len(net.toHarvester)
           /\ \A i \in 1..Len(net.toFarmer) :
                 /\ AfterTimeout(net).toFarmer[i].late
                 /\ AfterTimeout(net).toFarmer[i].msg = net.toFarmer[i].msg
           /\ \A i \in 1..Len(net.toHarvester) :
                 /\ AfterTimeout(net).toHarvester[i].late
                 /\ AfterTimeout(net).toHarvester[i].ans = net.toHarvester[i].ans
           /\ net = NoMessages => AfterTimeout(net) = NoMessages
<1> DEFINE M == [msg : Messages, late : BOOLEAN]
           f == net.toFarmer
           h == net.toHarvester
           lf == Late(f)
           lh == Late(h)
<1>1. f \in Seq(M) /\ h \in Seq(Responses) /\ net \in [toFarmer : Seq(M), toHarvester : Seq(Responses)]
    BY DEF Types
<1>2. AfterTimeout(net).toFarmer = lf /\ AfterTimeout(net).toHarvester = lh
      /\ AfterTimeout(net) = [toFarmer |-> lf, toHarvester |-> lh]
    BY DEF AfterTimeout
<1> HIDE DEF f, h
<1>3. lf \in Seq(M) /\ Len(lf) = Len(f) /\ \A i \in 1..Len(f) : lf[i].late /\ lf[i].msg = f[i].msg
  <2>1. DOMAIN f = 1..Len(f) /\ Len(f) \in Nat
      BY <1>1
  <2>2. ASSUME NEW i \in 1..Len(f)
        PROVE  /\ [f[i] EXCEPT !.late = TRUE] \in M
               /\ [f[i] EXCEPT !.late = TRUE].late
               /\ [f[i] EXCEPT !.late = TRUE].msg = f[i].msg
    <3>1. f[i] \in M
      <4> HIDE DEF M
      <4>1. QED
          BY <1>1
    <3>2. QED
        BY <3>1
  <2>3. lf = [i \in 1..Len(f) |-> [f[i] EXCEPT !.late = TRUE]]
      BY <2>1 DEF Late
  <2> HIDE DEF lf, M
  <2>4. lf \in [1..Len(f) -> M]
      BY <2>2, <2>3
  <2>5. lf \in Seq(M) /\ Len(lf) = Len(f)
      BY <2>1, <2>4
  <2>6. ASSUME NEW i \in 1..Len(f) PROVE lf[i].late /\ lf[i].msg = f[i].msg
      BY <2>2, <2>3
  <2>7. QED
      BY <2>5, <2>6
<1>4. lh \in Seq(Responses) /\ Len(lh) = Len(h) /\ \A i \in 1..Len(h) : lh[i].late /\ lh[i].ans = h[i].ans
  <2>1. DOMAIN h = 1..Len(h) /\ Len(h) \in Nat
      BY <1>1
  <2>2. ASSUME NEW i \in 1..Len(h)
        PROVE  /\ [h[i] EXCEPT !.late = TRUE] \in Responses
               /\ [h[i] EXCEPT !.late = TRUE].late
               /\ [h[i] EXCEPT !.late = TRUE].ans = h[i].ans
    <3>1. h[i] \in Responses
        BY <1>1
    <3>2. QED
        BY <3>1 DEF Responses
  <2>3. lh = [i \in 1..Len(h) |-> [h[i] EXCEPT !.late = TRUE]]
      BY <2>1 DEF Late
  <2> HIDE DEF lh
  <2>4. lh \in [1..Len(h) -> Responses]
      BY <2>2, <2>3
  <2>5. lh \in Seq(Responses) /\ Len(lh) = Len(h)
      BY <2>1, <2>4
  <2>6. ASSUME NEW i \in 1..Len(h) PROVE lh[i].late /\ lh[i].ans = h[i].ans
      BY <2>2, <2>3
  <2>7. QED
      BY <2>5, <2>6
<1> HIDE DEF lf, lh
<1>5. ASSUME net = NoMessages PROVE AfterTimeout(net) = NoMessages
  <2>1. f = <<>> /\ h = <<>>
      BY <1>5 DEF f, h, NoMessages
  <2>2. lf = <<>> /\ lh = <<>>
    <3>1. Len(lf) = 0 /\ Len(lh) = 0
        BY <1>3, <1>4, <2>1
    <3>2. QED
        BY <1>3, <1>4, <3>1
  <2>3. QED
      BY <1>2, <2>2 DEF NoMessages
<1>6. QED
    BY <1>2, <1>3, <1>4, <1>5 DEF f, h

(* _reset begins when nothing is under way. *)
LEMMA FailedKeeps ==
    ASSUME IInv, Types', Failed, loop = "free", task \in {"idle", "wait"},
           conn = "up" /\ ~Stopped => net = NoMessages,
           UNCHANGED <<stop, hs, conn, net, rcv>>
    PROVE  IInv'
<1>1. ConnOK
    BY DEF IInv
<1>2. snd' = Cleared /\ loop' = "reset" /\ task' = "sleep"
    BY DEF Failed
<1>3. QueueOK(snd')
    BY <1>2, ClearedOK
<1>4. ConnOK'
    BY <1>1, <1>2 DEF ConnOK, Stopped
<1>5. WaitOK' /\ SyncOK'
    BY <1>2, ClearedOK DEF WaitOK, SyncOK, Stopped
<1>6. QED
    BY <1>3, <1>4, <1>5 DEF IInv

LEMMA SendKeeps ==
    ASSUME IInv, Send
    PROVE  IInv'
<1>1. Types /\ QueueOK(snd) /\ ConnOK /\ SyncOK
    BY DEF IInv
<1> DEFINE m == Current(snd)
<1>2. /\ loop = "free" /\ task = "idle" /\ ~stop /\ snd.sync # 0 /\ snd.next < Len(snd.msgs)
      /\ resp' = [kind |-> m.kind, sync |-> m.sync, id |-> m.id, ans |-> NoAnswer]
      /\ UNCHANGED <<pm, stop, closer, hs, conn, rcv, clock>>
    BY DEF Send, Current
<1>3. m \in Messages
  <2>1. snd.next + 1 \in 1..Len(snd.msgs) /\ snd.msgs \in Seq(Messages)
      BY <1>1, <1>2 DEF QueueOK, Queues
  <2>2. QED
      BY <2>1 DEF Current
<1>4. resp' \in [kind : Kinds \cup {"none"}, sync : Nat, id : Nat, ans : Answers]
  <2> HIDE DEF m
  <2>1. QED
      BY <1>2, <1>3 DEF Messages, Answers, NoAnswer
<1>5. CASE /\ conn = "up"
           /\ net' = [net EXCEPT !.toFarmer = Append(@, [msg |-> m, late |-> FALSE])]
           /\ task' = "wait"
           /\ UNCHANGED <<snd, loop, spent>>
  <2> DEFINE f == net.toFarmer
             e == [msg |-> m, late |-> FALSE]
             M == [msg : Messages, late : BOOLEAN]
  <2>1. f \in Seq(M) /\ e \in M
      BY <1>1, <1>3 DEF Types
  <2>2. e.msg = m /\ ~e.late
      OBVIOUS
  <2> HIDE DEF m, e
  <2>3. /\ net'.toFarmer = Append(f, e)
        /\ net' \in [toFarmer : Seq(M), toHarvester : Seq(Responses)]
        /\ net'.toHarvester = net.toHarvester
    <3>1. net' = [net EXCEPT !.toFarmer = Append(f, e)]
        BY <1>5 DEF e
    <3>2. Append(f, e) \in Seq(M)
        BY <2>1
    <3>3. QED
        BY <1>1, <3>1, <3>2 DEF Types
  <2>4. Types'
      BY <1>1, <1>2, <1>4, <1>5, <2>3 DEF Types
  <2>5. ~Stopped /\ ~Stopped'
      BY <1>2, <1>5 DEF Stopped
  <2>6. QueueOK(snd)' /\ WaitOK'
      BY <1>1, <1>2, <1>5 DEF WaitOK, QueueOK, m, Current
  <2>7. ConnOK'
      BY <1>1, <1>2, <1>5, <2>5 DEF ConnOK
  <2>8. NetOK /\ (Before(rcv, snd) \/ Behind(rcv, snd))
      BY <1>1, <1>2, <1>5, <2>5 DEF SyncOK
  <2>9. ~Awaited /\ Awaited'
      BY <1>2, <1>5 DEF Awaited
  <2>10. ASSUME NEW i \in 1..Len(net'.toFarmer)
         PROVE  /\ net'.toFarmer[i].msg = m
                /\ net'.toFarmer[i].late \/ i = Len(net'.toFarmer)
    <3>1. Len(net'.toFarmer) = Len(f) + 1 /\ Len(f) \in Nat
        BY <2>1, <2>3
    <3>2. CASE i = Len(f) + 1
      <4>1. net'.toFarmer[i] = e
          BY <2>1, <2>3, <3>2
      <4>2. QED
          BY <2>2, <3>1, <3>2, <4>1
    <3>3. CASE i # Len(f) + 1
      <4>1. i \in 1..Len(f)
          BY <3>1, <3>3
      <4>2. net'.toFarmer[i] = f[i]
          BY <2>1, <2>3, <4>1
      <4>3. QED
          BY <2>8, <2>9, <4>1, <4>2 DEF NetOK, m
    <3>4. QED
        BY <3>2, <3>3
  <2>11. ASSUME NEW i \in 1..Len(net'.toHarvester)
         PROVE  AnswerOK(net'.toHarvester[i].ans, rcv, snd) /\ net'.toHarvester[i].late
      BY <2>3, <2>8, <2>9 DEF NetOK
  <2>12. NetOK'
    <3>1. resp'.ans = NoAnswer
        BY <1>2
    <3>2. snd' = snd /\ rcv' = rcv
        BY <1>2, <1>5
    <3>3. QED
        BY <1>2, <2>9, <2>10, <2>11, <3>1, <3>2 DEF NetOK, m
  <2>13. SyncOK'
      BY <1>2, <1>5, <2>8, <2>12 DEF SyncOK, Before, Behind, Current, HasPrefix
  <2>14. QED
      BY <2>4, <2>6, <2>7, <2>13 DEF IInv
<1>6. CASE conn # "up" /\ Failed /\ UNCHANGED net
  <2>1. Types'
      BY <1>1, <1>2, <1>4, <1>6 DEF Types, Failed
  <2>2. QED
      BY <1>2, <1>6, <2>1, FailedKeeps
<1>7. QED
    BY <1>5, <1>6 DEF Send, Current

LEMMA ResetFillKeeps ==
    ASSUME IInv, ResetFill
    PROVE  IInv'
<1>1. Types /\ QueueOK(snd) /\ ConnOK /\ WaitOK /\ SyncOK
    BY DEF IInv
<1>2. PICK t \in Times : snd' = Filled(t) /\ clock' = t
    BY DEF ResetFill
<1>3. t \in Nat \ {0}
    BY <1>1, TimesType
<1>4. /\ loop = "reset" /\ snd.sync = 0 /\ net' = AfterTimeout(net) /\ loop' = "free"
      /\ UNCHANGED <<disk, pm, resp, task, stop, closer, hs, conn, rcv, spent>>
    BY DEF ResetFill
<1>5. net = NoMessages
    BY <1>1, <1>4 DEF ConnOK, SyncOK, Types
<1>6. net' = NoMessages
    BY <1>1, <1>4, <1>5, AfterTimeoutOK
<1>7. QueueOK(snd') /\ snd'.sync # 0 /\ snd'.next = 0 /\ snd'.msgs[1].initial
    BY <1>1, <1>2, <1>3, FilledOK
<1>8. task # "wait"
    BY <1>1, <1>4 DEF WaitOK, QueueOK, Queues
<1>9. Types'
    BY <1>1, <1>2, <1>3, <1>4, <1>5, <1>6 DEF Types
<1>10. ConnOK' /\ WaitOK'
    BY <1>1, <1>4, <1>5, <1>6, <1>8 DEF ConnOK, WaitOK, Stopped
<1>11. NetOK'
    BY <1>4, <1>6, <1>8 DEF NetOK, NoMessages
<1>12. Before(rcv', snd')
    BY <1>7 DEF Before
<1>13. SyncOK'
    BY <1>4, <1>7, <1>11, <1>12 DEF SyncOK
<1>14. QED
    BY <1>7, <1>9, <1>10, <1>13 DEF IInv

LEMMA TimeoutKeeps ==
    ASSUME IInv, Timeout
    PROVE  IInv'
<1>1. Types /\ QueueOK(snd) /\ ConnOK /\ WaitOK /\ SyncOK
    BY DEF IInv
<1>2. /\ loop = "free" /\ task = "wait" /\ net' = AfterTimeout(net) /\ task' = "sleep"
      /\ UNCHANGED <<disk, pm, snd, resp, stop, loop, closer, hs, conn, rcv, clock, crossed>>
    BY DEF Timeout
<1>3. /\ net' \in [toFarmer : Seq([msg : Messages, late : BOOLEAN]), toHarvester : Seq(Responses)]
      /\ Len(net'.toFarmer) = Len(net.toFarmer)
      /\ Len(net'.toHarvester) = Len(net.toHarvester)
      /\ \A i \in 1..Len(net.toFarmer) :
            net'.toFarmer[i].late /\ net'.toFarmer[i].msg = net.toFarmer[i].msg
      /\ \A i \in 1..Len(net.toHarvester) :
            net'.toHarvester[i].late /\ net'.toHarvester[i].ans = net.toHarvester[i].ans
      /\ net = NoMessages => net' = NoMessages
    BY <1>1, <1>2, AfterTimeoutOK
<1>4. Types'
    BY <1>1, <1>2, <1>3 DEF Types
<1>5. QueueOK(snd)' /\ WaitOK'
    BY <1>1, <1>2 DEF QueueOK, WaitOK
<1>6. ConnOK'
    BY <1>1, <1>2, <1>3 DEF ConnOK, Stopped
<1>7. NetOK => NetOK'
  <2> SUFFICES ASSUME NetOK PROVE NetOK'
      OBVIOUS
  <2>1. snd' = snd /\ rcv' = rcv /\ task' # "wait"
      BY <1>2
  <2>2. net' # NoMessages => snd.next < Len(snd.msgs)
      BY <1>3 DEF NetOK
  <2>3. ASSUME NEW i \in 1..Len(net'.toFarmer)
        PROVE  net'.toFarmer[i].msg = Current(snd) /\ net'.toFarmer[i].late
      BY <1>3 DEF NetOK
  <2>4. ASSUME NEW i \in 1..Len(net'.toHarvester)
        PROVE  AnswerOK(net'.toHarvester[i].ans, rcv, snd) /\ net'.toHarvester[i].late
      BY <1>3 DEF NetOK
  <2>5. QED
      BY <2>1, <2>2, <2>3, <2>4 DEF NetOK
<1>8. SyncOK'
    BY <1>1, <1>2, <1>3, <1>7 DEF SyncOK, Stopped, Before, Behind, Current, HasPrefix
<1>9. QED
    BY <1>4, <1>5, <1>6, <1>8 DEF IInv

LEMMA WakeKeeps ==
    ASSUME IInv, Wake
    PROVE  IInv'
<1>1. Types /\ QueueOK(snd) /\ ConnOK /\ WaitOK /\ SyncOK
    BY DEF IInv
<1>2. /\ loop = "free" /\ task = "sleep" /\ task' = "idle" /\ clock' = clock + 2
      /\ UNCHANGED <<disk, pm, snd, resp, stop, loop, closer, hs, conn, net, rcv, spent, crossed>>
    BY DEF Wake
<1>3. Types'
    BY <1>1, <1>2 DEF Types
<1>4. QueueOK(snd)' /\ WaitOK' /\ ConnOK'
    BY <1>1, <1>2 DEF QueueOK, WaitOK, ConnOK, Stopped
<1>5. NetOK => NetOK'
    BY <1>2 DEF NetOK, Awaited, AnswerOK, Behind, HasPrefix, Current
<1>6. SyncOK'
    BY <1>1, <1>2, <1>5 DEF SyncOK, Stopped, Before, Behind, Current, HasPrefix
<1>7. QED
    BY <1>3, <1>4, <1>6 DEF IInv

LEMMA RunEndsKeeps ==
    ASSUME IInv, RunEnds
    PROVE  IInv'
<1>1. Types /\ QueueOK(snd) /\ ConnOK /\ WaitOK /\ SyncOK
    BY DEF IInv
<1>2. /\ loop = "free" /\ task = "idle" /\ stop /\ task' = "ended"
      /\ UNCHANGED <<disk, pm, snd, resp, stop, loop, closer, hs, conn, net, rcv, clock>>
    BY DEF RunEnds
<1>3. Types'
    BY <1>1, <1>2 DEF Types
<1>4. QueueOK(snd)' /\ WaitOK' /\ ConnOK' /\ SyncOK'
    BY <1>1, <1>2 DEF QueueOK, WaitOK, ConnOK, SyncOK, Stopped
<1>5. QED
    BY <1>3, <1>4 DEF IInv

(* The sender moves on, by one message, or to the end of its sync. *)
LEMMA AnsweredKeeps ==
    ASSUME IInv, Answered
    PROVE  IInv'
<1>1. Types /\ QueueOK(snd) /\ ConnOK /\ WaitOK /\ SyncOK
    BY DEF IInv
<1>2. /\ loop = "free" /\ task = "wait" /\ resp.ans # NoAnswer
      /\ UNCHANGED <<disk, pm, resp, stop, closer, hs, conn, net, rcv, clock, spent>>
    BY DEF Answered
<1>3. /\ snd.next \in Nat /\ Len(snd.msgs) \in Nat /\ snd.next < Len(snd.msgs) /\ snd.sync # 0
      /\ resp.kind = Current(snd).kind /\ snd \in Queues
    BY <1>1, <1>2 DEF WaitOK, QueueOK, Queues
<1>4. ASSUME conn = "up", ~Stopped
      PROVE  net = NoMessages /\ AnswerOK(resp.ans, rcv, snd)
    BY <1>1, <1>2, <1>3, <1>4 DEF SyncOK, NetOK
<1>5. ASSUME snd' = Finalized, task' = "idle", loop' = loop,
             conn = "up" /\ ~Stopped => rcv.cur = NoSync
      PROVE  IInv'
  <2>1. /\ snd' \in Queues /\ snd'.sync = 0 /\ snd'.next = 0 /\ snd'.msgs = <<>>
      BY <1>3, <1>5 DEF Finalized, Queues
  <2>2. QueueOK(snd')
    <3>1. Len(snd'.msgs) = 0
        BY <2>1
    <3>2. QED
        BY <2>1, <3>1 DEF QueueOK
  <2>3. Types'
      BY <1>1, <1>2, <1>5 DEF Types
  <2>4. ConnOK' /\ WaitOK'
      BY <1>1, <1>2, <1>5 DEF ConnOK, WaitOK, Stopped
  <2>5. SyncOK'
      BY <1>2, <1>4, <1>5, <2>1 DEF SyncOK, Stopped
  <2>6. QED
      BY <2>2, <2>3, <2>4, <2>5 DEF IInv
<1>6. ASSUME NEW n \in Nat, n <= Len(snd.msgs), snd' = [snd EXCEPT !.next = n],
             task' = "idle", loop' = loop,
             conn = "up" /\ ~Stopped => n # 0 /\ HasPrefix(rcv, snd, n)
      PROVE  IInv'
  <2>1. /\ snd' \in Queues /\ snd'.sync = snd.sync /\ snd'.next = n /\ snd'.msgs = snd.msgs
      BY <1>3, <1>6 DEF Queues
  <2>2. QueueOK(snd')
      BY <1>1, <1>6, <2>1 DEF QueueOK
  <2>3. Types'
      BY <1>1, <1>2, <1>6 DEF Types
  <2>4. ConnOK' /\ WaitOK'
      BY <1>1, <1>2, <1>6 DEF ConnOK, WaitOK, Stopped
  <2>5. SyncOK'
    <3>1. SUFFICES ASSUME conn = "up", ~Stopped
                   PROVE  Before(rcv', snd') /\ NetOK'
        BY <1>2, <1>3, <1>6, <2>1 DEF SyncOK, Stopped
    <3>2. HasPrefix(rcv', snd', n)
        BY <1>2, <1>6, <2>1, <3>1 DEF HasPrefix
    <3>3. Before(rcv', snd')
        BY <1>6, <2>1, <3>1, <3>2 DEF Before
    <3>4. net' = NoMessages /\ task' # "wait"
        BY <1>2, <1>4, <1>6, <3>1
    <3>5. NetOK'
        BY <3>4 DEF NetOK, NoMessages
    <3>6. QED
        BY <3>3, <3>5
  <2>6. QED
      BY <2>2, <2>3, <2>4, <2>5 DEF IInv
<1>7. CASE /\ resp.ans.code = "ok"
           /\ snd' = IF resp.kind = "done" THEN Finalized ELSE [snd EXCEPT !.next = @ + 1]
           /\ task' = "idle" /\ UNCHANGED loop
  <2>1. conn = "up" /\ ~Stopped => Behind(rcv, snd)
      BY <1>4, <1>7 DEF AnswerOK
  <2>2. CASE resp.kind = "done"
      BY <1>3, <1>5, <1>7, <2>1, <2>2 DEF Behind
  <2>3. CASE resp.kind # "done"
    <3>1. conn = "up" /\ ~Stopped => HasPrefix(rcv, snd, snd.next + 1)
        BY <1>3, <2>1, <2>3 DEF Behind
    <3>2. snd.next + 1 \in Nat /\ snd.next + 1 <= Len(snd.msgs) /\ snd.next + 1 # 0
        BY <1>3
    <3>3. snd' = [snd EXCEPT !.next = snd.next + 1]
        BY <1>7, <2>3
    <3>4. QED
        BY <1>6, <1>7, <3>1, <3>2, <3>3
  <2>4. QED
      BY <2>2, <2>3
<1>e. ASSUME resp.ans.code = "expect", conn = "up", ~Stopped
      PROVE  /\ Behind(rcv, snd) /\ resp.ans.sync = rcv.cur.sync /\ resp.ans.id = rcv.cur.next
             /\ IF Current(snd).kind = "done" THEN rcv.cur = NoSync
                ELSE HasPrefix(rcv, snd, snd.next + 1)
    BY <1>4, <1>e DEF AnswerOK, Behind
<1>8. CASE MissedDone /\ snd' = Finalized /\ task' = "idle" /\ UNCHANGED loop
  <2>1. ASSUME conn = "up", ~Stopped PROVE rcv.cur = NoSync
      BY <1>3, <1>8, <1>e, <2>1 DEF MissedDone, HasPrefix
  <2>2. QED
      BY <1>5, <1>8, <2>1
<1>9. CASE CanRewind /\ snd' = [snd EXCEPT !.next = resp.ans.id] /\ task' = "idle" /\ UNCHANGED loop
  <2>1. resp.ans.id \in Nat /\ resp.ans.id <= Len(snd.msgs)
      BY <1>1, <1>3, <1>9 DEF Types, Answers, CanRewind
  <2>2. ASSUME conn = "up", ~Stopped PROVE resp.ans.id # 0 /\ HasPrefix(rcv, snd, resp.ans.id)
    <3>1. NoSync.sync = 0
        BY DEF NoSync
    <3>2. HasPrefix(rcv, snd, snd.next + 1)
        BY <1>3, <1>9, <1>e, <2>2, <3>1 DEF CanRewind
    <3>3. resp.ans.id = snd.next + 1
        BY <1>9, <1>e, <2>2, <3>2 DEF CanRewind, HasPrefix
    <3>4. QED
        BY <1>3, <3>2, <3>3
  <2>3. QED
      BY <1>6, <1>9, <2>1, <2>2
<1>10. CASE Failed
  <2>1. Types'
      BY <1>1, <1>2, <1>10 DEF Types, Failed
  <2>2. QED
      BY <1>2, <1>4, <1>10, <2>1, FailedKeeps
<1>11. QED
    BY <1>7, <1>8, <1>9, <1>10 DEF Answered

-------------------------------------------------------------------------------
(* The messages and the connection. *)

(* Something is under way only while the sender is in a sync. *)
LEMMA UnderWay ==
    ASSUME IInv, conn = "up", net # NoMessages
    PROVE  /\ ~Stopped /\ snd.sync # 0 /\ loop # "reset" /\ snd.next < Len(snd.msgs)
           /\ Before(rcv, snd) \/ Behind(rcv, snd)
           /\ NetOK
    BY DEF IInv, ConnOK, SyncOK, NetOK

LEMMA FarmerHandlesKeeps ==
    ASSUME IInv, FarmerHandles
    PROVE  IInv'
<1>1. Types /\ QueueOK(snd) /\ ConnOK /\ WaitOK /\ SyncOK
    BY DEF IInv
<1> DEFINE f == net.toFarmer
           h == net.toHarvester
           M == [msg : Messages, late : BOOLEAN]
           m == Head(f).msg
<1>2. /\ conn = "up" /\ f # <<>>
      /\ UNCHANGED <<disk, pm, snd, resp, task, stop, loop, closer, hs, conn, clock>>
    BY DEF FarmerHandles
<1>3. PICK o \in Handled(rcv, m) :
          /\ rcv' = o[1]
          /\ net' = [toFarmer |-> Tail(f),
                     toHarvester |-> Append(h, [kind |-> m.kind, sync |-> m.sync, id |-> m.id,
                                                ans |-> o[2], late |-> Head(f).late])]
    BY DEF FarmerHandles
<1>4. net # NoMessages
    BY <1>2 DEF NoMessages
<1>5. /\ ~Stopped /\ snd.sync # 0 /\ loop # "reset" /\ snd.next < Len(snd.msgs)
      /\ Before(rcv, snd) \/ Behind(rcv, snd)
      /\ NetOK
    BY <1>2, <1>4, UnderWay
<1>6. f \in Seq(M) /\ h \in Seq(Responses) /\ rcv \in Receivers
    BY <1>1 DEF Types
<1> HIDE DEF f, h, M
<1>7. /\ Len(f) \in Nat /\ Len(f) >= 1 /\ Head(f) = f[1] /\ f[1] \in M /\ Len(h) \in Nat
      /\ Tail(f) \in Seq(M) /\ Len(Tail(f)) = Len(f) - 1
      /\ \A i \in 1..(Len(f) - 1) : Tail(f)[i] = f[i + 1]
    BY <1>2, <1>6
<1>8. m = Current(snd) /\ (Head(f).late \/ (Awaited /\ Len(f) = 1))
  <2>1. 1 \in 1..Len(f)
      BY <1>7
  <2>2. f[1].msg = Current(snd) /\ (f[1].late \/ (Awaited /\ 1 = Len(f)))
      BY <1>5, <2>1 DEF NetOK, f
  <2>3. QED
      BY <1>7, <2>2
<1>9. m \in Messages /\ Head(f).late \in BOOLEAN
    BY <1>7 DEF M
<1>10. /\ rcv' \in Receivers /\ o[2] \in Answers
       /\ Before(rcv', snd) \/ Behind(rcv', snd)
       /\ AnswerOK(o[2], rcv', snd)
       /\ \A a : AnswerOK(a, rcv, snd) => AnswerOK(a, rcv', snd)
  <2>1. o \in Handled(rcv, Current(snd))
      BY <1>8
  <2>2. QED
      BY <1>1, <1>3, <1>5, <1>6, <2>1, HandledOK
<1> DEFINE e == [kind |-> m.kind, sync |-> m.sync, id |-> m.id, ans |-> o[2], late |-> Head(f).late]
<1>11. e \in Responses /\ e.ans = o[2] /\ e.late = Head(f).late
  <2> HIDE DEF m
  <2>1. QED
      BY <1>9, <1>10 DEF Responses, Messages
<1> HIDE DEF e, m
<1>12. /\ net' \in [toFarmer : Seq(M), toHarvester : Seq(Responses)]
       /\ net'.toFarmer = Tail(f) /\ net'.toHarvester = Append(h, e)
  <2>1. Append(h, e) \in Seq(Responses)
      BY <1>6, <1>11
  <2>2. net' = [toFarmer |-> Tail(f), toHarvester |-> Append(h, e)]
      BY <1>3 DEF e
  <2>3. QED
      BY <1>7, <2>1, <2>2
<1>13. Types'
    BY <1>1, <1>2, <1>10, <1>12 DEF Types, M
<1>14. QueueOK(snd)' /\ WaitOK' /\ ConnOK'
    BY <1>1, <1>2, <1>5 DEF QueueOK, WaitOK, ConnOK, Stopped, Current
<1>15. ASSUME NEW i \in 1..Len(net'.toFarmer)
       PROVE  /\ net'.toFarmer[i].msg = Current(snd)
              /\ net'.toFarmer[i].late \/ (Awaited /\ i = Len(net'.toFarmer))
  <2>0. i \in Nat /\ Len(f) \in Nat
      BY <1>7, <1>12
  <2>1. i + 1 \in 1..Len(f) /\ net'.toFarmer[i] = f[i + 1] /\ Len(net'.toFarmer) = Len(f) - 1
      BY <1>7, <1>12
  <2>2. f[i + 1].msg = Current(snd) /\ (f[i + 1].late \/ (Awaited /\ i + 1 = Len(f)))
      BY <1>5, <2>1 DEF NetOK, f
  <2>3. i + 1 = Len(f) => i = Len(net'.toFarmer)
      BY <2>0, <2>1
  <2>4. QED
      BY <2>1, <2>2, <2>3
<1>16. ASSUME NEW i \in 1..Len(net'.toHarvester)
       PROVE  /\ AnswerOK(net'.toHarvester[i].ans, rcv', snd)
              /\ net'.toHarvester[i].late
                 \/ (Awaited /\ i = Len(net'.toHarvester) /\ net'.toFarmer = <<>>)
  <2>1. Len(net'.toHarvester) = Len(h) + 1
      BY <1>6, <1>12
  <2>2. CASE i = Len(h) + 1
    <3>1. net'.toHarvester[i] = e
        BY <1>6, <1>12, <2>2
    <3>2. Head(f).late \/ (Awaited /\ net'.toFarmer = <<>>)
      <4>0. Tail(f) \in Seq(M) /\ (Len(f) = 1 => Len(Tail(f)) = 0)
          BY <1>7
      <4>1. Len(f) = 1 => Tail(f) = <<>>
          BY <4>0, EmptySeq
      <4>2. QED
          BY <1>8, <1>12, <4>1
    <3>3. QED
        BY <1>10, <1>11, <2>1, <2>2, <3>1, <3>2
  <2>3. CASE i # Len(h) + 1
    <3>1. i \in 1..Len(h) /\ net'.toHarvester[i] = h[i]
        BY <1>6, <1>7, <1>12, <2>1, <2>3
    <3>2. AnswerOK(h[i].ans, rcv, snd) /\ (h[i].late \/ f = <<>>)
        BY <1>5, <3>1 DEF NetOK, h, f
    <3>3. QED
        BY <1>2, <1>10, <3>1, <3>2
  <2>4. QED
      BY <2>2, <2>3
<1>17. NetOK'
  <2>1. snd' = snd /\ Awaited' = Awaited
      BY <1>2 DEF Awaited
  <2>2. ~(task' = "wait" /\ resp'.ans # NoAnswer)
      BY <1>2, <1>4, <1>5 DEF NetOK
  <2>3. QED
      BY <1>5, <1>15, <1>16, <2>1, <2>2 DEF NetOK
<1>18. SyncOK'
  <2>1. snd' = snd
      BY <1>2
  <2>2. QED
      BY <1>2, <1>5, <1>10, <1>17, <2>1 DEF SyncOK
<1>19. QED
    BY <1>13, <1>14, <1>18 DEF IInv

LEMMA SetResponseKeeps ==
    ASSUME IInv, SetResponse
    PROVE  IInv'
<1>1. Types /\ QueueOK(snd) /\ ConnOK /\ WaitOK /\ SyncOK
    BY DEF IInv
<1> DEFINE f == net.toFarmer
           h == net.toHarvester
           r == Head(h)
<1>2. /\ loop = "free" /\ conn = "up" /\ h # <<>>
      /\ resp' = IF Accepts(r) THEN [resp EXCEPT !.ans = r.ans] ELSE resp
      /\ net' = [net EXCEPT !.toHarvester = Tail(h)]
      /\ UNCHANGED <<disk, pm, snd, task, stop, loop, closer, hs, conn, rcv, clock>>
    BY DEF SetResponse
<1>3. net # NoMessages
    BY <1>2 DEF NoMessages
<1>4. /\ ~Stopped /\ snd.sync # 0 /\ loop # "reset" /\ snd.next < Len(snd.msgs)
      /\ Before(rcv, snd) \/ Behind(rcv, snd)
      /\ NetOK
    BY <1>2, <1>3, UnderWay
<1>5. h \in Seq(Responses)
    BY <1>1 DEF Types
<1> HIDE DEF h
<1>6. /\ Len(h) \in Nat /\ Len(h) >= 1 /\ r = h[1] /\ r \in Responses
      /\ Tail(h) \in Seq(Responses) /\ Len(Tail(h)) = Len(h) - 1
      /\ \A i \in 1..(Len(h) - 1) : Tail(h)[i] = h[i + 1]
    BY <1>2, <1>5
<1>7. AnswerOK(r.ans, rcv, snd) /\ (r.late \/ (Len(h) = 1 /\ f = <<>>))
  <2>1. 1 \in 1..Len(h)
      BY <1>6
  <2>2. AnswerOK(h[1].ans, rcv, snd) /\ (h[1].late \/ (1 = Len(h) /\ f = <<>>))
      BY <1>4, <2>1 DEF NetOK, h
  <2>3. QED
      BY <1>6, <2>2
<1> HIDE DEF r
<1>8. /\ net' \in [toFarmer : Seq([msg : Messages, late : BOOLEAN]), toHarvester : Seq(Responses)]
      /\ net'.toFarmer = f /\ net'.toHarvester = Tail(h)
      /\ net' = [toFarmer |-> f, toHarvester |-> Tail(h)]
    BY <1>1, <1>2, <1>6 DEF Types
<1>9. r.ans \in Answers
    BY <1>6 DEF Responses
<1>a. resp' \in [kind : Kinds \cup {"none"}, sync : Nat, id : Nat, ans : Answers]
    BY <1>1, <1>2, <1>9 DEF Types
<1>10. Types'
    BY <1>1, <1>2, <1>8, <1>a DEF Types
<1>11. QueueOK(snd)' /\ WaitOK' /\ ConnOK'
    BY <1>1, <1>2, <1>4 DEF QueueOK, WaitOK, ConnOK, Stopped, Current, Types
<1>12. CASE Accepts(r)
  <2>1. Len(h) = 1 /\ f = <<>>
      BY <1>7, <1>12 DEF Accepts
  <2>0. Tail(h) \in Seq(Responses) /\ Len(Tail(h)) = 0
      BY <1>6, <2>1
  <2>2. Tail(h) = <<>>
      BY <2>0, EmptySeq
  <2>3. net' = NoMessages
      BY <1>8, <2>1, <2>2 DEF NoMessages
  <2>4. resp'.ans = r.ans
      BY <1>1, <1>2, <1>12 DEF Types
  <2>5. NetOK'
    <3>1. snd' = snd /\ rcv' = rcv
        BY <1>2
    <3>2. QED
        BY <1>7, <2>3, <2>4, <3>1 DEF NetOK, NoMessages
  <2>6. SyncOK'
      BY <1>2, <1>4, <2>5 DEF SyncOK, Before, Behind, HasPrefix, Current
  <2>7. QED
      BY <1>10, <1>11, <2>6 DEF IInv
<1>13. CASE ~Accepts(r)
  <2>1. UNCHANGED <<snd, rcv, task, resp>>
      BY <1>2, <1>13
  <2>2. ASSUME NEW i \in 1..Len(net'.toHarvester)
        PROVE  /\ AnswerOK(net'.toHarvester[i].ans, rcv, snd)
               /\ net'.toHarvester[i].late
                  \/ (Awaited /\ i = Len(net'.toHarvester) /\ net'.toFarmer = <<>>)
    <3>1. i + 1 \in 1..Len(h) /\ net'.toHarvester[i] = h[i + 1] /\ Len(net'.toHarvester) = Len(h) - 1
        BY <1>6, <1>8
    <3>2. /\ AnswerOK(h[i + 1].ans, rcv, snd)
          /\ h[i + 1].late \/ (Awaited /\ i + 1 = Len(h) /\ f = <<>>)
        BY <1>4, <3>1 DEF NetOK, h
    <3>0. i \in Nat /\ Len(h) \in Nat
        BY <1>6, <1>8
    <3>3. i + 1 = Len(h) => i = Len(net'.toHarvester)
        BY <3>0, <3>1
    <3>4. QED
        BY <1>8, <3>1, <3>2, <3>3
  <2>3. ASSUME NEW i \in 1..Len(net'.toFarmer)
        PROVE  /\ net'.toFarmer[i].msg = Current(snd)
               /\ net'.toFarmer[i].late \/ (Awaited /\ i = Len(net'.toFarmer))
      BY <1>4, <1>8 DEF NetOK
  <2>4. ~(task' = "wait" /\ resp'.ans # NoAnswer)
      BY <1>3, <1>4, <2>1 DEF NetOK
  <2>5. NetOK'
      BY <1>4, <2>1, <2>2, <2>3, <2>4 DEF NetOK, Awaited
  <2>6. SyncOK'
      BY <1>2, <1>4, <2>5 DEF SyncOK, Before, Behind, HasPrefix, Current
  <2>7. QED
      BY <1>10, <1>11, <2>6 DEF IInv
<1>14. QED
    BY <1>12, <1>13

(* Sender.start, for a sender that does not send: what it queues, if       *)
(* anything, begins from nothing.                                          *)
LEMMA StartedKeeps ==
    ASSUME IInv, NEW s, QueueOK(s), Started(s), Stopped, loop = "free", conn # "down",
           stop' \in BOOLEAN, closer' \in BOOLEAN,
           UNCHANGED <<resp, loop, conn, net, rcv>>
    PROVE  IInv'
<1>1. Types /\ ConnOK
    BY DEF IInv
<1>2. task' = "idle" /\ hs' = "none" /\ pm' = [pm EXCEPT !.enabled = TRUE, !.pc = "idle"]
    BY DEF Started
<1>3. /\ QueueOK(snd') /\ clock' \in Nat \ {0}
      /\ snd'.sync = 0 \/ (snd'.sync # 0 /\ snd'.next = 0 /\ snd'.msgs[1].initial)
  <2>1. CASE pm.initial /\ s.sync = 0
      BY <1>1, <2>1 DEF Started, Types
  <2>2. CASE ~(pm.initial /\ s.sync = 0)
    <3>1. PICK t \in Times : snd' = Filled(t) /\ clock' = t
        BY <2>2 DEF Started
    <3>2. t \in Nat \ {0}
        BY <1>1, TimesType
    <3>3. QED
        BY <1>1, <3>1, <3>2, FilledOK
  <2>3. QED
      BY <2>1, <2>2
<1>4. Types'
    BY <1>1, <1>2, <1>3 DEF Types
<1>5. ConnOK' /\ WaitOK'
    BY <1>1, <1>2 DEF ConnOK, WaitOK
<1>6. SyncOK'
  <2>1. SUFFICES ASSUME conn = "up" PROVE SyncOK'
      BY DEF SyncOK
  <2>2. net' = NoMessages /\ rcv'.cur = NoSync /\ task' # "wait"
      BY <1>1, <1>2, <2>1 DEF ConnOK
  <2>3. NetOK'
      BY <2>2 DEF NetOK, NoMessages
  <2>4. snd'.sync # 0 => Before(rcv', snd')
      BY <1>3 DEF Before
  <2>5. QED
      BY <2>2, <2>3, <2>4 DEF SyncOK
<1>7. QED
    BY <1>3, <1>4, <1>5, <1>6 DEF IInv

LEMMA ConnectKeeps ==
    ASSUME IInv, Connect
    PROVE  IInv'
<1>1. Types /\ QueueOK(snd) /\ ConnOK /\ WaitOK
    BY DEF IInv
<1>2. /\ loop = "free" /\ conn = "down" /\ conn' = "up" /\ hs' = "sent" /\ rcv' = NewReceiver
      /\ UNCHANGED <<disk, pm, snd, resp, task, stop, loop, closer, net, clock>>
    BY DEF Connect
<1>3. NewReceiver \in Receivers /\ NewReceiver.cur = NoSync
    BY DEF NewReceiver, Receivers, Syncs, NoSync, Empty
<1>4. Types'
    BY <1>1, <1>2, <1>3 DEF Types
<1>5. Stopped /\ Stopped' /\ net' = NoMessages
    BY <1>1, <1>2 DEF ConnOK, Stopped
<1>6. QueueOK(snd)' /\ WaitOK'
    BY <1>1, <1>2 DEF QueueOK, WaitOK, Current
<1>7. ConnOK' /\ SyncOK'
    BY <1>2, <1>3, <1>5 DEF ConnOK, SyncOK
<1>8. QED
    BY <1>4, <1>6, <1>7 DEF IInv

LEMMA HandshakeKeeps ==
    ASSUME IInv, Handshake
    PROVE  IInv'
<1>1. Types /\ QueueOK(snd) /\ ConnOK /\ WaitOK /\ SyncOK
    BY DEF IInv
<1>2. /\ loop = "free" /\ hs = "sent"
      /\ UNCHANGED <<disk, resp, stop, loop, closer, conn, net, rcv>>
    BY DEF Handshake
<1>3. conn # "down" /\ stop' \in BOOLEAN /\ closer' \in BOOLEAN
    BY <1>1, <1>2 DEF ConnOK, Types
<1>4. CASE task = "none" /\ Started(snd)
    BY <1>1, <1>2, <1>3, <1>4, StartedKeeps DEF Stopped
<1>5. CASE hs' \in {"closing", "none"} /\ UNCHANGED <<task, snd, clock, pm, crossed>>
  <2>1. Types'
      BY <1>1, <1>2, <1>5 DEF Types
  <2>2. QueueOK(snd)' /\ WaitOK'
      BY <1>1, <1>2, <1>5 DEF QueueOK, WaitOK, Current
  <2>3. ConnOK'
      BY <1>1, <1>2, <1>3, <1>5 DEF ConnOK, Stopped
  <2>4. SyncOK'
      BY <1>1, <1>2, <1>5
         DEF SyncOK, Stopped, NetOK, Before, Behind, HasPrefix, Current, AnswerOK, Awaited
  <2>5. QED
      BY <2>1, <2>2, <2>3, <2>4 DEF IInv
<1>6. QED
    BY <1>4, <1>5 DEF Handshake

LEMMA AwaitClosedKeeps ==
    ASSUME IInv, AwaitClosed
    PROVE  IInv'
<1>1. Types /\ QueueOK(snd) /\ ConnOK /\ WaitOK /\ SyncOK
    BY DEF IInv
<1>2. /\ loop = "free" /\ task = "ended" /\ ~closer' /\ ~stop' /\ closer' \in BOOLEAN /\ stop' \in BOOLEAN
      /\ UNCHANGED <<disk, resp, loop, conn, net, rcv>>
    BY DEF AwaitClosed
<1>3. Stopped
    BY <1>2 DEF Stopped
<1>4. CASE hs = "closing" /\ Started(Cleared)
  <2>1. conn # "down"
      BY <1>1, <1>4 DEF ConnOK
  <2>2. QED
      BY <1>2, <1>3, <1>4, <2>1, ClearedOK, StartedKeeps
<1>5. CASE task' = "none" /\ snd' = Cleared /\ UNCHANGED <<clock, pm, hs, crossed>>
  <2>1. Types'
      BY <1>1, <1>2, <1>5 DEF Types
  <2>2. Stopped'
      BY <1>5 DEF Stopped
  <2>3. ConnOK' /\ WaitOK' /\ SyncOK'
      BY <1>1, <1>2, <1>3, <1>5, <2>2 DEF ConnOK, WaitOK, SyncOK
  <2>4. QED
      BY <1>5, <2>1, <2>3, ClearedOK DEF IInv
<1>6. QED
    BY <1>4, <1>5 DEF AwaitClosed

LEMMA ClosingKeeps ==
    ASSUME IInv, ConnectionCloses \/ OnDisconnect \/ Joined
    PROVE  IInv'
<1>1. Types /\ QueueOK(snd) /\ ConnOK /\ WaitOK /\ SyncOK
    BY DEF IInv
<1>2. CASE ConnectionCloses
  <2>1. /\ conn = "up" /\ conn' = "closed" /\ net' = NoMessages
        /\ UNCHANGED <<disk, pm, snd, resp, task, stop, loop, closer, hs, rcv, clock>>
      BY <1>2 DEF ConnectionCloses
  <2>2. NoMessages \in [toFarmer : Seq([msg : Messages, late : BOOLEAN]), toHarvester : Seq(Responses)]
      BY DEF NoMessages
  <2>3. Types'
      BY <1>1, <2>1, <2>2 DEF Types
  <2>4. QueueOK(snd)' /\ WaitOK' /\ ConnOK' /\ SyncOK'
      BY <1>1, <2>1 DEF QueueOK, WaitOK, ConnOK, SyncOK, Current
  <2>5. QED
      BY <2>3, <2>4 DEF IInv
<1>3. CASE OnDisconnect
  <2>1. /\ loop = "free" /\ conn = "closed" /\ hs' = "none" /\ stop' = TRUE /\ loop' = "join"
        /\ task' \in {"cancelled", task} /\ pm' = [pm EXCEPT !.enabled = FALSE]
        /\ UNCHANGED <<disk, snd, resp, closer, conn, net, rcv, clock>>
      BY <1>3 DEF OnDisconnect
  <2>2. Types'
      BY <1>1, <2>1 DEF Types
  <2>3. QueueOK(snd)' /\ WaitOK' /\ ConnOK' /\ SyncOK'
      BY <1>1, <2>1 DEF QueueOK, WaitOK, ConnOK, SyncOK, Current
  <2>4. QED
      BY <2>2, <2>3 DEF IInv
<1>4. CASE Joined
  <2>1. /\ loop = "join" /\ loop' = "free" /\ conn' = "down"
        /\ closer' = (task \notin {"none", "cancelled"}) /\ stop' = (task # "none")
        /\ snd' = IF task = "none" THEN Cleared ELSE snd
        /\ UNCHANGED <<disk, pm, resp, task, hs, net, rcv, clock>>
      BY <1>4 DEF Joined
  <2>2. Types'
      BY <1>1, <2>1 DEF Types
  <2>3. Stopped' /\ hs' = "none" /\ net' = NoMessages
      BY <1>1, <2>1 DEF Stopped, ConnOK
  <2>4. ConnOK' /\ SyncOK'
      BY <2>1, <2>3 DEF ConnOK, SyncOK
  <2>5. QueueOK(snd') /\ WaitOK'
      BY <1>1, <2>1, ClearedOK DEF WaitOK, Current
  <2>6. QED
      BY <2>2, <2>4, <2>5 DEF IInv
<1>5. QED
    BY <1>2, <1>3, <1>4

-------------------------------------------------------------------------------
(* The theorem. *)

LEMMA InitOK == Init => IInv
<1> SUFFICES ASSUME Init PROVE IInv
    OBVIOUS
<1>1. Types
  <2>1. NewReceiver \in Receivers
      BY DEF NewReceiver, Receivers, Syncs, NoSync, Empty
  <2>2. NoMessages \in [toFarmer : Seq([msg : Messages, late : BOOLEAN]), toHarvester : Seq(Responses)]
      BY DEF NoMessages
  <2>3. NoResponse \in [kind : Kinds \cup {"none"}, sync : Nat, id : Nat, ans : Answers]
      BY DEF NoResponse, NoAnswer, Answers
  <2>4. pm \in [pc : {"off", "idle", "start", "drop", "batch", "callback", "done"},
                 enabled : BOOLEAN, initial : BOOLEAN, plots : SUBSET Files,
                 lists : [Lists -> SUBSET Files], paths : SUBSET Files,
                 removed : SUBSET Files, loaded : SUBSET Files]
    <3>1. Empty \in [Lists -> SUBSET Files]
        BY DEF Empty
    <3>2. QED
        BY <3>1 DEF Init
  <2>5. /\ task = "none" /\ stop = FALSE /\ loop = "free" /\ closer = FALSE
        /\ hs = "none" /\ conn = "down" /\ clock = 1
        /\ rcv = NewReceiver /\ net = NoMessages /\ resp = NoResponse
      BY DEF Init
  <2>6. stop \in BOOLEAN /\ closer \in BOOLEAN
      BY <2>5
  <2>7. clock \in Nat \ {0}
      BY <2>5
  <2>8. rcv \in Receivers
      BY <2>1, <2>5
  <2>9. resp \in [kind : Kinds \cup {"none"}, sync : Nat, id : Nat, ans : Answers]
      BY <2>3, <2>5
  <2>10. net \in [toFarmer : Seq([msg : Messages, late : BOOLEAN]), toHarvester : Seq(Responses)]
      BY <2>2, <2>5
  <2>11. QED
      BY <2>4, <2>5, <2>6, <2>7, <2>8, <2>9, <2>10 DEF Types
<1>2. QueueOK(snd)
    BY ClearedOK DEF Init
<1>3. ConnOK /\ WaitOK /\ SyncOK
    BY DEF Init, ConnOK, WaitOK, SyncOK, Stopped
<1>4. QED
    BY <1>1, <1>2, <1>3 DEF IInv

LEMMA NextKeeps == IInv /\ [Next]_vars => IInv'
<1> SUFFICES ASSUME IInv, [Next]_vars PROVE IInv'
    OBVIOUS
<1>1. CASE UNCHANGED vars
  <2>1. Types'
      BY <1>1 DEF IInv, Types, vars
  <2>2. QED
      BY <1>1, <2>1, CoreUnchanged DEF vars, Core
<1>2. CASE PlotManagerThread
    BY <1>2, ThreadKeeps
<1>3. CASE SenderTask \/ Timeout
    BY <1>3, SendKeeps, ResetFillKeeps, WakeKeeps, AnsweredKeeps, RunEndsKeeps, TimeoutKeeps
       DEF SenderTask
<1>4. CASE FarmerHandles \/ SetResponse
    BY <1>4, FarmerHandlesKeeps, SetResponseKeeps
<1>5. CASE Connections \/ ConnectionCloses
    BY <1>5, ConnectKeeps, HandshakeKeeps, AwaitClosedKeeps, ClosingKeeps DEF Connections
<1>6. CASE DiskChanges
  <2>1. Types'
      BY <1>6 DEF IInv, Types, DiskChanges
  <2>2. QED
      BY <1>6, <2>1, CoreUnchanged DEF DiskChanges, Core
<1>7. QED
    BY <1>1, <1>2, <1>3, <1>4, <1>5, <1>6 DEF Next

LEMMA PrefixFollows == IInv => DeltaIsPrefix
<1> SUFFICES ASSUME IInv, conn = "up", rcv.cur.sync # 0, rcv.cur.sync = snd.sync, snd.next > 0
             PROVE  HasPrefix(rcv, snd, rcv.cur.next)
    BY DEF DeltaIsPrefix
<1>1. NoSync.sync = 0
    BY DEF NoSync
<1>2. ~Stopped
    BY <1>1 DEF IInv, ConnOK
<1>3. Before(rcv, snd) \/ Behind(rcv, snd)
    BY <1>2 DEF IInv, SyncOK
<1>4. QED
    BY <1>1, <1>3 DEF Before, Behind, HasPrefix

(* For every set of files, every batch size and any number of faults: what *)
(* the receiver has collected of the sync under way is what the messages   *)
(* it has acknowledged say.                                                *)
THEOREM DeltaTheorem == Spec => []DeltaIsPrefix
<1>1. QED
    BY InitOK, NextKeeps, PrefixFollows, PTL DEF Spec

(* What the receiver applies at the end of a sync is the whole of what the *)
(* sender queued for it: all plots loaded, all removed, and each list.     *)
AppliedIsQueued ==
    rcv'.last # rcv.last /\ rcv'.last # 0 =>
        /\ snd.next < Len(snd.msgs) /\ Current(snd).kind = "done"
        /\ rcv'.plots = (rcv.plots \cup DataOf(snd.msgs, snd.next, "loaded"))
                           \ DataOf(snd.msgs, snd.next, "removed")
        /\ \A l \in Lists : rcv'.lists[l] = DataOf(snd.msgs, snd.next, l)

(* The list handlers leave the last sync alone. *)
LEMMA ProcessListLast ==
    ASSUME NEW r \in Receivers, NEW m, m.kind \in Carriers, m.data \in SUBSET Files,
           NEW o \in ProcessList(r, m)
    PROVE  o[1].last = r.last
<1>1. ASSUME NEW S \in SUBSET Files
      PROVE  Collect(r, m.kind, S).last = r.last /\ Collect(r, m.kind, S) \in Receivers
  <2>1. Collect(r, m.kind, S).last = r.last
      BY DEF Collect, Receivers
  <2>2. QED
      BY <2>1, CollectKeeps
<1>2. ASSUME NEW q \in Receivers PROVE Bumped(q).last = q.last
    BY DEF Bumped, Receivers
<1>3. QED
    BY <1>1, <1>2 DEF ProcessList

LEMMA NextApplies == IInv /\ [Next]_vars => AppliedIsQueued
<1> SUFFICES ASSUME IInv, [Next]_vars, rcv'.last # rcv.last, rcv'.last # 0
             PROVE  /\ snd.next < Len(snd.msgs) /\ Current(snd).kind = "done"
                    /\ rcv'.plots = (rcv.plots \cup DataOf(snd.msgs, snd.next, "loaded"))
                                       \ DataOf(snd.msgs, snd.next, "removed")
                    /\ \A l \in Lists : rcv'.lists[l] = DataOf(snd.msgs, snd.next, l)
    BY DEF AppliedIsQueued
<1>1. FarmerHandles
  <2>1. rcv' # rcv /\ rcv' # NewReceiver
      BY DEF NewReceiver
  <2>2. QED
      BY <2>1 DEF Next, vars, PlotManagerThread, PmBegin, PmStarted, PmStartAborted, PmDrop, PmBatch,
         PmCallback, PmDone, PmEnd, SenderTask, Send, ResetFill, Timeout, Wake, Answered, RunEnds,
         SetResponse, Connections, Connect, Handshake, AwaitClosed, OnDisconnect, Joined,
         ConnectionCloses, DiskChanges
<1> DEFINE m == Current(snd)
           n == snd.next
<1>2. conn = "up" /\ net.toFarmer # <<>> /\ net # NoMessages
    BY <1>1 DEF FarmerHandles, NoMessages
<1>3. /\ snd.sync # 0 /\ n < Len(snd.msgs) /\ (Before(rcv, snd) \/ Behind(rcv, snd)) /\ NetOK
    BY <1>2, UnderWay
<1>4. Head(net.toFarmer).msg = m
  <2>1. net.toFarmer \in Seq([msg : Messages, late : BOOLEAN])
      BY DEF IInv, Types
  <2>2. 1 \in 1..Len(net.toFarmer) /\ Head(net.toFarmer) = net.toFarmer[1]
      BY <1>2, <2>1
  <2>3. QED
      BY <1>3, <2>2 DEF NetOK
<1>5. PICK o \in Handled(rcv, m) : rcv' = o[1]
    BY <1>1, <1>4 DEF FarmerHandles
<1>6. /\ n \in Nat /\ Len(snd.msgs) \in Nat /\ n + 1 \in 1..Len(snd.msgs) /\ snd.msgs[n + 1] = m
      /\ m.sync = snd.sync /\ m.id = n /\ (m.kind = "start" <=> n = 0)
      /\ rcv \in Receivers /\ m.kind \in Kinds /\ m.data \in SUBSET Files
  <2>1. QueueOK(snd) /\ Types
      BY DEF IInv
  <2>2. n \in Nat /\ Len(snd.msgs) \in Nat /\ n + 1 \in 1..Len(snd.msgs) /\ snd.msgs[n + 1] = m
      BY <1>3, <2>1 DEF QueueOK, Queues, Current
  <2>3. m \in Messages
    <3>1. snd.msgs \in Seq(Messages)
        BY <2>1 DEF QueueOK, Queues
    <3>2. QED
        BY <2>2, <3>1
  <2>4. m.sync = snd.sync /\ m.id = n /\ (m.kind = "start" <=> n = 0)
      BY <2>1, <2>2 DEF QueueOK
  <2>5. m.kind \in Kinds /\ m.data \in SUBSET Files
    <3> HIDE DEF m
    <3>1. QED
        BY <2>3 DEF Messages
  <2>6. QED
      BY <2>1, <2>2, <2>4, <2>5 DEF Types
<1>7. m.kind # "start"
  <2>1. SUFFICES ASSUME m.kind = "start" PROVE FALSE
      OBVIOUS
  <2>2. o \in SyncStarted(rcv, m)
      BY <2>1 DEF Handled
  <2>3. ASSUME NEW q \in Receivers, NEW c PROVE Bumped([q EXCEPT !.cur = c]).last = q.last
      BY DEF Bumped, Receivers
  <2>4. NewReceiver.last = 0 /\ NewReceiver \in Receivers
      BY DEF NewReceiver, Receivers, Syncs, NoSync, Empty
  <2> DEFINE q == IF m.initial THEN NewReceiver ELSE rcv
             c == [NoSync EXCEPT !.sync = m.sync, !.next = q.cur.next]
  <2>5. q \in Receivers /\ q.last \in {0, rcv.last}
      BY <1>6, <2>4
  <2>6. o[1] = q \/ o[1] = Bumped([q EXCEPT !.cur = c])
      BY <2>2 DEF SyncStarted
  <2> HIDE DEF q, c
  <2>7. o[1].last = q.last
      BY <2>3, <2>5, <2>6
  <2>8. QED
      BY <1>5, <2>5, <2>7
<1>8. m.sync = rcv.cur.sync /\ m.id = rcv.cur.next
    BY <1>5, <1>7 DEF Handled
<1>9. m.kind = "done"
  <2>1. SUFFICES ASSUME m.kind # "done" PROVE FALSE
      OBVIOUS
  <2>2. o \in ProcessList(rcv, m) /\ m.kind \in Carriers
      BY <1>5, <1>6, <1>7, <1>8, <2>1 DEF Handled, Kinds, Carriers
  <2>3. QED
      BY <1>5, <1>6, <2>2, ProcessListLast
<1>10. rcv' = Applied(rcv)
    BY <1>5, <1>7, <1>8, <1>9 DEF Handled
<1>11. HasPrefix(rcv, snd, n)
  <2>1. ~Behind(rcv, snd)
      BY <1>3, <1>6, <1>8, <1>9 DEF Behind, NoSync
  <2>2. QED
      BY <1>3, <1>6, <1>7, <2>1 DEF Before
<1>12. ASSUME NEW k \in Carriers PROVE Collected(rcv, k) = DataOf(snd.msgs, n, k)
  <2>1. k # "done"
      BY PlotSyncAssumption DEF Carriers
  <2>2. QED
      BY <1>6, <1>9, <1>11, <2>1 DEF HasPrefix, Carriers
<1>13. /\ rcv.cur.adds = DataOf(snd.msgs, n, "loaded")
       /\ rcv.cur.rems = DataOf(snd.msgs, n, "removed")
       /\ \A l \in Lists : rcv.cur.found[l] = DataOf(snd.msgs, n, l)
  <2>1. "loaded" \in Carriers /\ "removed" \in Carriers /\ Lists \subseteq Carriers
      BY DEF Carriers
  <2>2. \A l \in Lists : l # "loaded" /\ l # "removed"
      BY PlotSyncAssumption
  <2>3. /\ Collected(rcv, "loaded") = rcv.cur.adds /\ Collected(rcv, "removed") = rcv.cur.rems
        /\ \A l \in Lists : Collected(rcv, l) = rcv.cur.found[l]
      BY <2>2 DEF Collected
  <2>4. QED
      BY <1>12, <2>1, <2>3
<1>14. /\ rcv'.plots = (rcv.plots \cup rcv.cur.adds) \ rcv.cur.rems
       /\ rcv'.lists = rcv.cur.found
    BY <1>10 DEF Applied
<1>15. QED
    BY <1>3, <1>9, <1>13, <1>14

(* For all constants: whenever a sync is applied the receiver's plots      *)
(* change by exactly what the sender queued between the start and the done *)
(* message, and its lists become those the sender queued, whatever was     *)
(* lost, late or sent twice on the way.                                    *)
THEOREM AppliedTheorem == Spec => [][AppliedIsQueued]_vars
<1>1. QED
    BY InitOK, NextKeeps, NextApplies, PTL DEF Spec
-------------------------------------------------------------------------------
(* What the messages that are added to a queue say. *)

(* SetToSeq lists every element. *)
LEMMA SetToSeqCovers ==
    ASSUME NEW S, IsFiniteSet(S), NEW x \in S
    PROVE  \E j \in 1..Len(SetToSeq(S)) : SetToSeq(S)[j] = x
<1> DEFINE n == Cardinality(S)
           q == SetToSeq(S)
<1>1. n \in Nat /\ ExistsBijection(1..n, S)
    BY FS_CardinalityType
<1>2. PICK f \in [1..n -> S] : IsInjective(f)
    BY <1>1 DEF ExistsBijection, Bijection, Injection, IsInjective
<1>3. q \in [1..n -> S] /\ IsInjective(q)
    BY <1>2 DEF SetToSeq
<1> HIDE DEF q, n
<1>4. q \in Injection(1..n, S)
    BY <1>3 DEF Injection, IsInjective
<1>5. IsFiniteSet(1..n) /\ Cardinality(1..n) = n
    BY <1>1, FS_Interval
<1>6. q \in Surjection(1..n, S)
    BY <1>4, <1>5, FS_Injection DEF n
<1>7. PICK j \in 1..n : q[j] = x
    BY <1>6 DEF Surjection
<1>8. Len(q) = n
    BY <1>1, <1>3
<1>9. QED
    BY <1>7, <1>8 DEF q

(* list_to_batches leaves nothing out and adds nothing. *)
LEMMA BatchesCover ==
    ASSUME NEW S \in SUBSET Files
    PROVE  Union(Batches(S)) = S /\ Union(AddListBatched(S)) = S
<1> DEFINE q == SetToSeq(S)
           L == Len(q)
           n == (L + BatchSize - 1) \div BatchSize
           Batch(i) == {q[j] : j \in ((i - 1) * BatchSize + 1)..Min2(i * BatchSize, L)}
<1>0. IsFiniteSet(S) /\ BatchSize \in Nat /\ BatchSize > 0
    BY PlotSyncAssumption, FS_Subset
<1>1. q \in Seq(S) /\ L \in Nat
    BY <1>0, SetToSeqType
<1>c. \A x \in S : \E j \in 1..L : q[j] = x
    BY <1>0, SetToSeqCovers
<1>b. Batches(S) = [i \in 1..n |-> Batch(i)]
    BY DEF Batches
<1> HIDE DEF q
<1>2. n \in Nat /\ n * BatchSize >= L
  <2> DEFINE a == L + BatchSize - 1
  <2>1. a \in Nat /\ BatchSize \in Nat \ {0}
      BY <1>0, <1>1
  <2> HIDE DEF a
  <2>2. a \div BatchSize \in Nat /\ a < BatchSize * (a \div BatchSize) + BatchSize
      BY <2>1
  <2>3. n = a \div BatchSize
      BY DEF a
  <2> HIDE DEF n
  <2>4. BatchSize * n = n * BatchSize /\ n * BatchSize \in Nat
      BY <1>0, <2>2, <2>3
  <2>5. QED
      BY <1>0, <1>1, <2>2, <2>3, <2>4 DEF a
<1> HIDE DEF n
<1>3. ASSUME NEW i \in 1..n PROVE Batch(i) \subseteq S
  <2> DEFINE lo == (i - 1) * BatchSize
             hi == i * BatchSize
  <2>1. lo \in Nat /\ hi \in Nat
      BY <1>0, <1>2
  <2>2. ASSUME NEW j \in (lo + 1)..Min2(hi, L) PROVE q[j] \in S
    <3> HIDE DEF lo, hi, L
    <3>1. j \in 1..L
        BY <1>1, <2>1, <2>2 DEF Min2
    <3>2. QED
        BY <1>1, <3>1 DEF L
  <2>3. QED
      BY <2>2
<1>4. ASSUME NEW x \in S PROVE \E i \in 1..n : x \in Batch(i)
  <2>1. PICK j \in 1..L : q[j] = x
      BY <1>c
  <2> DEFINE T == {i \in Nat : i * BatchSize >= j}
  <2>2. n \in T
    <3>1. n * BatchSize \in Nat
        BY <1>0, <1>2
    <3>2. QED
        BY <1>1, <1>2, <3>1
  <2>3. PICK i \in T : \A k \in T : i <= k
    <3>1. T \subseteq Nat /\ T # {}
        BY <2>2
    <3> HIDE DEF T
    <3>2. QED
        BY <3>1, LeastNumber
  <2>4. i \in Nat /\ i <= n /\ i * BatchSize >= j
      BY <2>2, <2>3
  <2>5. i # 0
      BY <1>0, <1>1, <2>4
  <2>6. i - 1 \in Nat /\ ~(i <= i - 1)
      BY <2>4, <2>5
  <2>7. ~((i - 1) * BatchSize >= j)
      BY <2>3, <2>6
  <2> DEFINE lo == (i - 1) * BatchSize
             hi == i * BatchSize
  <2>8. lo \in Nat /\ hi \in Nat /\ lo < j /\ j <= hi
      BY <1>0, <1>1, <2>4, <2>6, <2>7
  <2>9. j \in (lo + 1)..Min2(hi, L)
    <3> HIDE DEF lo, hi, L
    <3>1. QED
        BY <1>1, <2>8 DEF Min2
  <2>10. q[j] \in Batch(i)
      BY <2>9
  <2>11. i \in 1..n
      BY <1>2, <2>4, <2>5
  <2>12. QED
      BY <2>1, <2>10, <2>11
<1> HIDE DEF Batch
<1>5. Union(Batches(S)) = S
  <2>1. DOMAIN Batches(S) = 1..n /\ \A i \in 1..n : Batches(S)[i] = Batch(i)
      BY <1>b
  <2>2. QED
      BY <1>3, <1>4, <2>1 DEF Union
<1>6. S = {} => Union(<< {} >>) = {}
    BY DEF Union
<1>7. QED
    BY <1>5, <1>6 DEF AddListBatched

(* Everything the queue says of a kind. *)
AllOf(s, kind) == DataOf(s.msgs, Len(s.msgs), kind)

(* Its messages are of kinds in K. *)
KindsIn(s, K) == \A i \in 1..Len(s.msgs) : s.msgs[i].kind \in K

LEMMA AllOfIs ==
    ASSUME NEW s, NEW kind, NEW x
    PROVE  x \in AllOf(s, kind) <=>
              \E i \in 1..Len(s.msgs) : s.msgs[i].kind = kind /\ x \in s.msgs[i].data
    BY DEF AllOf, DataOf

(* Nothing is said of a kind that does not occur. *)
LEMMA SilentKind ==
    ASSUME NEW s, NEW K, KindsIn(s, K), NEW kind, kind \notin K
    PROVE  AllOf(s, kind) = {}
<1>1. ASSUME NEW x PROVE x \notin AllOf(s, kind)
    BY AllOfIs DEF KindsIn
<1>2. QED
    BY <1>1

(* What a queue that is extended says: what it said, and what is added. *)
LEMMA ExtendsSays ==
    ASSUME NEW s \in Queues, NEW t, Extends(s, t), NEW kind, NEW D,
           \A x : x \in D <=> \E i \in (Len(s.msgs) + 1)..Len(t.msgs) :
                                 t.msgs[i].kind = kind /\ x \in t.msgs[i].data
    PROVE  AllOf(t, kind) = AllOf(s, kind) \cup D
<1> DEFINE a == Len(s.msgs)
           b == Len(t.msgs)
<1>1. a \in Nat /\ b \in Nat /\ a <= b /\ \A i \in 1..a : t.msgs[i] = s.msgs[i]
    BY DEF Extends, Queues
<1> HIDE DEF a, b
<1>2. \A i : i \in 1..b <=> (i \in 1..a \/ i \in (a + 1)..b)
    BY <1>1
<1>3. ASSUME NEW x PROVE x \in AllOf(t, kind) <=> x \in AllOf(s, kind) \/ x \in D
  <2>1. x \in AllOf(t, kind) <=> \E i \in 1..b : t.msgs[i].kind = kind /\ x \in t.msgs[i].data
      BY AllOfIs DEF b
  <2>2. x \in AllOf(s, kind) <=> \E i \in 1..a : s.msgs[i].kind = kind /\ x \in s.msgs[i].data
      BY AllOfIs DEF a
  <2>3. x \in D <=> \E i \in (a + 1)..b : t.msgs[i].kind = kind /\ x \in t.msgs[i].data
      BY DEF a, b
  <2>4. QED
      BY <1>1, <1>2, <2>1, <2>2, <2>3
<1>4. QED
    BY <1>3

(* ... and of which kinds its messages are. *)
LEMMA ExtendsKinds ==
    ASSUME NEW s \in Queues, NEW t, Extends(s, t), NEW K, KindsIn(s, K),
           \A i \in (Len(s.msgs) + 1)..Len(t.msgs) : t.msgs[i].kind \in K
    PROVE  KindsIn(t, K)
<1> DEFINE a == Len(s.msgs)
           b == Len(t.msgs)
<1>1. a \in Nat /\ b \in Nat /\ a <= b /\ \A i \in 1..a : t.msgs[i] = s.msgs[i]
    BY DEF Extends, Queues
<1>2. \A i \in 1..a : t.msgs[i].kind \in K
    BY <1>1 DEF KindsIn
<1>3. \A i \in (a + 1)..b : t.msgs[i].kind \in K
    OBVIOUS
<1> HIDE DEF a, b
<1>4. \A i : i \in 1..b <=> (i \in 1..a \/ i \in (a + 1)..b)
    BY <1>1
<1>5. \A i \in 1..b : t.msgs[i].kind \in K
    BY <1>2, <1>3, <1>4
<1>6. QED
    BY <1>5 DEF KindsIn, b

(* _add_message *)
LEMMA AddMessageSays ==
    ASSUME NEW s \in Queues, NEW kind \in Kinds \ {"start"}, NEW data \in SUBSET Files
    PROVE  /\ \A k : AllOf(AddMessage(s, kind, data, FALSE), k) =
                        AllOf(s, k) \cup (IF k = kind THEN data ELSE {})
           /\ \A K : KindsIn(s, K) /\ kind \in K => KindsIn(AddMessage(s, kind, data, FALSE), K)
           /\ Len(AddMessage(s, kind, data, FALSE).msgs) = Len(s.msgs) + 1
           /\ AddMessage(s, kind, data, FALSE).msgs[Len(s.msgs) + 1].kind = kind
<1> DEFINE m == Message(s, Len(s.msgs), kind, data, FALSE)
           t == AddMessage(s, kind, data, FALSE)
<1>1. Extends(s, t)
    BY AddMessageExtends
<1>2. s.msgs \in Seq(Messages) /\ Len(s.msgs) \in Nat
    BY DEF Queues
<1>3. m.kind = kind /\ m.data = data
    BY DEF Message
<1>4. t.msgs = Append(s.msgs, m)
    BY DEF AddMessage, Queues
<1> HIDE DEF m, t
<1>5. Len(t.msgs) = Len(s.msgs) + 1 /\ t.msgs[Len(s.msgs) + 1] = m
    BY <1>2, <1>4
<1>6. \A i : i \in (Len(s.msgs) + 1)..Len(t.msgs) <=> i = Len(s.msgs) + 1
    BY <1>2, <1>5
<1>7. ASSUME NEW k PROVE AllOf(t, k) = AllOf(s, k) \cup (IF k = kind THEN data ELSE {})
  <2> DEFINE D == IF k = kind THEN data ELSE {}
  <2>1. \A x : x \in D <=> \E i \in (Len(s.msgs) + 1)..Len(t.msgs) :
                              t.msgs[i].kind = k /\ x \in t.msgs[i].data
      BY <1>3, <1>5, <1>6
  <2> HIDE DEF D
  <2>2. AllOf(t, k) = AllOf(s, k) \cup D
      BY <1>1, <2>1, ExtendsSays
  <2>3. QED
      BY <2>2 DEF D
<1>8. ASSUME NEW K, KindsIn(s, K), kind \in K PROVE KindsIn(t, K)
  <2>1. \A i \in (Len(s.msgs) + 1)..Len(t.msgs) : t.msgs[i].kind \in K
      BY <1>3, <1>5, <1>6, <1>8
  <2>2. QED
      BY <1>1, <1>8, <2>1, ExtendsKinds
<1>9. QED
    BY <1>3, <1>5, <1>7, <1>8 DEF t

(* _add_list_batched *)
LEMMA AddMessagesSays ==
    ASSUME NEW s \in Queues, NEW kind \in Kinds \ {"start"}, NEW b \in Seq(SUBSET Files)
    PROVE  /\ \A k : AllOf(AddMessages(s, kind, b), k) =
                        AllOf(s, k) \cup (IF k = kind THEN Union(b) ELSE {})
           /\ \A K : KindsIn(s, K) /\ kind \in K => KindsIn(AddMessages(s, kind, b), K)
<1> DEFINE M(i) == Message(s, Len(s.msgs) + i - 1, kind, b[i], FALSE)
           q == [i \in 1..Len(b) |-> M(i)]
           t == AddMessages(s, kind, b)
           n == Len(s.msgs)
<1>1. Extends(s, t)
    BY AddMessagesExtends
<1>2. s.msgs \in Seq(Messages) /\ n \in Nat /\ Len(b) \in Nat /\ DOMAIN b = 1..Len(b)
    BY DEF Queues
<1>3. \A i \in 1..Len(b) : M(i).kind = kind /\ M(i).data = b[i] /\ M(i) \in Messages
  <2>1. TAKE i \in 1..Len(b)
  <2>2. b[i] \in SUBSET Files /\ Len(s.msgs) + i - 1 \in Nat
      BY <1>2
  <2>3. QED
      BY <2>2 DEF Message, Messages, Queues
<1>4. t.msgs = s.msgs \o q
    BY DEF AddMessages, Queues
<1> HIDE DEF M, t
<1>5. q \in Seq(Messages) /\ Len(q) = Len(b) /\ \A i \in 1..Len(b) : q[i] = M(i)
    BY <1>2, <1>3
<1> HIDE DEF q
<1>6. Len(t.msgs) = n + Len(b) /\ \A i \in 1..Len(b) : t.msgs[n + i] = M(i)
  <2>0. q \in Seq(Messages)
      BY <1>5
  <2>1. Len(s.msgs \o q) = n + Len(q) /\ \A i \in 1..Len(q) : (s.msgs \o q)[n + i] = q[i]
      BY <1>2, <2>0
  <2>2. QED
      BY <1>4, <1>5, <2>1
<1> HIDE DEF n
<1>7. \A i : i \in (n + 1)..Len(t.msgs) <=> \E j \in 1..Len(b) : i = n + j
  <2>1. TAKE i
  <2>2. ASSUME i \in (n + 1)..Len(t.msgs) PROVE \E j \in 1..Len(b) : i = n + j
    <3>1. i - n \in 1..Len(b) /\ i = n + (i - n)
        BY <1>2, <1>6, <2>2
    <3>2. QED
        BY <3>1
  <2>3. ASSUME NEW j \in 1..Len(b), i = n + j PROVE i \in (n + 1)..Len(t.msgs)
      BY <1>2, <1>6, <2>3
  <2>4. QED
      BY <2>2, <2>3
<1>8. ASSUME NEW k PROVE AllOf(t, k) = AllOf(s, k) \cup (IF k = kind THEN Union(b) ELSE {})
  <2> DEFINE D == IF k = kind THEN Union(b) ELSE {}
  <2>1. \A x : x \in D <=> \E i \in (n + 1)..Len(t.msgs) :
                              t.msgs[i].kind = k /\ x \in t.msgs[i].data
    <3>1. TAKE x
    <3>2. x \in D <=> k = kind /\ \E j \in 1..Len(b) : x \in b[j]
        BY <1>2 DEF Union
    <3> HIDE DEF D
    <3>3. (\E i \in (n + 1)..Len(t.msgs) : t.msgs[i].kind = k /\ x \in t.msgs[i].data)
             <=> \E j \in 1..Len(b) : t.msgs[n + j].kind = k /\ x \in t.msgs[n + j].data
        BY <1>7
    <3>4. QED
        BY <1>3, <1>6, <3>2, <3>3
  <2> HIDE DEF D
  <2>2. \A x : x \in D <=> \E i \in (Len(s.msgs) + 1)..Len(t.msgs) :
                              t.msgs[i].kind = k /\ x \in t.msgs[i].data
      BY <2>1 DEF n
  <2>3. AllOf(t, k) = AllOf(s, k) \cup D
      BY <1>1, <2>2, ExtendsSays
  <2>4. QED
      BY <2>3 DEF D
<1>9. ASSUME NEW K, KindsIn(s, K), kind \in K PROVE KindsIn(t, K)
  <2>1. \A i \in (n + 1)..Len(t.msgs) : t.msgs[i].kind \in K
      BY <1>3, <1>6, <1>7, <1>9
  <2>2. QED
      BY <1>1, <1>9, <2>1, ExtendsKinds DEF n
<1>10. QED
    BY <1>8, <1>9 DEF t

(* The lists: each kind gains its own. *)
LEMMA AddListsSays ==
    ASSUME NEW s \in Queues, NEW lists \in [Lists -> SUBSET Files]
    PROVE  /\ \A k : k \notin Lists => AllOf(AddLists(s, lists), k) = AllOf(s, k)
           /\ \A l \in Lists : AllOf(AddLists(s, lists), l) = AllOf(s, l) \cup lists[l]
           /\ \A K : KindsIn(s, K) /\ Lists \subseteq K => KindsIn(AddLists(s, lists), K)
<1> DEFINE order == SetToSeq(Lists)
<1>1. order \in Seq(Lists) /\ Len(order) \in Nat
    BY PlotSyncAssumption, SetToSeqType
<1>c. \A l \in Lists : \E j \in 1..Len(order) : order[j] = l
    BY PlotSyncAssumption, SetToSeqCovers
<1>2. PICK added :
          /\ added = [k \in 0..Len(order) |->
                        IF k = 0 THEN s
                        ELSE AddMessages(added[k - 1], order[k], AddListBatched(lists[order[k]]))]
          /\ AddLists(s, lists) = added[Len(order)]
    BY <1>1, AddListsExists
<1> HIDE DEF order
<1>3. /\ added[0] = s
      /\ \A k \in 1..Len(order) :
            added[k] = AddMessages(added[k - 1], order[k], AddListBatched(lists[order[k]]))
  <2> DEFINE Step(k) == IF k = 0 THEN s
                        ELSE AddMessages(added[k - 1], order[k], AddListBatched(lists[order[k]]))
  <2>1. added = [k \in 0..Len(order) |-> Step(k)]
      BY <1>2
  <2> HIDE DEF Step
  <2>2. \A k \in 0..Len(order) : added[k] = Step(k)
      BY <2>1
  <2>3. 0 \in 0..Len(order) /\ \A k \in 1..Len(order) : k \in 0..Len(order) /\ k # 0
      BY <1>1
  <2>4. QED
      BY <2>2, <2>3 DEF Step
<1> DEFINE Gained(l, n) == IF \E j \in 1..n : order[j] = l THEN lists[l] ELSE {}
           Good(n) == /\ added[n] \in Queues
                      /\ \A k : k \notin Lists => AllOf(added[n], k) = AllOf(s, k)
                      /\ \A l \in Lists : AllOf(added[n], l) = AllOf(s, l) \cup Gained(l, n)
                      /\ \A K : KindsIn(s, K) /\ Lists \subseteq K => KindsIn(added[n], K)
           Bad == {n \in Nat : n <= Len(order) /\ ~Good(n)}
<1>4. Good(0)
  <2>1. \A l : Gained(l, 0) = {}
    <3>1. 1..0 = {}
        OBVIOUS
    <3>2. QED
        BY <3>1
  <2> HIDE DEF Gained
  <2>2. QED
      BY <1>3, <2>1
<1>5. ASSUME NEW n \in 1..Len(order), Good(n - 1) PROVE Good(n)
  <2> DEFINE t == added[n - 1]
             l == order[n]
             b == AddListBatched(lists[l])
  <2>1. l \in Lists /\ l \in Kinds \ {"start"} /\ lists[l] \in SUBSET Files
      BY <1>1, PlotSyncAssumption DEF Kinds
  <2>2. b \in Seq(SUBSET Files) /\ Union(b) = lists[l]
      BY <2>1, BatchesType, BatchesCover
  <2>3. added[n] = AddMessages(t, l, b)
      BY <1>3
  <2>4. /\ t \in Queues
        /\ \A k : k \notin Lists => AllOf(t, k) = AllOf(s, k)
        /\ \A k \in Lists : AllOf(t, k) = AllOf(s, k) \cup Gained(k, n - 1)
        /\ \A K : KindsIn(s, K) /\ Lists \subseteq K => KindsIn(t, K)
      BY <1>5
  <2>5. \A k : k # l => Gained(k, n) = Gained(k, n - 1)
    <3>1. \A j : j \in 1..n <=> (j \in 1..(n - 1) \/ j = n)
        BY <1>1
    <3>2. QED
        BY <3>1
  <2>6. Gained(l, n) = lists[l] /\ Gained(l, n - 1) \subseteq lists[l]
    <3>1. n \in 1..n
        OBVIOUS
    <3>2. QED
        BY <3>1
  <2> HIDE DEF t, l, b, Gained
  <2>7. added[n] \in Queues
      BY <2>1, <2>2, <2>3, <2>4, AddMessagesExtends DEF Extends
  <2>8. /\ \A k : AllOf(added[n], k) = AllOf(t, k) \cup (IF k = l THEN Union(b) ELSE {})
        /\ \A K : KindsIn(t, K) /\ l \in K => KindsIn(added[n], K)
      BY <2>1, <2>2, <2>3, <2>4, AddMessagesSays
  <2>9. ASSUME NEW k, k \notin Lists PROVE AllOf(added[n], k) = AllOf(s, k)
      BY <2>1, <2>4, <2>8, <2>9
  <2>10. ASSUME NEW k \in Lists PROVE AllOf(added[n], k) = AllOf(s, k) \cup Gained(k, n)
    <3>1. CASE k = l
      <4>1. AllOf(added[n], k) = AllOf(t, k) \cup lists[l]
          BY <2>2, <2>8, <3>1
      <4>2. QED
          BY <2>4, <2>6, <3>1, <4>1
    <3>2. CASE k # l
      <4>1. AllOf(added[n], k) = AllOf(t, k)
          BY <2>8, <3>2
      <4>2. QED
          BY <2>4, <2>5, <3>2, <4>1
    <3>3. QED
        BY <3>1, <3>2
  <2>11. ASSUME NEW K, KindsIn(s, K), Lists \subseteq K PROVE KindsIn(added[n], K)
      BY <2>1, <2>4, <2>8, <2>11
  <2>12. QED
      BY <2>7, <2>9, <2>10, <2>11
<1> HIDE DEF Good
<1>6. ASSUME Bad # {} PROVE FALSE
  <2>1. PICK k \in Bad : \A j \in Bad : k <= j
    <3>1. Bad \subseteq Nat
        OBVIOUS
    <3> HIDE DEF Bad
    <3>2. QED
        BY <1>6, <3>1, LeastNumber
  <2>2. k \in Nat /\ k <= Len(order) /\ ~Good(k)
      OBVIOUS
  <2>3. k # 0
      BY <1>4, <2>2
  <2>4. k \in 1..Len(order) /\ k - 1 \in Nat /\ k - 1 <= Len(order) /\ ~(k <= k - 1)
      BY <1>1, <2>2, <2>3
  <2>5. k - 1 \notin Bad
    <3> HIDE DEF Bad
    <3>1. QED
        BY <2>1, <2>4
  <2>6. Good(k - 1)
      BY <2>4, <2>5
  <2>7. QED
      BY <1>5, <2>2, <2>4, <2>6
<1>7. Good(Len(order))
    BY <1>1, <1>6
<1>8. \A l \in Lists : Gained(l, Len(order)) = lists[l]
    BY <1>c
<1>9. QED
    BY <1>2, <1>7, <1>8 DEF Good

(* sync_done, behind messages of which none says done. *)
LEMMA SyncDoneSays ==
    ASSUME NEW s \in Queues, NEW removed \in SUBSET Files, NEW lists \in [Lists -> SUBSET Files],
           KindsIn(s, {"start", "loaded"}),
           NEW t, t = SyncDone(s, removed, lists)
    PROVE  /\ AllOf(t, "loaded") = AllOf(s, "loaded")
           /\ AllOf(t, "removed") = removed
           /\ \A l \in Lists : AllOf(t, l) = lists[l]
           /\ t.msgs[Len(t.msgs)].kind = "done"
           /\ \A i \in 1..(Len(t.msgs) - 1) : t.msgs[i].kind # "done"
<1> DEFINE a == AddMessages(s, "removed", AddListBatched(removed))
           b == AddLists(a, lists)
           c == AddMessage(b, "done", {}, FALSE)
           K == Kinds \ {"done"}
<1>k. "removed" \in Kinds \ {"start"} /\ "done" \in Kinds \ {"start"} /\ {} \in SUBSET Files
    BY DEF Kinds
<1>l. \A l \in Lists : l \notin {"start", "loaded", "removed", "done"}
    BY PlotSyncAssumption
<1>K. {"start", "loaded"} \subseteq K /\ "removed" \in K /\ Lists \subseteq K /\ "done" \notin K
    BY <1>l DEF Kinds
<1>0. t = c
    BY DEF SyncDone
<1> HIDE DEF K
<1>1. AddListBatched(removed) \in Seq(SUBSET Files) /\ Union(AddListBatched(removed)) = removed
    BY BatchesType, BatchesCover
<1>2. a \in Queues
    BY <1>k, <1>1, AddMessagesExtends DEF Extends
<1>s. KindsIn(s, K)
    BY <1>K DEF KindsIn
<1>3. /\ \A k : AllOf(a, k) = AllOf(s, k) \cup (IF k = "removed" THEN removed ELSE {})
      /\ KindsIn(a, K)
    BY <1>k, <1>K, <1>s, <1>1, AddMessagesSays
<1> HIDE DEF a
<1>4. b \in Queues
    BY <1>2, AddListsExtends DEF Extends
<1>5. /\ \A k : k \notin Lists => AllOf(b, k) = AllOf(a, k)
      /\ \A l \in Lists : AllOf(b, l) = AllOf(a, l) \cup lists[l]
      /\ KindsIn(b, K)
    BY <1>K, <1>2, <1>3, AddListsSays
<1> HIDE DEF b
<1>6. /\ \A k : AllOf(c, k) = AllOf(b, k) \cup (IF k = "done" THEN {} ELSE {})
      /\ Len(c.msgs) = Len(b.msgs) + 1 /\ c.msgs[Len(b.msgs) + 1].kind = "done"
      /\ Extends(b, c)
    BY <1>k, <1>4, AddMessageSays, AddMessageExtends
<1> HIDE DEF c
<1>7. \A k \in {"removed"} \cup Lists : AllOf(s, k) = {}
    BY <1>l, SilentKind
<1>8. "loaded" \notin Lists /\ "removed" \notin Lists
    BY <1>l
<1>m. \A k : AllOf(c, k) = AllOf(b, k)
    BY <1>6
<1>n. \A k : k # "removed" => AllOf(a, k) = AllOf(s, k)
    BY <1>3
<1>9. /\ AllOf(c, "loaded") = AllOf(s, "loaded")
      /\ AllOf(c, "removed") = removed
  <2>1. AllOf(c, "loaded") = AllOf(a, "loaded") /\ AllOf(c, "removed") = AllOf(a, "removed")
      BY <1>m, <1>5, <1>8
  <2>2. AllOf(a, "removed") = AllOf(s, "removed") \cup removed
      BY <1>3
  <2>3. QED
      BY <1>n, <1>7, <2>1, <2>2
<1>10. ASSUME NEW l \in Lists PROVE AllOf(c, l) = lists[l]
  <2>1. l # "removed" /\ AllOf(s, l) = {}
      BY <1>7, <1>8
  <2>2. AllOf(a, l) = {}
      BY <1>n, <2>1
  <2>3. QED
      BY <1>m, <1>5, <2>2
<1>11. ASSUME NEW i \in 1..(Len(c.msgs) - 1) PROVE c.msgs[i].kind # "done"
  <2>1. Len(b.msgs) \in Nat
      BY <1>4 DEF Queues
  <2>2. i \in 1..Len(b.msgs)
      BY <1>6, <2>1
  <2>3. c.msgs[i] = b.msgs[i] /\ b.msgs[i].kind \in K
      BY <1>5, <1>6, <2>2 DEF Extends, KindsIn
  <2>4. QED
      BY <1>K, <2>3
<1>12. QED
    BY <1>0, <1>6, <1>9, <1>10, <1>11

(* The start message alone. *)
LEMMA SyncStartSays ==
    ASSUME NEW s \in Queues, s.next = 0, s.msgs = <<>>, NEW initial \in BOOLEAN,
           NEW t \in Nat \ {0}
    PROVE  /\ KindsIn(SyncStart(s, initial, t), {"start"})
           /\ Len(SyncStart(s, initial, t).msgs) = 1
<1> DEFINE u == [s EXCEPT !.sync = IF t = s.last THEN t + 1 ELSE t]
           m == Message(u, Len(u.msgs), "start", {}, initial)
           q == SyncStart(s, initial, t)
<1>1. u.msgs = <<>> /\ q.msgs = Append(u.msgs, m)
    BY DEF SyncStart, AddMessage, Queues
<1>2. m.kind = "start"
    BY DEF Message
<1> HIDE DEF u, m, q
<1>3. q.msgs = <<m>>
    BY <1>1
<1>4. Len(q.msgs) = 1 /\ q.msgs[1] = m
    BY <1>3
<1>5. QED
    BY <1>2, <1>4 DEF KindsIn, q

(* The queue that _reset fills says what the plot manager has. *)
LEMMA FilledSays ==
    ASSUME Types, NEW t \in Nat \ {0}, NEW s, s = Filled(t)
    PROVE  /\ AllOf(s, "loaded") = pm.plots
           /\ AllOf(s, "removed") = {}
           /\ \A l \in Lists : AllOf(s, l) = pm.lists[l]
           /\ s.msgs[Len(s.msgs)].kind = "done"
           /\ \A i \in 1..(Len(s.msgs) - 1) : s.msgs[i].kind # "done"
<1> DEFINE a == SyncStart(Cleared, TRUE, t)
           b == AddMessages(a, "loaded", Batches(pm.plots))
           c == SyncDone(b, {}, pm.lists)
<1>1. Cleared \in Queues /\ Cleared.next = 0 /\ Cleared.msgs = <<>>
    BY DEF Cleared, Queues
<1>2. a \in Queues
    BY <1>1, SyncStartOpens DEF QueueOK
<1>3. KindsIn(a, {"start"})
    BY <1>1, SyncStartSays
<1>0. s = c
    BY DEF Filled
<1> HIDE DEF a
<1>4. pm.plots \in SUBSET Files /\ pm.lists \in [Lists -> SUBSET Files] /\ {} \in SUBSET Files
    BY DEF Types
<1>5. /\ Batches(pm.plots) \in Seq(SUBSET Files) /\ Union(Batches(pm.plots)) = pm.plots
      /\ "loaded" \in Kinds \ {"start"}
    BY <1>4, BatchesType, BatchesCover DEF Kinds
<1>6. b \in Queues
    BY <1>2, <1>5, AddMessagesExtends DEF Extends
<1>7. KindsIn(a, {"start", "loaded"})
    BY <1>3 DEF KindsIn
<1>8. /\ AllOf(b, "loaded") = AllOf(a, "loaded") \cup pm.plots
      /\ KindsIn(b, {"start", "loaded"})
    BY <1>2, <1>5, <1>7, AddMessagesSays
<1>9. AllOf(a, "loaded") = {}
    BY <1>3, SilentKind
<1> HIDE DEF b, c
<1>10. c = SyncDone(b, {}, pm.lists)
    BY DEF c
<1>11. /\ AllOf(c, "loaded") = AllOf(b, "loaded") /\ AllOf(c, "removed") = {}
       /\ \A l \in Lists : AllOf(c, l) = pm.lists[l]
       /\ c.msgs[Len(c.msgs)].kind = "done"
       /\ \A i \in 1..(Len(c.msgs) - 1) : c.msgs[i].kind # "done"
  <2> DEFINE none == {}
             lists == pm.lists
  <2>1. none \in SUBSET Files /\ lists \in [Lists -> SUBSET Files] /\ c = SyncDone(b, none, lists)
      BY <1>4, <1>10
  <2> HIDE DEF none, lists
  <2>2. /\ AllOf(c, "loaded") = AllOf(b, "loaded") /\ AllOf(c, "removed") = none
        /\ \A l \in Lists : AllOf(c, l) = lists[l]
        /\ c.msgs[Len(c.msgs)].kind = "done"
        /\ \A i \in 1..(Len(c.msgs) - 1) : c.msgs[i].kind # "done"
      BY <1>6, <1>8, <2>1, SyncDoneSays
  <2>3. QED
      BY <2>2 DEF none, lists
<1>12. QED
    BY <1>0, <1>8, <1>9, <1>11

-------------------------------------------------------------------------------
(* Farmer and harvester in step: the invariant. *)

(* Nothing will be added to the queue. *)
Complete(s) == s.msgs[Len(s.msgs)].kind = "done"

(* The plots the sync begins from. *)
Base(r, s) == IF s.msgs[1].initial THEN {} ELSE r.plots

(* The receiver has applied the sync, and the sender does not know yet. *)
Delivered(r, s) == s.next < Len(s.msgs) /\ Current(s).kind = "done" /\ r.cur = NoSync

(* A sync that is complete makes of the receiver's plots those of the plot *)
(* manager p, or has done so.                                              *)
CompleteOK(r, s, p) ==
    /\ p.pc \in {"idle", "start"}
    /\ IF Delivered(r, s) THEN r.plots = p.plots /\ r.lists = p.lists
       ELSE /\ (Base(r, s) \cup AllOf(s, "loaded")) \ AllOf(s, "removed") = p.plots
            /\ \A l \in Lists : AllOf(s, l) = p.lists[l]

(* What a refresh that is under way has loaded. *)
Found(s, p) == AllOf(s, "loaded") \cup (IF p.pc = "callback" THEN p.loaded ELSE {})

(* A sync that is not complete is that of a refresh under way: it accounts *)
(* for what the refresh has dropped and loaded so far.                     *)
RefreshOK(r, s, p) ==
    /\ p.pc \in {"drop", "batch", "callback", "done"}
    /\ KindsIn(s, {"start", "loaded"})
    /\ p.pc = "drop" => AllOf(s, "loaded") = {} /\ p.plots = Base(r, s)
    /\ p.pc # "drop" => /\ p.plots = (Base(r, s) \ p.removed) \cup Found(s, p)
                        /\ p.removed \cap (Found(s, p) \cup p.paths) = {}

QueueStep(r, s, p) ==
    /\ \A i \in 1..(Len(s.msgs) - 1) : s.msgs[i].kind # "done"
    /\ IF Complete(s) THEN CompleteOK(r, s, p) ELSE RefreshOK(r, s, p)

(* The receiver has answered to the start of the sync. *)
Reached == snd.next > 0 \/ net.toHarvester # <<>> \/ (task = "wait" /\ resp.ans # NoAnswer)

(* An initial sync begins from nothing. *)
FromNothing(r, s) == s.msgs[1].initial /\ ~Delivered(r, s) => r.plots = {}

(* The sender sends, and what it sends is not known to be wrong. *)
Live == conn = "up" /\ ~Stopped /\ loop # "reset" /\ ~crossed

StepOK ==
    Live => /\ snd.sync = 0 => pm.pc \in {"idle", "start"} /\ (pm.initial \/ InStep)
            /\ snd.sync # 0 => QueueStep(rcv, snd, pm) /\ (Reached => FromNothing(rcv, snd))

(* The plot manager's thread runs while the sender does, and has ended     *)
(* before a sender is started again.                                       *)
ThreadOK ==
    /\ ~Stopped => pm.enabled /\ pm.pc # "off"
    /\ (task = "none" /\ loop # "join") \/ closer => pm.pc = "off"
    /\ closer => task # "none"

(* Before the first refresh there are no plots. *)
InitialOK == pm.initial /\ ~InRefresh => pm.plots = {}

StepInv == IInv /\ ThreadOK /\ InitialOK /\ StepOK

-------------------------------------------------------------------------------
(* It is kept: the plot manager's thread. *)

(* What a batch does to the plot manager. *)
LEMMA BatchIs ==
    ASSUME PmBatch
    PROVE  \E batch \in SUBSET pm.paths : \E loaded \in SUBSET batch : \E lists :
              pm' = [pm EXCEPT !.pc = IF pm.enabled THEN "callback" ELSE "done",
                               !.plots = pm.plots \cup loaded, !.loaded = loaded,
                               !.paths = pm.paths \ batch, !.lists = lists]
<1>0. PICK batch \in SUBSET pm.paths : \E tried \in SUBSET batch :
          LET loaded == {f \in tried : disk[f] = "plot"}
          IN  pm' = [pm EXCEPT
                !.pc = IF pm.enabled THEN "callback" ELSE "done",
                !.plots = @ \cup loaded,
                !.loaded = loaded,
                !.paths = @ \ batch,
                !.lists = [l \in Lists |-> (@[l] \ loaded) \cup {f \in tried : disk[f] = l}]]
    BY DEF PmBatch
<1>1. PICK tried \in SUBSET batch :
          LET loaded == {f \in tried : disk[f] = "plot"}
          IN  pm' = [pm EXCEPT
                !.pc = IF pm.enabled THEN "callback" ELSE "done",
                !.plots = @ \cup loaded,
                !.loaded = loaded,
                !.paths = @ \ batch,
                !.lists = [l \in Lists |-> (@[l] \ loaded) \cup {f \in tried : disk[f] = l}]]
    BY <1>0
<1> DEFINE loaded == {f \in tried : disk[f] = "plot"}
           lists == [l \in Lists |-> (pm.lists[l] \ loaded) \cup {f \in tried : disk[f] = l}]
<1>2. pm' = [pm EXCEPT !.pc = IF pm.enabled THEN "callback" ELSE "done",
                       !.plots = pm.plots \cup loaded, !.loaded = loaded,
                       !.paths = pm.paths \ batch, !.lists = lists]
    BY <1>1
<1>3. loaded \in SUBSET batch
    OBVIOUS
<1> HIDE DEF loaded, lists
<1>4. QED
    BY <1>2, <1>3

LEMMA ThreadStays ==
    ASSUME IInv, ThreadOK, [Next]_vars
    PROVE  ThreadOK'
<1>0. Types /\ ConnOK
    BY DEF IInv
<1>p. /\ pm \in [pc : {"off", "idle", "start", "drop", "batch", "callback", "done"},
               enabled : BOOLEAN, initial : BOOLEAN, plots : SUBSET Files,
               lists : [Lists -> SUBSET Files], paths : SUBSET Files,
               removed : SUBSET Files, loaded : SUBSET Files]
    BY <1>0 DEF Types
<1>1. CASE PlotManagerThread
  <2>1. UNCHANGED <<task, stop, loop, closer>>
      BY <1>1 DEF PlotManagerThread, PmBegin, PmStarted, PmStartAborted, PmDrop, PmBatch,
                  PmCallback, PmDone, PmEnd
  <2>2. pm.pc # "off" /\ pm'.enabled = pm.enabled /\ (pm'.pc = "off" => ~pm.enabled)
    <3>1. CASE PmBegin \/ PmStarted \/ PmStartAborted \/ PmDrop \/ PmEnd
        BY <1>p, <3>1 DEF PmBegin, PmStarted, PmStartAborted, PmDrop, PmEnd
    <3>2. CASE PmBatch
      <4>1. pm.pc = "batch"
          BY <3>2 DEF PmBatch
      <4>2. PICK batch, loaded, lists :
                pm' = [pm EXCEPT !.pc = IF pm.enabled THEN "callback" ELSE "done",
                                 !.plots = pm.plots \cup loaded, !.loaded = loaded,
                                 !.paths = pm.paths \ batch, !.lists = lists]
          BY <3>2, BatchIs
      <4>3. QED
          BY <1>p, <4>1, <4>2
    <3>3. CASE PmCallback \/ PmDone
        BY <1>p, <3>3 DEF PmCallback, PmDone, PmReset
    <3>4. QED
        BY <1>1, <3>1, <3>2, <3>3 DEF PlotManagerThread
  <2>3. QED
      BY <2>1, <2>2 DEF ThreadOK, Stopped
<1>2. CASE SenderTask \/ Timeout
  <2>1. /\ UNCHANGED <<pm, stop, closer>> /\ loop # "join"
        /\ task' = "none" <=> task = "none"
        /\ Stopped => Stopped'
      BY <1>2 DEF SenderTask, Send, ResetFill, Wake, Answered, RunEnds, Timeout, Stopped, Failed
  <2>2. QED
      BY <2>1 DEF ThreadOK
<1>3. CASE FarmerHandles \/ SetResponse \/ DiskChanges \/ UNCHANGED vars
    BY <1>3 DEF FarmerHandles, SetResponse, DiskChanges, vars, ThreadOK, Stopped
<1>4. ASSUME NEW s, Started(s), loop = "free", UNCHANGED loop, pm.pc = "off",
             closer' = FALSE
      PROVE  ThreadOK'
  <2>1. task' = "idle" /\ pm' = [pm EXCEPT !.enabled = TRUE, !.pc = "idle"]
      BY <1>4 DEF Started
  <2>2. QED
      BY <1>p, <1>4, <2>1 DEF ThreadOK
<1>5. CASE Connect \/ ConnectionCloses
    BY <1>5 DEF Connect, ConnectionCloses, ThreadOK, Stopped
<1>6. CASE Handshake
  <2>1. loop = "free" /\ UNCHANGED <<stop, loop, closer>>
      BY <1>6 DEF Handshake
  <2>2. CASE task = "none" /\ Started(snd)
    <3>1. pm.pc = "off" /\ closer' = FALSE
        BY <1>0, <2>1, <2>2 DEF ThreadOK, Types
    <3>2. QED
        BY <1>4, <2>1, <2>2, <3>1
  <2>3. CASE UNCHANGED <<task, pm>>
      BY <2>1, <2>3 DEF ThreadOK, Stopped
  <2>4. QED
      BY <1>6, <2>2, <2>3 DEF Handshake
<1>7. CASE AwaitClosed
  <2>1. loop = "free" /\ closer /\ closer' = FALSE /\ UNCHANGED loop /\ pm.pc = "off"
      BY <1>7 DEF AwaitClosed, ThreadOK
  <2>2. CASE Started(Cleared)
      BY <1>4, <2>1, <2>2
  <2>3. CASE task' = "none" /\ UNCHANGED pm
      BY <2>1, <2>3 DEF ThreadOK, Stopped
  <2>4. QED
      BY <1>7, <2>2, <2>3 DEF AwaitClosed
<1>8. CASE OnDisconnect
  <2>1. /\ stop' = TRUE /\ loop' = "join" /\ pm' = [pm EXCEPT !.enabled = FALSE]
        /\ task' \in {task, "cancelled"} /\ UNCHANGED closer
      BY <1>8 DEF OnDisconnect
  <2>2. pm'.pc = pm.pc
      BY <1>p, <2>1
  <2>3. QED
      BY <2>1, <2>2 DEF ThreadOK, Stopped
<1>9. CASE Joined
  <2>1. /\ pm.pc = "off" /\ UNCHANGED <<pm, task>> /\ closer' = (task \notin {"none", "cancelled"})
        /\ stop' = (task # "none")
      BY <1>9 DEF Joined
  <2>2. QED
      BY <2>1 DEF ThreadOK, Stopped
<1>10. QED
    BY <1>1, <1>2, <1>3, <1>5, <1>6, <1>7, <1>8, <1>9 DEF Next, Connections

LEMMA InitialStays ==
    ASSUME IInv, ThreadOK, InitialOK, [Next]_vars
    PROVE  InitialOK'
<1>0. Types
    BY DEF IInv
<1>p. /\ pm \in [pc : {"off", "idle", "start", "drop", "batch", "callback", "done"},
               enabled : BOOLEAN, initial : BOOLEAN, plots : SUBSET Files,
               lists : [Lists -> SUBSET Files], paths : SUBSET Files,
               removed : SUBSET Files, loaded : SUBSET Files]
    BY <1>0 DEF Types
<1>1. CASE pm'.plots = pm.plots /\ pm'.initial = pm.initial /\ (InRefresh => InRefresh')
    BY <1>1 DEF InitialOK
<1>2. CASE PmBegin \/ PmStarted \/ PmStartAborted \/ PmEnd
    BY <1>p, <1>1, <1>2 DEF PmBegin, PmStarted, PmStartAborted, PmEnd, InRefresh
<1>3. CASE PmDrop
  <2>1. pm'.pc \in {"done", "batch"}
      BY <1>p, <1>3 DEF PmDrop
  <2>2. QED
      BY <2>1 DEF InitialOK, InRefresh
<1>4. CASE PmBatch
  <2>1. PICK batch, loaded, lists :
            pm' = [pm EXCEPT !.pc = IF pm.enabled THEN "callback" ELSE "done",
                             !.plots = pm.plots \cup loaded, !.loaded = loaded,
                             !.paths = pm.paths \ batch, !.lists = lists]
      BY <1>4, BatchIs
  <2>2. pm'.pc \in {"callback", "done"}
      BY <1>p, <2>1
  <2>3. QED
      BY <2>2 DEF InitialOK, InRefresh
<1>r. CASE PmReset
  <2>1. pm'.plots = {}
      BY <1>p, <1>r DEF PmReset
  <2>2. QED
      BY <2>1 DEF InitialOK
<1>5. CASE PmCallback
  <2>1. CASE pm'.pc \in {"done", "batch"}
      BY <2>1 DEF InitialOK, InRefresh
  <2>2. PmReset \/ pm'.pc \in {"done", "batch"}
      BY <1>p, <1>5 DEF PmCallback
  <2>3. QED
      BY <1>r, <2>1, <2>2
<1>6. CASE PmDone
  <2>1. PmReset \/ pm'.initial = FALSE
      BY <1>p, <1>6 DEF PmDone
  <2>2. QED
      BY <1>r, <2>1 DEF InitialOK
<1>7. CASE UNCHANGED pm
    BY <1>1, <1>7 DEF InRefresh
<1>8. ASSUME NEW s, Started(s), pm.pc = "off" PROVE InitialOK'
  <2>1. pm' = [pm EXCEPT !.enabled = TRUE, !.pc = "idle"] /\ ~InRefresh
      BY <1>8 DEF Started, InRefresh
  <2>2. QED
      BY <1>p, <1>1, <2>1
<1>9. CASE SenderTask \/ Timeout \/ FarmerHandles \/ SetResponse \/ DiskChanges \/ Connect
           \/ ConnectionCloses \/ Joined \/ UNCHANGED vars
    BY <1>7, <1>9 DEF SenderTask, Send, ResetFill, Wake, Answered, RunEnds, Timeout, FarmerHandles,
       SetResponse, DiskChanges, Connect, ConnectionCloses, Joined, vars
<1>10. CASE Handshake
  <2>1. task = "none" /\ Started(snd) => pm.pc = "off"
      BY <1>10 DEF Handshake, ThreadOK
  <2>2. (task = "none" /\ Started(snd)) \/ UNCHANGED pm
      BY <1>10 DEF Handshake
  <2>3. QED
      BY <1>7, <1>8, <2>1, <2>2
<1>11. CASE AwaitClosed
  <2>1. pm.pc = "off" /\ (Started(Cleared) \/ UNCHANGED pm)
      BY <1>11 DEF AwaitClosed, ThreadOK
  <2>2. QED
      BY <1>7, <1>8, <2>1
<1>12. CASE OnDisconnect
    BY <1>p, <1>1, <1>12 DEF OnDisconnect, InRefresh
<1>13. QED
    BY <1>2, <1>3, <1>4, <1>5, <1>6, <1>9, <1>10, <1>11, <1>12 DEF Next, PlotManagerThread, Connections

(* Nothing that matters changes, or the sender does not send. *)
LEMMA StepUnchanged ==
    ASSUME StepOK, UNCHANGED <<snd, rcv, pm>>,
           Live' => Live /\ (Reached' => Reached)
    PROVE  StepOK'
<1> SUFFICES ASSUME Live'
             PROVE  /\ (snd.sync = 0 => pm.pc \in {"idle", "start"} /\ (pm.initial \/ InStep))'
                    /\ (snd.sync # 0 => QueueStep(rcv, snd, pm) /\ (Reached => FromNothing(rcv, snd)))'
    BY DEF StepOK
<1>1. /\ snd.sync = 0 => pm.pc \in {"idle", "start"} /\ (pm.initial \/ InStep)
      /\ snd.sync # 0 => QueueStep(rcv, snd, pm) /\ (Reached => FromNothing(rcv, snd))
    BY DEF StepOK
<1>2. InStep' = InStep
    BY DEF InStep
<1>3. QED
    BY <1>1, <1>2

(* The queue of a refresh that is under way. *)
LEMMA RefreshOpen ==
    ASSUME NEW s, QueueOK(s), s.sync # 0, KindsIn(s, {"start", "loaded"})
    PROVE  /\ ~Complete(s)
           /\ \A r : ~Delivered(r, s)
           /\ \A i \in 1..(Len(s.msgs) - 1) : s.msgs[i].kind # "done"
<1>1. Len(s.msgs) \in Nat /\ Len(s.msgs) # 0 /\ s.next \in Nat
    BY DEF QueueOK, Queues
<1>2. Len(s.msgs) \in 1..Len(s.msgs)
    BY <1>1
<1>3. s.next < Len(s.msgs) => s.next + 1 \in 1..Len(s.msgs)
    BY <1>1
<1>4. \A i \in 1..(Len(s.msgs) - 1) : i \in 1..Len(s.msgs)
    BY <1>1
<1>5. QED
    BY <1>2, <1>3, <1>4 DEF Complete, Delivered, Current, KindsIn

(* While a refresh is under way so is its sync. *)
LEMMA InSync ==
    ASSUME StepInv, Live, InRefresh
    PROVE  /\ snd.sync # 0 /\ RefreshOK(rcv, snd, pm)
           /\ QueueOK(snd) /\ snd \in Queues
           /\ Reached => FromNothing(rcv, snd)
<1>1. snd.sync # 0
    BY DEF StepInv, StepOK, InRefresh
<1>2. QueueStep(rcv, snd, pm) /\ (Reached => FromNothing(rcv, snd))
    BY <1>1 DEF StepInv, StepOK
<1>3. RefreshOK(rcv, snd, pm)
    BY <1>2 DEF QueueStep, CompleteOK, InRefresh
<1>4. QueueOK(snd) /\ snd \in Queues
    BY DEF StepInv, IInv, QueueOK
<1>5. QED
    BY <1>1, <1>2, <1>3, <1>4

(* A refresh may begin at any time. *)
LEMMA BeginStep ==
    ASSUME StepInv, PmBegin
    PROVE  StepOK'
<1>0. Types
    BY DEF StepInv, IInv
<1>1. /\ pm.pc = "idle" /\ pm'.pc = "start" /\ pm'.plots = pm.plots /\ pm'.lists = pm.lists
      /\ pm'.initial = pm.initial
      /\ UNCHANGED <<snd, resp, task, stop, loop, conn, net, rcv, crossed>>
    BY <1>0 DEF PmBegin, Types
<1>2. SUFFICES ASSUME Live
               PROVE  /\ snd.sync = 0 => pm'.initial \/ InStep'
                      /\ snd.sync # 0 => QueueStep(rcv, snd, pm') /\ (Reached => FromNothing(rcv, snd))
    BY <1>1 DEF StepOK, Live, Stopped, Reached
<1>3. /\ snd.sync = 0 => pm.initial \/ InStep
      /\ snd.sync # 0 => QueueStep(rcv, snd, pm) /\ (Reached => FromNothing(rcv, snd))
    BY <1>2 DEF StepInv, StepOK
<1>4. QueueStep(rcv, snd, pm) => QueueStep(rcv, snd, pm')
    BY <1>1 DEF QueueStep, CompleteOK, RefreshOK
<1>5. QED
    BY <1>1, <1>3, <1>4 DEF InStep

(* Its sync starts from what the receiver has, or from nothing. *)
LEMMA StartedStep ==
    ASSUME StepInv, PmStarted
    PROVE  StepOK'
<1>0. Types /\ QueueOK(snd) /\ snd \in Queues /\ SyncOK /\ WaitOK
    BY DEF StepInv, IInv, QueueOK
<1>1. /\ pm.pc = "start" /\ snd.sync = 0 /\ pm' = [pm EXCEPT !.pc = "drop"]
      /\ crossed' = (crossed /\ ~pm.initial)
      /\ UNCHANGED <<resp, task, stop, loop, conn, net, rcv>>
    BY DEF PmStarted
<1>2. pm'.pc = "drop" /\ pm'.plots = pm.plots /\ pm.initial \in BOOLEAN
    BY <1>0, <1>1 DEF Types
<1>3. PICK t \in Times : snd' = SyncStart(snd, pm.initial, t)
    BY DEF PmStarted
<1>4. t \in Nat \ {0}
    BY <1>0, TimesType
<1>5. snd.next = 0 /\ snd.msgs = <<>> /\ Len(snd.msgs) = 0
  <2>1. Len(snd.msgs) = 0 /\ snd.next <= 0 /\ snd.next \in Nat /\ snd.msgs \in Seq(Messages)
      BY <1>0, <1>1 DEF QueueOK, Queues
  <2>2. QED
      BY <2>1
<1>6. QueueOK(snd') /\ snd'.sync # 0 /\ snd'.next = 0 /\ snd'.msgs[1].initial = pm.initial
    BY <1>0, <1>2, <1>3, <1>4, <1>5, SyncStartOpens
<1>7. KindsIn(snd', {"start"})
    BY <1>0, <1>2, <1>3, <1>4, <1>5, SyncStartSays
<1>8. SUFFICES ASSUME conn = "up", ~Stopped, loop # "reset", ~crossed \/ pm.initial
               PROVE  QueueStep(rcv, snd', pm') /\ ~Reached'
    BY <1>1, <1>6 DEF StepOK, Live, Stopped
<1>9. ~Reached'
  <2>1. net = NoMessages /\ task # "wait"
      BY <1>0, <1>1, <1>5, <1>8 DEF SyncOK, WaitOK
  <2>2. QED
      BY <1>1, <1>6, <2>1 DEF Reached, NoMessages
<1>10. pm.plots = Base(rcv, snd')
  <2>1. CASE pm.initial
      BY <1>1, <1>6, <2>1 DEF Base, StepInv, InitialOK, InRefresh
  <2>2. CASE ~pm.initial
      BY <1>1, <1>6, <1>8, <2>2 DEF Base, StepInv, StepOK, Live, InStep
  <2>3. QED
      BY <2>1, <2>2
<1>11. KindsIn(snd', {"start", "loaded"}) /\ AllOf(snd', "loaded") = {}
  <2>1. KindsIn(snd', {"start", "loaded"})
      BY <1>7 DEF KindsIn
  <2>2. "loaded" \notin {"start"}
      OBVIOUS
  <2>3. AllOf(snd', "loaded") = {}
      BY <1>7, <2>2, SilentKind
  <2>4. QED
      BY <2>1, <2>3
<1>12. RefreshOK(rcv, snd', pm')
    BY <1>2, <1>10, <1>11 DEF RefreshOK
<1>13. QED
    BY <1>6, <1>9, <1>11, <1>12, RefreshOpen DEF QueueStep

LEMMA DropStep ==
    ASSUME StepInv, PmDrop
    PROVE  StepOK'
<1>0. Types
    BY DEF StepInv, IInv
<1>1. /\ pm.pc = "drop" /\ pm'.pc \in {"done", "batch"} /\ pm'.plots = pm.plots \cap pm.paths
      /\ pm'.paths = pm.paths /\ pm'.removed = pm.plots \ pm.paths
      /\ UNCHANGED <<snd, resp, task, stop, loop, conn, net, rcv, crossed>>
    BY <1>0 DEF PmDrop, Types
<1>2. SUFFICES ASSUME Live
               PROVE  snd.sync # 0 /\ QueueStep(rcv, snd, pm') /\ (Reached => FromNothing(rcv, snd))
    BY <1>1 DEF StepOK, Live, Stopped, Reached
<1>3. /\ snd.sync # 0 /\ RefreshOK(rcv, snd, pm) /\ QueueOK(snd)
      /\ Reached => FromNothing(rcv, snd)
    BY <1>1, <1>2, InSync DEF InRefresh
<1>4. /\ AllOf(snd, "loaded") = {} /\ pm.plots = Base(rcv, snd) /\ KindsIn(snd, {"start", "loaded"})
    BY <1>1, <1>3 DEF RefreshOK
<1>5. Found(snd, pm') = {}
    BY <1>1, <1>4 DEF Found
<1>6. /\ pm'.plots = (Base(rcv, snd) \ pm'.removed) \cup Found(snd, pm')
      /\ pm'.removed \cap (Found(snd, pm') \cup pm'.paths) = {}
    BY <1>1, <1>4, <1>5
<1>7. RefreshOK(rcv, snd, pm')
    BY <1>1, <1>4, <1>6 DEF RefreshOK
<1>8. QED
    BY <1>3, <1>4, <1>7, RefreshOpen DEF QueueStep

LEMMA BatchStep ==
    ASSUME StepInv, PmBatch
    PROVE  StepOK'
<1>0. Types
    BY DEF StepInv, IInv
<1>p. PICK batch \in SUBSET pm.paths : \E loaded \in SUBSET batch : \E lists :
          pm' = [pm EXCEPT !.pc = IF pm.enabled THEN "callback" ELSE "done",
                           !.plots = pm.plots \cup loaded, !.loaded = loaded,
                           !.paths = pm.paths \ batch, !.lists = lists]
    BY BatchIs
<1>q. PICK loaded \in SUBSET batch : \E lists :
          pm' = [pm EXCEPT !.pc = IF pm.enabled THEN "callback" ELSE "done",
                           !.plots = pm.plots \cup loaded, !.loaded = loaded,
                           !.paths = pm.paths \ batch, !.lists = lists]
    BY <1>p
<1>1. /\ pm.pc = "batch" /\ pm'.pc = (IF pm.enabled THEN "callback" ELSE "done")
      /\ pm'.plots = pm.plots \cup loaded /\ pm'.loaded = loaded /\ pm'.paths = pm.paths \ batch
      /\ pm'.removed = pm.removed
  <2>1. PICK lists :
          pm' = [pm EXCEPT !.pc = IF pm.enabled THEN "callback" ELSE "done",
                           !.plots = pm.plots \cup loaded, !.loaded = loaded,
                           !.paths = pm.paths \ batch, !.lists = lists]
      BY <1>q
  <2>2. pm.pc = "batch"
      BY DEF PmBatch
  <2>3. QED
      BY <1>0, <2>1, <2>2 DEF Types
<1>u. UNCHANGED <<snd, resp, task, stop, loop, conn, net, rcv, crossed>>
    BY DEF PmBatch
<1>2. SUFFICES ASSUME Live
               PROVE  snd.sync # 0 /\ QueueStep(rcv, snd, pm') /\ (Reached => FromNothing(rcv, snd))
    BY <1>u DEF StepOK, Live, Stopped, Reached
<1>3. /\ snd.sync # 0 /\ RefreshOK(rcv, snd, pm) /\ QueueOK(snd)
      /\ Reached => FromNothing(rcv, snd)
    BY <1>1, <1>2, InSync DEF InRefresh
<1>4. /\ KindsIn(snd, {"start", "loaded"})
      /\ pm.plots = (Base(rcv, snd) \ pm.removed) \cup AllOf(snd, "loaded")
      /\ pm.removed \cap (AllOf(snd, "loaded") \cup pm.paths) = {}
    BY <1>1, <1>3 DEF RefreshOK, Found
<1>5. pm'.pc = "callback"
    BY <1>1, <1>2 DEF StepInv, ThreadOK, Live
<1>6. Found(snd, pm') = AllOf(snd, "loaded") \cup loaded
    BY <1>1, <1>5 DEF Found
<1>7. /\ pm'.plots = (Base(rcv, snd) \ pm'.removed) \cup Found(snd, pm')
      /\ pm'.removed \cap (Found(snd, pm') \cup pm'.paths) = {}
    BY <1>1, <1>4, <1>6
<1>8. RefreshOK(rcv, snd, pm')
    BY <1>4, <1>5, <1>7 DEF RefreshOK
<1>9. QED
    BY <1>3, <1>4, <1>8, RefreshOpen DEF QueueStep

(* What was loaded goes into the queue. *)
LEMMA CallbackStep ==
    ASSUME StepInv, PmCallback
    PROVE  StepOK'
<1>0. Types
    BY DEF StepInv, IInv
<1> DEFINE remaining == Cardinality(pm.paths)
<1>1. pm.pc = "callback" /\ UNCHANGED <<resp, task, stop, loop, conn, net, rcv, crossed>>
    BY DEF PmCallback
<1>2. SUFFICES ASSUME Live
               PROVE  /\ snd'.sync # 0 /\ QueueStep(rcv, snd', pm')
                      /\ Reached' => FromNothing(rcv, snd')
    BY <1>1 DEF StepOK, Live, Stopped
<1>3. /\ snd.sync # 0 /\ RefreshOK(rcv, snd, pm) /\ QueueOK(snd) /\ snd \in Queues
      /\ Reached => FromNothing(rcv, snd)
    BY <1>1, <1>2, InSync DEF InRefresh
<1>4. /\ pm' = [pm EXCEPT !.pc = IF remaining = 0 THEN "done" ELSE "batch", !.loaded = {}]
      /\ snd' = ProcessBatch(snd, pm.loaded, remaining)
    BY <1>3 DEF PmCallback
<1>5. /\ pm'.pc \in {"done", "batch"} /\ pm'.plots = pm.plots /\ pm'.removed = pm.removed
      /\ pm'.paths = pm.paths /\ pm.loaded \in SUBSET Files
    BY <1>0, <1>4 DEF Types
<1>6. /\ KindsIn(snd, {"start", "loaded"})
      /\ pm.plots = (Base(rcv, snd) \ pm.removed) \cup (AllOf(snd, "loaded") \cup pm.loaded)
      /\ pm.removed \cap ((AllOf(snd, "loaded") \cup pm.loaded) \cup pm.paths) = {}
    BY <1>1, <1>3 DEF RefreshOK, Found
<1> HIDE DEF remaining
<1>7. Extends(snd, snd')
    BY <1>3, <1>4, <1>5, ProcessBatchExtends
<1>8. QueueOK(snd') /\ snd'.sync # 0 /\ snd'.next = snd.next
    BY <1>3, <1>7, ExtendsQueueOK DEF Extends
<1>9. snd'.msgs[1] = snd.msgs[1]
  <2>1. 1 \in 1..Len(snd.msgs)
      BY <1>3 DEF QueueOK, Queues
  <2>2. QED
      BY <1>7, <2>1 DEF Extends
<1>10. AllOf(snd', "loaded") = AllOf(snd, "loaded") \cup pm.loaded /\ KindsIn(snd', {"start", "loaded"})
  <2>1. CASE pm.loaded # {} \/ remaining = 0
    <3>1. snd' = AddMessage(snd, "loaded", pm.loaded, FALSE)
        BY <1>4, <2>1 DEF ProcessBatch
    <3>2. "loaded" \in Kinds \ {"start"} /\ "loaded" \in {"start", "loaded"}
        BY DEF Kinds
    <3>3. /\ \A k : AllOf(snd', k) = AllOf(snd, k) \cup (IF k = "loaded" THEN pm.loaded ELSE {})
          /\ \A K : KindsIn(snd, K) /\ "loaded" \in K => KindsIn(snd', K)
      <4> DEFINE data == pm.loaded
                 kind == "loaded"
                 t == AddMessage(snd, kind, data, FALSE)
      <4>1. snd \in Queues /\ data \in SUBSET Files /\ kind \in Kinds \ {"start"}
          BY <1>3, <1>5, <3>2
      <4> HIDE DEF data, kind
      <4>2. /\ \A k : AllOf(t, k) = AllOf(snd, k) \cup (IF k = kind THEN data ELSE {})
            /\ \A K : KindsIn(snd, K) /\ kind \in K => KindsIn(t, K)
          BY <4>1, AddMessageSays
      <4>3. snd' = t
          BY <3>1 DEF kind, data
      <4> HIDE DEF t
      <4>4. QED
          BY <4>2, <4>3 DEF kind, data
    <3>4. AllOf(snd', "loaded") = AllOf(snd, "loaded") \cup pm.loaded
        BY <3>3
    <3>5. KindsIn(snd', {"start", "loaded"})
        BY <1>6, <3>2, <3>3
    <3>6. QED
        BY <3>4, <3>5
  <2>2. CASE ~(pm.loaded # {} \/ remaining = 0)
      BY <1>4, <1>6, <2>2 DEF ProcessBatch
  <2>3. QED
      BY <2>1, <2>2
<1>11. Found(snd', pm') = AllOf(snd, "loaded") \cup pm.loaded /\ Base(rcv, snd') = Base(rcv, snd)
    BY <1>5, <1>9, <1>10 DEF Found, Base
<1>12. RefreshOK(rcv, snd', pm')
    BY <1>5, <1>6, <1>10, <1>11 DEF RefreshOK
<1>13. QueueStep(rcv, snd', pm')
    BY <1>8, <1>10, <1>12, RefreshOpen DEF QueueStep
<1>14. ~Delivered(rcv, snd)
    BY <1>3, <1>6, RefreshOpen
<1>15. Reached' => FromNothing(rcv, snd')
    BY <1>1, <1>3, <1>8, <1>9, <1>14 DEF Reached, FromNothing
<1>16. QED
    BY <1>8, <1>13, <1>15

(* The sync of the refresh is complete: it makes of what the receiver has  *)
(* what the plot manager has.                                              *)
LEMMA DoneStep ==
    ASSUME StepInv, PmDone
    PROVE  StepOK'
<1>0. Types /\ SyncOK
    BY DEF StepInv, IInv
<1>1. pm.pc = "done" /\ UNCHANGED <<resp, task, stop, loop, conn, net, rcv, crossed>>
    BY DEF PmDone
<1>2. SUFFICES ASSUME Live
               PROVE  /\ snd'.sync # 0 /\ QueueStep(rcv, snd', pm')
                      /\ Reached' => FromNothing(rcv, snd')
    BY <1>1 DEF StepOK, Live, Stopped
<1>3. /\ snd.sync # 0 /\ RefreshOK(rcv, snd, pm) /\ QueueOK(snd) /\ snd \in Queues
      /\ Reached => FromNothing(rcv, snd)
    BY <1>1, <1>2, InSync DEF InRefresh
<1>e. pm.enabled
    BY <1>2 DEF StepInv, ThreadOK, Live
<1>4. /\ pm' = [pm EXCEPT !.pc = "idle", !.initial = FALSE, !.paths = {},
                          !.removed = {}, !.loaded = {}]
      /\ snd' = SyncDone(snd, pm.removed, pm.lists)
    BY <1>3, <1>e DEF PmDone
<1>5. /\ pm'.pc = "idle" /\ pm'.plots = pm.plots /\ pm'.lists = pm.lists
      /\ pm.removed \in SUBSET Files /\ pm.lists \in [Lists -> SUBSET Files]
    BY <1>0, <1>4 DEF Types
<1>6. /\ KindsIn(snd, {"start", "loaded"})
      /\ pm.plots = (Base(rcv, snd) \ pm.removed) \cup AllOf(snd, "loaded")
      /\ pm.removed \cap AllOf(snd, "loaded") = {}
    BY <1>1, <1>3 DEF RefreshOK, Found
<1>7. Extends(snd, snd')
    BY <1>3, <1>4, <1>5, SyncDoneExtends
<1>8. QueueOK(snd') /\ snd'.sync # 0 /\ snd'.next = snd.next
    BY <1>3, <1>7, ExtendsQueueOK DEF Extends
<1>9. snd'.msgs[1] = snd.msgs[1] /\ Len(snd.msgs) \in Nat /\ Len(snd.msgs) # 0 /\ snd.next \in Nat
  <2>1. 1 \in 1..Len(snd.msgs)
      BY <1>3 DEF QueueOK, Queues
  <2>2. QED
      BY <1>3, <1>7, <2>1 DEF Extends, QueueOK, Queues
<1>10. /\ AllOf(snd', "loaded") = AllOf(snd, "loaded")
       /\ AllOf(snd', "removed") = pm.removed
       /\ \A l \in Lists : AllOf(snd', l) = pm.lists[l]
       /\ Complete(snd')
       /\ \A i \in 1..(Len(snd'.msgs) - 1) : snd'.msgs[i].kind # "done"
  <2> DEFINE removed == pm.removed
             lists == pm.lists
  <2>1. /\ removed \in SUBSET Files /\ lists \in [Lists -> SUBSET Files]
        /\ snd' = SyncDone(snd, removed, lists)
      BY <1>4, <1>5
  <2> HIDE DEF removed, lists
  <2>2. /\ AllOf(snd', "loaded") = AllOf(snd, "loaded")
        /\ AllOf(snd', "removed") = removed
        /\ \A l \in Lists : AllOf(snd', l) = lists[l]
        /\ snd'.msgs[Len(snd'.msgs)].kind = "done"
        /\ \A i \in 1..(Len(snd'.msgs) - 1) : snd'.msgs[i].kind # "done"
      BY <1>3, <1>6, <2>1, SyncDoneSays
  <2>3. QED
      BY <2>2 DEF removed, lists, Complete
<1>11. ~Delivered(rcv, snd')
  <2>1. CASE snd.next < Len(snd.msgs)
    <3>1. Current(snd') = Current(snd)
        BY <1>3, <1>7, <2>1, ExtendsKeeps
    <3>2. snd.next + 1 \in 1..Len(snd.msgs)
        BY <1>9, <2>1
    <3>3. Current(snd).kind \in {"start", "loaded"}
        BY <1>6, <3>2 DEF KindsIn, Current
    <3>4. QED
        BY <3>1, <3>3 DEF Delivered
  <2>2. CASE ~(snd.next < Len(snd.msgs))
    <3>1. snd.next # 0
        BY <1>9, <2>2
    <3>2. Before(rcv, snd)
        BY <1>0, <1>2, <1>3, <2>2 DEF SyncOK, Live, Behind
    <3>3. rcv.cur.sync = snd.sync
        BY <3>1, <3>2 DEF Before, HasPrefix
    <3>4. QED
        BY <1>3, <3>3 DEF Delivered, NoSync
  <2>3. QED
      BY <2>1, <2>2
<1>12. Base(rcv, snd') = Base(rcv, snd)
    BY <1>9 DEF Base
<1>13. (Base(rcv, snd') \cup AllOf(snd', "loaded")) \ AllOf(snd', "removed") = pm'.plots
    BY <1>5, <1>6, <1>10, <1>12
<1>14. CompleteOK(rcv, snd', pm')
    BY <1>5, <1>10, <1>11, <1>13 DEF CompleteOK
<1>15. ~Delivered(rcv, snd)
    BY <1>3, <1>6, RefreshOpen
<1>16. Reached' => FromNothing(rcv, snd')
    BY <1>1, <1>3, <1>8, <1>9, <1>15 DEF Reached, FromNothing
<1>17. QED
    BY <1>8, <1>10, <1>14, <1>16 DEF QueueStep

(* A thread that stops belongs to a sender that does not send. *)
LEMMA EndStep ==
    ASSUME StepInv, PmStartAborted \/ PmEnd
    PROVE  StepOK'
<1>1. ~Live'
  <2>1. CASE PmStartAborted
      BY <2>1 DEF PmStartAborted, Live, Stopped
  <2>2. CASE PmEnd
      BY <2>2 DEF PmEnd, Live, Stopped, StepInv, ThreadOK
  <2>3. QED
      BY <2>1, <2>2
<1>2. QED
    BY <1>1 DEF StepOK

-------------------------------------------------------------------------------
(* ... the sender's task, the farmer and the connection. *)

(* A queue that is filled anew makes what the plot manager has. *)
LEMMA FilledStep ==
    ASSUME StepInv, NEW t \in Times, snd' = Filled(t),
           pm'.pc \in {"idle", "start"}, pm'.plots = pm.plots, pm'.lists = pm.lists,
           net' = NoMessages, task' # "wait"
    PROVE  StepOK'
<1>0. Types
    BY DEF StepInv, IInv
<1>1. t \in Nat \ {0}
    BY <1>0, TimesType
<1>2. QueueOK(snd') /\ snd'.sync # 0 /\ snd'.next = 0 /\ snd'.msgs[1].initial
    BY <1>0, <1>1, FilledOK
<1>3. /\ AllOf(snd', "loaded") = pm.plots
      /\ AllOf(snd', "removed") = {}
      /\ \A l \in Lists : AllOf(snd', l) = pm.lists[l]
      /\ Complete(snd')
      /\ \A i \in 1..(Len(snd'.msgs) - 1) : snd'.msgs[i].kind # "done"
  <2> DEFINE s == snd'
  <2>1. s = Filled(t)
      OBVIOUS
  <2> HIDE DEF s
  <2>2. /\ AllOf(s, "loaded") = pm.plots
        /\ AllOf(s, "removed") = {}
        /\ \A l \in Lists : AllOf(s, l) = pm.lists[l]
        /\ s.msgs[Len(s.msgs)].kind = "done"
        /\ \A i \in 1..(Len(s.msgs) - 1) : s.msgs[i].kind # "done"
      BY <1>0, <1>1, <2>1, FilledSays
  <2>3. QED
      BY <2>2 DEF s, Complete
<1>4. \A r : ~Delivered(r, snd')
  <2>1. 1 \in 1..Len(snd'.msgs)
      BY <1>2 DEF QueueOK, Queues
  <2>2. Current(snd').kind = "start"
      BY <1>2, <2>1 DEF QueueOK, Current
  <2>3. QED
      BY <2>2 DEF Delivered
<1>5. CompleteOK(rcv', snd', pm')
    BY <1>2, <1>3, <1>4 DEF CompleteOK, Base
<1>6. QueueStep(rcv', snd', pm')
    BY <1>3, <1>5 DEF QueueStep
<1>7. ~Reached'
    BY <1>2 DEF Reached, NoMessages
<1>8. QED
    BY <1>2, <1>6, <1>7 DEF StepOK

LEMMA ResetFillStep ==
    ASSUME StepInv, ResetFill
    PROVE  StepOK'
<1>0. Types /\ QueueOK(snd) /\ ConnOK /\ WaitOK /\ SyncOK
    BY DEF StepInv, IInv
<1>1. /\ loop = "reset" /\ snd.sync = 0 /\ net' = AfterTimeout(net) /\ crossed' = InRefresh
      /\ UNCHANGED <<pm, task, stop, conn, rcv>>
    BY DEF ResetFill
<1>2. PICK t \in Times : snd' = Filled(t)
    BY DEF ResetFill
<1>3. net' = NoMessages /\ task' # "wait"
  <2>1. net = NoMessages
      BY <1>0, <1>1 DEF ConnOK, SyncOK, Types
  <2>2. task # "wait"
      BY <1>0, <1>1 DEF WaitOK, QueueOK, Queues
  <2>3. QED
      BY <1>0, <1>1, <2>1, <2>2, AfterTimeoutOK
<1>4. CASE ~Live'
    BY <1>4 DEF StepOK
<1>5. CASE Live'
  <2>1. ~InRefresh /\ ~Stopped
      BY <1>1, <1>5 DEF Live, Stopped
  <2>2. pm.pc # "off"
      BY <2>1 DEF StepInv, ThreadOK
  <2>3. pm.pc \in {"idle", "start"}
      BY <1>0, <2>1, <2>2 DEF Types, InRefresh
  <2>4. QED
      BY <1>1, <1>2, <1>3, <2>3, FilledStep
<1>6. QED
    BY <1>4, <1>5

(* Sender.start *)
LEMMA StartStep ==
    ASSUME StepInv, NEW s, Started(s), Stopped, UNCHANGED <<conn, net, rcv>>
    PROVE  StepOK'
<1>0. Types /\ ConnOK
    BY DEF StepInv, IInv
<1>1. task' = "idle" /\ pm' = [pm EXCEPT !.enabled = TRUE, !.pc = "idle"]
    BY DEF Started
<1>2. pm'.pc = "idle" /\ pm'.plots = pm.plots /\ pm'.lists = pm.lists /\ pm'.initial = pm.initial
    BY <1>0, <1>1 DEF Types
<1>3. CASE pm.initial /\ s.sync = 0
  <2>1. snd' = s
      BY <1>3 DEF Started
  <2>2. QED
      BY <1>2, <1>3, <2>1 DEF StepOK
<1>4. CASE ~(pm.initial /\ s.sync = 0)
  <2>1. PICK t \in Times : snd' = Filled(t)
      BY <1>4 DEF Started
  <2>2. CASE conn = "up"
    <3>1. net' = NoMessages
        BY <1>0, <2>2 DEF ConnOK
    <3>2. QED
        BY <1>1, <1>2, <2>1, <3>1, FilledStep
  <2>3. CASE conn # "up"
      BY <2>3 DEF StepOK, Live
  <2>4. QED
      BY <2>2, <2>3
<1>5. QED
    BY <1>3, <1>4

(* When a sync ends the receiver has what the plot manager has. *)
LEMMA AnsweredStep ==
    ASSUME StepInv, Answered
    PROVE  StepOK'
<1>0. Types /\ QueueOK(snd) /\ WaitOK /\ SyncOK
    BY DEF StepInv, IInv
<1>1. /\ loop = "free" /\ task = "wait" /\ resp.ans # NoAnswer
      /\ UNCHANGED <<pm, resp, stop, conn, net, rcv, crossed>>
    BY DEF Answered
<1>2. /\ snd.next \in Nat /\ Len(snd.msgs) \in Nat /\ snd.next < Len(snd.msgs) /\ snd.sync # 0
      /\ resp.kind = Current(snd).kind
    BY <1>0, <1>1 DEF WaitOK, QueueOK, Queues
<1>3. SUFFICES ASSUME Live, ~Failed PROVE StepOK'
  <2>1. CASE Failed
      BY <2>1 DEF Failed, StepOK, Live
  <2>2. CASE ~Live
      BY <1>1, <2>2 DEF StepOK, Live, Stopped
  <2>3. QED
      BY <2>1, <2>2
<1>4. AnswerOK(resp.ans, rcv, snd)
    BY <1>0, <1>1, <1>2, <1>3 DEF SyncOK, NetOK, Live
<1>5. QueueStep(rcv, snd, pm) /\ FromNothing(rcv, snd)
    BY <1>1, <1>2, <1>3 DEF StepInv, StepOK, Reached
<1>s. NoSync.sync = 0
    BY DEF NoSync
<1>6. ASSUME Delivered(rcv, snd), snd' = Finalized PROVE StepOK'
  <2>1. snd'.sync = 0
      BY <1>6 DEF Finalized
  <2>2. snd.next + 1 = Len(snd.msgs)
    <3>1. CASE snd.next + 1 \in 1..(Len(snd.msgs) - 1)
        BY <1>5, <1>6, <3>1 DEF QueueStep, Delivered, Current
    <3>2. CASE ~(snd.next + 1 \in 1..(Len(snd.msgs) - 1))
        BY <1>2, <3>2
    <3>3. QED
        BY <3>1, <3>2
  <2>3. Complete(snd)
      BY <1>6, <2>2 DEF Delivered, Current, Complete
  <2>4. pm.pc \in {"idle", "start"} /\ InStep
      BY <1>5, <1>6, <2>3 DEF QueueStep, CompleteOK, InStep
  <2>5. InStep'
      BY <1>1, <2>4 DEF InStep
  <2>6. QED
      BY <1>1, <2>1, <2>4, <2>5 DEF StepOK
<1>7. ASSUME NEW n \in Nat, snd' = [snd EXCEPT !.next = n], HasPrefix(rcv, snd, n)
      PROVE  StepOK'
  <2>1. snd'.sync = snd.sync /\ snd'.msgs = snd.msgs
      BY <1>0, <1>7 DEF QueueOK, Queues
  <2>2. rcv.cur # NoSync
      BY <1>2, <1>7, <1>s DEF HasPrefix
  <2>3. ~Delivered(rcv, snd) /\ ~Delivered(rcv, snd')
      BY <2>2 DEF Delivered
  <2>4. /\ Complete(snd') = Complete(snd) /\ Base(rcv, snd') = Base(rcv, snd)
        /\ \A k : AllOf(snd', k) = AllOf(snd, k)
        /\ \A K : KindsIn(snd', K) = KindsIn(snd, K)
      BY <2>1 DEF Complete, Base, AllOf, KindsIn
  <2>5. CompleteOK(rcv, snd, pm) => CompleteOK(rcv, snd', pm)
      BY <2>3, <2>4 DEF CompleteOK
  <2>6. RefreshOK(rcv, snd, pm) => RefreshOK(rcv, snd', pm)
      BY <2>4 DEF RefreshOK, Found
  <2>7. QueueStep(rcv, snd', pm)
      BY <1>5, <2>1, <2>4, <2>5, <2>6 DEF QueueStep
  <2>8. FromNothing(rcv, snd')
      BY <1>5, <2>1, <2>3 DEF FromNothing
  <2>9. QED
      BY <1>1, <1>2, <2>1, <2>7, <2>8 DEF StepOK
<1>8. CASE /\ resp.ans.code = "ok"
           /\ snd' = IF resp.kind = "done" THEN Finalized ELSE [snd EXCEPT !.next = @ + 1]
  <2>1. Behind(rcv, snd)
      BY <1>4, <1>8 DEF AnswerOK
  <2>2. CASE resp.kind = "done"
      BY <1>2, <1>6, <1>8, <2>1, <2>2 DEF Behind, Delivered
  <2>3. CASE resp.kind # "done"
    <3>1. HasPrefix(rcv, snd, snd.next + 1) /\ snd.next + 1 \in Nat
        BY <1>2, <2>1, <2>3 DEF Behind
    <3>2. QED
        BY <1>7, <1>8, <2>3, <3>1
  <2>4. QED
      BY <2>2, <2>3
<1>e. ASSUME resp.ans.code = "expect"
      PROVE  /\ resp.ans.sync = rcv.cur.sync /\ resp.ans.id = rcv.cur.next
             /\ IF Current(snd).kind = "done" THEN rcv.cur = NoSync
                ELSE HasPrefix(rcv, snd, snd.next + 1)
    BY <1>4, <1>e DEF AnswerOK, Behind
<1>9. CASE MissedDone /\ snd' = Finalized
  <2>1. rcv.cur.sync = 0
      BY <1>9, <1>e DEF MissedDone
  <2>2. Current(snd).kind = "done" /\ rcv.cur = NoSync
      BY <1>2, <1>9, <1>e, <2>1 DEF MissedDone, HasPrefix
  <2>3. QED
      BY <1>2, <1>6, <1>9, <2>2 DEF Delivered
<1>10. CASE CanRewind /\ snd' = [snd EXCEPT !.next = resp.ans.id]
  <2>1. resp.ans.code = "expect" /\ rcv.cur.sync = snd.sync /\ resp.ans.id = rcv.cur.next
      BY <1>10, <1>e DEF CanRewind
  <2>2. HasPrefix(rcv, snd, snd.next + 1)
      BY <1>2, <1>e, <1>s, <2>1
  <2>3. resp.ans.id = snd.next + 1 /\ snd.next + 1 \in Nat
      BY <1>2, <2>1, <2>2 DEF HasPrefix
  <2>4. QED
      BY <1>7, <1>10, <2>2, <2>3
<1>11. QED
    BY <1>3, <1>8, <1>9, <1>10 DEF Answered

(* The list handlers leave the receiver's plots alone. *)
LEMMA ProcessListPlots ==
    ASSUME NEW r \in Receivers, NEW m, m.kind \in Carriers, m.data \in SUBSET Files,
           NEW o \in ProcessList(r, m)
    PROVE  o[1].plots = r.plots
<1>1. ASSUME NEW S \in SUBSET Files
      PROVE  Collect(r, m.kind, S).plots = r.plots /\ Collect(r, m.kind, S) \in Receivers
  <2>1. Collect(r, m.kind, S).plots = r.plots
      BY DEF Collect, Receivers
  <2>2. QED
      BY <2>1, CollectKeeps
<1>2. ASSUME NEW q \in Receivers PROVE Bumped(q).plots = q.plots
    BY DEF Bumped, Receivers
<1>3. QED
    BY <1>1, <1>2 DEF ProcessList

(* A start message leaves them alone or, of an initial sync, forgets them. *)
LEMMA SyncStartedPlots ==
    ASSUME NEW r \in Receivers, NEW m, NEW o \in SyncStarted(r, m)
    PROVE  o[1].plots = IF m.initial THEN {} ELSE r.plots
<1> DEFINE q == IF m.initial THEN NewReceiver ELSE r
           c == [NoSync EXCEPT !.sync = m.sync, !.next = q.cur.next]
<1>1. NewReceiver \in Receivers /\ NewReceiver.plots = {}
    BY DEF NewReceiver, Receivers, Syncs, NoSync, Empty
<1>2. q \in Receivers /\ q.plots = IF m.initial THEN {} ELSE r.plots
    BY <1>1
<1>3. o[1] = q \/ o[1] = Bumped([q EXCEPT !.cur = c])
    BY DEF SyncStarted
<1> HIDE DEF q, c
<1>4. Bumped([q EXCEPT !.cur = c]).plots = q.plots
    BY <1>2 DEF Bumped, Receivers
<1>5. QED
    BY <1>2, <1>3, <1>4

(* A sync that is complete and applied makes what it says. *)
LEMMA AppliedMakes ==
    ASSUME NEW s, QueueOK(s), s.next < Len(s.msgs), Current(s).kind = "done",
           \A i \in 1..(Len(s.msgs) - 1) : s.msgs[i].kind # "done",
           NEW r \in Receivers, HasPrefix(r, s, s.next)
    PROVE  /\ Complete(s)
           /\ Applied(r).plots = (r.plots \cup AllOf(s, "loaded")) \ AllOf(s, "removed")
           /\ \A l \in Lists : Applied(r).lists[l] = AllOf(s, l)
           /\ Applied(r).lists \in [Lists -> SUBSET Files]
<1> DEFINE n == s.next
<1>1. n \in Nat /\ Len(s.msgs) \in Nat /\ n < Len(s.msgs) /\ s.msgs[n + 1].kind = "done"
    BY DEF QueueOK, Queues, Current
<1>2. n + 1 = Len(s.msgs)
  <2>1. ~(n + 1 \in 1..(Len(s.msgs) - 1))
      BY <1>1
  <2>2. QED
      BY <1>1, <2>1
<1>3. Complete(s)
    BY <1>1, <1>2 DEF Complete
<1>4. ASSUME NEW k \in Carriers PROVE Collected(r, k) = AllOf(s, k)
  <2>1. k # "done"
      BY PlotSyncAssumption DEF Carriers
  <2>2. Collected(r, k) = DataOf(s.msgs, n, k)
      BY <1>1, <2>1 DEF HasPrefix, Carriers
  <2> HIDE DEF n
  <2>3. DataOf(s.msgs, n + 1, k) = DataOf(s.msgs, n, k)
            \cup (IF s.msgs[n + 1].kind = k THEN s.msgs[n + 1].data ELSE {})
      BY <1>1, DataOfNext
  <2>4. QED
      BY <1>1, <1>2, <2>1, <2>2, <2>3 DEF AllOf
<1>5. /\ r.cur.adds = AllOf(s, "loaded")
      /\ r.cur.rems = AllOf(s, "removed")
      /\ \A l \in Lists : r.cur.found[l] = AllOf(s, l)
  <2>1. "loaded" \in Carriers /\ "removed" \in Carriers /\ Lists \subseteq Carriers
      BY DEF Carriers
  <2>2. \A l \in Lists : l # "loaded" /\ l # "removed"
      BY PlotSyncAssumption
  <2>3. /\ Collected(r, "loaded") = r.cur.adds /\ Collected(r, "removed") = r.cur.rems
        /\ \A l \in Lists : Collected(r, l) = r.cur.found[l]
      BY <2>2 DEF Collected
  <2>4. QED
      BY <1>4, <2>1, <2>3
<1>6. /\ Applied(r).plots = (r.plots \cup r.cur.adds) \ r.cur.rems
      /\ Applied(r).lists = r.cur.found
      /\ r.cur.found \in [Lists -> SUBSET Files]
    BY DEF Applied, Receivers, Syncs
<1>7. QED
    BY <1>3, <1>5, <1>6

(* Whatever the farmer does with the current message. *)
LEMMA FarmerStep ==
    ASSUME StepInv, FarmerHandles
    PROVE  StepOK'
<1>0. IInv /\ Types /\ QueueOK(snd)
    BY DEF StepInv, IInv
<1> DEFINE m == Current(snd)
           n == snd.next
<1>1. /\ conn = "up" /\ net.toFarmer # <<>> /\ net # NoMessages
      /\ UNCHANGED <<pm, snd, resp, task, stop, loop, conn, crossed>>
    BY DEF FarmerHandles, NoMessages
<1>2. /\ snd.sync # 0 /\ n < Len(snd.msgs) /\ (Before(rcv, snd) \/ Behind(rcv, snd)) /\ NetOK
    BY <1>0, <1>1, UnderWay
<1>3. Head(net.toFarmer).msg = m
  <2>1. net.toFarmer \in Seq([msg : Messages, late : BOOLEAN])
      BY <1>0 DEF Types
  <2>2. 1 \in 1..Len(net.toFarmer) /\ Head(net.toFarmer) = net.toFarmer[1]
      BY <1>1, <2>1
  <2>3. QED
      BY <1>2, <2>2 DEF NetOK
<1>4. PICK o \in Handled(rcv, m) : rcv' = o[1]
    BY <1>3 DEF FarmerHandles
<1>5. /\ n \in Nat /\ Len(snd.msgs) \in Nat /\ n + 1 \in 1..Len(snd.msgs) /\ snd.msgs[n + 1] = m
      /\ m.sync = snd.sync /\ m.id = n /\ (m.kind = "start" <=> n = 0)
      /\ rcv \in Receivers /\ m.kind \in Kinds /\ m.data \in SUBSET Files
  <2>2. n \in Nat /\ Len(snd.msgs) \in Nat /\ n + 1 \in 1..Len(snd.msgs) /\ snd.msgs[n + 1] = m
      BY <1>0, <1>2 DEF QueueOK, Queues, Current
  <2>3. m \in Messages
    <3>1. snd.msgs \in Seq(Messages)
        BY <1>0 DEF QueueOK, Queues
    <3>2. QED
        BY <2>2, <3>1
  <2>4. m.sync = snd.sync /\ m.id = n /\ (m.kind = "start" <=> n = 0)
      BY <1>0, <2>2 DEF QueueOK
  <2>5. m.kind \in Kinds /\ m.data \in SUBSET Files
    <3> HIDE DEF m
    <3>1. QED
        BY <2>3 DEF Messages
  <2>6. QED
      BY <1>0, <2>2, <2>4, <2>5 DEF Types
<1>6. SUFFICES ASSUME Live PROVE QueueStep(rcv', snd, pm) /\ FromNothing(rcv', snd)
    BY <1>1, <1>2 DEF StepOK, Live, Stopped
<1>7. QueueStep(rcv, snd, pm) /\ (Reached => FromNothing(rcv, snd))
    BY <1>2, <1>6 DEF StepInv, StepOK
<1>8. ASSUME m.kind # "done", Base(rcv', snd) = Base(rcv, snd), FromNothing(rcv', snd)
      PROVE  QueueStep(rcv', snd, pm)
  <2>1. \A r : ~Delivered(r, snd)
      BY <1>8 DEF Delivered
  <2>2. CompleteOK(rcv, snd, pm) => CompleteOK(rcv', snd, pm)
      BY <1>8, <2>1 DEF CompleteOK
  <2>3. RefreshOK(rcv, snd, pm) => RefreshOK(rcv', snd, pm)
      BY <1>8 DEF RefreshOK
  <2>4. QED
      BY <1>7, <2>2, <2>3 DEF QueueStep
<1>9. CASE n = 0
  <2>1. o \in SyncStarted(rcv, m) /\ m = snd.msgs[1] /\ m.kind = "start"
      BY <1>5, <1>9 DEF Handled
  <2>2. rcv'.plots = IF m.initial THEN {} ELSE rcv.plots
      BY <1>4, <1>5, <2>1, SyncStartedPlots
  <2>3. Base(rcv', snd) = Base(rcv, snd) /\ FromNothing(rcv', snd)
      BY <2>1, <2>2 DEF Base, FromNothing
  <2>4. QED
      BY <1>8, <2>1, <2>3
<1>10. CASE n # 0 /\ rcv' = rcv
    BY <1>5, <1>7, <1>10 DEF Reached
<1>11. CASE n # 0 /\ rcv' # rcv
  <2>1. m.kind # "start" /\ m.sync = rcv.cur.sync /\ m.id = rcv.cur.next
      BY <1>4, <1>5, <1>11 DEF Handled
  <2>2. FromNothing(rcv, snd)
      BY <1>5, <1>7, <1>11 DEF Reached
  <2>3. rcv.cur # NoSync
      BY <1>2, <1>5, <2>1 DEF NoSync
  <2>4. ~Delivered(rcv, snd)
      BY <2>3 DEF Delivered
  <2>5. CASE m.kind # "done"
    <3>1. o \in ProcessList(rcv, m) /\ m.kind \in Carriers
        BY <1>4, <1>5, <2>1, <2>5 DEF Handled, Kinds, Carriers
    <3>2. rcv'.plots = rcv.plots
        BY <1>4, <1>5, <3>1, ProcessListPlots
    <3>3. Base(rcv', snd) = Base(rcv, snd) /\ FromNothing(rcv', snd)
        BY <2>2, <2>4, <3>2 DEF Base, FromNothing
    <3>4. QED
        BY <1>8, <2>5, <3>3
  <2>6. CASE m.kind = "done"
    <3>1. rcv' = Applied(rcv)
        BY <1>4, <2>1, <2>6 DEF Handled
    <3>2. HasPrefix(rcv, snd, n)
      <4>1. ~Behind(rcv, snd)
          BY <2>3, <2>6 DEF Behind
      <4>2. QED
          BY <1>2, <1>11, <4>1 DEF Before
    <3>3. \A i \in 1..(Len(snd.msgs) - 1) : snd.msgs[i].kind # "done"
        BY <1>7 DEF QueueStep
    <3>4. /\ Complete(snd)
          /\ rcv'.plots = (rcv.plots \cup AllOf(snd, "loaded")) \ AllOf(snd, "removed")
          /\ \A l \in Lists : rcv'.lists[l] = AllOf(snd, l)
          /\ rcv'.lists \in [Lists -> SUBSET Files]
        BY <1>0, <1>2, <1>5, <2>6, <3>1, <3>2, <3>3, AppliedMakes
    <3>5. CompleteOK(rcv, snd, pm)
        BY <1>7, <3>4 DEF QueueStep
    <3>6. /\ (Base(rcv, snd) \cup AllOf(snd, "loaded")) \ AllOf(snd, "removed") = pm.plots
          /\ \A l \in Lists : AllOf(snd, l) = pm.lists[l]
          /\ pm.pc \in {"idle", "start"}
        BY <2>4, <3>5 DEF CompleteOK
    <3>7. Base(rcv, snd) = rcv.plots
        BY <2>2, <2>4 DEF Base, FromNothing
    <3>8. rcv'.plots = pm.plots
        BY <3>4, <3>6, <3>7
    <3>9. rcv'.lists = pm.lists
      <4>1. pm.lists \in [Lists -> SUBSET Files]
          BY <1>0 DEF Types
      <4>2. QED
          BY <3>4, <3>6, <4>1
    <3>10. Delivered(rcv', snd)
      <4>1. rcv'.cur = NoSync
          BY <3>1 DEF Applied
      <4>2. QED
          BY <1>2, <2>6, <4>1 DEF Delivered
    <3>11. CompleteOK(rcv', snd, pm) /\ FromNothing(rcv', snd)
        BY <3>6, <3>8, <3>9, <3>10 DEF CompleteOK, FromNothing
    <3>12. QED
        BY <3>3, <3>4, <3>11 DEF QueueStep
  <2>7. QED
      BY <2>5, <2>6
<1>12. QED
    BY <1>9, <1>10, <1>11

(* Sending, waiting and receiving an answer change nothing that matters. *)
LEMMA QuietStep ==
    ASSUME StepInv, Send \/ Timeout \/ Wake \/ RunEnds \/ SetResponse \/ DiskChanges \/ UNCHANGED vars
    PROVE  StepOK'
<1>0. Types /\ StepOK
    BY DEF StepInv, IInv
<1>1. CASE Send
  <2>1. CASE Failed
      BY <2>1 DEF Failed, StepOK, Live
  <2>2. CASE ~Failed
    <3>1. /\ UNCHANGED <<snd, loop, pm, rcv, conn, stop, crossed>> /\ task = "idle" /\ task' = "wait"
          /\ resp'.ans = NoAnswer
          /\ net' = [net EXCEPT !.toFarmer = Append(@, [msg |-> snd.msgs[snd.next + 1], late |-> FALSE])]
        BY <1>1, <2>2 DEF Send
    <3>2. net'.toHarvester = net.toHarvester
        BY <1>0, <3>1 DEF Types
    <3>3. Live' => Live /\ (Reached' => Reached)
        BY <3>1, <3>2 DEF Live, Stopped, Reached
    <3>4. QED
        BY <1>0, <3>1, <3>3, StepUnchanged
  <2>3. QED
      BY <2>1, <2>2
<1>2. CASE Timeout
  <2>1. /\ UNCHANGED <<snd, loop, pm, rcv, conn, stop, crossed>> /\ task = "wait" /\ task' = "sleep"
        /\ net' = AfterTimeout(net)
      BY <1>2 DEF Timeout
  <2>2. net.toHarvester = <<>> => net'.toHarvester = <<>>
    <3>1. /\ Len(net'.toHarvester) = Len(net.toHarvester) /\ net'.toHarvester \in Seq(Responses)
        BY <1>0, <2>1, AfterTimeoutOK
    <3>2. ASSUME net.toHarvester = <<>> PROVE Len(net'.toHarvester) = 0
        BY <3>1, <3>2
    <3>3. QED
        BY <3>1, <3>2, EmptySeq
  <2>3. Live' => Live /\ (Reached' => Reached)
      BY <2>1, <2>2 DEF Live, Stopped, Reached
  <2>4. QED
      BY <1>0, <2>1, <2>3, StepUnchanged
<1>3. CASE Wake \/ RunEnds \/ DiskChanges \/ UNCHANGED vars
  <2>1. UNCHANGED <<snd, pm, rcv>>
      BY <1>3 DEF Wake, RunEnds, DiskChanges, vars
  <2>2. Live' => Live /\ (Reached' => Reached)
      BY <1>3 DEF Wake, RunEnds, DiskChanges, vars, Live, Stopped, Reached
  <2>3. QED
      BY <1>0, <2>1, <2>2, StepUnchanged
<1>4. CASE SetResponse
  <2>1. net.toHarvester # <<>> /\ UNCHANGED <<snd, loop, pm, rcv, conn, stop, crossed, task>>
      BY <1>4 DEF SetResponse
  <2>2. Live' => Live /\ (Reached' => Reached)
      BY <2>1 DEF Live, Stopped, Reached
  <2>3. QED
      BY <1>0, <2>1, <2>2, StepUnchanged
<1>5. QED
    BY <1>1, <1>2, <1>3, <1>4

LEMMA ConnectionStep ==
    ASSUME StepInv, Connections \/ ConnectionCloses
    PROVE  StepOK'
<1>0. Types /\ ConnOK /\ StepOK
    BY DEF StepInv, IInv
<1>1. CASE Connect
  <2>1. Stopped'
      BY <1>0, <1>1 DEF Connect, ConnOK, Stopped
  <2>2. QED
      BY <2>1 DEF StepOK, Live
<1>2. CASE OnDisconnect \/ Joined \/ ConnectionCloses
  <2>1. conn' # "up"
      BY <1>2 DEF OnDisconnect, Joined, ConnectionCloses
  <2>2. QED
      BY <2>1 DEF StepOK, Live
<1>3. CASE Handshake
  <2>1. UNCHANGED <<conn, net, rcv, loop, stop, resp>>
      BY <1>3 DEF Handshake
  <2>2. CASE task = "none" /\ Started(snd)
      BY <2>1, <2>2, StartStep DEF Stopped
  <2>3. CASE UNCHANGED <<task, snd, pm, crossed>>
    <3>1. Live' => Live /\ (Reached' => Reached)
        BY <2>1, <2>3 DEF Live, Stopped, Reached
    <3>2. QED
        BY <1>0, <2>1, <2>3, <3>1, StepUnchanged
  <2>4. QED
      BY <1>3, <2>2, <2>3 DEF Handshake
<1>4. CASE AwaitClosed
  <2>1. UNCHANGED <<conn, net, rcv>> /\ task = "ended"
      BY <1>4 DEF AwaitClosed
  <2>2. CASE Started(Cleared)
      BY <2>1, <2>2, StartStep DEF Stopped
  <2>3. CASE task' = "none"
      BY <2>3 DEF StepOK, Live, Stopped
  <2>4. QED
      BY <1>4, <2>2, <2>3 DEF AwaitClosed
<1>5. QED
    BY <1>1, <1>2, <1>3, <1>4 DEF Connections

LEMMA InitStep == Init => StepInv
<1> SUFFICES ASSUME Init PROVE StepInv
    OBVIOUS
<1>1. /\ pm.pc = "off" /\ pm.plots = {} /\ task = "none" /\ conn = "down" /\ closer = FALSE
    BY DEF Init
<1>2. ThreadOK /\ InitialOK /\ StepOK
    BY <1>1 DEF ThreadOK, InitialOK, StepOK, Stopped, Live
<1>3. QED
    BY <1>2, InitOK DEF StepInv

LEMMA NextStep == StepInv /\ [Next]_vars => StepInv'
<1> SUFFICES ASSUME StepInv, [Next]_vars PROVE StepInv'
    OBVIOUS
<1>1. IInv' /\ ThreadOK' /\ InitialOK'
    BY NextKeeps, ThreadStays, InitialStays DEF StepInv
<1>2. StepOK'
  <2>1. CASE PlotManagerThread
      BY <2>1, BeginStep, StartedStep, DropStep, BatchStep, CallbackStep, DoneStep, EndStep
         DEF PlotManagerThread
  <2>2. CASE SenderTask \/ Timeout \/ SetResponse \/ DiskChanges \/ UNCHANGED vars
      BY <2>2, QuietStep, ResetFillStep, AnsweredStep DEF SenderTask
  <2>3. CASE FarmerHandles
      BY <2>3, FarmerStep
  <2>4. CASE Connections \/ ConnectionCloses
      BY <2>4, ConnectionStep
  <2>5. QED
      BY <2>1, <2>2, <2>3, <2>4 DEF Next
<1>3. QED
    BY <1>1, <1>2 DEF StepInv

LEMMA SettledFollows == StepInv => SettledInStep
<1> SUFFICES ASSUME StepInv, Settled, ~crossed PROVE InStep
    BY DEF SettledInStep
<1>1. Live /\ snd.sync = 0 /\ ~pm.initial
    BY DEF Settled, Live, Stopped
<1>2. QED
    BY <1>1 DEF StepInv, StepOK

(* For all constants: whenever everything is settled the farmer shows      *)
(* exactly the plots and lists of the harvester, unless the sender last    *)
(* reset itself in the middle of a refresh's sync.                         *)
THEOREM SettledTheorem == Spec => []SettledInStep
<1>1. QED
    BY InitStep, NextStep, SettledFollows, PTL DEF Spec
=============================================================================
