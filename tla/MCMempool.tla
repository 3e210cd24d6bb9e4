------------------------------- MODULE MCMempool -------------------------------
(***************************************************************************)
(* A chain with two branches from g: a1, a2 (transaction blocks), and b1   *)
(* with b2, which has no transactions and outweighs a1.  d1 is a heavy     *)
(* first block on a third branch, at a lower height and without a          *)
(* generator.                                                              *)
(* t2 may replace t1, and t1 waits if t2 came first; t3 spends a coin that *)
(* only b1 creates, and takes all the room; t4 and t5 wait for height 1    *)
(* with one coin in common, and the second pays more; t5 spends one of the *)
(* two coins of t2.                                                        *)
(***************************************************************************)
EXTENDS Mempool, TLC

MCBlocks == {"g", "a1", "a2", "b1", "b2", "d1"}
MCPrev == "g" :> "none" @@ "a1" :> "g" @@ "a2" :> "a1" @@ "b1" :> "g" @@ "b2" :> "b1" @@ "d1" :> "g"

B(height, weight, isTx, time, removals, additions) ==
    [height |-> height, weight |-> weight, isTx |-> isTx, hasGenerator |-> removals # {},
     time |-> time, removals |-> removals, additions |-> additions]

MCBlock ==
    "g" :> B(0, 0, TRUE, 0, {}, {"c1", "c2", "c3"})
    @@ "a1" :> B(1, 1, TRUE, 1, {"c2"}, {"c4"})
    @@ "a2" :> B(2, 3, TRUE, 2, {"c4"}, {})
    @@ "b1" :> B(1, 1, TRUE, 1, {"c2"}, {"c5"})
    @@ "b2" :> B(2, 2, FALSE, 1, {}, {})
    @@ "d1" :> B(1, 4, TRUE, 1, {}, {})

S(coin, rel, secs) == [coin |-> coin, heightRelative |-> rel, secondsRelative |-> secs]
T(spends, additions, fee, cost, height, secs) ==
    [spends |-> spends, additions |-> additions, fee |-> fee, cost |-> cost,
     heightAbsolute |-> height, secondsAbsolute |-> secs]

MCTx ==
    "t1" :> T(<<S("c1", {}, 0)>>, {}, 2, 1, 0, 0)
    @@ "t2" :> T(<<S("c1", {}, 0), S("c2", {}, 0)>>, {}, 6, 2, 0, 0)
    @@ "t3" :> T(<<S("c5", {}, 0), S("e", {}, 0)>>, {"e"}, 9, 3, 0, 0)
    @@ "t4" :> T(<<S("c3", {1}, 0)>>, {}, 1, 1, 0, 0)
    @@ "t5" :> T(<<S("c3", {}, 1), S("c2", {1}, 0)>>, {}, 9, 2, 1, 1)

MCTxs == DOMAIN MCTx
================================================================================
