------------------------------ MODULE MCBlockchain -----------------------------
(***************************************************************************)
(* A tree of blocks for Blockchain with                                    *)
(*   - two first blocks (g, k), so that a reorganisation can replace the   *)
(*     whole chain;                                                        *)
(*   - blocks a2 and b3 on two forks that include the same transaction     *)
(*     (spend rg, create c1) at different heights;                         *)
(*   - s2, heavier than longer chains;                                     *)
(*   - d3, which spends rg again on the chain that spent it;               *)
(*   - e4, whose time lock is satisfied for c1 on the chain of a2 and not  *)
(*     on its own; a4, which spends the same coin validly;                 *)
(*   - f4, which spends the reward r1 that only its own fork spends once;  *)
(*   - blocks without transactions (a3, b2), rewards claimed later.        *)
(***************************************************************************)
EXTENDS Blockchain, TLC

MCBlocks == {"g", "k", "a1", "k1", "a2", "b2", "s2", "a3", "b3", "d3", "a4", "e4", "f4"}

Parent == "a1" :> "g" @@ "k1" :> "k" @@ "a2" :> "a1" @@ "b2" :> "a1" @@ "s2" :> "a1"
          @@ "a3" :> "a2" @@ "b3" :> "b2" @@ "d3" :> "a2" @@ "a4" :> "a3"
          @@ "e4" :> "b3" @@ "f4" :> "b3"

RECURSIVE MCHeightOf(_)
MCHeightOf(b) == IF b \in DOMAIN Parent THEN 1 + MCHeightOf(Parent[b]) ELSE 0

RECURSIVE AncestorAt(_, _)
AncestorAt(b, i) == IF MCHeightOf(b) = i THEN b ELSE AncestorAt(Parent[b], i)

MCHeight == [b \in MCBlocks |-> MCHeightOf(b)]
MCChain == [b \in MCBlocks |-> [i \in 0..MCHeightOf(b) |-> AncestorAt(b, i)]]

MCWeight == "g" :> 1 @@ "k" :> 1 @@ "a1" :> 3 @@ "k1" :> 4 @@ "a2" :> 5 @@ "b2" :> 5
            @@ "s2" :> 8 @@ "a3" :> 6 @@ "b3" :> 7 @@ "d3" :> 6 @@ "a4" :> 9
            @@ "e4" :> 10 @@ "f4" :> 10

MCIsTx == [b \in MCBlocks |-> b \notin {"a3", "b2"}]

MCCoins == {"rg", "rk", "r1", "r2", "r3", "r4", "c1", "c2"}

(* The reward of a block depends on its height and its farmer.             *)
MCReward == [b \in MCBlocks |->
    CASE b = "g" -> "rg" [] b = "k" -> "rk" [] MCHeightOf(b) = 1 -> "r1"
      [] MCHeightOf(b) = 2 -> "r2" [] MCHeightOf(b) = 3 -> "r3" [] OTHER -> "r4"]

MCClaims == "g" :> {} @@ "k" :> {} @@ "a1" :> {"rg"} @@ "k1" :> {"rk"} @@ "a2" :> {"r1"}
            @@ "b2" :> {} @@ "s2" :> {"r1"} @@ "a3" :> {} @@ "b3" :> {"r1"}
            @@ "d3" :> {"r2"} @@ "a4" :> {"r2"} @@ "e4" :> {"r2", "r3"} @@ "f4" :> {"r2", "r3"}

MCRemovals == [b \in MCBlocks |->
    CASE b \in {"a2", "b3", "d3"} -> {"rg"} [] b \in {"a4", "e4"} -> {"c1"}
      [] b = "f4" -> {"r1", "c2"} [] OTHER -> {}]

MCAdditions == [b \in MCBlocks |->
    CASE b \in {"a2", "b3"} -> {"c1"} [] b = "f4" -> {"c2"} [] OTHER -> {}]

MCParentCoin == [c \in MCCoins |-> CASE c = "c1" -> "rg" [] c = "c2" -> "r1" [] OTHER -> "none"]

MCHeightLock == [b \in MCBlocks |->
    CASE b = "e4" -> "c1" :> 1 [] b = "a4" -> "c1" :> 0 [] OTHER -> <<>>]
================================================================================
