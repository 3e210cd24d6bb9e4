--------------------------------- MODULE MCSync --------------------------------
(***************************************************************************)
(* The node is on the chain g-a1-a2.  Peer q has the heaviest chain, from  *)
(* b1 to b4, which leaves ours at the first block; the chain of p leaves   *)
(* it at a1.  From a2 the block b2 is found by a backtrack sync, c3 is     *)
(* reached by a batch sync, and b4 needs a long sync.                      *)
(***************************************************************************)
EXTENDS Sync

MCPrev ==
    "g" :> "none" @@ "a1" :> "g" @@ "a2" :> "a1"
    @@ "b1" :> "g" @@ "b2" :> "b1" @@ "b3" :> "b2" @@ "b4" :> "b3"
    @@ "c2" :> "a1" @@ "c3" :> "c2"
MCBlocks == DOMAIN MCPrev
MCHeight ==
    "g" :> 0 @@ "a1" :> 1 @@ "a2" :> 2 @@ "b1" :> 1 @@ "b2" :> 2 @@ "b3" :> 3 @@ "b4" :> 4
    @@ "c2" :> 2 @@ "c3" :> 3
MCWeight ==
    "g" :> 0 @@ "a1" :> 2 @@ "a2" :> 4 @@ "b1" :> 2 @@ "b2" :> 5 @@ "b3" :> 9 @@ "b4" :> 13
    @@ "c2" :> 5 @@ "c3" :> 7

(* q gets to its last block while we sync.                                 *)
MCJourney == "p" :> <<"c3">> @@ "q" :> <<"b2", "b4">>
(* Every peer stays where it is.                                           *)
ShortJourney == "p" :> <<"c2">> @@ "q" :> <<"b4">>

Sym == Permutations(Handlers) \cup Permutations(Syncs)
================================================================================
