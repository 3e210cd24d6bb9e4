---------------------------- MODULE MCBlockHeightMap ---------------------------
(***************************************************************************)
(* Two chains that part after the first block, a and b, and one, c, with   *)
(* another first block.  The chains include a summary (s1, s2) at          *)
(* different heights; b4 and c3 are as heavy as, or heavier than, longer   *)
(* chains.                                                                 *)
(***************************************************************************)
EXTENDS BlockHeightMap, TLC

MCBlocks == {"g", "a1", "a2", "a3", "a4", "a5", "b1", "b2", "b3", "b4", "b5", "h", "c1", "c2", "c3"}

Parent == "a1" :> "g" @@ "a2" :> "a1" @@ "a3" :> "a2" @@ "a4" :> "a3" @@ "a5" :> "a4"
          @@ "b1" :> "g" @@ "b2" :> "b1" @@ "b3" :> "b2" @@ "b4" :> "b3" @@ "b5" :> "b4"
          @@ "c1" :> "h" @@ "c2" :> "c1" @@ "c3" :> "c2"

RECURSIVE MCHeightOf(_)
MCHeightOf(b) == IF b \in DOMAIN Parent THEN 1 + MCHeightOf(Parent[b]) ELSE 0

RECURSIVE AncestorAt(_, _)
AncestorAt(b, i) == IF MCHeightOf(b) = i THEN b ELSE AncestorAt(Parent[b], i)

MCHeight == [b \in MCBlocks |-> MCHeightOf(b)]
MCChain == [b \in MCBlocks |-> [i \in 0..MCHeightOf(b) |-> AncestorAt(b, i)]]

MCWeight == "g" :> 1 @@ "h" :> 1 @@ "a1" :> 2 @@ "b1" :> 2 @@ "c1" :> 3 @@ "a2" :> 4
            @@ "b2" :> 5 @@ "a3" :> 6 @@ "c2" :> 6 @@ "b3" :> 7 @@ "a4" :> 8 @@ "b4" :> 9
            @@ "a5" :> 9 @@ "c3" :> 10 @@ "b5" :> 11

MCSummary == [b \in MCBlocks |->
    CASE b \in {"a1", "b1"} -> "s1" [] b \in {"a3", "b4"} -> "s2" [] b \in {"c2", "b5"} -> "s3"
      [] OTHER -> "none"]
================================================================================
