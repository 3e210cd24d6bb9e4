----------------------------- MODULE MCDataLayer -----------------------------
(***************************************************************************)
(* Instances for DataLayer: all trees over a few leaves, named by how they *)
(* are written.  The first letter of a leaf is its key.                    *)
(***************************************************************************)
EXTENDS DataLayer

OneLeaf == {"a"}
TwoLeaves == {"a", "b"}
ThreeLeaves == {"a", "b", "c"}
FourLeaves == {"a", "a2", "b", "c"}
KeyOf == [n \in FourLeaves |-> IF n = "a2" THEN "a" ELSE n]

Name(l, r) == "(" \o l \o " " \o r \o ")"

(* A tree is a record of its name, parts and nodes; a step up in height    *)
(* joins two trees that have no key in common.                             *)
LeafTree(n) == [name |-> n, left |-> n, right |-> n, keys |-> {KeyOf[n]}, nodes |-> {n}]
Join(l, r) == [name |-> Name(l.name, r.name), left |-> l.name, right |-> r.name,
               keys |-> l.keys \cup r.keys,
               nodes |-> {Name(l.name, r.name)} \cup l.nodes \cup r.nodes]
Grown(trees) ==
    trees \cup {Join(p[1], p[2]) : p \in {p \in trees \X trees : p[1].keys \cap p[2].keys = {}}}

TwoTrees == Grown({LeafTree(n) : n \in TwoLeaves})
ThreeTrees == Grown(Grown({LeafTree(n) : n \in ThreeLeaves}))
FourTrees == Grown(Grown({LeafTree(n) : n \in FourLeaves}))

Named(trees, n) == CHOOSE t \in trees : t.name = n
Names(trees) == {t.name : t \in trees}
Inner(trees, leaves) == Names(trees) \ leaves

TwoHashes == Names(TwoTrees)
TwoKey == [n \in TwoLeaves |-> KeyOf[n]]
TwoLeft == [n \in Inner(TwoTrees, TwoLeaves) |-> Named(TwoTrees, n).left]
TwoRight == [n \in Inner(TwoTrees, TwoLeaves) |-> Named(TwoTrees, n).right]
TwoNodes == [n \in Names(TwoTrees) |-> Named(TwoTrees, n).nodes]

ThreeHashes == Names(ThreeTrees)
ThreeKey == [n \in ThreeLeaves |-> KeyOf[n]]
ThreeLeft == [n \in Inner(ThreeTrees, ThreeLeaves) |-> Named(ThreeTrees, n).left]
ThreeRight == [n \in Inner(ThreeTrees, ThreeLeaves) |-> Named(ThreeTrees, n).right]
ThreeNodes == [n \in Names(ThreeTrees) |-> Named(ThreeTrees, n).nodes]
=============================================================================
