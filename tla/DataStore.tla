------------------------------ MODULE DataStore ------------------------------
(***************************************************************************)
(* The tables of the data layer for one store (lotus/data_layer/           *)
(* data_store.py), and what its methods make of them.  A store is a binary *)
(* Merkle tree for every generation; `node' holds the nodes of all of      *)
(* them, `root' a root with its status for every generation, `ancestors'   *)
(* the parent of a node from a generation on, or Empty for a root.         *)
(*                                                                         *)
(* Nodes stand for their hashes.  Methods are operators from a store to a  *)
(* store; where a method may raise there is a predicate that says when it  *)
(* does not.                                                               *)
(***************************************************************************)
EXTENDS Integers, Sequences, FiniteSets, FiniteSetsExt, SequencesExt, TLC

CONSTANTS
    Hashes,      \* the nodes there can be, each known by its hash
    Terminals,   \* the terminal nodes among them: a key and its value
    Key,         \* terminal node -> key
    Left,        \* internal node -> left_hash
    Right,       \* internal node -> right_hash
    Nodes,       \* node -> the nodes of the tree below it, itself included
    Empty,       \* the root of an empty tree: None, or 32 zero bytes
    MaxHeight    \* the greatest height of a tree (62)

Internals == Hashes \ Terminals
Children(n) == IF n \in Terminals THEN {} ELSE {Left[n], Right[n]}

(* Hashes do not collide.  Keys are unique in a tree, so that a node is in *)
(* it once, and any two trees without a common key can be joined.          *)
ASSUME DataStoreAssumption ==
    /\ MaxHeight \in Nat
    /\ Empty \notin Hashes
    /\ Terminals \subseteq Hashes
    /\ DOMAIN Key = Terminals
    /\ Left \in [Internals -> Hashes] /\ Right \in [Internals -> Hashes]
    /\ \A m, n \in Internals : Left[m] = Left[n] /\ Right[m] = Right[n] => m = n
    /\ DOMAIN Nodes = Hashes
    /\ \A h \in Hashes : Nodes[h] \subseteq Hashes /\ IsFiniteSet(Nodes[h])
    /\ \A n \in Terminals : Nodes[n] = {n}
    /\ \A n \in Internals : /\ Nodes[n] = {n} \cup Nodes[Left[n]] \cup Nodes[Right[n]]
                            /\ Nodes[Left[n]] \cap Nodes[Right[n]] = {}
                            /\ n \notin Nodes[Left[n]] \cup Nodes[Right[n]]
    /\ \A h \in Hashes : \A p, q \in Nodes[h] :
         Children(p) \cap Children(q) # {} => p = q
    /\ \A h \in Hashes : \A m, n \in Nodes[h] \cap Terminals : Key[m] = Key[n] => m = n
    /\ \A l, r \in Hashes :
         (\A m \in Nodes[l] \cap Terminals, n \in Nodes[r] \cap Terminals : Key[m] # Key[n])
         => \E n \in Internals : Left[n] = l /\ Right[n] = r

(* internal_hash *)
InternalNode(l, r) == CHOOSE n \in Internals : Left[n] = l /\ Right[n] = r

(* tree_from_root_hash of the queries. *)
Tree(h) == IF h = Empty THEN {} ELSE Nodes[h]

(* The two kinds of nodes in a tree. *)
InternalNodes(h) == Tree(h) \ Terminals
KeysValues(h) == Tree(h) \cap Terminals

NewStore == [node |-> {}, root |-> <<>>, ancestors |-> <<>>]

-----------------------------------------------------------------------------
(* Roots and generations *)

RootsWith(s, status) == {g \in DOMAIN s.root : s.root[g].status = status}

(* get_tree_generation; -1 stands for NULL. *)
TreeGeneration(s) == Max(RootsWith(s, "COMMITTED") \cup {-1})
TreeRoot(s) == s.root[TreeGeneration(s)].hash
TreeIdExists(s) == TreeGeneration(s) >= 0

(* get_pending_root finds at most one. *)
PendingRoots(s) == RootsWith(s, "PENDING")

(* Rows are put into a table, in place of those that have their keys. *)
Inserted(rows, table) ==
    [k \in DOMAIN rows \cup DOMAIN table |-> IF k \in DOMAIN rows THEN rows[k] ELSE table[k]]

AddAncestor(s, hash, ancestor, generation) ==
    [s EXCEPT !.ancestors = Inserted([k \in {<<hash, generation>>} |-> ancestor], s.ancestors)]

(* _insert_root fails on the keys of the tables and on the references. *)
RootFits(s, hash, status) ==
    LET g == TreeGeneration(s) + 1
    IN  /\ g \notin DOMAIN s.root
        /\ hash \in s.node \cup {Empty}
        /\ status = "COMMITTED" => <<hash, g>> \notin DOMAIN s.ancestors

InsertRoot(s, hash, status) ==
    LET g == TreeGeneration(s) + 1
        t == [s EXCEPT !.root = Inserted([i \in {g} |-> [hash |-> hash, status |-> status]], s.root)]
    IN  IF hash # Empty /\ status = "COMMITTED"
        THEN AddAncestor(t, hash, Empty, g)
        ELSE t

ClearPendingRoots(s) ==
    [s EXCEPT !.root = [g \in DOMAIN s.root \ PendingRoots(s) |-> s.root[g]]]

RollbackToGeneration(s, generation) ==
    [s EXCEPT !.ancestors = [k \in {k \in DOMAIN s.ancestors : k[2] <= generation}
                             |-> s.ancestors[k]],
              !.root = [g \in {g \in DOMAIN s.root : g <= generation} |-> s.root[g]]]

-----------------------------------------------------------------------------
(* The ancestors table *)

(* _get_one_ancestor: of the rows up to the generation, the last one. *)
OneAncestor(s, n, generation) ==
    LET rows == {k \in DOMAIN s.ancestors : k[1] = n /\ k[2] <= generation}
        last == CHOOSE k \in rows : \A other \in rows : other[2] <= k[2]
    IN  IF rows = {} THEN Empty ELSE s.ancestors[last]

(* get_ancestors_optimized, from the parent of n up.  No tree is higher    *)
(* than MaxHeight.                                                         *)
Ancestors(s, n) ==
    LET up[i \in 0..MaxHeight + 1] ==
            IF i = 0 THEN n
            ELSE IF up[i - 1] = Empty THEN Empty
            ELSE OneAncestor(s, up[i - 1], TreeGeneration(s))
        height == Max({i \in 0..MaxHeight + 1 : up[i] # Empty})
    IN  IF TreeRoot(s) = Empty THEN <<>> ELSE [i \in 1..height |-> up[i]]

(* Otherwise it raises: the list does not end at the root. *)
ReachesRoot(s, ancestors) ==
    ancestors # <<>> => Last(ancestors) = TreeRoot(s)

(* _insert_ancestor_table for the children of some internal nodes. *)
AncestorRows(made, generation) ==
    [k \in (UNION {Children(p) : p \in made}) \X {generation} |->
        CHOOSE p \in made : k[1] \in Children(p)]

InsertAncestorRows(s, made, generation) ==
    [s EXCEPT !.ancestors = Inserted(AncestorRows(made, generation), s.ancestors)]

(* build_ancestor_table_for_latest_root: a node of the tree before has its *)
(* rows.                                                                   *)
NewInternalNodes(s) ==
    LET previous == Max({TreeGeneration(s) - 1, 0})
    IN  InternalNodes(TreeRoot(s)) \ InternalNodes(s.root[previous].hash)

BuildAncestorTable(s) ==
    InsertAncestorRows(s, NewInternalNodes(s), TreeGeneration(s))

(* insert_root_with_ancestor_table *)
InsertRootWithAncestors(s, hash, status) ==
    LET t == InsertRoot(s, hash, status)
    IN  IF status = "COMMITTED" THEN BuildAncestorTable(t) ELSE t

(* change_root_status(pending, COMMITTED) *)
CommitRoot(s, generation) ==
    LET hash == s.root[generation].hash
        t == [s EXCEPT !.root[generation].status = "COMMITTED"]
    IN  IF hash = Empty THEN t ELSE AddAncestor(t, hash, Empty, generation)

(* shift_root_generations: the same root for the next generations. *)
ShiftFits(s, size) ==
    \A i \in 1..size : TreeGeneration(s) + i \notin DOMAIN s.root

ShiftRoot(s, size) ==
    LET hash == TreeRoot(s)
        new == TreeGeneration(s) + 1..TreeGeneration(s) + size
        rows == [g \in new |-> [hash |-> hash, status |-> "COMMITTED"]]
        t == [s EXCEPT !.root = Inserted(rows, s.root)]
    IN  IF hash = Empty THEN t
        ELSE [t EXCEPT !.ancestors = Inserted([k \in {hash} \X new |-> Empty], s.ancestors)]

-----------------------------------------------------------------------------
(* Changes of one key, each of which makes a generation inside a batch *)

(* The nodes on a path are replaced from below: `node' takes the place of  *)
(* `old' under the first of the ancestors, and so on.                      *)
Replaced(node, old, ancestors) ==
    LET below(i) == IF i = 1 THEN old ELSE ancestors[i - 1]
        new[i \in 0..Len(ancestors)] ==
            IF i = 0 THEN node
            ELSE IF Left[ancestors[i]] = below(i)
            THEN InternalNode(new[i - 1], Right[ancestors[i]])
            ELSE InternalNode(Left[ancestors[i]], new[i - 1])
    IN  [node |-> new[Len(ancestors)], made |-> {new[i] : i \in 1..Len(ancestors)}]

(* The end of insert and delete: the nodes, the root, then their rows. *)
WithNewRoot(s, hash, made) ==
    LET t == InsertRoot([s EXCEPT !.node = @ \cup made], hash, "COMMITTED")
    IN  InsertAncestorRows(t, made, TreeGeneration(t))

(* insert does not raise: the reference is a terminal node, and its        *)
(* ancestors lead to the root and are not too many.                        *)
InsertFits(s, reference) ==
    LET ancestors == Ancestors(s, reference)
    IN  /\ reference \in s.node \cap Terminals
        /\ ReachesRoot(s, ancestors)
        /\ Len(ancestors) < MaxHeight

Insert(s, leaf, reference, side) ==
    LET pair == IF side = "LEFT" THEN InternalNode(leaf, reference)
                ELSE InternalNode(reference, leaf)
        up == Replaced(pair, reference, Ancestors(s, reference))
    IN  WithNewRoot([s EXCEPT !.node = @ \cup {leaf}], up.node, up.made \cup {pair})

InsertFirst(s, leaf) ==
    WithNewRoot([s EXCEPT !.node = @ \cup {leaf}], leaf, {})

(* A mutant of Delete: the new root is inserted without the rows of the    *)
(* rebuilt path.                                                           *)
DeleteWithoutRows(s, leaf) ==
    LET ancestors == Ancestors(s, leaf)
        parent == Head(ancestors)
        other == IF Left[parent] = leaf THEN Right[parent] ELSE Left[parent]
        up == Replaced(other, parent, Tail(ancestors))
    IN  IF ancestors = <<>> THEN WithNewRoot(s, Empty, {})
        ELSE WithNewRoot([s EXCEPT !.node = @ \cup up.made], up.node, {})

(* A mutant of Delete: the leaf is taken to be on the left. *)
DeleteLeft(s, leaf) ==
    LET ancestors == Ancestors(s, leaf)
        up == Replaced(Right[Head(ancestors)], Head(ancestors), Tail(ancestors))
    IN  IF ancestors = <<>> THEN WithNewRoot(s, Empty, {})
        ELSE WithNewRoot(s, up.node, up.made)

Delete(s, leaf) ==
    LET ancestors == Ancestors(s, leaf)
        parent == Head(ancestors)
        other == IF Left[parent] = leaf THEN Right[parent] ELSE Left[parent]
        up == Replaced(other, parent, Tail(ancestors))
    IN  IF ancestors = <<>> THEN WithNewRoot(s, Empty, {})
        ELSE WithNewRoot(s, up.node, up.made)

-----------------------------------------------------------------------------
(* Files *)

(* get_first_generation; it raises if there is no row. *)
FirstGeneration(s, n) ==
    Min({g \in DOMAIN s.root : <<n, g>> \in DOMAIN s.ancestors} \cup {TreeGeneration(s) + 1})

(* write_tree_to_file with deltas_only: it does not go below a node that   *)
(* an earlier generation had.                                              *)
DeltaNodes(s, generation) ==
    LET tree == Tree(s.root[generation].hash)
        known == {n \in tree : FirstGeneration(s, n) # generation}
    IN  tree \ UNION {Tree(n) : n \in known}

(* A mutant of SeenBefore: without max_generation. *)
SeenAnywhere(s, generation) ==
    \E g \in DOMAIN s.root \ {generation} : s.root[g].hash = s.root[generation].hash

(* get_last_tree_root_by_hash before the generation. *)
SeenBefore(s, generation) ==
    \E g \in DOMAIN s.root : g < generation /\ s.root[g].hash = s.root[generation].hash

(* What write_files_for_root puts in the delta file of a generation. *)
DeltaFile(s, generation) ==
    IF SeenBefore(s, generation) THEN {} ELSE DeltaNodes(s, generation)

(* insert_into_data_store_from_file: the nodes of the file come children   *)
(* first, a node whose children are not there is refused, and so is the    *)
(* root in the end.                                                        *)
FileFits(s, hash, content) ==
    /\ \A n \in content : Children(n) \subseteq s.node \cup content
    /\ RootFits([s EXCEPT !.node = @ \cup content], hash, "COMMITTED")

InsertFromFile(s, hash, content) ==
    InsertRootWithAncestors([s EXCEPT !.node = @ \cup content], hash, "COMMITTED")

=============================================================================
