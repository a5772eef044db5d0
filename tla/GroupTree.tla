----------------------------- MODULE GroupTree -----------------------------
(***************************************************************************)
(* How an old-style group is laid out in a file image: a local heap with   *)
(* the names, leaf nodes (SNOD) with the symbol table entries in the order *)
(* of their names, and a B-tree over the leaves (format/writer.rs), and    *)
(* how the reader collects the entries from it (format/reader.rs).         *)
(*                                                                         *)
(* An image is a sequence of blocks, the address of a block is its index.  *)
(* Strings are numbers, compared as the code compares their bytes; zero is *)
(* the empty string.  A heap is the sequence of its strings, the offset of *)
(* a string its index; offset zero is the empty string.                    *)
(***************************************************************************)
EXTENDS Layout, Integers, FiniteSets, SequencesExt

CONSTANTS
    LeafCap,     \* entries of a leaf (2 * GROUP_LEAF_K)
    NodeCap      \* children of a tree node (2 * GROUP_INTERNAL_K)

ASSUME CapAssumption == LeafCap \in Nat \ {0} /\ NodeCap \in Nat \ {0, 1}

Undef == 0
String == Nat
EmptyString == 0

-----------------------------------------------------------------------------
(* The local heap *)

HeapAdd(heap, string) == IF Contains(heap, string) THEN heap ELSE Append(heap, string)

Offset(heap, string) == SelectInSeq(heap, LAMBDA s : s = string)

StringAt(heap, offset) == IF offset = 0 THEN EmptyString ELSE heap[offset]

-----------------------------------------------------------------------------
(* Writing.  A reference to what a level of the tree has written: its      *)
(* address, the largest name under it, and the largest name before it.     *)

WithSnods(image, entries) ==
    image \o [i \in DOMAIN Chunks(entries, LeafCap) |->
                 [type |-> "SNOD", entries |-> Chunks(entries, LeafCap)[i]]]

(* A faulty SnodRefs: the key of a leaf is its first name, not its last.   *)
SnodRefsFirstName(image, entries) ==
    LET leaves == Chunks(entries, LeafCap)
    IN  [i \in DOMAIN leaves |->
            [first |-> IF i = 1 THEN 0 ELSE Head(leaves[i - 1]).nameOff,
             addr |-> Len(image) + i,
             last |-> Head(leaves[i]).nameOff]]

SnodRefs(image, entries) ==
    LET leaves == Chunks(entries, LeafCap)
    IN  [i \in DOMAIN leaves |->
            [first |-> IF i = 1 THEN 0 ELSE Last(leaves[i - 1]).nameOff,
             addr |-> Len(image) + i,
             last |-> Last(leaves[i]).nameOff]]

(* The groups of children of the next level; an empty group has one empty  *)
(* node.                                                                   *)
Siblings(nodes) == IF nodes = <<>> THEN << <<>> >> ELSE Chunks(nodes, NodeCap)

FirstKey(children) == IF children = <<>> THEN 0 ELSE Head(children).first

(* A faulty WithLevel: every node but the first starts at the empty string.*)
WithLevelFromZero(image, level, nodes) ==
    LET groups == Siblings(nodes)
        at(i) == Len(image) + i
    IN  image \o [i \in DOMAIN groups |->
            [type |-> "TREE", level |-> level,
             left |-> IF i = 1 THEN Undef ELSE at(i - 1),
             right |-> IF i = Len(groups) THEN Undef ELSE at(i + 1),
             keys |-> <<0>> \o [j \in DOMAIN groups[i] |-> groups[i][j].last],
             children |-> [j \in DOMAIN groups[i] |-> groups[i][j].addr]]]

WithLevel(image, level, nodes) ==
    LET groups == Siblings(nodes)
        at(i) == Len(image) + i
    IN  image \o [i \in DOMAIN groups |->
            [type |-> "TREE", level |-> level,
             left |-> IF i = 1 THEN Undef ELSE at(i - 1),
             right |-> IF i = Len(groups) THEN Undef ELSE at(i + 1),
             keys |-> <<FirstKey(groups[i])>>
                      \o [j \in DOMAIN groups[i] |-> groups[i][j].last],
             children |-> [j \in DOMAIN groups[i] |-> groups[i][j].addr]]]

LevelRefs(image, nodes) ==
    LET groups == Siblings(nodes)
    IN  [i \in DOMAIN groups |->
            [first |-> FirstKey(groups[i]),
             addr |-> Len(image) + i,
             last |-> IF groups[i] = <<>> THEN 0 ELSE Last(groups[i]).last]]

-----------------------------------------------------------------------------
(* Reading: the children of the nodes of a level, left to right, down to   *)
(* the leaves.                                                             *)

ChildrenOf(image, addrs) ==
    FlattenSeq([i \in DOMAIN addrs |-> image[addrs[i]].children])

EntriesUnder(image, tree) ==
    LET Level[n \in 0 .. image[tree].level] ==
            IF n = 0 THEN <<tree>> ELSE ChildrenOf(image, Level[n - 1])
        snods == ChildrenOf(image, Level[image[tree].level])
    IN  FlattenSeq([i \in DOMAIN snods |-> image[snods[i]].entries])

(* What a reader that trusts the keys finds under a name: in every node it *)
(* enters the child whose key interval holds the name.  The library's own  *)
(* reader walks the whole tree; libhdf5 searches.                          *)
Searched(image, tree, heap, name) ==
    LET Step(addrs) ==
            UNION {{image[a].children[i] : i \in
                       {j \in DOMAIN image[a].children :
                            /\ StringAt(heap, image[a].keys[j]) < name
                            /\ name <= StringAt(heap, image[a].keys[j + 1])}} : a \in addrs}
        Level[n \in 0 .. image[tree].level] ==
            IF n = 0 THEN {tree} ELSE Step(Level[n - 1])
    IN  {e \in UNION {Range(image[s].entries) : s \in Step(Level[image[tree].level])} :
             StringAt(heap, e.nameOff) = name}
=============================================================================
