------------------------------ MODULE ChunkTree ------------------------------
(***************************************************************************)
(* Chunked storage: a row-major buffer is cut into chunks of one shape,    *)
(* stored one after the other and found by a B-tree over their offsets     *)
(* (Writer::write_chunks), or by one of the newer indexes that other       *)
(* programs write (Parser::read_chunked); the reader collects the chunks   *)
(* and scatters them into a buffer.                                        *)
(*                                                                         *)
(* An image is a sequence of blocks, the address of a block is its index.  *)
(***************************************************************************)
EXTENDS Layout, ExtensibleArray, Integers, FiniteSets, SequencesExt

CONSTANTS
    TreeCap,     \* chunks of a leaf, children of a node (2 * CHUNK_K)
    PageSize     \* entries of a page of a fixed array

ASSUME ChunkTreeAssumption == TreeCap \in Nat \ {0, 1} /\ PageSize \in Nat \ {0}

Undef == 0

CeilDiv(a, b) == (a + b - 1) \div b

-----------------------------------------------------------------------------
(* The offsets of the chunks, row-major: at least one along each axis.     *)

ChunkCounts(dims, chunk) ==
    [i \in DOMAIN dims |-> IF dims[i] = 0 THEN 1 ELSE CeilDiv(dims[i], chunk[i])]

ChunkGrid(dims, chunk) ==
    LET counts == ChunkCounts(dims, chunk)
    IN  [n \in 1 .. Numel(counts) |->
            [i \in DOMAIN dims |-> CoordAt(counts, n)[i] * chunk[i]]]

Moved(offset, coord) == [i \in DOMAIN offset |-> offset[i] + coord[i]]

(* A faulty GatherChunk: the strides of the chunk are used in the buffer.  *)
GatherChunkChunkStrides(data, dims, chunk, offset, zero) ==
    [k \in 1 .. Numel(chunk) |->
        LET c == Moved(offset, CoordAt(chunk, k))
        IN  IF Inside(dims, c) THEN data[Position(chunk, CoordAt(chunk, k))] ELSE zero]

(* gather_chunk: what lies outside the dataset is zero.                    *)
GatherChunk(data, dims, chunk, offset, zero) ==
    [k \in 1 .. Numel(chunk) |->
        LET c == Moved(offset, CoordAt(chunk, k))
        IN  IF Inside(dims, c) THEN data[Position(dims, c)] ELSE zero]

(* scatter_chunk: the part of a chunk that is inside the dataset.          *)
Within(offset, coord) == [i \in DOMAIN offset |-> coord[i] - offset[i]]

Covers(chunk, offset, coord) ==
    \A i \in DOMAIN offset : Within(offset, coord)[i] \in 0 .. chunk[i] - 1

(* materialize_chunks: one after the other, a later one over an earlier,   *)
(* over zeros.                                                             *)
Scattered(image, chunks, dims, chunk, zero) ==
    [k \in 1 .. Numel(dims) |->
        LET coord == CoordAt(dims, k)
            covering == {n \in DOMAIN chunks : Covers(chunk, chunks[n].offset, coord)}
            last == chunks[Max(covering)]
        IN  IF covering = {} THEN zero
            ELSE image[last.addr].data[Position(chunk, Within(last.offset, coord))]]

-----------------------------------------------------------------------------
(* The B-tree.  A reference to a node: its address, its first and last key.*)

(* The key after all others: one chunk further along the first axis.       *)
EndKey(offsets, chunk) == [Last(offsets) EXCEPT ![1] = @ + chunk[1]]

(* A faulty LeafRefs: the last key of a leaf is the offset of its last chunk.*)
LeafRefsOwnLast(image, offsets, chunk) ==
    LET leaves == Chunks(offsets, TreeCap)
    IN  [i \in DOMAIN leaves |->
            [first |-> Head(leaves[i]), addr |-> Len(image) + i, last |-> Last(leaves[i])]]

(* The last key of a leaf is the first one of the next leaf.               *)
LeafRefs(image, offsets, chunk) ==
    LET leaves == Chunks(offsets, TreeCap)
    IN  [i \in DOMAIN leaves |->
            [first |-> Head(leaves[i]), addr |-> Len(image) + i,
             last |-> IF i < Len(leaves) THEN Head(leaves[i + 1]) ELSE EndKey(offsets, chunk)]]

(* patch_siblings                                                          *)
ChunkNode(level, i, n, at, keys, children) ==
    [type |-> "TREE", level |-> level,
     left |-> IF i = 1 THEN Undef ELSE at + i - 1,
     right |-> IF i = n THEN Undef ELSE at + i + 1,
     keys |-> keys, children |-> children]

WithLeaves(image, offsets, addrs, chunk) ==
    LET leaves == Chunks(offsets, TreeCap)
        refs == LeafRefs(image, offsets, chunk)
    IN  image \o [i \in DOMAIN leaves |->
            ChunkNode(0, i, Len(leaves), Len(image), Append(leaves[i], refs[i].last),
                      Chunks(addrs, TreeCap)[i])]

ParentRefs(image, nodes) ==
    LET groups == Chunks(nodes, TreeCap)
    IN  [i \in DOMAIN groups |->
            [first |-> Head(groups[i]).first, addr |-> Len(image) + i,
             last |-> Last(groups[i]).last]]

WithParents(image, level, nodes) ==
    LET groups == Chunks(nodes, TreeCap)
    IN  image \o [i \in DOMAIN groups |->
            ChunkNode(level, i, Len(groups), Len(image),
                      Append([j \in DOMAIN groups[i] |-> groups[i][j].first], Last(groups[i]).last),
                      [j \in DOMAIN groups[i] |-> groups[i][j].addr])]

(* Levels are added until one node is left.  A level has at most half the  *)
(* nodes of the one below.                                                 *)
Grown(image, nodes) ==
    LET Up[n \in 0 .. Len(nodes)] ==
            IF n = 0 THEN [image |-> image, nodes |-> nodes, level |-> 0]
            ELSE LET s == Up[n - 1]
                 IN  IF Len(s.nodes) = 1 THEN s
                     ELSE [image |-> WithParents(s.image, s.level + 1, s.nodes),
                           nodes |-> ParentRefs(s.image, s.nodes),
                           level |-> s.level + 1]
    IN  Up[Len(nodes)]

(* Writer::write_chunks: the chunks, the leaves, the levels.  The result   *)
(* has the image and the address of the top.                               *)
WithChunks(image, data, dims, chunk, zero) ==
    LET offsets == ChunkGrid(dims, chunk)
        stored == image \o [n \in DOMAIN offsets |->
                      [type |-> "CHUNK", data |-> GatherChunk(data, dims, chunk, offsets[n], zero)]]
        addrs == [n \in DOMAIN offsets |-> Len(image) + n]
        grown == Grown(WithLeaves(stored, offsets, addrs, chunk), LeafRefs(stored, offsets, chunk))
    IN  [image |-> grown.image, top |-> Head(grown.nodes).addr]

-----------------------------------------------------------------------------
(* Reading: the chunks an index lists, each with its offset and address.   *)

ChildNodes(image, addrs) ==
    FlattenSeq([i \in DOMAIN addrs |-> image[addrs[i]].children])

(* walk_chunk_btree *)
ListedByTree(image, top) ==
    LET Level[n \in 0 .. image[top].level] ==
            IF n = 0 THEN <<top>> ELSE ChildNodes(image, Level[n - 1])
        Entries(node) == [i \in DOMAIN node.children |->
                             [offset |-> node.keys[i], addr |-> node.children[i]]]
        leaves == Level[image[top].level]
    IN  FlattenSeq([i \in DOMAIN leaves |-> Entries(image[leaves[i]])])

(* Arrays have one entry for each chunk of the grid, allocated or not.     *)
ListedByGrid(dims, chunk, entries) ==
    LET grid == ChunkGrid(dims, chunk)
        all == [n \in 1 .. Len(grid) |-> [offset |-> grid[n], addr |-> entries[n]]]
    IN  SelectSeq(all, LAMBDA c : c.addr # Undef)

(* A faulty FixedArrayEntries: the checksum after a page is not skipped.   *)
FixedArrayEntriesUnchecked(pages) == FlattenSeq(pages)

(* read_fixed_array: entries lie in one block, or, if they are more than   *)
(* a page, in pages with a checksum after each.                            *)
FixedArrayEntries(pages) ==
    IF Len(pages) = 1 THEN pages[1]
    ELSE FlattenSeq([p \in DOMAIN pages |-> SubSeq(pages[p], 1, Len(pages[p]) - 1)])

(* read_chunked: what each index lists.                                    *)
Listed(image, index, dims, chunk) ==
    CASE index.kind = "BtreeV1"    -> ListedByTree(image, index.addr)
      [] index.kind = "Single"     -> <<[offset |-> [i \in DOMAIN dims |-> 0], addr |-> index.addr]>>
      [] index.kind = "Implicit"   ->
            ListedByGrid(dims, chunk, [n \in DOMAIN ChunkGrid(dims, chunk) |-> index.addr + n - 1])
      [] index.kind = "FixedArray" -> ListedByGrid(dims, chunk, FixedArrayEntries(image[index.addr].pages))
      [] index.kind = "ExtArray"   ->
            ListedByGrid(dims, chunk, [n \in DOMAIN ChunkGrid(dims, chunk) |->
                                          Element(image, image[index.addr].cells, n - 1)])
      [] index.kind = "BtreeV2"    ->
            LET records == SelectSeq(image[index.addr].records, LAMBDA r : r.addr # Undef)
            IN  [n \in DOMAIN records |->
                    [offset |-> [i \in DOMAIN dims |-> records[n].scaled[i] * chunk[i]],
                     addr |-> records[n].addr]]

-----------------------------------------------------------------------------
(* What a reader that trusts the keys finds: the child whose key interval  *)
(* holds the offset, in the order of H5VM_vector_cmp.                      *)

Before(a, b) ==
    \E i \in DOMAIN a : a[i] < b[i] /\ \A j \in 1 .. i - 1 : a[j] = b[j]

ChunksFound(image, top, offset) ==
    LET Step(addrs) ==
            UNION {{image[a].children[i] : i \in
                       {j \in DOMAIN image[a].children :
                            /\ ~Before(offset, image[a].keys[j])
                            /\ Before(offset, image[a].keys[j + 1])}} : a \in addrs}
        Level[n \in 0 .. image[top].level] ==
            IF n = 0 THEN {top} ELSE Step(Level[n - 1])
    IN  Step(Level[image[top].level])
=============================================================================
