---------------------------- MODULE DenseStorage ----------------------------
(***************************************************************************)
(* Where a header keeps what is too much for its messages: a fractal heap  *)
(* with the objects and a version 2 B-tree over their heap ids.  The       *)
(* writer's side (format/writer.rs: write_fractal_heap, write_v2btree_leaf)*)
(* makes one kind of them, the reader's side (format/v2.rs) takes what     *)
(* other programs make: nested indirect blocks, filtered blocks, tiny and  *)
(* huge objects, trees of several levels.                                  *)
(*                                                                         *)
(* An object of a heap is a record with a size.  Addresses are block       *)
(* numbers, as in GroupTree; offsets in a heap count units of size, and    *)
(* run through the blocks of the doubling table, their prefixes included.  *)
(***************************************************************************)
EXTENDS GroupTree, FiniteSetsExt, Strict

CONSTANTS
    HeapWidth,     \* blocks of a row of the table (4)
    HeapStart,     \* size of the blocks of the first two rows (1024)
    HeapMaxDirect, \* size of the largest direct blocks (65536)
    BlockPrefix,   \* what a block holds before its objects (16 to 18)
    MaxManaged     \* size of the largest objects in blocks (4096)

PowersOfTwo == {2 ^ k : k \in 0 .. 16}

ASSUME TableAssumption ==
    /\ HeapWidth \in PowersOfTwo
    /\ HeapStart \in PowersOfTwo /\ HeapMaxDirect \in PowersOfTwo
    /\ BlockPrefix < HeapStart /\ MaxManaged + BlockPrefix <= HeapMaxDirect

Log2Floor(n) == CHOOSE k \in 0 .. 16 : 2 ^ k <= n /\ n < 2 ^ (k + 1)

-----------------------------------------------------------------------------
(* The doubling table: rows of width blocks.  The blocks of the first two  *)
(* rows have the starting size, those of every other row twice the size of *)
(* the row before.                                                         *)

RowSize(t, row) == IF row = 0 THEN t.start ELSE t.start * 2 ^ (row - 1)

(* A faulty RowColOffset: every row doubles.                               *)
RowColOffsetDoubling(t, row, col) ==
    MapThenSumSet(LAMBDA r : t.start * 2 ^ r * t.width, 0 .. row - 1) + RowSize(t, row) * col

RowColOffset(t, row, col) ==
    MapThenSumSet(LAMBDA r : RowSize(t, r) * t.width, 0 .. row - 1) + RowSize(t, row) * col

(* H5HF__dtable_lookup: the row and column of the block over an offset.    *)
TableLookup(t, off) ==
    IF off < t.start * t.width THEN <<0, off \div t.start>>
    ELSE LET high == Log2Floor(off)
             row == high - (Log2Floor(t.start) + Log2Floor(t.width)) + 1
         IN  <<row, (off - 2 ^ high) \div RowSize(t, row)>>

(* The rows that hold direct blocks, and the rows of a nested table.       *)
DirectRows(t) == Log2Floor(t.maxDirect) - Log2Floor(t.start) + 2
NestedRows(t, row) ==
    Log2Floor(RowSize(t, row)) - (Log2Floor(t.start) + Log2Floor(t.width)) + 1

-----------------------------------------------------------------------------
(* Writing a heap *)

WriterTable == [width |-> HeapWidth, start |-> HeapStart, maxDirect |-> HeapMaxDirect]

SlotSize(slot) == RowSize(WriterTable, slot \div HeapWidth)
SlotOffset(slot) == RowColOffset(WriterTable, slot \div HeapWidth, slot % HeapWidth)

Room(block) == block.size - block.used
EmptyBlock(slot) ==
    [off |-> SlotOffset(slot), size |-> SlotSize(slot), used |-> BlockPrefix, held |-> <<>>]

RoomInLast(blocks, size) == blocks # <<>> /\ size <= Room(Last(blocks))

(* The places of the table where a further block has room for an object:   *)
(* the writer has direct blocks only.                                      *)
RoomySlots(blocks, size) ==
    {s \in 0 .. HeapWidth * DirectRows(WriterTable) - 1 :
        s >= Len(blocks) /\ size <= SlotSize(s) - BlockPrefix}

(* Blocks with room for an object in the last one: blocks that are too     *)
(* small for it stay empty.                                                *)
Widened(blocks, size) ==
    IF RoomInLast(blocks, size) THEN blocks
    ELSE LET slot == Min(RoomySlots(blocks, size))
         IN  blocks \o [i \in 1 .. slot + 1 - Len(blocks) |-> EmptyBlock(Len(blocks) + i - 1)]

(* A faulty InBlock: the offset is counted behind the prefix of the block. *)
InBlockBehindPrefix(heap, blocks, object) ==
    LET block == Last(blocks)
    IN  [heap EXCEPT
            !.blocks = [blocks EXCEPT ![Len(blocks)] =
                [block EXCEPT !.used = @ + object.size,
                              !.held = Append(@, [at |-> block.used, object |-> object])]],
            !.ids = Append(@, [type |-> "Managed", len |-> object.size,
                               off |-> block.off + block.used - BlockPrefix])]

(* One object: behind what the last block with room holds, or huge.        *)
InBlock(heap, blocks, object) ==
    LET block == Last(blocks)
    IN  [heap EXCEPT
            !.blocks = [blocks EXCEPT ![Len(blocks)] =
                [block EXCEPT !.used = @ + object.size,
                              !.held = Append(@, [at |-> block.used, object |-> object])]],
            !.ids = Append(@, [type |-> "Managed", len |-> object.size,
                               off |-> block.off + block.used])]

Stored(heap, object) ==
    IF object.size > MaxManaged
    THEN [heap EXCEPT !.huge = Append(@, object),
                      !.ids = Append(@, [type |-> "Huge", key |-> Len(heap.huge) + 1])]
    ELSE IF ~RoomInLast(heap.blocks, object.size) /\ RoomySlots(heap.blocks, object.size) = {}
    THEN [heap EXCEPT !.fits = FALSE]
    ELSE Of(Widened(heap.blocks, object.size), LAMBDA blocks : InBlock(heap, blocks, object))

HeapOf(objects) ==
    Accumulated(Stored, [blocks |-> <<>>, huge |-> <<>>, ids |-> <<>>, fits |-> TRUE], objects)

(* write_fractal_heap fails when it is out of direct blocks.               *)
HeapFits(objects) == HeapOf(objects).fits

(* The ids of the objects, in their order.                                 *)
HeapIds(objects) == HeapOf(objects).ids

DirectBlock(block) == [type |-> "FHDB", off |-> block.off, size |-> block.size, held |-> block.held]

(* The root: no block, the only block, or an indirect block over all.      *)
IndirectBlock(addrs) ==
    LET rows == (Len(addrs) + HeapWidth - 1) \div HeapWidth
    IN  [type |-> "FHIB", off |-> 0, rows |-> rows, nested |-> <<>>,
         direct |-> [slot \in 1 .. rows * HeapWidth |->
                        [addr |-> IF slot <= Len(addrs) THEN addrs[slot] ELSE Undef,
                         filtered |-> FALSE]]]

(* A version 2 B-tree of one leaf; its address is that of its header.      *)
WithTree(image, kind, records) ==
    image \o << [type |-> "BTLF", kind |-> kind, records |-> records],
                [type |-> "BTHD", kind |-> kind, depth |-> 0, root |-> Len(image) + 1,
                 count |-> Len(records)] >>

(* The heap is written at the address behind the image.                    *)
WithHeapOf(image, heap) ==
    LET here == Len(image) + 1
        addrs == [i \in DOMAIN heap.blocks |-> here + i]
        indirect == IF Len(addrs) > 1 THEN <<IndirectBlock(addrs)>> ELSE <<>>
        hugeAt == here + Len(addrs) + Len(indirect)
        body == [i \in DOMAIN heap.blocks |-> DirectBlock(heap.blocks[i])] \o indirect
                \o [i \in DOMAIN heap.huge |-> [type |-> "HUGE", object |-> heap.huge[i]]]
        header == [type |-> "FRHP", table |-> WriterTable,
                   root |-> CASE addrs = <<>> -> Undef
                              [] Len(addrs) = 1 -> addrs[1]
                              [] Len(addrs) > 1 -> here + Len(addrs) + 1,
                   rows |-> IF indirect = <<>> THEN 0 ELSE indirect[1].rows, rootFiltered |-> FALSE,
                   filtered |-> FALSE, hugeInIds |-> FALSE,
                   hugeTree |-> IF heap.huge = <<>> THEN Undef ELSE here + Len(body) + 2]
        written == image \o <<header>> \o body
    IN  IF heap.huge = <<>> THEN written
        ELSE WithTree(written, "Huge",
                      [i \in DOMAIN heap.huge |-> [addr |-> hugeAt + i, len |-> heap.huge[i].size,
                                                   key |-> i]])

WithHeap(image, objects) == Of(HeapOf(objects), LAMBDA heap : WithHeapOf(image, heap))

-----------------------------------------------------------------------------
(* Reading a version 2 B-tree: its records in the order of the tree, those *)
(* of an internal node between those of its children.                      *)

(* A faulty NodeRecords: the records of internal nodes are left out.       *)
NodeRecordsLeaves(image, root, total, depth) ==
    LET Under[addr \in DOMAIN image, count \in Nat, d \in 0 .. depth] ==
            IF d = 0 THEN SubSeq(image[addr].records, 1, count)
            ELSE FlattenSeq([i \in 1 .. count + 1 |->
                     LET child == image[addr].children[i]
                     IN  Under[child.addr, child.count, d - 1]])
    IN  Under[root, total, depth]

NodeRecords(image, root, total, depth) ==
    LET Under[addr \in DOMAIN image, count \in Nat, d \in 0 .. depth] ==
            IF d = 0 THEN SubSeq(image[addr].records, 1, count)
            ELSE FlattenSeq([i \in 1 .. count + 1 |->
                     LET child == image[addr].children[i]
                     IN  Under[child.addr, child.count, d - 1]
                         \o IF i <= count THEN <<image[addr].records[i]>> ELSE <<>>])
    IN  Under[root, total, depth]

TreeRecords(image, tree) ==
    LET header == image[tree]
    IN  IF header.root = Undef \/ header.count = 0 THEN <<>>
        ELSE NodeRecords(image, header.root, header.count, header.depth)

-----------------------------------------------------------------------------
(* Reading an object by its id *)

Lost == [type |-> "Lost", size |-> 0]
NoBlock == [addr |-> Undef, off |-> 0, filtered |-> FALSE]

(* The direct block over an offset, through nested indirect blocks.        *)
LocateIn(image, t, root, allRows, off) ==
    LET Entry(row, col) == row * t.width + col + 1
        Locate[addr \in DOMAIN image, rows \in 0 .. allRows] ==
            LET iblock == image[addr]
                directs == Min({DirectRows(t), rows}) * t.width
                At(row, col) ==
                    IF row >= rows THEN NoBlock
                    ELSE IF row < DirectRows(t)
                    THEN [addr |-> iblock.direct[Entry(row, col)].addr,
                          off |-> iblock.off + RowColOffset(t, row, col),
                          filtered |-> iblock.direct[Entry(row, col)].filtered]
                    ELSE IF iblock.nested[Entry(row, col) - directs] = Undef THEN NoBlock
                    ELSE Locate[iblock.nested[Entry(row, col) - directs], NestedRows(t, row)]
            IN  Of(TableLookup(t, off - iblock.off), LAMBDA at : At(at[1], at[2]))
    IN  Locate[root, allRows]

LocateBlock(image, heap, off) ==
    IF heap.rows = 0 THEN [addr |-> heap.root, off |-> 0, filtered |-> heap.rootFiltered]
    ELSE LocateIn(image, heap.table, heap.root, heap.rows, off)

(* What a direct block holds; a filtered heap has blocks of which the mask *)
(* says that they are stored as they are.                                  *)
Unfiltered(heap, block, filtered) ==
    IF heap.filtered /\ filtered THEN block.packed ELSE block.held

(* The bytes at an offset are an object's if one of its length is there.   *)
ManagedObject(image, heap, id) ==
    LET Held(located) == Unfiltered(heap, image[located.addr], located.filtered)
        There(held, at) == SelectSeq(held, LAMBDA h : h.at = at /\ h.object.size = id.len)
        Found(found) == IF found = <<>> THEN Lost ELSE Head(found).object
    IN  Of(LocateBlock(image, heap, id.off), LAMBDA located :
            IF located.addr = Undef THEN Lost
            ELSE Of(There(Held(located), id.off - located.off), Found))

HugeObject(image, heap, id) ==
    IF heap.hugeInIds THEN image[id.addr].object
    ELSE IF heap.hugeTree = Undef THEN Lost
    ELSE LET records == TreeRecords(image, heap.hugeTree)
             i == SelectInSeq(records, LAMBDA r : r.key = id.key)
         IN  IF i = 0 THEN Lost ELSE image[records[i].addr].object

HeapGet(image, addr, id) ==
    CASE id.type = "Managed" -> ManagedObject(image, image[addr], id)
      [] id.type = "Huge" -> HugeObject(image, image[addr], id)
      [] id.type = "Tiny" -> id.object
=============================================================================
