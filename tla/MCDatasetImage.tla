--------------------------- MODULE MCDatasetImage ---------------------------
(* Instances of DatasetImage: the builder's settings, selections of one    *)
(* and two axes, and files as other programs lay them out.                 *)
EXTENDS DatasetImage

U == Unlimited
Builder(dims, max, setting, vlen, fill) ==
    [dims |-> dims, max |-> max, setting |-> setting, vlen |-> vlen, fill |-> fill,
     filtered |-> FALSE]
Fixed(dims, max, setting) == Builder(dims, max, setting, FALSE, 1)
Strings(dims, max, setting) == Builder(dims, max, setting, TRUE, 0)

Default == [kind |-> "Default"]
Exact(chunk) == [kind |-> "Exact", chunk |-> chunk]
MinKB(bytes) == [kind |-> "MinKB", bytes |-> bytes]

FixedCreations ==
    { Fixed(<<>>, <<>>, Default), Fixed(<<2, 3>>, <<2, 3>>, [kind |-> "None"]),
      Fixed(<<0, 2>>, <<U, U>>, Default), Fixed(<<3>>, <<7>>, Exact(<<1>>)),
      Fixed(<<2, 3>>, <<3, U>>, Exact(<<1, 2>>)), Fixed(<<3, 3>>, <<U, U>>, MinKB(4)),
      [Fixed(<<2, 3>>, <<2, 3>>, Default) EXCEPT !.filtered = TRUE],
      Fixed(<<2>>, <<U>>, [kind |-> "None"]), Fixed(<<2>>, <<U>>, Exact(<<0>>)) }

MCCreations ==
    FixedCreations \cup {Strings(<<2>>, <<2>>, Default), Strings(<<2, 2>>, <<2, 2>>, Default)}

ChunkedStrings == {Strings(<<2>>, <<U>>, Default)}

Index(at) == [kind |-> "Index", start |-> at]
To(start, step, end, block) ==
    [kind |-> "To", start |-> start, step |-> step, end |-> end, block |-> block]
From(start, step, block) == [kind |-> "Unlimited", start |-> start, step |-> step, block |-> block]
Count(start, step, count, block) ==
    [kind |-> "Count", start |-> start, step |-> step, count |-> count, block |-> block]
Points(points) == [kind |-> "Points", points |-> points]
Slices(slices) == [kind |-> "Slices", slices |-> slices]

MCSelections ==
    { [kind |-> "All"], Points(<<<<1>>, <<0>>, <<1>>>>), Points(<<<<1, 0>>, <<0, 1>>>>),
      Slices(<<>>), Slices(<<Index(1)>>), Slices(<<To(0, 2, 3, 1)>>), Slices(<<To(0, 2, 2, 2)>>),
      Slices(<<From(1, 1, 1)>>), Slices(<<From(0, 3, 2)>>), Slices(<<From(0, 2, 2)>>),
      Slices(<<Count(0, 1, 2, 1)>>), Slices(<<Count(1, 1, 3, 1)>>), Slices(<<Count(0, 2, 1, 2)>>),
      Slices(<<Index(1), From(0, 2, 1)>>), Slices(<<From(0, 1, 1), Count(1, 1, 2, 1)>>),
      Slices(<<To(1, 1, 1, 1), From(0, 1, 1)>>), Slices(<<From(0, 1, 1), From(0, 1, 1)>>),
      Slices(<<Count(0, 1, 2, 1), Count(1, 1, 3, 1)>>) }

MCShapes == {<<0>>, <<1>>, <<5>>, <<7>>, <<8>>, <<2, 3>>, <<3, 2>>, <<1, 5>>, <<0, 3>>}

NoSelections == {[kind |-> "All"]}
NoShapes == {}

-----------------------------------------------------------------------------
(* What other programs store.  The chunks are written first, in the order  *)
(* of the grid or against it; the chunks of `absent' are not allocated.    *)

Numbers(n) == [k \in 1 .. n |-> [Zero EXCEPT !.len = 1 + (k % 2)]]

ForeignChunks(dims, chunk) ==
    LET grid == ChunkGrid(dims, chunk)
    IN  [n \in DOMAIN grid |->
            [type |-> "CHUNK",
             data |-> GatherChunk(Numbers(Numel(dims)), dims, chunk, grid[n], Zero)]]

(* What is read: zero where no chunk is.                                   *)
ForeignValues(dims, chunk, absent) ==
    [k \in 1 .. Numel(dims) |->
        LET c == CoordAt(dims, k)
            n == Position(ChunkCounts(dims, chunk), [i \in DOMAIN dims |-> c[i] \div chunk[i]])
        IN  IF n \in absent THEN 0 ELSE 1 + (k % 2)]

ChunkedFile(dims, chunk, absent, blocks, index) ==
    [header |-> [dims |-> dims, max |-> dims, vlen |-> FALSE,
                 layout |-> [kind |-> "Chunked", chunk |-> chunk, index |-> index]],
     image |-> ForeignChunks(dims, chunk) \o blocks,
     values |-> ForeignValues(dims, chunk, absent)]

Addresses(dims, chunk, absent) ==
    [n \in 1 .. Numel(ChunkCounts(dims, chunk)) |-> IF n \in absent THEN Undef ELSE n]

Next1(dims, chunk) == Numel(ChunkCounts(dims, chunk)) + 1

(* A checksum may be any number, an address for instance.                 *)
Checksum == 1
WithChecksum(entries) == Append(entries, Checksum)

FixedArrayFile(dims, chunk, absent) ==
    LET entries == Addresses(dims, chunk, absent)
        pages == IF Len(entries) <= PageSize THEN <<entries>>
                 ELSE [p \in DOMAIN Chunks(entries, PageSize) |->
                          WithChecksum(Chunks(entries, PageSize)[p])]
    IN  ChunkedFile(dims, chunk, absent, <<[type |-> "FADB", pages |-> pages]>>,
                    [kind |-> "FixedArray", addr |-> Next1(dims, chunk)])

(* Version 2 B-trees list their records in any order the tree has.         *)
BtreeV2File(dims, chunk, absent) ==
    LET n == Numel(ChunkCounts(dims, chunk))
        Record(k) == [addr |-> Addresses(dims, chunk, absent)[k],
                      scaled |-> CoordAt(ChunkCounts(dims, chunk), k)]
    IN  ChunkedFile(dims, chunk, absent,
                    <<[type |-> "BTHD", records |-> [k \in 1 .. n |-> Record(n + 1 - k)]]>>,
                    [kind |-> "BtreeV2", addr |-> Next1(dims, chunk)])

(* An extensible array is filled block after block.  The sizes of its data *)
(* blocks: one of 1, three of 2, six of 4, twelve of 8.                    *)
DataBlockSizes == <<1, 2, 2, 2, 4, 4, 4, 4, 4, 4>>
Preceding(n) == FoldLeft(LAMBDA a, b : a + b, IdxBlkElmts, SubSeq(DataBlockSizes, 1, n - 1))
ListedDirectly == 2                 \* of the data blocks, with these parameters

DataBlock(entries, n) ==
    LET size == DataBlockSizes[n]
        mine == [k \in 1 .. size |-> IF Preceding(n) + k <= Len(entries) THEN entries[Preceding(n) + k]
                                     ELSE Undef]
    IN  [type |-> "EADB",
         cells |-> IF size <= PageElmts THEN mine
                   ELSE <<Checksum>> \o FlattenSeq([p \in DOMAIN Chunks(mine, PageElmts) |->
                                           WithChecksum(Chunks(mine, PageElmts)[p])])]

(* Super blocks of two and two data blocks; the second's are paged and     *)
(* have a mask each.                                                       *)
ExtArrayFile(n, absent, hole) ==
    LET entries == Addresses(<<n>>, <<1>>, absent)
        At(b) == IF b = hole THEN Undef ELSE n + b
        SuperBlock(cells) == [type |-> "EASB", cells |-> cells]
        iblock == SubSeq(entries, 1, IdxBlkElmts) \o <<At(1), At(2), n + 7, n + 8>>
    IN  ChunkedFile(<<n>>, <<1>>, absent,
            [b \in 1 .. 6 |-> DataBlock(entries, b)]
            \o << SuperBlock(<<At(3), At(4)>>), SuperBlock(<<255, 255, At(5), At(6)>>),
                  [type |-> "EAIB", cells |-> iblock] >>,
            [kind |-> "ExtArray", addr |-> n + 9])

(* The chunks of the data block that is missing.                           *)
InBlock(b) == Preceding(b) + 1 .. Preceding(b) + DataBlockSizes[b]

BlockFile(layout, blocks, n, values) ==
    [header |-> [dims |-> <<n>>, max |-> <<n>>, vlen |-> FALSE, layout |-> layout],
     image |-> blocks, values |-> values]

StringFile(layout, blocks, values) ==
    [BlockFile(layout, blocks, Len(values), values) EXCEPT !.header.vlen = TRUE]

Ref(len, idx) == [len |-> len, at |-> 1, idx |-> idx]
Collection == [type |-> "GCOL", objects |-> <<[idx |-> 2, len |-> 1], [idx |-> 1, len |-> 2]>>]
SomeStrings == <<Ref(1, 2), Zero, Ref(2, 1)>>

MCForeign ==
    { FixedArrayFile(<<3>>, <<1>>, {2}), FixedArrayFile(<<2, 3>>, <<2, 2>>, {}),
      FixedArrayFile(<<3, 3>>, <<2, 1>>, {3}),
      BtreeV2File(<<3, 3>>, <<2, 2>>, {1}), BtreeV2File(<<2, 3>>, <<1, 2>>, {}),
      ExtArrayFile(14, {9}, 0), ExtArrayFile(14, InBlock(6), 6), ExtArrayFile(14, InBlock(2), 2),
      ChunkedFile(<<2, 3>>, <<2, 3>>, {}, <<>>, [kind |-> "Single", addr |-> 1]),
      ChunkedFile(<<2, 3>>, <<2, 2>>, {}, <<>>, [kind |-> "Implicit", addr |-> 1]),
      BlockFile([kind |-> "Contiguous", addr |-> 1, size |-> 2],
                <<[type |-> "DATA", data |-> Numbers(2)]>>, 3, <<2, 1, 0>>),
      BlockFile([kind |-> "Compact", data |-> Numbers(2)], <<>>, 2, <<2, 1>>),
      StringFile([kind |-> "Contiguous", addr |-> 2, size |-> 3],
                 <<Collection, [type |-> "DATA", data |-> SomeStrings]>>, <<1, 0, 2>>),
      StringFile([kind |-> "Compact", data |-> SomeStrings], <<Collection>>, <<1, 0, 2>>) }

NoForeign == {}
=============================================================================
