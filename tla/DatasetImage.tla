---------------------------- MODULE DatasetImage ----------------------------
(***************************************************************************)
(* A dataset from its builder through writes, slice writes and resizes     *)
(* into the file image and back (hl/container.rs, hl/dataset.rs,           *)
(* Writer::write_dataset, Parser::read_dataset_data).                      *)
(*                                                                         *)
(* An element of a buffer is [len, at, idx].  Of a fixed size type len is  *)
(* the value and the rest is 0.  A string is known by its length: in       *)
(* memory `at' is its index in the dataset's store; in an image `at' is    *)
(* the address of a global heap collection, `idx' its index there.  The    *)
(* model and the image use the same bytes for `at': nothing but the code   *)
(* that converts them tells one from the other.                            *)
(***************************************************************************)
EXTENDS VirtualMaps, ChunkTree

CONSTANTS
    Modulus,        \* values are 0 .. Modulus - 1
    Creations,      \* calls of the dataset builder
    Foreign,        \* files of other programs: header, image, values
    Seeds,          \* first values of what is written
    Selections,     \* what slices are read from and written to
    Shapes,         \* shapes the dataset is resized to
    ElemSize,       \* bytes of an element
    HeapIndexMod,   \* heap indices wrap here: 2^16
    MaxEdits,       \* bound: writes and resizes, one of a foreign file
    MaxSaves        \* bound: saves

ASSUME DatasetImageAssumption ==
    /\ Modulus \in Nat \ {0} /\ Seeds \subseteq 0 .. Modulus - 1
    /\ ElemSize \in Nat \ {0} /\ HeapIndexMod \in Nat \ {0} /\ MaxEdits \in Nat \ {0}

VARIABLES
    ds,       \* the DatasetData
    image,    \* the blocks of the file, the address of a block is its index
    header,   \* the object header in the file
    saved,    \* the file holds what the dataset holds
    origin,   \* until it is edited: what the file or the builder filled it with
    edits, saves

vars == <<ds, image, header, saved, origin, edits, saves>>

Zero == [len |-> 0, at |-> 0, idx |-> 0]
Unlimited == 0 - 1
NotDeferred == [kind |-> "None"]
Edited == <<>>

-----------------------------------------------------------------------------
(* The builder.                                                            *)

AtLeastOne(dims) == [i \in DOMAIN dims |-> Max({dims[i], 1})]

(* A faulty DefaultChunk: axes of length zero get chunks of length zero.   *)
DefaultChunkEmpty(dims) == dims

DefaultChunk(dims) == AtLeastOne(dims)

(* auto_chunk: the last of the longest axes is halved until a chunk has    *)
(* at most this many bytes.  An axis is halved as often as its length at   *)
(* most.                                                                   *)
AutoChunk(dims, bytes) ==
    LET Longest(c) == CHOOSE i \in DOMAIN c :
                          \A j \in DOMAIN c : c[j] < c[i] \/ (c[j] = c[i] /\ j <= i)
        Small(c) == Numel(c) * ElemSize <= Max({bytes, ElemSize}) \/ c[Longest(c)] <= 1
        Halved[n \in 0 .. FoldFunction(+, 0, AtLeastOne(dims))] ==
            IF n = 0 THEN AtLeastOne(dims)
            ELSE LET c == Halved[n - 1]
                 IN  IF Small(c) THEN c ELSE [c EXCEPT ![Longest(c)] = CeilDiv(@, 2)]
    IN  Halved[FoldFunction(+, 0, AtLeastOne(dims))]

(* The layout decision of create_dataset: <<>> is contiguous.              *)
NeedsChunks(c) == c.filtered \/ \E i \in DOMAIN c.max : c.max[i] = Unlimited

ChunkOf(c) ==
    CASE c.setting.kind = "None"    -> <<>>
      [] c.setting.kind = "Exact"   -> c.setting.chunk
      [] c.setting.kind = "MinKB"   -> AutoChunk(c.dims, c.setting.bytes)
      [] c.setting.kind = "Default" -> IF NeedsChunks(c) THEN DefaultChunk(c.dims) ELSE <<>>

Accepts(c) ==
    /\ c.setting.kind = "None" => ~NeedsChunks(c)
    /\ c.setting.kind = "Exact" =>
          Len(c.setting.chunk) = Len(c.dims) /\ \A i \in DOMAIN c.dims : c.setting.chunk[i] > 0
    /\ c.dims = <<>> => c.setting.kind \in {"None", "Default"} /\ ~NeedsChunks(c)

Created(c) ==
    [dims |-> c.dims, max |-> c.max, vlen |-> c.vlen, chunk |-> ChunkOf(c),
     data |-> Filled(c.dims, [Zero EXCEPT !.len = c.fill]), store |-> <<>>, lazy |-> NotDeferred]

-----------------------------------------------------------------------------
(* Elements.                                                               *)

(* A faulty Encoded: the indices do not count what the store already has.  *)
EncodedFromFirst(vlen, values, store) ==
    LET filled(k) == Cardinality({j \in 1 .. k : values[j] > 0})
    IN  IF ~vlen THEN [data |-> [k \in DOMAIN values |-> [Zero EXCEPT !.len = values[k]]],
                       store |-> store]
        ELSE [data |-> [k \in DOMAIN values |->
                           [len |-> values[k], idx |-> 0,
                            at |-> IF values[k] = 0 THEN 0 ELSE filled(k)]],
              store |-> store \o SelectSeq(values, LAMBDA v : v > 0)]

(* mem_to_model: strings that are not empty go to the end of the store.    *)
Encoded(vlen, values, store) ==
    LET filled(k) == Cardinality({j \in 1 .. k : values[j] > 0})
    IN  IF ~vlen THEN [data |-> [k \in DOMAIN values |-> [Zero EXCEPT !.len = values[k]]],
                       store |-> store]
        ELSE [data |-> [k \in DOMAIN values |->
                           [len |-> values[k], idx |-> 0,
                            at |-> IF values[k] = 0 THEN 0 ELSE Len(store) + filled(k)]],
              store |-> store \o SelectSeq(values, LAMBDA v : v > 0)]

(* elem_to_mem: a slot that leads nowhere is an empty string.              *)
ValueOf(d, e) ==
    IF ~d.vlen THEN e.len
    ELSE IF e.at \in DOMAIN d.store THEN Min({e.len, d.store[e.at]}) ELSE 0

(* fixup_vlen_elem *)
HeapReference(e, heap) ==
    IF e.at = 0 THEN [e EXCEPT !.idx = 0] ELSE [e EXCEPT !.at = heap, !.idx = e.at]

(* write_gheap: an object's index has 16 bits.                             *)
HeapObjects(store) == [i \in DOMAIN store |-> [idx |-> i % HeapIndexMod, len |-> store[i]]]

(* parse_gheap_collection, read_gheap_object: index 0 is the free space,   *)
(* where the parse ends; what is not found is empty.                       *)
HeapObject(objects, idx) ==
    LET ends == {i \in DOMAIN objects : objects[i].idx = 0}
        found == {i \in DOMAIN objects : objects[i].idx = idx /\ \A n \in ends : i < n}
    IN  IF found = {} THEN 0 ELSE objects[Max(found)].len

(* load_vlen_elem, for all elements: references become slots of a new      *)
(* store.                                                                  *)
WithStore(blocks, raw) ==
    LET Length(e) == IF e.at = 0 \/ e.idx = 0 THEN 0 ELSE HeapObject(blocks[e.at].objects, e.idx)
        Pushed(e) == Length(e) > 0 \/ e.len > 0
        Step(acc, e) ==
            [data |-> Append(acc.data, [len |-> e.len, idx |-> 0,
                                        at |-> IF Pushed(e) THEN Len(acc.store) + 1 ELSE 0]),
             store |-> IF Pushed(e) THEN Append(acc.store, Length(e)) ELSE acc.store]
    IN  FoldLeft(Step, [data |-> <<>>, store |-> <<>>], raw)

-----------------------------------------------------------------------------
(* Deferred data.                                                          *)

Padded(s, n) == [k \in 1 .. n |-> IF k <= Len(s) THEN s[k] ELSE Zero]

(* LazyData::materialize_bytes *)
Bytes(d, blocks) ==
    CASE d.lazy.kind = "None"   -> d.data
      [] d.lazy.kind = "Block"  -> Padded(SubSeq(blocks[d.lazy.addr].data, 1, d.lazy.len),
                                          Numel(d.dims))
      [] d.lazy.kind = "Chunks" -> Scattered(blocks, d.lazy.chunks, d.dims, d.chunk, Zero)

(* DatasetData::materialize *)
Loaded(d, blocks) == [d EXCEPT !.data = Bytes(d, blocks), !.lazy = NotDeferred]

-----------------------------------------------------------------------------
(* Saving and opening.                                                     *)

(* A header has the shape, the type and the layout message.                *)
HeaderOf(d, layout) == [dims |-> d.dims, max |-> d.max, vlen |-> d.vlen, layout |-> layout]

(* write_dataset, of a dataset that is loaded: the heap first, then the    *)
(* data; the image and the header.                                         *)
Stored(d) ==
    LET withHeap == d.vlen /\ d.store # <<>>
        heap == IF withHeap THEN <<[type |-> "GCOL", objects |-> HeapObjects(d.store)]>> ELSE <<>>
        data == IF withHeap THEN [k \in DOMAIN d.data |-> HeapReference(d.data[k], 1)] ELSE d.data
        chunks == WithChunks(heap, data, d.dims, d.chunk, Zero)
    IN  IF d.chunk # <<>>
        THEN [image |-> chunks.image,
              header |-> HeaderOf(d, [kind |-> "Chunked", chunk |-> d.chunk,
                                      index |-> [kind |-> "BtreeV1", addr |-> chunks.top]])]
        ELSE IF data = <<>>
        THEN [image |-> heap,
              header |-> HeaderOf(d, [kind |-> "Contiguous", addr |-> Undef, size |-> 0])]
        ELSE [image |-> Append(heap, [type |-> "DATA", data |-> data]),
              header |-> HeaderOf(d, [kind |-> "Contiguous", addr |-> Len(heap) + 1,
                                      size |-> Len(data)])]

(* A dataset that was read at once, its strings in a store.                *)
Eager(h, blocks, raw) ==
    LET strings == WithStore(blocks, raw)
    IN  [dims |-> h.dims, max |-> h.max, vlen |-> h.vlen, chunk |-> <<>>,
         data |-> IF h.vlen THEN strings.data ELSE raw,
         store |-> IF h.vlen THEN strings.store ELSE <<>>, lazy |-> NotDeferred]

(* read_dataset_data: data of fixed size stays in the image; a chunked     *)
(* dataset keeps its list of chunks, whatever its type, and its strings    *)
(* are looked for in a buffer of zeros.                                    *)
Parsed(h, blocks) ==
    LET n == Numel(h.dims)
        nothing == Filled(h.dims, Zero)
    IN  CASE h.layout.kind = "Compact" -> Eager(h, blocks, Padded(h.layout.data, n))
          [] h.layout.kind = "Contiguous" ->
                LET size == Min({h.layout.size, n})
                IN  IF h.layout.addr = Undef \/ n = 0 THEN Eager(h, blocks, nothing)
                    ELSE IF h.vlen
                    THEN Eager(h, blocks, Padded(SubSeq(blocks[h.layout.addr].data, 1, size), n))
                    ELSE [Eager(h, blocks, <<>>) EXCEPT
                             !.lazy = [kind |-> "Block", addr |-> h.layout.addr, len |-> size]]
          [] h.layout.kind = "Chunked" ->
                [Eager(h, blocks, nothing) EXCEPT
                    !.chunk = h.layout.chunk,
                    !.lazy = [kind |-> "Chunks",
                              chunks |-> Listed(blocks, h.layout.index, h.dims, h.layout.chunk)]]

-----------------------------------------------------------------------------

(* n values that are given to a write; they differ from their neighbours.  *)
Given(v, n) == [k \in 1 .. n |-> (v + k) % Modulus]

Current == Loaded(ds, image)

Values(d) == [k \in DOMAIN d.data |-> ValueOf(d, d.data[k])]

InitCreated ==
    \E c \in Creations :
        /\ Accepts(c)
        /\ ds = Created(c)
        /\ image = <<>> /\ header = <<>>
        /\ saved = FALSE /\ saves = 0 /\ edits = 0
        /\ origin = [k \in 1 .. Numel(c.dims) |-> c.fill]

InitForeign ==
    \E f \in Foreign :
        /\ ds = Parsed(f.header, f.image)
        /\ image = f.image /\ header = f.header
        /\ saved = TRUE /\ saves = 0 /\ edits = MaxEdits - 1
        /\ origin = f.values

Init == InitCreated \/ InitForeign

(* Reader::read_*: the first use of deferred data loads it.                *)
Load ==
    /\ ds.lazy # NotDeferred
    /\ ds' = Current
    /\ UNCHANGED <<image, header, saved, origin, edits, saves>>

Edit(new) ==
    /\ edits < MaxEdits
    /\ edits' = edits + 1 /\ saved' = FALSE
    /\ ds' = new
    /\ origin' = Edited
    /\ UNCHANGED <<image, header, saves>>

(* Writer::write: the strings get a store of their own.                    *)
Write(v) ==
    LET new == Encoded(ds.vlen, Given(v, Numel(ds.dims)), <<>>)
    IN  Edit([Current EXCEPT !.data = new.data, !.store = new.store])

(* A faulty Placed: the first value given for an element counts.           *)
PlacedFirst(data, indices, values) ==
    [k \in DOMAIN data |->
        IF \E j \in DOMAIN indices : indices[j] = k
        THEN values[Min({j \in DOMAIN indices : indices[j] = k})] ELSE data[k]]

(* Values are copied one after the other.                                  *)
Placed(data, indices, values) ==
    [k \in DOMAIN data |->
        IF \E j \in DOMAIN indices : indices[j] = k
        THEN values[Max({j \in DOMAIN indices : indices[j] = k})] ELSE data[k]]

(* Writer::write_slice: what a string overwrites stays in the store.       *)
WriteSlice(sel, v) ==
    /\ Accepted(sel, ds.dims)
    /\ LET indices == LinearIndices(sel, ds.dims)
           new == Encoded(ds.vlen, Given(v, Len(indices)), ds.store)
       IN  Edit([Current EXCEPT !.data = Placed(@, indices, new.data), !.store = new.store])

(* Dataset::resize *)
Resize(dims) ==
    /\ Len(dims) = Len(ds.dims) /\ ds.chunk # <<>>
    /\ \A i \in DOMAIN dims : ds.max[i] # Unlimited => dims[i] <= ds.max[i]
    /\ Edit([Current EXCEPT !.data = Reshaped(@, ds.dims, dims, Zero), !.dims = dims])

(* File::flush, or the file is closed: everything is loaded and written.   *)
Save ==
    /\ saves < MaxSaves
    /\ ds' = Current
    /\ LET s == Stored(Current) IN image' = s.image /\ header' = s.header
    /\ saved' = TRUE /\ saves' = saves + 1
    /\ UNCHANGED <<origin, edits>>

(* The file was closed and is opened again.                                *)
Reopen ==
    /\ saved
    /\ ds' = Parsed(header, image)
    /\ UNCHANGED <<image, header, saved, origin, edits, saves>>

Next ==
    \/ Load \/ Save \/ Reopen
    \/ \E v \in Seeds : Write(v)
    \/ \E v \in Seeds, sel \in Selections : WriteSlice(sel, v)
    \/ \E dims \in Shapes : Resize(dims)

Spec == Init /\ [][Next]_vars

-----------------------------------------------------------------------------
Coordinates == {CoordAt(ds.dims, k) : k \in 1 .. Numel(ds.dims)}

Contents == LET values == Values(Current)
            IN  [c \in Coordinates |-> values[Position(ds.dims, c)]]

(* The dataset is an array that writes, slice writes and resizes change as *)
(* they say, and that loading, saving and opening do not change.           *)
Promise == INSTANCE DatasetArray WITH shape <- ds.dims, contents <- Contents

IsAnArray == Promise!Spec

(* Before the first edit a dataset has the values its builder filled it    *)
(* with, or those another program stored, with whatever index of chunks;   *)
(* later too, chunks have a size, every element has bytes and strings are  *)
(* in the store: no load, slice or resize leaves a reference to nothing.   *)
OpensAsStored ==
    /\ \A i \in DOMAIN ds.chunk : ds.chunk[i] > 0
    /\ origin # Edited => Values(Current) = origin
    /\ Len(Bytes(ds, image)) = Numel(ds.dims)
    /\ \A k \in DOMAIN ds.data : ds.data[k].at \in 0 .. Len(ds.store) /\ ds.data[k].idx = 0

(* A selection is accepted if it is inside the dataset; its elements are   *)
(* those of the regular blocks, as many as its count or its end says, in   *)
(* their order, and they fill the shape that the read reports.             *)
SlicesExact ==
    \A sel \in Selections :
        LET chosen == Promise!Chosen(sel, ds.dims)
        IN  /\ Promise!Valid(sel, ds.dims) => Accepted(sel, ds.dims)
            /\ Accepted(sel, ds.dims) /\ chosen # <<>> => Promise!Valid(sel, ds.dims)
            /\ Accepted(sel, ds.dims) =>
                  /\ LinearIndices(sel, ds.dims)
                     = [k \in DOMAIN chosen |-> Position(ds.dims, chosen[k])]
                  /\ Len(chosen) = Numel(OutShape(sel, ds.dims))

(* A virtual dataset's mapping takes the elements its selection is of,     *)
(* after it was stored and parsed, in the same order (vds.rs               *)
(* linear_indices, container.rs linear_indices); boxes of other programs   *)
(* are taken one after the other, each in the order of the array, and a    *)
(* slice without a limit has the blocks of the builder's.                  *)
MappingsExact ==
    /\ \A sel \in Selections :
         sel.kind = "Slices" /\ Accepted(sel, ds.dims) =>
             \A i \in DOMAIN ds.dims :
                 LET raw == RawSlice(sel.slices[i], ds.dims[i])
                 IN  sel.slices[i].kind = "Unlimited" =>
                         StoredAxis([raw EXCEPT !.count = -1], ds.dims[i]) = AxisCoords(raw)
    /\ \A sel \in Selections :
         Accepted(sel, ds.dims) /\ Encodable(Serialized(sel, ds.dims)) =>
             StoredIndices(ParsedSelection(EncodedSelection(Serialized(sel, ds.dims)), Len(ds.dims)),
                           ds.dims) = LinearIndices(sel, ds.dims)
    /\ \A first, last \in Coordinates :
         (\A i \in DOMAIN first : first[i] <= last[i]) =>
             LET InBox(k) == \A i \in DOMAIN first :
                                CoordAt(ds.dims, k)[i] \in first[i] .. last[i]
             IN  StoredIndices([kind |-> "Blocks", boxes |-> <<[first |-> first, last |-> last]>>],
                               ds.dims)
                 = SelectSeq([k \in 1 .. Numel(ds.dims) |-> k], InBox)

(* A reader that searches the tree by its keys, as libhdf5 does, finds the *)
(* one block of every chunk.                                               *)
ChunksSearchable ==
    saves > 0 /\ header # <<>> /\ header.layout.kind = "Chunked"
    /\ header.layout.index.kind = "BtreeV1" =>
        LET top == header.layout.index.addr
            grid == ToSet(ChunkGrid(header.dims, header.layout.chunk))
            listed == ToSet(ListedByTree(image, top))
        IN  /\ {c.offset : c \in listed} = grid
            /\ \A c \in listed : ChunksFound(image, top, c.offset) = {c.addr}
            /\ \A a, b \in listed : a.addr = b.addr => a = b

(* Opening a file again gives every value back.                            *)
ReopenKeeps == [][Reopen => (Values(Current)' = Values(Current))]_vars
=============================================================================
