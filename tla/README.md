# hdf5-rs in TLA+

A verification development of `src/` (hdf5-rs: a pure-Rust HDF5 library, crates
`hdf5`, `hdf5-types`, `hdf5-derive`). It models the parts of the library that have a
protocol: the shared object model and its links, the contents of a dataset under
threads, the life of a file on disk, files that several processes write together,
paths that lead through several files, and the translation of the object graph, of
datasets and of their elements into a file image and back. TLC
checks the models on small instances; TLAPS proves, for every instance, the invariants of
the object model, of containers and of the file, that a container with one writer is
atomic, that collective calls synchronize and never mix, and that only rank 0 writes a
collective file.

Paths below are relative to `src/hdf5/src/`.

## 1. The system

An open file is one `FileInner` (`handle.rs`): a path, a mode, an `RwLock<FileState>`,
a cache of external files and, under the `mpi` feature, the state of a collective
file. Every handle an application holds (`File`, `Group`, `Dataset`, `Attribute`) is
an `Arc` of that `FileInner` plus an object id or an attribute name. The whole file is
in memory: opening parses it, flushing serializes all of it and rewrites it with
`fs::write`. Raw data of datasets may stay in a memory map until it is first used.

| component | state | operations | how it meets the others |
|---|---|---|---|
| object model and links (`model.rs`, `hl/group.rs`) | arena of nodes, links per group, creation-order counter, `read_only`, reference counts | create groups, datasets, virtual datasets; soft, hard, external links; relink; unlink; resolve | every call takes the lock of the `FileState` once or several times; `link_hard` three times |
| dataset contents (`hl/container.rs`, `hl/dataset.rs`, `DatasetData`) | shape, buffer, deferred image | snapshot, store, read, write, write_raw, write_slice, resize, materialize | a write is a snapshot under one lock and a store under another |
| file lifecycle (`hl/file.rs`) | file on disk, mapped image, handles | open in five modes, flush, close, size, drop | flush loads every deferred dataset, serializes and rewrites; runs in the `Drop` of every `File` handle |
| collective files (`mpi.rs`, `File::close`, `Writer::mpi_log`) | TCP streams to and from rank 0, write log per rank | rendezvous, barrier, bcast, gather, allgather; create, open, close | every rank has its own model; rank 0 merges the logs and writes |
| external links, path walking (`hl/location.rs`) | cache of opened files | `open_external`, `resolve_path_cross` | locks one file after another, once per component |
| attributes (`hl/attribute.rs`) | attributes of a node by name | create, write, delete, rename | handles are names, not ids |
| dataset builder (`hl/dataset.rs`) | - | layout decisions, `auto_chunk`, create then write | allocates in the object model |
| serializer (`format/writer.rs`) | memo of written objects, objects being visited | `serialize` | called by flush, close, drop, open |
| reader (`format/reader.rs`, `format/v2.rs`) | memo of parsed addresses | `parse_image` | called by open |
| virtual datasets (`format/vds.rs`) | - | assemble from source files | opens the source files at load time |
| filters and codecs (`format/filters.rs`, `szip.rs`, `blosc.rs`) | - | pipelines on chunks | called by reader and writer |
| conversion (`format/convert.rs`, `datatype.rs`) | - | memory to file types and back | called by Reader and Writer |
| selections, extents, dataspaces (`hl/selection.rs`, ...) | - | hyperslabs to linear indices | called by slice reads and writes |
| handles, ids, classes; property lists; errors; types and derive | none of their own | typed wrappers, settings records | - |

What is hard in it, and what makes each component correct:

* *Concurrency.* "The pure-Rust implementation is always threadsafe (per-file RwLocks)"
  (`lib.rs:165`), but calls release the lock in their middle. Object model: ids must
  stay live and denote the same object, a group must not get a name twice, counts must
  cover links, creation orders must be distinct. Contents: a call should take effect at
  one moment; a buffer must fit its shape; a store must not be undone by a late load.
* *Failure in the middle.* Calls that fail after they changed something (relink,
  create_dataset, add_link), deferred data that does not decode, a graph that does not
  serialize, `Drop` which cannot report. Nothing that failed may damage the file.
* *Failing writes and crashes.* `fs::write` truncates the file itself, there is no
  temporary one: an error or a death in its middle leaves a part of the file. What was
  flushed must otherwise survive, and be in the model for the next flush.
* *Several processes.* Ranks pair frames by their order on a stream only; one may be
  calls ahead of another, may die, or may fail where others succeed. Collectives must
  synchronize, must not mix, and must not leave anybody waiting; only rank 0 may touch
  the file; the file must hold everybody's rows when `close` returns.

`PROJECT.json` lists the components with their status, and the hazards line by line.

## 2. Modules

| module | what it is |
|---|---|
| `ObjectGraph` | an arena, its links and how a path resolves in it |
| `ObjectModel` | every call that changes the arena and the links |
| `MCObjectModel`, `ObjectModel*.cfg` | its instances |
| `ObjectModelProofs` | its theorems: types and ids; orders, names and counts of links |
| `BasicFacts` | lemmas: induction over the naturals and what it says of functions; short operations on sequences; row-major buffers |
| `Layout` | row-major buffers: positions, coordinates, reshaping |
| `AtomicContainer` | abstract: what a dataset or an attribute promises, every call at one moment |
| `Container` | detailed: snapshot, load and store under separate locks; refines `AtomicContainer` |
| `MCContainer`, `ContainerOneWriter.cfg` | its instance |
| `ContainerProofs` | its theorems, the refinement of `AtomicContainer` among them |
| `FileLifecycle` | a path, the owners that open it, `fs::write` in two steps, crashes |
| `MCFileLifecycle`, `FileLifecycle.cfg` | its instance |
| `FileLifecycleProofs` | its theorems |
| `StarComm` | the communicator: collective calls as plans of blocking steps |
| `CollectiveFile` | ranks that run scripts of calls over `StarComm` on one file |
| `MCCollectiveFile`, `CollectiveFile.cfg` | its instance |
| `CollectiveFileProofs` | its theorems: who writes the file; what the collective calls do |
| `CollectiveCloseProofs` | its theorem about the close: the file is complete |
| `CrossFile` | paths along soft and external links, caches of external files, the sources of virtual datasets |
| `CrossFileAnswers` | what a path means in a state that does not change, by recursion; calls return it |
| `MCCrossFile`, `CrossFile.cfg` | its instance |
| `CrossFileProofs` | its theorems |
| `GroupTree` | local heaps, leaves and B-trees of groups, written and walked |
| `DenseStorage` | fractal heaps and version 2 B-trees: the writer's kind of them, the reader of every kind |
| `ObjectHeaders` | messages, attributes in headers and in heaps, shared messages; extends `DenseStorage` |
| `GraphImage` | saving the object graph, opening an image, with both recursions as stacks; extends `ObjectHeaders` |
| `MCGraphImage`, `GraphImage.cfg` | its instance, with files of six forms as other programs lay them out |
| `GraphImageProofs` | its theorems: refusals of the writer, slots of the reader |
| `Hyperslab` | selections, as the code counts and lists them |
| `ChunkTree` | chunks of a buffer, their B-tree, the other indexes of chunks |
| `ExtensibleArray` | where element n of an extensible array is |
| `VirtualMaps` | selections of virtual datasets: as built, as stored, as walked |
| `DatasetArray` | abstract: an array that writes, slice writes and resizes change |
| `DatasetImage` | detailed: the builder, buffers and string stores, deferred data, the image; refines `DatasetArray` |
| `MCDatasetImage`, `Dataset*.cfg` | its instances, with files as other programs lay them out |
| `Bytes`, `Strict` | little-endian numbers and streams of bits; values that TLC computes once |
| `Conversions` | elements of user memory to elements of the model and back |
| `DatatypeMessages` | types as messages and back, and the byte order of their data |
| `Filters`, `PackedFilters`, `Szip`, `Blosc` | shuffle, fletcher32, LZF; scale-offset and n-bit; szip; blosc with its codec blosclz |
| `StoredElements` | the elements of a dataset from user memory through conversions and filters into a chunk and back |
| `MCStoredElements`, `StoredValues.cfg`, `ScaleOffset.cfg` | its instances |

Definitions named after a fault in their comment ("A faulty ...") are variants of the
definition after them. The specifications do not use them; they are there to show that
each property notices the bug it is meant for (the pairs are under `mutants` in
`PROJECT.json`).

### ObjectModel

One action is one critical section of the `RwLock`. All calls are one, except
`link_hard`, which is `LinkHardResolve` (read lock: the target id), `LinkHardAdd`
(`add_link`) and `LinkHardCount` (the reference), with `linking[t]` for the locals that
live across the unlocks. A call that fails without a change is a stutter; one that
fails after a change has an action: `CreateDatasetRefused` leaves an unlinked object in
the arena, `AddLinkRefused` loses a creation order when the parent is a dataset,
`Relink` loses the link. `Resolve` follows hard and soft links as `FileState::resolve`
does: a soft link is resolved from the root, recursively and without depth limit, so
that a link that leads to itself is the outcome `Diverged` and aborts the process
(`Overflow...`). `Descend` is the different walk of `create_group`: no `.`, no soft
links. `CreateVirtual` is the branch of `create_dataset` that neither splits nor checks
the name. `SealReadOnly` is what a collective close does to the state that other
threads still use.

### Container

`Begin` reads whether the data is deferred, `Load` is `materialize` under its own lock
(another thread may have loaded it meanwhile; it may fail), `Clone*` is the snapshot
and what the call computes from it, `Store` puts the whole buffer back. `write` takes
two snapshots: one to compare shapes, one in `write_elements` to compare the number of
elements. `Resize` is one critical section. Elements are the unit of data: an element
is a value of `Value` or `Zero`; what a conversion does to it is the matter of
`StoredElements`, except that it may be refused (`RefuseConversion`). An attribute is a
container that is never deferred, sliced or resized; `Attach` creates it full of zeros
and `CreateAttrWith` writes it in a second critical section. `AtomicContainer` has the
shape, one value per coordinate and what each thread last read; the refinement maps its
`data` to the buffer, or to the image's elements while the data is deferred.

### FileLifecycle

An owner is one `FileInner` on the path; `Truncate` and `Fill` are the two halves of
`fs::write`, all else of a call is atomic (the state's lock is held). `WriteFails` is an
error of `fs::write` in either half (a full disk): `flush` and `close` report it and the
model stays open, `Drop` ignores it and the handle is gone, an open that was to create the
file frees its model. `Crash` is the death of the process. Both leave, within the second
half, what `CutShort` has: a file that does not parse, or one that does (the superblock
comes first, and `parse_object` makes unsupported what it cannot read) with any part of
the model in it and any of its objects unsupported. `OpenExisting` opens such files
(`Parsed`). `acked` is a history variable: the edits that a flush or drop has put in the
file, until somebody re-creates it or opens a file that was cut off without them; from
then on they are lost, and that is the only way to lose them. `disk.gen` counts
rewrites, so that an image that is mapped (`Read`, `ReadWrite`) or copied (`Append`) is
told from the bytes that are on disk now (`Stale`). Obstacles to a flush are deferred
data that does not decode and a graph that does not serialize (`Tangle`: a hard link to
an ancestor). `DropFile` is the `Drop` of every `File` handle, the last one or not;
object handles keep the `FileInner` alive and have no such drop. `Load` is a first read
of a dataset, or `File::size`, which loads everything.

### StarComm and CollectiveFile

A collective call of a rank is a *plan*, the sequence of its blocking steps in program
order: `Barrier(0)` is "receive from 1, ..., receive from n-1, send to 1, ...". A frame
is the sequence of the values it carries. `Buffered = FALSE` makes a send return only
when its frame has been read (frames larger than the socket buffers), `Buffered = TRUE`
at once; the passing run uses the former, which blocks more. A step whose peer has closed its
end fails (`Broken`), although what was buffered may still be read first.

`CollectiveFile` gives every rank its own copy of the file (`file[r]`: the model, the
write log, whether it is attached, whether it is read-only). `Open` and `Close` are
plans that mix frames and local steps: the close is gather, merge (rank 0), detach,
save (rank 0), seal, barrier, drop. Rank `r` writes row `r` of one dataset of two or
three columns; log entries hold the path and the positions of the moment of the write,
as `mpi_log` does. A call that fails makes its rank drop its file and exit (`Exit`), as
an SPMD program that propagates the error; processes die at any step after the
rendezvous; an `fs::write` of a call may fail or be cut short. Two simplifications are made
for the Drop of rank 0 after a failed call, and for files that were cut off. The rewrite
within that Drop is one step. It comes between the two barriers of an `open` at the
earliest, with the same model as the file's; a leaf that loads at that moment may fail
(`LoadFails`), or parse a part of the file, which is left out, for its `open` then fails
all the same at the second barrier: rank 0, which is gone, still owed it that release (on
the instance: whoever loads has rank 0 in the same call, before its second receive from
it). And no rank loads a torn file, which might parse (see `FileLifecycle`): the instance
has one only with rank 0 dead and no rank about to load.

### CrossFile

Each thread's `stack` is its recursion: frames of `resolve_path_cross` (one `Component`
of a path under one lock), of `open_external` (`LookUp` in the cache, unlock,
`ReadFile`, parse, `Insert`) and of `parse_depth` with `materialize_vds` (a source is a
file that is read and parsed one level deeper). Between any two of them another thread
edits links, the main file is flushed, another program rewrites or removes a file.
`quiet[t]` says that nothing changed since the call of `t` began; only then is it
compared with `Denoted`, what the path means (in `CrossFileAnswers`, as is `Parsed`, what
a file and its virtual datasets mean). `WellFormed` is what a parse leaves of an image: a
root, and hard links to nodes that were parsed. The instance's contents are such arenas,
with damage as nodes of kind "Unsupported"; a file that does not parse at all is as good
as one that is `Absent`. `located` is whether relative names of sources lead to the right
directory also without a base directory: `open_external` gives the parser none.

### GroupTree, DenseStorage, ObjectHeaders and GraphImage

An image is a sequence of blocks (heap, leaf, tree node, object header), the address of
a block is its index. What an object has besides its links is its `content`: dataspace,
datatype, fill value, comment, modification time and attributes, each a value and a
size; byte layouts are left out, sizes are kept where the code decides by them. `stack` is the recursion of `Writer::write_object` or of
`Parser::parse_object`, one frame for each group being written or read; the frame has the
locals of the call (links to do, heap and entries so far, the level of the B-tree).
`memo` is the writer's map from objects to references or the parser's from addresses to
slots. The order of steps is the code's: the writer visits the members first, then
writes the heap, the leaves, the levels of the tree and last the header, and only
then remembers the object, so a group that it meets again in between is a cycle
(`Refuse`); the parser takes a slot and remembers it first, so a cycle is a link to it.
`FormOf` chooses a symbol table, link messages, or dense links as `write_group` does.
`ReadDamaged` is the failed parse that makes one object unsupported; its slot, and the
slots its links had led to, stay. `Recounted` is `FileState::recount`. `Foreign` images
are those of other programs: link messages with or without creation orders, links of
types the library does not know, cycles, damage, headers with continuations, shared
and committed messages, dense links and attributes.

`DenseStorage` is a fractal heap with the B-tree over its ids. `WithHeap` is
`write_fractal_heap`: objects go into blocks of a doubling table, one row deep, or are
huge. `HeapGet` is the reader's `FractalHeap::get`, which takes the tables that other
programs make: nested rows, filtered blocks, tiny ids, huge objects by address or by
tree. Both compute offsets in their own way (`SlotOffset`, `RowColOffset`), as the two
sides of the code do. `TreeRecords` walks trees of several levels. `ObjectHeaders` has
`WithHeader` (`append_comment_and_attrs`: which attributes are too large and make all of
them dense), `MaybeShare`, `WithTables` and `Patched` (a shared message's heap id is not
known when its header is written), and the reader's `Messages` with `HandleMessage`.
`HeapFits`, `HeaderFits` and `StoresFit` are the errors of the writer at its limits: a heap
has direct blocks only (`Stored` has no room for an object), a message has 16 bits for its
size; `Stopped` says where in the walk they come. Limits are scaled down: a message has at
most 11 units of size, a block 8 or 16, a heap four blocks.

### Hyperslab, VirtualMaps, ChunkTree, ExtensibleArray and DatasetImage

`ds` is one `DatasetData`. `Created` is what `create_dataset` makes of the builder's
settings (`ChunkOf`: the layout decision, `AutoChunk`). Every other action is a whole
call: `Write`, `WriteSlice`, `Resize` load what is deferred, convert (`Encoded`: strings
go to the dataset's store, an element keeps their index) and replace the buffer.
Threads are the matter of `Container`; here one call follows the other. `Save` is
`materialize` and `write_dataset`: heap, data or chunks with their tree, header. `Reopen`
is the parse: `Parsed` decides what is read at once and what is deferred. `Foreign`
files have one of the six indexes of chunks, chunks that are missing, blocks shorter
than the dataset, compact data, heaps in any order.

An element is `[len, at, idx]`, in memory and in the image, as it is 16 bytes in both:
that `at` is an index here and an address there is known only to the code that converts
one into the other, which is what `dataset_vlen` is about. A string is its length; two
neighbours that a write gives never have the same value, so a misplaced element shows.
The arithmetic of strides (`gather_chunk`, `scatter_chunk`, `linear_indices`) is kept as
positions of coordinates in `Layout`; `DatasetArray` has none of it, its contents are a
function of coordinates. `VirtualMaps` takes a selection of a virtual dataset's mapping
from the builder through its serialized form and walks it with the enumeration of
`vds.rs`, which is not that of `selection.rs`.

### Bytes, Conversions, the filters and StoredElements

Here data are bytes. A byte has four bits and a word two bytes, so that the edges of
every type are near; the code's tables (the control byte of LZF, the codes of szip, the
batch of fletcher32) shrink with it, by constants. Memory types are records; a value of
memory is what a program sees through the type (`Seen`), and `Saying(t, v)` is what a
type can say of a value: the nearest number, a text cut to its length. Floats are
counted in halves, with NaN and infinities. `elem_to_mem` and `elem_to_model` convert
one element, by the code's cases. `Save` and `Open` are `lower_filters`, `gather_chunk`,
`apply` and `reverse_masked`, `scatter_chunk`, with `encode`, `decode` and
`apply_order` for the datatype message and the order of bytes. `SaveElsewhere` and
`SavePacked` are what only other programs write: big-endian numbers, bit fields, opaque
data and arrays of several axes, filters skipped by a mask, the codings of szip and the
split, sparse or stored frames of blosc that the library reads but never writes; n-bit
with a precision and an offset. Blosc's header fields keep their order, its flags and
codec get a byte each, its sizes (blocks, streams worth splitting or compressing) are
constants. `Damage` changes one byte of the stored chunk. `image.spoilt` marks chunks that
the library's own writer makes and its reader cannot read back (section 6).

## 3. Runs

| run | question | bounds, and why they are enough |
|---|---|---|
| `object_model_threads` | threads against each other | two threads, two names, three objects, three links ever: both calls of a race, a target and two parents fit; paths absolute, relative, of two components, a soft link to a group |
| `object_model_all` | every call, failures and the close | one thread, two objects, three links: each refused branch fires, an order is lost and drawn again, a soft loop closes |
| `container_one_writer` | is a dataset or an attribute atomic with one writer and a reader | shapes 1x2, 2x1 (same number of elements) and 2x2 (grows and moves), single-element slices inside and outside them, loaded, deferred or undecodable data; attributes created by both threads |
| `file_lifecycle` | what is in the file | two owners one after the other, five modes, two handles each, two edits, four rewrites: open, flush, drop and reopen twice, an error in either half of every write, a crash anywhere, a cut file opened with all that may be left in it |
| `collective_file` | the collective calls and the close | three ranks, so that rank 0 serves two others that are in different calls; scripts that create, open (absent file, existing, prepared by rank 0), write before and after a barrier, close twice, rename, recreate, or use bcast, gather and allgather back to back |
| `graph_image` | is the file what was in memory | three objects, roots of two links of every type to every object and roots of five names, all second and third objects; capacities of two, so that five links make three leaves and two levels; three attributes of which one is padded, one too large for a header and one too large for a heap block; one index of shared messages and two; saved, opened, extended and saved again, or read from another program, in six forms of headers, heaps and trees. At the limits: eight dense links or attributes, which fill a heap, and nine; a comment that fits a message, that no longer does when it is padded, and that never does; shared messages that fit the heap of their index, and one more |
| `cross_file` | paths through several files | two threads, two files, three calls, one change by another; links that lead to themselves in one file and through both, virtual datasets whose sources are in the same file, in the other, in a circle; limits of two links and one source, so that each is met and passed |
| `dataset_image` | is a dataset an array, whatever is done to it | scalars to two axes; chunks that fit and that stick out, empty axes; trees of up to eight chunks with a capacity of two, so three levels; every kind of slice with steps, blocks and open ends; arrays and extensible arrays beyond a page, holes, and super blocks of both sorts; two edits and two saves, so that what an open made is edited, saved and opened again (one edit of a foreign file) |
| `object_model_relink` | violation | the shortest relink that fails |
| `stored_values` | does a value survive | bytes of four bits; every pair of numeric types at their least, greatest and odd values, NaN, infinities; texts longer and shorter than their field, sequences of sequences and of compounds, compounds whose fields are elsewhere, in another order, of other types; pipelines of one to three filters on chunks with padding, fill values among the data; scanlines of szip that are whole, filled up, smaller than a block; two blocks of blosc and a rest, bytes or bits shuffled, elements that fill a block and that do not, split and not; big-endian integers and floats, alone, in enumerations, compounds, arrays and sequences; one changed byte, for which three wrong values are tried (one more, one less, another first bit), not all. Two assumptions of `MCStoredElements` check blosclz on longer inputs than a chunk: matches of every length up to 80 bytes, and as far back as far ones go |
| `dataset_vlen` | violation | a chunked dataset of two strings |
| `scale_offset` | violation | a padded chunk of signed bytes |

The deadlock check is off where the system may stop: calls run out at the bounds of the
object model, of the file and of the dataset, a script ends, a process has died. Symmetry is used for
threads, owners and edits only, and in no run with a liveness property.

What the passing runs show:

* `TypeOK` of `ObjectModel`: no reference count is taken below zero, although `unlink`
  may run before `link_hard` has counted. `HardTargetsLive`, `ArenaStable`: `get` and
  `get_mut` never meet an empty slot, an id denotes one object for ever.
  `RefcountCoversLinks`: counts may be too high (section 6) but never too low.
  `UniqueNames`: names are tested and links pushed in one critical section, through
  whichever path the group is reached (without relink and virtual datasets, which do
  not test). `CreatedGroupResolves`: the groups that `create_group` made are what
  its path resolves to, although the two walks differ (without `.` in the path).
  `OrdersUnique`, `ReadOnlyFreezes` over all calls.
* `Atomic`: with one writing thread the container implements `AtomicContainer`, so reads
  by others see a buffer that was once the contents, whole. `LengthMatchesShape`,
  `ReadOnlyKeepsContents` are the steps to it.
* `CrashSafe`: an edit that a flush or drop has written is in the file whenever it is
  whole (`AckedUnlessCut`), and in the model of whoever has the file open
  (`ModelsKeepAcked`), so that after a write that failed the next flush brings everything
  back; and a model that cannot be loaded or serialized never costs the file
  (`RefusalsKeepFile`). It does not say that nothing is ever lost: the rewrite is in place,
  so when a write fails or its process dies within it, and nobody who had the file open
  writes it again, the file that is left may not parse, or parse without edits that were
  flushed. `ImageFresh`: an owner's own rewrite never pulls the file from under data it has
  deferred. `ReadOnlyNeverWrites`.
* `CallsMatch`: nobody leaves a synchronizing call before all have entered it, and calls
  back to back never mix their frames. `SameBytes`: all ranks of
  an `open` parse the same file. `FileComplete`: when `close` returns, on any rank, the
  file has every rank's rows. `OnlyRootWrites`: no error path or drop of a leaf writes.
  `EveryoneReturns`: whoever dies or fails, the others finish or get an error.
  `AllFinish`: without a fault, and with no resize, rename or re-creation between a
  write and the close, every rank gets through its script.

* `QuietCallsExact`: a call that nobody disturbs returns the object its path denotes, and
  an error when there is none or the limit is passed, whatever other threads have put
  into caches before. `OneCopyPerThread`: the race in `open_external` costs at most one
  copy of a file for each thread. `ExternalsFrozen`: nothing is written through an
  external link. `CallsReturn`: links and sources in circles, also while they change,
  keep no call from returning. `TypeOK` has that a handle is always an object of the file
  it is paired with.

* `Faithful`: what an open yields is what was saved, path by path, with attributes and
  messages, sharing included, or what another program stored, less the links of unknown
  types and with the damaged objects, and only these, unsupported. `RefusedIffObstructed`:
  as far as links and headers go, a save is refused for a cycle, an unreadable object that
  a path leads to, one whose header or dense links and attributes are too large, or shared
  messages too many for their heap, and for nothing else; what the data of a dataset may
  add is in section 5. `GroupsSearchable`: the library walks its trees, other programs search
  them by key or hash, and they find every name; the addresses of a group's tree that are
  kept outside its header are right; shared messages are counted. `ArenaExact`, `Ends`:
  however the links of an image run, a parse ends, with one slot for each header and with
  the right reference counts.

* `ReadsExact`: through every conversion and every pipeline each value is read as near as
  the types can say it, before a save, after an open, and after further saves and opens,
  of the library's own files and of others; the type comes back too, except that an
  enumeration of FALSE and TRUE in one byte becomes a Boolean.
  `DamageNoticed`: fletcher32, outermost, notices one changed byte wherever it is.
  `MappingsExact`: a virtual dataset's mapping selects, in the order of the stored form,
  the elements the builder's selection selects.

* `IsAnArray`: `DatasetImage` implements `DatasetArray`, so no load, save or open changes
  a value, a slice write changes what it selects and nothing else, a resize keeps the
  overlap; this is where gather, scatter, reshape, stores and heaps meet. In this run
  strings are contiguous and heap indices do not wrap; section 6 says why.
  `OpensAsStored`: all indexes of chunks lead to the right chunks. `SlicesExact`: a
  slice selects the elements of its blocks, as many as its count says or fit below its end,
  in their order, and is accepted if they are in the dataset; so it is in the drawings of
  the documentation but for the one of a count, which shows a block more (section 6). `ChunksSearchable`: keys and
  capacity of the tree, for readers that search it as libhdf5 does.

### Fairness

In `GraphImage` a call that has begun goes on: `WF(Serialize \/ Parse)`, for both are
straight-line code of one thread, and which step comes next is a function of the state;
saves, opens and edits are not fair. In `CrossFile`, likewise, `WF(Resolving(t))` for
every thread: a thread inside a call is scheduled and every lock is released by its
holder, while no call has to be made and no change has to happen. In `CollectiveFile`, `Spec` has weak fairness of
`Step(r)` for every rank: a rank is an operating-system process that gets to run, and a
blocked `read` or `write` on a TCP stream returns once there are data, room, or an end
of stream. `Dies` is not fair: nothing has to die. No fairness is assumed among ranks'
choices, and a rank that has finished its script or has exited takes no step. The one case this does not
cover is a peer that vanishes without closing its stream (a lost machine): the library
sets no timeout, so its ranks would wait; and a process that dies before the rendezvous
leaves rank 0 in `accept`, as `Comm::init` documents.

## 4. Proofs

Every theorem is about the specification that TLC runs, for every value of its
constants: any threads, owners, ranks, names, shapes, values, scripts and bounds. The
assumptions are the named ones of the modules: `PathAssumption`, `BoundAssumption` and
`ThreadAssumption` (finitely many threads) of `ObjectModel`; `ShapesAssumption` of
`Container` (shapes are sequences of naturals, a region has coordinates of its shape);
`FlagAssumption` and `BoundAssumption` of `FileLifecycle` (an owner may have one handle at
least); those of `StarComm` and `CollectiveFile` (scripts are not empty and set up the
communicator once, first); `FileAssumption` of `CrossFile` (a file holds nothing or what a
parse makes of it, for whatever the bytes are `parse_object` gives a hard link a slot of the
arena; the edits add soft and external links, hard ones are those of `ObjectModel`);
`GraphAssumption` of `GraphImage` (the graphs an application saves are arenas whose hard
links lead to their own slots, which is `HardTargetsLive` of `ObjectModel`, and only groups
have links). Images that other programs wrote are not assumed to be anything. Where
a theorem has a hypothesis of its own, the table names it; each of them is one that the
code leaves to its caller, and TLC has the counterexample without it.

| module | theorem | states | hypothesis |
|---|---|---|---|
| `ObjectModelProofs` | `TypeCorrect`, `TargetsLive`, `ArenaIsStable`, `ReadOnlyIsFrozen` | `TypeOK`, `HardTargetsLive`, `ArenaStable`, `ReadOnlyFreezes` | - |
| | `OrdersAreUnique`, `LinksAreCounted` | `OrdersUnique`, `RefcountCoversLinks` | - |
| | `NamesAreUnique` | `UniqueNames` | neither `relink` nor `create_virtual` is called |
| `ContainerProofs` | `TypeCorrect`, `ReadOnlyKeeps` | `TypeOK`, `ReadOnlyKeepsContents` | - |
| | `LengthIsKept` | `LengthMatchesShape` | a thread that resizes is the only one that writes (`ResizerWritesAlone`) |
| | `ContainerIsAtomic` | `Atomic`: the refinement of `AtomicContainer` | one thread writes and resizes (`WriterAlone`) |
| `FileLifecycleProofs` | `TypeCorrect`, `ReadOnlyKeepsOff`, `RefusalsLeaveTheFile` | `TypeOK`, `ReadOnlyNeverWrites`, the second half of `CrashSafe` (`RefusalsKeepFile`) | - |
| | `NothingAckedIsLost`, `ImagesStayFresh` | `CrashSafe`, `ImageFresh` | owners follow one another (`Exclusive`) |
| `CollectiveFileProofs` | `OnlyRootWritesFile` | `OnlyRootWrites` | - |
| | `CallsAreCollective`, `OpensSeeSameBytes` | `CallsMatch`, `SameBytes` | - |
| `CollectiveCloseProofs` | `CloseCompletes` | `FileComplete` | one file at a time, no metadata call between a write and the close (`Proper`) |
| `CrossFileProofs` | `Types`, `CopiesAreFew`, `ExternalsStayAsParsed` | `TypeOK`, `OneCopyPerThread`, `ExternalsFrozen` | - |
| `GraphImageProofs` | `RefusalsAreRight` | `RefusedIffObstructed` | - |
| | `OneSlotPerHeader`, `ArenaStaysWellFormed` | `OneSlotEach` while an image is read, the first half of `ArenaExact`; what is read can be saved | - |

`BasicFacts` (induction, least members, sequences, row-major buffers) holds the lemmas that
the others cite.

### The object model

`TypeOK` alone is not inductive: `Push` and `Uncount` on an id outside
the arena would leave it, and nothing in the types says that a link's target or the id
kept by a `link_hard` call is inside. `IInv` adds it: the arena is a sequence over
nodes whose kind is not "None" and whose hard links stay within `1..Len(objects)`
(`Arena(n)`), and every id in `linking` is in its domain. Because the arena only
grows, what was within `1..m` is within `1..n` for `m <= n` (`ArenaGrows`); one lemma
for each way an action changes the arena (replace a node, push, cut, count, uncount,
append an object, append the chain of `create_group`) says that it stays an arena and
keeps the kinds (`SameShape`); one lemma per action follows. `Invariance` combines
them; `IInv` implies `TypeOK` and `HardTargetsLive`, `ArenaIsStable` follows from
`SameShape` at every step. How a path resolves plays no part: an action uses a resolved
id only after it was found in the domain, so nothing about recursion is needed.

For the links, the proofs look at the arena as a set of *slots*, pairs of an
object and a position in its list. An action adds slots, shifts those behind a cut, or
moves one (`Effect`); that an action does one of these is proved once (`StepEffect`) and
each invariant then follows from the effects alone. `OrdersUnique` needs that orders are
below the counter and distinct over *all* slots, not only within a group (`Ordered`).
`RefcountCoversLinks` counts links with `Cardinality`: an effect changes the set of hard
links to an object by one at most, and an action that adds one either counts it at once
or leaves its thread among `Uncounted`; `unlink` takes the reference and the link in one
step, so the counts stay covered even when the slot belonged to a `link_hard` that has not
counted yet.

### Containers

`IInv` says where the contents are (`Holds`: image or buffer, never both) and that a call
past its load finds the data loaded; `LengthInv` adds that the buffer a call holds for its
store has the length of the present shape. That is where another thread's resize between
snapshot and store breaks it, hence the hypothesis. The refinement maps the abstract
`data` to the buffer or to the image, the other variables to themselves: `Begin`, `Load`
and `Clone*` of a writer stutter, a reader's call takes effect when it clones, a writer's
when it stores. For the last, `AtomicInv` says that the buffer about to be stored is that
of the call applied to the *present* contents, and nobody but the writer can have changed
these since its snapshot (`FreshBuffer`). `SameLayout` has that both modules lay out
buffers alike.

### The file

`WritersLoaded` is the step from types to safety: an owner within `fs::write` is writable,
has loaded its data and is held by the handle whose call it is. From it, only a model that
could be written changes the file, by writing it or by failing to (`RefusalsLeaveTheFile`).
For owners one at a time `ExclusiveInv` adds that an open model has every acknowledged
edit, unless it is about to replace the file (`Create`), and that its deferred data is the
file's of the moment it was parsed. Errors and deaths within a write come down to one
lemma (`StopsKeeps`): the model is as it was, or gone, and the file is no longer whole.
Who opens what such a write left starts from what is there (`OpenExistingFinds`).

### Collective files

The plans of all calls are written out as sequences (`LeafBarrier`, `LeafPlans`), which is
what a leaf may have left to do. `RootInv` says of a leaf: as long as its File would be
written by a drop (open, not attached, not read-only: `Exposing`), what it has left to do
begins with local steps that settle this, and none of them fails (`Settles`); so neither
an error nor a death comes while it is exposed. It needs no communication: that a leaf
does not write follows from the order of the steps in its own plan, for any number of
ranks. The proof showed two things the runs with three ranks had not: `Result` was wrong
for a single rank, which broadcasts and gathers to itself, and scripts that set up the
communicator twice were not excluded.

`CallsMatch` does need the communication. Frames carry no call number: what keeps a
receiver from taking the frame of another call is only that both ends count alike.
`LeafTable` and `RootTable` say so of the plans: a call sends and receives as many frames
on either way at rank 0 as at the other end (`NUp`, `NDown`). `UpTo(q)[k]` and
`DownTo(q)[k]` are the frames of the first `k` calls, so `UpSent(q)`, `UpGot(q)`,
`DownSent(q)`, `DownGot(q)` say how many have passed either end, and `CountInv` that the
difference is what is under way (`Balanced`). The rendezvous is the exception, for rank 0
accepts whoever comes: there `Accepting` is the number of ranks from which nothing has been
taken yet, which needs cardinalities and is over once call 1 is. It also says that the
plan of a synchronizing call on rank 0 has every receive before the releases that follow it
(`Followed`). Nobody leaves too early because a release of call `k` is a frame beyond
`DownTo(q)[k - 1]`, which rank 0 sends in call `k` after it has taken the frame of call `k` of
everybody (`Synchronized`).

For the values, `CallOf` turns the counts into calls: the next frame on either way belongs
to the call of whoever sends or takes it, and to no other (the sums rise, `OneCall`).
`ValueInv` says that frame `x` of an exchanging call carries what that call gives
(`UpFrames`, `DownFrames`), that a leaf has received nothing or the result, and that rank
0 has heard of the first `m` of its sources and hears of the others next, in order
(`RootGot`, `Hearing`). Nothing is assumed of deaths: a dead rank's frames stay, and those
that wait for it wait or fail. `Buffered` plays no part either; a drain is a step that
neither sends nor takes.

`SameBytes` follows from the counts and the contents of the file. A leaf that loads has one
of the two releases of its `open` and owes one frame: so rank 0 is in the very same call
(`LetIn`, `NotAhead`) and past its own load. `OpenState` says that from there on until its
next call rank 0 only waits, sends and attaches, and that the file still holds what it
loaded; when it fails in between its Drop may write the file, but only the same model
back. So every leaf loads what rank 0 has (`LeafLoads`), and nobody's model changes before
the call returns. That a leaf does not write the file meanwhile is `RootInv` again.

`FileComplete` is about what the ranks hold, and no rank holds the whole: until rank 0 has
merged the logs each one has its own rows only. The invariant therefore speaks of a model
that nobody need have. `M[k]` is what the first `k` calls of the script make of the file
but for the rows written since it was opened (`Chain`); it exists, because the metadata calls
change every copy alike, and is chosen anew from call `k` on when rank 0 opens a file in call
`k`, which no other rank has done yet (`RootLoads`). Every rank's copy has
the name and shape of `M[Done(r)]`, before its first write the data too, and the last entry
of its log is what its own row says (`RankBody`): earlier entries
of the log may say something else, and the fold of the merge must let the last one win
(`FoldLast`). In a close the log is in the rank's file until its first step, then the first
frame of that call on the way to rank 0 (`LeafBody`, which finds it there by the counts of
`CountInv`), then at its place in what rank 0 has received (`Collecting`). The merge goes
entry by entry (`FoldSteps`); logs of other ranks have other cells (`RowsApart`), so each
rank's row comes out as that rank has it (`Merges`, `Collected`). Nobody returns before rank
0 is past the merge, the save and the seal, by the counts of releases again (`HoldingOn`), and
what is saved is not written over: after the seal rank 0's drop finds a read-only file, and an
exit before it writes the same model again (`ShapeInv`, `SavedHalts`). The file on disk is a possible one for the
next open as long as rank 0 is between two files (`DiskBody`).

The hypothesis is `Proper(script)`, by phases of the file: created or opened, given its
dataset, changed, written, closed. A resize between a write and the close is a
counterexample without it (`Resizes` in `MCCollectiveFile`): the offsets in the logs are those
of the old layout. All scripts of the run but one are proper; that one, with a rename
after a write, fails in the merge.

### Resolution across files

`TypeOK` says that every place a resolution has come to is an object of its file. That is
not inductive: a walk goes on to the id of a hard link, returns to the walk below it in the
stack, or enters a file that a cache has a number for, while other threads edit links and
other programs write files. `IInv` has what these steps rely on. Contents of the disk, open
files and arenas being parsed are `WellFormed`, so a hard link leads into its own arena, and
an edit, a filled virtual dataset and a flush keep them so (`RelinkedIsWellFormed`,
`FilledIsWellFormed`, `FlushStep`). No open file ever loses an object, so frames of other
threads stay good whatever happens to the files (`StackKept`). A stack is `Stacked`: walks
that wait for each other, at most one opening above them, and parses above that; so what
`Arrive` and `SourceParsed` find below them is what they take it for. A file opened for a
link is read-only, which makes `ExternalsStayAsParsed` a matter of `Edit` alone.

`OneCopyPerThread` needs a fact about a moment that is over: a thread that is past its
lookup has no file of the name that it opened itself through the same parent (`GoodOpen`),
although other threads may have inserted theirs meanwhile, which its own insert replaces.
It holds at the lookup because a file once opened through a parent stays in the cache of
that parent under its name, perhaps as another thread's copy (`GoodFile`, `OpensOn`); it is
kept because another thread opens files in its own name only, and its own opening is over
when it inserts (`FirstCopy`). Depths are within their limits because `Enter` and
`SourceFrame` compare before they push. How a path resolves plays no part here, so nothing
about the recursion is needed; that calls return what the path denotes is
`QuietCallsExact`, which TLC checks.

### Saving and opening

Nothing here depends on what the blocks of an image hold; it is about the two recursions.
The writer decides to refuse from `Visiting` and `memo` alone, the groups it is within and
what is written, and from the limits of the object that it is writing (`Encodable`) and of
the shared messages so far (`StoresFit`), while `RefusedIffObstructed` speaks of all paths of the graph. `IInv` has
the two facts that tie them together. What is written is closed under links and nothing in
it is below itself, unsupported or beyond a limit (`AllWritten`): an object is added when all its targets
are in, and it is not itself in before that, so it cannot be below itself
(`OneMoreWritten`). Hence an image is unobstructed once the root is written
(`WrittenUnobstructed`). And the frames of the stack are a path of hard links from the
root that has not come back to itself (`PathFrom`), so that the target of a link of the
innermost group is below every group on it (`BelowAllGroups`), the root and itself
included when it is being visited. That needs that a path of distinct groups is no longer
than the arena (`PathIsShort`, by cardinalities), for `Below` descends as many times as
there are objects. The links to do are a permutation of those of the group, by
`StableSortPermutes`: ranks in a sort are an injection of finite sets, hence onto.

For the reader, a slot is taken and remembered in the same step, which keeps `OneSlotEach`
whatever the messages say (`NewSlot`). `ArenaStaysWellFormed` needs that the slot of a group
that is being read is the empty node until its frame is popped, and that no two frames have
the same slot (`GoodReaders`): otherwise damage could make an object unsupported that
already has links.

### What stays with TLC

* Liveness and fairness: `EveryoneReturns`, `AllFinish`, `Ends`, `CallsReturn`.
* Modules that need RECURSIVE operators, which take the prover its arithmetic:
  `CrossFileAnswers` (`QuietCallsExact`), `DatasetImage`, `StoredElements`
  and what they extend. What they compute by recursion over data is checked against its
  definition over bounded inputs. Where a recursion is over numbers it is a recursive function in `Layout`, and
  `BasicFacts` proves by induction over a set of naturals that it exists and is typed.
* Of `GraphImage`: `Faithful`, `GroupsSearchable`, and the reference counts of `ArenaExact`.
  They say what the walks over heaps, leaves and B-trees of an image yield of what was put
  there, which is induction over these trees, and for the counts that everything in the
  arena is reached by paths.
* `CreatedGroupResolves`: that two recursive walks along a path agree is induction over
  the path.
* The runs that expect a violation.

## 5. Not modelled, and why

`PROJECT.json` gives the state of each component. Not modelled at all: property lists
(records of settings, most of them accepted and ignored), errors and globals, typed
handles (what they keep alive is in `FileLifecycle`), and the compile-time descriptors of
`hdf5-types` and `hdf5-derive`, which have no state.

Left out of the modelled components:

* named types, comments and iteration of groups; null dataspaces; user blocks;
* bytes of messages, widths of their fields, checksums of metadata, character sets;
* refusals of a save for what is in a dataset: a filter that fails (`format/writer.rs:679`),
  a virtual dataset whose selection has no regular form (`format/vds.rs:344`; for points see
  section 6). `DatasetImage` and `StoredElements` have the filters and the selections that
  are accepted; `GraphImage` has datasets without data. The errors in `format/writer.rs:271`,
  `:1368` and `:1528` are for cases that the callers exclude, the one in `:551` is for data
  that is still deferred, which `FileLifecycle` has;
* deflate and the codecs of blosc other than blosclz (compression libraries),
  scale-offset of floats with a decimal factor, szip of three-byte elements (the code
  takes such pixels four bytes at a time) and of samples with their most significant
  byte first, numbers of gammas beyond the table of szip's second extension, floats of 16
  bits, big-endian fill values; the offset of bits within a datatype, which the reader
  ignores;
* printf-style source names of virtual datasets, how file names join directories;
* the arithmetic of `allreduce`, the `mpi-rs` transport, `spawn_workers`, connect retries.

Hazards that no property can speak for: two processes that create a file
(`hl/file.rs:383`), another owner's rewrite of a mapped file (`hl/file.rs:398`), edits
after the last `File` handle (`hl/file.rs:262`), the rendezvous of a process that never
comes (`mpi.rs:168`), overlapping writes of ranks (`mpi.rs:572`), a rank that goes on
after a failed close (`hl/file.rs:184`), renames onto a taken name (`hl/group.rs:285`),
an attribute handle after delete and re-create (`hl/container.rs:145`: a handle is a
name, by design).

What could come next: a proof of `FileComplete` for scripts with a second dataset, or with
metadata calls between a write and the close that leave the written rows where they are.

## 6. Where the code and its documentation differ

Shown by a run (`findings` in `PROJECT.json`):

* `relink` removes the link before it knows the new place (`hl/group.rs:266`): a
  refused rename deletes. `object_model_relink`.
* Strings in a chunked dataset are empty after the file is opened again
  (`format/reader.rs:1352`): a contiguous dataset is deferred only if it has none, a
  chunked one always. `dataset_vlen`.
* Integers that need every bit of their type come back from scale-offset as others: the
  encoder then stores them as they are (`format/filters.rs:702`), the decoder always adds
  the least value and takes all ones for the fill value. `scale_offset`.

Met while modelling, without a run of their own:

* szip cannot read back a chunk whose samples are no whole number of scanlines when a
  scanline is whole blocks, as of a one-dimensional chunk of 2000 bytes with blocks of
  8: `aec_decode` delivers samples a whole scanline at a time and reads on past the end
  of the stream (`format/szip.rs:179`). `ReadsExact` leaves such chunks out (`Spoilt`);
  the instance has one, and it is refused when the file is opened. A chunk smaller than a
  block is not rejected by the codec, as a comment says (`format/writer.rs:1770`).
* `FileState::resolve` has no depth limit (`model.rs:419`), `resolve_path_cross` has one
  (`hl/location.rs:85`): a soft link to itself overflows the stack in calls that use the
  former.
* The drawing of `SliceCount { start: 1, step: 3, count: 2, block: 1 }`
  (`hl/selection.rs:225-228`) shows three elements. The comment of the variant ("the given
  count of elements") and the code take two; `SlicesExact` follows these.
* Files are rewritten in place, without a temporary file or a rename: a full disk or a
  death within `fs::write` leaves a file that is cut off. `flush` and `close` report the
  error, `Drop` ignores it (`hl/file.rs:271`). A cut file may open without a word: what lies
  behind the cut becomes unsupported, object by object (`format/reader.rs:247-269`), and
  the message of a header in which the cut is, say an attribute, is left out
  (`format/reader.rs:580`).
* The writer has no indirect blocks in its heaps: a group or a dataset with more than
  about 512 KB of dense links or attributes can no longer be saved
  (`format/writer.rs:1132`), nor can the file.
* Two threads that write disjoint slices lose one of them (`hl/container.rs:684`), in a
  library that says it is always thread-safe (`lib.rs:165`).
* Objects of a heap are numbered with 16 bits (`format/writer.rs:509`), so a dataset
  loses its strings from the 65536th on at the next open; slice writes keep what they
  overwrite in the store and reach that number in time.
* With two indexes of shared messages for one type, the writer takes the first whose
  least size fits (`format/writer.rs:875`), the reader the first of the type
  (`format/reader.rs:885`), and reads the wrong heap.
* The number of messages in an index is written with 16 bits (`format/writer.rs:975`).
* Files that were opened lose their configuration of shared messages at the next flush:
  the reader never sets it.
* Point selections are accepted for virtual datasets and refused at every flush
  (`hl/dataset.rs:700`, `format/vds.rs`), so that the file can no longer be saved.
* A block of a stored slice without limit is walked element by element up to 2^64
  (`format/vds.rs:64`).
* `materialize_vds` fills virtual datasets in the order of the parse, and one whose source
  is a later virtual dataset of the same file gets its fill value
  (`format/reader.rs:148`).
* Payloads of variable-length attributes that are too large for a header are written
  twice.
* `hl/filters.rs:5-7` says that scale-offset and n-bit are parsed but not applied;
  `validate_writable` accepts them.

* A resize between a write and a collective close misplaces the other ranks' rows, for
  the write log has byte offsets of the old shape (`hl/container.rs:619`).
* A link added after opening a file with creation orders gets the order zero
  (`format/reader.rs:970`, `model.rs:368`) and comes before the older ones.
* Datasets with a finite maximum above their shape are created contiguous unless chunks
  are asked for, and can then not be resized (`hl/dataset.rs:771`).
* `Chunk::MinKB` is documented as a minimum size (`hl/dataset.rs:39`), `auto_chunk` makes
  chunks of at most that size (`hl/dataset.rs:935`).
* Chunks that are not allocated read as zero, whatever the fill value.
* A slice with a count may pass the bounds check one too far (`hl/selection.rs:871`);
  `linear_indices` refuses it, unless another axis selects nothing.
* Reading an empty list of points is a shape error (`hl/selection.rs:998`).
* Array indexes of chunks are read over the grid of the current shape
  (`format/reader.rs:1267`); the model's foreign files have no larger maximum.
* `refcount` can stay too high for good: `unlink` between the second and third critical
  section of `link_hard` of an object whose count is zero (`hl/group.rs:187`,
  `model.rs:293`).
* A virtual dataset may be created under a name that is taken (`hl/dataset.rs:753`; a
  test expects the refusal of other datasets, `tests/test_roundtrip.rs:424`), and its
  path is stored unsplit.
* `create_group("./a")` makes a group named `.` that no path resolves to
  (`hl/group.rs:125`).
* A write whose snapshot precedes another thread's resize stores a buffer of the old
  length under the new shape (`hl/container.rs:136`).
* `create_excl` tests for the file and truncates later (`hl/file.rs:383`): two processes
  may both succeed.
* Edits through an object handle after the last `File` handle is gone are lost
  (`hl/file.rs:262`).
* Symbol tables have no creation orders: every open draws them anew in the order of the
  names (`format/reader.rs:1007`).
* Links of types the reader does not know are dropped without notice, so that a file
  opened for writing loses them at its next flush (`format/reader.rs:967`).
* The superblock of a file whose root is not a symbol table says that a tree and a heap
  are cached and gives undefined addresses (`format/writer.rs:134`).
* `resize` fills new space with zeros whatever the dataset's fill value
  (`hl/dataset.rs:204-249`).
