--------------------------- MODULE StoredElements ---------------------------
(***************************************************************************)
(* What the elements of one dataset go through: from user memory into the  *)
(* model and back (Conversions), through the filters of a chunk into the   *)
(* file and back (Filters, PackedFilters, Szip, Blosc), and its type       *)
(* through a message (DatatypeMessages).  The dataset is one chunk         *)
(* of N elements, of which it uses Used; the rest of the chunk is padding. *)
(*                                                                         *)
(* The slots of variable-length elements are written with the store they   *)
(* refer to (the heap that holds it is part of DatasetImage).              *)
(***************************************************************************)
EXTENDS DatatypeMessages, Filters, PackedFilters, Szip, Blosc

CONSTANTS
    Declared,     \* [ty, filters, fill, views, chunk, coder]: the memory type, the filters and
                  \* the fill value of a dataset, the memory types it is read and written
                  \* with, the elements of its chunk and of the chunk's last axis, and what
                  \* szip (nn, ppb) and blosc (codec, shuffle) are asked to do
    Ways,         \* [mask, big, other, frugal]: ways another program stores a dataset
    Samples(_),   \* values of a memory type
    Inputs(_, _), \* what a dataset is written with from a memory type
    Mistakes(_, _), \* the bytes a byte of a dataset's chunk may become
    Used,         \* elements of the dataset
    MaxWrites,    \* writes of a behaviour
    Allowed       \* conversions callers allow

ASSUME SizeAssumption ==
    /\ Used \in Nat \ {0} /\ MaxWrites \in Nat
    /\ \A d \in Declared : Used <= d.chunk.n /\ d.chunk.n % d.chunk.row = 0

VARIABLES
    declared,   \* of Declared: what the dataset was created with
    model,      \* [ty, data, vlen]: its type, its bytes and its side store
    told,       \* the values that were last written, as far as its type has them
    image,      \* the chunk in the file: [message, filters, mask, bytes, vlen, spoilt], or NoImage
    phase,      \* "live", "saved", "opened", "refused": the last step of the file
    damaged,    \* whether the file was damaged
    writes      \* the number of writes

vars == <<declared, model, told, image, phase, damaged, writes>>

dtype == model.ty
N == declared.chunk.n
NoImage == [message |-> encode(IntType(1, FALSE)), filters |-> <<>>, mask |-> {}, bytes |-> Refused, vlen |-> <<>>, spoilt |-> FALSE]

-----------------------------------------------------------------------------
(* What a type can say of a value.  Numbers are counted in halves, texts   *)
(* are sequences without NUL, compounds are functions of field names.      *)
RECURSIVE Saying(_, _)
Saying(t, v) ==
    CASE t.is = "float" ->
            IF v \in {NaN, PosInf, NegInf} THEN v
            ELSE CHOOSE r \in {t.grain * (v \div t.grain), t.grain * (v \div t.grain + 1)} :
                    \/ 2 * (v - r) \in -(t.grain - 1) .. t.grain - 1
                    \/ 2 * (v - r) \in {t.grain, -t.grain} /\ r % (2 * t.grain) = 0
      [] t.is = "int" ->
            IF v = NaN THEN 0
            ELSE LET whole == CHOOSE n \in {v \div 2, v \div 2 + 1} :
                                /\ v >= 0 => 2 * n <= v /\ v < 2 * (n + 1)
                                /\ v < 0 => v <= 2 * n /\ 2 * (n - 1) < v
                     near == {whole, MinOf(t), MaxOf(t)} \cap (MinOf(t) .. MaxOf(t))
                 IN  2 * (CHOOSE n \in near :
                            \A m \in near : (whole - n) * (whole - n) <= (whole - m) * (whole - m))
      [] t.is = "fixed"  -> SubSeq(v, 1, Min({t.n, Len(v)}))
      [] t.is \in {"array", "varseq"} -> [i \in DOMAIN v |-> Saying(t.base, v[i])]
      [] t.is = "compound" -> [name \in FieldNames(t) |-> Saying(FieldNamed(t, name).ty, v[name])]
      [] OTHER -> v

(* A value in the memory of a program, and what a program sees there.      *)
RECURSIVE InMemory(_, _)
InMemory(t, v) ==
    CASE t.is = "int" -> LittleEndian(v \div 2, t.size)
      [] t.is = "float" -> LittleEndian(v, FloatBytes)
      [] t.is = "enum" -> LittleEndian(v, t.size)
      [] t.is = "bool" -> <<v>>
      [] t.is = "fixed" -> Resized(v, t.n)
      [] t.is = "varstr" -> Pointer(v \o <<0>>)
      [] t.is = "varseq" -> <<Len(v)>> \o Pointer(FlattenSeq([i \in DOMAIN v |-> InMemory(t.base, v[i])]))
      [] t.is = "array" -> FlattenSeq([i \in 1 .. t.n |-> InMemory(t.base, v[i])])
      [] t.is = "compound" ->
            Overlay(t.size, [k \in DOMAIN t.fields |->
                [at |-> t.fields[k].offset + 1,
                 bytes |-> InMemory(t.fields[k].ty, v[t.fields[k].name])]])

RECURSIVE Seen(_, _)
Seen(t, cells) ==
    CASE t.is = "int" -> 2 * (IF t.signed THEN Signed(cells) ELSE Unsigned(cells))
      [] t.is = "float" -> Signed(cells)
      [] t.is = "enum" -> Unsigned(cells)
      [] t.is = "bool" -> cells[1]
      [] t.is = "fixed" -> Trimmed(cells)
      [] t.is = "varstr" -> CString(cells[1].to)
      [] t.is = "varseq" ->
            [i \in 1 .. cells[1] |-> Seen(t.base, Cell(cells[2].to, MemSize(t.base), i))]
      [] t.is = "array" -> [i \in 1 .. t.n |-> Seen(t.base, Cell(cells, MemSize(t.base), i))]
      [] t.is = "compound" ->
            [name \in FieldNames(t) |->
                LET f == FieldNamed(t, name)
                IN  Seen(f.ty, SubSeq(cells, f.offset + 1, f.offset + MemSize(f.ty)))]

-----------------------------------------------------------------------------
(* lower_filters: a filter's client data come from the dataset; the width  *)
(* of scale-offset is that of integers, another class is none it has.      *)
Lowered(id) ==
    LET size == disk_size(dtype)
    IN  CASE id = "shuffle" -> [id |-> id, size |-> size]
          [] id = "nbit" -> [id |-> id, verbatim |-> TRUE, n |-> N, size |-> size,
                             precision |-> size * ByteBits, offset |-> 0]
          [] id = "scaleoffset" -> [id |-> id, n |-> N, size |-> size, int |-> dtype.is = "int",
                                    signed |-> dtype.is = "int" /\ dtype.signed, fill |-> declared.fill]
          [] id = "szip" -> [id |-> id, size |-> size, nn |-> declared.coder.nn, ppb |-> declared.coder.ppb,
                             pps |-> ScanlineOf(declared.coder.ppb, N, declared.chunk.row)]
          [] id = "blosc" -> [id |-> id, codec |-> declared.coder.codec,
                              shuffle |-> declared.coder.shuffle, typesize |-> size]
          [] OTHER -> [id |-> id]

(* With frugal, as other writers code it, where they may do otherwise.     *)
apply_one(f, data, frugal) ==
    CASE f.id = "shuffle"     -> Shuffled(f.size, data)
      [] f.id = "fletcher32"  -> data \o Fletcher32(data)
      [] f.id = "lzf"         -> LzfCompressed(data)
      [] f.id = "scaleoffset" -> IF f.int THEN ScaleOffsetCompressed(f, data) ELSE Refused
      [] f.id = "nbit"        -> data
      [] f.id = "szip"        -> SzipCompressed(f, data, frugal)
      [] f.id = "blosc"       -> IF frugal THEN BloscElsewhere(f, data) ELSE BloscCompressed(f, data)

reverse_one(f, data) ==
    CASE f.id = "shuffle"     -> Unshuffled(f.size, data)
      [] f.id = "fletcher32"  -> Checked(data)
      [] f.id = "lzf"         -> LzfDecompressed(data)
      [] f.id = "scaleoffset" -> IF f.int THEN ScaleOffsetDecompressed(f, data) ELSE Refused
      [] f.id = "nbit"        -> NbitDecompressed(f, data)
      [] f.id = "szip"        -> SzipDecompressed(f, data)
      [] f.id = "blosc"       -> BloscDecompressed(data)

(* apply, without the filters a mask skips (this library skips none).      *)
apply(filters, mask, data, frugal) ==
    FoldLeft(LAMBDA buf, i : IF buf = Refused \/ i \in mask THEN buf ELSE apply_one(filters[i], buf, frugal),
             data, [i \in DOMAIN filters |-> i])

reverse_masked(filters, mask, data) ==
    FoldRight(LAMBDA i, buf : IF buf = Refused \/ i \in mask THEN buf ELSE reverse_one(filters[i], buf),
              [i \in DOMAIN filters |-> i], data)

(* gather_chunk: what the dataset does not use of its chunk is zero.       *)
Gathered(data) == Resized(data, N * disk_size(dtype))

(* A faulty scatter: the padding comes along. *)
ScatteredWhole(ty, filters, chunk) == Resized(chunk, N * disk_size(ty))

(* scatter_chunk, and the sign n-bit left out.                             *)
Scattered(ty, filters, chunk) ==
    LET used == Resized(chunk, Used * disk_size(ty))
        packed == {i \in DOMAIN filters : filters[i].id = "nbit"}
        f == filters[Min(packed)]
    IN  IF packed = {} \/ ty.is # "int" THEN used
        ELSE IF f.verbatim \/ ~ty.signed \/ f.offset # 0 THEN used
        ELSE SignExtended([f EXCEPT !.n = Used], used)

-----------------------------------------------------------------------------
Filled ==
    IF declared.fill = <<>> THEN Zeros(Used * disk_size(to_disk_repr(declared.ty)))
    ELSE FlattenSeq([i \in 1 .. Used |-> declared.fill])

Contents(t, data, vlen) ==
    [i \in 1 .. Used |-> Seen(t, elem_to_mem(dtype, t, Cell(data, disk_size(dtype), i), vlen))]

Init ==
    /\ declared \in Declared
    /\ model = [ty |-> to_disk_repr(declared.ty), data |-> Filled, vlen |-> <<>>]
    /\ told = Contents(declared.ty, Filled, <<>>)
    /\ image = NoImage
    /\ phase = "live"
    /\ damaged = FALSE
    /\ writes = 0

Writable(src) ==
    /\ phase \in {"live", "opened"}
    /\ ~damaged
    /\ writes < MaxWrites
    /\ src \in declared.views
    /\ \E conv \in Allowed : conversion_path(src, dtype) <= conv

(* write: a new store for all the elements. *)
Write(src, values) ==
    /\ Writable(src)
    /\ LET new == mem_to_model(src, dtype, [i \in 1 .. Used |-> InMemory(src, values[i])], <<>>)
       IN  model' = [ty |-> dtype, data |-> new.data, vlen |-> new.vlen]
    /\ told' = [i \in 1 .. Used |-> Saying(dtype, values[i])]
    /\ phase' = "live"
    /\ writes' = writes + 1
    /\ UNCHANGED <<declared, image, damaged>>

(* write_slice of one element: its payloads come after those in the store, *)
(* and the payloads of the element it replaces stay there.                 *)
WriteSlice(src, i, value) ==
    /\ Writable(src)
    /\ LET size == disk_size(dtype)
           one == mem_to_model(src, dtype, <<InMemory(src, value)>>, model.vlen)
       IN  model' = [ty |-> dtype,
                     data |-> SubSeq(model.data, 1, (i - 1) * size) \o one.data
                              \o SubSeq(model.data, i * size + 1, Len(model.data)),
                     vlen |-> one.vlen]
    /\ told' = [told EXCEPT ![i] = Saying(dtype, value)]
    /\ phase' = "live"
    /\ writes' = writes + 1
    /\ UNCHANGED <<declared, image, damaged>>

(* What a filter writes is not what it reads: the values of a chunk with   *)
(* scale-offset need every bit of their type, or the samples of one with   *)
(* szip are no whole number of its scanlines.                              *)
Spoilt(filters, mask) ==
    \E k \in DOMAIN filters \ mask :
        LET f == filters[k]
        IN  \/ f.id = "scaleoffset" /\ f.int /\ NeedsAllBits(f, Gathered(model.data))
            \/ f.id = "szip" /\ LeavesARest(f, N)

DeclaredFilters == [k \in DOMAIN declared.filters |-> Lowered(declared.filters[k])]

(* The chunk and the type, with the filters of mask left out; stored is    *)
(* [bytes, vlen], the elements in the message's order.                     *)
Chunked(message, stored, mask, frugal) ==
    /\ image' = [message |-> message, filters |-> DeclaredFilters, mask |-> mask, vlen |-> stored.vlen,
                 bytes |-> apply(DeclaredFilters, mask, Gathered(stored.bytes), frugal),
                 spoilt |-> image.spoilt \/ Spoilt(DeclaredFilters, mask)]
    /\ image'.bytes # Refused

Save ==
    /\ phase \in {"live", "opened"}
    /\ ~damaged
    /\ Chunked(encode(dtype), [bytes |-> model.data, vlen |-> model.vlen], {}, FALSE)
    /\ phase' = "saved"
    /\ UNCHANGED <<declared, model, told, damaged, writes>>

(* Another program writes the same values: it may use another byte order   *)
(* and other classes of types, skip filters, and choose codings of szip    *)
(* and blosc that this library never does.  Scale-offset, n-bit and szip   *)
(* with big-endian numbers are refused or not asked for.                   *)
Packing == {"scaleoffset", "nbit", "szip"}

SaveElsewhere(way) ==
    LET message == Abroad(encode(dtype), way.big, way.other)
        size == disk_size(dtype)
        Element(i, v) == LaidOut(message, Cell(model.data, size, i), v)
        all == InTurn(Element, Used, model.vlen)
    IN  /\ phase = "live"
        /\ way.mask \subseteq DOMAIN declared.filters
        /\ way.big # {} => \A k \in DOMAIN declared.filters : declared.filters[k] \notin Packing
        /\ way.frugal => "szip" \notin Range(declared.filters) \/ ~LeavesARest(Lowered("szip"), N)
        /\ Chunked(message, [bytes |-> FlattenSeq(all.parts), vlen |-> all.vlen], way.mask, way.frugal)
        /\ phase' = "saved"
        /\ UNCHANGED <<declared, model, told, damaged, writes>>

Packable(precision) ==
    /\ dtype.is = "int"
    /\ declared.filters = <<"nbit">>
    /\ \A i \in 1 .. Used :
         told[i] \div 2 \in IF dtype.signed THEN -(2 ^ (precision - 1)) .. 2 ^ (precision - 1) - 1
                            ELSE 0 .. 2 ^ precision - 1

(* The reader does not look at a type's own offset: it sees the bits below *)
(* the value as part of it.                                                *)
SavePacked(precision, offset) ==
    LET f == [Lowered("nbit") EXCEPT !.verbatim = FALSE, !.precision = precision, !.offset = offset]
        Shifted(cell) == LittleEndian(Unsigned(cell) * 2 ^ offset, Len(cell))
    IN  /\ phase = "live"
        /\ Packable(precision)
        /\ offset # 0 => ~dtype.signed
        /\ precision + offset <= CellSize(f)
        /\ image' = [message |-> encode(dtype), filters |-> <<f>>, mask |-> {}, vlen |-> <<>>, spoilt |-> FALSE,
                     bytes |-> Packed(NbitFields(f), [i \in 1 .. N |->
                                   Shifted(Cell(Gathered(model.data), f.size, i))])]
        /\ model' = [model EXCEPT !.data = FlattenSeq([i \in 1 .. Used |->
                                   Shifted(Cell(model.data, f.size, i))])]
        /\ told' = [i \in 1 .. Used |-> told[i] * 2 ^ offset]
        /\ phase' = "saved"
        /\ UNCHANGED <<declared, damaged, writes>>

Damage(i, b) ==
    /\ phase = "saved"
    /\ ~damaged
    /\ ~has_vlen(dtype)
    /\ image.bytes[i] # b
    /\ image' = [image EXCEPT !.bytes[i] = b]
    /\ damaged' = TRUE
    /\ UNCHANGED <<declared, model, told, phase, writes>>

Open ==
    /\ phase = "saved"
    /\ LET ty == decode(image.message) IN
       \E chunk \in {reverse_masked(image.filters, image.mask, image.bytes)} :
          \/ /\ chunk = Refused
             /\ phase' = "refused"
             /\ UNCHANGED model
          \/ /\ chunk # Refused
             /\ phase' = "opened"
             /\ \E read \in {Normalized(image.message, Scattered(ty, image.filters, chunk), image.vlen, Used)} :
                  model' = [ty |-> ty, data |-> read.bytes, vlen |-> read.vlen]
    /\ UNCHANGED <<declared, told, image, damaged, writes>>

Next ==
    \/ \E src \in declared.views :
          \/ \E values \in Inputs(declared, src) : Write(src, values)
          \/ \E i \in {1, Used}, v \in Samples(src) : WriteSlice(src, i, v)
    \/ Save
    \/ \E way \in Ways : SaveElsewhere(way)
    \/ \E precision \in 1 .. 2 * ByteBits, offset \in 0 .. ByteBits + 1 : SavePacked(precision, offset)
    \/ \E i \in DOMAIN image.bytes : \E b \in Mistakes(declared, image.bytes[i]) : Damage(i, b)
    \/ Open

Spec == Init /\ [][Next]_vars

-----------------------------------------------------------------------------
(* Data, a stored chunk and slots are bytes of their lengths.              *)
TypeOK ==
    /\ declared \in Declared
    /\ phase \in {"live", "saved", "opened", "refused"}
    /\ Len(model.data) = Used * disk_size(dtype)
    /\ \A k \in DOMAIN model.data : model.data[k] \in Byte
    /\ image # NoImage => \A k \in DOMAIN image.bytes : image.bytes[k] \in Byte

(* The dataset keeps its type, an enumeration of FALSE and TRUE in one     *)
(* byte apart, which becomes a Boolean (datatype.rs decode_ordered).  Read *)
(* with any type a conversion leads to, before a save and after any number *)
(* of saves and opens, it has the values that were last written, each as   *)
(* near as the two types can say it, whatever the filters, the byte order  *)
(* and the codings are (container.rs read_elements, write_elements;        *)
(* convert.rs; reader.rs apply_order; filters.rs, szip.rs, blosc.rs).      *)
(* Chunks that a filter cannot read back (Spoilt) are not counted: see     *)
(* ScaleOffsetExact.                                                       *)
ReadsExact ==
    ~damaged /\ ~image.spoilt =>
        /\ phase # "refused"
        /\ \/ dtype = to_disk_repr(declared.ty)
           \/ /\ dtype = BoolType /\ declared.ty.is = "enum" /\ declared.ty.size = 1
              /\ {m.name : m \in Range(declared.ty.members)} = {"FALSE", "TRUE"}
        /\ \A t \in declared.views :
             conversion_path(dtype, t) <= SoftPath =>
                 Contents(t, model.data, model.vlen) = [i \in 1 .. Used |-> Saying(t, told[i])]

(* A chunk whose outermost filter is fletcher32 is never opened with a     *)
(* byte that another program, or the disk, changed (reverse_one).          *)
DamageNoticed ==
    /\ damaged /\ phase = "opened"
    /\ image.filters # <<>> /\ Len(image.filters) \notin image.mask
    => Last(image.filters).id # "fletcher32"

(* README.md:269 "ScaleOffset and N-bit encoding (libhdf5-verified chunk   *)
(* formats)": integers come back from a chunk with scale-offset.           *)
ScaleOffsetExact ==
    ~damaged => Contents(declared.ty, model.data, model.vlen)
                    = [i \in 1 .. Used |-> Saying(declared.ty, told[i])]
=============================================================================
