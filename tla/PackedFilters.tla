--------------------------- MODULE PackedFilters ---------------------------
(***************************************************************************)
(* The two filters that pack cells into streams of bits                    *)
(* (format/filters.rs): scale-offset of integers, and n-bit, of which the  *)
(* library writes only the form that packs nothing.  A cell is cut into    *)
(* fields: the low `width' bits of one of its bytes, above `shift' others. *)
(***************************************************************************)
EXTENDS Bytes, FiniteSetsExt, Strict

CellSize(p) == p.size * ByteBits

Packed(fields, cells) ==
    LET CellBits(cell) ==
            FlattenSeq([f \in DOMAIN fields |->
                Bits((cell[fields[f].byte] \div 2 ^ fields[f].shift) % (2 ^ fields[f].width),
                     fields[f].width)])
    IN  BytesOf(FlattenSeq([i \in DOMAIN cells |-> CellBits(cells[i])]))

(* unpack_bits, for n cells: bytes that no field names stay zero.          *)
WidthOf(fields) == FoldLeft(LAMBDA w, f : w + f.width, 0, fields)

FieldAt(fields, bits, f, at) ==
    OfBits(SubSeq(bits, at + 1, at + fields[f].width)) * 2 ^ fields[f].shift

ByteOf(fields, bits, b, at) ==
    LET here == {f \in DOMAIN fields : fields[f].byte = b}
    IN  IF here = {} THEN 0
        ELSE FieldAt(fields, bits, Min(here), at + WidthOf(SubSeq(fields, 1, Min(here) - 1)))

Unpacked(fields, n, size, stream) ==
    IF n * WidthOf(fields) > Len(stream) * ByteBits THEN Refused
    ELSE Of(BitsOf(stream), LAMBDA bits :
            FlattenSeq([i \in 1 .. n |->
                [b \in 1 .. size |-> ByteOf(fields, bits, b, (i - 1) * WidthOf(fields))]]))

-----------------------------------------------------------------------------
(* Scale-offset.  The parameters: size and sign of the type, the number of *)
(* cells, and the fill value, if one is defined.                           *)
(* So many bits count num values. *)
SoLog2(num) == IF num <= 1 THEN 0 ELSE Min({b \in 0 .. 2 * WordBytes * ByteBits : 2 ^ b >= num})

(* From the byte the highest bits are in down to the lowest one. *)
ScaleFields(size, minbits) ==
    LET unused == size * ByteBits - minbits
        top == size - unused \div ByteBits
    IN  [k \in 1 .. top |->
            [byte |-> top + 1 - k, shift |-> 0,
             width |-> IF k = 1 THEN ByteBits - (unused % ByteBits) ELSE ByteBits]]

Key(p, cell) == IF p.signed THEN Signed(cell) ELSE Unsigned(cell)

IsFill(p, cell) == p.fill # <<>> /\ cell = p.fill

(* The keys that are no fill value; 0 stands for them if there is none.    *)
Keys(p, data) ==
    LET keys == {Key(p, Cell(data, p.size, i)) :
                    i \in {j \in 1 .. p.n : ~IsFill(p, Cell(data, p.size, j))}}
    IN  IF keys = {} THEN {0} ELSE keys

(* How many values lie between the least and the greatest key, as a u64.   *)
Span(p, data) == (Max(Keys(p, data)) - Min(Keys(p, data)) + 1) % Word

(* A faulty count: no value is set apart for the fill value.               *)
MinBitsNoFill(p, data) == Min({CellSize(p), SoLog2(Span(p, data))})

MinBits(p, data) ==
    LET span == Span(p, data)
    IN  Min({CellSize(p), SoLog2(IF p.fill = <<>> THEN span ELSE (span + 1) % Word)})

(* scaleoffset_compress.  The header: the bits of a cell and the least key *)
(* as a word; one byte more than the bits need, at most, follows.          *)
OffsetOf(p, minbits, low, cell) ==
    IF minbits = CellSize(p) THEN cell
    ELSE IF IsFill(p, cell) THEN LittleEndian(2 ^ minbits - 1, p.size)
    ELSE LittleEndian(Key(p, cell) - low, p.size)

OffsetsPacked(p, minbits, low, data) ==
    IF minbits = 0 THEN <<>>
    ELSE Packed(ScaleFields(p.size, minbits),
                [i \in 1 .. p.n |-> OffsetOf(p, minbits, low, Cell(data, p.size, i))])

ScaleOffsetCompressed(p, data) ==
    IF Len(data) < p.n * p.size THEN Refused
    ELSE Of([bits |-> MinBits(p, data), low |-> Min(Keys(p, data))], LAMBDA h :
            <<h.bits>> \o LittleEndian(h.low, WordBytes)
            \o Of(OffsetsPacked(p, h.bits, h.low, data), LAMBDA packed :
                  Resized(packed, Max({Len(packed), ((p.n * h.bits) \div ByteBits) + 1}))))

(* scaleoffset_decompress. *)
ValueOf(p, minbits, low, raw) ==
    IF p.fill # <<>> /\ Unsigned(raw) = 2 ^ minbits - 1 THEN p.fill
    ELSE LittleEndian(Unsigned(raw) + low, p.size)

OffsetsUnpacked(p, minbits, stream) ==
    IF minbits = 0 THEN Zeros(p.n * p.size)
    ELSE Unpacked(ScaleFields(p.size, minbits), p.n, p.size, stream)

ScaleOffsetDecompressed(p, data) ==
    IF Len(data) < WordBytes + 1 THEN Refused
    ELSE IF data[1] > CellSize(p) THEN Refused
    ELSE Of(OffsetsUnpacked(p, data[1], SubSeq(data, WordBytes + 2, Len(data))), LAMBDA raws :
            IF raws = Refused THEN Refused
            ELSE FlattenSeq([i \in 1 .. p.n |->
                    ValueOf(p, data[1], Unsigned(SubSeq(data, 2, WordBytes + 1)), Cell(raws, p.size, i))]))

(* The cells need every bit of their type, or one more: offsets from the   *)
(* least key are then not what is stored.                                  *)
NeedsAllBits(p, data) ==
    Max(Keys(p, data)) - Min(Keys(p, data)) + (IF p.fill = <<>> THEN 1 ELSE 2)
        > 2 ^ (CellSize(p) - 1)

-----------------------------------------------------------------------------
(* N-bit: precision bits of each cell, above offset others.                *)
NbitFields(p) ==
    LET bits == p.precision + p.offset
        top == (bits + ByteBits - 1) \div ByteBits
        bottom == p.offset \div ByteBits + 1
        unused == CellSize(p) - bits
    IN  IF top = bottom
        THEN <<[byte |-> top, width |-> p.precision, shift |-> p.offset % ByteBits]>>
        ELSE [k \in 1 .. top - bottom + 1 |->
                LET b == top + 1 - k
                    low == IF b = bottom THEN p.offset % ByteBits ELSE 0
                    high == IF b = top THEN unused % ByteBits ELSE 0
                IN  [byte |-> b, shift |-> low, width |-> ByteBits - low - high]]

(* nbit_decompress *)
NbitDecompressed(p, data) ==
    IF p.verbatim THEN data
    ELSE IF p.precision + p.offset > CellSize(p) \/ p.precision = 0 THEN Refused
    ELSE Unpacked(NbitFields(p), p.n, p.size, data)

(* read_dataset_data: the sign of integers of fewer bits than their type.  *)
SignExtended(p, data) ==
    FlattenSeq([i \in 1 .. p.n |->
        LET cell == Cell(data, p.size, i)
        IN  IF (Unsigned(cell) \div 2 ^ (p.precision - 1)) % 2 = 0 THEN cell
            ELSE LittleEndian((Unsigned(cell) % (2 ^ p.precision)) - 2 ^ p.precision, p.size)])
=============================================================================
