---------------------------- MODULE Conversions ----------------------------
(***************************************************************************)
(* Elements between user memory and the file (format/convert.rs).          *)
(*                                                                         *)
(* A datatype is a record: an integer of size bytes, a float (a multiple   *)
(* of grain halves), a Boolean, an enumeration, a fixed-length string, a   *)
(* variable-length string or sequence, an array, or a compound of named    *)
(* fields.  The two character sets of strings convert alike and are one.   *)
(*                                                                         *)
(* Memory is a sequence of cells.  A cell is a byte or a pointer, and a    *)
(* pointer is the cells it points to.  Stored bytes have a slot <<length,  *)
(* index>> instead, the index into the side store `vlen', 0 for nothing.   *)
(* A conversion carries a pair [bytes, vlen].                              *)
(***************************************************************************)
EXTENDS Bytes, FiniteSetsExt

IntType(size, signed) == [is |-> "int", size |-> size, signed |-> signed]
FloatType(grain)      == [is |-> "float", grain |-> grain]
BoolType              == [is |-> "bool"]
EnumType(size, signed, members) ==
    [is |-> "enum", size |-> size, signed |-> signed, members |-> members]
FixedType(n)          == [is |-> "fixed", n |-> n]
VarStr                == [is |-> "varstr"]
VarSeq(base)          == [is |-> "varseq", base |-> base]
ArrayType(base, n)    == [is |-> "array", base |-> base, n |-> n]
Compound(fields, size) == [is |-> "compound", fields |-> fields, size |-> size]

Numeric(t) == t.is \in {"int", "float"}
IsText(t)  == t.is \in {"fixed", "varstr"}

FieldNamed(t, name) == SelectSeq(t.fields, LAMBDA f : f.name = name)[1]
FieldNames(t) == {t.fields[k].name : k \in DOMAIN t.fields}

FloatBytes == 3

(* size(), in memory: a pointer is one cell, hvl_t a length and a pointer. *)
RECURSIVE MemSize(_)
MemSize(t) ==
    CASE t.is \in {"int", "enum"} -> t.size
      [] t.is = "float"    -> FloatBytes
      [] t.is \in {"bool", "varstr"} -> 1
      [] t.is = "fixed"    -> t.n
      [] t.is = "varseq"   -> 2
      [] t.is = "array"    -> t.n * MemSize(t.base)
      [] t.is = "compound" -> t.size

RECURSIVE disk_size(_)
disk_size(t) ==
    CASE t.is \in {"varstr", "varseq"} -> 2
      [] t.is = "array" -> t.n * disk_size(t.base)
      [] OTHER -> MemSize(t)

RECURSIVE has_vlen(_)
has_vlen(t) ==
    CASE t.is \in {"varstr", "varseq"} -> TRUE
      [] t.is = "array"    -> has_vlen(t.base)
      [] t.is = "compound" -> \E k \in DOMAIN t.fields : has_vlen(t.fields[k].ty)
      [] OTHER -> FALSE

(* Fields come in the order of their indices; only those of a compound     *)
(* that holds something of variable length are packed.                     *)
RECURSIVE to_disk_repr(_)
to_disk_repr(t) ==
    CASE t.is \in {"array", "varseq"} -> [t EXCEPT !.base = to_disk_repr(@)]
      [] t.is = "compound" ->
            LET sorted == SortSeq(t.fields, LAMBDA f, g : f.index < g.index)
                fields == [k \in DOMAIN sorted |-> [sorted[k] EXCEPT !.ty = to_disk_repr(@)]]
                Before(k) == FoldLeft(LAMBDA n, f : n + disk_size(f.ty), 0, SubSeq(fields, 1, k - 1))
            IN  IF has_vlen(t)
                THEN Compound([k \in DOMAIN fields |-> [fields[k] EXCEPT !.offset = Before(k)]],
                              Before(Len(fields) + 1))
                ELSE Compound(fields, t.size)
      [] OTHER -> t

-----------------------------------------------------------------------------
(* Numbers in transit are counted in halves.  A float of a finite value is *)
(* a multiple of its grain below FloatLimit; beyond that is infinity.      *)
FloatLimit == Base ^ FloatBytes \div 2 - 4
PosInf == FloatLimit + 3
NegInf == -PosInf
NaN    == -PosInf - 1

(* To the nearest multiple, of two to the even one.                        *)
Rounded(v, grain) ==
    LET low == v \div grain
        rest == v % grain
        up == \/ 2 * rest > grain
              \/ 2 * rest = grain /\ low % 2 = 1
    IN  IF v \in {NaN, PosInf, NegInf} THEN v
        ELSE (IF up THEN low + 1 ELSE low) * grain

MinOf(t) == IF t.signed THEN -(Base ^ t.size \div 2) ELSE 0
MaxOf(t) == IF t.signed THEN Base ^ t.size \div 2 - 1 ELSE Base ^ t.size - 1

Clamped(v, low, high) == IF v < low THEN low ELSE IF v > high THEN high ELSE v

(* `as' of a float: towards zero, and a NaN is 0.                          *)
Truncated(v) ==
    IF v = NaN THEN 0 ELSE IF v < 0 THEN -((-v) \div 2) ELSE v \div 2

read_numeric(t, s) ==
    IF t.is = "float" THEN [float |-> TRUE, v |-> Signed(s)]
    ELSE [float |-> FALSE, v |-> IF t.signed THEN Signed(s) ELSE Unsigned(s)]

write_numeric(t, n) ==
    IF t.is = "float" THEN LittleEndian(Rounded(IF n.float THEN n.v ELSE 2 * n.v, t.grain), FloatBytes)
    ELSE LittleEndian(Clamped(IF n.float THEN Truncated(n.v) ELSE n.v, MinOf(t), MaxOf(t)), t.size)

-----------------------------------------------------------------------------
(* check_conversion: the kind of the path, none (Impassable) above every   *)
(* kind a caller may allow.                                                *)
NoOp == 1
HardPath == 2
SoftPath == 3
Impassable == 4

RECURSIVE conversion_path(_, _)
conversion_path(src, dst) ==
    IF src = dst THEN NoOp
    ELSE IF Numeric(src) /\ Numeric(dst) THEN HardPath
    ELSE IF IsText(src) /\ IsText(dst) THEN SoftPath
    ELSE IF {src.is, dst.is} = {"enum", "bool"} /\ MemSize(src) = MemSize(dst) THEN SoftPath
    ELSE IF src.is # dst.is THEN Impassable
    ELSE IF src.is = "varseq" THEN conversion_path(src.base, dst.base)
    ELSE IF src.is = "array" /\ src.n = dst.n THEN conversion_path(src.base, dst.base)
    ELSE IF src.is = "compound" /\ Len(src.fields) = Len(dst.fields)
    THEN IF ~(FieldNames(dst) \subseteq FieldNames(src)) THEN Impassable
         ELSE Max({NoOp} \cup
                  {LET to == dst.fields[k]
                       from == FieldNamed(src, to.name)
                   IN  Max({conversion_path(from.ty, to.ty),
                            IF from.offset = to.offset THEN NoOp ELSE SoftPath}) :
                   k \in DOMAIN dst.fields})
    ELSE Impassable

-----------------------------------------------------------------------------
(* The cells up to the first NUL, and those up to trailing NULs.           *)
CString(cells) ==
    LET nuls == {k \in DOMAIN cells : cells[k] = 0}
    IN  IF nuls = {} THEN cells ELSE SubSeq(cells, 1, Min(nuls) - 1)

Trimmed(cells) ==
    SubSeq(cells, 1, Max({0} \cup {k \in DOMAIN cells : cells[k] # 0}))

Pointer(cells) == <<[to |-> cells]>>

Stored(vlen, slot) == IF slot[2] \in DOMAIN vlen THEN vlen[slot[2]] ELSE <<>>

(* A payload pushed onto the side store, and the slot that refers to it.   *)
Pushed(vlen, length, payload) ==
    IF length = 0 THEN [bytes |-> <<0, 0>>, vlen |-> vlen]
    ELSE [bytes |-> <<length, Len(vlen) + 1>>, vlen |-> Append(vlen, payload)]

(* Bytes with the conversions of its parts put in, in their order: parts   *)
(* are [at, bytes].                                                        *)
Overlay(size, parts) ==
    [k \in 1 .. size |->
        LET here == {p \in DOMAIN parts : k \in parts[p].at .. parts[p].at + Len(parts[p].bytes) - 1}
        IN  IF here = {} THEN 0 ELSE parts[Max(here)].bytes[k - parts[Max(here)].at + 1]]

RECURSIVE elem_to_mem(_, _, _, _)
elem_to_mem(src, dst, s, vlen) ==
    CASE src.is = "varstr" /\ dst.is = "varstr" ->
            Pointer(SubSeq(Stored(vlen, s), 1, Min({s[1], Len(Stored(vlen, s))})) \o <<0>>)
      [] src.is = "varstr" /\ dst.is = "fixed" ->
            Resized(SubSeq(Stored(vlen, s), 1, Min({s[1], Len(Stored(vlen, s))})), dst.n)
      [] src.is = "fixed" /\ dst.is = "varstr" -> Pointer(Trimmed(s) \o <<0>>)
      [] src.is = "fixed" /\ dst.is = "fixed" -> Resized(s, dst.n)
      [] src.is = "varseq" ->
            LET Element(i) == elem_to_mem(src.base, dst.base,
                                          Cell(Stored(vlen, s), disk_size(src.base), i), vlen)
            IN  <<s[1]>> \o Pointer(FlattenSeq([i \in 1 .. s[1] |-> Element(i)]))
      [] src.is = "array" ->
            FlattenSeq([i \in 1 .. src.n |->
                elem_to_mem(src.base, dst.base, Cell(s, disk_size(src.base), i), vlen)])
      [] src.is = "compound" ->
            Overlay(dst.size, [k \in DOMAIN dst.fields |->
                LET to == dst.fields[k]
                    from == FieldNamed(src, to.name)
                    part == SubSeq(s, from.offset + 1, from.offset + disk_size(from.ty))
                IN  [at |-> to.offset + 1, bytes |-> elem_to_mem(from.ty, to.ty, part, vlen)]])
      [] Numeric(src) /\ src # dst -> write_numeric(dst, read_numeric(src, s))
      [] OTHER -> s

(* The conversions of count parts one after another, each with the store   *)
(* the one before left: Part(i, vlen) is a pair [bytes, vlen].             *)
InTurn(Part(_, _), count, vlen) ==
    FoldLeft(LAMBDA done, i : LET one == Part(i, done.vlen)
                              IN  [parts |-> Append(done.parts, one.bytes), vlen |-> one.vlen],
             [parts |-> <<>>, vlen |-> vlen], [i \in 1 .. count |-> i])

RECURSIVE elem_to_model(_, _, _, _)
elem_to_model(src, dst, s, vlen) ==
    CASE src.is = "varstr" /\ dst.is = "varstr" ->
            Pushed(vlen, Len(CString(s[1].to)), CString(s[1].to))
      [] src.is = "varstr" /\ dst.is = "fixed" ->
            [bytes |-> Resized(CString(s[1].to), dst.n), vlen |-> vlen]
      [] src.is = "fixed" /\ dst.is = "varstr" -> Pushed(vlen, Len(Trimmed(s)), Trimmed(s))
      [] src.is = "fixed" /\ dst.is = "fixed" -> [bytes |-> Resized(s, dst.n), vlen |-> vlen]
      [] src.is = "varseq" ->
            LET Element(i, v) == elem_to_model(src.base, dst.base,
                                               Cell(s[2].to, MemSize(src.base), i), v)
                inner == InTurn(Element, s[1], vlen)
            IN  Pushed(inner.vlen, s[1], FlattenSeq(inner.parts))
      [] src.is = "array" ->
            LET Element(i, v) == elem_to_model(src.base, dst.base,
                                               Cell(s, MemSize(src.base), i), v)
                inner == InTurn(Element, src.n, vlen)
            IN  [bytes |-> FlattenSeq(inner.parts), vlen |-> inner.vlen]
      [] src.is = "compound" ->
            LET From(k) == FieldNamed(src, dst.fields[k].name)
                Field(k, v) == elem_to_model(From(k).ty, dst.fields[k].ty,
                                   SubSeq(s, From(k).offset + 1, From(k).offset + MemSize(From(k).ty)), v)
                inner == InTurn(Field, Len(dst.fields), vlen)
            IN  [bytes |-> Overlay(disk_size(dst), [k \in DOMAIN dst.fields |->
                                [at |-> dst.fields[k].offset + 1, bytes |-> inner.parts[k]]]),
                 vlen |-> inner.vlen]
      [] Numeric(src) /\ src # dst ->
            [bytes |-> write_numeric(dst, read_numeric(src, s)), vlen |-> vlen]
      [] OTHER -> [bytes |-> s, vlen |-> vlen]

(* All n elements. *)
model_to_mem(src, dst, data, vlen, n) ==
    [i \in 1 .. n |-> elem_to_mem(src, dst, Cell(data, disk_size(src), i), vlen)]

mem_to_model(src, dst, elements, vlen) ==
    LET Element(i, v) == elem_to_model(src, dst, elements[i], v)
        all == InTurn(Element, Len(elements), vlen)
    IN  [data |-> FlattenSeq(all.parts), vlen |-> all.vlen]
=============================================================================
