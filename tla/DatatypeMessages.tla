-------------------------- MODULE DatatypeMessages --------------------------
(***************************************************************************)
(* Datatype messages (format/datatype.rs): what a type is written as, what *)
(* a message is read as, and the byte order it tells of its data, which    *)
(* the reader makes little-endian (apply_order, format/reader.rs).  A      *)
(* message is a tree; how its fields are laid out in bytes is left out.    *)
(*                                                                         *)
(* What other programs write and this library only reads: big-endian       *)
(* numbers, bit fields, opaque data and references, arrays of several axes.*)
(***************************************************************************)
EXTENDS Conversions, Strict

FixedPoint(size, signed) == [class |-> "int", size |-> size, signed |-> signed, big |-> FALSE]

Enumeration(size, signed, members) ==
    [class |-> "enum", base |-> FixedPoint(size, signed),
     members |-> [k \in DOMAIN members |->
                    [name |-> members[k].name, value |-> LittleEndian(members[k].value, size)]]]

FalseTrue == <<[name |-> "FALSE", value |-> 0], [name |-> "TRUE", value |-> 1]>>

RECURSIVE encode(_)
encode(t) ==
    CASE t.is = "int"    -> FixedPoint(t.size, t.signed)
      [] t.is = "float"  -> [class |-> "float", grain |-> t.grain, big |-> FALSE]
      [] t.is = "bool"   -> Enumeration(1, TRUE, FalseTrue)
      [] t.is = "enum"   -> Enumeration(t.size, t.signed, t.members)
      [] t.is = "fixed"  -> [class |-> "string", size |-> t.n]
      [] t.is = "varstr" -> [class |-> "vlen", string |-> TRUE, base |-> FixedPoint(1, FALSE)]
      [] t.is = "varseq" -> [class |-> "vlen", string |-> FALSE, base |-> encode(t.base)]
      [] t.is = "array"  -> [class |-> "array", dims |-> <<t.n>>, base |-> encode(t.base)]
      [] t.is = "compound" ->
            LET sorted == SortSeq(t.fields, LAMBDA f, g : f.index < g.index)
            IN  [class |-> "compound", size |-> t.size,
                 fields |-> [k \in DOMAIN sorted |->
                    [name |-> sorted[k].name, offset |-> sorted[k].offset, ty |-> encode(sorted[k].ty)]]]

(* An enumeration that says no more than a Boolean is one.                 *)
is_bool_enum(e) ==
    /\ e.size = 1
    /\ Len(e.members) = 2
    /\ {FalseTrue[1], FalseTrue[2]} \subseteq {e.members[k] : k \in DOMAIN e.members}

(* A faulty reading: the members' values are taken as little-endian.       *)
MemberAsIs(m, member) == [name |-> member.name, value |-> Unsigned(member.value)]

MemberOf(m, member) ==
    [name |-> member.name,
     value |-> Unsigned(IF m.base.big THEN Reverse(member.value) ELSE member.value)]

EnumOf(m) ==
    EnumType(m.base.size, m.base.signed, [k \in DOMAIN m.members |-> MemberOf(m, m.members[k])])

(* decode_ordered, of the type. *)
RECURSIVE decode(_)
decode(m) ==
    CASE m.class = "int"      -> IntType(m.size, m.signed)
      [] m.class = "bitfield" -> IntType(m.size, FALSE)
      [] m.class = "float"    -> FloatType(m.grain)
      [] m.class = "string"   -> FixedType(m.size)
      [] m.class = "opaque"   -> ArrayType(IntType(1, FALSE), m.size)
      [] m.class = "enum"     -> IF is_bool_enum(EnumOf(m)) THEN BoolType ELSE EnumOf(m)
      [] m.class = "vlen"     -> IF m.string THEN VarStr ELSE VarSeq(decode(m.base))
      [] m.class = "array"    -> FoldRight(LAMBDA n, t : ArrayType(t, n), m.dims, decode(m.base))
      [] m.class = "compound" ->
            Compound([k \in DOMAIN m.fields |->
                        [name |-> m.fields[k].name, index |-> k - 1, offset |-> m.fields[k].offset,
                         ty |-> decode(m.fields[k].ty)]], m.size)

-----------------------------------------------------------------------------
(* OrderTree: which bytes of an element are to be swapped.                 *)
AsItIs == [swap |-> "none"]
SwapLeaf(width) == [swap |-> "leaf", width |-> width]

RECURSIVE OrderOf(_)
OrderOf(m) ==
    CASE m.class \in {"int", "bitfield"} -> IF m.big THEN SwapLeaf(m.size) ELSE AsItIs
      [] m.class = "float" -> IF m.big THEN SwapLeaf(FloatBytes) ELSE AsItIs
      [] m.class = "enum"  -> OrderOf(m.base)
      [] m.class = "array" /\ OrderOf(m.base) # AsItIs ->
            [swap |-> "array", n |-> FoldLeft(LAMBDA n, d : n * d, 1, m.dims),
             stride |-> disk_size(decode(m.base)), inner |-> OrderOf(m.base)]
      [] m.class = "vlen" /\ ~m.string /\ OrderOf(m.base) # AsItIs ->
            [swap |-> "vlen", stride |-> disk_size(decode(m.base)), inner |-> OrderOf(m.base)]
      [] m.class = "compound" /\ \E k \in DOMAIN m.fields : OrderOf(m.fields[k].ty) # AsItIs ->
            [swap |-> "compound",
             fields |-> [k \in DOMAIN m.fields |->
                            [at |-> m.fields[k].offset, order |-> OrderOf(m.fields[k].ty)]]]
      [] OTHER -> AsItIs

(* An element, or more, of which the first bytes are one; a payload of     *)
(* variable length is swapped in the side store.                           *)
RECURSIVE apply_order(_, _, _)
apply_order(order, s, vlen) ==
    LET Cells(bytes, n, store) ==
            LET Swapped(i, v) == apply_order(order.inner, Cell(bytes, order.stride, i), v)
                all == InTurn(Swapped, n, store)
            IN  [bytes |-> FlattenSeq(all.parts) \o TailFrom(bytes, n * order.stride + 1), vlen |-> all.vlen]
    IN  CASE order.swap = "none" -> [bytes |-> s, vlen |-> vlen]
          [] order.swap = "leaf" ->
                [vlen |-> vlen,
                 bytes |-> IF order.width > Len(s) THEN s
                           ELSE Reverse(SubSeq(s, 1, order.width)) \o TailFrom(s, order.width + 1)]
          [] order.swap = "compound" ->
                FoldLeft(LAMBDA done, f :
                            IF f.at >= Len(done.bytes) THEN done
                            ELSE Of(apply_order(f.order, TailFrom(done.bytes, f.at + 1), done.vlen), LAMBDA part :
                                    [bytes |-> SubSeq(done.bytes, 1, f.at) \o part.bytes, vlen |-> part.vlen]),
                         [bytes |-> s, vlen |-> vlen], order.fields)
          [] order.swap = "array" -> Cells(s, Min({order.n, Len(s) \div order.stride}), vlen)
          [] order.swap = "vlen" ->
                IF s[2] \notin DOMAIN vlen THEN [bytes |-> s, vlen |-> vlen]
                ELSE Of(Cells(vlen[s[2]], Len(vlen[s[2]]) \div order.stride, [vlen EXCEPT ![s[2]] = <<>>]),
                        LAMBDA entry : [bytes |-> s, vlen |-> [entry.vlen EXCEPT ![s[2]] = entry.bytes]])

(* All n elements of a dataset or an attribute.                            *)
Normalized(m, data, vlen, n) ==
    LET size == disk_size(decode(m))
        Element(i, v) == apply_order(OrderOf(m), Cell(data, size, i), v)
        all == InTurn(Element, n, vlen)
    IN  IF OrderOf(m) = AsItIs THEN [bytes |-> data, vlen |-> vlen]
        ELSE [bytes |-> FlattenSeq(all.parts), vlen |-> all.vlen]

-----------------------------------------------------------------------------
(* What another program writes: numbers of the kinds in big with their     *)
(* most significant byte first, and other classes that say the same.       *)
RECURSIVE Abroad(_, _, _)
Abroad(m, big, other) ==
    CASE m.class = "int" ->
            [m EXCEPT !.big = "int" \in big, !.class = IF other /\ ~m.signed THEN "bitfield" ELSE @]
      [] m.class = "float" -> [m EXCEPT !.big = "float" \in big]
      [] m.class = "enum" ->
            IF "int" \notin big THEN m
            ELSE [m EXCEPT !.base.big = TRUE,
                           !.members = [k \in DOMAIN @ |-> [@[k] EXCEPT !.value = Reverse(@)]]]
      [] m.class = "vlen" /\ ~m.string -> [m EXCEPT !.base = Abroad(@, big, other)]
      [] m.class = "compound" ->
            [m EXCEPT !.fields = [k \in DOMAIN @ |-> [@[k] EXCEPT !.ty = Abroad(@, big, other)]]]
      [] m.class = "array" ->
            IF other /\ m.base = FixedPoint(1, FALSE) THEN [class |-> "opaque", size |-> m.dims[1]]
            ELSE IF other /\ m.base.class = "array"
            THEN LET inner == Abroad(m.base, big, other)
                 IN  IF inner.class = "array" THEN [inner EXCEPT !.dims = m.dims \o @]
                     ELSE [m EXCEPT !.base = inner]
            ELSE [m EXCEPT !.base = Abroad(@, big, other)]
      [] OTHER -> m

(* The element s of the library, as data of such a message.                *)
RECURSIVE LaidOut(_, _, _)
LaidOut(m, s, vlen) ==
    CASE m.class \in {"int", "bitfield", "float"} ->
            [bytes |-> IF m.big THEN Reverse(s) ELSE s, vlen |-> vlen]
      [] m.class = "enum" -> LaidOut(m.base, s, vlen)
      [] m.class = "vlen" /\ ~m.string /\ s[2] # 0 ->
            LET payload == vlen[s[2]]
                size == Len(payload) \div s[1]
                Element(i, v) == LaidOut(m.base, Cell(payload, size, i), v)
                all == InTurn(Element, s[1], vlen)
            IN  [bytes |-> s, vlen |-> [all.vlen EXCEPT ![s[2]] = FlattenSeq(all.parts)]]
      [] m.class = "array" ->
            LET n == FoldLeft(LAMBDA k, d : k * d, 1, m.dims)
                Element(i, v) == LaidOut(m.base, Cell(s, Len(s) \div n, i), v)
                all == InTurn(Element, n, vlen)
            IN  [bytes |-> FlattenSeq(all.parts), vlen |-> all.vlen]
      [] m.class = "compound" ->
            LET Size(k) == disk_size(decode(m.fields[k].ty))
                Field(k, v) == LaidOut(m.fields[k].ty,
                                       SubSeq(s, m.fields[k].offset + 1, m.fields[k].offset + Size(k)), v)
                all == InTurn(Field, Len(m.fields), vlen)
            IN  [vlen |-> all.vlen,
                 bytes |-> Overlay(Len(s), [k \in DOMAIN m.fields |->
                                [at |-> m.fields[k].offset + 1, bytes |-> all.parts[k]]])]
      [] OTHER -> [bytes |-> s, vlen |-> vlen]
=============================================================================
