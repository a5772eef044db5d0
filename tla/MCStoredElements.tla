-------------------------- MODULE MCStoredElements --------------------------
(* Bytes of four bits and words of two bytes, every pair of numeric types, *)
(* the forms of texts, nested sequences and compounds, and pipelines of    *)
(* integers of one and of two bytes.                                       *)
EXTENDS StoredElements

Integers2 == {IntType(size, signed) : size \in {1, 2}, signed \in BOOLEAN}
Numbers == Integers2 \cup {FloatType(1), FloatType(4)}
Texts == {FixedType(2), FixedType(4), VarStr}

Field(name, index, offset, ty) == [name |-> name, index |-> index, offset |-> offset, ty |-> ty]

(* The same fields, elsewhere, in another order and of other types.        *)
Pair ==
    Compound(<<Field("n", 1, 0, IntType(2, TRUE)), Field("s", 0, 3, VarStr)>>, 4)
PairElsewhere ==
    Compound(<<Field("s", 0, 0, FixedType(3)), Field("n", 1, 5, IntType(1, TRUE))>>, 7)
Plain ==
    Compound(<<Field("n", 1, 0, IntType(1, FALSE)), Field("a", 0, 2, ArrayType(IntType(1, TRUE), 2))>>, 4)
PlainElsewhere ==
    Compound(<<Field("a", 0, 0, ArrayType(FloatType(1), 2)), Field("n", 1, 6, IntType(2, FALSE))>>, 8)
Lists == {VarSeq(VarStr), VarSeq(FixedType(2))}
Deep == {VarSeq(Pair), VarSeq(PairElsewhere)}

Coder(nn, ppb, codec, shuffle) == [nn |-> nn, ppb |-> ppb, codec |-> codec, shuffle |-> shuffle]
NoCoder == Coder(FALSE, 2, BloscLz, 0)
AsIs(types, views) ==
    {[ty |-> t, filters |-> <<>>, fill |-> <<>>, views |-> views,
      chunk |-> [n |-> 6, row |-> 6], coder |-> NoCoder] : t \in types}

Pipelines ==
    {<<"shuffle">>, <<"fletcher32">>, <<"lzf">>, <<"shuffle", "lzf", "fletcher32">>, <<"nbit">>}
Scaled == {<<"scaleoffset">>, <<"scaleoffset", "lzf">>, <<"scaleoffset", "shuffle", "fletcher32">>}

Filtered(types, pipelines, fills) ==
    {[ty |-> t, filters |-> p, fill |-> f, views |-> {t},
      chunk |-> [n |-> 6, row |-> 6], coder |-> NoCoder] : t \in types, p \in pipelines, f \in fills}

(* One scanline and two, scanlines that are filled up, of small chunks and *)
(* of chunks smaller than a block, and one that leaves a rest.             *)
Shape(n, row, ppb) == <<[n |-> n, row |-> row], ppb>>
Shapes == {Shape(8, 8, 2), Shape(8, 4, 2), Shape(8, 8, 6), Shape(8, 1, 6), Shape(8, 4, 16),
           Shape(12, 12, 2)}
Szipped(types, pipelines, shapes) ==
    {[ty |-> t, filters |-> p, fill |-> <<>>, views |-> {t},
      chunk |-> shape[1], coder |-> Coder(nn, shape[2], BloscLz, 0)] :
        t \in types, p \in pipelines, shape \in shapes, nn \in BOOLEAN}

(* Two blocks and a rest, of elements that fill a block and that do not.   *)
Blosced(types, pipelines, codecs, shuffles) ==
    {[ty |-> t, filters |-> p, fill |-> <<>>, views |-> {t},
      chunk |-> [n |-> 20, row |-> 20], coder |-> Coder(FALSE, 2, codec, shuffle)] :
        t \in types, p \in pipelines, codec \in codecs, shuffle \in shuffles}

Flags(size, names) == EnumType(size, TRUE, [k \in DOMAIN names |-> [name |-> names[k], value |-> k - 1]])
OnOff == Flags(1, <<"off", "on">>)
Switches == {BoolType, OnOff, Flags(1, <<"FALSE", "TRUE">>)}
Wide == {Flags(2, <<"FALSE", "TRUE">>)}
Tables == {ArrayType(ArrayType(IntType(2, TRUE), 2), 3), ArrayType(IntType(1, FALSE), 3)}

AllDeclared ==
    AsIs(Numbers, Numbers) \cup AsIs(Texts, Texts) \cup AsIs(Lists, Lists)
    \cup AsIs({Pair, PairElsewhere}, {Pair, PairElsewhere})
    \cup AsIs({Plain, PlainElsewhere}, {Plain, PlainElsewhere})
    \cup AsIs(Deep, Deep)
    \cup AsIs(Switches, Switches) \cup AsIs(Wide, Wide)
    \cup UNION {AsIs({t}, {t}) : t \in Tables}
    \cup Filtered({IntType(1, TRUE), IntType(2, FALSE)}, Pipelines, {<<>>})
    \cup Filtered({Pair}, {<<"shuffle", "fletcher32">>}, {<<>>})
    \cup Filtered({IntType(2, TRUE)}, Scaled, {<<>>})
    \cup Filtered({IntType(2, FALSE)}, Scaled, {<<1, 0>>})
    \cup Filtered({IntType(1, TRUE)}, Scaled, {<<>>, <<15>>})
    \cup Szipped({IntType(1, TRUE), IntType(2, FALSE), FixedType(4)}, {<<"szip">>}, Shapes)
    \cup Szipped({IntType(1, TRUE)}, {<<"shuffle", "szip", "fletcher32">>}, {Shape(8, 8, 2)})
    \cup Blosced({IntType(2, TRUE), FixedType(3)}, {<<"blosc">>}, {BloscLz}, 0 .. 2)
    \cup Blosced({FixedType(4)}, {<<"blosc">>, <<"blosc", "fletcher32">>}, {BloscLz}, {1})
    \cup Blosced({IntType(1, TRUE)}, {<<"blosc">>}, {Zstd}, {2})

OnlyScaled == Filtered({IntType(1, TRUE)}, {<<"scaleoffset">>}, {<<>>})

RECURSIVE SampleValues(_)
SampleValues(t) ==
    CASE t.is = "int" -> {2 * MinOf(t), 2, 6, 2 * MaxOf(t)} \cup (IF t.signed THEN {-6} ELSE {})
      [] t.is = "float" -> {NaN, PosInf, NegInf} \cup {k * t.grain : k \in {-9, 5, 18}}
      [] t.is = "bool" -> {0, 1}
      [] t.is = "enum" -> {0, 1}
      [] t.is = "fixed" -> {<<>>, <<5>>, <<3, 4>>} \cup IF t.n < 4 THEN {} ELSE {<<3, 4, 5, 6>>}
      [] t.is = "varstr" -> {<<>>, <<5, 6>>, <<3, 4, 5>>}
      [] t.is = "varseq" -> {<<>>} \cup {<<v>> : v \in SampleValues(t.base)}
                            \cup {<<v, v>> : v \in SampleValues(t.base)}
      [] t.is = "array" -> LET other == CHOOSE v \in SampleValues(t.base) : TRUE
                           IN  {[i \in 1 .. t.n |-> IF i = 1 THEN v ELSE other] : v \in SampleValues(t.base)}
      [] t.is = "compound" ->
            LET other == CHOOSE name \in FieldNames(t) : name # "n"
                Values(name) == SampleValues(FieldNamed(t, name).ty)
                Some(name) == CHOOSE v \in Values(name) : TRUE
            IN  {("n" :> v) @@ (other :> Some(other)) : v \in Values("n")}
                \cup {("n" :> Some("n")) @@ (other :> w) : w \in Values(other)}

(* Of integers that go through filters, every two values in turn.          *)
InputValues(d, src) ==
    IF d.filters # <<>> /\ src.is = "int"
    THEN {[i \in 1 .. Used |-> IF i % 2 = 0 THEN v ELSE w] : v, w \in SampleValues(src)}
    ELSE {[i \in 1 .. Used |-> v] : v \in SampleValues(src)}

Way(mask, big, other, frugal) == [mask |-> mask, big |-> big, other |-> other, frugal |-> frugal]
SomeWays ==
    {Way(mask, {}, FALSE, FALSE) : mask \in SUBSET (1 .. 3) \ {{}}}
    \cup {Way({}, {}, FALSE, TRUE), Way({}, {"int"}, TRUE, FALSE), Way({}, {"float"}, FALSE, FALSE),
          Way({}, {"int", "float"}, FALSE, TRUE)}

(* A match as far back as a near one goes, and one farther.                *)
ASSUME FarMatches ==
    \A extra \in 0 .. 2 :
        LET data == [i \in 1 .. MaxDistance + 1 + extra |-> (i * i) % Base]
            token == <<LitMax + LitMax - 1, Base - 1>> \o <<extra \div Base, extra>>
        IN  BloscLzDecompressed(Literals(data) \o token \o <<0, 5>>, Len(data) + 4)
                = data \o SubSeq(data, 1, 3) \o <<5>>

(* Matches of one byte to several of length.                               *)
ASSUME LongMatches ==
    \A n \in BloscLeast .. 5 * Base :
        LET data == [i \in 1 .. n |-> i % 2] \o <<7>>
            out == BloscLzCompressed(data)
        IN  out # Refused => BloscLzDecompressed(out, Len(data)) = data

(* Where something may notice: under a sum, a byte that is one more, one   *)
(* less or has another first bit; under a coding alone the last of these.  *)
Mistaken(d, b) ==
    LET off(k) == (b + k) % Base
    IN  CASE d.filters = <<>> -> {}
          [] Last(d.filters) = "fletcher32" -> {off(1), off(Base - 1), off(Base \div 2)}
          [] Last(d.filters) = "lzf" -> {off(Base \div 2)}
          [] OTHER -> {}
=============================================================================
