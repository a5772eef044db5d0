------------------------------ MODULE Filters ------------------------------
(***************************************************************************)
(* The filter pipeline of chunks (format/filters.rs): each filter takes    *)
(* bytes to bytes, applied in order when a chunk is written and reversed   *)
(* in the opposite order when it is read.  Widths scale with ByteBits: the *)
(* control byte of LZF has three bits of length, the others belong to the  *)
(* offset.                                                                *)
(***************************************************************************)
EXTENDS Bytes, Strict, FiniteSetsExt

CONSTANTS
    FletcherBatch,   \* words summed up between two folds
    HashSize         \* entries of LZF's table of earlier positions

ASSUME BatchAssumption == FletcherBatch \in Nat \ {0} /\ HashSize \in Nat \ {0}

-----------------------------------------------------------------------------
(* Byte-shuffle: the bytes at one place of every element come together;    *)
(* what is no whole element stays at the end.                              *)
Shuffled(size, data) ==
    LET n == Len(data) \div size
    IN  [k \in DOMAIN data |->
            IF k > n * size THEN data[k]
            ELSE data[((k - 1) % n) * size + (k - 1) \div n + 1]]

Unshuffled(size, data) ==
    LET n == Len(data) \div size
    IN  [k \in DOMAIN data |->
            IF k > n * size THEN data[k]
            ELSE data[((k - 1) % size) * n + (k - 1) \div size + 1]]

-----------------------------------------------------------------------------
(* Two sums of words of two bytes, high byte first, each in twice the      *)
(* width of a word and folded to a word after a batch.                     *)
WordMod == Base * Base
Fold(s) == (s % WordMod) + (s \div WordMod)
Folded(sums) == [a |-> Fold(sums.a), b |-> Fold(sums.b)]
Added(sums, word) ==
    LET a == (sums.a + word) % (WordMod * WordMod)
    IN  [a |-> a, b |-> (sums.b + a) % (WordMod * WordMod)]

Summed(sums, words) ==
    Folded(Accumulated(LAMBDA acc, word : Added(acc, word[1] * Base + word[2]), sums, words))

(* Batch after batch; an odd trailing byte is in none.                     *)
WordsSummed(data) ==
    LET words == Pieces(SubSeq(data, 1, 2 * (Len(data) \div 2)), 2)
    IN  Accumulated(Summed, [a |-> 0, b |-> 0], Pieces(words, FletcherBatch))

(* A faulty sum: an odd trailing byte does not count.                      *)
Fletcher32Even(data) ==
    LET f == Folded(WordsSummed(data)) IN LittleEndian(f.b * WordMod + f.a, 4)

(* fletcher32, as the bytes that are appended. *)
Fletcher32(data) ==
    LET even == WordsSummed(data)
        odd == IF Len(data) % 2 = 0 THEN even ELSE Folded(Added(even, Last(data) * Base))
        f == Folded(odd)
    IN  LittleEndian(f.b * WordMod + f.a, 4)

Checked(data) ==
    LET body == SubSeq(data, 1, Len(data) - 4)
    IN  IF Len(data) < 4 \/ Fletcher32(body) # SubSeq(data, Len(data) - 3, Len(data))
        THEN Refused ELSE body

-----------------------------------------------------------------------------
(* LZF.  A control byte below LitMax starts a run of literals; above, it   *)
(* has a length and the high bits of how far back the bytes to copy are.   *)
LitMax == Base \div 8
LongLength == 7
MaxOff == LitMax * Base
MaxRef == Base + 8

LzfHash(a, b, c) == (a * 4 + b * 2 + c) % HashSize

(* emit_literals: runs of at most LitMax bytes.                            *)
Literals(bytes) ==
    FlattenSeq([i \in 1 .. (Len(bytes) + LitMax - 1) \div LitMax |->
        LET run == SubSeq(bytes, (i - 1) * LitMax + 1, IF i * LitMax < Len(bytes) THEN i * LitMax
                                                       ELSE Len(bytes))
        IN  <<Len(run) - 1>> \o run])

BackReference(back, length) ==
    LET off == back - 1
        l == length - 2
    IN  IF l < LongLength THEN <<off \div Base + l * LitMax, off % Base>>
        ELSE <<off \div Base + LongLength * LitMax, l - LongLength, off % Base>>

(* lzf_compress: at each position the last one with the same hash is       *)
(* tried; positions inside a match are not remembered.                     *)
LzfCompressed(data) ==
    LET n == Len(data)
        Match(cand, pos) ==
            IF cand = 0 \/ pos - cand > MaxOff \/ SubSeq(data, cand, cand + 2) # SubSeq(data, pos, pos + 2)
            THEN 0
            ELSE Max({m \in 3 .. Min({n - pos + 1, MaxRef}) :
                        \A k \in 0 .. m - 1 : data[cand + k] = data[pos + k]})
        Step(w) ==
            LET h == LzfHash(data[w.pos], data[w.pos + 1], data[w.pos + 2])
                m == Match(w.table[h], w.pos)
                seen == [w.table EXCEPT ![h] = w.pos]
            IN  IF m = 0 THEN [w EXCEPT !.table = seen, !.pos = @ + 1]
                ELSE [table |-> seen, pos |-> w.pos + m, from |-> w.pos + m,
                      out |-> w.out \o Literals(SubSeq(data, w.from, w.pos - 1))
                              \o BackReference(w.pos - w.table[h], m)]
        walked == FoldLeft(LAMBDA w, k : IF w.pos + 2 <= n THEN Step(w) ELSE w,
                           [table |-> [h \in 0 .. HashSize - 1 |-> 0], pos |-> 1, from |-> 1, out |-> <<>>],
                           data)
    IN  walked.out \o Literals(SubSeq(data, walked.from, n))

(* A copy may run into the bytes it makes.                                 *)
Copied(out, from, length) ==
    FoldLeft(LAMBDA o, k : Append(o, o[from + k - 1]), out, [k \in 1 .. length |-> k])

(* lzf_decompress *)
LzfDecompressed(data) ==
    LET n == Len(data)
        Literal(w, ctrl) ==
            IF w.at + ctrl + 1 > n THEN [at |-> n + 1, out |-> Refused]
            ELSE [at |-> w.at + ctrl + 2, out |-> w.out \o SubSeq(data, w.at + 1, w.at + ctrl + 1)]
        Reference(w, ctrl) ==
            LET long == ctrl \div LitMax = LongLength
                last == w.at + IF long THEN 2 ELSE 1
                length == ctrl \div LitMax + 2 + IF long THEN data[w.at + 1] ELSE 0
                from == Len(w.out) - ((ctrl % LitMax) * Base + data[last])
            IN  IF last > n THEN [at |-> n + 1, out |-> Refused]
                ELSE IF from < 1 THEN [at |-> n + 1, out |-> Refused]
                ELSE [at |-> last + 1, out |-> Copied(w.out, from, length)]
        Walk(w, k) ==
            IF w.at > n THEN w
            ELSE IF data[w.at] < LitMax THEN Literal(w, data[w.at])
            ELSE Reference(w, data[w.at])
    IN  FoldLeft(Walk, [at |-> 1, out |-> <<>>], data).out
=============================================================================
