-------------------------------- MODULE Szip --------------------------------
(***************************************************************************)
(* The szip filter (format/szip.rs): samples are coded relative to the one *)
(* before (NN) or as they are (EC), in blocks of ppb samples and, between  *)
(* two reference samples, scanlines of pps.  The library writes blocks in  *)
(* two of the codings; it reads the two others that libraries write.       *)
(* Samples are little-endian, as lower_filters asks for.                   *)
(*                                                                         *)
(* The parameters of a filter: nn, ppb, pps, and the size of an element    *)
(* in bytes, 1, 2, 4 or 8 (a 24-bit pixel is none of the library's types,  *)
(* other sizes are refused).                                               *)
(***************************************************************************)
EXTENDS Filters, Strict

CONSTANTS
    SzIdBits,     \* bits of a block's coding, for samples of one byte (3)
    SzRos,        \* zero blocks to the end of a segment (5)
    SzSegment,    \* blocks of a segment (64)
    SzMaxBlocks   \* blocks of a scanline (128)

ASSUME SzipAssumption ==
    SzIdBits \in Nat \ {0, 1} /\ SzRos \in Nat \ {0, 1} /\ {SzSegment, SzMaxBlocks} \subseteq Nat \ {0}

(* lower_filters: how many elements there are between two references, of a *)
(* chunk of n elements whose last axis has row of them.                    *)
ScanlineOf(ppb, n, row) ==
    IF row >= ppb THEN Min({row, ppb * SzMaxBlocks})
    ELSE IF n < ppb THEN n
    ELSE Min({n, ppb * SzMaxBlocks})

(* Elements of four and eight bytes are taken apart, byte by byte.         *)
Interleaved(p) == p.size \in {4, 8}
SampleBytes(p) == IF Interleaved(p) THEN 1 ELSE p.size
SampleBits(p) == SampleBytes(p) * ByteBits
IdBits(p) == SzIdBits + SampleBytes(p) - 1
Greatest(p) == 2 ^ SampleBits(p) - 1
Rsi(p) == (p.pps + p.ppb - 1) \div p.ppb
PadsScanlines(p) == p.pps % p.ppb # 0
Refusable(p) == p.pps = 0 \/ p.ppb % 2 = 1 \/ p.size \notin {1, 2, 4, 8}

Fs(v) == Append(Zeros(v), 1)
FsAll(values) == FlattenSeq([i \in DOMAIN values |-> Fs(values[i])])
LowBits(values, k) == FlattenSeq([i \in DOMAIN values |-> Bits(values[i] % 2 ^ k, k)])

-----------------------------------------------------------------------------
(* A sample, from the one before it: small steps either way alternate, and *)
(* a step that only one way has room for takes what is left.               *)
Mapped(greatest, before, sample) ==
    LET d == sample - before
        theta == Min({before, greatest - before})
    IN  IF d \in 0 .. theta THEN 2 * d
        ELSE IF d \in -theta .. -1 THEN -2 * d - 1
        ELSE IF d < 0 THEN theta - d ELSE theta + d

(* A faulty inverse: an odd step is halved down.                           *)
UnmappedDown(greatest, before, m) ==
    LET high == before > greatest \div 2
        room == IF high THEN greatest - before ELSE before
    IN  IF m \div 2 > room THEN (IF high THEN greatest - m ELSE m)
        ELSE IF m % 2 = 1 THEN before - (m \div 2 + 1)
        ELSE before + m \div 2

(* unmap_rsi, of one sample. *)
Unmapped(greatest, before, m) ==
    LET high == before > greatest \div 2
        room == IF high THEN greatest - before ELSE before
    IN  IF (m + 1) \div 2 > room THEN (IF high THEN greatest - m ELSE m)
        ELSE IF m % 2 = 1 THEN before - (m \div 2 + 1)
        ELSE before + m \div 2

(* What a scanline's blocks hold: of NN, the reference and the steps.      *)
Coded(p, line) ==
    LET steps == [i \in DOMAIN line |->
                    IF ~p.nn \/ i = 1 THEN line[i] ELSE Mapped(Greatest(p), line[i - 1], line[i])]
    IN  steps \o Zeros((-Len(line)) % p.ppb)

Decoded(p, raw) ==
    IF ~p.nn THEN raw
    ELSE Accumulated(LAMBDA out, m : Append(out, Unmapped(Greatest(p), Last(out), m)),
                     <<raw[1]>>, Tail(raw))

-----------------------------------------------------------------------------
(* aec_encode: the cheapest number of low bits to split off, unless the    *)
(* samples themselves take no more.  A reference stands before the steps.  *)
SplitCost(k, values) == Len(values) * (k + 1) + MapThenSumSet(LAMBDA i : values[i] \div 2 ^ k, DOMAIN values)

SplitBits(p, isref, block) ==
    LET values == IF isref THEN Tail(block) ELSE block
        reference == IF isref THEN Bits(block[1], SampleBits(p)) ELSE <<>>
        ks == 0 .. 2 ^ IdBits(p) - 3
        k == CHOOSE k \in ks : \A j \in ks :
                \/ SplitCost(k, values) < SplitCost(j, values)
                \/ SplitCost(k, values) = SplitCost(j, values) /\ k <= j
    IN  IF SplitCost(k, values) >= Len(values) * SampleBits(p)
        THEN Bits(2 ^ IdBits(p) - 1, IdBits(p)) \o LowBits(block, SampleBits(p))
        ELSE Bits(k + 1, IdBits(p)) \o reference
             \o FsAll([i \in DOMAIN values |-> values[i] \div 2 ^ k]) \o LowBits(values, k)

LineBits(p, coded) ==
    LET blocks == Pieces(coded, p.ppb)
    IN  FlattenSeq([b \in DOMAIN blocks |-> SplitBits(p, p.nn /\ b = 1, blocks[b])])

(* What other libraries write where this one splits: runs of blocks that   *)
(* are zero as one, to the end of a segment as another, and pairs of small *)
(* samples as one number each.                                             *)
FrugalLineBits(p, coded) ==
    LET blocks == Pieces(coded, p.ppb)
        Values(b) == IF p.nn /\ b = 1 THEN Tail(blocks[b]) ELSE blocks[b]
        Reference(b) == IF p.nn /\ b = 1 THEN Bits(blocks[b][1], SampleBits(p)) ELSE <<>>
        IsZero(b) == \A i \in DOMAIN Values(b) : Values(b)[i] = 0
        Ends(b) == b % SzSegment = 0 \/ b = Len(blocks)
        Run(b) == CHOOSE r \in b .. Len(blocks) :
                    /\ \A c \in b .. r : IsZero(c)
                    /\ \A c \in b .. r - 1 : ~Ends(c)
                    /\ Ends(r) \/ ~IsZero(r + 1)
        InRun(b) == b > 1 /\ IsZero(b - 1) /\ IsZero(b) /\ ~Ends(b - 1)
        Length(b) == Run(b) - b + 1
        RunCode(b) == IF Length(b) < SzRos THEN Length(b) - 1
                      ELSE IF Ends(Run(b)) THEN SzRos - 1 ELSE Length(b)
        Gamma(x, y) == ((x + y) * (x + y + 1)) \div 2 + y
        Pairs(b) == LET both == (IF p.nn /\ b = 1 THEN <<0>> ELSE <<>>) \o Values(b)
                    IN  [i \in 1 .. p.ppb \div 2 |-> Gamma(both[2 * i - 1], both[2 * i])]
        BlockBits(b) ==
            IF InRun(b) THEN <<>>
            ELSE IF IsZero(b)
            THEN Bits(0, IdBits(p)) \o <<0>> \o Reference(b) \o Fs(RunCode(b))
            ELSE IF \A i \in DOMAIN Pairs(b) : Pairs(b)[i] <= SampleBits(p)
            THEN Bits(0, IdBits(p)) \o <<1>> \o Reference(b) \o FsAll(Pairs(b))
            ELSE SplitBits(p, p.nn /\ b = 1, blocks[b])
    IN  FlattenSeq([b \in DOMAIN blocks |-> BlockBits(b)])

(* sz_compress: scanlines that are no whole blocks are filled up, with     *)
(* their last sample or with zeros.                                        *)
PaddedLine(p, line) ==
    line \o [i \in 1 .. Rsi(p) * p.ppb - Len(line) |-> IF p.nn THEN Last(line) ELSE 0]

Scanlines(p, data) ==
    LET bytes == IF Interleaved(p) THEN Shuffled(p.size, data) ELSE data
        samples == [i \in 1 .. Len(bytes) \div SampleBytes(p) |-> Unsigned(Cell(bytes, SampleBytes(p), i))]
        lines == Pieces(samples, p.pps)
    IN  [i \in DOMAIN lines |-> IF PadsScanlines(p) THEN PaddedLine(p, lines[i]) ELSE lines[i]]

(* The frame of the filter has the size of the data in front.              *)
LinesCoded(p, lines, frugal) ==
    FlattenSeq([i \in DOMAIN lines |->
        IF frugal THEN FrugalLineBits(p, Coded(p, lines[i])) ELSE LineBits(p, Coded(p, lines[i]))])

SzipCompressed(p, data, frugal) ==
    IF Refusable(p) THEN Refused
    ELSE LittleEndian(Len(data), 4)
         \o Of(Scanlines(p, data), LAMBDA lines : BytesOf(LinesCoded(p, lines, frugal)))

-----------------------------------------------------------------------------
(* BitReader.  A read past the end leaves at behind the end.               *)
NumberAt(bits, at, n) ==
    OfBits([i \in 1 .. n |-> IF at + i - 1 \in DOMAIN bits THEN bits[at + i - 1] ELSE 0])

NextOne(bits, at) == Min({j \in at .. Len(bits) : bits[j] = 1} \cup {Len(bits) + 1})

FsRead(bits, r) ==
    Of(NextOne(bits, r.at), LAMBDA one : [at |-> one + 1, values |-> Append(r.values, one - r.at)])

FsValues(bits, at, n) ==
    Accumulated(LAMBDA r, i : FsRead(bits, r), [at |-> at, values |-> <<>>], [i \in 1 .. n |-> i])

PairOf(gamma) ==
    LET i == CHOOSE i \in 0 .. gamma : i * (i + 1) <= 2 * gamma /\ 2 * gamma < (i + 1) * (i + 2)
        second == gamma - (i * (i + 1)) \div 2
    IN  <<i - second, second>>

ZeroBlocks(p, raw, fs) ==
    LET b == Len(raw) \div p.ppb
    IN  IF fs + 1 = SzRos THEN Min({Rsi(p) - b, SzSegment - (b % SzSegment)})
        ELSE IF fs + 1 > SzRos THEN fs ELSE fs + 1

(* One block, of each coding; its reference, if it has one, comes first.   *)
UncompressedBlock(p, bits, at) ==
    [at |-> at + p.ppb * SampleBits(p),
     values |-> [i \in 1 .. p.ppb |-> NumberAt(bits, at + (i - 1) * SampleBits(p), SampleBits(p))]]

SplitBlock(bits, at, k, n) ==
    Of(FsValues(bits, at, n), LAMBDA r :
        [at |-> r.at + n * k,
         values |-> [i \in 1 .. n |-> r.values[i] * 2 ^ k + NumberAt(bits, r.at + (i - 1) * k, k)]])

PairsBlock(p, bits, at, isref) ==
    Of(FsValues(bits, at, p.ppb \div 2), LAMBDA r :
        Of(FlattenSeq([i \in DOMAIN r.values |-> PairOf(r.values[i])]), LAMBDA pairs :
            [at |-> r.at, values |-> IF isref THEN Tail(pairs) ELSE pairs]))

ZeroBlock(p, bits, at, raw, isref) ==
    Of(FsValues(bits, at, 1), LAMBDA r :
        [at |-> r.at,
         values |-> Zeros(ZeroBlocks(p, raw, r.values[1]) * p.ppb - IF isref THEN 1 ELSE 0)])

BlockAt(p, bits, at, raw) ==
    LET isref == p.nn /\ raw = <<>>
        id == NumberAt(bits, at, IdBits(p))
        coded == at + IdBits(p) + IF id = 0 THEN 1 ELSE 0
        steps == IF isref THEN coded + SampleBits(p) ELSE coded
        reference == IF isref THEN <<NumberAt(bits, coded, SampleBits(p))>> ELSE <<>>
        block == IF id = 0 /\ NumberAt(bits, coded - 1, 1) = 1 THEN PairsBlock(p, bits, steps, isref)
                 ELSE IF id = 0 THEN ZeroBlock(p, bits, steps, raw, isref)
                 ELSE SplitBlock(bits, steps, id - 1, IF isref THEN p.ppb - 1 ELSE p.ppb)
    IN  IF id = 2 ^ IdBits(p) - 1 THEN UncompressedBlock(p, bits, coded)
        ELSE Of(block, LAMBDA b : [b EXCEPT !.values = reference \o @])

(* aec_decode: samples are delivered a whole scanline at a time, blocks    *)
(* are read until there are n of them.                                     *)
AecDecoded(p, bits, n) ==
    LET Delivered(w, block) ==
            LET raw == w.raw \o block.values
            IN  IF block.at > Len(bits) + 1 THEN [w EXCEPT !.out = Refused]
                ELSE IF Len(raw) < Rsi(p) * p.ppb THEN [w EXCEPT !.at = block.at, !.raw = raw]
                ELSE [at |-> block.at, raw |-> <<>>, out |-> w.out \o Decoded(p, raw)]
        Step(w, i) ==
            IF w.out = Refused \/ Len(w.out) >= n THEN w
            ELSE Of(BlockAt(p, bits, w.at, w.raw), LAMBDA block : Delivered(w, block))
    IN  Accumulated(Step, [at |-> 1, raw |-> <<>>, out |-> <<>>],
                    [i \in 1 .. Min({n \div p.ppb, Len(bits) \div IdBits(p)}) + 1 |-> i]).out

(* sz_decompress *)
SzipDecompressed(p, frame) ==
    LET bytes == Unsigned(SubSeq(frame, 1, 4))
        samples == bytes \div SampleBytes(p)
        line == Rsi(p) * p.ppb
        n == IF PadsScanlines(p) THEN ((samples + p.pps - 1) \div p.pps) * line ELSE samples
        Unpadded(out) ==
            IF PadsScanlines(p)
            THEN FlattenSeq([i \in 1 .. Len(out) \div line |-> SubSeq(Cell(out, line, i), 1, p.pps)])
            ELSE out
        Joined(out) ==
            Resized(FlattenSeq([i \in DOMAIN out |-> LittleEndian(out[i], SampleBytes(p))]), bytes)
    IN  IF Len(frame) < 4 \/ Refusable(p) THEN Refused
        ELSE Of(BitsOf(SubSeq(frame, 5, Len(frame))), LAMBDA bits :
                Of(AecDecoded(p, bits, n), LAMBDA out :
                    IF out = Refused THEN Refused
                    ELSE IF Interleaved(p) THEN Unshuffled(p.size, Joined(Unpadded(out)))
                    ELSE Joined(Unpadded(out))))

(* Scanlines of whole blocks that do not make up the samples: what is left *)
(* over is never delivered.                                                *)
LeavesARest(p, n) == ~PadsScanlines(p) /\ (n * (p.size \div SampleBytes(p))) % p.pps # 0
=============================================================================
