------------------------------- MODULE Blosc -------------------------------
(***************************************************************************)
(* The blosc filter (format/blosc.rs): a frame of blocks, each shuffled    *)
(* and cut into streams, each stream compressed or stored as it is.  The   *)
(* library writes one stream to a block; other writers split the blocks,   *)
(* leave out streams of zeros and store whole frames as they are.  Of the  *)
(* codecs, blosclz is the library's own, zstd it can only read; the others *)
(* are compression libraries.                                              *)
(*                                                                         *)
(* The parameters of a filter: codec, shuffle (0 none, 1 bytes, 2 bits)    *)
(* and typesize.  The flags and the codec share a byte in the file; bytes  *)
(* are smaller here, so each has its own (and FLAG_DONT_SPLIT is 8).       *)
(***************************************************************************)
EXTENDS Filters, Strict

CONSTANTS
    BloscBlock,      \* bytes of a block (256 KiB)
    BloscMinSplit,   \* bytes of a stream, if a block has several (128)
    BloscMaxSplits,  \* streams of a block (16)
    BloscLeast       \* bytes of a stream that is worth compressing (16)

ASSUME BloscAssumption == {BloscBlock, BloscMinSplit, BloscMaxSplits, BloscLeast} \subseteq Nat \ {0}

BloscLz == 0
Zstd == 4

(* The header: versions, flags, codec, size of an element, and the sizes   *)
(* of the data, of a block and of the frame, which fill U32 bytes each.    *)
U32 == 4
BloscHeader == 5 + 3 * U32
ByteShuffled == 1
MemCpyed == 2
BitShuffled == 4
NotSplit == 8
HasFlag(flags, flag) == (flags \div flag) % 2 = 1

NumberIn(frame, at) == Unsigned(SubSeq(frame, at, at + U32 - 1))

-----------------------------------------------------------------------------
(* Bit-shuffle: one bit of each of ByteBits elements makes a byte, and the *)
(* bytes of one place come together; elements that are no whole number of  *)
(* such groups stay as they are.                                           *)
BitAt(byte, k) == (byte \div 2 ^ k) % 2
ByteOfBits(bit) == MapThenSumSet(LAMBDA k : bit[k] * 2 ^ k, DOMAIN bit)

InGroups(size, data) ==
    LET n == Len(data) \div size IN n > 0 /\ n % ByteBits = 0

BitShuffle(size, data) ==
    LET n == Len(data) \div size
        groups == n \div ByteBits
    IN  IF ~InGroups(size, data) THEN data
        ELSE [q \in DOMAIN data |->
                IF q > n * size THEN data[q]
                ELSE LET row == (q - 1) \div groups
                         first == ((q - 1) % groups) * ByteBits
                     IN  ByteOfBits([m \in 0 .. ByteBits - 1 |->
                            BitAt(data[(first + m) * size + (row \div ByteBits) + 1], row % ByteBits)])]

BitUnshuffle(size, data) ==
    LET n == Len(data) \div size
        groups == n \div ByteBits
    IN  IF ~InGroups(size, data) THEN data
        ELSE [q \in DOMAIN data |->
                IF q > n * size THEN data[q]
                ELSE LET elem == (q - 1) \div size
                         place == (q - 1) % size
                     IN  ByteOfBits([k \in 0 .. ByteBits - 1 |->
                            BitAt(data[(place * ByteBits + k) * groups + (elem \div ByteBits) + 1],
                                  elem % ByteBits)])]

-----------------------------------------------------------------------------
(* blosclz.  A control byte below LitMax starts a run of literals, as in   *)
(* LZF; above it has the length of a match, further bytes of a long one    *)
(* follow, and at last the low byte of the distance.                       *)
MaxDistance == LitMax * Base - 1
LongMatch == 7

(* What is left of a long length: whole bytes of the greatest value first. *)
LengthBytes(rest) == [i \in 1 .. rest \div (Base - 1) |-> Base - 1] \o <<rest % (Base - 1)>>

MatchToken(distance, length) ==
    LET d == distance - 1
        l == length - 3
    IN  (IF l < LongMatch - 1 THEN <<(l + 1) * LitMax + (d \div Base)>>
         ELSE <<LongMatch * LitMax + (d \div Base)>> \o LengthBytes(l - (LongMatch - 1)))
        \o <<d % Base>>

(* The length of the match at pos with what is at cand: no match stands    *)
(* where literals would have to begin, and none reaches the last byte.     *)
MatchLength(input, cand, pos, from) ==
    IF \/ cand = 0 \/ pos - cand > MaxDistance \/ pos = from
       \/ SubSeq(input, cand, cand + 2) # SubSeq(input, pos, pos + 2)
       \/ Len(input) - pos < 3
    THEN 0
    ELSE Max({m \in 3 .. Len(input) - pos : \A k \in 3 .. m - 1 : input[cand + k] = input[pos + k]})

Matched(input, w, h, m) ==
    IF m = 0 THEN [w EXCEPT !.table[h] = w.pos, !.pos = @ + 1]
    ELSE [table |-> [w.table EXCEPT ![h] = w.pos], pos |-> w.pos + m, from |-> w.pos + m,
          out |-> w.out \o Literals(SubSeq(input, w.from, w.pos - 1)) \o MatchToken(w.pos - w.table[h], m)]

CompressStep(input, w) ==
    IF w.pos + 2 > Len(input) THEN w
    ELSE Of(LzfHash(input[w.pos], input[w.pos + 1], input[w.pos + 2]), LAMBDA h :
            Matched(input, w, h, MatchLength(input, w.table[h], w.pos, w.from)))

(* blosclz_compress: nothing if it is not worth it. *)
BloscLzCompressed(input) ==
    IF Len(input) < BloscLeast THEN Refused
    ELSE Of(Accumulated(LAMBDA w, i : CompressStep(input, w),
                        [table |-> [h \in 0 .. HashSize - 1 |-> 0], pos |-> 1, from |-> 1, out |-> <<>>],
                        input),
            LAMBDA w : Of(w.out \o Literals(TailFrom(input, w.from)), LAMBDA out :
                IF Len(out) < Len(input) THEN out ELSE Refused))

(* blosclz_decompress.  The bytes of a long length end at the first that   *)
(* is not the greatest; a distance of all ones stands for a far one, which *)
(* follows.  What ends with a match ends without that match.               *)
Broken == [at |-> 0, out |-> Refused]

EndOfLength(input, at) == Min({i \in at .. Len(input) : input[i] # Base - 1} \cup {Len(input) + 1})

LiteralRun(input, w, ctrl) ==
    IF w.at + ctrl + 1 > Len(input) THEN Broken
    ELSE [at |-> w.at + ctrl + 2, out |-> w.out \o SubSeq(input, w.at + 1, w.at + ctrl + 1)]

CopiedMatch(input, w, length, distance, at) ==
    IF distance > Len(w.out) THEN Broken
    ELSE IF at > Len(input) THEN [w EXCEPT !.at = at]
    ELSE [at |-> at, out |-> Copied(w.out, Len(w.out) - distance + 1, length)]

(* At low there is the low byte of the distance.                           *)
DistantMatch(input, w, high, length, low) ==
    IF low > Len(input) THEN Broken
    ELSE IF high = LitMax - 1 /\ input[low] = Base - 1
    THEN IF low + 2 > Len(input) THEN Broken
         ELSE CopiedMatch(input, w, length, input[low + 1] * Base + input[low + 2] + MaxDistance + 1, low + 3)
    ELSE CopiedMatch(input, w, length, high * Base + input[low] + 1, low + 1)

MatchRun(input, w, ctrl) ==
    LET high == ctrl % LitMax
        short == ctrl \div LitMax
        end == EndOfLength(input, w.at + 1)
    IN  IF short < LongMatch THEN DistantMatch(input, w, high, short + 2, w.at + 1)
        ELSE IF end > Len(input) THEN Broken
        ELSE DistantMatch(input, w, high, LongMatch + 2 + (end - w.at - 1) * (Base - 1) + input[end], end + 1)

DecompressStep(input, w) ==
    IF w.out = Refused \/ w.at > Len(input) THEN w
    ELSE IF w.at = 1 THEN LiteralRun(input, w, input[1] % LitMax)
    ELSE IF input[w.at] < LitMax THEN LiteralRun(input, w, input[w.at])
    ELSE MatchRun(input, w, input[w.at])

BloscLzDecompressed(input, length) ==
    Of(Accumulated(LAMBDA w, i : DecompressStep(input, w), [at |-> 1, out |-> <<>>], input), LAMBDA w :
        IF Len(w.out) # length THEN Refused ELSE w.out)

-----------------------------------------------------------------------------
(* compress: the size of a block is a whole number of elements.            *)
TypeSize(p) == IF p.typesize \in 1 .. Base - 1 THEN p.typesize ELSE 1

BlockSize(p, n) ==
    LET most == Min({BloscBlock, Max({n, 1})})
    IN  Max({most - (most % TypeSize(p)), TypeSize(p)})

ShuffledBlock(p, block) ==
    IF p.shuffle = 1 THEN Shuffled(TypeSize(p), block)
    ELSE IF p.shuffle = 2 THEN BitShuffle(TypeSize(p), block)
    ELSE block

(* A stream that does not get shorter is stored as it is.                  *)
StreamOf(p, block) ==
    Of(IF p.codec = BloscLz THEN BloscLzCompressed(block) ELSE Refused, LAMBDA out :
        IF out = Refused THEN LittleEndian(Len(block), U32) \o block
        ELSE LittleEndian(Len(out), U32) \o out)

ShuffleFlag(p) ==
    IF p.shuffle = 1 /\ TypeSize(p) > 1 THEN ByteShuffled
    ELSE IF p.shuffle = 2 THEN BitShuffled ELSE 0

Header(p, flags, n, blocksize, size) ==
    <<2, 1, flags, p.codec, TypeSize(p)>>
    \o LittleEndian(n, U32) \o LittleEndian(blocksize, U32) \o LittleEndian(size, U32)

(* The places of the blocks, then the blocks.                              *)
WithStarts(p, flags, n, blocksize, coded) ==
    LET start[j \in 1 .. Len(coded) + 1] ==
            IF j = 1 THEN BloscHeader + U32 * Len(coded) ELSE start[j - 1] + Len(coded[j - 1])
    IN  Header(p, flags, n, blocksize, start[Len(coded) + 1])
        \o FlattenSeq([j \in DOMAIN coded |-> LittleEndian(start[j], U32)]) \o FlattenSeq(coded)

BloscCompressed(p, data) ==
    Of(Pieces(data, BlockSize(p, Len(data))), LAMBDA blocks :
        Of([j \in DOMAIN blocks |-> StreamOf(p, ShuffledBlock(p, blocks[j]))], LAMBDA coded :
            WithStarts(p, NotSplit + ShuffleFlag(p), Len(data), BlockSize(p, Len(data)), coded)))

(* Other writers: a whole block in as many streams as an element has       *)
(* bytes, nothing of a stream of zeros, and everything as it is where      *)
(* nothing gets shorter.                                                   *)
Splits(typesize, blocksize, whole) ==
    IF typesize \in 1 .. BloscMaxSplits /\ blocksize \div typesize >= BloscMinSplit /\ whole
    THEN typesize ELSE 1

SparseStream(p, stream) ==
    IF \A i \in DOMAIN stream : stream[i] = 0 THEN LittleEndian(0, U32) ELSE StreamOf(p, stream)

SplitStreams(p, block, n) ==
    Of(Pieces(ShuffledBlock(p, block), Len(block) \div n), LAMBDA streams :
        FlattenSeq([i \in DOMAIN streams |-> SparseStream(p, streams[i])]))

SplitFrame(p, data) ==
    Of(Pieces(data, BlockSize(p, Len(data))), LAMBDA blocks :
        Of([j \in DOMAIN blocks |->
                SplitStreams(p, blocks[j],
                             Splits(TypeSize(p), BlockSize(p, Len(data)),
                                    Len(blocks[j]) = BlockSize(p, Len(data))))], LAMBDA coded :
            WithStarts(p, ShuffleFlag(p), Len(data), BlockSize(p, Len(data)), coded)))

BloscElsewhere(p, data) ==
    Of(SplitFrame(p, data), LAMBDA frame :
        IF Len(frame) < BloscHeader + Len(data) THEN frame
        ELSE Header(p, MemCpyed, Len(data), BlockSize(p, Len(data)), BloscHeader + Len(data)) \o data)

-----------------------------------------------------------------------------
(* decompress: the streams of a block from at on, each of size bytes.      *)
StreamRead(frame, r, size) ==
    LET csize == NumberIn(frame, r.at)
        payload == SubSeq(frame, r.at + U32, r.at + U32 + csize - 1)
        Plain == IF csize = size THEN payload
                 ELSE IF frame[4] = BloscLz THEN BloscLzDecompressed(payload, size) ELSE Refused
    IN  IF r.out = Refused THEN r
        ELSE IF r.at + U32 - 1 > Len(frame) THEN Broken
        ELSE IF csize = 0 THEN [at |-> r.at + U32, out |-> r.out \o Zeros(size)]
        ELSE IF r.at + U32 + csize - 1 > Len(frame) THEN Broken
        ELSE Of(Plain, LAMBDA plain : [at |-> r.at + U32 + csize,
                                       out |-> IF plain = Refused THEN Refused ELSE r.out \o plain])

UnshuffledBlock(flags, typesize, block) ==
    LET bytes == IF HasFlag(flags, ByteShuffled) /\ typesize > 1 THEN Unshuffled(typesize, block) ELSE block
    IN  IF HasFlag(flags, BitShuffled) /\ typesize > 0 THEN BitUnshuffle(typesize, bytes) ELSE bytes

BlockRead(frame, start, size, splits) ==
    Of(Accumulated(LAMBDA r, i : StreamRead(frame, r, size \div splits),
                   [at |-> start + 1, out |-> <<>>], [i \in 1 .. splits |-> i]).out, LAMBDA block :
        IF block = Refused \/ Len(block) # size THEN Refused ELSE UnshuffledBlock(frame[3], frame[5], block))

BlockOf(frame, n, blocksize, j) ==
    LET size == Min({blocksize, n - (j - 1) * blocksize})
    IN  BlockRead(frame, NumberIn(frame, BloscHeader + (j - 1) * U32 + 1), size,
                  IF HasFlag(frame[3], NotSplit) THEN 1 ELSE Splits(frame[5], blocksize, size = blocksize))

BlocksJoined(blocks) ==
    IF \E j \in DOMAIN blocks : blocks[j] = Refused THEN Refused ELSE FlattenSeq(blocks)

BloscDecompressed(frame) ==
    LET n == NumberIn(frame, 6)
        blocksize == Max({NumberIn(frame, 6 + U32), 1})
        nblocks == (n + blocksize - 1) \div blocksize
    IN  IF Len(frame) < BloscHeader THEN Refused
        ELSE IF NumberIn(frame, 6 + 2 * U32) > Len(frame) THEN Refused
        ELSE IF HasFlag(frame[3], MemCpyed)
        THEN IF BloscHeader + n > Len(frame) THEN Refused
             ELSE SubSeq(frame, BloscHeader + 1, BloscHeader + n)
        ELSE IF BloscHeader + U32 * nblocks > Len(frame) THEN Refused
        ELSE Of([j \in 1 .. nblocks |-> BlockOf(frame, n, blocksize, j)], BlocksJoined)
=============================================================================
