------------------------------- MODULE Bytes -------------------------------
(***************************************************************************)
(* Bytes of ByteBits bits, little-endian numbers made of them, and streams *)
(* of bits, the most significant bit of a byte first.                      *)
(***************************************************************************)
EXTENDS Integers, Sequences, SequencesExt

CONSTANTS
    ByteBits,   \* bits of a byte
    WordBytes   \* bytes of the widest number (u64)

ASSUME WidthAssumption == ByteBits \in Nat \ {0} /\ WordBytes \in Nat \ {0}

Base == 2 ^ ByteBits
Byte == 0 .. Base - 1
Word == Base ^ WordBytes

(* to_le_bytes: the low n bytes, of a negative number too.                 *)
LittleEndian(v, n) == [i \in 1 .. n |-> (v \div Base ^ (i - 1)) % Base]

Unsigned(bytes) == FoldRight(LAMBDA b, v : b + Base * v, bytes, 0)

Signed(bytes) ==
    LET u == Unsigned(bytes) IN
    IF 2 * u >= Base ^ Len(bytes) THEN u - Base ^ Len(bytes) ELSE u

(* What a conversion or a filter returns of an input it refuses.           *)
Refused == <<-1>>

Zeros(n) == [i \in 1 .. n |-> 0]

(* Vec::resize with zeros. *)
Resized(s, n) == [i \in 1 .. n |-> IF i <= Len(s) THEN s[i] ELSE 0]

TailFrom(s, k) == SubSeq(s, k, Len(s))

(* The cells of size bytes each. *)
Cell(data, size, i) == SubSeq(data, (i - 1) * size + 1, i * size)

(* What is left over of s makes a last, shorter piece.                     *)
Pieces(s, size) ==
    [i \in 1 .. (Len(s) + size - 1) \div size |->
        SubSeq(s, (i - 1) * size + 1, IF i * size < Len(s) THEN i * size ELSE Len(s))]

Bits(v, n) == [i \in 1 .. n |-> (v \div 2 ^ (n - i)) % 2]
OfBits(bits) == FoldLeft(LAMBDA v, b : 2 * v + b, 0, bits)

BitsOf(bytes) == FlattenSeq([i \in DOMAIN bytes |-> Bits(bytes[i], ByteBits)])

(* The last byte is filled up with zeros. *)
BytesOf(bits) ==
    LET padded == bits \o Zeros((-Len(bits)) % ByteBits)
    IN  [i \in 1 .. Len(padded) \div ByteBits |-> OfBits(Cell(padded, ByteBits, i))]
=============================================================================
