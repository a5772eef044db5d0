------------------------------- MODULE Layout -------------------------------
(***************************************************************************)
(* Row-major buffers of a dataset: one entry per coordinate of its shape.  *)
(***************************************************************************)
EXTENDS Naturals, Sequences

(* The number of elements, and the 1-based position of a coordinate.       *)
Numel(d) ==
    LET P[i \in 0..Len(d)] == IF i = 0 THEN 1 ELSE P[i - 1] * d[i] IN P[Len(d)]

Inside(d, c) == Len(c) = Len(d) /\ \A i \in DOMAIN d : c[i] < d[i]

Position(d, c) ==
    LET P[i \in 0..Len(d)] == IF i = 0 THEN 0 ELSE P[i - 1] * d[i] + c[i]
    IN  P[Len(d)] + 1

(* The coordinate at a position. *)
CoordAt(d, k) ==
    LET Below[i \in 1..Len(d) + 1] == IF i = Len(d) + 1 THEN 1 ELSE Below[i + 1] * d[i]
    IN  [i \in 1..Len(d) |-> ((k - 1) \div Below[i + 1]) % d[i]]

(* slice::chunks: pieces of n elements, the last one may be shorter.       *)
Chunks(s, n) ==
    [i \in 1 .. (Len(s) + n - 1) \div n |->
        SubSeq(s, (i - 1) * n + 1, IF i * n < Len(s) THEN i * n ELSE Len(s))]

Filled(d, v) == [k \in 1..Numel(d) |-> v]

(* The elements in the region get the value, the others keep theirs.       *)
Painted(d, buf, region, v) ==
    [k \in 1..Len(buf) |-> IF CoordAt(d, k) \in region THEN v ELSE buf[k]]

(* What a buffer becomes under a new shape: the overlap is kept, the rest  *)
(* is zero.                                                                *)
Reshaped(buf, old, new, zero) ==
    [k \in 1..Numel(new) |->
        LET c == CoordAt(new, k)
        IN  IF Inside(old, c) /\ Position(old, c) <= Len(buf)
            THEN buf[Position(old, c)] ELSE zero]
=============================================================================
