----------------------------- MODULE VirtualMaps -----------------------------
(***************************************************************************)
(* The selections of a virtual dataset's mappings: from a selection of the *)
(* builder to the form that is stored (hl/dataset.rs), to the words of the *)
(* mapping list and back, and the elements the stored form selects         *)
(* (format/vds.rs), which is an enumeration of its own.                    *)
(*                                                                         *)
(* A stored selection is all, none, a slice [start, step, count, block]    *)
(* for each axis, boxes [first, last], or points.  Words of `size' bytes   *)
(* are below 4 ^ size, and the greatest one says "no limit".               *)
(***************************************************************************)
EXTENDS Hyperslab, SequencesExt

NoLimit(size) == 4 ^ size - 1
WordSize == 8

(* to_ser, after Selection::into_raw: no count is unlimited any more.      *)
Serialized(sel, shape) ==
    LET raws == RawSlices(sel.slices, shape)
    IN  CASE sel.kind = "All" -> [kind |-> "All"]
          [] sel.kind = "Points" -> [kind |-> "Points", points |-> sel.points]
          [] sel.kind = "Slices" ->
                IF \E i \in DOMAIN raws : raws[i].count = 0 THEN [kind |-> "None"]
                ELSE IF \A i \in DOMAIN raws : CoversAxis(raws[i], shape[i]) THEN [kind |-> "All"]
                ELSE [kind |-> "Regular", slices |-> raws]

(* encode_selection: boxes and points have no encoding, so that a dataset  *)
(* the builder accepted can not be saved.                                  *)
Encodable(ser) == ser.kind \in {"All", "None", "Regular"}

EncodedSelection(ser) ==
    IF ser.kind # "Regular" THEN [type |-> ser.kind, version |-> 1, size |-> 4, regular |-> FALSE, words |-> <<>>]
    ELSE [type |-> "Hyperslab", version |-> 2, size |-> WordSize, regular |-> TRUE,
          words |-> FlattenSeq([i \in DOMAIN ser.slices |->
                        LET s == ser.slices[i]
                        IN  <<s.start, IF s.step = 0 THEN 1 ELSE s.step, s.count, s.block>>])]

(* parse_selection: the flag of a regular hyperslab came with version 2.   *)
ParsedSelection(enc, rank) ==
    LET Words(i, n) == SubSeq(enc.words, (i - 1) * n + 1, i * n)
    IN  CASE enc.type \in {"All", "None"} -> [kind |-> enc.type]
          [] enc.type = "Points" ->
                [kind |-> "Points",
                 points |-> [i \in 1 .. Len(enc.words) \div rank |-> Words(i, rank)]]
          [] enc.type = "Hyperslab" /\ enc.version >= 2 /\ enc.regular ->
                [kind |-> "Regular",
                 slices |-> [i \in 1 .. rank |->
                    LET w == Words(i, 4)
                    IN  [start |-> w[1], step |-> w[2], block |-> w[4],
                         count |-> IF w[3] = NoLimit(enc.size) THEN -1 ELSE w[3]]]]
          [] OTHER ->
                [kind |-> "Blocks",
                 boxes |-> [i \in 1 .. Len(enc.words) \div (2 * rank) |->
                    [first |-> SubSeq(Words(i, 2 * rank), 1, rank),
                     last |-> SubSeq(Words(i, 2 * rank), rank + 1, 2 * rank)]]]

-----------------------------------------------------------------------------
(* SerSelection::linear_indices, 1-based.                                  *)

(* Full blocks that fit, if there is no limit; coordinates outside are     *)
(* left out.                                                               *)
StoredAxis(slice, dim) ==
    LET step == IF slice.step = 0 THEN 1 ELSE slice.step
        count == IF slice.count # -1 THEN slice.count
                 ELSE IF dim >= slice.start + slice.block
                 THEN (dim - slice.start - slice.block) \div step + 1 ELSE 0
    IN  SelectSeq([k \in 1 .. count * slice.block |->
                      slice.start + ((k - 1) \div slice.block) * step + ((k - 1) % slice.block)],
                  LAMBDA c : c < dim)

(* A faulty step: axes before the one that counts up start again too.      *)
NextInBoxFirst(box, c) ==
    LET below == {i \in DOMAIN c : c[i] < box.last[i]}
        k == CHOOSE i \in below : \A j \in below : j <= i
    IN  IF below = {} THEN box.first ELSE [box.first EXCEPT ![k] = c[k] + 1]

(* The coordinate after c in a box: the last axis that is not at its end   *)
(* counts up and those after it start again.  After the last one comes the *)
(* first.                                                                  *)
NextInBox(box, c) ==
    LET below == {i \in DOMAIN c : c[i] < box.last[i]}
        k == CHOOSE i \in below : \A j \in below : j <= i
    IN  IF below = {} THEN box.first
        ELSE [i \in DOMAIN c |-> IF i < k THEN c[i] ELSE IF i = k THEN c[i] + 1 ELSE box.first[i]]

BoxCoords(box) ==
    LET size == [i \in DOMAIN box.first |-> box.last[i] - box.first[i] + 1]
        Walk(cs, k) == Append(cs, NextInBox(box, Last(cs)))
    IN  FoldLeft(Walk, <<box.first>>, [k \in 1 .. Numel(size) - 1 |-> k])

StoredIndices(ser, dims) ==
    CASE ser.kind = "All" -> [k \in 1 .. Numel(dims) |-> k]
      [] ser.kind = "None" -> <<>>
      [] ser.kind = "Regular" ->
            LET axes == [i \in DOMAIN dims |-> StoredAxis(ser.slices[i], dims[i])]
            IN  IF \E i \in DOMAIN axes : axes[i] = <<>> THEN <<>> ELSE ProductIndices(axes, dims)
      [] ser.kind = "Blocks" ->
            FlattenSeq([b \in DOMAIN ser.boxes |->
                LET cs == BoxCoords(ser.boxes[b]) IN [k \in DOMAIN cs |-> Position(dims, cs[k])]])
      [] ser.kind = "Points" -> [k \in DOMAIN ser.points |-> Position(dims, ser.points[k])]
=============================================================================
