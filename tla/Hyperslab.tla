------------------------------ MODULE Hyperslab ------------------------------
(***************************************************************************)
(* Selections of a dataset's elements (hl/selection.rs): all of them, a    *)
(* list of points, or a hyperslab, which has one slice for each axis.      *)
(* A slice is an index, a range up to an end, a number of blocks, or       *)
(* everything from a start on.                                             *)
(***************************************************************************)
EXTENDS Layout, Integers

SaturatingSub(a, b) == IF a > b THEN a - b ELSE 0

(* SliceOrIndex::count for a range: the steps from the end of the first    *)
(* block that stay below the end.                                          *)
BlocksBelow(slice, end) ==
    LET first == slice.start + SaturatingSub(slice.block, 1)
    IN  (SaturatingSub(end, first) + slice.step - 1) \div slice.step

(* slice_info_to_raw: what it refuses, and the slice with its count.       *)
SliceFits(slice, dim) ==
    CASE slice.kind = "Index"     -> slice.start < dim
      [] slice.kind = "To"        -> slice.step >= 1 /\ slice.start <= dim /\ slice.end <= dim
      [] slice.kind = "Unlimited" -> slice.step >= 1 /\ slice.start <= dim
      [] slice.kind = "Count"     ->
            /\ slice.step >= 1 /\ slice.start <= dim
            /\ slice.start + SaturatingSub(slice.block, 1)
               + slice.step * SaturatingSub(slice.count, 1) <= dim

RawSlice(slice, dim) ==
    [start |-> slice.start,
     step  |-> IF slice.kind = "Index" THEN 1 ELSE slice.step,
     block |-> IF slice.kind = "Index" THEN 1 ELSE slice.block,
     count |-> CASE slice.kind = "Index"     -> 1
                 [] slice.kind = "To"        -> BlocksBelow(slice, slice.end)
                 [] slice.kind = "Unlimited" -> BlocksBelow(slice, dim)
                 [] slice.kind = "Count"     -> slice.count]

RawSlices(slices, shape) == [i \in DOMAIN slices |-> RawSlice(slices[i], shape[i])]

(* A faulty CoversAxis: the start is not looked at.                        *)
CoversAxisAnyStart(raw, dim) == raw.step = raw.block /\ raw.count * raw.block = dim

(* RawHyperslab::is_all, for one axis.                                     *)
CoversAxis(raw, dim) ==
    raw.start = 0 /\ raw.step = raw.block /\ raw.count * raw.block = dim

(* The coordinates a slice selects on its axis, in order.                  *)
AxisCoords(raw) ==
    [k \in 1 .. raw.count * raw.block |->
        raw.start + ((k - 1) \div raw.block) * raw.step + ((k - 1) % raw.block)]

(* RawSelection::linear_indices of a hyperslab, 1-based: the cartesian     *)
(* product of the axes, in row-major order.                                *)
ProductIndices(axes, shape) ==
    LET lens == [i \in DOMAIN axes |-> Len(axes[i])]
        Coord(k) == [i \in DOMAIN axes |-> axes[i][CoordAt(lens, k)[i] + 1]]
    IN  [k \in 1 .. Numel(lens) |-> Position(shape, Coord(k))]

(* Selection::into_raw and linear_indices: what they refuse together, and  *)
(* the positions they select, in selection order.                          *)
Accepted(sel, shape) ==
    CASE sel.kind = "All"    -> TRUE
      [] sel.kind = "Points" -> \A i \in DOMAIN sel.points : Inside(shape, sel.points[i])
      [] sel.kind = "Slices" ->
            /\ Len(sel.slices) = Len(shape)
            /\ \A i \in DOMAIN shape : SliceFits(sel.slices[i], shape[i])
            /\ LET raws == RawSlices(sel.slices, shape)
               IN  \/ \E i \in DOMAIN raws : raws[i].count = 0
                   \/ \A i \in DOMAIN raws : CoversAxis(raws[i], shape[i])
                   \/ \A i \in DOMAIN raws : \A k \in DOMAIN AxisCoords(raws[i]) :
                          AxisCoords(raws[i])[k] < shape[i]

LinearIndices(sel, shape) ==
    LET everything == [k \in 1 .. Numel(shape) |-> k]
        raws == RawSlices(sel.slices, shape)
    IN  CASE sel.kind = "All"    -> everything
          [] sel.kind = "Points" -> [k \in DOMAIN sel.points |-> Position(shape, sel.points[k])]
          [] sel.kind = "Slices" ->
                IF \E i \in DOMAIN raws : raws[i].count = 0 THEN <<>>
                ELSE IF \A i \in DOMAIN raws : CoversAxis(raws[i], shape[i]) THEN everything
                ELSE ProductIndices([i \in DOMAIN raws |-> AxisCoords(raws[i])], shape)

(* Selection::out_shape: an index takes its axis away.                     *)
OutShape(sel, shape) ==
    CASE sel.kind = "All"    -> shape
      [] sel.kind = "Points" -> <<Len(sel.points)>>
      [] sel.kind = "Slices" ->
            LET raws == RawSlices(sel.slices, shape)
                kept == SelectSeq([i \in DOMAIN raws |-> i],
                                  LAMBDA i : sel.slices[i].kind # "Index")
            IN  [j \in DOMAIN kept |-> raws[kept[j]].count * raws[kept[j]].block]

=============================================================================
