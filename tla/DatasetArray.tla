---------------------------- MODULE DatasetArray ----------------------------
(***************************************************************************)
(* What a dataset promises, whatever layout it has and however often its   *)
(* file is closed and opened again: an array of values, which whole        *)
(* writes, slice writes and resizes change.  A selection is what the       *)
(* examples above SliceOrIndex (hl/selection.rs:217) draw: blocks at       *)
(* regular distances, those that fit below the end.  The one for a count   *)
(* is left aside: it draws three elements for the count of two, where the  *)
(* comment of the variant (line 255), the constructors and the code have   *)
(* as many blocks as are counted.                                          *)
(***************************************************************************)
EXTENDS Layout, Integers, FiniteSets

CONSTANTS
    Modulus,      \* values are 0 .. Modulus - 1
    Seeds,        \* first values of what is written
    Selections,   \* what slices are written to
    Shapes        \* shapes the dataset is given

VARIABLES shape, contents    \* coordinates to values

Coords(dims) == {CoordAt(dims, k) : k \in 1 .. Numel(dims)}

(* The places a slice of an axis selects: a block, blocks up to an end, or *)
(* as many as are counted.                                                 *)
OnAxis(slice, dim) ==
    LET end == IF slice.kind = "To" THEN slice.end ELSE dim
        Block(i) == slice.start + i * slice.step .. slice.start + i * slice.step + slice.block - 1
        blocks == CASE slice.kind = "Index" -> {slice.start .. slice.start}
                    [] slice.kind = "Count" -> {Block(i) : i \in 0 .. slice.count - 1}
                    [] OTHER -> {b \in {Block(i) : i \in 0 .. end} : b \subseteq 0 .. end - 1}
    IN  UNION blocks

(* The coordinates in the order in which their values are given.           *)
Chosen(sel, dims) ==
    LET all == [k \in 1 .. Numel(dims) |-> CoordAt(dims, k)]
        InSlices(c) == \A i \in DOMAIN dims : c[i] \in OnAxis(sel.slices[i], dims[i])
    IN  CASE sel.kind = "All"    -> all
          [] sel.kind = "Points" -> sel.points
          [] sel.kind = "Slices" -> SelectSeq(all, InSlices)

Valid(sel, dims) ==
    CASE sel.kind = "All"    -> TRUE
      [] sel.kind = "Points" -> \A k \in DOMAIN sel.points : sel.points[k] \in Coords(dims)
      [] sel.kind = "Slices" ->
            /\ Len(sel.slices) = Len(dims)
            /\ \A i \in DOMAIN dims :
                  LET s == sel.slices[i]
                  IN  /\ s.start <= dims[i]
                      /\ s.kind = "To" => s.end <= dims[i]
                      /\ OnAxis(s, dims[i]) \subseteq 0 .. dims[i] - 1

(* n values that are given to a write; they differ from their neighbours.  *)
Given(v, n) == [k \in 1 .. n |-> (v + k) % Modulus]

(* The last value that is given for a coordinate counts.                   *)
Assigned(f, order, values) ==
    [c \in DOMAIN f |->
        IF \E k \in DOMAIN order : order[k] = c
        THEN values[CHOOSE k \in DOMAIN order :
                        order[k] = c /\ \A j \in DOMAIN order : order[j] = c => j <= k]
        ELSE f[c]]

Init == shape \in Seq(Nat) /\ contents \in [Coords(shape) -> 0 .. Modulus - 1]

Write(v) ==
    /\ contents' = [c \in Coords(shape) |-> Given(v, Numel(shape))[Position(shape, c)]]
    /\ UNCHANGED shape

WriteSlice(sel, v) ==
    /\ Valid(sel, shape)
    /\ contents' = Assigned(contents, Chosen(sel, shape), Given(v, Len(Chosen(sel, shape))))
    /\ UNCHANGED shape

Resize(new) ==
    /\ Len(new) = Len(shape)
    /\ shape' = new
    /\ contents' = [c \in Coords(new) |-> IF c \in DOMAIN contents THEN contents[c] ELSE 0]

Next ==
    \/ \E v \in Seeds : Write(v) \/ \E sel \in Selections : WriteSlice(sel, v)
    \/ \E new \in Shapes : Resize(new)

Spec == Init /\ [][Next]_<<shape, contents>>
=============================================================================
