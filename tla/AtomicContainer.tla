-------------------------- MODULE AtomicContainer --------------------------
(***************************************************************************)
(* What a dataset or an attribute promises its users: a shape and one      *)
(* value per coordinate of it, that creation, reads, writes, slice writes  *)
(* and resizes see and change at a single moment each.  An attribute is    *)
(* created once, full of zeros, and keeps its shape.  Container implements *)
(* it when one thread writes the dataset.                                  *)
(***************************************************************************)
EXTENDS Layout

CONSTANTS
    Thread,   \* threads that hold a handle of the container
    Value,    \* element values that are written
    Zero,     \* the value of an element nobody wrote
    Shapes,   \* shapes the container is given
    Regions   \* sets of coordinates that slice writes select

VARIABLES kind, dims, data, seen

Init ==
    /\ seen = [t \in Thread |-> <<>>]
    /\ \/ kind = "absent" /\ dims = <<>> /\ data = <<>>
       \/ /\ kind \in {"dataset", "attribute"}
          /\ dims \in Shapes
          /\ \E v \in Value \cup {Zero} : data = Filled(dims, v)

Create(shape) ==
    /\ kind = "absent"
    /\ kind' = "attribute" /\ dims' = shape /\ data' = Filled(shape, Zero)
    /\ UNCHANGED seen

Write(v) ==
    /\ kind # "absent"
    /\ data' = Filled(dims, v)
    /\ UNCHANGED <<kind, dims, seen>>

WriteSlice(region, v) ==
    /\ kind = "dataset"
    /\ \A c \in region : Inside(dims, c)
    /\ data' = Painted(dims, data, region, v)
    /\ UNCHANGED <<kind, dims, seen>>

Resize(new) ==
    /\ kind = "dataset"
    /\ dims' = new
    /\ data' = Reshaped(data, dims, new, Zero)
    /\ UNCHANGED <<kind, seen>>

Read(t) ==
    /\ kind # "absent"
    /\ seen' = [seen EXCEPT ![t] = data]
    /\ UNCHANGED <<kind, dims, data>>

Next ==
    \/ \E v \in Value : Write(v) \/ \E region \in Regions : WriteSlice(region, v)
    \/ \E new \in Shapes : Create(new) \/ Resize(new)
    \/ \E t \in Thread : Read(t)

Spec == Init /\ [][Next]_<<kind, dims, data, seen>>
=============================================================================
