----------------------------- MODULE Container -----------------------------
(***************************************************************************)
(* A dataset or an attribute of an open file as the threads that hold      *)
(* handles of it use it: Container::snapshot, Container::store, the Reader *)
(* and Writer on top of them, Dataset::resize, DatasetData::materialize    *)
(* and AttributeBuilder::create.                                           *)
(*                                                                         *)
(* No lock is held across a call.  A call first takes a snapshot (is the   *)
(* data still lazy? under a read lock; materialize it, under a write lock; *)
(* clone shape and data, under a read lock) and a write then stores a      *)
(* whole new buffer made from the snapshot under another write lock.  An   *)
(* attribute is never deferred, sliced or resized; one created with data   *)
(* is created full of zeros and then written like any other.               *)
(***************************************************************************)
EXTENDS Layout

CONSTANTS
    Thread,   \* threads that use the container
    Value,    \* element values that are written
    Zero,     \* the value of an element nobody wrote
    Shapes,   \* shapes the dataset is given, within its maxdims
    Regions,  \* sets of coordinates that slice writes select
    Does      \* per thread, the calls it makes

ASSUME ShapesAssumption == Shapes \subseteq Seq(Nat)

ASSUME DoesAssumption ==
    Does \in [Thread -> SUBSET {"read", "write", "write_raw", "slice", "resize",
                                "create", "create_with"}]

VARIABLES
    kind,      \* a dataset, an attribute, or an attribute still to be created
    dims,      \* DatasetData.dims
    data,      \* DatasetData.data, one entry per element
    lazy,      \* DatasetData.lazy: the file image's elements, or Loaded
    readable,  \* the image can be decoded
    readOnly,  \* FileState.read_only
    call,      \* per thread, the call it is in
    seen       \* per thread, what its last read returned

vars == <<kind, dims, data, lazy, readable, readOnly, call, seen>>

Loaded == [loaded |-> TRUE]
Image(elems) == [loaded |-> FALSE, elems |-> elems]

(* The contents whichever way they are held. *)
Contents == IF lazy.loaded THEN data ELSE lazy.elems

Promise == INSTANCE AtomicContainer WITH data <- Contents

Idle == [pc |-> "idle"]

(* The arguments of a call that takes a snapshot. *)
Requests ==
    {[op |-> "read"]}
    \cup [op : {"write", "write_raw"}, shape : Shapes, value : Value]
    \cup [op : {"slice"}, region : Regions, value : Value]

-----------------------------------------------------------------------------
Init ==
    /\ \/ kind = "absent" /\ dims = <<>> /\ lazy = Loaded /\ data = <<>>
       \/ /\ kind \in {"dataset", "attribute"}
          /\ dims \in Shapes
          /\ \E v \in Value \cup {Zero} :
               \/ lazy = Loaded /\ data = Filled(dims, v)
               \/ kind = "dataset" /\ lazy = Image(Filled(dims, v)) /\ data = <<>>
    /\ readable \in BOOLEAN
    /\ readOnly \in BOOLEAN
    /\ call = [t \in Thread |-> Idle]
    /\ seen = [t \in Thread |-> <<>>]

To(t, pc) == call' = [call EXCEPT ![t].pc = pc]
Return(t) == call' = [call EXCEPT ![t] = Idle]

(* write compares the shapes on a snapshot of its own, before the one that *)
(* write_elements takes.                                                   *)
Begin(t, r) ==
    /\ call[t] = Idle /\ kind # "absent" /\ r.op \in Does[t]
    /\ call' = [call EXCEPT ![t] = [pc |-> IF lazy.loaded THEN "clone" ELSE "load",
                                    checked |-> r.op # "write", req |-> r]]
    /\ UNCHANGED <<kind, dims, data, lazy, readable, readOnly, seen>>

(* Location::attr of a name that is not there. *)
RefuseOpen(t) == call[t] = Idle /\ kind = "absent" /\ UNCHANGED vars

(* AttributeBuilder::create_attr, one critical section.                    *)
Attach(shape) ==
    /\ kind = "absent" /\ ~readOnly
    /\ kind' = "attribute" /\ dims' = shape /\ data' = Filled(shape, Zero)

CreateAttr(t, shape) ==
    /\ call[t] = Idle /\ "create" \in Does[t]
    /\ Attach(shape)
    /\ UNCHANGED <<lazy, readable, readOnly, call, seen>>

(* AttributeBuilderData::create: the data is written by a write_raw.       *)
CreateAttrWith(t, shape, value) ==
    /\ call[t] = Idle /\ "create_with" \in Does[t]
    /\ Attach(shape)
    /\ call' = [call EXCEPT ![t] =
                   [pc |-> "clone", checked |-> TRUE,
                    req |-> [op |-> "write_raw", shape |-> shape, value |-> value]]]
    /\ UNCHANGED <<lazy, readable, readOnly, seen>>

(* A faulty load: the image is dropped before it is known to decode. *)
LoadLosing(t) ==
    /\ call[t].pc = "load"
    /\ \/ lazy.loaded /\ To(t, "clone") /\ UNCHANGED <<data, lazy>>
       \/ ~lazy.loaded /\ readable /\ data' = lazy.elems /\ lazy' = Loaded /\ To(t, "clone")
       \/ ~lazy.loaded /\ ~readable /\ lazy' = Loaded /\ Return(t) /\ UNCHANGED data
    /\ UNCHANGED <<kind, dims, readable, readOnly, seen>>

(* DatasetData::materialize; a dataset another thread has loaded meanwhile *)
(* is left alone, an image that does not decode stays lazy.                *)
Load(t) ==
    /\ call[t].pc = "load"
    /\ \/ lazy.loaded /\ To(t, "clone") /\ UNCHANGED <<data, lazy>>
       \/ ~lazy.loaded /\ readable /\ data' = lazy.elems /\ lazy' = Loaded /\ To(t, "clone")
       \/ ~lazy.loaded /\ ~readable /\ Return(t) /\ UNCHANGED <<data, lazy>>
    /\ UNCHANGED <<kind, dims, readable, readOnly, seen>>

CloneRead(t) ==
    /\ call[t].pc = "clone" /\ call[t].req.op = "read"
    /\ seen' = [seen EXCEPT ![t] = data]
    /\ Return(t)
    /\ UNCHANGED <<kind, dims, data, lazy, readable, readOnly>>

(* The shape comparison of write.                                          *)
CloneShape(t) ==
    /\ call[t].pc = "clone" /\ ~call[t].checked
    /\ IF call[t].req.shape = dims
       THEN call' = [call EXCEPT ![t].checked = TRUE,
                                 ![t].pc = IF lazy.loaded THEN "clone" ELSE "load"]
       ELSE Return(t)
    /\ UNCHANGED <<kind, dims, data, lazy, readable, readOnly, seen>>

(* No conversion leads from the elements' type to the container's: the     *)
(* write ends here, and an attribute that it was to fill stays.            *)
RefuseConversion(t) ==
    /\ call[t].pc = "clone" /\ call[t].req.op # "read"
    /\ Return(t)
    /\ UNCHANGED <<kind, dims, data, lazy, readable, readOnly, seen>>

(* A faulty write_elements: write_raw's elements are not counted. *)
CloneWholeUncounted(t) ==
    /\ call[t].pc = "clone" /\ call[t].checked
    /\ call[t].req.op \in {"write", "write_raw"}
    /\ LET r == call[t].req
       IN  call' = [call EXCEPT ![t] = [pc |-> "store", req |-> r,
                                        buf |-> Filled(r.shape, r.value)]]
    /\ UNCHANGED <<kind, dims, data, lazy, readable, readOnly, seen>>

(* write_elements without a selection: the number of elements is compared  *)
(* again, on a second snapshot.                                            *)
CloneWhole(t) ==
    /\ call[t].pc = "clone" /\ call[t].checked
    /\ call[t].req.op \in {"write", "write_raw"}
    /\ LET r == call[t].req
       IN  IF Numel(r.shape) = Numel(dims)
           THEN call' = [call EXCEPT ![t] = [pc |-> "store", req |-> r,
                                             buf |-> Filled(r.shape, r.value)]]
           ELSE Return(t)
    /\ UNCHANGED <<kind, dims, data, lazy, readable, readOnly, seen>>

(* write_elements with a selection: the selected elements are replaced in  *)
(* the snapshot's buffer, and all of it will be stored.                    *)
CloneSlice(t) ==
    /\ call[t].pc = "clone" /\ call[t].req.op = "slice"
    /\ LET r == call[t].req
       IN  IF kind = "dataset" /\ \A c \in r.region : Inside(dims, c) /\ Position(dims, c) <= Len(data)
           THEN call' = [call EXCEPT ![t] =
                           [pc |-> "store", req |-> r,
                            buf |-> Painted(dims, data, r.region, r.value)]]
           ELSE Return(t)
    /\ UNCHANGED <<kind, dims, data, lazy, readable, readOnly, seen>>

(* A faulty store: read_only is not checked again. *)
StoreUnchecked(t) ==
    /\ call[t].pc = "store"
    /\ data' = call[t].buf
    /\ Return(t)
    /\ UNCHANGED <<kind, dims, lazy, readable, readOnly, seen>>

(* Container::store: neither the shape nor the lazy state is looked at.    *)
Store(t) ==
    /\ call[t].pc = "store"
    /\ data' = IF readOnly THEN data ELSE call[t].buf
    /\ Return(t)
    /\ UNCHANGED <<kind, dims, lazy, readable, readOnly, seen>>

(* A faulty resize: the buffer is cut or padded at its end. *)
ResizeAtEnd(t, new) ==
    /\ call[t] = Idle /\ kind = "dataset" /\ "resize" \in Does[t] /\ ~readOnly
    /\ lazy.loaded \/ readable
    /\ lazy' = Loaded
    /\ dims' = new
    /\ data' = [k \in 1..Numel(new) |->
                   IF k <= Len(Contents) THEN Contents[k] ELSE Zero]
    /\ UNCHANGED <<kind, readable, readOnly, call, seen>>

(* Dataset::resize, one critical section.  The data is loaded before the   *)
(* shape is compared with maxdims: a refused resize may have loaded it.    *)
Resize(t, new) ==
    /\ call[t] = Idle /\ kind = "dataset" /\ "resize" \in Does[t] /\ ~readOnly
    /\ lazy.loaded \/ readable
    /\ lazy' = Loaded
    /\ \/ dims' = new /\ data' = Reshaped(Contents, dims, new, Zero)
       \/ UNCHANGED dims /\ data' = Contents
    /\ UNCHANGED <<kind, readable, readOnly, call, seen>>

(* The collective close of an MPI file. *)
Seal ==
    /\ ~readOnly
    /\ readOnly' = TRUE
    /\ UNCHANGED <<kind, dims, data, lazy, readable, call, seen>>

Step(t) ==
    \/ \E r \in Requests : Begin(t, r)
    \/ RefuseOpen(t)
    \/ Load(t)
    \/ \E shape \in Shapes : CreateAttr(t, shape)
    \/ \E shape \in Shapes, value \in Value : CreateAttrWith(t, shape, value)
    \/ CloneRead(t)
    \/ RefuseConversion(t)
    \/ CloneShape(t)
    \/ CloneWhole(t)
    \/ CloneSlice(t)
    \/ Store(t)
    \/ \E new \in Shapes : Resize(t, new)

Next == Seal \/ \E t \in Thread : Step(t)

Spec == Init /\ [][Next]_vars

-----------------------------------------------------------------------------
(* Properties *)

Buffer == UNION {[1..Numel(d) -> Value \cup {Zero}] : d \in Shapes}

(* Every variable keeps its type; the data is either still in the image or *)
(* in the buffer, and a load that fails does not lose it.                  *)
TypeOK ==
    /\ \/ kind = "absent" /\ dims = <<>> /\ lazy = Loaded /\ data = <<>>
       \/ kind = "dataset" /\ dims \in Shapes /\ lazy = Loaded /\ data \in Buffer
       \/ kind = "dataset" /\ dims \in Shapes /\ ~lazy.loaded /\ lazy.elems \in Buffer
          /\ data = <<>>
       \/ kind = "attribute" /\ dims \in Shapes /\ lazy = Loaded /\ data \in Buffer
    /\ readable \in BOOLEAN /\ readOnly \in BOOLEAN
    /\ \A t \in Thread :
         \/ call[t] = Idle
         \/ call[t] \in [pc : {"load", "clone"}, checked : BOOLEAN, req : Requests]
         \/ call[t] \in [pc : {"store"}, req : Requests, buf : Buffer]
    /\ \A t \in Thread : seen[t] \in Buffer \cup {<<>>}

(* The buffer has one element per coordinate of the shape: no read, flush  *)
(* or resize ever meets a buffer of another length.                        *)
LengthMatchesShape == kind # "absent" => Len(Contents) = Numel(dims)

(* Once the file is read-only nobody changes the shape or the contents,    *)
(* not even a write that took its snapshot before.                         *)
ReadOnlyKeepsContents ==
    [][readOnly => kind' = kind /\ dims' = dims /\ Contents' = Contents]_vars

(* The container behaves as if every call took effect at one moment: a     *)
(* thread that reads while another writes, resizes, loads or creates sees  *)
(* all of it or nothing, a refused call changes nothing, and the name of   *)
(* an attribute is given once, whoever races to create it.                 *)
Atomic == Promise!Spec
=============================================================================
