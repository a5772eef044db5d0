--------------------------- MODULE ContainerProofs ---------------------------
(***************************************************************************)
(* Proofs about Container, for every set of threads, shapes, values and    *)
(* regions.                                                                *)
(***************************************************************************)
EXTENDS Container, BasicFacts

Waiting == [pc : {"load", "clone"}, checked : BOOLEAN, req : Requests]
Storing == [pc : {"store"}, req : Requests, buf : Buffer]

(* The contents are in the image or in the buffer, and a call that has     *)
(* its snapshot has loaded them.                                           *)
Holds ==
    \/ kind = "absent" /\ dims = <<>> /\ lazy = Loaded /\ data = <<>>
    \/ kind \in {"dataset", "attribute"} /\ dims \in Shapes /\ lazy = Loaded /\ data \in Buffer
    \/ kind = "dataset" /\ dims \in Shapes /\ ~lazy.loaded /\ lazy.elems \in Buffer /\ data = <<>>

IInv ==
    /\ Holds
    /\ readable \in BOOLEAN /\ readOnly \in BOOLEAN
    /\ call \in [Thread -> {Idle} \cup Waiting \cup Storing]
    /\ seen \in [Thread -> Buffer \cup {<<>>}]
    /\ \A t \in Thread :
         /\ call[t] # Idle => kind # "absent"
         /\ call[t].pc \in {"clone", "store"} => lazy = Loaded
         /\ call[t].pc = "store" => call[t].req.op # "read"

-----------------------------------------------------------------------------
LEMMA BufferFacts ==
    /\ \A d \in Shapes : d \in Seq(Nat) /\ Numel(d) \in Nat
    /\ \A d \in Shapes, v \in Value \cup {Zero} : Filled(d, v) \in Buffer
    /\ \A buf \in Buffer, v \in Value \cup {Zero} :
         \A d, region : Painted(d, buf, region, v) \in Buffer
    /\ \A buf \in Buffer, old, new \in Shapes : Reshaped(buf, old, new, Zero) \in Buffer
<1> DEFINE E == Value \cup {Zero}
<1>1. \A d \in Shapes : d \in Seq(Nat) /\ Numel(d) \in Nat
  BY ShapesAssumption, NumelIsNat
<1>2. ASSUME NEW d \in Shapes, NEW v \in E PROVE Filled(d, v) \in Buffer
  BY <1>1, FilledBuffer DEF Buffer
<1>3. \A buf \in Buffer : \E d \in Shapes : buf \in [1..Numel(d) -> E]
  BY DEF Buffer
<1>4. ASSUME NEW buf \in Buffer, NEW d, NEW region, NEW v \in E
      PROVE  Painted(d, buf, region, v) \in Buffer
  <2>1. PICK s \in Shapes : buf \in [1..Numel(s) -> E]
    BY <1>3
  <2>2. Painted(d, buf, region, v) \in [1..Numel(s) -> E]
    BY <1>1, <2>1, PaintedBuffer
  <2> QED
    BY <2>2 DEF Buffer
<1>5. ASSUME NEW buf \in Buffer, NEW old \in Shapes, NEW new \in Shapes
      PROVE  Reshaped(buf, old, new, Zero) \in Buffer
  <2>1. PICK s \in Shapes : buf \in [1..Numel(s) -> E]
    BY <1>3
  <2>2. Reshaped(buf, old, new, Zero) \in [1..Numel(new) -> E]
    BY <1>1, <2>1, ReshapedBuffer
  <2> QED
    BY <2>2 DEF Buffer
<1> QED
  BY <1>1, <1>2, <1>4, <1>5

(* What each kind of request carries. *)
LEMMA RequestFacts ==
    ASSUME NEW r \in Requests
    PROVE  /\ r.op \in {"read", "write", "write_raw", "slice"}
           /\ r.op \in {"write", "write_raw"} => r.shape \in Shapes /\ r.value \in Value
           /\ r.op = "slice" => r.region \in Regions /\ r.value \in Value
  BY DEF Requests

LEMMA CallFacts ==
    ASSUME IInv, NEW t \in Thread
    PROVE  /\ call[t].pc = "idle" <=> call[t] = Idle
           /\ call[t].pc \in {"load", "clone"} => call[t] \in Waiting /\ call[t].req \in Requests
           /\ call[t].pc = "store" =>
                call[t] \in Storing /\ call[t].req \in Requests /\ call[t].buf \in Buffer
  BY DEF IInv, Idle, Waiting, Storing

LEMMA InitInv == Init => IInv
<1> SUFFICES ASSUME Init PROVE IInv
  OBVIOUS
<1>1. Holds
  <2>1. CASE kind = "absent"
    BY <2>1 DEF Init, Holds
  <2>2. CASE kind # "absent"
    <3>1. PICK v \in Value \cup {Zero} :
            \/ lazy = Loaded /\ data = Filled(dims, v)
            \/ kind = "dataset" /\ lazy = Image(Filled(dims, v)) /\ data = <<>>
      BY <2>2 DEF Init
    <3>2. kind \in {"dataset", "attribute"} /\ dims \in Shapes
      BY <2>2 DEF Init
    <3>3. Filled(dims, v) \in Buffer
      BY <3>2, BufferFacts
    <3> QED
      BY <3>1, <3>2, <3>3 DEF Holds, Image
  <2> QED
    BY <2>1, <2>2
<1> QED
  BY <1>1 DEF Init, IInv, Idle

(* A step that changes one thread's call and leaves the contents be.       *)
LEMMA CallStep ==
    ASSUME IInv, NEW t \in Thread, NEW c \in {Idle} \cup Waiting \cup Storing,
           call' = [call EXCEPT ![t] = c],
           UNCHANGED <<kind, dims, data, lazy, readable, readOnly, seen>>,
           c # Idle => kind # "absent",
           c.pc \in {"clone", "store"} => lazy = Loaded,
           c.pc = "store" => c.req.op # "read"
    PROVE  IInv'
  BY DEF IInv, Holds

LEMMA LoadedOrNot ==
    ASSUME IInv
    PROVE  /\ lazy.loaded => lazy = Loaded
           /\ ~lazy.loaded => lazy # Loaded /\ kind = "dataset" /\ dims \in Shapes
                              /\ lazy.elems \in Buffer /\ data = <<>>
           /\ lazy = Loaded => lazy.loaded
           /\ lazy = Loaded /\ kind # "absent" => dims \in Shapes /\ data \in Buffer
  BY DEF IInv, Holds, Loaded

(* The steps that only change the call of a thread.                        *)
LEMMA BeginStep ==
    ASSUME IInv, NEW t \in Thread, NEW r \in Requests, Begin(t, r)
    PROVE  IInv'
<1> DEFINE c == [pc |-> IF lazy.loaded THEN "clone" ELSE "load", checked |-> r.op # "write", req |-> r]
<1>1. /\ kind # "absent" /\ call' = [call EXCEPT ![t] = c]
      /\ UNCHANGED <<kind, dims, data, lazy, readable, readOnly, seen>>
  BY DEF Begin
<1>2. c \in Waiting /\ c.pc # "store" /\ (c.pc = "clone" => lazy = Loaded)
  BY LoadedOrNot DEF Waiting
<1> HIDE DEF c
<1> QED
  BY <1>1, <1>2, CallStep

LEMMA LoadStep ==
    ASSUME IInv, NEW t \in Thread, Load(t)
    PROVE  IInv'
<1> DEFINE c == [call[t] EXCEPT !.pc = "clone"]
<1>1. call[t].pc = "load" /\ call[t] \in Waiting /\ kind # "absent"
  BY CallFacts DEF Load, IInv, Idle
<1>2. c \in Waiting /\ c.pc = "clone" /\ c # Idle
  BY <1>1 DEF Waiting, Idle
<1>3. CASE lazy.loaded /\ To(t, "clone") /\ UNCHANGED <<data, lazy>>
  <2>1. call' = [call EXCEPT ![t] = c] /\ lazy = Loaded
    BY <1>3, LoadedOrNot DEF To
  <2> HIDE DEF c
  <2> QED
    BY <1>1, <1>2, <1>3, <2>1, CallStep DEF Load
<1>4. CASE ~lazy.loaded /\ data' = lazy.elems /\ lazy' = Loaded /\ To(t, "clone")
  <2>1. call' = [call EXCEPT ![t] = c]
    BY <1>4 DEF To
  <2>2. Holds'
    BY <1>4, LoadedOrNot DEF Load, Holds
  <2> HIDE DEF c
  <2> QED
    BY <1>1, <1>2, <1>4, <2>1, <2>2 DEF Load, IInv
<1>5. CASE Return(t) /\ UNCHANGED <<data, lazy>>
  BY <1>5, CallStep DEF Load, Return, Idle
<1> QED
  BY <1>3, <1>4, <1>5 DEF Load

LEMMA CreateStep ==
    ASSUME IInv, NEW t \in Thread, NEW shape \in Shapes,
           CreateAttr(t, shape) \/ \E value \in Value : CreateAttrWith(t, shape, value)
    PROVE  IInv'
<1>1. Attach(shape) /\ UNCHANGED <<lazy, readable, readOnly, seen>>
  BY DEF CreateAttr, CreateAttrWith
<1>2. kind = "absent" /\ lazy = Loaded /\ \A u \in Thread : call[u] = Idle
  BY <1>1 DEF Attach, IInv, Holds, Loaded
<1>3. Holds' /\ kind' # "absent"
  <2>1. Filled(shape, Zero) \in Buffer
    BY BufferFacts
  <2> QED
    BY <1>1, <1>2, <2>1 DEF Attach, Holds
<1>4. CASE CreateAttr(t, shape)
  BY <1>1, <1>2, <1>3, <1>4 DEF CreateAttr, IInv, Idle
<1>5. ASSUME NEW value \in Value, CreateAttrWith(t, shape, value) PROVE IInv'
  <2> DEFINE r == [op |-> "write_raw", shape |-> shape, value |-> value]
             c == [pc |-> "clone", checked |-> TRUE, req |-> r]
  <2>1. c \in Waiting /\ c.pc = "clone"
    BY DEF Waiting, Requests
  <2>2. call' = [call EXCEPT ![t] = c]
    BY <1>5 DEF CreateAttrWith
  <2> HIDE DEF c
  <2> QED
    BY <1>1, <1>2, <1>3, <2>1, <2>2 DEF IInv
<1> QED
  BY <1>4, <1>5

LEMMA CloneStep ==
    ASSUME IInv, NEW t \in Thread,
           CloneRead(t) \/ RefuseConversion(t) \/ CloneShape(t) \/ CloneWhole(t) \/ CloneSlice(t)
    PROVE  IInv'
<1> DEFINE r == call[t].req
<1>1. /\ call[t].pc = "clone" /\ call[t] \in Waiting /\ r \in Requests
      /\ lazy = Loaded /\ lazy.loaded /\ kind # "absent" /\ dims \in Shapes /\ data \in Buffer
  <2>1. call[t].pc = "clone" /\ lazy = Loaded
    BY DEF CloneRead, RefuseConversion, CloneShape, CloneWhole, CloneSlice, IInv
  <2>2. call[t] # Idle
    BY <2>1 DEF Idle
  <2> QED
    BY <2>1, <2>2, CallFacts, LoadedOrNot DEF IInv
<1>2. CASE CloneRead(t)
  BY <1>1, <1>2 DEF CloneRead, Return, IInv, Holds, Idle
<1>3. CASE Return(t) /\ UNCHANGED <<kind, dims, data, lazy, readable, readOnly, seen>>
  BY <1>3, CallStep DEF Return, Idle
<1>4. CASE CloneShape(t) /\ ~Return(t)
  <2> DEFINE c == [call[t] EXCEPT !.checked = TRUE, !.pc = "clone"]
  <2>1. c \in Waiting /\ c.pc = "clone"
    BY <1>1 DEF Waiting
  <2>2. /\ call' = [call EXCEPT ![t] = c]
        /\ UNCHANGED <<kind, dims, data, lazy, readable, readOnly, seen>>
    BY <1>1, <1>4 DEF CloneShape
  <2> HIDE DEF c
  <2> QED
    BY <1>1, <2>1, <2>2, CallStep
<1>5. ASSUME NEW buf \in Buffer, r.op # "read",
             call' = [call EXCEPT ![t] = [pc |-> "store", req |-> r, buf |-> buf]],
             UNCHANGED <<kind, dims, data, lazy, readable, readOnly, seen>>
      PROVE  IInv'
  <2> DEFINE c == [pc |-> "store", req |-> r, buf |-> buf]
  <2>1. c \in Storing /\ c.pc = "store" /\ c.req.op # "read"
    BY <1>1, <1>5 DEF Storing
  <2>2. call' = [call EXCEPT ![t] = c]
    BY <1>5
  <2> HIDE DEF c
  <2> QED
    BY <1>1, <1>5, <2>1, <2>2, CallStep
<1>6. CASE CloneWhole(t) /\ ~Return(t)
  <2>1. r.shape \in Shapes /\ r.value \in Value
    BY <1>1, <1>6, RequestFacts DEF CloneWhole
  <2>2. Filled(r.shape, r.value) \in Buffer
    BY <2>1, BufferFacts
  <2> QED
    BY <1>5, <1>6, <2>2 DEF CloneWhole
<1>7. CASE CloneSlice(t) /\ ~Return(t)
  <2>1. r.value \in Value
    BY <1>1, <1>7, RequestFacts DEF CloneSlice
  <2>2. Painted(dims, data, r.region, r.value) \in Buffer
    BY <1>1, <2>1, BufferFacts
  <2> QED
    BY <1>5, <1>7, <2>2 DEF CloneSlice
<1>8. CASE RefuseConversion(t)
  BY <1>3, <1>8 DEF RefuseConversion
<1> QED
  BY <1>2, <1>3, <1>4, <1>6, <1>7, <1>8 DEF CloneShape, CloneWhole, CloneSlice

LEMMA StoreStep ==
    ASSUME IInv, NEW t \in Thread, Store(t)
    PROVE  IInv'
<1>1. call[t].pc = "store" /\ call[t].buf \in Buffer /\ lazy = Loaded /\ kind # "absent"
  BY CallFacts DEF Store, IInv, Idle
<1>2. data' \in Buffer /\ dims \in Shapes /\ kind \in {"dataset", "attribute"}
  BY <1>1, LoadedOrNot DEF Store, IInv, Holds
<1>3. Holds'
  BY <1>1, <1>2 DEF Store, Holds
<1> QED
  BY <1>1, <1>3 DEF Store, Return, IInv, Idle

LEMMA ResizeStep ==
    ASSUME IInv, NEW t \in Thread, NEW new \in Shapes, Resize(t, new)
    PROVE  IInv'
<1>1. kind = "dataset" /\ dims \in Shapes /\ Contents \in Buffer
  BY LoadedOrNot DEF Resize, IInv, Holds, Contents
<1>2. dims' \in Shapes /\ data' \in Buffer
  BY <1>1, BufferFacts DEF Resize
<1>3. Holds'
  BY <1>1, <1>2 DEF Resize, Holds
<1> QED
  BY <1>3 DEF Resize, IInv

LEMMA NextInv == IInv /\ [Next]_vars => IInv'
<1> SUFFICES ASSUME IInv, [Next]_vars PROVE IInv'
  OBVIOUS
<1>1. CASE UNCHANGED vars
  BY <1>1 DEF vars, IInv, Holds
<1>2. CASE Seal
  BY <1>2 DEF Seal, IInv, Holds
<1>3. ASSUME NEW t \in Thread, Step(t) PROVE IInv'
  BY <1>1, <1>3, BeginStep, LoadStep, CreateStep, CloneStep, StoreStep, ResizeStep
     DEF Step, RefuseOpen
<1> QED
  BY <1>1, <1>2, <1>3 DEF Next

LEMMA Invariance == Spec => []IInv
  BY InitInv, NextInv, PTL DEF Spec

(* Every variable keeps its type; the data is either still in the image or *)
(* in the buffer, and a load that fails does not lose it (model.rs,        *)
(* DatasetData::materialize).                                              *)
THEOREM TypeCorrect == Spec => []TypeOK
<1>1. IInv => TypeOK
  BY DEF IInv, Holds, TypeOK, Waiting, Storing
<1> QED
  BY <1>1, Invariance, PTL

(* Once the file is read-only nobody changes the shape or the contents,    *)
(* not even a write that took its snapshot before (container.rs, store).   *)
THEOREM ReadOnlyKeeps == Spec => ReadOnlyKeepsContents
<1>1. [Next]_vars => [readOnly => kind' = kind /\ dims' = dims /\ Contents' = Contents]_vars
  <2> SUFFICES ASSUME Next, readOnly PROVE kind' = kind /\ dims' = dims /\ Contents' = Contents
    BY DEF vars
  <2>1. CASE Seal
    BY <2>1 DEF Seal
  <2>2. ASSUME NEW t \in Thread, Step(t) PROVE kind' = kind /\ dims' = dims /\ Contents' = Contents
    <3>1. CASE UNCHANGED <<kind, dims, data, lazy>>
      BY <3>1 DEF Contents
    <3>2. CASE Load(t)
      BY <3>2 DEF Load, Contents, Loaded
    <3>3. CASE Store(t)
      BY <3>3 DEF Store, Contents
    <3> QED
      BY <2>2, <3>1, <3>2, <3>3 DEF Step, Begin, RefuseOpen, vars, CreateAttr, CreateAttrWith,
         Attach, CloneRead, RefuseConversion, CloneShape, CloneWhole, CloneSlice, Resize
  <2> QED
    BY <2>1, <2>2 DEF Next
<1> QED
  BY <1>1, PTL DEF Spec, ReadOnlyKeepsContents

-----------------------------------------------------------------------------
(* A buffer has the length of its shape, when the thread that resizes is   *)
(* the only one that writes: a store looks at neither the shape nor the    *)
(* length, so a resize by another thread before it would go unnoticed.     *)

ResizerWritesAlone ==
    \A t, u \in Thread :
      "resize" \in Does[t] /\ Does[u] \cap {"write", "write_raw", "slice"} # {} => t = u

LengthInv ==
    /\ LengthMatchesShape
    /\ \A t \in Thread :
         /\ call[t].pc = "store" => Len(call[t].buf) = Numel(dims)
         /\ call[t] # Idle /\ kind = "dataset" => call[t].req.op \in Does[t]

(* A step of one thread's call that keeps shape and length.                *)
LEMMA LengthKept ==
    ASSUME IInv, LengthInv, NEW t \in Thread, NEW c, call' = [call EXCEPT ![t] = c],
           UNCHANGED <<kind, dims>>,
           kind # "absent" => Len(Contents') = Numel(dims),
           c.pc = "store" => Len(c.buf) = Numel(dims),
           c # Idle /\ kind = "dataset" => c.req.op \in Does[t]
    PROVE  LengthInv'
<1>1. call'[t] = c /\ \A u \in Thread : u # t => call'[u] = call[u]
  BY DEF IInv
<1>2. LengthMatchesShape'
  BY DEF LengthMatchesShape
<1>3. ASSUME NEW u \in Thread
      PROVE  /\ call'[u].pc = "store" => Len(call'[u].buf) = Numel(dims)
             /\ call'[u] # Idle /\ kind = "dataset" => call'[u].req.op \in Does[u]
  <2>1. CASE u = t
    BY <1>1, <2>1
  <2>2. CASE u # t
    BY <1>1, <2>2 DEF LengthInv
  <2> QED
    BY <2>1, <2>2
<1> QED
  BY <1>2, <1>3 DEF LengthInv

(* The shape of a dataset does not change while a store is under way.      *)
LEMMA NoStoreInResize ==
    ASSUME IInv, LengthInv, ResizerWritesAlone, NEW t \in Thread, NEW new, Resize(t, new),
           NEW u \in Thread
    PROVE  call[u].pc # "store"
<1> SUFFICES ASSUME call[u].pc = "store" PROVE FALSE
  OBVIOUS
<1>1. call[t] = Idle /\ "resize" \in Does[t] /\ kind = "dataset"
  BY DEF Resize
<1>2. call[u] # Idle
  BY DEF Idle
<1>3. call[u].req.op \in Does[u] /\ call[u].req.op \in {"write", "write_raw", "slice"}
  <2>1. call[u].req.op \in Does[u]
    BY <1>1, <1>2 DEF LengthInv
  <2>2. call[u].req.op # "read" /\ call[u].req \in Requests
    BY CallFacts DEF IInv
  <2> QED
    BY <2>1, <2>2, RequestFacts
<1>4. u = t
  BY <1>1, <1>3 DEF ResizerWritesAlone
<1> QED
  BY <1>1, <1>2, <1>4

LEMMA LengthNext == ASSUME ResizerWritesAlone, IInv, LengthInv, [Next]_vars PROVE LengthInv'
<1>1. CASE UNCHANGED <<kind, dims, data, lazy, call>>
  BY <1>1 DEF LengthInv, LengthMatchesShape, Contents
<1>2. ASSUME NEW t \in Thread, UNCHANGED <<kind, dims, data, lazy>>, Return(t) PROVE LengthInv'
  <2>1. kind # "absent" => Len(Contents') = Numel(dims)
    BY <1>2 DEF LengthInv, LengthMatchesShape, Contents
  <2>2. Idle.pc # "store"
    BY DEF Idle
  <2> QED
    BY <1>2, <2>1, <2>2, LengthKept DEF Return
<1>3. ASSUME NEW t \in Thread, NEW r \in Requests, Begin(t, r) PROVE LengthInv'
  <2> DEFINE c == [pc |-> IF lazy.loaded THEN "clone" ELSE "load",
                   checked |-> r.op # "write", req |-> r]
  <2>1. /\ call' = [call EXCEPT ![t] = c] /\ UNCHANGED <<kind, dims, data, lazy>>
        /\ r.op \in Does[t] /\ c.req = r /\ c.pc # "store"
    BY <1>3 DEF Begin
  <2>2. kind # "absent" => Len(Contents') = Numel(dims)
    BY <2>1 DEF LengthInv, LengthMatchesShape, Contents
  <2> HIDE DEF c
  <2> QED
    BY <2>1, <2>2, LengthKept
<1>4. ASSUME NEW t \in Thread, call[t] # Idle, UNCHANGED <<kind, dims>>, Contents' = Contents
      PROVE  /\ kind # "absent" => Len(Contents') = Numel(dims)
             /\ kind = "dataset" => call[t].req.op \in Does[t]
  BY <1>4 DEF LengthInv, LengthMatchesShape
<1>5. ASSUME NEW t \in Thread, Load(t), ~Return(t) PROVE LengthInv'
  <2> DEFINE c == [call[t] EXCEPT !.pc = "clone"]
  <2>1. call[t].pc = "load" /\ call[t] \in Waiting /\ call[t] # Idle
    BY <1>5, CallFacts DEF Load, Idle
  <2>2. c.pc # "store" /\ c.req = call[t].req
    BY <2>1 DEF Waiting
  <2>3. /\ call' = [call EXCEPT ![t] = c] /\ UNCHANGED <<kind, dims>> /\ Contents' = Contents
    BY <1>5 DEF Load, To, Contents, Loaded
  <2> HIDE DEF c
  <2> QED
    BY <1>4, <2>1, <2>2, <2>3, LengthKept
<1>6. ASSUME NEW t \in Thread, CloneShape(t), ~Return(t) PROVE LengthInv'
  <2> DEFINE c == [call[t] EXCEPT !.checked = TRUE,
                                  !.pc = IF lazy.loaded THEN "clone" ELSE "load"]
  <2>1. call[t].pc = "clone" /\ call[t] \in Waiting /\ call[t] # Idle
    BY <1>6, CallFacts DEF CloneShape, Idle
  <2>2. c.pc # "store" /\ c.req = call[t].req
    BY <2>1 DEF Waiting
  <2>3. /\ call' = [call EXCEPT ![t] = c] /\ UNCHANGED <<kind, dims>> /\ Contents' = Contents
    BY <1>6 DEF CloneShape, Contents
  <2> HIDE DEF c
  <2> QED
    BY <1>4, <2>1, <2>2, <2>3, LengthKept
<1>7. ASSUME NEW t \in Thread, NEW shape \in Shapes,
             CreateAttr(t, shape) \/ \E value \in Value : CreateAttrWith(t, shape, value)
      PROVE  LengthInv'
  <2>1. Attach(shape) /\ UNCHANGED lazy
    BY <1>7 DEF CreateAttr, CreateAttrWith
  <2>2. lazy = Loaded /\ \A u \in Thread : call[u] = Idle
    BY <2>1 DEF Attach, IInv, Holds
  <2>3. LengthMatchesShape'
    <3>1. Contents' = Filled(shape, Zero) /\ dims' = shape
      BY <2>1, <2>2 DEF Attach, Contents, Loaded
    <3> QED
      BY <3>1, BufferFacts, FilledBuffer DEF LengthMatchesShape
  <2>4. kind' = "attribute" /\ \A u \in Thread : call'[u].pc # "store"
    BY <1>7, <2>1, <2>2 DEF CreateAttr, CreateAttrWith, Attach, Idle, IInv
  <2> QED
    BY <2>3, <2>4 DEF LengthInv
<1>8. ASSUME NEW t \in Thread, NEW buf, call[t].pc = "clone", Len(buf) = Numel(dims),
             call' = [call EXCEPT ![t] = [pc |-> "store", req |-> call[t].req, buf |-> buf]],
             UNCHANGED <<kind, dims, data, lazy>>
      PROVE  LengthInv'
  <2> DEFINE c == [pc |-> "store", req |-> call[t].req, buf |-> buf]
  <2>1. call' = [call EXCEPT ![t] = c] /\ c.req = call[t].req /\ c.buf = buf
    BY <1>8
  <2>2. kind # "absent" => Len(Contents') = Numel(dims)
    BY <1>8 DEF LengthInv, LengthMatchesShape, Contents
  <2>3. kind = "dataset" => c.req.op \in Does[t]
    BY <1>8, <2>1 DEF LengthInv, Idle
  <2> HIDE DEF c
  <2> QED
    BY <1>8, <2>1, <2>2, <2>3, LengthKept
<1>9. ASSUME NEW t \in Thread, CloneWhole(t), ~Return(t) PROVE LengthInv'
  <2> DEFINE r == call[t].req
  <2>1. r \in Requests /\ call[t].pc = "clone" /\ r.op \in {"write", "write_raw"}
    BY <1>9, CallFacts DEF CloneWhole
  <2>2. r.shape \in Shapes
    BY <2>1, RequestFacts
  <2>3. Len(Filled(r.shape, r.value)) = Numel(dims)
    BY <1>9, <2>2, BufferFacts, FilledBuffer DEF CloneWhole
  <2> QED
    BY <1>8, <1>9, <2>3 DEF CloneWhole
<1>10. ASSUME NEW t \in Thread, CloneSlice(t), ~Return(t) PROVE LengthInv'
  <2> DEFINE r == call[t].req
  <2>1. call[t].pc = "clone" /\ kind = "dataset" /\ lazy = Loaded
    BY <1>10 DEF CloneSlice, IInv
  <2>2. data \in Buffer /\ Len(data) = Numel(dims)
    BY <2>1, LoadedOrNot DEF LengthInv, LengthMatchesShape, Contents
  <2>3. Len(Painted(dims, data, r.region, r.value)) = Len(data)
    <3>1. Len(data) \in Nat
      BY <2>1, <2>2, LoadedOrNot, BufferFacts
    <3> QED
      BY <3>1 DEF Painted
  <2> QED
    BY <1>8, <1>10, <2>1, <2>2, <2>3 DEF CloneSlice
<1>11. ASSUME NEW t \in Thread, Store(t) PROVE LengthInv'
  <2>1. call[t].pc = "store" /\ kind # "absent" /\ lazy = Loaded /\ lazy.loaded
    BY <1>11, LoadedOrNot DEF Store, IInv, Idle
  <2>2. Contents' = data' /\ Contents = data
    BY <1>11, <2>1 DEF Store, Contents
  <2>3. Len(Contents') = Numel(dims)
    BY <1>11, <2>1, <2>2 DEF Store, LengthInv, LengthMatchesShape
  <2>4. Idle.pc # "store"
    BY DEF Idle
  <2> QED
    BY <1>11, <2>3, <2>4, LengthKept DEF Store, Return
<1>12. ASSUME NEW t \in Thread, NEW new \in Shapes, Resize(t, new) PROVE LengthInv'
  <2>1. \A u \in Thread : call[u].pc # "store"
    BY <1>12, NoStoreInResize
  <2>2. kind = "dataset" /\ dims \in Shapes /\ Contents \in Buffer
    BY <1>12, LoadedOrNot DEF Resize, Contents
  <2>3. Contents' = data'
    BY <1>12 DEF Resize, Contents, Loaded
  <2>4. Len(Contents') = Numel(dims')
    <3>1. CASE dims' = new /\ data' = Reshaped(Contents, dims, new, Zero)
      <4>1. Numel(new) \in Nat
        BY BufferFacts
      <4>2. Len(Reshaped(Contents, dims, new, Zero)) = Numel(new)
        BY <4>1 DEF Reshaped
      <4> QED
        BY <2>3, <3>1, <4>2
    <3>2. CASE UNCHANGED dims /\ data' = Contents
      BY <2>2, <2>3, <3>2 DEF LengthInv, LengthMatchesShape
    <3> QED
      BY <1>12, <3>1, <3>2 DEF Resize
  <2> QED
    BY <1>12, <2>1, <2>4 DEF Resize, LengthInv, LengthMatchesShape
<1>13. ASSUME NEW t \in Thread, Step(t) PROVE LengthInv'
  <2>1. ASSUME CloneRead(t) \/ RefuseConversion(t) PROVE LengthInv'
    BY <1>2, <2>1 DEF CloneRead, RefuseConversion
  <2>2. ASSUME Load(t) \/ CloneShape(t) \/ CloneWhole(t) \/ CloneSlice(t), Return(t) PROVE LengthInv'
    <3>1. UNCHANGED <<kind, dims>> /\ Contents' = Contents
      BY <2>2 DEF Load, CloneShape, CloneWhole, CloneSlice, Contents, Loaded
    <3>2. kind # "absent" => Len(Contents') = Numel(dims)
      BY <3>1 DEF LengthInv, LengthMatchesShape
    <3> QED
      BY <2>2, <3>1, <3>2, LengthKept DEF Return, Idle
  <2>3. CASE RefuseOpen(t)
    BY <1>1, <2>3 DEF RefuseOpen, vars
  <2> QED
    BY <1>3, <1>5, <1>6, <1>7, <1>9, <1>10, <1>11, <1>12, <1>13, <2>1, <2>2, <2>3 DEF Step
<1>14. CASE UNCHANGED vars \/ Seal
  BY <1>1, <1>14 DEF vars, Seal
<1> QED
  BY <1>13, <1>14 DEF Next

(* The buffer has one element per coordinate of the shape: no read, flush  *)
(* or resize ever meets a buffer of another length, as long as the thread  *)
(* that resizes the dataset is the only one that writes it.                *)
THEOREM LengthIsKept ==
    ASSUME ResizerWritesAlone
    PROVE  Spec => []LengthMatchesShape
<1>1. Init => LengthInv
  <2> SUFFICES ASSUME Init PROVE LengthInv
    OBVIOUS
  <2>1. ASSUME kind # "absent" PROVE Len(Contents) = Numel(dims)
    <3>1. dims \in Shapes /\ \E v : Contents = Filled(dims, v)
      BY <2>1 DEF Init, Contents, Loaded, Image
    <3> QED
      BY <3>1, BufferFacts, FilledBuffer
  <2> QED
    BY <2>1 DEF Init, LengthInv, LengthMatchesShape, Idle
<1>2. IInv /\ LengthInv /\ [Next]_vars => LengthInv'
  BY LengthNext
<1>3. LengthInv => LengthMatchesShape
  BY DEF LengthInv
<1> QED
  BY <1>1, <1>2, <1>3, Invariance, PTL DEF Spec

-----------------------------------------------------------------------------
(* When one thread writes the dataset, every call takes effect at a single *)
(* moment: a store puts back the snapshot with its own elements replaced,  *)
(* which is right only if nothing was stored since the snapshot.           *)

WriterAlone ==
    \A t, u \in Thread :
      /\ Does[t] \cap {"write", "write_raw", "slice", "resize"} # {}
      /\ Does[u] \cap {"write", "write_raw", "slice", "resize"} # {}
      => t = u

(* The buffer of a write is that of its value on the present shape, that   *)
(* of a slice write the present contents with the region replaced.         *)
FreshBuffer(c) ==
    LET r == c.req
    IN  /\ r.op \in {"write", "write_raw"} => c.buf = Filled(dims, r.value)
        /\ r.op = "slice" => /\ kind = "dataset"
                             /\ \A at \in r.region : Inside(dims, at)
                             /\ c.buf = Painted(dims, data, r.region, r.value)

AtomicInv ==
    \A t \in Thread :
      /\ call[t].pc = "store" => FreshBuffer(call[t])
      /\ call[t] # Idle /\ kind = "dataset" => call[t].req.op \in Does[t]

LEMMA SameLayout ==
    /\ \A d, v : Promise!Filled(d, v) = Filled(d, v)
    /\ \A d, c : Promise!Inside(d, c) <=> Inside(d, c)
    /\ \A d, buf, region, v : Promise!Painted(d, buf, region, v) = Painted(d, buf, region, v)
    /\ \A buf, old, new, zero : Promise!Reshaped(buf, old, new, zero) = Reshaped(buf, old, new, zero)
<1>1. \A d : Promise!Numel(d) = Numel(d)
  BY DEF Promise!Numel, Numel
<1>2. \A d, c : Promise!Position(d, c) = Position(d, c)
  BY DEF Promise!Position, Position
<1>3. \A d, k : Promise!CoordAt(d, k) = CoordAt(d, k)
  BY DEF Promise!CoordAt, CoordAt
<1>4. \A d, c : Promise!Inside(d, c) <=> Inside(d, c)
  BY DEF Promise!Inside, Inside
<1>5. \A d, v : Promise!Filled(d, v) = Filled(d, v)
  BY <1>1 DEF Promise!Filled, Filled
<1>6. \A d, buf, region, v : Promise!Painted(d, buf, region, v) = Painted(d, buf, region, v)
  BY <1>3 DEF Promise!Painted, Painted
<1>7. \A buf, old, new, zero : Promise!Reshaped(buf, old, new, zero) = Reshaped(buf, old, new, zero)
  BY <1>1, <1>2, <1>3, <1>4 DEF Promise!Reshaped, Reshaped
<1> QED
  BY <1>4, <1>5, <1>6, <1>7

(* A step of one thread's call that leaves shape and data be.              *)
LEMMA AtomicKept ==
    ASSUME IInv, AtomicInv, NEW t \in Thread, NEW c, call' = [call EXCEPT ![t] = c],
           UNCHANGED <<kind, dims, data>>,
           c.pc = "store" => FreshBuffer(c),
           c # Idle /\ kind = "dataset" => c.req.op \in Does[t]
    PROVE  AtomicInv'
<1>1. call'[t] = c /\ \A u \in Thread : u # t => call'[u] = call[u]
  BY DEF IInv
<1>2. ASSUME NEW u \in Thread
      PROVE  /\ call'[u].pc = "store" => FreshBuffer(call[u])'
             /\ call'[u] # Idle /\ kind = "dataset" => call'[u].req.op \in Does[u]
  <2>1. CASE u = t
    BY <1>1, <2>1 DEF FreshBuffer
  <2>2. CASE u # t
    BY <1>1, <2>2 DEF AtomicInv, FreshBuffer
  <2> QED
    BY <2>1, <2>2
<1> QED
  BY <1>2 DEF AtomicInv

(* While a thread is about to store into a dataset no other thread is, and *)
(* none resizes it.                                                        *)
LEMMA OthersRest ==
    ASSUME IInv, AtomicInv, WriterAlone, kind = "dataset",
           NEW t \in Thread, call[t].pc = "store", NEW u \in Thread, u # t
    PROVE  call[u].pc # "store" /\ "resize" \notin Does[u]
<1>1. ASSUME NEW w \in Thread, call[w].pc = "store"
      PROVE  Does[w] \cap {"write", "write_raw", "slice", "resize"} # {}
  <2>1. call[w].req.op # "read" /\ call[w].req \in Requests
    BY <1>1, CallFacts DEF IInv
  <2>2. call[w].req.op \in Does[w]
    BY <1>1 DEF AtomicInv, Idle
  <2> QED
    BY <2>1, <2>2, RequestFacts
<1> QED
  BY <1>1 DEF WriterAlone

LEMMA AtomicNext == ASSUME WriterAlone, IInv, AtomicInv, [Next]_vars PROVE AtomicInv'
<1>1. CASE UNCHANGED <<kind, dims, data, call>>
  BY <1>1 DEF AtomicInv, FreshBuffer
<1>2. ASSUME NEW t \in Thread, UNCHANGED <<kind, dims, data>>, Return(t) PROVE AtomicInv'
  <2>1. Idle.pc # "store"
    BY DEF Idle
  <2> QED
    BY <1>2, <2>1, AtomicKept DEF Return
<1>3. ASSUME NEW t \in Thread, NEW r \in Requests, Begin(t, r) PROVE AtomicInv'
  <2> DEFINE c == [pc |-> IF lazy.loaded THEN "clone" ELSE "load",
                   checked |-> r.op # "write", req |-> r]
  <2>1. /\ call' = [call EXCEPT ![t] = c] /\ UNCHANGED <<kind, dims, data>>
        /\ r.op \in Does[t] /\ c.req = r /\ c.pc # "store"
    BY <1>3 DEF Begin
  <2> HIDE DEF c
  <2> QED
    BY <2>1, AtomicKept
<1>4. ASSUME NEW t \in Thread, Load(t), ~Return(t) PROVE AtomicInv'
  <2> DEFINE c == [call[t] EXCEPT !.pc = "clone"]
  <2>1. call[t].pc = "load" /\ call[t] \in Waiting /\ call[t] # Idle
    BY <1>4, CallFacts DEF Load, Idle
  <2>2. c.pc # "store" /\ c.req = call[t].req
    BY <2>1 DEF Waiting
  <2>3. call' = [call EXCEPT ![t] = c] /\ UNCHANGED <<kind, dims>>
    BY <1>4 DEF Load, To
  <2>4. kind = "dataset" => c.req.op \in Does[t]
    BY <2>1, <2>2 DEF AtomicInv
  <2> HIDE DEF c
  <2>5. CASE UNCHANGED data
    BY <2>1, <2>2, <2>3, <2>4, <2>5, AtomicKept
  <2>6. CASE ~UNCHANGED data
    <3>1. ~lazy.loaded
      BY <1>4, <2>6 DEF Load
    <3>2. \A u \in Thread : call[u].pc # "store"
      BY <3>1, LoadedOrNot DEF IInv
    <3>3. call'[t] = c /\ \A u \in Thread : u # t => call'[u] = call[u]
      BY <2>3 DEF IInv
    <3> QED
      BY <2>2, <2>3, <2>4, <3>2, <3>3 DEF AtomicInv
  <2> QED
    BY <2>5, <2>6
<1>5. ASSUME NEW t \in Thread, CloneShape(t), ~Return(t) PROVE AtomicInv'
  <2> DEFINE c == [call[t] EXCEPT !.checked = TRUE,
                                  !.pc = IF lazy.loaded THEN "clone" ELSE "load"]
  <2>1. call[t].pc = "clone" /\ call[t] \in Waiting /\ call[t] # Idle
    BY <1>5, CallFacts DEF CloneShape, Idle
  <2>2. c.pc # "store" /\ c.req = call[t].req
    BY <2>1 DEF Waiting
  <2>3. call' = [call EXCEPT ![t] = c] /\ UNCHANGED <<kind, dims, data>>
    BY <1>5 DEF CloneShape
  <2>4. kind = "dataset" => c.req.op \in Does[t]
    BY <2>1, <2>2 DEF AtomicInv
  <2> HIDE DEF c
  <2> QED
    BY <2>1, <2>2, <2>3, <2>4, AtomicKept
<1>6. ASSUME NEW t \in Thread, NEW shape \in Shapes,
             CreateAttr(t, shape) \/ \E value \in Value : CreateAttrWith(t, shape, value)
      PROVE  AtomicInv'
  <2>1. Attach(shape)
    BY <1>6 DEF CreateAttr, CreateAttrWith
  <2>2. \A u \in Thread : call[u] = Idle
    BY <2>1 DEF Attach, IInv
  <2>3. kind' = "attribute" /\ \A u \in Thread : call'[u].pc # "store"
    BY <1>6, <2>1, <2>2 DEF CreateAttr, CreateAttrWith, Attach, Idle, IInv
  <2> QED
    BY <2>3 DEF AtomicInv
<1>7. ASSUME NEW t \in Thread, NEW buf, call[t].pc = "clone",
             FreshBuffer([pc |-> "store", req |-> call[t].req, buf |-> buf]),
             call' = [call EXCEPT ![t] = [pc |-> "store", req |-> call[t].req, buf |-> buf]],
             UNCHANGED <<kind, dims, data>>
      PROVE  AtomicInv'
  <2> DEFINE c == [pc |-> "store", req |-> call[t].req, buf |-> buf]
  <2>1. call' = [call EXCEPT ![t] = c] /\ c.req = call[t].req /\ FreshBuffer(c)
    BY <1>7
  <2>2. kind = "dataset" => c.req.op \in Does[t]
    BY <1>7, <2>1 DEF AtomicInv, Idle
  <2> HIDE DEF c
  <2> QED
    BY <1>7, <2>1, <2>2, AtomicKept
<1>8. ASSUME NEW t \in Thread, CloneWhole(t), ~Return(t) PROVE AtomicInv'
  <2> DEFINE r == call[t].req
             buf == Filled(r.shape, r.value)
  <2>1. call[t].pc = "clone" /\ r.op \in {"write", "write_raw"} /\ Numel(r.shape) = Numel(dims)
    BY <1>8 DEF CloneWhole
  <2>2. buf = Filled(dims, r.value)
    BY <2>1 DEF Filled
  <2>3. /\ call' = [call EXCEPT ![t] = [pc |-> "store", req |-> r, buf |-> buf]]
        /\ UNCHANGED <<kind, dims, data>>
    BY <1>8 DEF CloneWhole
  <2> HIDE DEF buf
  <2>4. FreshBuffer([pc |-> "store", req |-> r, buf |-> buf])
    BY <2>1, <2>2 DEF FreshBuffer
  <2> QED
    BY <1>7, <2>1, <2>3, <2>4
<1>9. ASSUME NEW t \in Thread, CloneSlice(t), ~Return(t) PROVE AtomicInv'
  <2> DEFINE r == call[t].req
             buf == Painted(dims, data, r.region, r.value)
  <2>1. /\ call[t].pc = "clone" /\ r.op = "slice" /\ kind = "dataset"
        /\ \A at \in r.region : Inside(dims, at)
    BY <1>9 DEF CloneSlice
  <2>2. /\ call' = [call EXCEPT ![t] = [pc |-> "store", req |-> r, buf |-> buf]]
        /\ UNCHANGED <<kind, dims, data>>
    BY <1>9 DEF CloneSlice
  <2>3. FreshBuffer([pc |-> "store", req |-> r, buf |-> buf])
    BY <2>1 DEF FreshBuffer
  <2> HIDE DEF buf
  <2> QED
    BY <1>7, <2>1, <2>2, <2>3
<1>10. ASSUME NEW t \in Thread, Store(t) PROVE AtomicInv'
  <2>1. call[t].pc = "store" /\ UNCHANGED <<kind, dims>>
    BY <1>10 DEF Store
  <2>2. call'[t] = Idle /\ \A u \in Thread : u # t => call'[u] = call[u]
    BY <1>10 DEF Store, Return, IInv
  <2>3. ASSUME NEW u \in Thread, u # t, call[u].pc = "store" PROVE FreshBuffer(call[u])'
    <3>1. kind # "dataset"
      BY <2>1, <2>3, OthersRest
    <3>2. FreshBuffer(call[u]) /\ call'[u] = call[u]
      BY <2>2, <2>3 DEF AtomicInv
    <3> QED
      BY <2>1, <3>1, <3>2 DEF FreshBuffer
  <2> QED
    BY <2>1, <2>2, <2>3 DEF AtomicInv, Idle
<1>11. ASSUME NEW t \in Thread, NEW new \in Shapes, Resize(t, new) PROVE AtomicInv'
  <2>1. kind = "dataset" /\ call[t] = Idle /\ "resize" \in Does[t] /\ UNCHANGED <<kind, call>>
    BY <1>11 DEF Resize
  <2>2. \A u \in Thread : call[u].pc # "store"
    BY <2>1, OthersRest DEF Idle
  <2> QED
    BY <2>1, <2>2 DEF AtomicInv
<1>12. ASSUME NEW t \in Thread, Step(t) PROVE AtomicInv'
  <2>1. CASE CloneRead(t) \/ RefuseConversion(t) \/ RefuseOpen(t)
    BY <1>1, <1>2, <2>1 DEF CloneRead, RefuseConversion, RefuseOpen, vars
  <2>2. CASE (Load(t) \/ CloneShape(t) \/ CloneWhole(t) \/ CloneSlice(t)) /\ Return(t)
    <3>1. ASSUME Load(t) PROVE UNCHANGED <<kind, dims, data>>
      <4>1. call[t].pc = "load" /\ call[t] \in Waiting /\ call'[t] = Idle
        BY <2>2, <3>1, CallFacts DEF Load, Return, IInv
      <4>2. ~To(t, "clone")
        BY <4>1 DEF To, IInv, Waiting, Idle
      <4> QED
        BY <3>1, <4>2 DEF Load
    <3>2. UNCHANGED <<kind, dims, data>>
      BY <2>2, <3>1 DEF CloneShape, CloneWhole, CloneSlice
    <3> QED
      BY <1>2, <2>2, <3>2
  <2> QED
    BY <1>3, <1>4, <1>5, <1>6, <1>8, <1>9, <1>10, <1>11, <1>12, <2>1, <2>2 DEF Step
<1>13. CASE UNCHANGED vars \/ Seal
  BY <1>1, <1>13 DEF vars, Seal
<1> QED
  BY <1>12, <1>13 DEF Next

(* A call that reaches a step of the container takes a step of the promise *)
(* or none.                                                                *)
LEMMA StepRefines ==
    ASSUME IInv, AtomicInv, [Next]_vars
    PROVE  [Promise!Next]_<<kind, dims, Contents, seen>>
<1> USE SameLayout
<1> DEFINE Stutters == UNCHANGED <<kind, dims, Contents, seen>>
<1>1. ASSUME UNCHANGED <<kind, dims, data, lazy, seen>> PROVE Stutters
  BY <1>1 DEF Contents
<1>2. ASSUME NEW t \in Thread, Load(t) PROVE Stutters
  BY <1>2 DEF Load, Contents, Loaded
<1>3. ASSUME NEW t \in Thread, NEW shape \in Shapes, Attach(shape), UNCHANGED <<lazy, seen>>
      PROVE  Promise!Create(shape)
  <2>1. lazy.loaded
    BY <1>3 DEF Attach, IInv, Holds, Loaded
  <2> QED
    BY <1>3, <2>1 DEF Attach, Promise!Create, Contents
<1>4. ASSUME NEW t \in Thread, CloneRead(t) PROVE Promise!Read(t)
  <2>1. lazy.loaded /\ kind # "absent"
    BY <1>4, LoadedOrNot DEF CloneRead, IInv, Idle
  <2> QED
    BY <1>4, <2>1 DEF CloneRead, Promise!Read, Contents
<1>5. ASSUME NEW t \in Thread, Store(t), ~readOnly
      PROVE  \/ \E v \in Value : Promise!Write(v)
             \/ \E region \in Regions, v \in Value : Promise!WriteSlice(region, v)
  <2> DEFINE r == call[t].req
  <2>1. /\ call[t].pc = "store" /\ lazy.loaded /\ kind # "absent"
        /\ r \in Requests /\ r.op # "read" /\ FreshBuffer(call[t])
    BY <1>5, CallFacts, LoadedOrNot DEF Store, IInv, Idle, AtomicInv
  <2>2. /\ Contents' = call[t].buf /\ Contents = data
        /\ UNCHANGED <<kind, dims, seen>>
    BY <1>5, <2>1 DEF Store, Contents
  <2>3. CASE r.op \in {"write", "write_raw"}
    <3>1. r.value \in Value
      BY <2>1, <2>3, RequestFacts
    <3>2. Promise!Write(r.value)
      BY <2>1, <2>2, <2>3 DEF FreshBuffer, Promise!Write
    <3> QED
      BY <3>1, <3>2
  <2>4. CASE r.op = "slice"
    <3>1. r.value \in Value /\ r.region \in Regions
      BY <2>1, <2>4, RequestFacts
    <3>2. Promise!WriteSlice(r.region, r.value)
      BY <2>1, <2>2, <2>4 DEF FreshBuffer, Promise!WriteSlice
    <3> QED
      BY <3>1, <3>2
  <2> QED
    BY <2>1, <2>3, <2>4, RequestFacts
<1>6. ASSUME NEW t \in Thread, NEW new \in Shapes, Resize(t, new)
      PROVE  Promise!Resize(new) \/ Stutters
  BY <1>6 DEF Resize, Promise!Resize, Contents, Loaded
<1>7. ASSUME NEW t \in Thread, Step(t) PROVE Promise!Next \/ Stutters
  <2>1. CASE UNCHANGED <<kind, dims, data, lazy, seen>>
    BY <1>1, <2>1
  <2>2. ASSUME NEW shape \in Shapes,
               CreateAttr(t, shape) \/ \E value \in Value : CreateAttrWith(t, shape, value)
        PROVE  Promise!Next
    BY <1>3, <2>2 DEF CreateAttr, CreateAttrWith, Promise!Next
  <2>3. CASE Store(t)
    BY <1>1, <1>5, <2>3 DEF Store, Promise!Next
  <2>4. CASE CloneRead(t)
    BY <1>4, <2>4 DEF Promise!Next
  <2>5. ASSUME NEW new \in Shapes, Resize(t, new) PROVE Promise!Next \/ Stutters
    BY <1>6, <2>5 DEF Promise!Next
  <2> QED
    BY <1>2, <1>7, <2>1, <2>2, <2>3, <2>4, <2>5
       DEF Step, Begin, RefuseOpen, vars, RefuseConversion, CloneShape, CloneWhole, CloneSlice
<1>8. CASE UNCHANGED vars \/ Seal
  BY <1>1, <1>8 DEF vars, Seal
<1> QED
  BY <1>7, <1>8 DEF Next

(* The container behaves as if every call took effect at one moment, when  *)
(* one thread writes and resizes it: any number of threads read, load and  *)
(* create at the same time (container.rs, snapshot and store).             *)
THEOREM ContainerIsAtomic ==
    ASSUME WriterAlone
    PROVE  Spec => Atomic
<1>1. Init => Promise!Init
  BY SameLayout DEF Init, Promise!Init, Contents, Loaded, Image
<1>2. Init => AtomicInv
  BY DEF Init, AtomicInv, Idle
<1>3. IInv /\ AtomicInv /\ [Next]_vars => AtomicInv'
  BY AtomicNext
<1>4. IInv /\ AtomicInv /\ [Next]_vars => [Promise!Next]_<<kind, dims, Contents, seen>>
  BY StepRefines
<1> QED
  BY <1>1, <1>2, <1>3, <1>4, Invariance, PTL DEF Spec, Atomic, Promise!Spec
=============================================================================
