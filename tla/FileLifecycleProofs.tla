------------------------ MODULE FileLifecycleProofs ------------------------
(***************************************************************************)
(* Proofs about FileLifecycle, for every set of owners, edits and modes    *)
(* and every bound.  What concerns one owner (types, refused flushes,      *)
(* read-only owners) needs no discipline; what is acknowledged stays, and  *)
(* a mapped image stays the file's, when owners follow one another         *)
(* (Exclusive).                                                            *)
(***************************************************************************)
EXTENDS FileLifecycle, TLAPS

(* An owner in the middle of fs::write is writable, has loaded its data    *)
(* and serialized it, and is held by the handle whose call it is.          *)
WritersLoaded ==
    \A o \in Owner : job[o] # NoJob =>
      /\ inner[o] \in Inner /\ ~inner[o].readOnly /\ ~inner[o].lazy
      /\ inner[o].obstacles = {} /\ inner[o].handles > 0

(* The file is torn only while somebody is about to fill it. *)
TornOnlyMidWrite == disk.st = "torn" => \E o \in Owner : job[o].pc = "fill"

(* Owners follow one another. *)
Alone == \A o, p \in Owner : inner[o].open /\ inner[p].open => o = p

NothingInNoFile == disk.st = "absent" => acked = {}

(* The inductive invariants: of any owners, and of owners one at a time.   *)
AnyInv == TypeOK /\ WritersLoaded /\ TornOnlyMidWrite

ExclusiveInv ==
    Alone /\ ImageFresh /\ ModelsKeepAcked /\ NothingInNoFile /\ AckedUnlessCut

IInv == AnyInv /\ (Exclusive => ExclusiveInv)

-----------------------------------------------------------------------------
(* A FileInner and a job are records of one of two kinds.                  *)
LEMMA OpenIsInner ==
    ASSUME TypeOK, NEW o \in Owner
    PROVE  /\ inner[o].open => inner[o] \in Inner
           /\ ~inner[o].open => inner[o] = Closed
           /\ job[o].pc \in {"truncate", "fill"} =>
                job[o] \in [pc : {"truncate", "fill"}, for : {"flush", "drop"} \cup Modes]
           /\ job[o].pc \notin {"truncate", "fill"} => job[o] = NoJob
<1>1. inner[o] \in {Closed} \cup Inner
  BY DEF TypeOK
<1>2. inner[o] \in Inner => inner[o].open = TRUE
  BY DEF Inner
<1>3. Closed.open = FALSE
  BY DEF Closed
<1>4. job[o] \in {NoJob} \cup [pc : {"truncate", "fill"}, for : {"flush", "drop"} \cup Modes]
  BY DEF TypeOK
<1>5. NoJob.pc = "none"
  BY DEF NoJob
<1> QED
  BY <1>1, <1>2, <1>3, <1>4, <1>5

(* materialize_all changes nothing of a model but what is deferred.        *)
LEMMA MaterializedInner ==
    ASSUME NEW f \in Inner, NEW g \in Materialized(f)
    PROVE  /\ g \in Inner /\ ~g.lazy
           /\ g.readOnly = f.readOnly /\ g.handles = f.handles /\ g.object = f.object
           /\ g.image = f.image /\ g.obstacles = f.obstacles /\ "lazy" \notin g.obstacles
           /\ ~Stale(f) => g.edits = f.edits
<1>1. PICK e \in SUBSET Edit : g = [f EXCEPT !.lazy = FALSE, !.edits = e] /\ (~Stale(f) => e = f.edits)
  BY DEF Materialized, Inner
<1>2. "lazy" \notin f.obstacles
  BY DEF Materialized
<1> QED
  BY <1>1, <1>2 DEF Inner

(* Dropping a handle keeps the model as long as anybody holds it.          *)
LEMMA DroppedInner ==
    ASSUME NEW f \in Inner, f.handles > 0
    PROVE  \/ Dropped(f) = Closed
           \/ /\ Dropped(f) \in Inner /\ (Dropped(f).handles > 0 \/ Dropped(f).object)
              /\ Dropped(f).readOnly = f.readOnly /\ Dropped(f).edits = f.edits
              /\ Dropped(f).lazy = f.lazy /\ Dropped(f).image = f.image
<1>1. CASE f.handles = 1 /\ ~f.object
  BY <1>1 DEF Dropped
<1>2. CASE ~(f.handles = 1 /\ ~f.object)
  <2>1. Dropped(f) = [f EXCEPT !.handles = @ - 1]
    BY <1>2 DEF Dropped
  <2>2. f.handles \in 1..MaxHandles /\ f.object \in BOOLEAN
    BY BoundAssumption DEF Inner
  <2>3. f.handles - 1 \in 0..MaxHandles
    BY <2>2, BoundAssumption
  <2>4. f.handles # 1 => f.handles - 1 > 0
    BY <2>2
  <2> QED
    BY <1>2, <2>1, <2>2, <2>3, <2>4 DEF Inner
<1> QED
  BY <1>1, <1>2

-----------------------------------------------------------------------------
(* Every step but fs::write itself and a crash either replaces the model   *)
(* of one owner, or starts a write of it.                                  *)
Held(f) == f = Closed \/ (f \in Inner /\ (f.handles > 0 \/ f.object))

(* The model has what was acknowledged, and its image is the file's.       *)
Current(f) == f.open => acked \subseteq f.edits /\ ~Stale(f)
OnlyOpen(o) == \A p \in Owner : inner[p].open => p = o

Replaces(o, f) ==
    /\ Held(f) /\ job[o] = NoJob
    /\ Exclusive => Current(f) /\ (f.open => OnlyOpen(o))
    /\ inner' = [inner EXCEPT ![o] = f]
    /\ UNCHANGED <<disk, job, acked>>

Starts(o, f, for) ==
    /\ f \in Inner /\ ~f.readOnly /\ ~f.lazy /\ f.obstacles = {} /\ f.handles > 0
    /\ job[o] = NoJob
    /\ for \in {"flush", "drop"} \cup Modes
    /\ ~(inner[o].open /\ inner[o].readOnly)
    /\ Exclusive => (for # "Create" => acked \subseteq f.edits) /\ OnlyOpen(o)
    /\ inner' = [inner EXCEPT ![o] = f]
    /\ job' = [job EXCEPT ![o] = [pc |-> "truncate", for |-> for]]
    /\ UNCHANGED <<disk, acked>>

(* An owner that is open and not writing has a model that is Held, and     *)
(* Current when owners are exclusive.                                      *)
LEMMA ReadyModel ==
    ASSUME IInv, NEW o \in Owner, Ready(o)
    PROVE  /\ inner[o] \in Inner /\ job[o] = NoJob
           /\ inner[o].handles > 0 \/ inner[o].object
           /\ Exclusive => Current(inner[o]) /\ OnlyOpen(o)
<1>1. inner[o] \in Inner /\ (inner[o].handles > 0 \/ inner[o].object)
  BY OpenIsInner DEF IInv, AnyInv, TypeOK, Ready
<1>2. ~Replacing(o)
  BY DEF Ready, Replacing, NoJob
<1>3. ASSUME Exclusive PROVE Current(inner[o]) /\ OnlyOpen(o)
  BY <1>2, <1>3 DEF IInv, ExclusiveInv, ImageFresh, Alone, ModelsKeepAcked, Current, OnlyOpen, Ready
<1> QED
  BY <1>1, <1>3 DEF Ready

(* Opening a file that exists brings in what is found there; of what was   *)
(* acknowledged, that is all that is still to be kept.                     *)
LEMMA OpenExistingFinds ==
    ASSUME IInv, NEW o \in Owner, NEW mode \in Modes, OpenExisting(o, mode)
    PROVE  \E f \in Inner :
             /\ f.handles > 0 /\ job[o] = NoJob
             /\ inner' = [inner EXCEPT ![o] = f]
             /\ UNCHANGED <<disk, job>>
             /\ acked' \subseteq acked
             /\ Exclusive => OnlyOpen(o) /\ acked' \subseteq f.edits /\ ~Stale(f)
<1>1. PICK found \in Parsed :
        /\ inner' = [inner EXCEPT ![o] =
                       Opened(mode, found.edits, TRUE, Image(mode), found.obstacles)]
        /\ acked' = IF disk.st = "whole" THEN acked ELSE acked \cap found.edits
  BY DEF OpenExisting
<1> DEFINE f == Opened(mode, found.edits, TRUE, Image(mode), found.obstacles)
<1>2. UNCHANGED <<disk, job>> /\ job[o] = NoJob /\ (Exclusive => OnlyOpen(o))
  BY DEF OpenExisting, MayOpen, OnlyOpen
<1>3. /\ found.edits \in SUBSET Edit /\ found.obstacles \in SUBSET Obstacle
      /\ disk.st = "whole" => found.edits = disk.edits
  <2>1. disk \in Disk
    BY DEF IInv, AnyInv, TypeOK
  <2>2. disk.edits \in SUBSET Edit /\ disk.obstacles \in SUBSET Obstacle
    BY <2>1 DEF Disk
  <2>3. CASE disk.st \in {"whole", "cut"}
    <3>1. Parsed = {[edits |-> disk.edits, obstacles |-> disk.obstacles]}
      BY <2>3 DEF Parsed
    <3> QED
      BY <2>2, <3>1
  <2>4. CASE disk.st = "torn"
    <3>1. Parsed = [edits : SUBSET Edit, obstacles : SUBSET Obstacle]
      BY <2>4 DEF Parsed
    <3> QED
      BY <2>4, <3>1
  <2>5. CASE disk.st \notin {"whole", "cut", "torn"}
    BY <2>5 DEF Parsed
  <2> QED
    BY <2>3, <2>4, <2>5
<1>4. Image(mode) \in Nat \cup {Own, Moving}
  <2>1. disk.gen \in Nat
    BY BoundAssumption DEF IInv, AnyInv, TypeOK, Disk
  <2>2. CASE mode = "Append"
    BY <2>2 DEF Image
  <2>3. CASE mode # "Append" /\ disk.st = "torn"
    BY <2>3 DEF Image
  <2>4. CASE mode # "Append" /\ disk.st # "torn"
    BY <2>1, <2>4 DEF Image
  <2> QED
    BY <2>2, <2>3, <2>4
<1>5. ASSUME Exclusive PROVE Image(mode) \in {Own, disk.gen}
  <2>1. disk.st # "torn"
    BY <1>5 DEF OpenExisting, MayOpen, IInv, AnyInv, TornOnlyMidWrite, NoJob
  <2>2. CASE mode = "Append"
    BY <2>1, <2>2, Zenon DEF Image
  <2>3. CASE mode # "Append"
    BY <2>1, <2>3 DEF Image
  <2> QED
    BY <2>2, <2>3
<1>6. f \in Inner /\ f.edits = found.edits /\ f.handles = 1 /\ f.image = Image(mode)
  BY <1>3, <1>4, BoundAssumption DEF Opened, Inner
<1> HIDE DEF f
<1>7. ASSUME Exclusive PROVE acked' \subseteq f.edits /\ ~Stale(f)
  <2>1. disk.st = "whole" => acked \subseteq disk.edits
    BY <1>7 DEF IInv, ExclusiveInv, AckedUnlessCut
  <2>2. acked' \subseteq f.edits
    BY <1>1, <1>3, <1>6, <2>1
  <2> QED
    BY <1>5, <1>6, <1>7, <2>2 DEF Stale
<1>8. inner' = [inner EXCEPT ![o] = f] /\ acked' \subseteq acked
  BY <1>1 DEF f
<1>9. f.handles > 0
  BY <1>6
<1> QED
  BY <1>2, <1>6, <1>7, <1>8, <1>9

LEMMA OpenNewStarts ==
    ASSUME IInv, NEW o \in Owner, NEW mode \in Modes, OpenNew(o, mode)
    PROVE  \E f, for : Starts(o, f, for)
<1> DEFINE f == Opened(mode, {}, FALSE, Own, {})
<1>1. mode # "Read" /\ mode \in Modes
  BY DEF OpenNew
<1>2. f \in Inner /\ ~f.readOnly /\ f.edits = {} /\ ~f.lazy /\ f.obstacles = {} /\ f.handles = 1
  <2> DEFINE none == {}
  <2>1. f = [open |-> TRUE, readOnly |-> FALSE, edits |-> none, lazy |-> FALSE, image |-> Own,
             obstacles |-> none, handles |-> 1, object |-> FALSE]
    BY <1>1 DEF Opened
  <2>2. none \in SUBSET Edit /\ none \in SUBSET Obstacle /\ none = {}
    OBVIOUS
  <2> HIDE DEF none, f
  <2> QED
    BY <2>1, <2>2, BoundAssumption DEF Inner
<1>3. ASSUME Exclusive PROVE (mode # "Create" => acked \subseteq f.edits) /\ OnlyOpen(o)
  <2>1. mode # "Create" => disk.st = "absent"
    BY DEF OpenNew
  <2>2. mode # "Create" => acked = {}
    BY <1>3, <2>1 DEF IInv, ExclusiveInv, NothingInNoFile
  <2>3. OnlyOpen(o)
    BY <1>3 DEF OpenNew, MayOpen, OnlyOpen
  <2> QED
    BY <2>2, <2>3
<1>4. /\ inner' = [inner EXCEPT ![o] = f] /\ job[o] = NoJob /\ ~inner[o].open
      /\ job' = [job EXCEPT ![o] = [pc |-> "truncate", for |-> mode]]
      /\ UNCHANGED <<disk, acked>>
  BY DEF OpenNew, MayOpen
<1> HIDE DEF f
<1>5. Starts(o, f, mode)
  BY <1>1, <1>2, <1>3, <1>4 DEF Starts
<1> QED
  BY <1>5

LEMMA StartWriteStarts ==
    ASSUME IInv, NEW o \in Owner, Ready(o), inner[o].handles > 0,
           NEW for \in {"flush", "drop"}, StartWrite(o, for)
    PROVE  \E f : Starts(o, f, for)
<1>1. PICK f \in Materialized(inner[o]) :
        /\ inner' = [inner EXCEPT ![o] = f]
        /\ "graph" \notin f.obstacles
        /\ job' = [job EXCEPT ![o] = [pc |-> "truncate", for |-> for]]
  BY DEF StartWrite
<1>2. ~inner[o].readOnly /\ UNCHANGED <<disk, acked>>
  BY DEF StartWrite
<1>3. inner[o] \in Inner /\ job[o] = NoJob /\ inner[o].open
  BY ReadyModel DEF Ready
<1>4. f \in Inner /\ ~f.lazy /\ ~f.readOnly /\ f.handles > 0 /\ f.obstacles = {}
  <2>1. "graph" \notin f.obstacles
    BY <1>1
  <2>2. f \in Inner /\ ~f.lazy /\ ~f.readOnly /\ f.handles > 0 /\ "lazy" \notin f.obstacles
    BY <1>2, <1>3, MaterializedInner
  <2>3. f.obstacles \in SUBSET Obstacle
    BY <2>2 DEF Inner
  <2> QED
    BY <2>1, <2>2, <2>3 DEF Obstacle
<1>5. ASSUME Exclusive PROVE acked \subseteq f.edits /\ OnlyOpen(o)
  <2>1. Current(inner[o]) /\ OnlyOpen(o)
    BY <1>5, ReadyModel
  <2>2. f.edits = inner[o].edits
    BY <1>3, <2>1, MaterializedInner DEF Current
  <2> QED
    BY <1>3, <2>1, <2>2 DEF Current
<1> QED
  BY <1>1, <1>2, <1>3, <1>4, <1>5 DEF Starts

(* A model that is loaded, or that was loaded and lost a handle.           *)
LEMMA MaterializedCurrent ==
    ASSUME IInv, NEW o \in Owner, Ready(o), NEW f \in Materialized(inner[o])
    PROVE  /\ f \in Inner /\ f.handles = inner[o].handles /\ f.object = inner[o].object
           /\ Exclusive => Current(f) /\ f.edits = inner[o].edits
<1>1. inner[o] \in Inner /\ inner[o].open
  BY ReadyModel DEF Ready
<1>2. f \in Inner /\ ~f.lazy /\ f.handles = inner[o].handles /\ f.object = inner[o].object
  BY <1>1, MaterializedInner
<1>3. ASSUME Exclusive PROVE Current(f) /\ f.edits = inner[o].edits
  <2>1. Current(inner[o])
    BY <1>3, ReadyModel
  <2>2. f.edits = inner[o].edits
    BY <1>1, <2>1, MaterializedInner DEF Current
  <2> QED
    BY <1>1, <1>2, <2>1, <2>2 DEF Current, Stale
<1> QED
  BY <1>2, <1>3

LEMMA DroppedReplaces ==
    ASSUME IInv, NEW o \in Owner, Ready(o), NEW f \in Inner, f.handles > 0,
           Exclusive => Current(f),
           inner' = [inner EXCEPT ![o] = Dropped(f)], UNCHANGED <<disk, job, acked>>
    PROVE  Replaces(o, Dropped(f))
<1>1. Held(Dropped(f))
  BY DroppedInner DEF Held
<1>2. ~Closed.open /\ f.open
  BY DEF Closed, Inner
<1>3. ASSUME Exclusive PROVE Current(Dropped(f)) /\ OnlyOpen(o)
  BY <1>2, <1>3, DroppedInner, ReadyModel DEF Current, Stale
<1> QED
  BY <1>1, <1>3, ReadyModel DEF Replaces

LEMMA FlushStep ==
    ASSUME IInv, NEW o \in Owner, Flush(o)
    PROVE  (\E f : Replaces(o, f)) \/ (\E f, for : Starts(o, f, for))
<1>1. CASE StartWrite(o, "flush")
  BY <1>1, StartWriteStarts DEF Flush
<1>2. CASE ~StartWrite(o, "flush")
  <2>1. PICK f \in Materialized(inner[o]) : inner' = [inner EXCEPT ![o] = f]
    BY <1>2 DEF Flush
  <2>2. UNCHANGED <<disk, job, acked>> /\ Ready(o) /\ inner[o].handles > 0
    BY <1>2 DEF Flush
  <2>3. Replaces(o, f)
    BY <2>1, <2>2, MaterializedCurrent, ReadyModel DEF Replaces, Held
  <2> QED
    BY <2>3
<1> QED
  BY <1>1, <1>2

LEMMA DropFileStep ==
    ASSUME IInv, NEW o \in Owner, DropFile(o)
    PROVE  (\E f : Replaces(o, f)) \/ (\E f, for : Starts(o, f, for))
<1>1. Ready(o) /\ inner[o].handles > 0 /\ inner[o] \in Inner
  BY ReadyModel DEF DropFile
<1>2. CASE StartWrite(o, "drop")
  BY <1>1, <1>2, StartWriteStarts
<1>3. CASE inner' = [inner EXCEPT ![o] = Dropped(@)] /\ UNCHANGED <<disk, job, acked>>
  <2>1. Replaces(o, Dropped(inner[o]))
    BY <1>1, <1>3, ReadyModel, DroppedReplaces
  <2> QED
    BY <2>1
<1>4. CASE \E f \in Materialized(inner[o]) : inner' = [inner EXCEPT ![o] = Dropped(f)]
            /\ UNCHANGED <<disk, job, acked>>
  <2>1. PICK f \in Materialized(inner[o]) : inner' = [inner EXCEPT ![o] = Dropped(f)]
    BY <1>4
  <2>2. Replaces(o, Dropped(f))
    BY <1>1, <1>4, <2>1, MaterializedCurrent, DroppedReplaces
  <2> QED
    BY <2>2
<1> QED
  BY <1>2, <1>3, <1>4 DEF DropFile

(* The calls that leave the edits and the image alone.                     *)
LEMMA HandleStep ==
    ASSUME IInv, NEW o \in Owner, CloneFile(o) \/ OpenObject(o) \/ DropObject(o) \/ Tangle(o)
    PROVE  \E f : Replaces(o, f)
<1> DEFINE m == inner[o]
<1>1. Ready(o) /\ m \in Inner /\ job[o] = NoJob /\ (m.handles > 0 \/ m.object)
      /\ (Exclusive => Current(m) /\ OnlyOpen(o))
  BY ReadyModel DEF CloneFile, OpenObject, DropObject, Tangle
<1>2. CASE CloneFile(o)
  <2> DEFINE h == m.handles + 1
             f == [m EXCEPT !.handles = h]
  <2>0. h \in 0..MaxHandles /\ h > 0
    <3>1. m.handles \in 0..MaxHandles
      BY <1>1 DEF Inner
    <3>2. m.handles < MaxHandles
      BY <1>2 DEF CloneFile
    <3> HIDE DEF m
    <3> QED
      BY <3>1, <3>2, BoundAssumption
  <2> HIDE DEF h
  <2>1. f \in Inner /\ f.handles > 0 /\ f.edits = m.edits /\ f.lazy = m.lazy /\ f.image = m.image
    BY <1>1, <2>0 DEF Inner
  <2>2. inner' = [inner EXCEPT ![o] = f] /\ UNCHANGED <<disk, job, acked>>
    BY <1>2 DEF CloneFile, h
  <2> HIDE DEF f
  <2>3. Replaces(o, f)
    BY <1>1, <2>1, <2>2 DEF Replaces, Held, Current, Stale, Inner
  <2> QED
    BY <2>3
<1>3. CASE OpenObject(o)
  <2> DEFINE f == [m EXCEPT !.object = TRUE]
  <2>1. f \in Inner /\ f.object /\ f.edits = m.edits /\ f.lazy = m.lazy /\ f.image = m.image
    BY <1>1 DEF Inner
  <2>2. inner' = [inner EXCEPT ![o] = f] /\ UNCHANGED <<disk, job, acked>>
    BY <1>3 DEF OpenObject
  <2> HIDE DEF f
  <2>3. Replaces(o, f)
    BY <1>1, <2>1, <2>2 DEF Replaces, Held, Current, Stale, Inner
  <2> QED
    BY <2>3
<1>4. CASE DropObject(o) /\ m.handles = 0
  <2>1. inner' = [inner EXCEPT ![o] = Closed] /\ UNCHANGED <<disk, job, acked>>
    BY <1>4 DEF DropObject
  <2>2. ~Closed.open
    BY DEF Closed
  <2>3. Replaces(o, Closed)
    BY <1>1, <2>1, <2>2 DEF Replaces, Held, Current
  <2> QED
    BY <2>3
<1>5. CASE DropObject(o) /\ m.handles # 0
  <2> DEFINE f == [m EXCEPT !.object = FALSE]
  <2>1. /\ f \in Inner /\ f.handles > 0 /\ f.edits = m.edits /\ f.lazy = m.lazy
        /\ f.image = m.image
    <3>1. m.handles \in 0..MaxHandles
      BY <1>1 DEF Inner
    <3>2. m.handles > 0
      BY <1>5, <3>1, BoundAssumption
    <3> QED
      BY <1>1, <3>2 DEF Inner
  <2>2. inner' = [inner EXCEPT ![o] = f] /\ UNCHANGED <<disk, job, acked>>
    BY <1>5 DEF DropObject
  <2> HIDE DEF f
  <2>3. Replaces(o, f)
    BY <1>1, <2>1, <2>2 DEF Replaces, Held, Current, Stale, Inner
  <2> QED
    BY <2>3
<1>6. CASE Tangle(o)
  <2> DEFINE obstacles == IF "graph" \in m.obstacles THEN m.obstacles \ {"graph"}
                          ELSE m.obstacles \cup {"graph"}
             f == [m EXCEPT !.obstacles = obstacles]
  <2>1. obstacles \in SUBSET Obstacle
    BY <1>1 DEF Inner, Obstacle
  <2>2. inner' = [inner EXCEPT ![o] = f] /\ UNCHANGED <<disk, job, acked>>
    BY <1>6 DEF Tangle
  <2> HIDE DEF obstacles
  <2>3. /\ f \in Inner /\ (f.handles > 0 \/ f.object) /\ f.edits = m.edits
        /\ f.lazy = m.lazy /\ f.image = m.image
    BY <1>1, <2>1 DEF Inner
  <2> HIDE DEF f
  <2>4. Replaces(o, f)
    BY <1>1, <2>2, <2>3 DEF Replaces, Held, Current, Stale, Inner
  <2> QED
    BY <2>4
<1> QED
  BY <1>2, <1>3, <1>4, <1>5, <1>6

LEMMA ChangeStep ==
    ASSUME IInv, NEW o \in Owner, NEW e \in Edit, Change(o, e)
    PROVE  \E f : Replaces(o, f)
<1> DEFINE m == inner[o]
           edits == m.edits \cup {e}
           f == [m EXCEPT !.edits = edits]
<1>1. /\ m \in Inner /\ job[o] = NoJob /\ (m.handles > 0 \/ m.object)
      /\ (Exclusive => Current(m) /\ OnlyOpen(o))
  BY ReadyModel DEF Change
<1>2. inner' = [inner EXCEPT ![o] = f] /\ UNCHANGED <<disk, job, acked>>
  BY DEF Change
<1>3. edits \in SUBSET Edit /\ m.edits \subseteq edits
  BY <1>1 DEF Inner
<1> HIDE DEF edits
<1>4. /\ f \in Inner /\ (f.handles > 0 \/ f.object) /\ f.edits = edits
      /\ f.lazy = m.lazy /\ f.image = m.image
  BY <1>1, <1>3 DEF Inner
<1> HIDE DEF f
<1>5. ASSUME Exclusive PROVE Current(f) /\ OnlyOpen(o)
  BY <1>1, <1>3, <1>4, <1>5 DEF Current, Stale, Inner
<1>6. Replaces(o, f)
  BY <1>1, <1>2, <1>4, <1>5 DEF Replaces, Held
<1> QED
  BY <1>6

LEMMA LoadStep ==
    ASSUME IInv, NEW o \in Owner, Load(o)
    PROVE  \E f : Replaces(o, f)
<1> DEFINE m == inner[o]
<1>1. /\ Ready(o) /\ m \in Inner /\ job[o] = NoJob /\ (m.handles > 0 \/ m.object)
      /\ (Exclusive => Current(m) /\ OnlyOpen(o))
  BY ReadyModel DEF Load
<1>2. PICK g \in Materialized(m) :
        \/ inner' = [inner EXCEPT ![o].edits = g.edits]
        \/ inner' = [inner EXCEPT ![o] = g]
  BY DEF Load
<1>3. UNCHANGED <<disk, job, acked>>
  BY DEF Load
<1>4. /\ g \in Inner /\ (g.handles > 0 \/ g.object)
      /\ (Exclusive => Current(g) /\ g.edits = m.edits)
  BY <1>1, MaterializedCurrent
<1>5. CASE inner' = [inner EXCEPT ![o] = g]
  <2>1. Replaces(o, g)
    BY <1>1, <1>3, <1>4, <1>5 DEF Replaces, Held
  <2> QED
    BY <2>1
<1>6. CASE inner' = [inner EXCEPT ![o].edits = g.edits]
  <2> DEFINE f == [m EXCEPT !.edits = g.edits]
  <2>1. inner' = [inner EXCEPT ![o] = f]
    BY <1>6
  <2>2. g.edits \in SUBSET Edit
    BY <1>4 DEF Inner
  <2>3. /\ f \in Inner /\ (f.handles > 0 \/ f.object) /\ f.edits = g.edits
        /\ f.lazy = m.lazy /\ f.image = m.image
    BY <1>1, <2>2 DEF Inner
  <2> HIDE DEF f
  <2>4. ASSUME Exclusive PROVE Current(f) /\ OnlyOpen(o)
    BY <1>1, <1>4, <2>3, <2>4 DEF Current, Stale, Inner
  <2>5. Replaces(o, f)
    BY <1>1, <1>3, <2>1, <2>3, <2>4 DEF Replaces, Held
  <2> QED
    BY <2>5
<1> QED
  BY <1>2, <1>5, <1>6

-----------------------------------------------------------------------------
(* Both kinds of steps keep the invariant.                                 *)
LEMMA ReplacesKeeps ==
    ASSUME IInv, NEW o \in Owner, NEW f, Replaces(o, f)
    PROVE  IInv'
<1> USE DEF Replaces
<1>1. /\ inner' = [inner EXCEPT ![o] = f] /\ inner'[o] = f
      /\ \A p \in Owner : p # o => inner'[p] = inner[p]
  BY DEF IInv, AnyInv, TypeOK
<1>2. TypeOK'
  <2>1. f \in {Closed} \cup Inner /\ (f.open => f.handles > 0 \/ f.object)
    BY DEF Held, Closed
  <2> QED
    BY <1>1, <2>1 DEF IInv, AnyInv, TypeOK
<1>3. WritersLoaded' /\ TornOnlyMidWrite'
  BY <1>1 DEF IInv, AnyInv, WritersLoaded, TornOnlyMidWrite
<1>4. ASSUME Exclusive PROVE ExclusiveInv'
  <2>1. ExclusiveInv /\ Current(f) /\ (f.open => OnlyOpen(o))
    BY <1>4 DEF IInv
  <2>2. Alone' /\ ImageFresh' /\ ModelsKeepAcked'
    BY <1>1, <2>1 DEF ExclusiveInv, Alone, OnlyOpen, ImageFresh, Stale, ModelsKeepAcked,
                      Replacing, Current
  <2>3. NothingInNoFile' /\ AckedUnlessCut'
    BY <2>1 DEF ExclusiveInv, NothingInNoFile, AckedUnlessCut
  <2> QED
    BY <2>2, <2>3 DEF ExclusiveInv
<1> QED
  BY <1>2, <1>3, <1>4 DEF IInv, AnyInv

LEMMA StartsKeeps ==
    ASSUME IInv, NEW o \in Owner, NEW f, NEW for, Starts(o, f, for)
    PROVE  IInv'
<1> USE DEF Starts
<1> DEFINE j == [pc |-> "truncate", for |-> for]
<1>1. /\ inner' = [inner EXCEPT ![o] = f] /\ inner'[o] = f
      /\ \A p \in Owner : p # o => inner'[p] = inner[p]
      /\ job' = [job EXCEPT ![o] = j] /\ job'[o] = j
      /\ \A p \in Owner : p # o => job'[p] = job[p]
  BY DEF IInv, AnyInv, TypeOK
<1>2. /\ j \in [pc : {"truncate", "fill"}, for : {"flush", "drop"} \cup Modes]
      /\ j.pc = "truncate" /\ j.for = for
  OBVIOUS
<1> HIDE DEF j
<1>3. TypeOK'
  BY <1>1, <1>2 DEF IInv, AnyInv, TypeOK
<1>4. WritersLoaded'
  BY <1>1 DEF IInv, AnyInv, WritersLoaded
<1>5. TornOnlyMidWrite'
  <2>1. job[o].pc # "fill"
    BY DEF NoJob
  <2> QED
    BY <1>1, <2>1 DEF IInv, AnyInv, TornOnlyMidWrite
<1>6. ASSUME Exclusive PROVE ExclusiveInv'
  <2>1. ExclusiveInv /\ (for # "Create" => acked \subseteq f.edits) /\ OnlyOpen(o)
    BY <1>6 DEF IInv
  <2>2. Alone' /\ ImageFresh'
    BY <1>1, <2>1 DEF ExclusiveInv, Alone, OnlyOpen, ImageFresh, Stale
  <2>3. ModelsKeepAcked'
    BY <1>1, <1>2, <2>1 DEF ExclusiveInv, ModelsKeepAcked, Replacing
  <2>4. NothingInNoFile' /\ AckedUnlessCut'
    BY <2>1 DEF ExclusiveInv, NothingInNoFile, AckedUnlessCut
  <2> QED
    BY <2>2, <2>3, <2>4 DEF ExclusiveInv
<1> QED
  BY <1>3, <1>4, <1>5, <1>6 DEF IInv, AnyInv

(* Truncating cuts the file short; nobody else reads it, and its owner     *)
(* has everything loaded.                                                  *)
LEMMA TruncateKeeps ==
    ASSUME IInv, NEW o \in Owner, Truncate(o)
    PROVE  IInv'
<1> DEFINE d == [st |-> "torn", edits |-> {}, gen |-> disk.gen + 1, obstacles |-> {}]
           j == [job[o] EXCEPT !.pc = "fill"]
<1>1. /\ job[o] \in [pc : {"truncate", "fill"}, for : {"flush", "drop"} \cup Modes]
      /\ job[o].pc = "truncate" /\ job[o] # NoJob
  BY OpenIsInner DEF IInv, AnyInv, Truncate, NoJob
<1>2. /\ j \in [pc : {"truncate", "fill"}, for : {"flush", "drop"} \cup Modes]
      /\ j.pc = "fill" /\ j.for = job[o].for
  BY <1>1
<1>3. /\ job' = [job EXCEPT ![o] = j] /\ job'[o] = j
      /\ \A p \in Owner : p # o => job'[p] = job[p]
      /\ inner' = inner
  BY DEF Truncate, IInv, AnyInv, TypeOK
<1>4. disk.gen + 1 \in 0..MaxGen
  <2>1. disk.gen \in 0..MaxGen
    BY DEF IInv, AnyInv, TypeOK, Disk
  <2>2. disk.gen < MaxGen
    BY DEF Truncate
  <2> QED
    BY <2>1, <2>2, BoundAssumption
<1>5. /\ disk' = d /\ disk'.st = "torn"
      /\ d \in Disk
  <2> DEFINE none == {}
  <2>1. none \in SUBSET Edit /\ none \in SUBSET Obstacle
    OBVIOUS
  <2>2. d = [st |-> "torn", edits |-> none, gen |-> disk.gen + 1, obstacles |-> none]
    OBVIOUS
  <2>3. disk' = d
    BY DEF Truncate
  <2> HIDE DEF none, d
  <2> QED
    BY <1>4, <2>1, <2>2, <2>3 DEF Disk
<1>6. acked' = (IF job[o].for = "Create" THEN {} ELSE acked)
  BY DEF Truncate
<1>7. acked' \subseteq acked /\ (job[o].for = "Create" => acked' = {})
  BY <1>6
<1> HIDE DEF j, d
<1>8. inner[o] \in Inner /\ ~inner[o].lazy /\ inner[o].open
  BY <1>1 DEF IInv, AnyInv, WritersLoaded, Inner
<1>9. TypeOK'
  BY <1>2, <1>3, <1>5, <1>7 DEF IInv, AnyInv, TypeOK
<1>10. WritersLoaded' /\ TornOnlyMidWrite'
  BY <1>1, <1>2, <1>3 DEF IInv, AnyInv, WritersLoaded, TornOnlyMidWrite
<1>11. ASSUME Exclusive PROVE ExclusiveInv'
  <2>1. ExclusiveInv /\ \A p \in Owner : inner[p].open => p = o
    BY <1>8, <1>11 DEF IInv, ExclusiveInv, Alone
  <2>2. Alone' /\ ImageFresh'
    BY <1>3, <1>8, <2>1 DEF ExclusiveInv, Alone, ImageFresh, Stale
  <2>3. ModelsKeepAcked'
    <3>1. acked' \subseteq inner[o].edits
      BY <1>1, <1>7, <1>8, <2>1 DEF ExclusiveInv, ModelsKeepAcked, Replacing
    <3> QED
      BY <1>3, <2>1, <3>1 DEF ModelsKeepAcked
  <2>4. NothingInNoFile' /\ AckedUnlessCut'
    BY <1>5 DEF NothingInNoFile, AckedUnlessCut
  <2> QED
    BY <2>2, <2>3, <2>4 DEF ExclusiveInv
<1> QED
  BY <1>9, <1>10, <1>11 DEF IInv, AnyInv

(* Filling makes the file whole: it has what the model has, which is       *)
(* everything acknowledged so far when owners are exclusive.               *)
LEMMA FillKeeps ==
    ASSUME IInv, NEW o \in Owner, Fill(o)
    PROVE  IInv'
<1> DEFINE m == inner[o]
           f == IF job[o].for = "drop" THEN Dropped(m) ELSE m
<1>1. /\ job[o].pc = "fill" /\ job[o] # NoJob
      /\ m \in Inner /\ m.open /\ m.handles > 0 /\ ~m.lazy /\ m.edits \in SUBSET Edit
  <2>1. job[o].pc = "fill" /\ job[o] # NoJob
    BY DEF Fill, NoJob
  <2>2. m \in Inner /\ ~m.lazy /\ m.handles > 0
    BY <2>1 DEF IInv, AnyInv, WritersLoaded
  <2> QED
    BY <2>1, <2>2 DEF Inner
<1>2. /\ job' = [job EXCEPT ![o] = NoJob] /\ job'[o] = NoJob
      /\ \A p \in Owner : p # o => job'[p] = job[p]
  BY DEF Fill, IInv, AnyInv, TypeOK
<1>3. /\ inner' = [inner EXCEPT ![o] = f] /\ inner'[o] = f
      /\ \A p \in Owner : p # o => inner'[p] = inner[p]
  BY DEF Fill, IInv, AnyInv, TypeOK
<1>4. \/ f = Closed
      \/ f \in Inner /\ (f.handles > 0 \/ f.object) /\ f.edits = m.edits /\ f.lazy = m.lazy
  BY <1>1, DroppedInner
<1>5. /\ disk' = [disk EXCEPT !.st = "whole", !.edits = m.edits]
      /\ acked' = acked \cup m.edits
  BY DEF Fill
<1>6. /\ disk' \in Disk
      /\ disk'.st = "whole" /\ disk'.edits = m.edits /\ disk'.gen = disk.gen
  BY <1>1, <1>5 DEF IInv, AnyInv, TypeOK, Disk
<1> HIDE DEF f
<1>7. ~Closed.open
  BY DEF Closed
<1>8. TypeOK'
  BY <1>1, <1>2, <1>3, <1>4, <1>5, <1>6, <1>7 DEF IInv, AnyInv, TypeOK
<1>9. WritersLoaded' /\ TornOnlyMidWrite'
  BY <1>2, <1>3, <1>6 DEF IInv, AnyInv, WritersLoaded, TornOnlyMidWrite
<1>10. ASSUME Exclusive PROVE ExclusiveInv'
  <2>1. ExclusiveInv /\ \A p \in Owner : inner[p].open => p = o
    BY <1>1, <1>10 DEF IInv, ExclusiveInv, Alone
  <2>2. acked' = m.edits
    <3>1. ~Replacing(o)
      BY <1>1 DEF Replacing
    <3>2. acked \subseteq m.edits
      BY <1>1, <2>1, <3>1 DEF ExclusiveInv, ModelsKeepAcked
    <3> QED
      BY <1>5, <3>2
  <2>3. \A p \in Owner : inner'[p].open => p = o /\ f.open
    BY <1>3, <2>1
  <2>4. Alone' /\ ImageFresh' /\ ModelsKeepAcked'
    BY <1>1, <1>3, <1>4, <1>7, <2>2, <2>3 DEF Alone, ImageFresh, Stale, ModelsKeepAcked
  <2>5. NothingInNoFile' /\ AckedUnlessCut'
    BY <1>6, <2>2 DEF NothingInNoFile, AckedUnlessCut
  <2> QED
    BY <2>4, <2>5 DEF ExclusiveInv
<1> QED
  BY <1>8, <1>9, <1>10 DEF IInv, AnyInv

(* Opening a file leaves it alone.                                         *)
LEMMA OpenExistingKeeps ==
    ASSUME IInv, NEW o \in Owner, NEW mode \in Modes, OpenExisting(o, mode)
    PROVE  IInv'
<1>1. PICK f \in Inner :
        /\ f.handles > 0 /\ job[o] = NoJob
        /\ inner' = [inner EXCEPT ![o] = f]
        /\ UNCHANGED <<disk, job>>
        /\ acked' \subseteq acked
        /\ Exclusive => OnlyOpen(o) /\ acked' \subseteq f.edits /\ ~Stale(f)
  BY OpenExistingFinds
<1>2. /\ inner' = [inner EXCEPT ![o] = f] /\ inner'[o] = f
      /\ \A p \in Owner : p # o => inner'[p] = inner[p]
  BY <1>1 DEF IInv, AnyInv, TypeOK
<1>3. TypeOK'
  BY <1>1, <1>2 DEF IInv, AnyInv, TypeOK
<1>4. WritersLoaded' /\ TornOnlyMidWrite'
  BY <1>1, <1>2 DEF IInv, AnyInv, WritersLoaded, TornOnlyMidWrite
<1>5. ASSUME Exclusive PROVE ExclusiveInv'
  <2>1. ExclusiveInv /\ OnlyOpen(o) /\ acked' \subseteq f.edits /\ ~Stale(f)
    BY <1>1, <1>5 DEF IInv
  <2>2. Alone' /\ ImageFresh' /\ ModelsKeepAcked'
    BY <1>1, <1>2, <2>1 DEF ExclusiveInv, Alone, OnlyOpen, ImageFresh, Stale, ModelsKeepAcked,
                            Replacing
  <2>3. NothingInNoFile' /\ AckedUnlessCut'
    BY <1>1, <2>1 DEF ExclusiveInv, NothingInNoFile, AckedUnlessCut
  <2> QED
    BY <2>2, <2>3 DEF ExclusiveInv
<1> QED
  BY <1>3, <1>4, <1>5 DEF IInv, AnyInv

(* A write that stops, by an error or with its process, leaves the model   *)
(* as it was or closed, and the file as it was or cut.                     *)
Stops(o, f) ==
    /\ f = Closed \/ (Held(f) /\ f.edits = inner[o].edits /\ f.lazy = inner[o].lazy
                              /\ f.image = inner[o].image)
    /\ inner[o].open
    /\ disk' \in IF job[o].pc = "fill" THEN CutShort(o) ELSE {disk}
    /\ f.open => ~Replacing(o)
    /\ inner' = [inner EXCEPT ![o] = f]
    /\ job' = [job EXCEPT ![o] = NoJob]
    /\ UNCHANGED acked

LEMMA StopsKeeps ==
    ASSUME IInv, NEW o \in Owner, NEW f, Stops(o, f)
    PROVE  IInv'
<1>1. /\ inner' = [inner EXCEPT ![o] = f] /\ inner'[o] = f
      /\ \A p \in Owner : p # o => inner'[p] = inner[p]
      /\ job' = [job EXCEPT ![o] = NoJob] /\ job'[o] = NoJob
      /\ \A p \in Owner : p # o => job'[p] = job[p]
      /\ acked' = acked /\ inner[o] \in Inner
  BY OpenIsInner DEF Stops, IInv, AnyInv, TypeOK
<1>2. /\ disk' \in Disk /\ disk'.gen = disk.gen
      /\ job[o].pc = "fill" => disk'.st \in {"cut", "unreadable"}
      /\ job[o].pc # "fill" => disk' = disk
  <2>1. disk \in Disk
    BY DEF IInv, AnyInv, TypeOK
  <2>2. CASE job[o].pc # "fill"
    BY <2>1, <2>2 DEF Stops
  <2>3. CASE job[o].pc = "fill"
    <3>1. disk' \in CutShort(o)
      BY <2>3 DEF Stops
    <3>2. inner[o].edits \in SUBSET Edit
      BY <1>1 DEF Inner
    <3> QED
      BY <2>1, <2>3, <3>1, <3>2 DEF CutShort, Disk
  <2> QED
    BY <2>2, <2>3
<1>3. ~Closed.open
  BY DEF Closed
<1>4. TypeOK'
  BY <1>1, <1>2, <1>3 DEF IInv, AnyInv, TypeOK, Stops, Held
<1>5. WritersLoaded' /\ TornOnlyMidWrite'
  BY <1>1, <1>2 DEF IInv, AnyInv, WritersLoaded, TornOnlyMidWrite
<1>6. ASSUME Exclusive PROVE ExclusiveInv'
  <2>1. ExclusiveInv
    BY <1>6 DEF IInv
  <2>2. Alone' /\ ImageFresh'
    BY <1>1, <1>2, <1>3, <2>1 DEF ExclusiveInv, Alone, ImageFresh, Stale, Stops
  <2>3. ModelsKeepAcked'
    BY <1>1, <1>3, <2>1 DEF ExclusiveInv, ModelsKeepAcked, Replacing, Stops
  <2>4. NothingInNoFile' /\ AckedUnlessCut'
    BY <1>1, <1>2, <2>1 DEF ExclusiveInv, NothingInNoFile, AckedUnlessCut
  <2> QED
    BY <2>2, <2>3, <2>4 DEF ExclusiveInv
<1> QED
  BY <1>4, <1>5, <1>6 DEF IInv, AnyInv

LEMMA WriteFailsKeeps ==
    ASSUME IInv, NEW o \in Owner, WriteFails(o)
    PROVE  IInv'
<1> DEFINE m == inner[o]
           f == CASE job[o].for = "flush" -> m
                  [] job[o].for = "drop" -> Dropped(m)
                  [] OTHER -> Closed
<1>1. /\ job[o] \in [pc : {"truncate", "fill"}, for : {"flush", "drop"} \cup Modes]
      /\ job[o] # NoJob
  BY OpenIsInner DEF WriteFails, IInv, AnyInv
<1>2. m \in Inner /\ m.open /\ m.handles > 0
  BY <1>1 DEF IInv, AnyInv, WritersLoaded, Inner
<1>3. f \in {m, Dropped(m), Closed} /\ (job[o].for = "Create" => f = Closed)
  BY <1>1
<1>4. inner' = [inner EXCEPT ![o] = f]
  BY DEF WriteFails
<1>5. /\ job' = [job EXCEPT ![o] = NoJob] /\ UNCHANGED acked
      /\ disk' \in IF job[o].pc = "fill" THEN CutShort(o) ELSE {disk}
  BY <1>1 DEF WriteFails
<1> HIDE DEF f
<1>6. f = Closed \/ (Held(f) /\ f.edits = m.edits /\ f.lazy = m.lazy /\ f.image = m.image)
  BY <1>2, <1>3, DroppedInner DEF Held
<1>7. f.open => ~Replacing(o)
  BY <1>3 DEF Replacing, Closed
<1>8. Stops(o, f)
  BY <1>2, <1>4, <1>5, <1>6, <1>7 DEF Stops
<1> QED
  BY <1>8, StopsKeeps

LEMMA CrashKeeps ==
    ASSUME IInv, NEW o \in Owner, Crash(o)
    PROVE  IInv'
<1>1. Stops(o, Closed)
  BY DEF Crash, Stops, Closed
<1> QED
  BY <1>1, StopsKeeps

-----------------------------------------------------------------------------
LEMMA InitInv == Init => IInv
<1> SUFFICES ASSUME Init PROVE IInv
  OBVIOUS
<1>1. /\ disk.st \in {"absent", "whole"} /\ acked = {}
      /\ disk \in Disk
  <2> DEFINE none == {}
  <2>1. none \in SUBSET Edit /\ none \in SUBSET Obstacle /\ 0 \in 0..MaxGen
    BY BoundAssumption
  <2>2. disk.st \in {"absent", "whole"} /\ acked = {}
    BY DEF Init
  <2>3. disk \in [st : {"absent", "whole"}, edits : {none}, gen : {0},
                     obstacles : SUBSET Obstacle]
    BY <2>1 DEF Init
  <2> HIDE DEF none
  <2> QED
    BY <2>1, <2>2, <2>3 DEF Disk
<1>2. \A o \in Owner : inner[o] = Closed /\ job[o] = NoJob
  BY DEF Init
<1>3. ~Closed.open
  BY DEF Closed
<1>4. TypeOK
  BY <1>1, <1>2, <1>3 DEF Init, TypeOK
<1>5. WritersLoaded /\ TornOnlyMidWrite
  BY <1>1, <1>2 DEF WritersLoaded, TornOnlyMidWrite
<1>6. ExclusiveInv
  BY <1>1, <1>2, <1>3 DEF ExclusiveInv, Alone, ImageFresh, ModelsKeepAcked, NothingInNoFile,
                          AckedUnlessCut
<1> QED
  BY <1>4, <1>5, <1>6 DEF IInv, AnyInv

LEMMA StepInv == IInv /\ [Next]_vars => IInv'
<1> SUFFICES ASSUME IInv, [Next]_vars PROVE IInv'
  OBVIOUS
<1>1. CASE UNCHANGED vars
  BY <1>1 DEF vars, IInv, AnyInv, ExclusiveInv, TypeOK, WritersLoaded, TornOnlyMidWrite, Alone,
              ImageFresh, Stale, ModelsKeepAcked, Replacing, NothingInNoFile, AckedUnlessCut
<1>2. ASSUME NEW o \in Owner, Step(o) PROVE IInv'
  <2>1. CASE \E m \in Modes : OpenExisting(o, m)
    BY <2>1, OpenExistingKeeps
  <2>2. CASE \E m \in Modes : OpenNew(o, m)
    BY <2>2, OpenNewStarts, StartsKeeps
  <2>3. CASE Truncate(o)
    BY <2>3, TruncateKeeps
  <2>4. CASE Fill(o)
    BY <2>4, FillKeeps
  <2>11. CASE WriteFails(o)
    BY <2>11, WriteFailsKeeps
  <2>5. CASE Flush(o)
    BY <2>5, FlushStep, ReplacesKeeps, StartsKeeps
  <2>6. CASE DropFile(o)
    BY <2>6, DropFileStep, ReplacesKeeps, StartsKeeps
  <2>7. CASE CloneFile(o) \/ OpenObject(o) \/ DropObject(o) \/ Tangle(o)
    BY <2>7, HandleStep, ReplacesKeeps
  <2>8. CASE \E e \in Edit : Change(o, e)
    BY <2>8, ChangeStep, ReplacesKeeps
  <2>9. CASE Load(o)
    BY <2>9, LoadStep, ReplacesKeeps
  <2>10. CASE Crash(o)
    BY <2>10, CrashKeeps
  <2> QED
    BY <1>2, <2>1, <2>2, <2>3, <2>4, <2>5, <2>6, <2>7, <2>8, <2>9, <2>10, <2>11 DEF Step
<1> QED
  BY <1>1, <1>2 DEF Next

LEMMA Invariance == Spec => []IInv
<1> QED
  BY InitInv, StepInv, PTL DEF Spec

(* Every variable keeps its type, and a model nobody holds is gone.        *)
THEOREM TypeCorrect == Spec => []TypeOK
<1>1. IInv => TypeOK
  BY DEF IInv, AnyInv
<1> QED
  BY <1>1, Invariance, PTL

(* Whoever changes the file is writing a model that could be written.      *)
LEMMA ChangersAreWriters ==
    ASSUME IInv, NEW o \in Owner, Step(o), disk' # disk
    PROVE  /\ job[o] # NoJob /\ inner[o].open
           /\ ~inner[o].readOnly /\ ~inner[o].lazy /\ inner[o].obstacles = {}
<1>1. Truncate(o) \/ Fill(o) \/ WriteFails(o) \/ (Crash(o) /\ job[o].pc = "fill")
  BY DEF Step, OpenExisting, OpenNew, Flush, StartWrite, DropFile, CloneFile, OpenObject, DropObject,
         Change, Tangle, Load, Crash
<1>2. job[o] # NoJob
  BY <1>1 DEF Truncate, Fill, WriteFails, NoJob
<1> QED
  BY <1>2 DEF IInv, AnyInv, WritersLoaded, Inner

(* A flush or a drop that is refused, because its model is read-only, has  *)
(* deferred data it cannot load, or does not serialize, leaves the file as *)
(* it was, however many owners have it open at once.                       *)
THEOREM RefusalsLeaveTheFile == Spec => RefusalsKeepFile
<1> DEFINE Written == disk' # disk =>
             \E o \in Owner : /\ job[o] # NoJob /\ inner[o].open
                              /\ ~inner[o].readOnly /\ ~inner[o].lazy /\ inner[o].obstacles = {}
<1>1. IInv /\ [Next]_vars => [Written]_vars
  BY ChangersAreWriters DEF Next, vars
<1> QED
  BY <1>1, Invariance, PTL DEF Spec, RefusalsKeepFile

(* When owners follow one another, whatever a flush, a close or a drop has *)
(* put in the file is in the file whenever it is whole, and in the model   *)
(* of whoever has it open, also after writes that failed and crashes.      *)
THEOREM NothingAckedIsLost ==
    ASSUME Exclusive
    PROVE  Spec => CrashSafe
<1>1. IInv => AckedUnlessCut /\ ModelsKeepAcked
  BY DEF IInv, ExclusiveInv
<1> QED
  BY <1>1, Invariance, RefusalsLeaveTheFile, PTL DEF CrashSafe

(* What is deferred is read from the bytes it was parsed from.             *)
THEOREM ImagesStayFresh ==
    ASSUME Exclusive
    PROVE  Spec => []ImageFresh
<1>1. IInv => ImageFresh
  BY DEF IInv, ExclusiveInv
<1> QED
  BY <1>1, Invariance, PTL

(* A read-only owner never starts a write: no flush, close or drop of any  *)
(* of its handles touches the file, whoever else has it open.              *)
THEOREM ReadOnlyKeepsOff == Spec => ReadOnlyNeverWrites
<1> DEFINE Quiet == \A o \in Owner : inner[o].open /\ inner[o].readOnly => job'[o] = NoJob
<1>1. ASSUME IInv, [Next]_vars PROVE Quiet
  <2> SUFFICES ASSUME NEW q \in Owner, inner[q].open, inner[q].readOnly
               PROVE  job'[q] = NoJob
    OBVIOUS
  <2>1. job[q] = NoJob
    BY <1>1 DEF IInv, AnyInv, WritersLoaded
  <2>2. ASSUME NEW o \in Owner, NEW f, Replaces(o, f) PROVE job'[q] = NoJob
    BY <2>1, <2>2 DEF Replaces
  <2>3. ASSUME NEW o \in Owner, NEW f, NEW for, Starts(o, f, for) PROVE job'[q] = NoJob
    BY <2>1, <2>3 DEF Starts
  <2>4. ASSUME NEW o \in Owner, Truncate(o) \/ Fill(o) \/ WriteFails(o) \/ Crash(o)
        PROVE  job'[q] = NoJob
    <3>1. job \in [Owner -> {NoJob} \cup [pc : {"truncate", "fill"}, for : {"flush", "drop"} \cup Modes]]
      BY <1>1 DEF IInv, AnyInv, TypeOK
    <3>2. Truncate(o) => o # q
      BY <2>1 DEF Truncate, NoJob
    <3> QED
      BY <2>1, <2>4, <3>1, <3>2 DEF Truncate, Fill, WriteFails, Crash
  <2>5. ASSUME NEW o \in Owner, Step(o) PROVE job'[q] = NoJob
    <3>1. CASE Truncate(o) \/ Fill(o) \/ WriteFails(o) \/ Crash(o)
      BY <2>4, <3>1
    <3>2. CASE \E m \in Modes : OpenExisting(o, m)
      BY <2>1, <3>2 DEF OpenExisting
    <3>3. CASE ~(Truncate(o) \/ Fill(o) \/ WriteFails(o) \/ Crash(o)) /\ ~\E m \in Modes : OpenExisting(o, m)
      <4>1. (\E f : Replaces(o, f)) \/ (\E f, for : Starts(o, f, for))
        BY <1>1, <2>5, <3>3, OpenNewStarts, FlushStep, DropFileStep, HandleStep,
           ChangeStep, LoadStep DEF Step
      <4> QED
        BY <2>2, <2>3, <4>1
    <3> QED
      BY <3>1, <3>2, <3>3
  <2> QED
    BY <1>1, <2>1, <2>5 DEF Next, vars
<1>2. IInv /\ [Next]_vars => [Quiet]_vars
  BY <1>1
<1> QED
  BY <1>2, Invariance, PTL DEF Spec, ReadOnlyNeverWrites
=============================================================================
