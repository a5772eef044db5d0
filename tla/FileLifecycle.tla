--------------------------- MODULE FileLifecycle ---------------------------
(***************************************************************************)
(* A file on disk and the in-memory models opened on it (hl/file.rs):      *)
(* open modes, flush, close, the Drop of File handles, and what is still   *)
(* read lazily from the memory-mapped image.                               *)
(*                                                                         *)
(* An owner is one FileInner; the lock around its state makes its calls    *)
(* atomic, except that fs::write is two steps for everybody else: it       *)
(* truncates the file and then fills it, and it may fail before either,    *)
(* or its process may die.  close(self) is Flush followed by DropFile,     *)
(* which flushes again.                                                    *)
(***************************************************************************)
EXTENDS Integers, FiniteSets

CONSTANTS
    Owner,       \* FileInners opened on the path, by one process or several
    Edit,        \* changes an application makes to the model
    Modes,       \* open modes it uses
    Exclusive,   \* the file is only opened while no other owner has it open
    Crashes,     \* a process may die at any moment
    MaxGen,      \* bound: rewrites of the file
    MaxHandles   \* bound: File handles of one owner

ASSUME ModeAssumption ==
    Modes \subseteq {"Read", "ReadWrite", "Create", "CreateExcl", "Append"}
ASSUME FlagAssumption == Exclusive \in BOOLEAN /\ Crashes \in BOOLEAN
ASSUME BoundAssumption == MaxGen \in Nat /\ MaxHandles \in Nat \ {0}

VARIABLES
    disk,     \* the file: absent, whole, torn (truncated, to be filled) or,
              \* after a write that stopped, cut short or unreadable
    inner,    \* per owner, its FileInner
    job,      \* per owner, the fs::write it is in
    acked     \* history: edits a flush or drop has put in the file, less
              \* those a write that stopped took out of it for good

vars == <<disk, inner, job, acked>>

Own == -1      \* the image is a copy in memory (Append reads the file)
Moving == -2   \* the file was mapped while another owner was rewriting it
Closed == [open |-> FALSE]
NoJob == [pc |-> "none"]

(* What keeps a model from being written: a deferred dataset that does not *)
(* decode, an object graph that does not serialize (a cycle of hard links, *)
(* an object that parse_object could only note as unsupported).            *)
Obstacle == {"lazy", "graph"}

Opened(mode, edits, lazy, image, obstacles) ==
    [open |-> TRUE, readOnly |-> mode = "Read", edits |-> edits, lazy |-> lazy,
     image |-> image, obstacles |-> obstacles, handles |-> 1, object |-> FALSE]

Ready(o) == inner[o].open /\ job[o] = NoJob

Init ==
    /\ disk \in [st : {"absent"}, edits : {{}}, gen : {0}, obstacles : {{}}]
              \cup [st : {"whole"}, edits : {{}}, gen : {0}, obstacles : SUBSET Obstacle]
    /\ inner = [o \in Owner |-> Closed]
    /\ job = [o \in Owner |-> NoJob]
    /\ acked = {}

-----------------------------------------------------------------------------
(* Opening *)

MayOpen(o, mode) ==
    /\ mode \in Modes
    /\ ~inner[o].open /\ job[o] = NoJob
    /\ Exclusive => \A p \in Owner : ~inner[p].open /\ job[p] = NoJob

(* What parsing the file may find.  It fails without a superblock; what    *)
(* else is missing from a file only costs the objects it belongs to, which *)
(* become unsupported, or the attributes behind the cut.                   *)
Parsed ==
    CASE disk.st \in {"whole", "cut"} -> {[edits |-> disk.edits, obstacles |-> disk.obstacles]}
      [] disk.st = "torn" -> [edits : SUBSET Edit, obstacles : SUBSET Obstacle]
      [] OTHER -> {}

(* The part of the file that a mapping of it keeps reading. *)
Image(mode) ==
    CASE mode = "Append" -> Own
      [] disk.st = "torn" -> Moving
      [] OTHER -> disk.gen

(* Read and ReadWrite map the file, Append copies it; all three parse it.  *)
(* Who opens a file that was cut starts from what is left of it.           *)
OpenExisting(o, mode) ==
    /\ MayOpen(o, mode) /\ mode \in {"Read", "ReadWrite", "Append"}
    /\ \E found \in Parsed :
         /\ inner' = [inner EXCEPT ![o] =
                        Opened(mode, found.edits, TRUE, Image(mode), found.obstacles)]
         /\ acked' = IF disk.st = "whole" THEN acked ELSE acked \cap found.edits
    /\ UNCHANGED <<disk, job>>

(* A faulty append: a file that exists is not looked for. *)
OpenNewBlind(o, mode) ==
    /\ MayOpen(o, mode)
    /\ mode \in {"Create", "Append"} \/ (mode = "CreateExcl" /\ disk.st = "absent")
    /\ inner' = [inner EXCEPT ![o] = Opened(mode, {}, FALSE, Own, {})]
    /\ job' = [job EXCEPT ![o] = [pc |-> "truncate", for |-> mode]]
    /\ UNCHANGED <<disk, acked>>

(* The modes that make a new file look whether one exists, and write later.*)
OpenNew(o, mode) ==
    /\ MayOpen(o, mode)
    /\ mode = "Create" \/ (mode \in {"CreateExcl", "Append"} /\ disk.st = "absent")
    /\ inner' = [inner EXCEPT ![o] = Opened(mode, {}, FALSE, Own, {})]
    /\ job' = [job EXCEPT ![o] = [pc |-> "truncate", for |-> mode]]
    /\ UNCHANGED <<disk, acked>>

-----------------------------------------------------------------------------
(* fs::write *)

Truncate(o) ==
    /\ job[o].pc = "truncate" /\ disk.gen < MaxGen
    /\ disk' = [st |-> "torn", edits |-> {}, gen |-> disk.gen + 1, obstacles |-> {}]
    /\ job' = [job EXCEPT ![o].pc = "fill"]
    /\ acked' = IF job[o].for = "Create" THEN {} ELSE acked
    /\ UNCHANGED inner

(* A faulty drop of a handle: the last one does not free the model. *)
DroppedOpen(f) == [f EXCEPT !.handles = @ - 1]

Dropped(f) == IF f.handles = 1 /\ ~f.object THEN Closed ELSE [f EXCEPT !.handles = @ - 1]

Fill(o) ==
    /\ job[o].pc = "fill"
    /\ disk' = [disk EXCEPT !.st = "whole", !.edits = inner[o].edits]
    /\ acked' = acked \cup inner[o].edits
    /\ inner' = IF job[o].for = "drop" THEN [inner EXCEPT ![o] = Dropped(@)] ELSE inner
    /\ job' = [job EXCEPT ![o] = NoJob]

(* What a write that stopped in the middle leaves: too little to parse, or *)
(* a prefix that parses, with any part of the model in it.                 *)
CutShort(o) ==
    [st : {"cut"}, edits : SUBSET inner[o].edits, gen : {disk.gen}, obstacles : SUBSET Obstacle]
    \cup {[disk EXCEPT !.st = "unreadable"]}

(* fs::write fails, before it has truncated the file or after.  flush and  *)
(* close report it and the model stays; a Drop ignores it; an open that    *)
(* was to create the file reports it and frees the model, which no File    *)
(* handle holds yet.                                                       *)
WriteFails(o) ==
    /\ job[o] # NoJob
    /\ disk' \in IF job[o].pc = "truncate" THEN {disk} ELSE CutShort(o)
    /\ inner' = [inner EXCEPT ![o] = CASE job[o].for = "flush" -> @
                                      [] job[o].for = "drop" -> Dropped(@)
                                      [] OTHER -> Closed]
    /\ job' = [job EXCEPT ![o] = NoJob]
    /\ UNCHANGED acked

-----------------------------------------------------------------------------
(* materialize_all.  When the mapped file was rewritten under the image    *)
(* the bytes that are read are anybody's guess.                            *)
Stale(f) == f.lazy /\ f.image # Own /\ f.image # disk.gen

(* A faulty materialize_all: what was loaded stays marked as deferred. *)
MaterializedLazy(f) ==
    IF "lazy" \in f.obstacles THEN {}
    ELSE {[f EXCEPT !.edits = e] : e \in IF Stale(f) THEN SUBSET Edit ELSE {f.edits}}

Materialized(f) ==
    IF "lazy" \in f.obstacles THEN {}
    ELSE {[f EXCEPT !.lazy = FALSE, !.edits = e] :
            e \in IF Stale(f) THEN SUBSET Edit ELSE {f.edits}}

(* A faulty flush: read_only is not checked. *)
StartWriteUnchecked(o, for) ==
    /\ \E f \in Materialized(inner[o]) :
         /\ inner' = [inner EXCEPT ![o] = f]
         /\ "graph" \notin f.obstacles
         /\ job' = [job EXCEPT ![o] = [pc |-> "truncate", for |-> for]]
    /\ UNCHANGED <<disk, acked>>

(* Flushing comes down to a write only when the file is writable, its data *)
(* is loaded and the model serializes; before that the file is untouched.  *)
StartWrite(o, for) ==
    /\ ~inner[o].readOnly
    /\ \E f \in Materialized(inner[o]) :
         /\ inner' = [inner EXCEPT ![o] = f]
         /\ "graph" \notin f.obstacles
         /\ job' = [job EXCEPT ![o] = [pc |-> "truncate", for |-> for]]
    /\ UNCHANGED <<disk, acked>>

(* flush answers Ok to a read-only file, and an error, after it may have   *)
(* loaded the deferred data, to a model it cannot write.                   *)
Flush(o) ==
    /\ Ready(o) /\ inner[o].handles > 0
    /\ \/ StartWrite(o, "flush")
       \/ /\ ~inner[o].readOnly /\ "graph" \in inner[o].obstacles
          /\ \E f \in Materialized(inner[o]) : inner' = [inner EXCEPT ![o] = f]
          /\ UNCHANGED <<disk, job, acked>>

(* A faulty drop: the file is opened for writing before the model is        *)
(* serialized.                                                             *)
DropFileTruncating(o) ==
    /\ Ready(o) /\ inner[o].handles > 0
    /\ \/ StartWrite(o, "drop")
       \/ /\ inner[o].readOnly \/ "lazy" \in inner[o].obstacles
          /\ inner' = [inner EXCEPT ![o] = Dropped(@)]
          /\ UNCHANGED <<disk, job, acked>>
       \/ /\ ~inner[o].readOnly /\ "graph" \in inner[o].obstacles
          /\ \E f \in Materialized(inner[o]) : inner' = [inner EXCEPT ![o] = Dropped(f)]
          /\ disk' = [disk EXCEPT !.st = "torn"]
          /\ UNCHANGED <<job, acked>>

(* Drop for File, run for every handle and not only for the last one: an   *)
(* error is ignored and the handle is gone.                                *)
DropFile(o) ==
    /\ Ready(o) /\ inner[o].handles > 0
    /\ \/ StartWrite(o, "drop")
       \/ /\ inner[o].readOnly \/ "lazy" \in inner[o].obstacles
          /\ inner' = [inner EXCEPT ![o] = Dropped(@)]
          /\ UNCHANGED <<disk, job, acked>>
       \/ /\ ~inner[o].readOnly /\ "graph" \in inner[o].obstacles
          /\ \E f \in Materialized(inner[o]) : inner' = [inner EXCEPT ![o] = Dropped(f)]
          /\ UNCHANGED <<disk, job, acked>>

(* clone, and Location::file() on any object. *)
CloneFile(o) ==
    /\ Ready(o) /\ inner[o].handles < MaxHandles
    /\ inner[o].handles > 0 \/ inner[o].object
    /\ inner' = [inner EXCEPT ![o].handles = @ + 1]
    /\ UNCHANGED <<disk, job, acked>>

(* A Group, Dataset or Attribute handle keeps the FileInner alive too, and *)
(* has no Drop of its own.                                                 *)
OpenObject(o) ==
    /\ Ready(o) /\ inner[o].handles > 0 /\ ~inner[o].object
    /\ inner' = [inner EXCEPT ![o].object = TRUE]
    /\ UNCHANGED <<disk, job, acked>>

DropObject(o) ==
    /\ Ready(o) /\ inner[o].object
    /\ inner' = [inner EXCEPT ![o] = IF @.handles = 0 THEN Closed ELSE [@ EXCEPT !.object = FALSE]]
    /\ UNCHANGED <<disk, job, acked>>

Change(o, e) ==
    /\ Ready(o) /\ ~inner[o].readOnly
    /\ inner' = [inner EXCEPT ![o].edits = @ \cup {e}]
    /\ UNCHANGED <<disk, job, acked>>

(* A hard link from a group to an ancestor makes the graph unserializable, *)
(* unlinking it makes it serializable again.                               *)
Tangle(o) ==
    /\ Ready(o) /\ ~inner[o].readOnly
    /\ inner' = [inner EXCEPT ![o].obstacles =
                   IF "graph" \in @ THEN @ \ {"graph"} ELSE @ \cup {"graph"}]
    /\ UNCHANGED <<disk, job, acked>>

(* A read of one deferred dataset (others may still be deferred), or a call *)
(* of File::size, which loads them all, read-only file or not.             *)
Load(o) ==
    /\ Ready(o) /\ inner[o].lazy
    /\ \E f \in Materialized(inner[o]) :
         \/ inner' = [inner EXCEPT ![o].edits = f.edits]
         \/ inner[o].handles > 0 /\ inner' = [inner EXCEPT ![o] = f]
    /\ UNCHANGED <<disk, job, acked>>

Crash(o) ==
    /\ Crashes /\ inner[o].open
    /\ inner' = [inner EXCEPT ![o] = Closed]
    /\ job' = [job EXCEPT ![o] = NoJob]
    /\ disk' \in IF job[o].pc = "fill" THEN CutShort(o) ELSE {disk}
    /\ UNCHANGED acked

Step(o) ==
    \/ \E m \in Modes : OpenExisting(o, m)
    \/ \E m \in Modes : OpenNew(o, m)
    \/ Truncate(o)
    \/ Fill(o)
    \/ WriteFails(o)
    \/ Flush(o)
    \/ DropFile(o)
    \/ CloneFile(o)
    \/ OpenObject(o)
    \/ DropObject(o)
    \/ \E e \in Edit : Change(o, e)
    \/ Tangle(o)
    \/ Load(o)
    \/ Crash(o)

Next == \E o \in Owner : Step(o)

Spec == Init /\ [][Next]_vars

-----------------------------------------------------------------------------
(* Properties *)

Disk == [st : {"absent", "whole", "torn", "cut", "unreadable"}, edits : SUBSET Edit,
         gen : 0..MaxGen, obstacles : SUBSET Obstacle]

Inner == [open : {TRUE}, readOnly : BOOLEAN, edits : SUBSET Edit, lazy : BOOLEAN,
          image : Nat \cup {Own, Moving}, obstacles : SUBSET Obstacle, handles : 0..MaxHandles,
          object : BOOLEAN]

(* Every variable keeps its type, and a model nobody holds is gone. *)
TypeOK ==
    /\ disk \in Disk
    /\ inner \in [Owner -> {Closed} \cup Inner]
    /\ job \in [Owner -> {NoJob} \cup
                 [pc : {"truncate", "fill"}, for : {"flush", "drop"} \cup Modes]]
    /\ acked \in SUBSET Edit
    /\ \A o \in Owner : inner[o].open => inner[o].handles > 0 \/ inner[o].object

(* Create, until it truncates the file, holds a model that replaces it. *)
Replacing(o) == job[o].pc = "truncate" /\ job[o].for = "Create"

(* What a flush, a close or a drop has written is in the file whenever the *)
(* file is whole, through any number of reopenings and refused flushes,    *)
(* until somebody re-creates it.                                           *)
AckedUnlessCut == disk.st = "whole" => acked \subseteq disk.edits

(* And it is in the model of whoever has the file open, so that a flush    *)
(* after one that failed, or broke the file off, brings it all back.       *)
ModelsKeepAcked ==
    \A o \in Owner : inner[o].open /\ ~Replacing(o) => acked \subseteq inner[o].edits

(* The file changes only under an fs::write of a model that is writable,   *)
(* loaded and serialized: a flush or a drop that is refused for what its   *)
(* model holds leaves the file of the last flush.                          *)
RefusalsKeepFile ==
    [][disk' # disk =>
         \E o \in Owner :
           /\ job[o] # NoJob /\ inner[o].open
           /\ ~inner[o].readOnly /\ ~inner[o].lazy /\ inner[o].obstacles = {}]_vars

(* Edits that were acknowledged can be lost in one way only: a write of    *)
(* the file fails or its process dies, and nobody who had it open writes   *)
(* it again.                                                               *)
CrashSafe == [](AckedUnlessCut /\ ModelsKeepAcked) /\ RefusalsKeepFile

(* Data that is still deferred is deferred to the bytes it was parsed      *)
(* from: an owner's own flush never pulls the file from under its image.   *)
ImageFresh == \A o \in Owner : inner[o].open => ~Stale(inner[o])

(* A read-only owner, whatever is done with its handles, never writes.     *)
ReadOnlyNeverWrites ==
    [][\A o \in Owner :
         inner[o].open /\ inner[o].readOnly => job'[o] = NoJob]_vars
=============================================================================
