--------------------------- MODULE CollectiveFile ---------------------------
(***************************************************************************)
(* A file that several processes write together (mpi.rs, the collective    *)
(* part of File::close and of Drop, Writer::mpi_log).                      *)
(*                                                                         *)
(* Every rank runs the same script of calls; each call is the plan of its  *)
(* blocking steps (StarComm) and of local steps on the rank's own copy of  *)
(* the file.  The file holds one dataset; rank r writes its own row of it. *)
(* A rank whose call fails propagates the error and exits.                 *)
(***************************************************************************)
EXTENDS StarComm, SequencesExt, Layout

CONSTANTS
    Scripts,   \* the programs the ranks may run
    Faults     \* processes may die and writes may fail

Call == {"init", "barrier", "bcast", "gather", "allgather", "prepare", "create", "open",
         "dataset", "write", "resize", "rename", "recreate", "close"}

ASSUME ScriptAssumption ==
    /\ Scripts \subseteq Seq(Call)
    /\ \A s \in Scripts : s # <<>> /\ \A i \in 1..Len(s) : s[i] = "init" <=> i = 1
    /\ Faults \in BOOLEAN

VARIABLES
    script,   \* the program of this behaviour
    at,       \* per rank, the call it is in or has last returned from
    file,     \* per rank, its FileInner
    disk,     \* the physical file
    faulted   \* history: a process has died, a write has failed, or there
              \* was no file to open

vars == <<commVars, script, at, file, disk, faulted>>

(* An element: who wrote it in which call. *)
Zero == <<0, 0>>

Columns == 2
Shape == <<Size, Columns>>
Wider == <<Size, Columns + 1>>
Other(name) == IF name = "d" THEN "e" ELSE "d"

Row(dims, r) == {Position(dims, <<r, c>>) : c \in 0..(dims[2] - 1)}

(* A model with its dataset, if it has one, and MpiFile's log.             *)
Empty == [name |-> "none", dims |-> <<>>, data |-> <<>>]
Fresh(name, v) == [name |-> name, dims |-> Shape, data |-> Filled(Shape, v)]
Model(f) == [name |-> f.name, dims |-> f.dims, data |-> f.data]

NoFile == [open |-> FALSE, attached |-> FALSE, readOnly |-> FALSE, log |-> <<>>,
           name |-> "none", dims |-> <<>>, data |-> <<>>]
FileOf(m) == [open |-> TRUE, attached |-> FALSE, readOnly |-> FALSE, log |-> <<>>,
              name |-> m.name, dims |-> m.dims, data |-> m.data]

Absent == [st |-> "absent", model |-> Empty]
Torn == [st |-> "torn", model |-> Empty]
Whole(m) == [st |-> "whole", model |-> m]

-----------------------------------------------------------------------------
(* Faulty calls: an open that does not let rank 0 open first, a close that *)
(* does not wait for rank 0.                                               *)
OpenAtOnce(r) == <<Local("load"), Local("attach")>> \o Barrier(r)
CloseAtOnce(r) ==
    Gather(r, 0)
    \o (IF r = 0 THEN <<Local("merge"), Local("detach"), Local("save")>>
        ELSE <<Local("detach")>>)
    \o <<Local("seal"), Local("drop")>>

(* mpi::open and File::close.                                              *)
Open(r) ==
    IF r = 0 THEN <<Local("load")>> \o Barrier(r) \o <<Local("attach")>> \o Barrier(r)
    ELSE Barrier(r) \o <<Local("load"), Local("attach")>> \o Barrier(r)

Close(r) ==
    Gather(r, 0)
    \o (IF r = 0 THEN <<Local("merge"), Local("detach"), Local("save")>>
        ELSE <<Local("detach")>>)
    \o <<Local("seal")>> \o Barrier(r) \o <<Local("drop")>>

Plan(r, call) ==
    CASE call = "init" -> Rendezvous(r)
      [] call = "barrier" -> Barrier(r)
      [] call = "bcast" -> Bcast(r, Size - 1)
      [] call = "gather" -> Gather(r, Size - 1)
      [] call = "allgather" -> Allgather(r)
      [] call = "prepare" -> IF r = 0 THEN <<Local("prepare")>> ELSE <<>>
      [] call = "create" -> <<Local("create"), Local("attach")>> \o Barrier(r)
      [] call = "open" -> Open(r)
      [] call = "close" -> Close(r)
      [] OTHER -> <<Local(call)>>

Init ==
    /\ stream = [s \in Streams |-> <<>>]
    /\ todo = [r \in Rank |-> <<>>]
    /\ got = [r \in Rank |-> <<>>]
    /\ alive = [r \in Rank |-> TRUE]
    /\ script \in Scripts
    /\ at = [r \in Rank |-> 0]
    /\ file = [r \in Rank |-> NoFile]
    /\ disk \in {Absent, Whole(Fresh("d", Zero))}
    /\ faulted = FALSE

Enter(r) ==
    /\ alive[r] /\ todo[r] = <<>> /\ at[r] < Len(script)
    /\ at' = [at EXCEPT ![r] = @ + 1]
    /\ todo' = [todo EXCEPT ![r] = Plan(r, script[at[r] + 1])]
    /\ got' = [got EXCEPT ![r] = <<>>]
    /\ UNCHANGED <<stream, alive, script, file, disk, faulted>>

(* What a rank contributes to a collective call: its log when it closes.   *)
Own(r) == IF script[at[r]] = "close" THEN file[r].log ELSE <<r, at[r]>>

Communicate(r) ==
    /\ DoSend(r, Own(r)) \/ DoDrain(r) \/ DoRecv(r) \/ DoAccept(r)
    /\ UNCHANGED <<script, at, file, disk, faulted>>

-----------------------------------------------------------------------------
(* Local steps *)

Doing(r, what) == At(r, "local") /\ Head(todo[r]).what = what
LocalStep(r, what) ==
    Doing(r, what) /\ Advance(r) /\ UNCHANGED <<stream, got, alive, script, at, faulted>>

(* Rank 0 makes a file before it is opened collectively. *)
Prepare(r) ==
    /\ LocalStep(r, "prepare")
    /\ disk' = Whole(Fresh("d", <<r, at[r]>>))
    /\ UNCHANGED file

(* File::create on rank 0, create_mpi_replica elsewhere. *)
Create(r) ==
    /\ LocalStep(r, "create")
    /\ file' = [file EXCEPT ![r] = FileOf(Empty)]
    /\ disk' = IF r = 0 THEN Whole(Empty) ELSE disk

Load(r) ==
    /\ LocalStep(r, "load") /\ disk.st = "whole"
    /\ file' = [file EXCEPT ![r] = FileOf(disk.model)]
    /\ UNCHANGED disk

Attach(r) ==
    /\ LocalStep(r, "attach")
    /\ file' = [file EXCEPT ![r] = [@ EXCEPT !.attached = TRUE, !.log = <<>>]]
    /\ UNCHANGED disk

(* Metadata calls, made alike by every rank on its own copy. *)
Dataset(r) ==
    /\ LocalStep(r, "dataset")
    /\ file' = [file EXCEPT ![r] = [@ EXCEPT
                   !.name = "d", !.dims = Shape, !.data = Filled(Shape, Zero)]]
    /\ UNCHANGED disk

Resize(r) ==
    /\ LocalStep(r, "resize")
    /\ file' = [file EXCEPT ![r] = [@ EXCEPT
                   !.dims = Wider,
                   !.data = Reshaped(file[r].data, file[r].dims, Wider, Zero)]]
    /\ UNCHANGED disk

Rename(r) ==
    /\ LocalStep(r, "rename")
    /\ file' = [file EXCEPT ![r].name = Other(@)]
    /\ UNCHANGED disk

(* unlink, and a new dataset of that name. *)
Recreate(r) ==
    /\ LocalStep(r, "recreate")
    /\ file' = [file EXCEPT ![r].data = Filled(file[r].dims, Zero)]
    /\ UNCHANGED disk

(* write_elements: the entry is logged, except on rank 0, and the elements *)
(* are stored.                                                             *)
Entry(r) == [path |-> file[r].name, cells |-> Row(file[r].dims, r), value |-> <<r, at[r]>>]
Apply(data, e) == [k \in DOMAIN data |-> IF k \in e.cells THEN e.value ELSE data[k]]

Write(r) ==
    /\ LocalStep(r, "write")
    /\ file' = [file EXCEPT ![r] = [@ EXCEPT
                   !.data = Apply(file[r].data, Entry(r)),
                   !.log = IF r = 0 THEN file[r].log ELSE Append(file[r].log, Entry(r))]]
    /\ UNCHANGED disk

(* A faulty bound: the last element of the buffer is out of it. *)
FitsBelow(e) == e.path = file[0].name /\ \A k \in e.cells : k < Len(file[0].data)

(* collective_merge on rank 0: the logs, in the order of the ranks.        *)
Fits(e) == e.path = file[0].name /\ e.cells \subseteq DOMAIN file[0].data

Merge(r) ==
    /\ LocalStep(r, "merge")
    /\ \A i \in DOMAIN FlattenSeq(got[0]) : Fits(FlattenSeq(got[0])[i])
    /\ file' = [file EXCEPT ![0].data = FoldLeft(Apply, @, FlattenSeq(got[0]))]
    /\ UNCHANGED disk

Detach(r) ==
    /\ LocalStep(r, "detach")
    /\ file' = [file EXCEPT ![r] = [@ EXCEPT !.attached = FALSE, !.log = <<>>]]
    /\ UNCHANGED disk

Save(r) ==
    /\ LocalStep(r, "save")
    /\ disk' = Whole(Model(file[r]))
    /\ UNCHANGED file

(* A faulty close: the model stays writable. *)
SealNothing(r) == LocalStep(r, "seal") /\ UNCHANGED <<file, disk>>

Seal(r) ==
    /\ LocalStep(r, "seal")
    /\ file' = [file EXCEPT ![r].readOnly = TRUE]
    /\ UNCHANGED disk

(* Drop for File: the model is written unless the file is still attached   *)
(* or read-only.                                                           *)
Dropped(f) == IF f.open /\ ~f.attached /\ ~f.readOnly THEN Whole(Model(f)) ELSE disk

Drop(r) ==
    /\ LocalStep(r, "drop")
    /\ disk' = Dropped(file[r])
    /\ file' = [file EXCEPT ![r].open = FALSE]

-----------------------------------------------------------------------------
(* Failures.  The call returns an error, its File is dropped and the rank  *)
(* exits.                                                                  *)

Exit(r) ==
    /\ alive' = [alive EXCEPT ![r] = FALSE]
    /\ disk' = Dropped(file[r])
    /\ UNCHANGED <<stream, todo, got, script, at, file>>

CommFails(r) == Broken(r) /\ Exit(r) /\ UNCHANGED faulted

(* There is nothing to parse.  A leaf may also find rank 0, which it need  *)
(* not wait for any more, in the middle of the Drop of an open that failed.*)
(* (Should it parse what is there by then, its open fails at the second    *)
(* barrier all the same, for that release is not to come.)                 *)
LoadFails(r) ==
    /\ Doing(r, "load")
    /\ disk.st # "whole" \/ (r # 0 /\ ~alive[0])
    /\ Exit(r)
    /\ faulted' = (faulted \/ r = 0)

(* A log entry whose dataset is not found or is too small. *)
MergeFails(r) ==
    /\ Doing(r, "merge")
    /\ \E i \in DOMAIN FlattenSeq(got[0]) : ~Fits(FlattenSeq(got[0])[i])
    /\ Exit(r) /\ UNCHANGED faulted

(* What the file may hold after an fs::write that did not complete: it is  *)
(* truncated first.                                                        *)
Interrupted(r) ==
    IF r = 0 /\ (Doing(r, "prepare") \/ Doing(r, "create") \/ Doing(r, "save"))
    THEN {disk, Torn} ELSE {disk}

(* fs::write fails; the file is detached by now, so that Drop tries again, *)
(* and may fail again.                                                     *)
SaveFails(r) ==
    /\ Faults /\ Doing(r, "save")
    /\ \/ Exit(r)
       \/ /\ alive' = [alive EXCEPT ![r] = FALSE]
          /\ disk' \in Interrupted(r)
          /\ UNCHANGED <<stream, todo, got, script, at, file>>
    /\ faulted' = TRUE

(* A process dies.  (One that dies before it has joined leaves rank 0      *)
(* waiting in accept, as Comm::init says: the others have all joined.)     *)
Dies(r) ==
    /\ Faults /\ alive[r]
    /\ at[r] > 1 \/ (at[r] = 1 /\ todo[r] = <<>>)
    /\ alive' = [alive EXCEPT ![r] = FALSE]
    /\ disk' \in Interrupted(r)
    /\ faulted' = TRUE
    /\ UNCHANGED <<stream, todo, got, script, at, file>>

Step(r) ==
    \/ Enter(r)
    \/ Communicate(r)
    \/ Prepare(r) \/ Create(r) \/ Load(r) \/ Attach(r)
    \/ Dataset(r) \/ Resize(r) \/ Rename(r) \/ Recreate(r) \/ Write(r)
    \/ Merge(r) \/ Detach(r) \/ Save(r) \/ Seal(r) \/ Drop(r)
    \/ CommFails(r) \/ LoadFails(r) \/ MergeFails(r) \/ SaveFails(r)

(* The script is over, or the rank is gone. *)
Finished(r) == at[r] = Len(script) /\ todo[r] = <<>>

Next == \E r \in Rank : Step(r) \/ Dies(r)

(* Processes run, and a blocking read or write returns when it can.        *)
Spec == Init /\ [][Next]_vars /\ \A r \in Rank : WF_vars(Step(r))

-----------------------------------------------------------------------------
(* Properties *)

Returned(r, k) == at[r] > k \/ (at[r] = k /\ todo[r] = <<>>)

(* Nobody leaves a barrier, an allgather, the rendezvous, or a collective  *)
(* create, open or close before everybody has entered it.                  *)
Synchronizes == {"init", "barrier", "allgather", "create", "open", "close"}

BarrierSync ==
    \A q, r \in Rank : \A k \in DOMAIN script :
      script[k] \in Synchronizes /\ Returned(r, k) => at[q] >= k

(* A collective call returns what the ranks gave to this very call, in the *)
(* order of the ranks: frames of successive calls never mix.               *)
Expected(r, call, k) ==
    LET everyones == [i \in 1..Size |-> <<i - 1, k>>]
    IN  CASE call = "bcast" -> << <<Size - 1, k>> >>
          [] call = "gather" /\ r = Size - 1 -> everyones
          [] call = "allgather" -> everyones
          [] OTHER -> <<>>

(* Rank 0 has its own value without receiving it; alone, it broadcasts too. *)
Result(r, call) ==
    IF r = 0 /\ (call = "allgather" \/ Size = 1) THEN <<Own(0)>> \o got[0] ELSE got[r]

FramesMatch ==
    \A r \in Rank :
      at[r] > 0 /\ todo[r] = <<>> /\ script[at[r]] \in {"bcast", "gather", "allgather"}
        /\ (script[at[r]] = "gather" => r # 0) =>
          Result(r, script[at[r]]) = Expected(r, script[at[r]], at[r])

(* The collective calls are collective: they synchronize the ranks and     *)
(* exchange what these gave to one and the same call.                      *)
CallsMatch == BarrierSync /\ FramesMatch

(* Every rank parses the same bytes in a collective open.                  *)
Loaded(r) == \A i \in DOMAIN todo[r] : todo[r][i] # Local("load")

SameBytes ==
    \A q, r \in Rank :
      at[q] = at[r] /\ at[r] > 0 /\ script[at[r]] = "open" /\ Loaded(q) /\ Loaded(r)
        => Model(file[q]) = Model(file[r])

(* Only rank 0 ever writes the physical file, errors, exits and drops      *)
(* included.                                                               *)
OnlyRootWrites ==
    [][disk' # disk => \A r \in Leaf : todo'[r] = todo[r] /\ alive'[r] = alive[r]]_vars

(* The file is complete when close returns, on whichever rank: it holds    *)
(* the rows that every rank has written, each in its place.                *)
Closing(k) == script[k] = "close" /\ \A q \in Rank : at[q] = k

FileComplete ==
    \A r \in Rank, k \in DOMAIN script :
      Closing(k) /\ Returned(r, k) =>
        /\ disk.st = "whole" /\ disk.model.name = file[r].name /\ disk.model.dims = file[r].dims
        /\ \A q \in Rank : \A i \in Row(disk.model.dims, q) :
             disk.model.data[i] = file[q].data[i]

(* No rank waits for ever, whoever dies or fails.                          *)
EveryoneReturns == <>[](\A r \in Rank : Finished(r) \/ ~alive[r])

(* A script that opens one file at a time, gives a new file its dataset    *)
(* first, and makes no metadata call between a write and the close, by the *)
(* phases the file goes through.                                           *)
Moved(call, p) ==
    CASE call = "create" /\ p = "closed" -> "bare"
      [] call = "open" /\ p = "closed" -> "clean"
      [] call = "dataset" /\ p = "bare" -> "clean"
      [] call \in {"resize", "rename", "recreate"} /\ p = "clean" -> "clean"
      [] call = "write" /\ p \in {"clean", "written"} -> "written"
      [] call = "close" /\ p \in {"clean", "written"} -> "closed"
      [] call = "prepare" /\ p = "closed" -> "closed"
      [] call \in {"init", "barrier", "bcast", "gather", "allgather"} -> p
      [] OTHER -> "wrong"

Phases(s) ==
    LET P[k \in 0..Len(s)] == IF k = 0 THEN "closed" ELSE Moved(s[k], P[k - 1]) IN P

Proper(s) == \A k \in 0..Len(s) : Phases(s)[k] # "wrong"

(* Without a fault, and with no metadata call between a write and the      *)
(* close, every rank gets through the whole script.                        *)
Orderly ==
    \A i, j \in DOMAIN script :
      i < j /\ script[i] = "write" /\ script[j] \in {"resize", "rename", "recreate"} =>
        \E k \in (i + 1)..(j - 1) : script[k] = "close"

AllFinish == Orderly /\ []~faulted => <>(\A r \in Rank : Finished(r))
=============================================================================
