----------------------------- MODULE CrossFile -----------------------------
(***************************************************************************)
(* Everything that leads from one file into another: path resolution along *)
(* soft and external links (resolve_path_cross, open_external in           *)
(* hl/location.rs), and the sources of virtual datasets, which the reader  *)
(* opens and parses in turn (materialize_vds in format/reader.rs).         *)
(*                                                                         *)
(* Both are recursions with a depth limit.  A thread's recursion is a      *)
(* stack of frames, and every lock section and every read of the disk is   *)
(* an action: between two components of a path, and between looking in the *)
(* cache of external files and inserting into it, other threads and other  *)
(* programs change links and files.                                        *)
(***************************************************************************)
EXTENDS ObjectGraph, FiniteSetsExt

CONSTANTS
    Thread,         \* threads that walk paths
    Opener,         \* the one that opens the file
    FileName,       \* file names, all of one directory
    Here,           \* the source file name "." of a virtual dataset
    MainFile,       \* the file the application opens
    Paths,          \* paths the application walks
    Targets,        \* soft and external targets the application links
    Images,         \* what other programs may put into each file
    Worlds,         \* the contents of the files at first, and "located"
    NewName,        \* the name of a link the application adds
    Fill,           \* the value of a virtual element nobody filled
    MaxLinkDepth,   \* MAX_LINK_DEPTH
    MaxParseDepth,  \* the nesting of virtual sources that parse_depth accepts
    MaxCalls,       \* bound: calls the application makes
    MaxChanges      \* bound: changes of links and files

Absent == <<>>

LeadsInto(target, ids) ==
    /\ target.kind = "Hard" => target.obj \in ids
    /\ target.kind = "External" => target.file \in FileName

(* What a parse leaves: a root, and hard links to what was parsed.         *)
NodeOver(ids, node) ==
    /\ node = [kind |-> node.kind, links |-> node.links,
               source |-> node.source, value |-> node.value]
    /\ node.links \in Seq(ToSet(node.links))
    /\ \A l \in ToSet(node.links) : LeadsInto(l.target, ids)
    /\ node.source.file \in FileName \cup {Here}

WellFormed(arena) ==
    /\ arena \in Seq(ToSet(arena)) /\ Root \in DOMAIN arena
    /\ \A i \in DOMAIN arena : NodeOver(DOMAIN arena, arena[i])

Content(image) == image = Absent \/ WellFormed(image)

ASSUME FileAssumption ==
    /\ Opener \in Thread /\ MainFile \in FileName /\ Here \notin FileName
    /\ \A w \in Worlds :
         /\ w.disk = [f \in FileName |-> w.disk[f]] /\ w.located \in BOOLEAN
         /\ \A f \in FileName : Content(w.disk[f])
    /\ \A f \in FileName : \A image \in Images[f] : Content(image)
    /\ \A g \in Targets : LeadsInto(g, {})
    /\ MaxLinkDepth \in Nat /\ MaxParseDepth \in Nat
    /\ MaxCalls \in Nat /\ MaxChanges \in Nat

VARIABLES
    disk,      \* the contents of the files, an arena each, or Absent
    located,   \* the program runs in the directory of the files
    files,     \* the open FileInners, in the order they were opened
    stack,     \* per thread, the frames of the call it is in
    asked,     \* per thread, its last call
    held,      \* per thread, the handle its last call returned
    quiet,     \* per thread: no link or file changed since its last call
               \* began, nor was an older copy of a file put in a cache
    changes,   \* changes of links and files so far
    calls      \* calls so far

vars == <<disk, located, files, stack, asked, held, quiet, changes, calls>>

NotVirtual == [file |-> Here, path |-> <<>>]
Virtual(node) == node.kind = "Dataset" /\ node.source # NotVirtual
InFile(p) == [abs |-> TRUE, comps |-> p]
Nowhere == [file |-> None, at |-> None]

(* The virtual datasets a parse leaves for materialize_vds.  It meets only *)
(* what hard links lead to; the ids of an image are in the order it does.  *)
HardMembers(arena, ids) ==
    UNION {{l.target.obj : l \in {l \in ToSet(arena[i].links) : l.target.kind = "Hard"}}
             : i \in ids}
Reached(arena) ==
    {i \in DOMAIN arena : \A S \in SUBSET DOMAIN arena :
        Root \in S /\ HardMembers(arena, S) \subseteq S => i \in S}

PendingVds(arena) == {i \in Reached(arena) : Virtual(arena[i])}

(* A source in an arena: the id of the dataset, or None.                   *)
SourceIn(arena, path) ==
    LET i == Resolve(arena, Root, InFile(path))
    IN  IF i \in DOMAIN arena /\ arena[i].kind = "Dataset" THEN i ELSE None

-----------------------------------------------------------------------------
(* Frames *)

WalkFrame(file, at, rest, depth) ==
    [op |-> "walk", file |-> file, at |-> at, rest |-> rest, depth |-> depth]
OpenFrame(pc, file, name, path, depth) ==
    [op |-> "open", pc |-> pc, file |-> file, name |-> name, path |-> path, depth |-> depth]
Emptied(arena) ==
    [i \in DOMAIN arena |-> IF Virtual(arena[i]) THEN [arena[i] EXCEPT !.value = Fill]
                            ELSE arena[i]]
ParseFrame(name, inDir, depth) ==
    [op |-> "parse", name |-> name, arena |-> Emptied(disk[name]),
     pending |-> PendingVds(disk[name]), sources |-> <<>>, inDir |-> inDir, depth |-> depth]

(* HashMap::insert. *)
With(map, key, value) ==
    [k \in DOMAIN map \cup {key} |-> IF k = key THEN value ELSE map[k]]

(* The innermost frame of a thread, if it is of this kind. *)
Doing(t, op) == {f \in {stack[t][k] : k \in {Len(stack[t])} \ {0}} : f.op = op}
Below(t) == Front(stack[t])
Replace(t, frames) == stack' = [stack EXCEPT ![t] = Below(t) \o frames]

(* The call returns the handle h, or Nowhere for an error.                 *)
Return(t, h) ==
    /\ stack' = [stack EXCEPT ![t] = <<>>]
    /\ held' = [held EXCEPT ![t] = h]
Fail(t) == Return(t, Nowhere)

(* A faulty limit: off by one.                                             *)
EnterLate(t, below, file, path, depth) ==
    IF depth > MaxLinkDepth THEN Fail(t)
    ELSE /\ stack' = [stack EXCEPT ![t] = Append(below, WalkFrame(file, Root, path, depth + 1))]
         /\ UNCHANGED held

(* A link leads into a file: its path is walked from the root there,       *)
(* unless that is too deep.                                                *)
Enter(t, below, file, path, depth) ==
    IF depth + 1 > MaxLinkDepth THEN Fail(t)
    ELSE /\ stack' = [stack EXCEPT ![t] = Append(below, WalkFrame(file, Root, path, depth + 1))]
         /\ UNCHANGED held

-----------------------------------------------------------------------------
Init ==
    /\ \E w \in Worlds : disk = w.disk /\ located = w.located
    /\ files = <<>>
    /\ stack = [t \in Thread |-> <<>>]
    /\ asked = [t \in Thread |-> [from |-> Nowhere, path |-> <<>>]]
    /\ held = [t \in Thread |-> Nowhere]
    /\ quiet = [t \in Thread |-> FALSE]
    /\ changes = 0
    /\ calls = 0

Begin(t, frame, from, path) ==
    /\ stack[t] = <<>>
    /\ calls < MaxCalls /\ calls' = calls + 1
    /\ stack' = [stack EXCEPT ![t] = <<frame>>]
    /\ asked' = [asked EXCEPT ![t] = [from |-> from, path |-> path]]
    /\ quiet' = [quiet EXCEPT ![t] = TRUE]
    /\ held' = [held EXCEPT ![t] = Nowhere]
    /\ UNCHANGED <<disk, located, files, changes>>

(* File::open; the file is shared by the threads. *)
OpenFile ==
    /\ files = <<>>
    /\ Begin(Opener, OpenFrame("read", None, MainFile, <<>>, 0), Nowhere, <<>>)

(* Location::open_by_path, on the root group of the file or on the object  *)
(* the thread holds.                                                       *)
OpenByPath(t, p) ==
    /\ files # <<>>
    /\ \E h \in {[file |-> 1, at |-> Root], held[t]} \ {Nowhere} :
         Begin(t, WalkFrame(h.file, IF p.abs THEN Root ELSE h.at, p.comps, 0), h, p)

LinksAt(w) ==
    LET arena == files[w.file].arena
    IN  IF IsGroup(arena, w.at) THEN ToSet(arena[w.at].links) ELSE {}

(* A faulty walk that waits for a link: it will follow it again.           *)
WaitingAgain(t, w) == Append(Below(t), w)

Waiting(t, w) == Append(Below(t), [w EXCEPT !.rest = Tail(@)])

(* A link is followed; the walk waits for the end of an indirection.       *)
Follow(t, w, target) ==
    \/ /\ target.kind = "Hard"
       /\ Replace(t, <<[w EXCEPT !.at = target.obj, !.rest = Tail(@)]>>)
       /\ UNCHANGED held
    \/ target.kind = "Soft" /\ Enter(t, Waiting(t, w), w.file, target.path, w.depth)
    \/ /\ target.kind = "External"
       /\ stack' = [stack EXCEPT ![t] =
            Append(Waiting(t, w),
                   OpenFrame("lookup", w.file, target.file, target.path, w.depth))]
       /\ UNCHANGED held

(* One component of a path, under a read lock of its own.                  *)
Component(t) ==
    /\ \E w \in Doing(t, "walk") :
         /\ w.rest # <<>>
         /\ LET found == {l \in LinksAt(w) : l.name = <<Head(w.rest)>>}
            IN  \/ /\ Head(w.rest) = Dot
                   /\ Replace(t, <<[w EXCEPT !.rest = Tail(@)]>>) /\ UNCHANGED held
                \/ Head(w.rest) # Dot /\ found = {} /\ Fail(t)
                \/ \E l \in found : Follow(t, w, l.target)
    /\ UNCHANGED <<disk, located, files, asked, quiet, changes, calls>>

(* A faulty end of a resolution: the walk goes on in the file it came from. *)
BackInto(w, waiting) == [waiting EXCEPT !.at = w.at]

ArrivedIn(w, waiting) == [waiting EXCEPT !.file = w.file, !.at = w.at]

(* The end of a resolution: the innermost link is followed, the walk above *)
(* goes on from there; the outermost gives the call its handle, unless the *)
(* object is of no known kind.                                             *)
Arrive(t) ==
    /\ \E w \in Doing(t, "walk") :
         /\ w.rest = <<>>
         /\ \/ /\ Len(stack[t]) = 1
               /\ Return(t, IF files[w.file].arena[w.at].kind = "Unsupported" THEN Nowhere
                            ELSE [file |-> w.file, at |-> w.at])
            \/ /\ Len(stack[t]) > 1
               /\ stack' = [stack EXCEPT ![t] =
                     Append(Front(Below(t)), ArrivedIn(w, Last(Below(t))))]
               /\ UNCHANGED held
    /\ UNCHANGED <<disk, located, files, asked, quiet, changes, calls>>

-----------------------------------------------------------------------------
(* Opening a file *)

(* open_external looks in the cache of the referring file, and unlocks it. *)
LookUp(t) ==
    /\ \E o \in Doing(t, "open") :
         /\ o.pc = "lookup"
         /\ \/ /\ o.name \in DOMAIN files[o.file].externals
               /\ Enter(t, Below(t), files[o.file].externals[o.name], o.path, o.depth)
            \/ /\ o.name \notin DOMAIN files[o.file].externals
               /\ Replace(t, <<[o EXCEPT !.pc = "read"]>>) /\ UNCHANGED held
    /\ UNCHANGED <<disk, located, files, asked, quiet, changes, calls>>

(* The file is read as it is now.  Only File::open gives the parser the    *)
(* directory that the sources of virtual datasets are looked for in.       *)
ReadFile(t) ==
    /\ \E o \in Doing(t, "open") :
         /\ o.pc = "read"
         /\ \/ disk[o.name] = Absent /\ Fail(t)
            \/ /\ disk[o.name] # Absent
               /\ Replace(t, <<[o EXCEPT !.pc = "parsing"], ParseFrame(o.name, o.file = None, 0)>>)
               /\ UNCHANGED held
    /\ UNCHANGED <<disk, located, files, asked, quiet, changes, calls>>

(* The parse of a source, one level deeper.                                *)
SourceFrame(p, name) == ParseFrame(name, p.inDir, p.depth + 1)

(* materialize_vds: a pending dataset is filled from an arena that has its *)
(* source.                                                                 *)
FillFrom(t, p, first, arena) ==
    \E i \in {SourceIn(arena, p.arena[first].source.path)} :
      \/ i = None /\ Fail(t)
      \/ /\ i # None
         /\ Replace(t, <<[p EXCEPT !.arena[first].value = arena[i].value,
                                  !.pending = @ \ {first}]>>)
         /\ UNCHANGED held

(* The source is in the same file, where it may not be filled itself, or   *)
(* in a file read before in this parse; else that is read and parsed first. *)
Materialize(t) ==
    /\ \E p \in Doing(t, "parse") :
         /\ p.pending # {}
         /\ \E first \in {Min(p.pending)} : \E name \in {p.arena[first].source.file} :
              \/ name = Here /\ FillFrom(t, p, first, p.arena)
              \/ name \in DOMAIN p.sources /\ FillFrom(t, p, first, p.sources[name])
              \/ /\ name \notin {Here} \cup DOMAIN p.sources
                 /\ IF \/ ~(p.inDir \/ located) \/ disk[name] = Absent
                       \/ p.depth + 1 > MaxParseDepth
                    THEN Fail(t)
                    ELSE /\ stack' = [stack EXCEPT ![t] = Append(@, SourceFrame(p, name))]
                         /\ UNCHANGED held
    /\ UNCHANGED <<disk, located, files, asked, quiet, changes, calls>>

(* A parsed source goes to the parse that needs it.                        *)
SourceParsed(t) ==
    /\ \E p \in Doing(t, "parse") :
         /\ p.pending = {} /\ Last(Below(t)).op = "parse"
         /\ stack' = [stack EXCEPT ![t] =
               Append(Front(Below(t)),
                      [Last(Below(t)) EXCEPT !.sources = With(@, p.name, p.arena)])]
    /\ UNCHANGED <<disk, located, files, asked, held, quiet, changes, calls>>

(* A faulty open_external: the file can be written to.                     *)
InnerWritable(t, name, arena, parent) ==
    [name |-> name, arena |-> arena, readOnly |-> FALSE, externals |-> <<>>,
     openedBy |-> [thread |-> t, parent |-> parent]]

(* An open file: File::open for writing, open_external read-only.          *)
Inner(t, name, arena, parent) ==
    [name |-> name, arena |-> arena, readOnly |-> parent # None, externals |-> <<>>,
     openedBy |-> [thread |-> t, parent |-> parent]]

(* A faulty open_external: what was opened is not remembered.              *)
WithFileForgotten(inner, parent) == Append(files, inner)

WithFile(inner, parent) ==
    IF parent = None THEN Append(files, inner)
    ELSE Append([files EXCEPT ![parent].externals = With(@, inner.name, Len(files) + 1)], inner)

(* The parsed file is opened: by File::open, or by open_external, which    *)
(* puts it in the cache whatever another thread has put there meanwhile.   *)
(* A call that began before a change may insert what was read before it:   *)
(* then it is a change for the others.                                     *)
Insert(t) ==
    /\ \E p \in Doing(t, "parse") :
         /\ p.pending = {} /\ Last(Below(t)).op = "open"
         /\ \E o \in {Last(Below(t))}, new \in {Len(files) + 1} :
              /\ files' = WithFile(Inner(t, o.name, p.arena, o.file), o.file)
              /\ \/ o.file = None /\ Return(t, [file |-> new, at |-> Root])
                 \/ o.file # None /\ Enter(t, Front(Below(t)), new, o.path, o.depth)
    /\ quiet' = [u \in Thread |-> quiet[u] /\ (u = t \/ quiet[t])]
    /\ UNCHANGED <<disk, located, asked, changes, calls>>

-----------------------------------------------------------------------------
(* Changes *)

Changed ==
    /\ changes < MaxChanges
    /\ changes' = changes + 1
    /\ quiet' = [t \in Thread |-> FALSE]
    /\ UNCHANGED <<located, stack, asked, held, calls>>

(* Group::link_soft, link_external and unlink on the group a thread holds. *)
Relinked(links) ==
    {Append(links, [name |-> <<NewName>>, target |-> g]) :
       g \in {g \in Targets : Find(links, <<NewName>>) = 0}}
    \cup {RemoveAt(links, i) : i \in DOMAIN links}

Edit(t) ==
    /\ stack[t] = <<>> /\ held[t] # Nowhere
    /\ LET h == held[t]
       IN  /\ ~files[h.file].readOnly /\ IsGroup(files[h.file].arena, h.at)
           /\ \E links \in Relinked(files[h.file].arena[h.at].links) :
                files' = [files EXCEPT ![h.file].arena[h.at].links = links]
    /\ Changed /\ UNCHANGED disk

(* File::flush. *)
Flush ==
    /\ files # <<>>
    /\ disk' = [disk EXCEPT ![MainFile] = files[1].arena]
    /\ disk' # disk
    /\ Changed /\ UNCHANGED files

(* Another program writes or removes a file.                               *)
Rewrite(f) ==
    /\ f # MainFile
    /\ \E image \in Images[f] :
         image # disk[f] /\ disk' = [disk EXCEPT ![f] = image]
    /\ Changed /\ UNCHANGED files

Resolving(t) ==
    \/ Component(t) \/ Arrive(t) \/ LookUp(t)
    \/ ReadFile(t) \/ Materialize(t) \/ SourceParsed(t) \/ Insert(t)

Next ==
    \/ OpenFile \/ Flush
    \/ \E f \in FileName : Rewrite(f)
    \/ \E t \in Thread : (\E p \in Paths : OpenByPath(t, p)) \/ Resolving(t) \/ Edit(t)

(* A thread inside a call is scheduled; nobody has to make a call.         *)
Spec == Init /\ [][Next]_vars /\ \A t \in Thread : WF_vars(Resolving(t))

-----------------------------------------------------------------------------
(* Properties *)

Handle(h) == h.file \in DOMAIN files /\ h.at \in DOMAIN files[h.file].arena

(* Types, and: every handle, and every place a resolution has come to, is  *)
(* an object of the file it is paired with; a cache leads to a file of the *)
(* name it is asked for; no recursion is deeper than its limit.            *)
TypeOK ==
    /\ \A f \in FileName : disk[f] = Absent \/ Root \in DOMAIN disk[f]
    /\ located \in BOOLEAN /\ changes \in 0..MaxChanges /\ calls \in 0..MaxCalls
    /\ quiet \in [Thread -> BOOLEAN]
    /\ \A t \in Thread : held[t] = Nowhere \/ Handle(held[t])
    /\ \A i \in DOMAIN files : \A n \in DOMAIN files[i].externals :
         files[files[i].externals[n]].name = n
    /\ \A t \in Thread : \A k \in DOMAIN stack[t] :
         LET frame == stack[t][k]
         IN  \/ frame.op = "walk" /\ Handle([file |-> frame.file, at |-> frame.at])
                 /\ frame.depth <= MaxLinkDepth
             \/ frame.op = "open" /\ frame.name \in FileName
             \/ frame.op = "parse" /\ frame.depth <= MaxParseDepth

(* The race in open_external costs at most one copy of a file per thread:  *)
(* whoever has opened it through a file finds it there ever after.         *)
OneCopyPerThread ==
    \A i, j \in DOMAIN files :
      i # j => [files[i].openedBy EXCEPT !.parent = <<@, files[i].name>>]
               # [files[j].openedBy EXCEPT !.parent = <<@, files[j].name>>]

(* Objects reached through external links are read-only: whatever handle   *)
(* is written through, a file opened for a link stays as it was parsed.    *)
ExternalsFrozen ==
    [][\A i \in DOMAIN files :
         files[i].openedBy.parent # None => files'[i].arena = files[i].arena]_vars

(* Every call returns, also along cyclic links and cyclic virtual sources, *)
(* and while others change both.                                           *)
CallsReturn == \A t \in Thread : stack[t] # <<>> ~> stack[t] = <<>>
=============================================================================
