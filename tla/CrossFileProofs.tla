-------------------------- MODULE CrossFileProofs --------------------------
(***************************************************************************)
(* Proofs about CrossFile, for every set of threads, files, paths and      *)
(* contents of the files, and every limit.  Where a path leads plays no    *)
(* part in them; where a resolution can be while others edit, write and    *)
(* open files does.                                                        *)
(***************************************************************************)
EXTENDS CrossFile, SequenceTheorems, BasicFacts

HandleIn(fs, f, at) == f \in DOMAIN fs /\ at \in DOMAIN fs[f].arena

(* Frames over the open files fs, of a thread t.  Once open_external has   *)
(* missed in the cache of a file, no file is there that the thread itself  *)
(* has opened through it under the name.                                   *)
GoodWalk(fs, w) ==
    /\ w.op = "walk" /\ w = WalkFrame(w.file, w.at, w.rest, w.depth)
    /\ HandleIn(fs, w.file, w.at)
    /\ w.depth \in 0..MaxLinkDepth

GoodOpen(fs, t, o) ==
    /\ o.op = "open" /\ o = OpenFrame(o.pc, o.file, o.name, o.path, o.depth)
    /\ o.name \in FileName
    /\ o.file \in {None} \cup DOMAIN fs
    /\ o.depth \in 0..MaxLinkDepth
    /\ IF o.pc = "lookup" THEN o.file # None
       ELSE \A i \in DOMAIN fs : ~(/\ fs[i].openedBy = [thread |-> t, parent |-> o.file]
                                   /\ fs[i].name = o.name)

GoodParse(p) ==
    /\ p.op = "parse"
    /\ p = [op |-> "parse", name |-> p.name, arena |-> p.arena, pending |-> p.pending,
            sources |-> p.sources, inDir |-> p.inDir, depth |-> p.depth]
    /\ WellFormed(p.arena)
    /\ p.pending \subseteq DOMAIN p.arena
    /\ p.depth \in 0..MaxParseDepth

GoodFrame(fs, t, f) == GoodWalk(fs, f) \/ GoodOpen(fs, t, f) \/ GoodParse(f)

(* A stack: walks, each but the last waiting for the next; above them an   *)
(* opening, and above that the parses it needs.                            *)
Parsing(f) == f.op = "parse" \/ (f.op = "open" /\ f.pc = "parsing")
Walks(s, n) == \A k \in 1..n : s[k].op = "walk"

Stacked(s, n, f) ==
    /\ f.op \in {"walk", "open"} => Walks(s, n)
    /\ f.op = "parse" => n > 0 /\ Parsing(s[n])

GoodStack(fs, t, s) ==
    /\ s \in Seq(ToSet(s))
    /\ \A k \in DOMAIN s : GoodFrame(fs, t, s[k]) /\ Stacked(s, k - 1, s[k])

(* An open file.  Whatever was opened for a link is read-only, and is in   *)
(* the cache of the file that holds the link.                              *)
GoodFile(fs, i) ==
    LET f == fs[i]
    IN  /\ f = [name |-> f.name, arena |-> f.arena, readOnly |-> f.readOnly,
                externals |-> f.externals,
                openedBy |-> [thread |-> f.openedBy.thread, parent |-> f.openedBy.parent]]
        /\ WellFormed(f.arena)
        /\ \A n \in DOMAIN f.externals :
             f.externals[n] \in DOMAIN fs /\ fs[f.externals[n]].name = n
        /\ f.openedBy.parent # None =>
             /\ f.readOnly
             /\ f.openedBy.parent \in DOMAIN fs
             /\ f.name \in DOMAIN fs[f.openedBy.parent].externals

GoodFiles(fs) == fs \in Seq(ToSet(fs)) /\ \A i \in DOMAIN fs : GoodFile(fs, i)

(* The inductive invariant. *)
IInv ==
    /\ disk = [f \in FileName |-> disk[f]] /\ \A f \in FileName : Content(disk[f])
    /\ located \in BOOLEAN /\ changes \in 0..MaxChanges /\ calls \in 0..MaxCalls
    /\ quiet \in [Thread -> BOOLEAN]
    /\ GoodFiles(files)
    /\ held = [t \in Thread |-> held[t]]
    /\ \A t \in Thread : held[t] = Nowhere \/ HandleIn(files, held[t].file, held[t].at)
    /\ stack = [t \in Thread |-> stack[t]]
    /\ \A t \in Thread : GoodStack(files, t, stack[t])
    /\ OneCopyPerThread

-----------------------------------------------------------------------------
(* Arenas *)

(* An arena whose nodes change in place.                                   *)
LEMMA NodesChange ==
    ASSUME NEW arena, WellFormed(arena), NEW arena2,
           arena2 = [i \in DOMAIN arena |-> arena2[i]],
           \A i \in DOMAIN arena : NodeOver(DOMAIN arena, arena2[i])
    PROVE  WellFormed(arena2) /\ DOMAIN arena2 = DOMAIN arena
<1>1. DOMAIN arena = 1..Len(arena) /\ Len(arena) \in Nat /\ Root \in DOMAIN arena
  BY SequenceFacts DEF WellFormed
<1>2. DOMAIN arena2 = DOMAIN arena
  OBVIOUS
<1>3. \A i \in 1..Len(arena) : arena2[i] \in ToSet(arena2)
  BY <1>1, <1>2 DEF ToSet
<1>4. [i \in 1..Len(arena) |-> arena2[i]] \in Seq(ToSet(arena2))
  BY <1>1, <1>3
<1>5. arena2 = [i \in 1..Len(arena) |-> arena2[i]]
  BY <1>1
<1>6. arena2 \in Seq(ToSet(arena2))
  BY <1>4, <1>5
<1> QED
  BY <1>1, <1>2, <1>6 DEF WellFormed

LEMMA ArenaFacts ==
    ASSUME NEW arena, WellFormed(arena)
    PROVE  /\ DOMAIN arena = 1..Len(arena) /\ Len(arena) \in Nat
           /\ Root \in DOMAIN arena /\ arena # Absent
           /\ \A i \in DOMAIN arena :
                /\ NodeOver(DOMAIN arena, arena[i])
                /\ arena[i].source.file \in FileName \cup {Here}
<1>1. DOMAIN arena = 1..Len(arena) /\ Len(arena) \in Nat /\ Root \in DOMAIN arena
  BY SequenceFacts DEF WellFormed
<1>2. arena # <<>>
  BY <1>1
<1> QED
  BY <1>1, <1>2 DEF WellFormed, NodeOver, Absent

(* A node with another value.                                              *)
LEMMA ValueChange ==
    ASSUME NEW ids, NEW node, NodeOver(ids, node), NEW v
    PROVE  NodeOver(ids, [node EXCEPT !.value = v])
<1> DEFINE new == [node EXCEPT !.value = v]
<1>1. new = [kind |-> node.kind, links |-> node.links, source |-> node.source, value |-> v]
  BY DEF NodeOver
<1>2. new.kind = node.kind /\ new.links = node.links /\ new.source = node.source /\ new.value = v
  BY <1>1
<1> HIDE DEF new
<1>3. NodeOver(ids, new)
  BY <1>1, <1>2 DEF NodeOver
<1> QED
  BY <1>3 DEF new

LEMMA EmptiedIsWellFormed ==
    ASSUME NEW arena, WellFormed(arena)
    PROVE  WellFormed(Emptied(arena)) /\ DOMAIN Emptied(arena) = DOMAIN arena
<1> DEFINE e == Emptied(arena)
<1>1. e = [i \in DOMAIN arena |-> e[i]]
  BY DEF Emptied
<1>2. ASSUME NEW i \in DOMAIN arena PROVE NodeOver(DOMAIN arena, e[i])
  <2>1. NodeOver(DOMAIN arena, arena[i])
    BY ArenaFacts
  <2>2. NodeOver(DOMAIN arena, [arena[i] EXCEPT !.value = Fill])
    BY <2>1, ValueChange
  <2> QED
    BY <2>1, <2>2 DEF Emptied
<1> HIDE DEF e
<1>3. WellFormed(e) /\ DOMAIN e = DOMAIN arena
  BY <1>1, <1>2, NodesChange
<1> QED
  BY <1>3 DEF e

(* A virtual dataset that is filled.                                       *)
LEMMA FilledIsWellFormed ==
    ASSUME NEW arena, WellFormed(arena), NEW i \in DOMAIN arena, NEW v
    PROVE  /\ WellFormed([arena EXCEPT ![i].value = v])
           /\ DOMAIN [arena EXCEPT ![i].value = v] = DOMAIN arena
<1> DEFINE e == [arena EXCEPT ![i].value = v]
<1>1. arena = [k \in DOMAIN arena |-> arena[k]]
  BY SequenceFacts DEF WellFormed
<1>2. e = [k \in DOMAIN arena |-> e[k]]
  BY <1>1
<1>3. ASSUME NEW k \in DOMAIN arena PROVE NodeOver(DOMAIN arena, e[k])
  <2>1. NodeOver(DOMAIN arena, arena[k])
    BY ArenaFacts
  <2>2. NodeOver(DOMAIN arena, [arena[k] EXCEPT !.value = v])
    BY <2>1, ValueChange
  <2> QED
    BY <1>1, <2>1, <2>2
<1> HIDE DEF e
<1>4. WellFormed(e) /\ DOMAIN e = DOMAIN arena
  BY <1>2, <1>3, NodesChange
<1> QED
  BY <1>4 DEF e

(* The links that an edit leaves.                                          *)
LEMMA RelinkedLinks ==
    ASSUME NEW links, links \in Seq(ToSet(links)), NEW new \in Relinked(links)
    PROVE  /\ new \in Seq(ToSet(new))
           /\ \A l \in ToSet(new) : l \in ToSet(links) \/ l.target \in Targets
<1>1. ASSUME NEW g \in Targets, new = Append(links, [name |-> <<NewName>>, target |-> g])
      PROVE  /\ new \in Seq(ToSet(new))
             /\ \A l \in ToSet(new) : l \in ToSet(links) \/ l.target \in Targets
  <2> DEFINE e == [name |-> <<NewName>>, target |-> g]
  <2>1. new \in Seq(ToSet(new)) /\ ToSet(new) = ToSet(links) \cup {e}
    BY <1>1, AppendFacts
  <2>2. e.target = g
    OBVIOUS
  <2> QED
    BY <2>1, <2>2
<1>2. ASSUME NEW i \in DOMAIN links, new = RemoveAt(links, i)
      PROVE  /\ new \in Seq(ToSet(new))
             /\ \A l \in ToSet(new) : l \in ToSet(links)
  <2>1. DOMAIN links = 1..Len(links) /\ Len(links) \in Nat
        /\ \A k \in 1..Len(links) : links[k] \in ToSet(links)
    BY SequenceFacts
  <2> DEFINE a == SubSeq(links, 1, i - 1)
             b == SubSeq(links, i + 1, Len(links))
             S == ToSet(links)
  <2>2. i \in Nat /\ i - 1 \in Int /\ i + 1 \in Int /\ Len(links) \in Int
        /\ \A k \in 1..i - 1 : links[k] \in S
    BY <2>1
  <2>3. \A k \in i + 1..Len(links) : links[k] \in S
    BY <2>1
  <2>4. a \in Seq(S)
    BY <2>2, SubSeqProperties
  <2>5. b \in Seq(S)
    BY <2>2, <2>3, SubSeqProperties
  <2>6. a \o b \in Seq(S)
    BY <2>4, <2>5, ConcatProperties
  <2>7. new \in Seq(S)
    BY <1>2, <2>6 DEF RemoveAt
  <2>8. new \in Seq(ToSet(new)) /\ DOMAIN new = 1..Len(new)
    BY <2>7, OwnElements
  <2>9. \A k \in 1..Len(new) : new[k] \in S
    BY <2>7, ElementOfSeq
  <2> QED
    BY <2>8, <2>9 DEF ToSet
<1> QED
  BY <1>1, <1>2 DEF Relinked

LEMMA RelinkedIsWellFormed ==
    ASSUME NEW arena, WellFormed(arena), NEW i \in DOMAIN arena,
           NEW new \in Relinked(arena[i].links)
    PROVE  /\ WellFormed([arena EXCEPT ![i].links = new])
           /\ DOMAIN [arena EXCEPT ![i].links = new] = DOMAIN arena
<1> DEFINE e == [arena EXCEPT ![i].links = new]
           node == [arena[i] EXCEPT !.links = new]
           ids == DOMAIN arena
<1>1. arena = [k \in DOMAIN arena |-> arena[k]]
  BY SequenceFacts DEF WellFormed
<1>2. \A k \in ids : NodeOver(ids, arena[k])
  BY ArenaFacts
<1>3. arena[i].links \in Seq(ToSet(arena[i].links))
      /\ \A l \in ToSet(arena[i].links) : LeadsInto(l.target, ids)
  BY <1>2 DEF NodeOver
<1>4. /\ new \in Seq(ToSet(new))
      /\ \A l \in ToSet(new) : l \in ToSet(arena[i].links) \/ l.target \in Targets
  BY <1>3, RelinkedLinks
<1>5. \A g \in Targets : LeadsInto(g, ids)
  BY FileAssumption DEF LeadsInto
<1>6. \A l \in ToSet(new) : LeadsInto(l.target, ids)
  BY <1>3, <1>4, <1>5
<1>7. node = [kind |-> arena[i].kind, links |-> new, source |-> arena[i].source,
              value |-> arena[i].value]
  BY <1>2 DEF NodeOver
<1>8. arena[i].source.file \in FileName \cup {Here}
  BY <1>2 DEF NodeOver
<1>9. node.kind = arena[i].kind /\ node.links = new /\ node.source = arena[i].source
      /\ node.value = arena[i].value
  BY <1>7
<1>10. e = [k \in ids |-> e[k]] /\ e[i] = node /\ \A k \in ids : k # i => e[k] = arena[k]
  BY <1>1
<1> HIDE DEF e, node
<1>11. NodeOver(ids, node)
  BY <1>4, <1>6, <1>7, <1>8, <1>9 DEF NodeOver
<1>12. \A k \in ids : NodeOver(ids, e[k])
  BY <1>2, <1>10, <1>11
<1>13. WellFormed(e) /\ DOMAIN e = ids
  BY <1>10, <1>12, NodesChange
<1> QED
  BY <1>13 DEF e

-----------------------------------------------------------------------------
(* Stacks *)

(* Where what is looked at of the open files is still there.               *)
Kept(fs, fs2, i) ==
    /\ i \in DOMAIN fs2
    /\ DOMAIN fs2[i].arena = DOMAIN fs[i].arena
    /\ fs2[i].name = fs[i].name /\ fs2[i].openedBy = fs[i].openedBy

LEMMA EmptyStack ==
    ASSUME NEW fs, NEW t
    PROVE  GoodStack(fs, t, <<>>)
<1>1. <<>> \in Seq(ToSet(<<>>)) /\ DOMAIN <<>> = {}
  OBVIOUS
<1> QED
  BY <1>1 DEF GoodStack

LEMMA FrontOfStack ==
    ASSUME NEW fs, NEW t, NEW s, GoodStack(fs, t, s), s # <<>>
    PROVE  /\ Len(s) \in Nat \ {0}
           /\ GoodStack(fs, t, Front(s))
           /\ Len(Front(s)) = Len(s) - 1
           /\ \A i \in 1..Len(s) - 1 : Front(s)[i] = s[i]
           /\ Last(s) = s[Len(s)]
           /\ GoodFrame(fs, t, s[Len(s)])
           /\ Stacked(Front(s), Len(s) - 1, s[Len(s)])
<1> DEFINE f == Front(s)
           n == Len(s)
<1>1. /\ n \in Nat \ {0} /\ f \in Seq(ToSet(f)) /\ Len(f) = n - 1
      /\ \A i \in 1..n - 1 : f[i] = s[i]
      /\ Last(s) = s[n]
  BY FrontFacts DEF GoodStack
<1>2. DOMAIN s = 1..n /\ DOMAIN f = 1..n - 1
  BY <1>1, SequenceFacts DEF GoodStack
<1>3. \A k \in 1..n : GoodFrame(fs, t, s[k]) /\ Stacked(s, k - 1, s[k])
  BY <1>2 DEF GoodStack
<1> HIDE DEF f, n
<1>4. ASSUME NEW k \in 1..n PROVE Stacked(f, k - 1, s[k])
  <2>1. Stacked(s, k - 1, s[k])
    BY <1>3
  <2>2. \A i \in 1..k - 1 : f[i] = s[i]
    BY <1>1
  <2>3. k - 1 > 0 => f[k - 1] = s[k - 1]
    BY <1>1
  <2> QED
    BY <2>1, <2>2, <2>3 DEF Stacked, Walks
<1>5. \A k \in 1..n - 1 : k \in 1..n /\ f[k] = s[k]
  BY <1>1
<1>6. \A k \in DOMAIN f : GoodFrame(fs, t, f[k]) /\ Stacked(f, k - 1, f[k])
  BY <1>2, <1>3, <1>4, <1>5
<1>7. n \in 1..n
  BY <1>1
<1>8. GoodFrame(fs, t, s[n]) /\ Stacked(f, n - 1, s[n])
  BY <1>3, <1>4, <1>7
<1> QED
  BY <1>1, <1>6, <1>8 DEF f, n, GoodStack

LEMMA PushOnStack ==
    ASSUME NEW fs, NEW t, NEW s, GoodStack(fs, t, s),
           NEW f, GoodFrame(fs, t, f), Stacked(s, Len(s), f)
    PROVE  GoodStack(fs, t, Append(s, f))
<1> DEFINE a == Append(s, f)
           n == Len(s)
<1>1. /\ a \in Seq(ToSet(a)) /\ Len(a) = n + 1
      /\ \A i \in 1..n : a[i] = s[i]
      /\ a[n + 1] = f
  BY AppendFacts DEF GoodStack
<1>2. n \in Nat /\ DOMAIN s = 1..n
  BY SequenceFacts DEF GoodStack
<1>3. DOMAIN a = 1..n + 1
  BY <1>1, SequenceFacts
<1>4. \A k \in 1..n : GoodFrame(fs, t, s[k]) /\ Stacked(s, k - 1, s[k])
  BY <1>2 DEF GoodStack
<1> HIDE DEF a, n
<1>5. ASSUME NEW k \in 1..n + 1, NEW g, Stacked(s, k - 1, g)
      PROVE  Stacked(a, k - 1, g)
  <2>1. \A i \in 1..k - 1 : a[i] = s[i]
    BY <1>1, <1>2
  <2>2. k - 1 > 0 => a[k - 1] = s[k - 1]
    BY <1>1, <1>2
  <2> QED
    BY <1>5, <2>1, <2>2 DEF Stacked, Walks
<1>6. ASSUME NEW k \in 1..n PROVE GoodFrame(fs, t, a[k]) /\ Stacked(a, k - 1, a[k])
  <2>1. k \in 1..n + 1
    BY <1>2
  <2> QED
    BY <1>1, <1>4, <1>5, <2>1
<1>7. n + 1 \in 1..n + 1 /\ (n + 1) - 1 = n
  BY <1>2
<1>8. Stacked(s, n, f)
  BY DEF n
<1>9. Stacked(a, (n + 1) - 1, f)
  BY <1>5, <1>7, <1>8
<1>10. \A k \in 1..n + 1 : k \in 1..n \/ k = n + 1
  BY <1>2
<1>11. \A k \in DOMAIN a : GoodFrame(fs, t, a[k]) /\ Stacked(a, k - 1, a[k])
  BY <1>1, <1>3, <1>6, <1>9, <1>10
<1> QED
  BY <1>1, <1>11 DEF a, GoodStack

(* A call that begins. *)
LEMMA FirstOnStack ==
    ASSUME NEW fs, NEW t, NEW f, GoodFrame(fs, t, f), f.op \in {"walk", "open"}
    PROVE  GoodStack(fs, t, <<f>>)
<1>1. GoodStack(fs, t, <<>>)
  BY EmptyStack
<1>2. Len(<<>>) = 0 /\ 1..0 = {}
  OBVIOUS
<1>3. Walks(<<>>, Len(<<>>))
  BY <1>2 DEF Walks
<1>4. Stacked(<<>>, Len(<<>>), f)
  BY <1>3 DEF Stacked
<1>5. GoodStack(fs, t, Append(<<>>, f))
  BY <1>1, <1>4, PushOnStack
<1>6. Append(<<>>, f) = <<f>>
  OBVIOUS
<1> QED
  BY <1>5, <1>6

(* A walk on top of walks. *)
LEMMA WalkOnStack ==
    ASSUME NEW fs, NEW t, NEW s, GoodStack(fs, t, s), Walks(s, Len(s)), NEW w, GoodWalk(fs, w)
    PROVE  GoodStack(fs, t, Append(s, w)) /\ Walks(Append(s, w), Len(Append(s, w)))
<1>1. w.op = "walk"
  BY DEF GoodWalk
<1>2. GoodFrame(fs, t, w) /\ Stacked(s, Len(s), w)
  BY <1>1 DEF GoodFrame, Stacked
<1>3. GoodStack(fs, t, Append(s, w))
  BY <1>2, PushOnStack
<1>4. /\ Len(Append(s, w)) = Len(s) + 1 /\ Len(s) \in Nat
      /\ \A i \in 1..Len(s) : Append(s, w)[i] = s[i]
      /\ Append(s, w)[Len(s) + 1] = w
  BY AppendFacts, SequenceFacts DEF GoodStack
<1>5. ASSUME NEW k \in 1..Len(s) + 1 PROVE Append(s, w)[k].op = "walk"
  <2>1. CASE k = Len(s) + 1
    BY <1>1, <1>4, <2>1
  <2>2. CASE k \in 1..Len(s)
    BY <1>4, <2>2 DEF Walks
  <2> QED
    BY <1>4, <2>1, <2>2
<1> QED
  BY <1>3, <1>4, <1>5 DEF Walks

(* When files change, a stack stays good if what its frames look at is     *)
(* kept and no file was opened by the thread itself, or none of its frames *)
(* opens a file.                                                           *)
LEMMA StackKept ==
    ASSUME NEW fs, NEW fs2, NEW t, NEW s, GoodStack(fs, t, s),
           \A i \in DOMAIN fs : Kept(fs, fs2, i),
           \/ Walks(s, Len(s))
           \/ \A i \in DOMAIN fs2 \ DOMAIN fs : fs2[i].openedBy.thread # t
    PROVE  GoodStack(fs2, t, s)
<1>1. DOMAIN s = 1..Len(s)
  BY SequenceFacts DEF GoodStack
<1>2. ASSUME NEW k \in DOMAIN s PROVE GoodFrame(fs2, t, s[k])
  <2>1. GoodFrame(fs, t, s[k])
    BY DEF GoodStack
  <2>2. CASE GoodWalk(fs, s[k])
    BY <2>2 DEF GoodFrame, GoodWalk, HandleIn, Kept
  <2>3. CASE GoodParse(s[k])
    BY <2>3 DEF GoodFrame
  <2>4. CASE GoodOpen(fs, t, s[k])
    <3> DEFINE o == s[k]
    <3>1. \A i \in DOMAIN fs2 \ DOMAIN fs : fs2[i].openedBy.thread # t
      <4>1. ~Walks(s, Len(s))
        BY <1>1, <2>4 DEF GoodOpen, Walks
      <4> QED
        BY <4>1
    <3>2. ASSUME NEW i \in DOMAIN fs2, o.pc # "lookup"
          PROVE  ~(fs2[i].openedBy = [thread |-> t, parent |-> o.file] /\ fs2[i].name = o.name)
      <4>1. CASE i \in DOMAIN fs
        BY <2>4, <3>2, <4>1 DEF GoodOpen, Kept
      <4>2. CASE i \notin DOMAIN fs
        <5>1. fs2[i].openedBy.thread # t
          BY <3>1, <4>2
        <5> QED
          BY <5>1
      <4> QED
        BY <4>1, <4>2
    <3>3. o.file \in {None} \cup DOMAIN fs2
      BY <2>4 DEF GoodOpen, Kept
    <3> HIDE DEF o
    <3>4. GoodOpen(fs2, t, o)
      BY <2>4, <3>2, <3>3 DEF GoodOpen, o
    <3> QED
      BY <3>4 DEF GoodFrame, o
  <2> QED
    BY <2>1, <2>2, <2>3, <2>4 DEF GoodFrame
<1> QED
  BY <1>2 DEF GoodStack

-----------------------------------------------------------------------------
(* What a step of a thread leaves it with *)

(* The thread has a good stack over the files fs, and the handle it had or *)
(* one into them.                                                          *)
Outcome(fs, t) ==
    /\ \E s : GoodStack(fs, t, s) /\ stack' = [stack EXCEPT ![t] = s]
    /\ \/ held' = held
       \/ \E h : /\ h = Nowhere \/ HandleIn(fs, h.file, h.at)
                 /\ held' = [held EXCEPT ![t] = h]

LEMMA Returning ==
    ASSUME NEW fs, NEW t, NEW h, h = Nowhere \/ HandleIn(fs, h.file, h.at), Return(t, h)
    PROVE  Outcome(fs, t)
  BY EmptyStack DEF Outcome, Return

LEMMA Failing ==
    ASSUME NEW fs, NEW t, Fail(t)
    PROVE  Outcome(fs, t)
  BY Returning DEF Fail

(* A link leads to the root of an open file. *)
LEMMA Entering ==
    ASSUME NEW fs, NEW t, NEW below, GoodStack(fs, t, below), Walks(below, Len(below)),
           NEW file \in DOMAIN fs, WellFormed(fs[file].arena),
           NEW path, NEW depth \in 0..MaxLinkDepth, Enter(t, below, file, path, depth)
    PROVE  Outcome(fs, t)
<1> DEFINE w == WalkFrame(file, Root, path, depth + 1)
<1>1. CASE depth + 1 > MaxLinkDepth
  BY <1>1, Failing DEF Enter
<1>2. CASE ~(depth + 1 > MaxLinkDepth)
  <2>1. stack' = [stack EXCEPT ![t] = Append(below, w)] /\ held' = held
    BY <1>2 DEF Enter
  <2>2. w.op = "walk" /\ w.file = file /\ w.at = Root /\ w.rest = path /\ w.depth = depth + 1
    BY DEF WalkFrame
  <2>3. Root \in DOMAIN fs[file].arena
    BY ArenaFacts
  <2>4. depth + 1 \in 0..MaxLinkDepth
    BY <1>2, FileAssumption
  <2>5. GoodWalk(fs, w)
    BY <2>2, <2>3, <2>4 DEF GoodWalk, HandleIn
  <2> HIDE DEF w
  <2>6. GoodStack(fs, t, Append(below, w))
    BY <2>5, WalkOnStack
  <2> QED
    BY <2>1, <2>6 DEF Outcome
<1> QED
  BY <1>1, <1>2

(* The frames above Below(t) are replaced by one or by two others.         *)
LEMMA ReplacingOne ==
    ASSUME NEW fs, NEW t, GoodStack(fs, t, Below(t)), NEW f,
           GoodFrame(fs, t, f), Stacked(Below(t), Len(Below(t)), f), Replace(t, <<f>>)
    PROVE  \E s : GoodStack(fs, t, s) /\ stack' = [stack EXCEPT ![t] = s]
<1> DEFINE b == Below(t)
<1>1. b \in Seq(ToSet(b))
  BY DEF GoodStack
<1>2. b \o <<f>> = Append(b, f)
  <2>1. b \in Seq(ToSet(b) \cup {f}) /\ f \in ToSet(b) \cup {f}
    BY <1>1, SeqMonotonic
  <2> HIDE DEF b
  <2> QED
    BY <2>1, AppendIsConcat
<1>3. GoodStack(fs, t, Append(b, f))
  BY PushOnStack
<1> QED
  BY <1>2, <1>3 DEF Replace

LEMMA OneAfterAnother ==
    ASSUME NEW b, b \in Seq(ToSet(b)), NEW f, NEW g
    PROVE  b \o <<f, g>> = Append(Append(b, f), g)
<1> DEFINE S == ToSet(b) \cup {f, g}
<1>1. b \in Seq(S) /\ f \in S /\ g \in S
  BY SeqMonotonic
<1>2. Append(b, f) \in Seq(S)
  BY <1>1
<1> HIDE DEF S
<1> QED
  BY <1>1, <1>2

-----------------------------------------------------------------------------
(* The steps that change neither the files nor the disk *)

LEMMA OutcomeKeeps ==
    ASSUME IInv, NEW t \in Thread, Outcome(files, t),
           UNCHANGED <<disk, located, files, quiet, changes, calls>>
    PROVE  IInv'
<1>1. PICK s : GoodStack(files, t, s) /\ stack' = [stack EXCEPT ![t] = s]
  BY DEF Outcome
<1>2. /\ stack' = [u \in Thread |-> stack'[u]]
      /\ \A u \in Thread : GoodStack(files', u, stack'[u])
  BY <1>1 DEF IInv
<1>3. /\ held' = [u \in Thread |-> held'[u]]
      /\ \A u \in Thread : held'[u] = Nowhere \/ HandleIn(files', held'[u].file, held'[u].at)
  <2>1. CASE held' = held
    BY <2>1 DEF IInv
  <2>2. ASSUME NEW h, h = Nowhere \/ HandleIn(files, h.file, h.at),
               held' = [held EXCEPT ![t] = h]
        PROVE  <1>3
    BY <2>2 DEF IInv
  <2> QED
    BY <2>1, <2>2 DEF Outcome
<1>4. OneCopyPerThread'
  BY DEF IInv, OneCopyPerThread
<1> QED
  BY <1>2, <1>3, <1>4 DEF IInv

(* The innermost frame. *)
LEMMA Innermost ==
    ASSUME IInv, NEW t \in Thread, NEW op, NEW f \in Doing(t, op)
    PROVE  /\ f = stack[t][Len(stack[t])] /\ f.op = op
           /\ Len(stack[t]) \in Nat \ {0} /\ Len(Below(t)) = Len(stack[t]) - 1
           /\ GoodStack(files, t, Below(t))
           /\ GoodFrame(files, t, f)
           /\ Stacked(Below(t), Len(Below(t)), f)
<1>1. GoodStack(files, t, stack[t])
  BY DEF IInv
<1>2. f = stack[t][Len(stack[t])] /\ f.op = op /\ Len(stack[t]) # 0
  BY DEF Doing
<1>3. stack[t] # <<>>
  BY <1>2
<1>4. /\ Len(stack[t]) \in Nat \ {0}
      /\ GoodStack(files, t, Front(stack[t]))
      /\ Len(Front(stack[t])) = Len(stack[t]) - 1
      /\ GoodFrame(files, t, stack[t][Len(stack[t])])
      /\ Stacked(Front(stack[t]), Len(stack[t]) - 1, stack[t][Len(stack[t])])
  BY <1>1, <1>3, FrontOfStack
<1> QED
  BY <1>2, <1>4 DEF Below

LEMMA InnermostWalk ==
    ASSUME IInv, NEW t \in Thread, NEW w \in Doing(t, "walk")
    PROVE  /\ GoodWalk(files, w) /\ GoodStack(files, t, Below(t))
           /\ Walks(Below(t), Len(Below(t)))
           /\ WellFormed(files[w.file].arena)
<1>1. GoodWalk(files, w)
  <2>1. w.op = "walk" /\ GoodFrame(files, t, w)
    BY Innermost
  <2> QED
    BY <2>1 DEF GoodFrame, GoodOpen, GoodParse
<1>2. GoodFile(files, w.file)
  BY <1>1 DEF GoodWalk, HandleIn, IInv, GoodFiles
<1> QED
  BY <1>1, <1>2, Innermost DEF Stacked, GoodFile

LEMMA InnermostOpen ==
    ASSUME IInv, NEW t \in Thread, NEW o \in Doing(t, "open")
    PROVE  /\ GoodOpen(files, t, o) /\ GoodStack(files, t, Below(t))
           /\ Walks(Below(t), Len(Below(t)))
<1>1. GoodOpen(files, t, o)
  <2>1. o.op = "open" /\ GoodFrame(files, t, o)
    BY Innermost
  <2> QED
    BY <2>1 DEF GoodFrame, GoodWalk, GoodParse
<1> QED
  BY <1>1, Innermost DEF Stacked

LEMMA InnermostParse ==
    ASSUME IInv, NEW t \in Thread, NEW p \in Doing(t, "parse")
    PROVE  /\ GoodParse(p) /\ GoodStack(files, t, Below(t))
           /\ Below(t) # <<>>
           /\ Parsing(Last(Below(t)))
           /\ GoodStack(files, t, Front(Below(t)))
           /\ GoodFrame(files, t, Last(Below(t)))
           /\ Stacked(Front(Below(t)), Len(Front(Below(t))), Last(Below(t)))
<1>1. GoodParse(p)
  <2>1. p.op = "parse" /\ GoodFrame(files, t, p)
    BY Innermost
  <2> QED
    BY <2>1 DEF GoodFrame, GoodWalk, GoodOpen
<1>2. /\ GoodStack(files, t, Below(t))
      /\ Len(Below(t)) > 0 /\ Parsing(Below(t)[Len(Below(t))])
  BY Innermost DEF Stacked
<1>3. Below(t) # <<>>
  <2>1. Len(<<>>) = 0
    OBVIOUS
  <2> QED
    BY <1>2, <2>1
<1>4. /\ GoodStack(files, t, Front(Below(t)))
      /\ Len(Front(Below(t))) = Len(Below(t)) - 1
      /\ Last(Below(t)) = Below(t)[Len(Below(t))]
      /\ GoodFrame(files, t, Below(t)[Len(Below(t))])
      /\ Stacked(Front(Below(t)), Len(Below(t)) - 1, Below(t)[Len(Below(t))])
  BY <1>2, <1>3, FrontOfStack
<1> QED
  BY <1>1, <1>2, <1>3, <1>4

(* What a change of fields leaves of a walk. *)
LEMMA WalkChanges ==
    ASSUME NEW w, w = WalkFrame(w.file, w.at, w.rest, w.depth), NEW file, NEW at, NEW rest
    PROVE  /\ [w EXCEPT !.rest = rest] = WalkFrame(w.file, w.at, rest, w.depth)
           /\ [w EXCEPT !.at = at, !.rest = rest] = WalkFrame(w.file, at, rest, w.depth)
           /\ [w EXCEPT !.file = file, !.at = at] = WalkFrame(file, at, w.rest, w.depth)
<1>1. w = [op |-> "walk", file |-> w.file, at |-> w.at, rest |-> w.rest, depth |-> w.depth]
  BY DEF WalkFrame
<1>2. [w EXCEPT !.rest = rest] = WalkFrame(w.file, w.at, rest, w.depth)
  BY <1>1 DEF WalkFrame
<1> DEFINE moved == [w EXCEPT !.at = at]
           refiled == [w EXCEPT !.file = file]
<1>3. moved = [op |-> "walk", file |-> w.file, at |-> at, rest |-> w.rest, depth |-> w.depth]
  BY <1>1
<1>4. refiled = [op |-> "walk", file |-> file, at |-> w.at, rest |-> w.rest, depth |-> w.depth]
  BY <1>1
<1>5. /\ [w EXCEPT !.at = at, !.rest = rest] = [moved EXCEPT !.rest = rest]
      /\ [w EXCEPT !.file = file, !.at = at] = [refiled EXCEPT !.at = at]
  OBVIOUS
<1> HIDE DEF moved, refiled
<1>6. [moved EXCEPT !.rest = rest] = WalkFrame(w.file, at, rest, w.depth)
  BY <1>3 DEF WalkFrame
<1>7. [refiled EXCEPT !.at = at] = WalkFrame(file, at, w.rest, w.depth)
  BY <1>4 DEF WalkFrame
<1> QED
  BY <1>2, <1>5, <1>6, <1>7

(* A walk moved within reach of its file, its path shorter or not. *)
LEMMA MovedWalk ==
    ASSUME NEW fs, NEW w, GoodWalk(fs, w), NEW file, NEW at, HandleIn(fs, file, at), NEW rest
    PROVE  LET v == WalkFrame(file, at, rest, w.depth)
           IN  GoodWalk(fs, v) /\ v.op = "walk"
<1> DEFINE v == WalkFrame(file, at, rest, w.depth)
<1>1. v.op = "walk" /\ v.file = file /\ v.at = at /\ v.rest = rest /\ v.depth = w.depth
  BY DEF WalkFrame
<1>2. v = WalkFrame(v.file, v.at, v.rest, v.depth)
  BY <1>1
<1> HIDE DEF v
<1>3. GoodWalk(fs, v)
  BY <1>1, <1>2 DEF GoodWalk
<1> QED
  BY <1>1, <1>3 DEF v

(* A walk that replaces the innermost frame.                               *)
LEMMA WalkReplaces ==
    ASSUME NEW fs, NEW t, GoodStack(fs, t, Below(t)), Walks(Below(t), Len(Below(t))),
           NEW v, GoodWalk(fs, v), Replace(t, <<v>>), held' = held
    PROVE  Outcome(fs, t)
<1>1. GoodFrame(fs, t, v) /\ Stacked(Below(t), Len(Below(t)), v)
  BY DEF GoodFrame, GoodWalk, Stacked
<1> QED
  BY <1>1, ReplacingOne DEF Outcome

(* What a link at a walk leads to. *)
LEMMA LinksLead ==
    ASSUME NEW w, WellFormed(files[w.file].arena), NEW l \in LinksAt(w)
    PROVE  LeadsInto(l.target, DOMAIN files[w.file].arena)
<1> DEFINE arena == files[w.file].arena
<1>1. w.at \in DOMAIN arena /\ l \in ToSet(arena[w.at].links)
  BY DEF LinksAt, IsGroup
<1> HIDE DEF arena
<1>2. WellFormed(arena)
  BY DEF arena
<1>3. NodeOver(DOMAIN arena, arena[w.at])
  BY <1>1, <1>2, ArenaFacts
<1>4. LeadsInto(l.target, DOMAIN arena)
  BY <1>1, <1>3 DEF NodeOver
<1> QED
  BY <1>4 DEF arena

(* The walk that waits for a link. *)
LEMMA WaitingWalk ==
    ASSUME NEW t, NEW w, GoodWalk(files, w), GoodStack(files, t, Below(t)),
           Walks(Below(t), Len(Below(t)))
    PROVE  GoodStack(files, t, Waiting(t, w)) /\ Walks(Waiting(t, w), Len(Waiting(t, w)))
<1>1. [w EXCEPT !.rest = Tail(@)] = WalkFrame(w.file, w.at, Tail(w.rest), w.depth)
  BY WalkChanges DEF GoodWalk
<1>2. HandleIn(files, w.file, w.at)
  BY DEF GoodWalk
<1>3. GoodWalk(files, WalkFrame(w.file, w.at, Tail(w.rest), w.depth))
  BY <1>2, MovedWalk
<1>4. GoodWalk(files, [w EXCEPT !.rest = Tail(@)])
  BY <1>1, <1>3
<1> QED
  BY <1>4, WalkOnStack DEF Waiting

LEMMA Following ==
    ASSUME IInv, NEW t \in Thread, NEW w \in Doing(t, "walk"), NEW l \in LinksAt(w),
           Follow(t, w, l.target)
    PROVE  Outcome(files, t)
<1> DEFINE target == l.target
<1>1. /\ GoodWalk(files, w) /\ GoodStack(files, t, Below(t))
      /\ Walks(Below(t), Len(Below(t)))
      /\ WellFormed(files[w.file].arena)
  BY InnermostWalk
<1>2. LeadsInto(target, DOMAIN files[w.file].arena)
  BY <1>1, LinksLead
<1>3. GoodStack(files, t, Waiting(t, w)) /\ Walks(Waiting(t, w), Len(Waiting(t, w)))
  BY <1>1, WaitingWalk
<1>4. w.file \in DOMAIN files /\ w.depth \in 0..MaxLinkDepth
  BY <1>1 DEF GoodWalk, HandleIn
<1>5. CASE target.kind = "Hard" /\ Replace(t, <<[w EXCEPT !.at = target.obj, !.rest = Tail(@)]>>)
           /\ held' = held
  <2> DEFINE v == [w EXCEPT !.at = target.obj, !.rest = Tail(@)]
  <2>1. v = WalkFrame(w.file, target.obj, Tail(w.rest), w.depth)
    BY <1>1, WalkChanges DEF GoodWalk
  <2>2. HandleIn(files, w.file, target.obj)
    BY <1>2, <1>4, <1>5 DEF LeadsInto, HandleIn
  <2>3. GoodWalk(files, WalkFrame(w.file, target.obj, Tail(w.rest), w.depth))
    BY <1>1, <2>2, MovedWalk
  <2>4. GoodWalk(files, v)
    BY <2>1, <2>3
  <2>5. Replace(t, <<v>>)
    BY <1>5
  <2> HIDE DEF v
  <2> QED
    BY <1>1, <1>5, <2>4, <2>5, WalkReplaces
<1>6. CASE Enter(t, Waiting(t, w), w.file, target.path, w.depth)
  BY <1>1, <1>3, <1>4, <1>6, Entering
<1>7. CASE /\ target.kind = "External"
           /\ stack' = [stack EXCEPT ![t] =
                Append(Waiting(t, w),
                       OpenFrame("lookup", w.file, target.file, target.path, w.depth))]
           /\ held' = held
  <2> DEFINE o == OpenFrame("lookup", w.file, target.file, target.path, w.depth)
  <2>1. /\ o.op = "open" /\ o.pc = "lookup" /\ o.file = w.file /\ o.name = target.file
        /\ o.path = target.path /\ o.depth = w.depth
    BY DEF OpenFrame
  <2>2. o = OpenFrame(o.pc, o.file, o.name, o.path, o.depth)
    BY <2>1
  <2>3. w.file # None
    <3>1. GoodFiles(files)
      BY DEF IInv
    <3>2. DOMAIN files = 1..Len(files)
      BY <3>1, SequenceFacts DEF GoodFiles
    <3> QED
      BY <1>4, <3>2 DEF None
  <2>4. target.file \in FileName
    BY <1>2, <1>7 DEF LeadsInto
  <2>5. stack' = [stack EXCEPT ![t] = Append(Waiting(t, w), o)]
    BY <1>7
  <2> HIDE DEF o
  <2>6. GoodFrame(files, t, o)
    BY <1>4, <2>1, <2>2, <2>3, <2>4 DEF GoodFrame, GoodOpen
  <2>7. Stacked(Waiting(t, w), Len(Waiting(t, w)), o)
    BY <1>3, <2>1 DEF Stacked
  <2>8. GoodStack(files, t, Append(Waiting(t, w), o))
    BY <1>3, <2>6, <2>7, PushOnStack
  <2> QED
    BY <1>7, <2>5, <2>8 DEF Outcome
<1> QED
  BY <1>5, <1>6, <1>7 DEF Follow

LEMMA ComponentStep ==
    ASSUME IInv, NEW t \in Thread, Component(t)
    PROVE  IInv'
<1>1. PICK w \in Doing(t, "walk") :
         LET found == {l \in LinksAt(w) : l.name = <<Head(w.rest)>>}
         IN  \/ /\ Replace(t, <<[w EXCEPT !.rest = Tail(@)]>>) /\ held' = held
             \/ Fail(t)
             \/ \E l \in found : Follow(t, w, l.target)
  BY DEF Component
<1>2. /\ GoodWalk(files, w) /\ GoodStack(files, t, Below(t))
      /\ Walks(Below(t), Len(Below(t)))
  BY InnermostWalk
<1>3. ASSUME Replace(t, <<[w EXCEPT !.rest = Tail(@)]>>), held' = held
      PROVE  Outcome(files, t)
  <2> DEFINE v == [w EXCEPT !.rest = Tail(@)]
  <2>1. v = WalkFrame(w.file, w.at, Tail(w.rest), w.depth)
    BY <1>2, WalkChanges DEF GoodWalk
  <2>2. HandleIn(files, w.file, w.at)
    BY <1>2 DEF GoodWalk
  <2>3. GoodWalk(files, WalkFrame(w.file, w.at, Tail(w.rest), w.depth))
    BY <1>2, <2>2, MovedWalk
  <2>4. GoodWalk(files, v)
    BY <2>1, <2>3
  <2>5. Replace(t, <<v>>)
    BY <1>3
  <2> HIDE DEF v
  <2> QED
    BY <1>2, <1>3, <2>4, <2>5, WalkReplaces
<1>4. ASSUME Fail(t) PROVE Outcome(files, t)
  BY <1>4, Failing
<1>5. ASSUME NEW l \in LinksAt(w), Follow(t, w, l.target)
      PROVE  Outcome(files, t)
  BY <1>5, Following
<1>6. Outcome(files, t)
  BY <1>1, <1>3, <1>4, <1>5
<1>7. UNCHANGED <<disk, located, files, quiet, changes, calls>>
  BY DEF Component
<1> QED
  BY <1>6, <1>7, OutcomeKeeps

LEMMA ArriveStep ==
    ASSUME IInv, NEW t \in Thread, Arrive(t)
    PROVE  IInv'
<1>1. PICK w \in Doing(t, "walk") :
         \/ /\ Len(stack[t]) = 1
            /\ Return(t, IF files[w.file].arena[w.at].kind = "Unsupported" THEN Nowhere
                         ELSE [file |-> w.file, at |-> w.at])
         \/ /\ Len(stack[t]) > 1
            /\ stack' = [stack EXCEPT ![t] =
                  Append(Front(Below(t)), ArrivedIn(w, Last(Below(t))))]
            /\ held' = held
  BY DEF Arrive
<1>2. /\ GoodWalk(files, w) /\ GoodStack(files, t, Below(t))
      /\ Walks(Below(t), Len(Below(t)))
  BY InnermostWalk
<1>3. HandleIn(files, w.file, w.at)
  BY <1>2 DEF GoodWalk
<1>4. ASSUME Return(t, IF files[w.file].arena[w.at].kind = "Unsupported" THEN Nowhere
                       ELSE [file |-> w.file, at |-> w.at])
      PROVE  Outcome(files, t)
  <2>1. CASE Return(t, Nowhere)
    BY <2>1, Returning
  <2>2. CASE Return(t, [file |-> w.file, at |-> w.at])
    <3> DEFINE h == [file |-> w.file, at |-> w.at]
    <3>1. HandleIn(files, h.file, h.at)
      BY <1>3
    <3>2. Return(t, h)
      BY <2>2
    <3> HIDE DEF h
    <3> QED
      BY <3>1, <3>2, Returning
  <2> QED
    BY <1>4, <2>1, <2>2
<1>5. ASSUME Len(stack[t]) > 1, held' = held,
             stack' = [stack EXCEPT ![t] = Append(Front(Below(t)), ArrivedIn(w, Last(Below(t))))]
      PROVE  Outcome(files, t)
  <2> DEFINE b == Below(t)
             waiting == Last(b)
             v == ArrivedIn(w, waiting)
  <2>1. Len(b) = Len(stack[t]) - 1 /\ Len(stack[t]) \in Nat
    BY Innermost
  <2>2. b # <<>>
    <3>1. Len(<<>>) = 0
      OBVIOUS
    <3> QED
      BY <1>5, <2>1, <3>1
  <2>3. /\ GoodStack(files, t, Front(b))
        /\ Len(Front(b)) = Len(b) - 1
        /\ \A i \in 1..Len(b) - 1 : Front(b)[i] = b[i]
        /\ waiting = b[Len(b)]
        /\ GoodFrame(files, t, b[Len(b)])
        /\ Len(b) \in Nat \ {0}
    BY <1>2, <2>2, FrontOfStack
  <2>4. waiting.op = "walk" /\ Walks(Front(b), Len(Front(b)))
    BY <1>2, <2>3 DEF Walks
  <2>5. GoodWalk(files, waiting)
    BY <2>3, <2>4 DEF GoodFrame, GoodOpen, GoodParse
  <2>6. v = WalkFrame(w.file, w.at, waiting.rest, waiting.depth)
    BY <2>5, WalkChanges DEF GoodWalk, ArrivedIn
  <2>7. GoodWalk(files, WalkFrame(w.file, w.at, waiting.rest, waiting.depth))
    BY <1>3, <2>5, MovedWalk
  <2>8. GoodWalk(files, v)
    BY <2>6, <2>7
  <2>9. stack' = [stack EXCEPT ![t] = Append(Front(b), v)]
    BY <1>5
  <2> HIDE DEF b, waiting, v
  <2>10. GoodStack(files, t, Append(Front(b), v))
    BY <2>3, <2>4, <2>8, WalkOnStack
  <2> QED
    BY <1>5, <2>9, <2>10 DEF Outcome
<1>6. Outcome(files, t)
  BY <1>1, <1>4, <1>5
<1>7. UNCHANGED <<disk, located, files, quiet, changes, calls>>
  BY DEF Arrive
<1> QED
  BY <1>6, <1>7, OutcomeKeeps

(* The cache of a file leads to open files. *)
LEMMA CachedFile ==
    ASSUME IInv, NEW f \in DOMAIN files, NEW n \in DOMAIN files[f].externals
    PROVE  /\ files[f].externals[n] \in DOMAIN files
           /\ WellFormed(files[files[f].externals[n]].arena)
<1>1. \A i \in DOMAIN files : GoodFile(files, i)
  BY DEF IInv, GoodFiles
<1>2. files[f].externals[n] \in DOMAIN files
  BY <1>1 DEF GoodFile
<1> QED
  BY <1>1, <1>2 DEF GoodFile

(* The state of an opening. *)
LEMMA OpenChanges ==
    ASSUME NEW o, o = OpenFrame(o.pc, o.file, o.name, o.path, o.depth), NEW pc
    PROVE  /\ [o EXCEPT !.pc = pc] = OpenFrame(pc, o.file, o.name, o.path, o.depth)
           /\ [o EXCEPT !.pc = pc].op = "open" /\ [o EXCEPT !.pc = pc].pc = pc
           /\ [o EXCEPT !.pc = pc].file = o.file /\ [o EXCEPT !.pc = pc].name = o.name
           /\ [o EXCEPT !.pc = pc].path = o.path /\ [o EXCEPT !.pc = pc].depth = o.depth
<1> DEFINE n == [o EXCEPT !.pc = pc]
<1>1. o = [op |-> "open", pc |-> o.pc, file |-> o.file, name |-> o.name,
           path |-> o.path, depth |-> o.depth]
  BY DEF OpenFrame
<1>2. n = [op |-> "open", pc |-> pc, file |-> o.file, name |-> o.name,
           path |-> o.path, depth |-> o.depth]
  BY <1>1
<1>3. /\ n.op = "open" /\ n.pc = pc /\ n.file = o.file /\ n.name = o.name
      /\ n.path = o.path /\ n.depth = o.depth
  BY <1>2
<1> HIDE DEF n
<1>4. n = OpenFrame(pc, o.file, o.name, o.path, o.depth)
  BY <1>2 DEF OpenFrame
<1> QED
  BY <1>3, <1>4 DEF n

(* The cache has no file of the name, so none that the thread has put      *)
(* there: the opening goes on.                                             *)
LEMMA OpensOn ==
    ASSUME IInv, NEW t \in Thread, NEW o, GoodOpen(files, t, o), NEW pc, pc # "lookup",
           o.pc = "lookup" => o.name \notin DOMAIN files[o.file].externals
    PROVE  GoodOpen(files, t, [o EXCEPT !.pc = pc]) /\ [o EXCEPT !.pc = pc].op = "open"
<1> DEFINE n == [o EXCEPT !.pc = pc]
<1>1. /\ n = OpenFrame(pc, o.file, o.name, o.path, o.depth)
      /\ n.op = "open" /\ n.pc = pc /\ n.file = o.file /\ n.name = o.name
      /\ n.path = o.path /\ n.depth = o.depth
  BY OpenChanges DEF GoodOpen
<1>2. \A i \in DOMAIN files : GoodFile(files, i)
  BY DEF IInv, GoodFiles
<1>3. ASSUME NEW i \in DOMAIN files,
             files[i].openedBy = [thread |-> t, parent |-> o.file], files[i].name = o.name
      PROVE  FALSE
  <2>1. CASE o.pc # "lookup"
    BY <1>3, <2>1 DEF GoodOpen
  <2>2. CASE o.pc = "lookup"
    <3>1. o.file # None
      BY <2>2 DEF GoodOpen
    <3>2. files[i].openedBy.parent = o.file
      BY <1>3
    <3>3. files[i].name \in DOMAIN files[o.file].externals
      BY <1>2, <3>1, <3>2 DEF GoodFile
    <3> QED
      BY <1>3, <2>2, <3>3
  <2> QED
    BY <2>1, <2>2
<1> HIDE DEF n
<1>4. GoodOpen(files, t, n)
  BY <1>1, <1>3 DEF GoodOpen
<1> QED
  BY <1>1, <1>4 DEF n

LEMMA LookUpStep ==
    ASSUME IInv, NEW t \in Thread, LookUp(t)
    PROVE  IInv'
<1>1. PICK o \in Doing(t, "open") :
         /\ o.pc = "lookup"
         /\ \/ /\ o.name \in DOMAIN files[o.file].externals
               /\ Enter(t, Below(t), files[o.file].externals[o.name], o.path, o.depth)
            \/ /\ o.name \notin DOMAIN files[o.file].externals
               /\ Replace(t, <<[o EXCEPT !.pc = "read"]>>) /\ held' = held
  BY DEF LookUp
<1>2. /\ GoodOpen(files, t, o) /\ GoodStack(files, t, Below(t))
      /\ Walks(Below(t), Len(Below(t)))
  BY InnermostOpen
<1>3. o.file \in DOMAIN files /\ o.depth \in 0..MaxLinkDepth
  BY <1>1, <1>2 DEF GoodOpen
<1>4. ASSUME o.name \in DOMAIN files[o.file].externals,
             Enter(t, Below(t), files[o.file].externals[o.name], o.path, o.depth)
      PROVE  Outcome(files, t)
  BY <1>2, <1>3, <1>4, CachedFile, Entering
<1>5. ASSUME o.name \notin DOMAIN files[o.file].externals,
             Replace(t, <<[o EXCEPT !.pc = "read"]>>), held' = held
      PROVE  Outcome(files, t)
  <2> DEFINE n == [o EXCEPT !.pc = "read"]
  <2>1. GoodOpen(files, t, n) /\ n.op = "open"
    BY <1>2, <1>5, OpensOn
  <2>2. Replace(t, <<n>>)
    BY <1>5
  <2> HIDE DEF n
  <2>3. GoodFrame(files, t, n) /\ Stacked(Below(t), Len(Below(t)), n)
    BY <1>2, <2>1 DEF GoodFrame, Stacked
  <2> QED
    BY <1>2, <1>5, <2>2, <2>3, ReplacingOne DEF Outcome
<1>6. Outcome(files, t)
  BY <1>1, <1>4, <1>5
<1>7. UNCHANGED <<disk, located, files, quiet, changes, calls>>
  BY DEF LookUp
<1> QED
  BY <1>6, <1>7, OutcomeKeeps

LEMMA ParseBegins ==
    ASSUME IInv, NEW name \in FileName, disk[name] # Absent, NEW inDir,
           NEW depth \in 0..MaxParseDepth
    PROVE  GoodParse(ParseFrame(name, inDir, depth)) /\ ParseFrame(name, inDir, depth).op = "parse"
<1> DEFINE p == ParseFrame(name, inDir, depth)
           arena == disk[name]
<1>1. /\ p.op = "parse" /\ p.name = name /\ p.arena = Emptied(arena)
      /\ p.pending = PendingVds(arena) /\ p.sources = <<>> /\ p.inDir = inDir
      /\ p.depth = depth
      /\ p = [op |-> "parse", name |-> name, arena |-> Emptied(arena),
              pending |-> PendingVds(arena), sources |-> <<>>, inDir |-> inDir, depth |-> depth]
  BY DEF ParseFrame
<1>2. WellFormed(arena)
  BY DEF IInv, Content
<1>3. WellFormed(Emptied(arena)) /\ DOMAIN Emptied(arena) = DOMAIN arena
  BY <1>2, EmptiedIsWellFormed
<1>4. PendingVds(arena) \subseteq DOMAIN arena
  BY DEF PendingVds, Reached
<1> HIDE DEF p, arena
<1>5. GoodParse(p)
  BY <1>1, <1>3, <1>4 DEF GoodParse
<1> QED
  BY <1>1, <1>5 DEF p

LEMMA ParseOnStack ==
    ASSUME NEW fs, NEW t, NEW s, GoodStack(fs, t, s), Len(s) > 0,
           Parsing(s[Len(s)]), NEW p, GoodParse(p)
    PROVE  GoodStack(fs, t, Append(s, p))
<1>1. GoodFrame(fs, t, p) /\ Stacked(s, Len(s), p)
  BY DEF GoodFrame, GoodParse, Stacked
<1> QED
  BY <1>1, PushOnStack

LEMMA ReadFileStep ==
    ASSUME IInv, NEW t \in Thread, ReadFile(t)
    PROVE  IInv'
<1>1. PICK o \in Doing(t, "open") :
         /\ o.pc = "read"
         /\ \/ Fail(t)
            \/ /\ disk[o.name] # Absent
               /\ Replace(t, <<[o EXCEPT !.pc = "parsing"], ParseFrame(o.name, o.file = None, 0)>>)
               /\ held' = held
  BY DEF ReadFile
<1>2. /\ GoodOpen(files, t, o) /\ GoodStack(files, t, Below(t))
      /\ Walks(Below(t), Len(Below(t)))
  BY InnermostOpen
<1>3. ASSUME disk[o.name] # Absent, held' = held,
             Replace(t, <<[o EXCEPT !.pc = "parsing"], ParseFrame(o.name, o.file = None, 0)>>)
      PROVE  Outcome(files, t)
  <2> DEFINE b == Below(t)
             n == [o EXCEPT !.pc = "parsing"]
             p == ParseFrame(o.name, o.file = None, 0)
             s == Append(Append(b, n), p)
  <2>1. GoodOpen(files, t, n) /\ n.op = "open" /\ n.pc = "parsing"
    <3>1. GoodOpen(files, t, n) /\ n.op = "open"
      BY <1>1, <1>2, OpensOn
    <3>2. o = OpenFrame(o.pc, o.file, o.name, o.path, o.depth)
      BY <1>2 DEF GoodOpen
    <3>3. n.pc = "parsing"
      BY <3>2, OpenChanges
    <3> QED
      BY <3>1, <3>3
  <2>2. 0 \in 0..MaxParseDepth /\ o.name \in FileName
    BY <1>2, FileAssumption DEF GoodOpen
  <2>3. GoodParse(p)
    BY <1>3, <2>2, ParseBegins
  <2>4. b \in Seq(ToSet(b)) /\ stack' = [stack EXCEPT ![t] = b \o <<n, p>>]
    BY <1>2, <1>3 DEF GoodStack, Replace
  <2> HIDE DEF b, n, p
  <2>5. b \o <<n, p>> = s
    BY <2>4, OneAfterAnother
  <2>6. GoodFrame(files, t, n) /\ Stacked(b, Len(b), n)
    BY <1>2, <2>1 DEF GoodFrame, Stacked, b
  <2>7. GoodStack(files, t, Append(b, n))
    BY <1>2, <2>6, PushOnStack DEF b
  <2>8. /\ Len(Append(b, n)) = Len(b) + 1 /\ Len(b) \in Nat
        /\ Append(b, n)[Len(b) + 1] = n
    BY <2>4, AppendFacts, SequenceFacts
  <2>9. Len(Append(b, n)) > 0 /\ Parsing(Append(b, n)[Len(Append(b, n))])
    BY <2>1, <2>8 DEF Parsing
  <2>10. GoodStack(files, t, s)
    BY <2>3, <2>7, <2>9, ParseOnStack
  <2> QED
    BY <1>3, <2>4, <2>5, <2>10 DEF Outcome
<1>4. ASSUME Fail(t) PROVE Outcome(files, t)
  BY <1>4, Failing
<1>5. Outcome(files, t)
  BY <1>1, <1>3, <1>4
<1>6. UNCHANGED <<disk, located, files, quiet, changes, calls>>
  BY DEF ReadFile
<1> QED
  BY <1>5, <1>6, OutcomeKeeps

(* What a change of fields leaves of a parse. *)
LEMMA ParseFills ==
    ASSUME NEW p, GoodParse(p), NEW first \in DOMAIN p.arena, NEW v
    PROVE  LET q == [p EXCEPT !.arena[first].value = v, !.pending = @ \ {first}]
           IN  GoodParse(q) /\ q.op = "parse"
<1> DEFINE a == [p.arena EXCEPT ![first].value = v]
           p1 == [p EXCEPT !.arena[first].value = v]
           q == [p EXCEPT !.arena[first].value = v, !.pending = @ \ {first}]
<1>1. p = [op |-> "parse", name |-> p.name, arena |-> p.arena, pending |-> p.pending,
           sources |-> p.sources, inDir |-> p.inDir, depth |-> p.depth]
  BY DEF GoodParse
<1>2. p1 = [p EXCEPT !.arena = a]
  OBVIOUS
<1>3. WellFormed(a) /\ DOMAIN a = DOMAIN p.arena
  BY FilledIsWellFormed DEF GoodParse
<1>4. q = [p1 EXCEPT !.pending = p.pending \ {first}]
  OBVIOUS
<1> HIDE DEF a, p1, q
<1>5. p1 = [op |-> "parse", name |-> p.name, arena |-> a, pending |-> p.pending,
            sources |-> p.sources, inDir |-> p.inDir, depth |-> p.depth]
  BY <1>1, <1>2
<1>6. q = [op |-> "parse", name |-> p.name, arena |-> a, pending |-> p.pending \ {first},
           sources |-> p.sources, inDir |-> p.inDir, depth |-> p.depth]
  BY <1>4, <1>5
<1>7. /\ q.op = "parse" /\ q.name = p.name /\ q.arena = a /\ q.pending = p.pending \ {first}
      /\ q.sources = p.sources /\ q.inDir = p.inDir /\ q.depth = p.depth
  BY <1>6
<1>8. GoodParse(q)
  BY <1>3, <1>6, <1>7 DEF GoodParse
<1> QED
  BY <1>7, <1>8 DEF q

LEMMA ParseGetsSource ==
    ASSUME NEW p, GoodParse(p), NEW v
    PROVE  GoodParse([p EXCEPT !.sources = v])
<1> DEFINE q == [p EXCEPT !.sources = v]
<1>1. p = [op |-> "parse", name |-> p.name, arena |-> p.arena, pending |-> p.pending,
           sources |-> p.sources, inDir |-> p.inDir, depth |-> p.depth]
  BY DEF GoodParse
<1>2. q = [op |-> "parse", name |-> p.name, arena |-> p.arena, pending |-> p.pending,
           sources |-> v, inDir |-> p.inDir, depth |-> p.depth]
  BY <1>1
<1>3. /\ q.op = "parse" /\ q.name = p.name /\ q.arena = p.arena /\ q.pending = p.pending
      /\ q.sources = v /\ q.inDir = p.inDir /\ q.depth = p.depth
  BY <1>2
<1> HIDE DEF q
<1>4. GoodParse(q)
  BY <1>2, <1>3 DEF GoodParse
<1> QED
  BY <1>4 DEF q

LEMMA FirstPending ==
    ASSUME NEW p, GoodParse(p), p.pending # {}
    PROVE  Min(p.pending) \in p.pending
<1>1. p.pending \in SUBSET Nat
  BY ArenaFacts DEF GoodParse
<1>2. \E m \in p.pending : \A k \in p.pending : m <= k
  BY <1>1, LeastMember
<1> QED
  BY <1>2 DEF Min

LEMMA Filling ==
    ASSUME IInv, NEW t \in Thread, NEW p \in Doing(t, "parse"), NEW first \in p.pending,
           NEW arena, FillFrom(t, p, first, arena)
    PROVE  Outcome(files, t)
<1>1. GoodParse(p) /\ GoodStack(files, t, Below(t))
  BY InnermostParse
<1>2. Stacked(Below(t), Len(Below(t)), p) /\ p.op = "parse"
  BY Innermost
<1>3. PICK i : \/ Fail(t)
               \/ /\ Replace(t, <<[p EXCEPT !.arena[first].value = arena[i].value,
                                            !.pending = @ \ {first}]>>)
                  /\ held' = held
  BY DEF FillFrom
<1>4. first \in DOMAIN p.arena
  BY <1>1 DEF GoodParse
<1>5. CASE Fail(t)
  BY <1>5, Failing
<1>6. CASE /\ Replace(t, <<[p EXCEPT !.arena[first].value = arena[i].value,
                                     !.pending = @ \ {first}]>>)
           /\ held' = held
  <2> DEFINE q == [p EXCEPT !.arena[first].value = arena[i].value, !.pending = @ \ {first}]
  <2>1. GoodParse(q) /\ q.op = "parse"
    BY <1>1, <1>4, ParseFills
  <2>2. Replace(t, <<q>>)
    BY <1>6
  <2> HIDE DEF q
  <2>3. GoodFrame(files, t, q) /\ Stacked(Below(t), Len(Below(t)), q)
    BY <1>2, <2>1 DEF GoodFrame, Stacked
  <2> QED
    BY <1>1, <1>6, <2>2, <2>3, ReplacingOne DEF Outcome
<1> QED
  BY <1>3, <1>5, <1>6

LEMMA MaterializeStep ==
    ASSUME IInv, NEW t \in Thread, Materialize(t)
    PROVE  IInv'
<1>1. PICK p \in Doing(t, "parse") :
         /\ p.pending # {}
         /\ \E first \in {Min(p.pending)} : \E name \in {p.arena[first].source.file} :
              \/ FillFrom(t, p, first, p.arena)
              \/ FillFrom(t, p, first, p.sources[name])
              \/ /\ name \notin {Here} \cup DOMAIN p.sources
                 /\ IF \/ ~(p.inDir \/ located) \/ disk[name] = Absent
                       \/ p.depth + 1 > MaxParseDepth
                    THEN Fail(t)
                    ELSE /\ stack' = [stack EXCEPT ![t] = Append(@, SourceFrame(p, name))]
                         /\ held' = held
  BY DEF Materialize
<1> DEFINE first == Min(p.pending)
           name == p.arena[first].source.file
<1>2. GoodParse(p)
  BY InnermostParse
<1>3. first \in p.pending
  BY <1>1, <1>2, FirstPending
<1>4. name \in FileName \cup {Here}
  BY <1>2, <1>3, ArenaFacts DEF GoodParse
<1>5. \/ FillFrom(t, p, first, p.arena)
      \/ FillFrom(t, p, first, p.sources[name])
      \/ Fail(t)
      \/ /\ name # Here /\ disk[name] # Absent /\ ~(p.depth + 1 > MaxParseDepth)
         /\ stack' = [stack EXCEPT ![t] = Append(@, SourceFrame(p, name))]
         /\ held' = held
  BY <1>1
<1> HIDE DEF first, name
<1>6. ASSUME NEW arena, FillFrom(t, p, first, arena) PROVE Outcome(files, t)
  BY <1>3, <1>6, Filling
<1>7. ASSUME Fail(t) PROVE Outcome(files, t)
  BY <1>7, Failing
<1>8. ASSUME name # Here, disk[name] # Absent, ~(p.depth + 1 > MaxParseDepth), held' = held,
             stack' = [stack EXCEPT ![t] = Append(@, SourceFrame(p, name))]
      PROVE  Outcome(files, t)
  <2> DEFINE q == SourceFrame(p, name)
  <2>1. p.depth + 1 \in 0..MaxParseDepth
    BY <1>2, <1>8, FileAssumption DEF GoodParse
  <2>2. GoodParse(q)
    BY <1>4, <1>8, <2>1, ParseBegins DEF SourceFrame
  <2>3. GoodStack(files, t, stack[t]) /\ Parsing(stack[t][Len(stack[t])]) /\ Len(stack[t]) > 0
    <3>1. stack[t][Len(stack[t])].op = "parse" /\ Len(stack[t]) > 0
      BY Innermost
    <3> QED
      BY <3>1 DEF IInv, Parsing
  <2>4. stack' = [stack EXCEPT ![t] = Append(stack[t], q)]
    BY <1>8
  <2> HIDE DEF q
  <2>5. GoodStack(files, t, Append(stack[t], q))
    BY <2>2, <2>3, ParseOnStack
  <2> QED
    BY <1>8, <2>4, <2>5 DEF Outcome
<1>9. Outcome(files, t)
  BY <1>5, <1>6, <1>7, <1>8
<1>10. UNCHANGED <<disk, located, files, quiet, changes, calls>>
  BY DEF Materialize
<1> QED
  BY <1>9, <1>10, OutcomeKeeps

LEMMA SourceParsedStep ==
    ASSUME IInv, NEW t \in Thread, SourceParsed(t)
    PROVE  IInv'
<1>1. PICK p \in Doing(t, "parse") :
         /\ Last(Below(t)).op = "parse"
         /\ stack' = [stack EXCEPT ![t] =
               Append(Front(Below(t)),
                      [Last(Below(t)) EXCEPT !.sources = With(@, p.name, p.arena)])]
  BY DEF SourceParsed
<1> DEFINE outer == Last(Below(t))
           below == Front(Below(t))
           q == [outer EXCEPT !.sources = With(@, p.name, p.arena)]
<1>2. /\ GoodStack(files, t, below) /\ GoodFrame(files, t, outer)
      /\ Stacked(below, Len(below), outer)
  BY InnermostParse
<1>3. outer.op = "parse"
  BY <1>1
<1>4. stack' = [stack EXCEPT ![t] = Append(below, q)]
  BY <1>1
<1>5. GoodParse(outer)
  BY <1>2, <1>3 DEF GoodFrame, GoodWalk, GoodOpen
<1>6. GoodParse(q)
  BY <1>5, ParseGetsSource
<1> HIDE DEF outer, below, q
<1>7. Len(below) > 0 /\ Parsing(below[Len(below)])
  BY <1>2, <1>3 DEF Stacked
<1>8. GoodStack(files, t, Append(below, q))
  BY <1>2, <1>6, <1>7, ParseOnStack
<1>9. Outcome(files, t)
  BY <1>4, <1>8 DEF Outcome, SourceParsed
<1>10. UNCHANGED <<disk, located, files, quiet, changes, calls>>
  BY DEF SourceParsed
<1> QED
  BY <1>9, <1>10, OutcomeKeeps

-----------------------------------------------------------------------------
(* A file is opened *)

(* An open file with another cache. *)
Caching(f, cache) == [f EXCEPT !.externals = cache]

LEMMA CachingFacts ==
    ASSUME NEW fs, NEW i \in DOMAIN fs, GoodFile(fs, i), NEW cache
    PROVE  LET c == Caching(fs[i], cache)
           IN  /\ c.name = fs[i].name /\ c.arena = fs[i].arena
               /\ c.readOnly = fs[i].readOnly /\ c.openedBy = fs[i].openedBy
               /\ c.externals = cache
               /\ c = [name |-> c.name, arena |-> c.arena, readOnly |-> c.readOnly,
                       externals |-> c.externals,
                       openedBy |-> [thread |-> c.openedBy.thread,
                                     parent |-> c.openedBy.parent]]
<1> DEFINE f == fs[i]
           c == Caching(f, cache)
<1>1. f = [name |-> f.name, arena |-> f.arena, readOnly |-> f.readOnly,
           externals |-> f.externals, openedBy |-> f.openedBy]
      /\ f.openedBy = [thread |-> f.openedBy.thread, parent |-> f.openedBy.parent]
  BY DEF GoodFile
<1>2. c = [name |-> f.name, arena |-> f.arena, readOnly |-> f.readOnly,
           externals |-> cache, openedBy |-> f.openedBy]
  BY <1>1 DEF Caching
<1>3. /\ c.name = f.name /\ c.arena = f.arena /\ c.readOnly = f.readOnly
      /\ c.externals = cache /\ c.openedBy = f.openedBy
  BY <1>2
<1> HIDE DEF f, c
<1>4. c = [name |-> c.name, arena |-> c.arena, readOnly |-> c.readOnly,
           externals |-> c.externals,
           openedBy |-> [thread |-> c.openedBy.thread, parent |-> c.openedBy.parent]]
  BY <1>1, <1>2, <1>3
<1> QED
  BY <1>3, <1>4 DEF f, c

(* The open files after one more was opened, for a link in the file parent *)
(* if that is one.                                                         *)
OneMore(fs, fs2, inner, parent) ==
    /\ fs2 \in Seq(ToSet(fs2)) /\ Len(fs2) = Len(fs) + 1
    /\ fs2[Len(fs) + 1] = inner
    /\ \A i \in DOMAIN fs :
         fs2[i] = IF i = parent THEN Caching(fs[i], With(fs[i].externals, inner.name, Len(fs) + 1))
                  ELSE fs[i]

LEMMA WithFileIsOneMore ==
    ASSUME GoodFiles(files), NEW inner, NEW parent \in {None} \cup DOMAIN files
    PROVE  OneMore(files, WithFile(inner, parent), inner, parent)
<1>1. files \in Seq(ToSet(files)) /\ DOMAIN files = 1..Len(files) /\ Len(files) \in Nat
  BY SequenceFacts DEF GoodFiles
<1>2. CASE parent = None
  <2>1. WithFile(inner, parent) = Append(files, inner)
    BY <1>2 DEF WithFile
  <2>2. /\ Append(files, inner) \in Seq(ToSet(Append(files, inner)))
        /\ Len(Append(files, inner)) = Len(files) + 1
        /\ Append(files, inner)[Len(files) + 1] = inner
        /\ \A i \in 1..Len(files) : Append(files, inner)[i] = files[i]
    BY <1>1, AppendFacts
  <2>3. \A i \in DOMAIN files : i # parent
    BY <1>1, <1>2 DEF None
  <2> QED
    BY <1>1, <2>1, <2>2, <2>3 DEF OneMore
<1>3. CASE parent # None
  <2> DEFINE e == Caching(files[parent], With(files[parent].externals, inner.name, Len(files) + 1))
             g == [files EXCEPT ![parent] = e]
  <2>1. parent \in DOMAIN files
    BY <1>3
  <2>2. WithFile(inner, parent) = Append(g, inner)
    BY <1>3 DEF WithFile, None, Caching
  <2> HIDE DEF e
  <2>3. /\ g \in Seq(ToSet(g)) /\ Len(g) = Len(files) /\ g[parent] = e
        /\ \A k \in DOMAIN files : k # parent => g[k] = files[k]
    BY <1>1, <2>1, ExceptFacts
  <2> HIDE DEF g
  <2>4. /\ Append(g, inner) \in Seq(ToSet(Append(g, inner)))
        /\ Len(Append(g, inner)) = Len(g) + 1
        /\ Append(g, inner)[Len(g) + 1] = inner
        /\ \A i \in 1..Len(g) : Append(g, inner)[i] = g[i]
    BY <2>3, AppendFacts
  <2>5. \A i \in DOMAIN files :
          Append(g, inner)[i] =
            IF i = parent
            THEN Caching(files[i], With(files[i].externals, inner.name, Len(files) + 1))
            ELSE files[i]
    BY <1>1, <2>3, <2>4 DEF e
  <2> QED
    BY <2>2, <2>3, <2>4, <2>5 DEF OneMore
<1> QED
  BY <1>2, <1>3

(* What one more file leaves of the others. *)
Survives(fs, fs2, inner, parent, i) ==
    /\ fs2[i].name = fs[i].name /\ fs2[i].arena = fs[i].arena
    /\ fs2[i].readOnly = fs[i].readOnly /\ fs2[i].openedBy = fs[i].openedBy
    /\ fs2[i] = [name |-> fs2[i].name, arena |-> fs2[i].arena,
                 readOnly |-> fs2[i].readOnly, externals |-> fs2[i].externals,
                 openedBy |-> [thread |-> fs2[i].openedBy.thread,
                               parent |-> fs2[i].openedBy.parent]]
    /\ DOMAIN fs[i].externals \subseteq DOMAIN fs2[i].externals
    /\ i = parent => inner.name \in DOMAIN fs2[i].externals
    /\ \A n \in DOMAIN fs2[i].externals :
         \/ n \in DOMAIN fs[i].externals /\ fs2[i].externals[n] = fs[i].externals[n]
         \/ n = inner.name /\ fs2[i].externals[n] = Len(fs) + 1

LEMMA OthersKept ==
    ASSUME NEW fs, GoodFiles(fs), NEW fs2, NEW inner, NEW parent, OneMore(fs, fs2, inner, parent)
    PROVE  /\ DOMAIN fs = 1..Len(fs) /\ Len(fs) \in Nat
           /\ DOMAIN fs2 = DOMAIN fs \cup {Len(fs) + 1} /\ Len(fs) + 1 \notin DOMAIN fs
           /\ \A i \in DOMAIN fs : Survives(fs, fs2, inner, parent, i)
<1>1. DOMAIN fs = 1..Len(fs) /\ Len(fs) \in Nat
  BY SequenceFacts DEF GoodFiles
<1>2. DOMAIN fs2 = 1..Len(fs) + 1
  BY SequenceFacts DEF OneMore
<1>3. DOMAIN fs2 = DOMAIN fs \cup {Len(fs) + 1} /\ Len(fs) + 1 \notin DOMAIN fs
  BY <1>1, <1>2
<1>4. ASSUME NEW i \in DOMAIN fs PROVE Survives(fs, fs2, inner, parent, i)
  <2>1. GoodFile(fs, i)
    BY DEF GoodFiles
  <2>2. CASE i # parent
    <3>1. fs2[i] = fs[i]
      BY <2>2 DEF OneMore
    <3> QED
      BY <2>1, <2>2, <3>1 DEF GoodFile, Survives
  <2>3. CASE i = parent
    <3> DEFINE e == fs[i].externals
               key == inner.name
               v == Len(fs) + 1
               cache == With(e, key, v)
               c == Caching(fs[i], cache)
    <3>1. fs2[i] = c
      BY <2>3 DEF OneMore
    <3>2. /\ DOMAIN cache = {inner.name} \cup DOMAIN fs[i].externals
          /\ cache[inner.name] = Len(fs) + 1
          /\ \A m \in DOMAIN fs[i].externals : m # inner.name => cache[m] = fs[i].externals[m]
      <4>1. /\ DOMAIN cache = {key} \cup DOMAIN e /\ cache[key] = v
            /\ \A m \in DOMAIN e : m # key => cache[m] = e[m]
        <5> HIDE DEF e, key, v
        <5> QED
          BY DEF With
      <4> HIDE DEF cache
      <4> QED
        BY <4>1
    <3>3. /\ c.name = fs[i].name /\ c.arena = fs[i].arena
          /\ c.readOnly = fs[i].readOnly /\ c.openedBy = fs[i].openedBy
          /\ c.externals = cache
          /\ c = [name |-> c.name, arena |-> c.arena, readOnly |-> c.readOnly,
                  externals |-> c.externals,
                  openedBy |-> [thread |-> c.openedBy.thread, parent |-> c.openedBy.parent]]
      BY <2>1, CachingFacts
    <3> HIDE DEF cache, c
    <3>4. \A n \in DOMAIN cache :
             \/ n \in DOMAIN fs[i].externals /\ cache[n] = fs[i].externals[n]
             \/ n = inner.name /\ cache[n] = Len(fs) + 1
      BY <3>2
    <3> QED
      BY <2>3, <3>1, <3>2, <3>3, <3>4 DEF Survives
  <2> QED
    BY <2>2, <2>3
<1> QED
  BY <1>1, <1>3, <1>4

LEMMA NewFileIsGood ==
    ASSUME NEW fs, GoodFiles(fs), NEW fs2, NEW inner, NEW parent \in {None} \cup DOMAIN fs,
           OneMore(fs, fs2, inner, parent),
           inner = [name |-> inner.name, arena |-> inner.arena, readOnly |-> inner.readOnly,
                    externals |-> inner.externals,
                    openedBy |-> [thread |-> inner.openedBy.thread,
                                  parent |-> inner.openedBy.parent]],
           WellFormed(inner.arena), inner.externals = <<>>, inner.openedBy.parent = parent,
           parent # None => inner.readOnly
    PROVE  GoodFiles(fs2)
<1> DEFINE new == Len(fs) + 1
<1>1. /\ DOMAIN fs2 = DOMAIN fs \cup {new} /\ new \notin DOMAIN fs
      /\ \A i \in DOMAIN fs :
           /\ fs2[i].name = fs[i].name /\ fs2[i].arena = fs[i].arena
           /\ fs2[i].readOnly = fs[i].readOnly /\ fs2[i].openedBy = fs[i].openedBy
           /\ fs2[i] = [name |-> fs2[i].name, arena |-> fs2[i].arena,
                        readOnly |-> fs2[i].readOnly, externals |-> fs2[i].externals,
                        openedBy |-> [thread |-> fs2[i].openedBy.thread,
                                      parent |-> fs2[i].openedBy.parent]]
           /\ DOMAIN fs[i].externals \subseteq DOMAIN fs2[i].externals
           /\ i = parent => inner.name \in DOMAIN fs2[i].externals
           /\ \A n \in DOMAIN fs2[i].externals :
                \/ n \in DOMAIN fs[i].externals /\ fs2[i].externals[n] = fs[i].externals[n]
                \/ n = inner.name /\ fs2[i].externals[n] = new
  <2>1. /\ DOMAIN fs2 = DOMAIN fs \cup {new} /\ new \notin DOMAIN fs
        /\ \A i \in DOMAIN fs : Survives(fs, fs2, inner, parent, i)
    BY OthersKept
  <2> HIDE DEF new
  <2> QED
    BY <2>1 DEF Survives, new
<1>2. fs2[new] = inner /\ fs2 \in Seq(ToSet(fs2))
  BY DEF OneMore
<1>3. \A i \in DOMAIN fs : GoodFile(fs, i)
  BY DEF GoodFiles
<1> HIDE DEF new
<1>4. ASSUME NEW i \in DOMAIN fs PROVE GoodFile(fs2, i)
  <2>1. WellFormed(fs2[i].arena)
    BY <1>1, <1>3 DEF GoodFile
  <2>2. ASSUME NEW n \in DOMAIN fs2[i].externals
        PROVE  fs2[i].externals[n] \in DOMAIN fs2 /\ fs2[fs2[i].externals[n]].name = n
    <3>1. CASE n \in DOMAIN fs[i].externals /\ fs2[i].externals[n] = fs[i].externals[n]
      <4>1. fs[i].externals[n] \in DOMAIN fs /\ fs[fs[i].externals[n]].name = n
        BY <1>3, <3>1 DEF GoodFile
      <4> QED
        BY <1>1, <3>1, <4>1
    <3>2. CASE n = inner.name /\ fs2[i].externals[n] = new
      BY <1>1, <1>2, <3>2
    <3> QED
      BY <1>1, <3>1, <3>2
  <2>3. ASSUME fs2[i].openedBy.parent # None
        PROVE  /\ fs2[i].readOnly
               /\ fs2[i].openedBy.parent \in DOMAIN fs2
               /\ fs2[i].name \in DOMAIN fs2[fs2[i].openedBy.parent].externals
    <3>1. fs[i].openedBy.parent = fs2[i].openedBy.parent /\ fs[i].openedBy.parent # None
      BY <1>1, <2>3
    <3>2. /\ fs[i].readOnly
          /\ fs[i].openedBy.parent \in DOMAIN fs
          /\ fs[i].name \in DOMAIN fs[fs[i].openedBy.parent].externals
      BY <1>3, <3>1 DEF GoodFile
    <3> QED
      BY <1>1, <3>1, <3>2
  <2> QED
    BY <1>1, <2>1, <2>2, <2>3 DEF GoodFile
<1>5. GoodFile(fs2, new)
  <2>1. DOMAIN inner.externals = {}
    OBVIOUS
  <2>2. parent # None => parent \in DOMAIN fs2 /\ inner.name \in DOMAIN fs2[parent].externals
    BY <1>1
  <2>3. /\ inner = [name |-> inner.name, arena |-> inner.arena, readOnly |-> inner.readOnly,
                    externals |-> inner.externals,
                    openedBy |-> [thread |-> inner.openedBy.thread,
                                  parent |-> inner.openedBy.parent]]
        /\ inner.openedBy.parent = parent /\ (parent # None => inner.readOnly)
        /\ WellFormed(inner.arena)
    OBVIOUS
  <2> QED
    BY <1>2, <2>1, <2>2, <2>3 DEF GoodFile
<1> QED
  BY <1>1, <1>2, <1>4, <1>5 DEF GoodFiles

(* A thread that has not opened a file of the name through the same parent *)
(* adds the first such copy.                                               *)
LEMMA FirstCopy ==
    ASSUME NEW fs, GoodFiles(fs), NEW fs2, NEW inner, NEW parent,
           OneMore(fs, fs2, inner, parent), NEW t,
           inner.openedBy = [thread |-> t, parent |-> parent],
           \A i \in DOMAIN fs : ~(/\ fs[i].openedBy = [thread |-> t, parent |-> parent]
                                  /\ fs[i].name = inner.name),
           \A i, j \in DOMAIN fs : i # j =>
             ~(fs[i].openedBy = fs[j].openedBy /\ fs[i].name = fs[j].name)
    PROVE  \A i, j \in DOMAIN fs2 : i # j =>
             ~(fs2[i].openedBy = fs2[j].openedBy /\ fs2[i].name = fs2[j].name)
<1> DEFINE new == Len(fs) + 1
<1>1. /\ DOMAIN fs2 = DOMAIN fs \cup {new} /\ new \notin DOMAIN fs
      /\ \A i \in DOMAIN fs : fs2[i].name = fs[i].name /\ fs2[i].openedBy = fs[i].openedBy
  <2>1. /\ DOMAIN fs2 = DOMAIN fs \cup {new} /\ new \notin DOMAIN fs
        /\ \A i \in DOMAIN fs : Survives(fs, fs2, inner, parent, i)
    BY OthersKept
  <2> HIDE DEF new
  <2> QED
    BY <2>1 DEF Survives
<1>2. fs2[new] = inner
  BY DEF OneMore
<1> HIDE DEF new
<1> QED
  BY <1>1, <1>2

(* OneCopyPerThread by the fields it compares. *)
LEMMA CopiesByFields ==
    ASSUME NEW fs, GoodFiles(fs)
    PROVE  (\A i, j \in DOMAIN fs :
              i # j => [fs[i].openedBy EXCEPT !.parent = <<@, fs[i].name>>]
                       # [fs[j].openedBy EXCEPT !.parent = <<@, fs[j].name>>])
           <=> (\A i, j \in DOMAIN fs : i # j =>
                  ~(fs[i].openedBy = fs[j].openedBy /\ fs[i].name = fs[j].name))
<1> DEFINE Key(i) == [fs[i].openedBy EXCEPT !.parent = <<@, fs[i].name>>]
<1>1. ASSUME NEW i \in DOMAIN fs
      PROVE  /\ fs[i].openedBy = [thread |-> fs[i].openedBy.thread,
                                  parent |-> fs[i].openedBy.parent]
             /\ Key(i) = [thread |-> fs[i].openedBy.thread,
                          parent |-> <<fs[i].openedBy.parent, fs[i].name>>]
  <2> DEFINE o == fs[i].openedBy
  <2>1. o = [thread |-> o.thread, parent |-> o.parent]
    BY DEF GoodFiles, GoodFile
  <2> HIDE DEF o
  <2>2. [o EXCEPT !.parent = <<@, fs[i].name>>]
          = [thread |-> o.thread, parent |-> <<o.parent, fs[i].name>>]
    BY <2>1
  <2> QED
    BY <2>1, <2>2 DEF o
<1>2. ASSUME NEW i \in DOMAIN fs, NEW j \in DOMAIN fs
      PROVE  Key(i) = Key(j) <=> (fs[i].openedBy = fs[j].openedBy /\ fs[i].name = fs[j].name)
  <2> DEFINE a == fs[i].openedBy
             b == fs[j].openedBy
             m == fs[i].name
             n == fs[j].name
  <2>1. /\ a = [thread |-> a.thread, parent |-> a.parent]
        /\ b = [thread |-> b.thread, parent |-> b.parent]
        /\ Key(i) = [thread |-> a.thread, parent |-> <<a.parent, m>>]
        /\ Key(j) = [thread |-> b.thread, parent |-> <<b.parent, n>>]
    BY <1>1
  <2> HIDE DEF a, b, m, n, Key
  <2>2. Key(i) = Key(j) => a.thread = b.thread /\ <<a.parent, m>> = <<b.parent, n>>
    BY <2>1
  <2>3. Key(i) = Key(j) => a.parent = b.parent /\ m = n
    BY <2>2
  <2>4. Key(i) = Key(j) => a = b /\ m = n
    BY <2>1, <2>2, <2>3
  <2>5. a = b /\ m = n => Key(i) = Key(j)
    BY <2>1
  <2> QED
    BY <2>4, <2>5 DEF a, b, m, n
<1> HIDE DEF Key
<1>3. (\A i, j \in DOMAIN fs : i # j => Key(i) # Key(j))
      <=> (\A i, j \in DOMAIN fs : i # j =>
             ~(fs[i].openedBy = fs[j].openedBy /\ fs[i].name = fs[j].name))
  BY <1>2
<1> QED
  BY <1>3 DEF Key

LEMMA OutcomeWithFiles ==
    ASSUME IInv, NEW t \in Thread, Outcome(files', t), GoodFiles(files'),
           \A i \in DOMAIN files : Kept(files, files', i),
           \A u \in Thread : u # t => GoodStack(files', u, stack[u]),
           OneCopyPerThread', quiet' \in [Thread -> BOOLEAN],
           UNCHANGED <<disk, located, changes, calls>>
    PROVE  IInv'
<1>1. PICK s : GoodStack(files', t, s) /\ stack' = [stack EXCEPT ![t] = s]
  BY DEF Outcome
<1>2. /\ stack' = [u \in Thread |-> stack'[u]]
      /\ \A u \in Thread : GoodStack(files', u, stack'[u])
  BY <1>1 DEF IInv
<1>3. \A u \in Thread : held[u] = Nowhere \/ HandleIn(files', held[u].file, held[u].at)
  BY DEF IInv, HandleIn, Kept
<1>4. /\ held' = [u \in Thread |-> held'[u]]
      /\ \A u \in Thread : held'[u] = Nowhere \/ HandleIn(files', held'[u].file, held'[u].at)
  <2>1. CASE held' = held
    BY <1>3, <2>1 DEF IInv
  <2>2. ASSUME NEW h, h = Nowhere \/ HandleIn(files', h.file, h.at),
               held' = [held EXCEPT ![t] = h]
        PROVE  <1>4
    BY <1>3, <2>2 DEF IInv
  <2> QED
    BY <2>1, <2>2 DEF Outcome
<1> QED
  BY <1>2, <1>4 DEF IInv

LEMMA InsertStep ==
    ASSUME IInv, NEW t \in Thread, Insert(t)
    PROVE  IInv'
<1>1. PICK p \in Doing(t, "parse") :
         /\ Last(Below(t)).op = "open"
         /\ \E o \in {Last(Below(t))}, new \in {Len(files) + 1} :
              /\ files' = WithFile(Inner(t, o.name, p.arena, o.file), o.file)
              /\ \/ o.file = None /\ Return(t, [file |-> new, at |-> Root])
                 \/ o.file # None /\ Enter(t, Front(Below(t)), new, o.path, o.depth)
  BY DEF Insert
<1> DEFINE o == Last(Below(t))
           new == Len(files) + 1
           rest == Front(Below(t))
           inner == Inner(t, o.name, p.arena, o.file)
<1>2. /\ o.op = "open"
      /\ files' = WithFile(inner, o.file)
      /\ \/ o.file = None /\ Return(t, [file |-> new, at |-> Root])
         \/ o.file # None /\ Enter(t, rest, new, o.path, o.depth)
  BY <1>1
<1>3. /\ GoodParse(p) /\ Parsing(o) /\ GoodFrame(files, t, o)
      /\ GoodStack(files, t, rest) /\ Stacked(rest, Len(rest), o)
  BY InnermostParse
<1>4. /\ inner.name = o.name /\ inner.arena = p.arena /\ inner.readOnly = (o.file # None)
      /\ inner.externals = <<>> /\ inner.openedBy = [thread |-> t, parent |-> o.file]
      /\ inner.openedBy.thread = t /\ inner.openedBy.parent = o.file
      /\ inner = [name |-> inner.name, arena |-> inner.arena, readOnly |-> inner.readOnly,
                  externals |-> inner.externals,
                  openedBy |-> [thread |-> inner.openedBy.thread,
                                parent |-> inner.openedBy.parent]]
  BY DEF Inner
<1> HIDE DEF o, new, rest, inner
<1>5. /\ GoodOpen(files, t, o) /\ o.pc # "lookup" /\ Walks(rest, Len(rest))
  BY <1>2, <1>3 DEF GoodFrame, GoodWalk, GoodParse, Parsing, Stacked
<1>6. o.file \in {None} \cup DOMAIN files /\ o.depth \in 0..MaxLinkDepth
  BY <1>5 DEF GoodOpen
<1>7. GoodFiles(files)
  BY DEF IInv
<1>8. WellFormed(p.arena)
  BY <1>3 DEF GoodParse
<1>9. OneMore(files, files', inner, o.file)
  BY <1>2, <1>6, <1>7, WithFileIsOneMore
<1>10. GoodFiles(files')
  BY <1>4, <1>6, <1>7, <1>8, <1>9, NewFileIsGood
<1>11. /\ DOMAIN files' = DOMAIN files \cup {new} /\ new \notin DOMAIN files
       /\ \A i \in DOMAIN files : Survives(files, files', inner, o.file, i)
  <2>1. /\ DOMAIN files' = DOMAIN files \cup {Len(files) + 1}
        /\ Len(files) + 1 \notin DOMAIN files
        /\ \A i \in DOMAIN files : Survives(files, files', inner, o.file, i)
    BY <1>7, <1>9, OthersKept
  <2> QED
    BY <2>1 DEF new
<1>12. files'[new] = inner
  BY <1>9 DEF OneMore, new
<1>13. \A i \in DOMAIN files : Kept(files, files', i)
  BY <1>11 DEF Survives, Kept
<1>14. ASSUME NEW u \in Thread, u # t PROVE GoodStack(files', u, stack[u])
  <2>1. \A i \in DOMAIN files' \ DOMAIN files : files'[i].openedBy.thread # u
    BY <1>4, <1>11, <1>12, <1>14
  <2>2. GoodStack(files, u, stack[u])
    BY DEF IInv
  <2> QED
    BY <1>13, <2>1, <2>2, StackKept
<1>15. GoodStack(files', t, rest)
  BY <1>3, <1>5, <1>13, StackKept
<1>16. WellFormed(files'[new].arena) /\ new \in DOMAIN files'
  BY <1>4, <1>8, <1>11, <1>12
<1>17. Outcome(files', t)
  <2>1. ASSUME Return(t, [file |-> new, at |-> Root]) PROVE Outcome(files', t)
    <3> DEFINE h == [file |-> new, at |-> Root]
    <3>1. Root \in DOMAIN files'[new].arena
      BY <1>16, ArenaFacts
    <3>2. h.file = new /\ h.at = Root
      OBVIOUS
    <3>3. Return(t, h)
      BY <2>1
    <3> HIDE DEF h
    <3>4. HandleIn(files', h.file, h.at)
      BY <1>16, <3>1, <3>2 DEF HandleIn
    <3> QED
      BY <3>3, <3>4, Returning
  <2>2. ASSUME Enter(t, rest, new, o.path, o.depth) PROVE Outcome(files', t)
    BY <1>5, <1>6, <1>15, <1>16, <2>2, Entering
  <2> QED
    BY <1>2, <2>1, <2>2
<1>18. OneCopyPerThread'
  <2>1. \A i, j \in DOMAIN files : i # j =>
          ~(files[i].openedBy = files[j].openedBy /\ files[i].name = files[j].name)
    BY <1>7, CopiesByFields DEF IInv, OneCopyPerThread
  <2>2. \A i \in DOMAIN files : ~(/\ files[i].openedBy = [thread |-> t, parent |-> o.file]
                                  /\ files[i].name = inner.name)
    BY <1>4, <1>5 DEF GoodOpen
  <2>3. \A i, j \in DOMAIN files' : i # j =>
          ~(files'[i].openedBy = files'[j].openedBy /\ files'[i].name = files'[j].name)
    BY <1>4, <1>7, <1>9, <2>1, <2>2, FirstCopy
  <2> QED
    BY <1>10, <2>3, CopiesByFields DEF OneCopyPerThread
<1>19. quiet' \in [Thread -> BOOLEAN]
  BY DEF Insert, IInv
<1>20. UNCHANGED <<disk, located, changes, calls>>
  BY DEF Insert
<1> QED
  BY <1>10, <1>13, <1>14, <1>17, <1>18, <1>19, <1>20, OutcomeWithFiles

-----------------------------------------------------------------------------
(* The other steps *)

LEMMA InitIsGood ==
    ASSUME Init
    PROVE  IInv
<1>1. PICK w \in Worlds : disk = w.disk /\ located = w.located
  BY DEF Init
<1>2. /\ disk = [f \in FileName |-> disk[f]] /\ located \in BOOLEAN
      /\ \A f \in FileName : Content(disk[f])
  BY <1>1, FileAssumption
<1>3. files = <<>> /\ DOMAIN files = {} /\ files \in Seq(ToSet(files))
  BY DEF Init
<1>4. GoodFiles(files) /\ OneCopyPerThread
  BY <1>3 DEF GoodFiles, OneCopyPerThread
<1>5. /\ stack = [t \in Thread |-> stack[t]]
      /\ \A t \in Thread : GoodStack(files, t, stack[t])
  BY EmptyStack DEF Init
<1>6. /\ held = [t \in Thread |-> held[t]]
      /\ \A t \in Thread : held[t] = Nowhere
  BY DEF Init
<1>7. changes \in 0..MaxChanges /\ calls \in 0..MaxCalls /\ quiet \in [Thread -> BOOLEAN]
  BY FileAssumption DEF Init
<1> QED
  BY <1>2, <1>4, <1>5, <1>6, <1>7 DEF IInv

(* A call begins. *)
LEMMA BeginKeeps ==
    ASSUME IInv, NEW t \in Thread, NEW f, GoodFrame(files, t, f), f.op \in {"walk", "open"},
           NEW from, NEW path, Begin(t, f, from, path)
    PROVE  IInv'
<1>1. GoodStack(files, t, <<f>>)
  BY FirstOnStack
<1>2. /\ stack' = [u \in Thread |-> stack'[u]]
      /\ \A u \in Thread : GoodStack(files', u, stack'[u])
  BY <1>1 DEF Begin, IInv
<1>3. /\ held' = [u \in Thread |-> held'[u]]
      /\ \A u \in Thread : held'[u] = Nowhere \/ HandleIn(files', held'[u].file, held'[u].at)
  BY DEF Begin, IInv
<1>4. calls' \in 0..MaxCalls
  BY FileAssumption DEF Begin, IInv
<1>5. quiet' \in [Thread -> BOOLEAN]
  BY DEF Begin, IInv
<1>6. UNCHANGED <<disk, located, files, changes>>
  BY DEF Begin
<1>7. OneCopyPerThread'
  BY <1>6 DEF IInv, OneCopyPerThread
<1> QED
  BY <1>2, <1>3, <1>4, <1>5, <1>6, <1>7 DEF IInv

LEMMA OpenFileStep ==
    ASSUME IInv, OpenFile
    PROVE  IInv'
<1> DEFINE o == OpenFrame("read", None, MainFile, <<>>, 0)
<1>1. /\ o.op = "open" /\ o.pc = "read" /\ o.file = None /\ o.name = MainFile
      /\ o.path = <<>> /\ o.depth = 0
  BY DEF OpenFrame
<1>2. o = OpenFrame(o.pc, o.file, o.name, o.path, o.depth)
  BY <1>1
<1>3. files = <<>> /\ Begin(Opener, o, Nowhere, <<>>)
  BY DEF OpenFile
<1>4. DOMAIN files = {}
  BY <1>3
<1>5. MainFile \in FileName /\ Opener \in Thread /\ 0 \in 0..MaxLinkDepth
  BY FileAssumption
<1> HIDE DEF o
<1>6. GoodOpen(files, Opener, o)
  BY <1>1, <1>2, <1>4, <1>5 DEF GoodOpen
<1> QED
  BY <1>1, <1>3, <1>5, <1>6, BeginKeeps DEF GoodFrame

LEMMA OpenByPathStep ==
    ASSUME IInv, NEW t \in Thread, NEW p, OpenByPath(t, p)
    PROVE  IInv'
<1>1. PICK h \in {[file |-> 1, at |-> Root], held[t]} \ {Nowhere} :
         Begin(t, WalkFrame(h.file, IF p.abs THEN Root ELSE h.at, p.comps, 0), h, p)
  BY DEF OpenByPath
<1>2. GoodFiles(files) /\ files \in Seq(ToSet(files)) /\ files # <<>>
  BY DEF IInv, GoodFiles, OpenByPath
<1>3. DOMAIN files = 1..Len(files) /\ Len(files) \in Nat \ {0}
  BY <1>2, SequenceFacts, EmptySeq
<1>4. ASSUME NEW f \in DOMAIN files PROVE HandleIn(files, f, Root)
  BY <1>2, <1>4, ArenaFacts DEF GoodFiles, GoodFile, HandleIn
<1>5. HandleIn(files, h.file, h.at)
  <2>1. CASE h = [file |-> 1, at |-> Root]
    <3>1. h.file = 1 /\ h.at = Root /\ 1 \in DOMAIN files
      BY <1>3, <2>1
    <3> QED
      BY <1>4, <3>1
  <2>2. CASE h = held[t] /\ h # Nowhere
    BY <2>2 DEF IInv
  <2> QED
    BY <1>1, <2>1, <2>2
<1> DEFINE at == IF p.abs THEN Root ELSE h.at
           w == WalkFrame(h.file, at, p.comps, 0)
<1>6. HandleIn(files, h.file, at)
  BY <1>4, <1>5 DEF HandleIn
<1>7. w.op = "walk" /\ w.file = h.file /\ w.at = at /\ w.rest = p.comps /\ w.depth = 0
  BY DEF WalkFrame
<1>8. w = WalkFrame(w.file, w.at, w.rest, w.depth)
  BY <1>7
<1>9. 0 \in 0..MaxLinkDepth
  BY FileAssumption
<1>10. Begin(t, w, h, p)
  BY <1>1
<1> HIDE DEF at, w
<1>11. GoodWalk(files, w)
  BY <1>6, <1>7, <1>8, <1>9 DEF GoodWalk
<1> QED
  BY <1>7, <1>10, <1>11, BeginKeeps DEF GoodFrame

(* A change of links or of the disk. *)
LEMMA ChangedKeeps ==
    ASSUME IInv, Changed, GoodFiles(files'), \A i \in DOMAIN files : Kept(files, files', i),
           DOMAIN files' = DOMAIN files, OneCopyPerThread',
           disk' = [f \in FileName |-> disk'[f]], \A f \in FileName : Content(disk'[f])
    PROVE  IInv'
<1>1. UNCHANGED <<located, stack, asked, held, calls>>
  BY DEF Changed
<1>2. changes' \in 0..MaxChanges /\ quiet' \in [Thread -> BOOLEAN]
  BY FileAssumption DEF Changed, IInv
<1>3. ASSUME NEW t \in Thread PROVE GoodStack(files', t, stack[t])
  BY StackKept DEF IInv
<1>4. \A t \in Thread : held[t] = Nowhere \/ HandleIn(files', held[t].file, held[t].at)
  BY DEF IInv, HandleIn, Kept
<1> QED
  BY <1>1, <1>2, <1>3, <1>4 DEF IInv

(* A change of the disk only. *)
LEMMA DiskChangedKeeps ==
    ASSUME IInv, Changed, files' = files,
           NEW f \in FileName, NEW image, Content(image), disk' = [disk EXCEPT ![f] = image]
    PROVE  IInv'
<1>1. disk' = [g \in FileName |-> disk'[g]] /\ \A g \in FileName : Content(disk'[g])
  BY DEF IInv
<1>2. GoodFiles(files') /\ \A i \in DOMAIN files : Kept(files, files', i)
  BY DEF IInv, Kept
<1>3. OneCopyPerThread'
  BY DEF IInv, OneCopyPerThread
<1> QED
  BY <1>1, <1>2, <1>3, ChangedKeeps

LEMMA FlushStep ==
    ASSUME IInv, Flush
    PROVE  IInv'
<1>1. /\ Changed /\ files' = files /\ files # <<>>
      /\ disk' = [disk EXCEPT ![MainFile] = files[1].arena]
  BY DEF Flush
<1>2. GoodFiles(files) /\ files \in Seq(ToSet(files))
  BY DEF IInv, GoodFiles
<1>3. DOMAIN files = 1..Len(files) /\ Len(files) \in Nat \ {0}
  BY <1>1, <1>2, SequenceFacts, EmptySeq
<1>4. Content(files[1].arena)
  BY <1>2, <1>3 DEF GoodFiles, GoodFile, Content
<1>5. MainFile \in FileName
  BY FileAssumption
<1> QED
  BY <1>1, <1>4, <1>5, DiskChangedKeeps

LEMMA RewriteStep ==
    ASSUME IInv, NEW f \in FileName, Rewrite(f)
    PROVE  IInv'
<1>1. PICK image \in Images[f] : disk' = [disk EXCEPT ![f] = image]
  BY DEF Rewrite
<1>2. Changed /\ files' = files /\ Content(image)
  BY FileAssumption DEF Rewrite
<1> QED
  BY <1>1, <1>2, DiskChangedKeeps

(* What an edit does to the open files: links of one that is not read-only *)
(* change.                                                                 *)
LEMMA EditChanges ==
    ASSUME IInv, NEW t \in Thread, Edit(t)
    PROVE  /\ GoodFiles(files') /\ DOMAIN files' = DOMAIN files
           /\ \A i \in DOMAIN files :
                /\ Kept(files, files', i)
                /\ files[i].readOnly => files'[i].arena = files[i].arena
<1> DEFINE i == held[t].file
           at == held[t].at
           f == files[i]
<1>1. /\ held[t] # Nowhere /\ ~f.readOnly /\ IsGroup(f.arena, at)
      /\ \E links \in Relinked(f.arena[at].links) :
           files' = [files EXCEPT ![i].arena[at].links = links]
  BY DEF Edit
<1>2. PICK links \in Relinked(f.arena[at].links) :
         files' = [files EXCEPT ![i].arena[at].links = links]
  BY <1>1
<1>3. i \in DOMAIN files /\ at \in DOMAIN f.arena
  BY <1>1 DEF IInv, HandleIn
<1>4. /\ files \in Seq(ToSet(files)) /\ \A k \in DOMAIN files : GoodFile(files, k)
      /\ DOMAIN files = 1..Len(files) /\ Len(files) \in Nat
  BY SequenceFacts DEF IInv, GoodFiles
<1>5. WellFormed(f.arena)
  BY <1>3, <1>4 DEF GoodFile
<1> DEFINE arena2 == [f.arena EXCEPT ![at].links = links]
           f2 == [f EXCEPT !.arena = arena2]
<1>6. WellFormed(arena2) /\ DOMAIN arena2 = DOMAIN f.arena
  BY <1>2, <1>3, <1>5, RelinkedIsWellFormed
<1>7. files' = [files EXCEPT ![i] = f2]
  BY <1>2
<1>8. f = [name |-> f.name, arena |-> f.arena, readOnly |-> f.readOnly,
           externals |-> f.externals, openedBy |-> f.openedBy]
      /\ f.openedBy = [thread |-> f.openedBy.thread, parent |-> f.openedBy.parent]
  BY <1>3, <1>4 DEF GoodFile
<1> HIDE DEF i, at, f, arena2
<1>9. f2 = [name |-> f.name, arena |-> arena2, readOnly |-> f.readOnly,
            externals |-> f.externals, openedBy |-> f.openedBy]
  BY <1>8
<1>10. /\ f2.name = f.name /\ f2.arena = arena2 /\ f2.readOnly = f.readOnly
       /\ f2.externals = f.externals /\ f2.openedBy = f.openedBy
  BY <1>9
<1> HIDE DEF f2
<1>11. /\ files' \in Seq(ToSet(files')) /\ Len(files') = Len(files) /\ files'[i] = f2
       /\ \A k \in DOMAIN files : k # i => files'[k] = files[k]
  BY <1>3, <1>4, <1>7, ExceptFacts
<1>12. DOMAIN files' = DOMAIN files
  BY <1>4, <1>11, SequenceFacts
<1>13. f = files[i]
  BY DEF f
<1>14. \A k \in DOMAIN files :
          /\ files'[k].name = files[k].name /\ files'[k].readOnly = files[k].readOnly
          /\ files'[k].externals = files[k].externals
          /\ files'[k].openedBy = files[k].openedBy
          /\ DOMAIN files'[k].arena = DOMAIN files[k].arena
          /\ files[k].readOnly => files'[k].arena = files[k].arena
          /\ WellFormed(files'[k].arena)
          /\ files'[k] = [name |-> files'[k].name, arena |-> files'[k].arena,
                          readOnly |-> files'[k].readOnly, externals |-> files'[k].externals,
                          openedBy |-> [thread |-> files'[k].openedBy.thread,
                                        parent |-> files'[k].openedBy.parent]]
  <2>1. ASSUME NEW k \in DOMAIN files, k # i
        PROVE  files'[k] = files[k] /\ GoodFile(files, k)
    BY <1>4, <1>11, <2>1
  <2>2. /\ f2 = [name |-> f2.name, arena |-> f2.arena, readOnly |-> f2.readOnly,
                 externals |-> f2.externals,
                 openedBy |-> [thread |-> f2.openedBy.thread, parent |-> f2.openedBy.parent]]
        /\ WellFormed(f2.arena)
    BY <1>6, <1>8, <1>9, <1>10
  <2>3. ~f.readOnly
    BY <1>1 DEF f
  <2> QED
    BY <1>6, <1>10, <1>11, <1>13, <2>1, <2>2, <2>3 DEF GoodFile
<1>15. ASSUME NEW k \in DOMAIN files PROVE GoodFile(files', k)
  BY <1>4, <1>12, <1>14 DEF GoodFile
<1>16. \A k \in DOMAIN files : Kept(files, files', k)
  BY <1>12, <1>14 DEF Kept
<1> QED
  BY <1>11, <1>12, <1>14, <1>15, <1>16 DEF GoodFiles

LEMMA EditStep ==
    ASSUME IInv, NEW t \in Thread, Edit(t)
    PROVE  IInv'
<1>1. /\ GoodFiles(files') /\ DOMAIN files' = DOMAIN files
      /\ \A i \in DOMAIN files : Kept(files, files', i)
  BY EditChanges
<1>2. Changed /\ disk' = disk
  BY DEF Edit
<1>3. OneCopyPerThread'
  <2>1. \A i, j \in DOMAIN files : i # j =>
          ~(files[i].openedBy = files[j].openedBy /\ files[i].name = files[j].name)
    BY CopiesByFields DEF IInv, OneCopyPerThread
  <2>2. \A i, j \in DOMAIN files' : i # j =>
          ~(files'[i].openedBy = files'[j].openedBy /\ files'[i].name = files'[j].name)
    BY <1>1, <2>1 DEF Kept
  <2> QED
    BY <1>1, <2>2, CopiesByFields DEF OneCopyPerThread
<1>4. disk' = [f \in FileName |-> disk'[f]] /\ \A f \in FileName : Content(disk'[f])
  BY <1>2 DEF IInv
<1> QED
  BY <1>1, <1>2, <1>3, <1>4, ChangedKeeps

LEMMA StepKeeps ==
    ASSUME IInv, [Next]_vars
    PROVE  IInv'
<1>1. CASE OpenFile
  BY <1>1, OpenFileStep
<1>2. CASE Flush
  BY <1>2, FlushStep
<1>3. ASSUME NEW f \in FileName, Rewrite(f) PROVE IInv'
  BY <1>3, RewriteStep
<1>4. ASSUME NEW t \in Thread, NEW p \in Paths, OpenByPath(t, p) PROVE IInv'
  BY <1>4, OpenByPathStep
<1>5. ASSUME NEW t \in Thread, Resolving(t) PROVE IInv'
  <2>1. CASE Component(t)
    BY <2>1, ComponentStep
  <2>2. CASE Arrive(t)
    BY <2>2, ArriveStep
  <2>3. CASE LookUp(t)
    BY <2>3, LookUpStep
  <2>4. CASE ReadFile(t)
    BY <2>4, ReadFileStep
  <2>5. CASE Materialize(t)
    BY <2>5, MaterializeStep
  <2>6. CASE SourceParsed(t)
    BY <2>6, SourceParsedStep
  <2>7. CASE Insert(t)
    BY <2>7, InsertStep
  <2> QED
    BY <1>5, <2>1, <2>2, <2>3, <2>4, <2>5, <2>6, <2>7 DEF Resolving
<1>6. ASSUME NEW t \in Thread, Edit(t) PROVE IInv'
  BY <1>6, EditStep
<1>7. CASE UNCHANGED vars
  BY <1>7 DEF vars, IInv, OneCopyPerThread
<1> QED
  BY <1>1, <1>2, <1>3, <1>4, <1>5, <1>6, <1>7 DEF Next

-----------------------------------------------------------------------------
(* The theorems *)

(* What every reachable state of the resolutions satisfies.                *)
THEOREM Invariance == Spec => []IInv
  BY InitIsGood, StepKeeps, PTL DEF Spec

(* Whatever other threads and programs do meanwhile, every handle and      *)
(* every place a resolution has come to is an object of its file, caches   *)
(* lead to files of the name asked for, and no recursion is too deep.      *)
THEOREM Types == Spec => []TypeOK
<1>1. IInv => TypeOK
  <2>1. ASSUME IInv PROVE \A f \in FileName : disk[f] = Absent \/ Root \in DOMAIN disk[f]
    BY <2>1, ArenaFacts DEF IInv, Content
  <2>2. ASSUME IInv PROVE \A t \in Thread : held[t] = Nowhere \/ Handle(held[t])
    BY <2>2 DEF IInv, HandleIn, Handle
  <2>3. ASSUME IInv
        PROVE  \A i \in DOMAIN files : \A n \in DOMAIN files[i].externals :
                 files[files[i].externals[n]].name = n
    BY <2>3 DEF IInv, GoodFiles, GoodFile
  <2>4. ASSUME IInv, NEW t \in Thread, NEW k \in DOMAIN stack[t]
        PROVE  \/ stack[t][k].op = "walk"
                    /\ Handle([file |-> stack[t][k].file, at |-> stack[t][k].at])
                    /\ stack[t][k].depth <= MaxLinkDepth
               \/ stack[t][k].op = "open" /\ stack[t][k].name \in FileName
               \/ stack[t][k].op = "parse" /\ stack[t][k].depth <= MaxParseDepth
    <3> DEFINE f == stack[t][k]
    <3>1. GoodFrame(files, t, f)
      BY <2>4 DEF IInv, GoodStack
    <3> HIDE DEF f
    <3>2. CASE GoodWalk(files, f)
      BY <3>2, FileAssumption DEF GoodWalk, HandleIn, Handle, f
    <3>3. CASE GoodOpen(files, t, f)
      BY <3>3 DEF GoodOpen, f
    <3>4. CASE GoodParse(f)
      BY <3>4, FileAssumption DEF GoodParse, f
    <3> QED
      BY <3>1, <3>2, <3>3, <3>4 DEF GoodFrame
  <2>5. ASSUME IInv
        PROVE  /\ located \in BOOLEAN /\ changes \in 0..MaxChanges /\ calls \in 0..MaxCalls
               /\ quiet \in [Thread -> BOOLEAN]
    BY <2>5 DEF IInv
  <2> QED
    BY <2>1, <2>2, <2>3, <2>4, <2>5 DEF TypeOK
<1> QED
  BY <1>1, Invariance, PTL

(* The race in open_external: however many threads miss in the cache of a  *)
(* file at once, each of them opens a file of a name through it only once. *)
THEOREM CopiesAreFew == Spec => []OneCopyPerThread
<1>1. IInv => OneCopyPerThread
  BY DEF IInv
<1> QED
  BY <1>1, Invariance, PTL

(* Nothing that a thread does through any handle changes a file that was   *)
(* opened for a link, nor does the opening of further files.               *)
THEOREM ExternalsStayAsParsed == Spec => ExternalsFrozen
<1> DEFINE A == \A i \in DOMAIN files :
                  files[i].openedBy.parent # None => files'[i].arena = files[i].arena
<1>1. ASSUME IInv, [Next]_vars PROVE [A]_vars
  <2>1. CASE files' = files
    BY <2>1
  <2>2. ASSUME NEW t \in Thread, Insert(t) PROVE A
    <3>1. PICK p \in Doing(t, "parse") :
             /\ Last(Below(t)).op = "open"
             /\ \E o \in {Last(Below(t))} :
                  files' = WithFile(Inner(t, o.name, p.arena, o.file), o.file)
      BY <2>2 DEF Insert
    <3> DEFINE o == Last(Below(t))
               inner == Inner(t, o.name, p.arena, o.file)
    <3>2. files' = WithFile(inner, o.file)
      BY <3>1
    <3>3. GoodFrame(files, t, o)
      BY <1>1, InnermostParse
    <3>4. o.op = "open"
      BY <3>1
    <3> HIDE DEF o, inner
    <3>5. o.file \in {None} \cup DOMAIN files
      BY <3>3, <3>4 DEF GoodFrame, GoodWalk, GoodParse, GoodOpen
    <3>6. GoodFiles(files)
      BY <1>1 DEF IInv
    <3>7. OneMore(files, files', inner, o.file)
      BY <3>2, <3>5, <3>6, WithFileIsOneMore
    <3>8. \A i \in DOMAIN files : Survives(files, files', inner, o.file, i)
      BY <3>6, <3>7, OthersKept
    <3> QED
      BY <3>8 DEF Survives
  <2>3. ASSUME NEW t \in Thread, Edit(t) PROVE A
    <3>1. \A i \in DOMAIN files : files[i].readOnly => files'[i].arena = files[i].arena
      BY <1>1, <2>3, EditChanges
    <3>2. \A i \in DOMAIN files : files[i].openedBy.parent # None => files[i].readOnly
      BY <1>1 DEF IInv, GoodFiles, GoodFile
    <3> QED
      BY <3>1, <3>2
  <2>4. \/ files' = files
        \/ \E t \in Thread : Insert(t) \/ Edit(t)
    BY <1>1 DEF Next, Resolving, OpenFile, OpenByPath, Begin, Flush, Rewrite, Component, Arrive,
                LookUp, ReadFile, Materialize, SourceParsed, vars
  <2> QED
    BY <2>1, <2>2, <2>3, <2>4
<1> QED
  BY <1>1, Invariance, PTL DEF Spec, ExternalsFrozen
=============================================================================
