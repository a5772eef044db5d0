------------------------- MODULE ObjectModelProofs -------------------------
(***************************************************************************)
(* Proofs about ObjectModel, for every set of threads, names and paths and *)
(* every bound.  How a path resolves plays no part in them: an action uses *)
(* a resolved id only when it is an id of the arena.                       *)
(***************************************************************************)
EXTENDS ObjectModel, SequenceTheorems, FunctionTheorems, FiniteSetTheorems, BasicFacts

(* The links and the arenas whose hard links stay within the ids 1..n.     *)
LinkWithin(n) == {l \in Link : l.target.kind = "Hard" => l.target.obj \in 1..n}
NodeWithin(n) == [kind : {"Group", "Dataset"}, links : Seq(LinkWithin(n)), refcount : Nat]
Arena(n) == Seq(NodeWithin(n))

(* The inductive invariant: a slot is never emptied and every id that a    *)
(* hard link or a link_hard call under way holds is an id of the arena.    *)
IInv ==
    /\ objects \in Arena(Len(objects))
    /\ Len(objects) >= 1
    /\ nextOrder \in Nat
    /\ readOnly \in BOOLEAN
    /\ linking \in [Thread -> {Idle} \cup LinkHardCall]
    /\ \A t \in Thread : linking[t].pc # "idle" => linking[t].obj \in DOMAIN objects
    /\ aborted \in BOOLEAN

(* Two arenas of the same length and kinds. *)
SameShape(objs, objs2) ==
    /\ Len(objs2) = Len(objs)
    /\ \A id \in 1..Len(objs) : objs2[id].kind = objs[id].kind

(* The ids may be drawn from a longer arena.                               *)
LEMMA ArenaGrows ==
    ASSUME NEW m \in Nat, NEW n \in Nat, m <= n
    PROVE  Arena(m) \subseteq Arena(n)
<1>1. LinkWithin(m) \subseteq LinkWithin(n)
  BY DEF LinkWithin
<1>2. Seq(LinkWithin(m)) \subseteq Seq(LinkWithin(n))
  BY <1>1, SeqMonotonic
<1>3. NodeWithin(m) \subseteq NodeWithin(n)
  BY <1>2 DEF NodeWithin
<1> QED
  BY <1>3, SeqMonotonic DEF Arena

(* Replacing the links of a node by others within the same ids.            *)
LEMMA ReplaceNode ==
    ASSUME NEW n \in Nat, NEW objs \in Arena(n), NEW g \in DOMAIN objs,
           NEW node \in NodeWithin(n), node.kind = objs[g].kind
    PROVE  /\ [objs EXCEPT ![g] = node] \in Arena(n)
           /\ SameShape(objs, [objs EXCEPT ![g] = node])
<1>1. g \in 1..Len(objs)
  BY LenProperties DEF Arena
<1> QED
  BY <1>1, ExceptSeq DEF Arena, SameShape

(* Pushing a link keeps the arena well formed, and its shape.              *)
LEMMA PushWithin ==
    ASSUME NEW n \in Nat, NEW objs \in Arena(n), NEW g \in DOMAIN objs,
           NEW link \in LinkWithin(n)
    PROVE  Push(objs, g, link) \in Arena(n) /\ SameShape(objs, Push(objs, g, link))
<1> DEFINE node == [objs[g] EXCEPT !.links = Append(@, link)]
<1>1. objs[g] \in NodeWithin(n)
  BY ElementOfSeq, LenProperties DEF Arena
<1>2. Append(objs[g].links, link) \in Seq(LinkWithin(n))
  BY <1>1, AppendProperties DEF NodeWithin
<1>3. node \in NodeWithin(n) /\ node.kind = objs[g].kind
  BY <1>1, <1>2 DEF NodeWithin
<1>4. Push(objs, g, link) = [objs EXCEPT ![g] = node]
  BY DEF Push
<1> HIDE DEF node
<1>5. [objs EXCEPT ![g] = node] \in Arena(n) /\ SameShape(objs, [objs EXCEPT ![g] = node])
  BY <1>3, ReplaceNode
<1> QED
  BY <1>4, <1>5

(* Removing a link does too.                                               *)
LEMMA CutWithin ==
    ASSUME NEW n \in Nat, NEW objs \in Arena(n), NEW g \in DOMAIN objs,
           NEW i \in DOMAIN objs[g].links
    PROVE  Cut(objs, g, i) \in Arena(n) /\ SameShape(objs, Cut(objs, g, i))
<1> DEFINE ls == objs[g].links
           node == [objs[g] EXCEPT !.links = RemoveAt(@, i)]
<1>1. objs[g] \in NodeWithin(n)
  BY ElementOfSeq, LenProperties DEF Arena
<1>2. ls \in Seq(LinkWithin(n)) /\ i \in 1..Len(ls) /\ Len(ls) \in Nat
  BY <1>1, LenProperties DEF NodeWithin
<1>3. \A j \in 1..Len(ls) : ls[j] \in LinkWithin(n)
  BY <1>2, ElementOfSeq
<1>4. SubSeq(ls, 1, i - 1) \in Seq(LinkWithin(n))
  <2>1. i - 1 \in Int /\ \A j \in 1..(i - 1) : ls[j] \in LinkWithin(n)
    BY <1>2, <1>3
  <2> QED
    BY <2>1, SubSeqProperties
<1>5. SubSeq(ls, i + 1, Len(ls)) \in Seq(LinkWithin(n))
  <2>1. i + 1 \in Int /\ \A j \in (i + 1)..Len(ls) : ls[j] \in LinkWithin(n)
    BY <1>2, <1>3
  <2> QED
    BY <1>2, <2>1, SubSeqProperties
<1>6. RemoveAt(ls, i) \in Seq(LinkWithin(n))
  BY <1>4, <1>5, ConcatProperties DEF RemoveAt
<1>7. node \in NodeWithin(n) /\ node.kind = objs[g].kind
  BY <1>1, <1>6 DEF NodeWithin
<1>8. Cut(objs, g, i) = [objs EXCEPT ![g] = node]
  BY DEF Cut
<1> HIDE DEF node, ls
<1>9. [objs EXCEPT ![g] = node] \in Arena(n) /\ SameShape(objs, [objs EXCEPT ![g] = node])
  BY <1>7, ReplaceNode
<1> QED
  BY <1>8, <1>9

(* Counting a reference, up or down, does too.                             *)
LEMMA CountWithin ==
    ASSUME NEW n \in Nat, NEW objs \in Arena(n), NEW id \in DOMAIN objs
    PROVE  /\ Count(objs, id) \in Arena(n) /\ SameShape(objs, Count(objs, id))
           /\ Uncount(objs, id) \in Arena(n) /\ SameShape(objs, Uncount(objs, id))
<1> DEFINE up == [objs[id] EXCEPT !.refcount = @ + 1]
           down == [objs[id] EXCEPT !.refcount = IF @ = 0 THEN 0 ELSE @ - 1]
<1>1. objs[id] \in NodeWithin(n)
  BY ElementOfSeq, LenProperties DEF Arena
<1>2. up \in NodeWithin(n) /\ up.kind = objs[id].kind
  BY <1>1 DEF NodeWithin
<1>3. down \in NodeWithin(n) /\ down.kind = objs[id].kind
  BY <1>1 DEF NodeWithin
<1>4. Count(objs, id) = [objs EXCEPT ![id] = up] /\ Uncount(objs, id) = [objs EXCEPT ![id] = down]
  BY DEF Count, Uncount
<1> HIDE DEF up, down
<1>5. [objs EXCEPT ![id] = up] \in Arena(n) /\ SameShape(objs, [objs EXCEPT ![id] = up])
  BY <1>2, ReplaceNode
<1>6. [objs EXCEPT ![id] = down] \in Arena(n) /\ SameShape(objs, [objs EXCEPT ![id] = down])
  BY <1>3, ReplaceNode
<1> QED
  BY <1>4, <1>5, <1>6

(* Appending nodes: the arena only gets longer and older nodes stay.       *)
Extends(objs, objs2) ==
    /\ objs2 \in Arena(Len(objs2))
    /\ Len(objs) <= Len(objs2)
    /\ \A id \in 1..Len(objs) : objs2[id].kind = objs[id].kind

LEMMA AppendNode ==
    ASSUME NEW objs, objs \in Arena(Len(objs) + 1), NEW node \in NodeWithin(Len(objs) + 1)
    PROVE  Extends(objs, Append(objs, node)) /\ Len(Append(objs, node)) = Len(objs) + 1
<1>1. Append(objs, node) \in Seq(NodeWithin(Len(objs) + 1))
  BY AppendProperties DEF Arena
<1>2. Len(Append(objs, node)) = Len(objs) + 1 /\ Len(objs) \in Nat
  BY AppendProperties, LenProperties DEF Arena
<1>3. \A id \in 1..Len(objs) : Append(objs, node)[id] = objs[id]
  BY AppendProperties DEF Arena
<1> QED
  BY <1>1, <1>2, <1>3 DEF Arena, Extends

LEMMA SameShapeExtends ==
    ASSUME NEW objs, objs \in Arena(Len(objs)), NEW objs2, objs2 \in Arena(Len(objs)),
           SameShape(objs, objs2)
    PROVE  Extends(objs, objs2)
<1>1. Len(objs) \in Nat
  BY LenProperties DEF Arena
<1> QED
  BY <1>1 DEF SameShape, Extends

(* A new object and the link that names it.                                *)
LEMMA PushNew ==
    ASSUME NEW objs, objs \in Arena(Len(objs)), NEW g \in DOMAIN objs,
           NEW name \in LinkName, NEW order \in Nat
    PROVE  LET link == [name |-> name, target |-> Hard(Len(objs) + 1), order |-> order]
           IN  Extends(objs, Append(Push(objs, g, link), [EmptyDataset EXCEPT !.refcount = 1]))
<1> DEFINE n == Len(objs) + 1
           link == [name |-> name, target |-> Hard(n), order |-> order]
           new == [EmptyDataset EXCEPT !.refcount = 1]
<1>1. Len(objs) \in Nat /\ n \in Nat
  BY LenProperties DEF Arena
<1>2. objs \in Arena(n)
  BY <1>1, ArenaGrows
<1>3. link \in LinkWithin(n)
  BY <1>1 DEF LinkWithin, Link, Target, Hard
<1>4. Push(objs, g, link) \in Arena(n) /\ SameShape(objs, Push(objs, g, link))
  BY <1>1, <1>2, <1>3, PushWithin
<1>5. new \in NodeWithin(n)
  BY EmptySeq DEF NodeWithin, EmptyDataset
<1>6. Extends(Push(objs, g, link), Append(Push(objs, g, link), new))
  BY <1>4, <1>5, AppendNode DEF SameShape
<1> QED
  BY <1>1, <1>4, <1>6 DEF Extends, SameShape

-----------------------------------------------------------------------------
LEMMA InitInv == Init => IInv
<1> SUFFICES ASSUME Init PROVE IInv
  OBVIOUS
<1> DEFINE root == [EmptyGroup EXCEPT !.refcount = 1]
<1>1. root \in NodeWithin(1)
  BY EmptySeq DEF NodeWithin, EmptyGroup
<1>2. <<root>> \in Seq(NodeWithin(1)) /\ Len(<<root>>) = 1
  BY <1>1
<1>3. objects \in Arena(Len(objects)) /\ Len(objects) >= 1
  BY <1>2 DEF Init, Arena
<1> QED
  BY <1>3 DEF Init, IInv, Idle

(* What most actions do: the arena at most grows, and no link_hard call    *)
(* begins or goes on.                                                      *)
LEMMA ArenaStep ==
    ASSUME IInv, Extends(objects, objects'), nextOrder' \in Nat,
           UNCHANGED <<readOnly, linking>>, aborted' \in BOOLEAN
    PROVE  IInv'
<1>1. objects' \in Arena(Len(objects')) /\ Len(objects') >= 1
  <2>1. Len(objects) \in Nat /\ Len(objects) >= 1
    BY LenProperties DEF IInv, Arena
  <2>2. Len(objects') \in Nat
    BY LenProperties DEF Extends, Arena
  <2> QED
    BY <2>1, <2>2 DEF Extends
<1>2. DOMAIN objects \subseteq DOMAIN objects'
  <2>1. DOMAIN objects = 1..Len(objects) /\ Len(objects) \in Nat
    BY LenProperties DEF IInv, Arena
  <2>2. DOMAIN objects' = 1..Len(objects') /\ Len(objects') \in Nat
    BY LenProperties DEF Extends, Arena
  <2> QED
    BY <2>1, <2>2 DEF Extends
<1> QED
  BY <1>1, <1>2 DEF IInv

(* The same for the steps that leave the arena as it is.                   *)
LEMMA ExtendsItself == ASSUME IInv PROVE Extends(objects, objects)
  BY LenProperties DEF IInv, Extends, Arena

LEMMA NamesAndPaths ==
    /\ \A n \in Name : <<n>> \in LinkName
    /\ \A d \in Paths, n \in Name : Unsplit(d, n) \in LinkName
    /\ \A p \in GroupPaths : \A k \in DOMAIN p.comps : <<p.comps[k]>> \in LinkName
<1> DEFINE C == Name \cup {Dot, Slash}
<1>1. \A d \in Paths, n \in Name : Unsplit(d, n) \in LinkName
  <2> SUFFICES ASSUME NEW d \in Paths, NEW n \in Name PROVE Unsplit(d, n) \in Seq(C)
    BY DEF LinkName
  <2>1. d.comps \in Seq(Name \cup {Dot})
    BY PathAssumption DEF Path
  <2>2. d.comps \in Seq(C)
    BY <2>1, SeqMonotonic
  <2>3. <<n>> \in Seq(C) /\ <<Slash>> \in Seq(C) /\ <<>> \in Seq(C)
    OBVIOUS
  <2>4. (IF d.abs THEN <<Slash>> ELSE <<>>) \in Seq(C)
    BY <2>3
  <2>5. (IF d.abs THEN <<Slash>> ELSE <<>>) \o d.comps \in Seq(C)
    BY <2>2, <2>4, ConcatProperties
  <2> QED
    BY <2>3, <2>5, ConcatProperties DEF Unsplit
<1>2. \A p \in GroupPaths : \A k \in DOMAIN p.comps : p.comps[k] \in Name \cup {Dot}
  BY PathAssumption, ElementOfSeq, LenProperties DEF Path
<1> QED
  BY <1>1, <1>2 DEF LinkName

(* The chain of groups that create_group adds.                             *)
LEMMA ChainWithin ==
    ASSUME IInv, NEW p \in GroupPaths, NEW k \in 0..(Len(p.comps) - 1)
    PROVE  LET m == Len(p.comps) - k
           IN  /\ NewChain(p, k) \in Seq(NodeWithin(Len(objects) + m))
               /\ Len(NewChain(p, k)) = m /\ m \in Nat /\ m >= 1
<1> DEFINE m == Len(p.comps) - k
           n == Len(objects) + m
<1>1. Len(p.comps) \in Nat /\ DOMAIN p.comps = 1..Len(p.comps)
  BY PathAssumption, LenProperties DEF Path
<1>2. m \in Nat /\ m >= 1 /\ Len(objects) \in Nat /\ n \in Nat
  BY <1>1, LenProperties DEF IInv, Arena
<1>3. NewChain(p, k) \in Seq(NodeWithin(n)) /\ Len(NewChain(p, k)) = m
  <2> DEFINE next(j) == [name |-> <<p.comps[k + j + 1]>>, target |-> Hard(Len(objects) + j + 1),
                         order |-> nextOrder + j]
             node(j) == [kind |-> "Group", refcount |-> 1,
                         links |-> IF j = m THEN <<>> ELSE <<next(j)>>]
  <2>1. ASSUME NEW j \in 1..m PROVE node(j) \in NodeWithin(n)
    <3>1. CASE j = m
      BY <3>1, EmptySeq DEF NodeWithin
    <3>2. CASE j # m
      <4>0. k + j + 1 \in DOMAIN p.comps
        <5> HIDE DEF next, node
        <5>1. k \in Nat /\ j \in Nat /\ j < Len(p.comps) - k
          BY <1>1, <1>2, <3>2
        <5> QED
          BY <1>1, <5>1
      <4>1. <<p.comps[k + j + 1]>> \in LinkName
        BY <4>0, NamesAndPaths
      <4>2. next(j) \in LinkWithin(n)
        <5>1. Len(objects) + j + 1 \in 1..n /\ nextOrder + j \in Nat
          BY <1>1, <1>2, <3>2 DEF IInv
        <5> HIDE DEF n
        <5> QED
          BY <4>1, <5>1 DEF LinkWithin, Link, Target, Hard
      <4> HIDE DEF next
      <4>3. <<next(j)>> \in Seq(LinkWithin(n))
        BY <4>2
      <4> QED
        BY <3>2, <4>3 DEF NodeWithin
    <3> QED
      BY <3>1, <3>2
  <2>2. NewChain(p, k) = [j \in 1..m |-> node(j)]
    BY DEF NewChain
  <2> HIDE DEF node, next
  <2> HIDE DEF m, n
  <2>3. [j \in 1..m |-> node(j)] \in Seq(NodeWithin(n))
    BY <1>2, <2>1, IsASeq
  <2>4. Len([j \in 1..m |-> node(j)]) = m
    BY <1>2
  <2> QED
    BY <2>2, <2>3, <2>4
<1> QED
  BY <1>2, <1>3

LEMMA CreateGroupStep ==
    ASSUME IInv, NEW t \in Thread, NEW s \in Handles, NEW p \in GroupPaths,
           CreateGroup(t, s, p)
    PROVE  IInv' /\ Extends(objects, objects')
<1> PICK k \in 0..(Len(p.comps) - 1), g \in Handles :
        /\ objects' = Push(objects, g, [name |-> <<p.comps[k + 1]>>,
                                        target |-> Hard(Len(objects) + 1),
                                        order |-> nextOrder]) \o NewChain(p, k)
        /\ nextOrder' = nextOrder + Len(p.comps) - k
  BY DEF CreateGroup
<1> DEFINE m == Len(p.comps) - k
           n == Len(objects) + m
           link == [name |-> <<p.comps[k + 1]>>, target |-> Hard(Len(objects) + 1),
                    order |-> nextOrder]
<1>1. Len(p.comps) \in Nat /\ DOMAIN p.comps = 1..Len(p.comps)
  BY PathAssumption, LenProperties DEF Path
<1>2. m \in Nat /\ m >= 1 /\ Len(objects) \in Nat /\ n \in Nat
  BY <1>1, LenProperties DEF IInv, Arena
<1>3. objects \in Arena(n)
  BY <1>2, ArenaGrows DEF IInv
<1>4. link \in LinkWithin(n)
  <2>1. k + 1 \in DOMAIN p.comps
    BY <1>1
  <2>2. <<p.comps[k + 1]>> \in LinkName
    BY <2>1, NamesAndPaths
  <2> QED
    BY <1>2, <2>2 DEF IInv, LinkWithin, Link, Target, Hard
<1>5. Push(objects, g, link) \in Arena(n) /\ SameShape(objects, Push(objects, g, link))
  BY <1>2, <1>3, <1>4, PushWithin DEF Handles
<1>6. NewChain(p, k) \in Seq(NodeWithin(n)) /\ Len(NewChain(p, k)) = m
  BY ChainWithin
<1>7. /\ objects' \in Seq(NodeWithin(n)) /\ Len(objects') = n
      /\ \A id \in 1..Len(objects) : objects'[id] = Push(objects, g, link)[id]
  <2>1. objects' = Push(objects, g, link) \o NewChain(p, k)
    OBVIOUS
  <2>2. n = Len(objects) + m
    OBVIOUS
  <2> HIDE DEF link, m, n
  <2>3. Push(objects, g, link) \in Seq(NodeWithin(n)) /\ Len(Push(objects, g, link)) = Len(objects)
    BY <1>5 DEF Arena, SameShape
  <2> DEFINE s1 == Push(objects, g, link)
             s2 == NewChain(p, k)
  <2>4. s1 \in Seq(NodeWithin(n)) /\ s2 \in Seq(NodeWithin(n))
    BY <1>6, <2>3
  <2>5. Len(s1) = Len(objects) /\ Len(s2) = m
    BY <1>6, <2>3
  <2> HIDE DEF s1, s2
  <2>6. /\ s1 \o s2 \in Seq(NodeWithin(n)) /\ Len(s1 \o s2) = Len(s1) + Len(s2)
        /\ \A id \in 1..(Len(s1) + Len(s2)) :
             (s1 \o s2)[id] = IF id <= Len(s1) THEN s1[id] ELSE s2[id - Len(s1)]
    BY <2>4, ConcatProperties
  <2>7. \A id \in 1..Len(objects) : (s1 \o s2)[id] = s1[id]
    BY <1>2, <2>5, <2>6
  <2> QED
    BY <2>1, <2>2, <2>5, <2>6, <2>7 DEF s1, s2
<1>8. Extends(objects, objects')
  <2>1. Len(objects) <= n
    BY <1>2
  <2> HIDE DEF link, m, n
  <2> QED
    BY <1>2, <1>5, <1>7, <2>1 DEF Extends, Arena, SameShape
<1>9. nextOrder' \in Nat
  BY <1>1, <1>2 DEF IInv
<1> QED
  BY <1>8, <1>9, ArenaStep DEF CreateGroup, IInv

(* create_dataset with a name, refused or not.                             *)
LEMMA CreateDatasetStep ==
    ASSUME IInv, NEW t \in Thread, NEW s \in Handles, NEW d \in Paths, NEW n \in Name,
           \/ CreateDataset(t, s, d, n)
           \/ CreateDatasetRefused(t, s, d, n)
           \/ CreateVirtual(t, s, d, n)
    PROVE  IInv' /\ Extends(objects, objects')
<1>1. objects \in Arena(Len(objects)) /\ Len(objects) \in Nat /\ nextOrder \in Nat
  BY LenProperties DEF IInv, Arena
<1>2. <<n>> \in LinkName /\ Unsplit(d, n) \in LinkName
  BY NamesAndPaths
<1>3. Extends(objects, Append(objects, EmptyDataset))
  <2>1. objects \in Arena(Len(objects) + 1)
    BY <1>1, ArenaGrows
  <2>2. EmptyDataset \in NodeWithin(Len(objects) + 1)
    BY EmptySeq DEF NodeWithin, EmptyDataset
  <2> QED
    BY <2>1, <2>2, AppendNode
<1>4. CASE CreateDataset(t, s, d, n)
  <2>1. PICK g \in DOMAIN objects :
          objects' = Append(Push(objects, g, [name |-> <<n>>, target |-> Hard(Len(objects) + 1),
                                              order |-> nextOrder]),
                            [EmptyDataset EXCEPT !.refcount = 1])
    BY <1>4 DEF CreateDataset
  <2>2. Extends(objects, objects')
    BY <1>1, <1>2, <2>1, PushNew
  <2> QED
    BY <1>1, <1>4, <2>2, ArenaStep DEF CreateDataset, IInv
<1>5. CASE CreateVirtual(t, s, d, n)
  <2>1. Extends(objects, objects')
    BY <1>1, <1>2, <1>5, PushNew DEF CreateVirtual, Handles
  <2> QED
    BY <1>1, <1>5, <2>1, ArenaStep DEF CreateVirtual, IInv
<1>6. CASE CreateDatasetRefused(t, s, d, n)
  BY <1>1, <1>3, <1>6, ArenaStep DEF CreateDatasetRefused, IInv
<1> QED
  BY <1>4, <1>5, <1>6

(* add_link, as the three link calls use it.                               *)
LEMMA AddLinkExtends ==
    ASSUME IInv, NEW s, NEW d, NEW n \in Name, NEW target \in Target,
           target.kind = "Hard" => target.obj \in DOMAIN objects,
           AddLink(s, d, n, target) \/ AddLinkRefused(s, d, n)
    PROVE  Extends(objects, objects') /\ nextOrder' \in Nat
<1>1. objects \in Arena(Len(objects)) /\ Len(objects) \in Nat /\ nextOrder \in Nat
      /\ DOMAIN objects = 1..Len(objects)
  BY LenProperties DEF IInv, Arena
<1>2. CASE AddLink(s, d, n, target)
  <2> DEFINE link == [name |-> <<n>>, target |-> target, order |-> nextOrder]
  <2>1. PICK g \in DOMAIN objects : objects' = Push(objects, g, link) /\ nextOrder' = nextOrder + 1
    BY <1>2 DEF AddLink
  <2>2. link \in LinkWithin(Len(objects))
    BY <1>1, NamesAndPaths DEF LinkWithin, Link
  <2> HIDE DEF link
  <2>3. Push(objects, g, link) \in Arena(Len(objects)) /\ SameShape(objects, Push(objects, g, link))
    BY <1>1, <2>2, PushWithin
  <2> QED
    BY <1>1, <2>1, <2>3, SameShapeExtends
<1>3. CASE AddLinkRefused(s, d, n)
  BY <1>1, <1>3, ExtendsItself DEF AddLinkRefused
<1> QED
  BY <1>2, <1>3

LEMMA LinkSoftStep ==
    ASSUME IInv, NEW t \in Thread, NEW s \in Handles, NEW d \in Paths, NEW n \in Name,
           \/ \E p \in SoftPaths : LinkSoft(t, s, d, n, p)
           \/ LinkExternal(t, s, d, n)
    PROVE  IInv' /\ Extends(objects, objects')
<1>1. External \in Target /\ External.kind # "Hard"
  BY DEF Target, External
<1>2. \A p \in SoftPaths : Soft(p) \in Target /\ Soft(p).kind # "Hard"
  BY PathAssumption DEF Target, Soft
<1>3. CASE LinkExternal(t, s, d, n)
  BY <1>1, <1>3, AddLinkExtends, ArenaStep DEF LinkExternal, IInv
<1>4. CASE \E p \in SoftPaths : LinkSoft(t, s, d, n, p)
  BY <1>2, <1>4, AddLinkExtends, ArenaStep DEF LinkSoft, IInv
<1> QED
  BY <1>3, <1>4

(* link_hard: the id it keeps between its critical sections stays an id of *)
(* the arena because the arena only grows.                                 *)
LEMMA LinkHardStep ==
    ASSUME IInv, NEW t \in Thread,
           \/ \E s \in Handles, p \in Paths, d \in Paths, n \in Name :
                LinkHardResolve(t, s, p, d, n)
           \/ LinkHardAdd(t) \/ LinkHardReadOnly(t) \/ LinkHardCount(t)
    PROVE  IInv' /\ Extends(objects, objects')
<1>1. objects \in Arena(Len(objects)) /\ Len(objects) \in Nat
      /\ DOMAIN objects = 1..Len(objects) /\ Extends(objects, objects)
  BY LenProperties, ExtendsItself DEF IInv, Arena
<1>2. CASE \E s \in Handles, p \in Paths, d \in Paths, n \in Name : LinkHardResolve(t, s, p, d, n)
  <2>1. PICK s \in Handles, d \in Paths, n \in Name, id \in DOMAIN objects :
          /\ linking' = [linking EXCEPT ![t] = [pc |-> "add", start |-> s, dir |-> d,
                                                leaf |-> n, obj |-> id]]
          /\ UNCHANGED <<objects, nextOrder, readOnly, aborted>>
    BY <1>2 DEF LinkHardResolve
  <2>2. [pc |-> "add", start |-> s, dir |-> d, leaf |-> n, obj |-> id] \in LinkHardCall
    BY <1>1 DEF LinkHardCall, Handles
  <2> QED
    BY <1>1, <2>1, <2>2 DEF IInv
<1>3. CASE LinkHardReadOnly(t)
  BY <1>1, <1>3 DEF LinkHardReadOnly, IInv, Idle
<1>4. CASE LinkHardCount(t)
  <2>1. linking[t].obj \in DOMAIN objects
    BY <1>4 DEF LinkHardCount, IInv
  <2>2. objects' \in Arena(Len(objects)) /\ SameShape(objects, objects')
    BY <1>1, <1>4, <2>1, CountWithin DEF LinkHardCount
  <2>3. Extends(objects, objects')
    BY <1>1, <2>2, SameShapeExtends
  <2>4. DOMAIN objects' = DOMAIN objects /\ Len(objects') = Len(objects)
    BY <1>1, <2>2, LenProperties DEF SameShape, Arena
  <2> QED
    BY <1>4, <2>2, <2>3, <2>4 DEF LinkHardCount, IInv, Idle
<1>5. CASE LinkHardAdd(t)
  <2> DEFINE c == linking[t]
  <2>1. c \in LinkHardCall /\ c.pc = "add" /\ c.obj \in DOMAIN objects
    BY <1>5 DEF LinkHardAdd, IInv, Idle
  <2>2. c.leaf \in Name
    BY <2>1 DEF LinkHardCall
  <2>3. Hard(c.obj) \in Target /\ Hard(c.obj).obj \in DOMAIN objects
    BY <1>1, <2>1 DEF Hard, Target
  <2>4. /\ AddLink(c.start, c.dir, c.leaf, Hard(c.obj)) \/ AddLinkRefused(c.start, c.dir, c.leaf)
        /\ \/ linking' = [linking EXCEPT ![t] = [pc |-> "count", obj |-> c.obj]]
           \/ linking' = [linking EXCEPT ![t] = Idle]
        /\ UNCHANGED <<readOnly, aborted>>
    BY <1>5 DEF LinkHardAdd
  <2>5. Extends(objects, objects') /\ nextOrder' \in Nat
    BY <2>2, <2>3, <2>4, AddLinkExtends
  <2>6. /\ linking' \in [Thread -> {Idle} \cup LinkHardCall]
        /\ \A u \in Thread : linking'[u].pc # "idle" => linking'[u].obj \in DOMAIN objects
    <3>1. [pc |-> "count", obj |-> c.obj] \in LinkHardCall
      BY <1>1, <2>1 DEF LinkHardCall
    <3> QED
      BY <2>1, <2>4, <3>1 DEF IInv, Idle
  <2>7. DOMAIN objects \subseteq DOMAIN objects' /\ Len(objects') >= 1
        /\ objects' \in Arena(Len(objects'))
    <3>1. DOMAIN objects' = 1..Len(objects') /\ Len(objects') \in Nat
      BY <2>5, LenProperties DEF Extends, Arena
    <3> QED
      BY <1>1, <2>5, <3>1 DEF Extends, IInv
  <2> QED
    BY <2>4, <2>5, <2>6, <2>7 DEF IInv
<1> QED
  BY <1>2, <1>3, <1>4, <1>5

(* relink and unlink: whatever they lose, they lose no object.             *)
LEMMA RemoveStepInv ==
    ASSUME IInv, NEW t \in Thread, RemoveStep(t)
    PROVE  IInv' /\ Extends(objects, objects')
<1>1. objects \in Arena(Len(objects)) /\ Len(objects) \in Nat
      /\ DOMAIN objects = 1..Len(objects)
  BY LenProperties DEF IInv, Arena
<1>2. PICK s \in Handles : \E i \in DOMAIN objects[s].links :
        Unlink(t, s, i) \/ \E d \in Paths, n \in Name : Relink(t, s, i, d, n)
  BY DEF RemoveStep
<1>3. PICK i \in DOMAIN objects[s].links :
        Unlink(t, s, i) \/ \E d \in Paths, n \in Name : Relink(t, s, i, d, n)
  BY <1>2
<1> DEFINE link == objects[s].links[i]
           cut == Cut(objects, s, i)
<1>4. s \in DOMAIN objects
  BY DEF Handles
<1>5. link \in LinkWithin(Len(objects))
  <2>0. objects[s] \in NodeWithin(Len(objects))
    BY <1>1, <1>4, ElementOfSeq DEF Arena
  <2>1. objects[s].links \in Seq(LinkWithin(Len(objects)))
    BY <2>0 DEF NodeWithin
  <2> QED
    BY <2>1, ElementOfSeq, LenProperties
<1>6. cut \in Arena(Len(objects)) /\ SameShape(objects, cut)
  BY <1>1, <1>4, CutWithin
<1>7. DOMAIN cut = DOMAIN objects /\ Len(cut) = Len(objects)
  BY <1>1, <1>6, LenProperties DEF Arena, SameShape
<1>8. CASE Unlink(t, s, i)
  <2>1. objects' = IF link.target.kind = "Hard" THEN Uncount(cut, link.target.obj) ELSE cut
    BY <1>8 DEF Unlink
  <2>2. link.target.kind = "Hard" => link.target.obj \in DOMAIN cut
    BY <1>1, <1>5, <1>7 DEF LinkWithin
  <2> HIDE DEF cut, link
  <2>3. objects' \in Arena(Len(objects)) /\ SameShape(cut, objects')
    <3>1. CASE link.target.kind = "Hard"
      BY <1>1, <1>6, <2>1, <2>2, <3>1, CountWithin
    <3>2. CASE link.target.kind # "Hard"
      BY <1>6, <2>1, <3>2 DEF SameShape
    <3> QED
      BY <3>1, <3>2
  <2>4. Extends(objects, objects')
    BY <1>1, <1>6, <1>7, <2>3, SameShapeExtends DEF SameShape
  <2> QED
    BY <1>8, <2>4, ArenaStep DEF Unlink, IInv
<1>9. CASE \E d \in Paths, n \in Name : Relink(t, s, i, d, n)
  <2>1. PICK d \in Paths, n \in Name : Relink(t, s, i, d, n)
    BY <1>9
  <2> DEFINE moved == [link EXCEPT !.name = <<n>>]
  <2>2. moved \in LinkWithin(Len(objects))
    BY <1>5, NamesAndPaths DEF LinkWithin, Link
  <2>3. objects' = cut \/ \E g \in DOMAIN cut : objects' = Push(cut, g, moved)
    BY <2>1 DEF Relink
  <2> HIDE DEF cut, moved
  <2>4. objects' \in Arena(Len(objects)) /\ SameShape(objects, objects')
    <3>1. CASE objects' = cut
      BY <1>6, <3>1
    <3>2. CASE \E g \in DOMAIN cut : objects' = Push(cut, g, moved)
      <4>1. PICK g \in DOMAIN cut : objects' = Push(cut, g, moved)
        BY <3>2
      <4>2. objects' \in Arena(Len(objects)) /\ SameShape(cut, objects')
        BY <1>1, <1>6, <2>2, <4>1, PushWithin
      <4> QED
        BY <1>6, <1>7, <4>2 DEF SameShape
    <3> QED
      BY <2>3, <3>1, <3>2
  <2>5. Extends(objects, objects')
    BY <1>1, <2>4, SameShapeExtends
  <2> QED
    BY <2>1, <2>5, ArenaStep DEF Relink, IInv
<1> QED
  BY <1>3, <1>8, <1>9

-----------------------------------------------------------------------------
LEMMA NextInv == IInv /\ [Next]_vars => IInv' /\ Extends(objects, objects')
<1> SUFFICES ASSUME IInv, [Next]_vars PROVE IInv' /\ Extends(objects, objects')
  OBVIOUS
<1>1. Extends(objects, objects)
  BY ExtendsItself
<1>2. CASE UNCHANGED vars
  BY <1>1, <1>2 DEF vars, IInv
<1>3. CASE SealReadOnly
  BY <1>1, <1>3 DEF SealReadOnly, IInv
<1>4. ASSUME NEW t \in Thread, Step(t) PROVE IInv' /\ Extends(objects, objects')
  <2>1. CASE CreateStep(t)
    BY <2>1, CreateGroupStep, CreateDatasetStep DEF CreateStep
  <2>2. CASE CreateAnonymous(t)
    <3>1. objects' = Append(objects, EmptyDataset)
      BY <2>2 DEF CreateAnonymous
    <3>2. Len(objects) \in Nat /\ objects \in Arena(Len(objects) + 1)
      BY LenProperties, ArenaGrows DEF IInv, Arena
    <3>3. EmptyDataset \in NodeWithin(Len(objects) + 1)
      BY EmptySeq DEF NodeWithin, EmptyDataset
    <3>4. Extends(objects, objects')
      BY <3>1, <3>2, <3>3, AppendNode
    <3> QED
      BY <2>2, <3>4, ArenaStep DEF CreateAnonymous, IInv
  <2>3. CASE LinkStep(t)
    BY <2>3, LinkSoftStep, LinkHardStep DEF LinkStep
  <2>4. CASE LinkHardAdd(t) \/ LinkHardReadOnly(t) \/ LinkHardCount(t)
    BY <2>4, LinkHardStep
  <2>5. CASE RemoveStep(t)
    BY <2>5, RemoveStepInv
  <2>6. CASE OverflowStep(t) \/ OverflowInLinkHard(t)
    <3>1. aborted' = TRUE /\ UNCHANGED <<objects, nextOrder, readOnly, linking>>
      BY <2>6 DEF OverflowStep, OverflowInCall, OverflowInRelink, OverflowInLinkHard
    <3> QED
      BY <1>1, <3>1 DEF IInv
  <2> QED
    BY <1>4, <2>1, <2>2, <2>3, <2>4, <2>5, <2>6 DEF Step
<1> QED
  BY <1>2, <1>3, <1>4 DEF Next

(* The invariant holds of every behaviour.                                 *)
THEOREM Invariance == Spec => []IInv
  BY InitInv, NextInv, PTL DEF Spec

(* Every variable keeps its type; in particular no refcount is ever taken  *)
(* below zero by unlink (group.rs, saturating_sub).                        *)
THEOREM TypeCorrect == Spec => []TypeOK
<1>1. IInv => TypeOK
  <2> SUFFICES ASSUME IInv PROVE TypeOK
    OBVIOUS
  <2>1. Seq(LinkWithin(Len(objects))) \subseteq Seq(Link)
    BY SeqMonotonic DEF LinkWithin
  <2>2. NodeWithin(Len(objects)) \subseteq Node
    BY <2>1 DEF NodeWithin, Node, Kind
  <2>3. objects \in Seq(Node)
    BY <2>2, SeqMonotonic DEF IInv, Arena
  <2> QED
    BY <2>3 DEF IInv, TypeOK
<1> QED
  BY <1>1, Invariance, PTL

(* No hard link and no link_hard call under way ever holds an id whose     *)
(* slot is empty: FileState::get never panics (model.rs).                  *)
THEOREM TargetsLive == Spec => []HardTargetsLive
<1>1. IInv => HardTargetsLive
  <2> SUFFICES ASSUME IInv PROVE HardTargetsLive
    OBVIOUS
  <2>1. DOMAIN objects = 1..Len(objects) /\ Len(objects) \in Nat
    BY LenProperties DEF IInv, Arena
  <2>2. \A id \in DOMAIN objects : objects[id] \in NodeWithin(Len(objects))
    BY <2>1, ElementOfSeq DEF IInv, Arena
  <2>3. \A id \in DOMAIN objects : Live(id)
    BY <2>2 DEF NodeWithin, Live
  <2>4. \A g \in DOMAIN objects : \A i \in DOMAIN objects[g].links :
          objects[g].links[i] \in LinkWithin(Len(objects))
    BY <2>2, ElementOfSeq, LenProperties DEF NodeWithin
  <2>5. \A g \in DOMAIN objects : \A i \in DOMAIN objects[g].links :
          LET t == objects[g].links[i].target IN t.kind = "Hard" => Live(t.obj)
    BY <2>1, <2>3, <2>4 DEF LinkWithin
  <2>6. Live(Root) /\ \A t \in Thread : linking[t].pc # "idle" => Live(linking[t].obj)
    BY <2>1, <2>3 DEF IInv, Root
  <2> QED
    BY <2>5, <2>6 DEF HardTargetsLive
<1> QED
  BY <1>1, Invariance, PTL

(* An id denotes the same object for as long as the file is open, whatever *)
(* was unlinked meanwhile: handles never dangle.                           *)
THEOREM ArenaIsStable == Spec => ArenaStable
<1>1. IInv /\ [Next]_vars =>
        [\A id \in DOMAIN objects :
           id \in DOMAIN objects' /\ objects'[id].kind = objects[id].kind]_vars
  <2> SUFFICES ASSUME IInv, [Next]_vars
               PROVE  \A id \in DOMAIN objects :
                        id \in DOMAIN objects' /\ objects'[id].kind = objects[id].kind
    OBVIOUS
  <2>1. Extends(objects, objects')
    BY NextInv
  <2>2. DOMAIN objects = 1..Len(objects) /\ Len(objects) \in Nat
    BY LenProperties DEF IInv, Arena
  <2>3. DOMAIN objects' = 1..Len(objects') /\ Len(objects') \in Nat
    BY <2>1, LenProperties DEF Extends, Arena
  <2> QED
    BY <2>1, <2>2, <2>3 DEF Extends
<1> QED
  BY <1>1, Invariance, PTL DEF Spec, ArenaStable

(* Once the file is read-only nothing is added or removed, although the    *)
(* last critical section of link_hard does not look at read_only again.    *)
THEOREM ReadOnlyIsFrozen == Spec => ReadOnlyFreezes
<1> DEFINE Frozen == /\ DOMAIN objects' = DOMAIN objects
                     /\ \A id \in DOMAIN objects : objects'[id].links = objects[id].links
                     /\ nextOrder' = nextOrder
<1>1. ASSUME IInv, [Next]_vars, readOnly PROVE Frozen
  <2>1. CASE UNCHANGED <<objects, nextOrder>>
    BY <2>1
  <2>2. ASSUME NEW t \in Thread, LinkHardCount(t) PROVE Frozen
    <3>1. objects' = [objects EXCEPT ![linking[t].obj].refcount = @ + 1] /\ nextOrder' = nextOrder
      BY <2>2 DEF LinkHardCount, Count
    <3>2. \A id \in DOMAIN objects : objects[id] \in NodeWithin(Len(objects))
      BY <1>1, ElementOfSeq, LenProperties DEF IInv, Arena
    <3>3. \A id \in DOMAIN objects :
            [objects[id] EXCEPT !.refcount = @ + 1].links = objects[id].links
      BY <3>2 DEF NodeWithin
    <3> QED
      BY <3>1, <3>3
  <2>3. ASSUME NEW t \in Thread, Step(t)
        PROVE  UNCHANGED <<objects, nextOrder>> \/ LinkHardCount(t)
    BY <1>1, <2>3 DEF Step, CreateStep, CreateAnonymous, LinkStep, LinkHardAdd, LinkHardReadOnly,
         RemoveStep, OverflowStep, OverflowInLinkHard, OverflowInCall, OverflowInRelink,
         CreateGroup, CreateDataset, CreateDatasetRefused, CreateVirtual, LinkSoft,
         LinkExternal, LinkHardResolve, Relink, Unlink, Writing
  <2> QED
    BY <1>1, <2>1, <2>2, <2>3 DEF Next, SealReadOnly, vars
<1> QED
  BY <1>1, Invariance, PTL DEF Spec, ReadOnlyFreezes

-----------------------------------------------------------------------------
(* Links *)

(* The creation orders of links, their names, and the reference counts of  *)
(* what they lead to.  A slot is a place a link has in the arena.  The     *)
(* lemmas say what the operators on the arena do to the slots; each of the *)
(* three invariants then follows from what a step adds, moves or removes.  *)

Slots(objs) == {p \in (DOMAIN objs) \X (Nat \ {0}) : p[2] \in DOMAIN objs[p[1]].links}
LinkIn(objs, p) == objs[p[1]].links[p[2]]

(* Where the links of an arena were before the link i of node s was cut.   *)
Shift(s, i, p) == IF p[1] = s /\ p[2] >= i THEN <<s, p[2] + 1>> ELSE p

(* Two arenas with the same links. *)
SameLinks(objs, objs2) ==
    /\ Slots(objs2) = Slots(objs)
    /\ \A p \in Slots(objs) : LinkIn(objs2, p) = LinkIn(objs, p)

-----------------------------------------------------------------------------
(* Slots and the operators on the arena *)

LEMMA NodeFacts ==
    ASSUME NEW n \in Nat, NEW objs \in Arena(n), NEW g \in DOMAIN objs
    PROVE  /\ DOMAIN objs = 1..Len(objs) /\ Len(objs) \in Nat
           /\ objs[g] \in NodeWithin(n)
           /\ objs[g].links \in Seq(LinkWithin(n)) /\ objs[g].refcount \in Nat
           /\ DOMAIN objs[g].links = 1..Len(objs[g].links) /\ Len(objs[g].links) \in Nat
           /\ \A i \in DOMAIN objs[g].links : objs[g].links[i] \in LinkWithin(n)
<1>1. DOMAIN objs = 1..Len(objs) /\ Len(objs) \in Nat
  BY LenProperties DEF Arena
<1>2. objs[g] \in NodeWithin(n)
  BY <1>1, ElementOfSeq DEF Arena
<1>3. objs[g].links \in Seq(LinkWithin(n)) /\ objs[g].refcount \in Nat
  BY <1>2 DEF NodeWithin
<1>4. DOMAIN objs[g].links = 1..Len(objs[g].links) /\ Len(objs[g].links) \in Nat
  BY <1>3, LenProperties
<1>5. \A i \in DOMAIN objs[g].links : objs[g].links[i] \in LinkWithin(n)
  BY <1>3, <1>4, ElementOfSeq
<1> QED
  BY <1>1, <1>2, <1>3, <1>4, <1>5

(* Slots by their coordinates.                                             *)
LEMMA SlotPairs ==
    ASSUME NEW n \in Nat, NEW objs \in Arena(n)
    PROVE  /\ \A g \in DOMAIN objs : \A i \in DOMAIN objs[g].links :
                <<g, i>> \in Slots(objs) /\ LinkIn(objs, <<g, i>>) = objs[g].links[i]
           /\ \A p \in Slots(objs) :
                /\ p = <<p[1], p[2]>> /\ p[1] \in DOMAIN objs /\ p[2] \in DOMAIN objs[p[1]].links
                /\ p[1] \in Nat /\ p[2] \in Nat /\ LinkIn(objs, p) \in LinkWithin(n)
<1>1. ASSUME NEW g \in DOMAIN objs, NEW i \in DOMAIN objs[g].links
      PROVE  <<g, i>> \in Slots(objs) /\ LinkIn(objs, <<g, i>>) = objs[g].links[i]
  <2>1. i \in Nat \ {0}
    BY NodeFacts
  <2> QED
    BY <2>1 DEF Slots, LinkIn
<1>2. ASSUME NEW p \in Slots(objs)
      PROVE  /\ p = <<p[1], p[2]>> /\ p[1] \in DOMAIN objs /\ p[2] \in DOMAIN objs[p[1]].links
             /\ p[1] \in Nat /\ p[2] \in Nat /\ LinkIn(objs, p) \in LinkWithin(n)
  <2>1. p = <<p[1], p[2]>> /\ p[1] \in DOMAIN objs /\ p[2] \in DOMAIN objs[p[1]].links
    BY DEF Slots
  <2>2. p[1] \in Nat /\ p[2] \in Nat /\ objs[p[1]].links[p[2]] \in LinkWithin(n)
    BY <2>1, NodeFacts
  <2> QED
    BY <2>1, <2>2 DEF LinkIn
<1> QED
  BY <1>1, <1>2

(* Push adds one slot. *)
LEMMA PushSlots ==
    ASSUME NEW n \in Nat, NEW objs \in Arena(n), NEW g \in DOMAIN objs, NEW link \in LinkWithin(n)
    PROVE  LET new == <<g, Len(objs[g].links) + 1>>
               objs2 == Push(objs, g, link)
           IN  /\ new \notin Slots(objs) /\ Slots(objs2) = Slots(objs) \cup {new}
               /\ LinkIn(objs2, new) = link
               /\ \A p \in Slots(objs) : LinkIn(objs2, p) = LinkIn(objs, p)
               /\ \A h \in DOMAIN objs : objs2[h].refcount = objs[h].refcount
<1> DEFINE ls == objs[g].links
           new == <<g, Len(ls) + 1>>
           objs2 == Push(objs, g, link)
<1>1. /\ ls \in Seq(LinkWithin(n)) /\ DOMAIN ls = 1..Len(ls) /\ Len(ls) \in Nat
      /\ objs[g] \in NodeWithin(n)
  BY NodeFacts
<1>2. /\ Append(ls, link) \in Seq(LinkWithin(n)) /\ Len(Append(ls, link)) = Len(ls) + 1
      /\ \A i \in 1..Len(ls) : Append(ls, link)[i] = ls[i]
      /\ Append(ls, link)[Len(ls) + 1] = link
  BY <1>1, AppendProperties
<1>3. DOMAIN Append(ls, link) = 1..(Len(ls) + 1)
  BY <1>2, LenProperties
<1>4. /\ DOMAIN objs2 = DOMAIN objs
      /\ objs2[g].links = Append(ls, link) /\ objs2[g].refcount = objs[g].refcount
      /\ \A h \in DOMAIN objs : h # g => objs2[h] = objs[h]
  BY <1>1 DEF Push, NodeWithin
<1> HIDE DEF ls, objs2
<1>5. new \notin Slots(objs) /\ new \in Slots(objs2) /\ LinkIn(objs2, new) = link
  BY <1>1, <1>2, <1>3, <1>4 DEF Slots, LinkIn, ls
<1>6. ASSUME NEW p \in Slots(objs)
      PROVE  p \in Slots(objs2) /\ LinkIn(objs2, p) = LinkIn(objs, p)
  BY <1>1, <1>2, <1>3, <1>4 DEF Slots, LinkIn, ls
<1>7. ASSUME NEW p \in Slots(objs2), p # new
      PROVE  p \in Slots(objs)
  BY <1>1, <1>2, <1>3, <1>4, <1>7 DEF Slots, ls
<1>8. \A h \in DOMAIN objs : objs2[h].refcount = objs[h].refcount
  BY <1>4
<1> QED
  BY <1>5, <1>6, <1>7, <1>8 DEF ls, objs2

(* Cut takes one slot away and moves those behind it.                      *)
LEMMA CutSlots ==
    ASSUME NEW n \in Nat, NEW objs \in Arena(n), NEW s \in DOMAIN objs,
           NEW i \in DOMAIN objs[s].links
    PROVE  LET objs2 == Cut(objs, s, i)
           IN  /\ \A p \in Slots(objs2) :
                    /\ Shift(s, i, p) \in Slots(objs) /\ Shift(s, i, p) # <<s, i>>
                    /\ LinkIn(objs2, p) = LinkIn(objs, Shift(s, i, p))
               /\ \A p, q \in Slots(objs2) : Shift(s, i, p) = Shift(s, i, q) => p = q
               /\ \A h \in DOMAIN objs : objs2[h].refcount = objs[h].refcount
<1> DEFINE ls == objs[s].links
           rest == RemoveAt(ls, i)
           objs2 == Cut(objs, s, i)
<1>1. /\ ls \in Seq(LinkWithin(n)) /\ DOMAIN ls = 1..Len(ls) /\ Len(ls) \in Nat
      /\ objs[s] \in NodeWithin(n) /\ i \in 1..Len(ls) /\ i \in Nat
      /\ \A j \in 1..Len(ls) : ls[j] \in LinkWithin(n)
  BY NodeFacts
<1>2. /\ rest \in Seq(LinkWithin(n)) /\ Len(rest) = Len(ls) - 1
      /\ \A j \in 1..(Len(ls) - 1) : rest[j] = IF j < i THEN ls[j] ELSE ls[j + 1]
  <2> DEFINE a == SubSeq(ls, 1, i - 1)
             b == SubSeq(ls, i + 1, Len(ls))
  <2> HIDE DEF ls
  <2>1. /\ a \in Seq(LinkWithin(n)) /\ Len(a) = i - 1
        /\ \A j \in 1..(i - 1) : a[j] = ls[j]
    <3>1. i - 1 \in Int /\ \A j \in 1..(i - 1) : ls[j] \in LinkWithin(n)
      BY <1>1
    <3>2. /\ SubSeq(ls, 1, i - 1) \in Seq(LinkWithin(n))
          /\ Len(SubSeq(ls, 1, i - 1)) = IF 1 <= i - 1 THEN (i - 1) - 1 + 1 ELSE 0
          /\ \A j \in 1..((i - 1) - 1 + 1) : SubSeq(ls, 1, i - 1)[j] = ls[1 + j - 1]
      BY <3>1, SubSeqProperties
    <3> QED
      BY <1>1, <3>2
  <2>2. /\ b \in Seq(LinkWithin(n)) /\ Len(b) = Len(ls) - i
        /\ \A j \in 1..(Len(ls) - i) : b[j] = ls[i + j]
    <3>1. i + 1 \in Int /\ Len(ls) \in Int /\ \A j \in (i + 1)..Len(ls) : ls[j] \in LinkWithin(n)
      BY <1>1
    <3>2. /\ SubSeq(ls, i + 1, Len(ls)) \in Seq(LinkWithin(n))
          /\ Len(SubSeq(ls, i + 1, Len(ls))) =
               IF i + 1 <= Len(ls) THEN Len(ls) - (i + 1) + 1 ELSE 0
          /\ \A j \in 1..(Len(ls) - (i + 1) + 1) :
               SubSeq(ls, i + 1, Len(ls))[j] = ls[(i + 1) + j - 1]
      BY <3>1, SubSeqProperties
    <3>3. Len(b) = Len(ls) - i /\ Len(ls) - (i + 1) + 1 = Len(ls) - i
      <4>1. i \in Int /\ Len(ls) \in Int /\ i <= Len(ls)
        BY <1>1
      <4>2. Len(b) = IF i + 1 <= Len(ls) THEN Len(ls) - (i + 1) + 1 ELSE 0
        BY <3>2
      <4> HIDE DEF b
      <4> QED
        BY <4>1, <4>2
    <3>4. ASSUME NEW j \in 1..(Len(ls) - i) PROVE b[j] = ls[i + j]
      <4>1. (i + 1) + j - 1 = i + j
        BY <1>1
      <4> QED
        BY <3>2, <3>3, <4>1
    <3> QED
      BY <3>2, <3>3, <3>4
  <2> HIDE DEF a, b
  <2>3. /\ a \o b \in Seq(LinkWithin(n)) /\ Len(a \o b) = Len(a) + Len(b)
        /\ \A j \in 1..(Len(a) + Len(b)) : (a \o b)[j] = IF j <= Len(a) THEN a[j] ELSE b[j - Len(a)]
    BY <2>1, <2>2, ConcatProperties
  <2>4. rest = a \o b
    BY DEF RemoveAt, a, b
  <2> HIDE DEF rest
  <2>5. Len(a) + Len(b) = Len(ls) - 1
    BY <1>1, <2>1, <2>2
  <2>6. ASSUME NEW j \in 1..(Len(ls) - 1)
        PROVE  rest[j] = IF j < i THEN ls[j] ELSE ls[j + 1]
    <3>1. CASE j < i
      BY <1>1, <2>1, <2>3, <2>4, <2>5, <3>1
    <3>2. CASE ~(j < i)
      <4>1. j - (i - 1) \in 1..(Len(ls) - i) /\ i + (j - (i - 1)) = j + 1
        BY <1>1, <3>2
      <4> QED
        BY <1>1, <2>1, <2>2, <2>3, <2>4, <2>5, <3>2, <4>1
    <3> QED
      BY <3>1, <3>2
  <2> QED
    BY <2>3, <2>4, <2>5, <2>6
<1>3. DOMAIN rest = 1..(Len(ls) - 1)
  BY <1>2, LenProperties
<1>4. /\ DOMAIN objs2 = DOMAIN objs
      /\ objs2[s].links = rest /\ objs2[s].refcount = objs[s].refcount
      /\ \A h \in DOMAIN objs : h # s => objs2[h] = objs[h]
  BY <1>1 DEF Cut, NodeWithin
<1> HIDE DEF ls, rest, objs2
<1>5. ASSUME NEW p \in Slots(objs2)
      PROVE  /\ Shift(s, i, p) \in Slots(objs) /\ Shift(s, i, p) # <<s, i>>
             /\ LinkIn(objs2, p) = LinkIn(objs, Shift(s, i, p))
  <2>1. /\ p = <<p[1], p[2]>> /\ p[1] \in DOMAIN objs /\ p[2] \in Nat \ {0}
        /\ p[2] \in DOMAIN objs2[p[1]].links
    BY <1>4 DEF Slots
  <2>2. CASE p[1] # s
    BY <1>4, <2>1, <2>2 DEF Shift, Slots, LinkIn
  <2>3. CASE p[1] = s
    <3>1. p[2] \in 1..(Len(ls) - 1) /\ objs2[p[1]].links[p[2]] = rest[p[2]]
      BY <1>3, <1>4, <2>1, <2>3
    <3>2. CASE p[2] < i
      <4>1. Shift(s, i, p) = p /\ p # <<s, i>>
        BY <1>1, <2>1, <3>2 DEF Shift
      <4>2. p \in Slots(objs)
        BY <1>1, <2>1, <2>3, <3>1 DEF Slots, ls
      <4> QED
        BY <1>2, <2>3, <3>1, <3>2, <4>1, <4>2 DEF LinkIn, ls
    <3>3. CASE ~(p[2] < i)
      <4>1. Shift(s, i, p) = <<s, p[2] + 1>> /\ p[2] + 1 # i /\ p[2] + 1 \in 1..Len(ls)
        BY <1>1, <2>1, <2>3, <3>1, <3>3 DEF Shift
      <4>2. <<s, p[2] + 1>> \in Slots(objs)
        BY <1>1, <2>1, <4>1 DEF Slots, ls
      <4> QED
        BY <1>2, <3>1, <3>3, <4>1, <4>2 DEF LinkIn, ls
    <3> QED
      BY <3>2, <3>3
  <2> QED
    BY <2>2, <2>3
<1>6. ASSUME NEW p \in Slots(objs2), NEW q \in Slots(objs2), Shift(s, i, p) = Shift(s, i, q)
      PROVE  p = q
  <2>1. /\ p = <<p[1], p[2]>> /\ p[2] \in Nat /\ q = <<q[1], q[2]>> /\ q[2] \in Nat /\ i \in Nat
    BY <1>1 DEF Slots
  <2>2. Shift(s, i, p)[1] = p[1] /\ Shift(s, i, q)[1] = q[1]
    BY DEF Shift
  <2>3. p[1] = q[1]
    BY <1>6, <2>2
  <2>4. p[2] = q[2]
    BY <1>6, <2>1, <2>3 DEF Shift
  <2> QED
    BY <2>1, <2>3, <2>4
<1>7. \A h \in DOMAIN objs : objs2[h].refcount = objs[h].refcount
  BY <1>4
<1> QED
  BY <1>5, <1>6, <1>7 DEF objs2

(* Counting a reference touches no link. *)
LEMMA CountSlots ==
    ASSUME NEW n \in Nat, NEW objs \in Arena(n), NEW id \in DOMAIN objs
    PROVE  /\ SameLinks(objs, Count(objs, id)) /\ SameLinks(objs, Uncount(objs, id))
           /\ \A h \in DOMAIN objs :
                /\ h # id => Count(objs, id)[h] = objs[h] /\ Uncount(objs, id)[h] = objs[h]
                /\ Count(objs, id)[h].links = objs[h].links
                /\ Uncount(objs, id)[h].links = objs[h].links
           /\ Count(objs, id)[id].refcount = objs[id].refcount + 1
           /\ Uncount(objs, id)[id].refcount =
                IF objs[id].refcount = 0 THEN 0 ELSE objs[id].refcount - 1
<1>1. objs[id] \in NodeWithin(n)
  BY NodeFacts
<1>2. /\ DOMAIN Count(objs, id) = DOMAIN objs /\ DOMAIN Uncount(objs, id) = DOMAIN objs
      /\ \A h \in DOMAIN objs :
           /\ h # id => Count(objs, id)[h] = objs[h] /\ Uncount(objs, id)[h] = objs[h]
           /\ Count(objs, id)[h].links = objs[h].links
           /\ Uncount(objs, id)[h].links = objs[h].links
      /\ Count(objs, id)[id].refcount = objs[id].refcount + 1
      /\ Uncount(objs, id)[id].refcount = IF objs[id].refcount = 0 THEN 0 ELSE objs[id].refcount - 1
  BY <1>1 DEF Count, Uncount, NodeWithin
<1>3. SameLinks(objs, Count(objs, id)) /\ SameLinks(objs, Uncount(objs, id))
  BY <1>2 DEF SameLinks, Slots, LinkIn
<1> QED
  BY <1>2, <1>3

(* New nodes at the end of the arena bring their own slots.                *)
LEMMA ConcatSlots ==
    ASSUME NEW n \in Nat, NEW objs \in Arena(n), NEW more \in Arena(n)
    PROVE  LET objs2 == objs \o more
           IN  /\ Slots(objs) \subseteq Slots(objs2)
               /\ \A p \in Slots(objs) : LinkIn(objs2, p) = LinkIn(objs, p)
               /\ \A p \in Slots(objs2) \ Slots(objs) :
                    /\ p[1] - Len(objs) \in DOMAIN more
                    /\ <<p[1] - Len(objs), p[2]>> \in Slots(more)
                    /\ LinkIn(objs2, p) = LinkIn(more, <<p[1] - Len(objs), p[2]>>)
<1> DEFINE objs2 == objs \o more
<1>1. /\ DOMAIN objs = 1..Len(objs) /\ Len(objs) \in Nat
      /\ DOMAIN more = 1..Len(more) /\ Len(more) \in Nat
  BY LenProperties DEF Arena
<1>2. /\ objs2 \in Seq(NodeWithin(n)) /\ Len(objs2) = Len(objs) + Len(more)
      /\ \A j \in 1..(Len(objs) + Len(more)) :
           objs2[j] = IF j <= Len(objs) THEN objs[j] ELSE more[j - Len(objs)]
  BY ConcatProperties DEF Arena
<1>3. DOMAIN objs2 = 1..(Len(objs) + Len(more))
  BY <1>2, LenProperties
<1> HIDE DEF objs2
<1>4. \A j \in DOMAIN objs : j \in DOMAIN objs2 /\ objs2[j] = objs[j]
  BY <1>1, <1>2, <1>3
<1>5. Slots(objs) \subseteq Slots(objs2) /\ \A p \in Slots(objs) : LinkIn(objs2, p) = LinkIn(objs, p)
  BY <1>4 DEF Slots, LinkIn
<1>6. ASSUME NEW p \in Slots(objs2) \ Slots(objs)
      PROVE  /\ p[1] - Len(objs) \in DOMAIN more
             /\ <<p[1] - Len(objs), p[2]>> \in Slots(more)
             /\ LinkIn(objs2, p) = LinkIn(more, <<p[1] - Len(objs), p[2]>>)
  <2>1. p[1] \in DOMAIN objs2 /\ p[2] \in Nat \ {0} /\ p[2] \in DOMAIN objs2[p[1]].links
        /\ p = <<p[1], p[2]>>
    BY DEF Slots
  <2>2. p[1] \notin DOMAIN objs
    BY <1>4, <2>1 DEF Slots
  <2>3. p[1] - Len(objs) \in 1..Len(more) /\ objs2[p[1]] = more[p[1] - Len(objs)]
    BY <1>1, <1>2, <1>3, <2>1, <2>2
  <2> QED
    BY <1>1, <2>1, <2>3 DEF Slots, LinkIn
<1> QED
  BY <1>5, <1>6 DEF objs2

-----------------------------------------------------------------------------
(* Creation orders *)

Ordered(objs, n) ==
    /\ \A p \in Slots(objs) : LinkIn(objs, p).order < n
    /\ \A p, q \in Slots(objs) : LinkIn(objs, p).order = LinkIn(objs, q).order => p = q

LEMMA OrderIsNat ==
    ASSUME NEW n \in Nat, NEW objs \in Arena(n), NEW p \in Slots(objs)
    PROVE  LinkIn(objs, p).order \in Nat
<1>1. LinkIn(objs, p) \in LinkWithin(n)
  BY SlotPairs
<1> QED
  BY <1>1 DEF LinkWithin, Link

LEMMA OrderedPush ==
    ASSUME NEW n \in Nat, NEW objs \in Arena(n), NEW g \in DOMAIN objs, NEW link \in LinkWithin(n),
           NEW o \in Nat, NEW o2 \in Nat, Ordered(objs, o), o <= o2, link.order < o2,
           \A p \in Slots(objs) : LinkIn(objs, p).order # link.order
    PROVE  Ordered(Push(objs, g, link), o2)
<1> DEFINE new == <<g, Len(objs[g].links) + 1>>
           objs2 == Push(objs, g, link)
<1>1. /\ Slots(objs2) = Slots(objs) \cup {new} /\ LinkIn(objs2, new) = link
      /\ \A p \in Slots(objs) : LinkIn(objs2, p) = LinkIn(objs, p)
  BY PushSlots
<1>2. \A p \in Slots(objs) : LinkIn(objs, p).order \in Nat
  BY OrderIsNat
<1> HIDE DEF new, objs2
<1>3. Ordered(objs2, o2)
  BY <1>1, <1>2 DEF Ordered
<1> QED
  BY <1>3 DEF objs2

LEMMA OrderedCut ==
    ASSUME NEW n \in Nat, NEW objs \in Arena(n), NEW s \in DOMAIN objs,
           NEW i \in DOMAIN objs[s].links, NEW o \in Nat, Ordered(objs, o)
    PROVE  /\ Ordered(Cut(objs, s, i), o)
           /\ \A p \in Slots(Cut(objs, s, i)) :
                LinkIn(Cut(objs, s, i), p).order # objs[s].links[i].order
           /\ objs[s].links[i].order < o
<1> DEFINE objs2 == Cut(objs, s, i)
<1>1. /\ \A p \in Slots(objs2) :
           /\ Shift(s, i, p) \in Slots(objs) /\ Shift(s, i, p) # <<s, i>>
           /\ LinkIn(objs2, p) = LinkIn(objs, Shift(s, i, p))
      /\ \A p, q \in Slots(objs2) : Shift(s, i, p) = Shift(s, i, q) => p = q
  BY CutSlots
<1>2. <<s, i>> \in Slots(objs) /\ LinkIn(objs, <<s, i>>) = objs[s].links[i]
  BY SlotPairs
<1> HIDE DEF objs2
<1>3. Ordered(objs2, o)
  BY <1>1 DEF Ordered
<1>4. \A p \in Slots(objs2) : LinkIn(objs2, p).order # objs[s].links[i].order
  BY <1>1, <1>2 DEF Ordered
<1> QED
  BY <1>2, <1>3, <1>4 DEF objs2, Ordered

LEMMA OrderedConcat ==
    ASSUME NEW n \in Nat, NEW objs \in Arena(n), NEW more \in Arena(n),
           NEW o \in Nat, NEW o2 \in Nat, Ordered(objs, o), Ordered(more, o2), o <= o2,
           \A p \in Slots(more) : o <= LinkIn(more, p).order
    PROVE  Ordered(objs \o more, o2)
<1> DEFINE objs2 == objs \o more
           there(p) == <<p[1] - Len(objs), p[2]>>
<1>1. /\ Slots(objs) \subseteq Slots(objs2)
      /\ \A p \in Slots(objs) : LinkIn(objs2, p) = LinkIn(objs, p)
      /\ \A p \in Slots(objs2) \ Slots(objs) :
           there(p) \in Slots(more) /\ LinkIn(objs2, p) = LinkIn(more, there(p))
  BY ConcatSlots
<1>2. /\ \A p \in Slots(objs) : LinkIn(objs, p).order \in Nat
      /\ \A p \in Slots(more) : LinkIn(more, p).order \in Nat
  BY OrderIsNat
<1>3. objs2 \in Arena(n) /\ Len(objs) \in Nat
  BY ConcatProperties, LenProperties DEF Arena
<1>4. \A p, q \in Slots(objs2) : there(p) = there(q) => p = q
  <2>1. \A p \in Slots(objs2) : p = <<p[1], p[2]>> /\ p[1] \in Nat
    BY <1>3, SlotPairs
  <2> QED
    BY <1>3, <2>1
<1> HIDE DEF objs2, there
<1>5. \A p \in Slots(objs2) : LinkIn(objs2, p).order < o2
  BY <1>1, <1>2 DEF Ordered
<1>6. \A p, q \in Slots(objs2) : LinkIn(objs2, p).order = LinkIn(objs2, q).order => p = q
  BY <1>1, <1>2, <1>4 DEF Ordered
<1> QED
  BY <1>5, <1>6 DEF objs2, Ordered

LEMMA OrderedSame ==
    ASSUME NEW objs, NEW objs2, SameLinks(objs, objs2), NEW o, Ordered(objs, o)
    PROVE  Ordered(objs2, o)
  BY DEF SameLinks, Ordered

(* An object without links at the end of the arena.                        *)
LEMMA OrderedAppend ==
    ASSUME NEW n \in Nat, NEW objs \in Arena(n), NEW node \in NodeWithin(n), node.links = <<>>,
           NEW o \in Nat, Ordered(objs, o)
    PROVE  Ordered(Append(objs, node), o)
<1>1. Append(objs, node) = objs \o <<node>>
  BY AppendIsConcat DEF Arena
<1>2. <<node>> \in Arena(n) /\ Slots(<<node>>) = {}
  BY DEF Arena, Slots
<1> QED
  BY <1>1, <1>2, OrderedConcat DEF Ordered

(* As many creation orders have been handed out as a group has links.      *)
LEMMA OrderedBound ==
    ASSUME NEW n \in Nat, NEW objs \in Arena(n), NEW o \in Nat, Ordered(objs, o),
           NEW g \in DOMAIN objs
    PROVE  Len(objs[g].links) <= o
<1> DEFINE ls == objs[g].links
           f == [i \in 1..Len(ls) |-> ls[i].order]
<1>1. /\ DOMAIN ls = 1..Len(ls) /\ Len(ls) \in Nat
      /\ \A i \in DOMAIN ls : ls[i] \in LinkWithin(n)
  BY NodeFacts
<1>2. \A i \in DOMAIN ls : <<g, i>> \in Slots(objs) /\ LinkIn(objs, <<g, i>>) = ls[i]
  BY SlotPairs
<1> HIDE DEF ls
<1>3. \A i \in 1..Len(ls) : ls[i].order \in 0..(o - 1)
  <2> SUFFICES ASSUME NEW i \in 1..Len(ls) PROVE ls[i].order \in 0..(o - 1)
    OBVIOUS
  <2>1. ls[i].order \in Nat
    BY <1>1 DEF LinkWithin, Link
  <2>2. ls[i].order < o
    BY <1>1, <1>2 DEF Ordered
  <2> QED
    BY <2>1, <2>2
<1>4. \A i, j \in 1..Len(ls) : ls[i].order = ls[j].order => i = j
  <2>1. \A i, j \in 1..Len(ls) : ls[i].order = ls[j].order => <<g, i>> = <<g, j>>
    BY <1>1, <1>2 DEF Ordered
  <2> QED
    BY <2>1
<1>5. f \in Injection(1..Len(ls), 0..(o - 1))
  <2>1. f \in [1..Len(ls) -> 0..(o - 1)] /\ \A i, j \in 1..Len(ls) : f[i] = f[j] => i = j
    BY <1>3, <1>4
  <2> HIDE DEF f
  <2> QED
    BY <2>1, Fun_IsInj
<1>6. IsFiniteSet(0..(o - 1)) /\ Cardinality(0..(o - 1)) = o
  <2>1. 0 \in Int /\ o - 1 \in Int
    OBVIOUS
  <2>2. IsFiniteSet(0..(o - 1)) /\ Cardinality(0..(o - 1)) = IF 0 > o - 1 THEN 0 ELSE (o - 1) - 0 + 1
    BY <2>1, FS_Interval
  <2> QED
    BY <2>2
<1>7. Cardinality(1..Len(ls)) = Len(ls)
  <2>1. 1 \in Int /\ Len(ls) \in Int
    BY <1>1
  <2>2. Cardinality(1..Len(ls)) = IF 1 > Len(ls) THEN 0 ELSE Len(ls) - 1 + 1
    BY <2>1, FS_Interval
  <2> QED
    BY <1>1, <2>2
<1> HIDE DEF f
<1>8. Cardinality(1..Len(ls)) <= Cardinality(0..(o - 1))
  BY <1>5, <1>6, FS_Injection
<1> QED
  BY <1>6, <1>7, <1>8 DEF ls

-----------------------------------------------------------------------------
(* What a step does to the links *)

(* Objects that a call adds at the end of an arena of length n: each is    *)
(* referenced once and links to the next one, or to nothing.               *)
Chain(more, n, o) ==
    \A j \in 1..Len(more) :
      /\ more[j].refcount = 1
      /\ \/ more[j].links = <<>>
         \/ /\ j < Len(more) /\ Len(more[j].links) = 1
            /\ more[j].links[1].target = Hard(n + j + 1)
            /\ more[j].links[1].order = o + j

(* A link with the next creation order is pushed into g, and new objects   *)
(* are added for it to lead to.                                            *)
Adds(g, link, more) ==
    /\ g \in DOMAIN objects
    /\ link \in LinkWithin(Len(objects) + Len(more)) /\ link.order = nextOrder
    /\ more \in Arena(Len(objects) + Len(more)) /\ Chain(more, Len(objects), nextOrder)
    /\ more # <<>> => link.target = Hard(Len(objects) + 1)
    /\ objects' = Push(objects, g, link) \o more
    /\ nextOrder' \in Nat /\ nextOrder < nextOrder' /\ nextOrder + Len(more) <= nextOrder'

(* No link of g has the name.                                              *)
NameFree(g, name) == \A i \in DOMAIN objects[g].links : objects[g].links[i].name # name

(* A name that Group::find does not find is the name of no link.           *)
LEMMA NotFound ==
    ASSUME NEW S, NEW ls \in Seq(S), NEW name, Find(ls, name) = 0
    PROVE  \A i \in DOMAIN ls : ls[i].name # name
<1> DEFINE I == {i \in 1..Len(ls) : ls[i].name = name}
<1>1. DOMAIN ls = 1..Len(ls) /\ Len(ls) \in Nat
  BY LenProperties
<1>2. I \in SUBSET Nat /\ 0 \notin I
  BY <1>1
<1>3. Find(ls, name) = IF I # {} THEN CHOOSE x \in I : \A y \in I : x <= y ELSE 0
  BY DEF Find, SelectInSeq, Min
<1> HIDE DEF I
<1>4. I # {} => (CHOOSE x \in I : \A y \in I : x <= y) \in I
  BY <1>2, LeastMember
<1>5. I = {}
  BY <1>2, <1>3, <1>4
<1> QED
  BY <1>1, <1>5 DEF I

LEMMA ArenaFacts ==
    ASSUME IInv
    PROVE  /\ objects \in Arena(Len(objects)) /\ Len(objects) \in Nat /\ Len(objects) >= 1
           /\ DOMAIN objects = 1..Len(objects) /\ nextOrder \in Nat
  BY LenProperties DEF IInv, Arena

LEMMA CreateGroupAdds ==
    ASSUME IInv, NEW t \in Thread, NEW s \in Handles, NEW p \in GroupPaths,
           CreateGroup(t, s, p)
    PROVE  \E g, link, more :
             /\ Adds(g, link, more) /\ more # <<>>
             /\ NameFree(g, link.name)
<1>1. PICK k \in 0..(Len(p.comps) - 1), g \in Handles :
        /\ Find(objects[g].links, <<p.comps[k + 1]>>) = 0
        /\ objects' = Push(objects, g, [name |-> <<p.comps[k + 1]>>,
                                        target |-> Hard(Len(objects) + 1),
                                        order |-> nextOrder]) \o NewChain(p, k)
        /\ nextOrder' = nextOrder + Len(p.comps) - k
  BY DEF CreateGroup
<1> DEFINE m == Len(p.comps) - k
           n == Len(objects) + m
           link == [name |-> <<p.comps[k + 1]>>, target |-> Hard(Len(objects) + 1),
                    order |-> nextOrder]
           more == NewChain(p, k)
<1>2. Len(p.comps) \in Nat /\ DOMAIN p.comps = 1..Len(p.comps)
  BY PathAssumption, LenProperties DEF Path
<1>3. more \in Arena(n) /\ Len(more) = m /\ m \in Nat /\ m >= 1
  BY ChainWithin DEF Arena
<1>4. link \in LinkWithin(n) /\ link.name = <<p.comps[k + 1]>> /\ link.order = nextOrder
      /\ link.target = Hard(Len(objects) + 1)
  <2>1. <<p.comps[k + 1]>> \in LinkName
    <3>1. k + 1 \in DOMAIN p.comps
      BY <1>2
    <3> QED
      BY <3>1, NamesAndPaths
  <2>2. Len(objects) + 1 \in 1..n
    BY <1>3, ArenaFacts
  <2> HIDE DEF n
  <2> QED
    BY <2>1, <2>2, ArenaFacts DEF LinkWithin, Link, Target, Hard
<1>5. Chain(more, Len(objects), nextOrder)
  <2> SUFFICES ASSUME NEW j \in 1..m
               PROVE  /\ more[j].refcount = 1
                      /\ \/ more[j].links = <<>>
                         \/ /\ j < m /\ Len(more[j].links) = 1
                            /\ more[j].links[1].target = Hard(Len(objects) + j + 1)
                            /\ more[j].links[1].order = nextOrder + j
    BY <1>3 DEF Chain
  <2>1. more[j] = [kind |-> "Group", refcount |-> 1,
                   links |-> IF j = m THEN <<>>
                             ELSE << [name |-> <<p.comps[k + j + 1]>>,
                                      target |-> Hard(Len(objects) + j + 1),
                                      order |-> nextOrder + j] >>]
    BY <1>2 DEF NewChain
  <2> HIDE DEF more
  <2>2. CASE j = m
    BY <2>1, <2>2
  <2>3. CASE j # m
    <3>1. j < m
      BY <1>3, <2>3
    <3> QED
      BY <2>1, <2>3, <3>1
  <2> QED
    BY <2>2, <2>3
<1>6. NameFree(g, <<p.comps[k + 1]>>)
  <2>1. objects[g].links \in Seq(LinkWithin(Len(objects)))
    BY ArenaFacts, NodeFacts DEF Handles
  <2> QED
    BY <1>1, <2>1, NotFound DEF NameFree
<1>7. /\ nextOrder' \in Nat /\ nextOrder < nextOrder' /\ nextOrder + Len(more) <= nextOrder'
      /\ objects' = Push(objects, g, link) \o more
      /\ n = Len(objects) + Len(more)
  <2>1. objects' = Push(objects, g, link) \o more
    BY <1>1
  <2>2. n = Len(objects) + Len(more)
    BY <1>3
  <2>3. nextOrder' = nextOrder + Len(p.comps) - k /\ nextOrder \in Nat /\ k \in Nat
    BY <1>1, ArenaFacts
  <2>4. nextOrder' = nextOrder + m
    BY <1>2, <2>3
  <2> HIDE DEF link, more, n, m
  <2> QED
    BY <1>3, <2>1, <2>2, <2>3, <2>4
<1>8. g \in DOMAIN objects
  BY DEF Handles
<1> HIDE DEF link, more, n
<1>9. Adds(g, link, more)
  BY <1>3, <1>4, <1>5, <1>7, <1>8 DEF Adds
<1> QED
  <2>1. more # <<>>
    BY <1>3
  <2> QED
    BY <1>4, <1>6, <1>9, <2>1

(* A dataset that is created with a link to it.                            *)
LEMMA OneObject ==
    ASSUME IInv, NEW g \in DOMAIN objects, NEW name \in LinkName, nextOrder' = nextOrder + 1,
           objects' = Append(Push(objects, g, [name |-> name, target |-> Hard(Len(objects) + 1),
                                               order |-> nextOrder]),
                             [EmptyDataset EXCEPT !.refcount = 1])
    PROVE  \E link, more : Adds(g, link, more) /\ more # <<>> /\ link.name = name
<1> DEFINE link == [name |-> name, target |-> Hard(Len(objects) + 1), order |-> nextOrder]
           node == [EmptyDataset EXCEPT !.refcount = 1]
           n == Len(objects) + 1
<1>1. n \in Nat /\ objects \in Arena(n)
  BY ArenaFacts, ArenaGrows
<1>2. link \in LinkWithin(n) /\ link.name = name /\ link.order = nextOrder
      /\ link.target = Hard(Len(objects) + 1)
  BY <1>1, ArenaFacts DEF LinkWithin, Link, Target, Hard
<1>3. node \in NodeWithin(n) /\ node.refcount = 1 /\ node.links = <<>>
  BY EmptySeq DEF NodeWithin, EmptyDataset
<1>4. objects' = Append(Push(objects, g, link), node)
  OBVIOUS
<1> HIDE DEF link, node
<1>5. Push(objects, g, link) \in Arena(n)
  BY <1>1, <1>2, PushWithin
<1>6. objects' = Push(objects, g, link) \o <<node>>
  BY <1>3, <1>4, <1>5, AppendIsConcat DEF Arena
<1>7. <<node>> \in Arena(n) /\ Len(<<node>>) = 1 /\ Chain(<<node>>, Len(objects), nextOrder)
  BY <1>3 DEF Arena, Chain
<1>8. Adds(g, link, <<node>>)
  <2>1. Len(objects) + Len(<<node>>) = n /\ nextOrder + Len(<<node>>) = nextOrder + 1
    BY <1>7
  <2>2. nextOrder' \in Nat /\ nextOrder < nextOrder' /\ nextOrder + Len(<<node>>) <= nextOrder'
    BY <2>1, ArenaFacts
  <2> HIDE DEF n
  <2> QED
    BY <1>2, <1>6, <1>7, <2>1, <2>2 DEF Adds
<1> QED
  <2>1. <<node>> # <<>>
    OBVIOUS
  <2> QED
    BY <1>2, <1>8, <2>1

(* add_link. *)
LEMMA AddLinkAdds ==
    ASSUME IInv, NEW s, NEW d, NEW n \in Name, NEW target \in Target,
           target.kind = "Hard" => target.obj \in DOMAIN objects,
           AddLink(s, d, n, target)
    PROVE  \E g, link :
             /\ Adds(g, link, <<>>) /\ link.target = target
             /\ NameFree(g, link.name)
<1> DEFINE link == [name |-> <<n>>, target |-> target, order |-> nextOrder]
<1>1. PICK g \in DOMAIN objects :
        /\ Find(objects[g].links, <<n>>) = 0
        /\ objects' = Push(objects, g, link) /\ nextOrder' = nextOrder + 1
  BY DEF AddLink, Free
<1>2. link \in LinkWithin(Len(objects)) /\ link.name = <<n>> /\ link.order = nextOrder
      /\ link.target = target
  BY NamesAndPaths, ArenaFacts DEF LinkWithin, Link
<1> HIDE DEF link
<1>3. Push(objects, g, link) \in Arena(Len(objects))
  BY <1>2, ArenaFacts, PushWithin
<1>4. objects' = Push(objects, g, link) \o <<>>
  BY <1>1, <1>3, ConcatEmptySeq DEF Arena
<1>5. <<>> \in Arena(Len(objects)) /\ Len(<<>>) = 0 /\ Chain(<<>>, Len(objects), nextOrder)
  BY EmptySeq DEF Arena, Chain
<1>6. NameFree(g, <<n>>)
  <2>1. objects[g].links \in Seq(LinkWithin(Len(objects)))
    BY ArenaFacts, NodeFacts
  <2> QED
    BY <1>1, <2>1, NotFound DEF NameFree
<1>7. Adds(g, link, <<>>)
  <2>1. Len(objects) + Len(<<>>) = Len(objects) /\ nextOrder + Len(<<>>) = nextOrder
    BY <1>5, ArenaFacts
  <2> QED
    BY <1>1, <1>2, <1>4, <1>5, <2>1, ArenaFacts DEF Adds
<1> QED
  BY <1>2, <1>6, <1>7

(* No link_hard call comes to owe a count, and none pays one.              *)
SameCounts == \A id \in Nat : Uncounted(id)' = Uncounted(id)

(* What a step may do to the links: nothing; *)
Quiet ==
    /\ UNCHANGED objects /\ nextOrder' \in Nat /\ nextOrder <= nextOrder' /\ SameCounts
(* add one, with the object it leads to or to no object of the file;       *)
Creates ==
    \E g, link, more :
      /\ Adds(g, link, more) /\ (more # <<>> \/ link.target.kind # "Hard")
      /\ NameFree(g, link.name) \/ "create_virtual" \in Calls
      /\ SameCounts
(* add one to an object of the file, whose count is then owed;             *)
Owes ==
    \E t \in Thread : \E id \in DOMAIN objects : \E g, link :
      /\ Adds(g, link, <<>>) /\ link.target = Hard(id) /\ NameFree(g, link.name)
      /\ linking[t].pc = "add" /\ linking' = [linking EXCEPT ![t] = [pc |-> "count", obj |-> id]]
(* pay an owed count;                                                      *)
Pays ==
    \E t \in Thread, id \in DOMAIN objects :
      /\ objects' = Count(objects, id) /\ nextOrder' = nextOrder
      /\ t \in Uncounted(id) /\ linking' = [linking EXCEPT ![t] = Idle]
(* add an object that nothing links to;                                    *)
Spares ==
    /\ objects' = Append(objects, EmptyDataset)
    /\ nextOrder' \in Nat /\ nextOrder <= nextOrder' /\ SameCounts
(* move or lose one;                                                       *)
Moved(s, i, moved) ==
    LET link == objects[s].links[i]
        cut == Cut(objects, s, i)
    IN  /\ moved \in LinkWithin(Len(objects))
        /\ moved.order = link.order /\ moved.target = link.target
        /\ objects' = cut \/ \E g \in DOMAIN cut : objects' = Push(cut, g, moved)
        /\ nextOrder' = nextOrder /\ SameCounts
Moves ==
    /\ "relink" \in Calls
    /\ \E s \in DOMAIN objects : \E i \in DOMAIN objects[s].links : \E moved : Moved(s, i, moved)
(* remove one. *)
Removed(s, i) ==
    LET cut == Cut(objects, s, i)
        target == objects[s].links[i].target
    IN  /\ objects' = IF target.kind = "Hard" THEN Uncount(cut, target.obj) ELSE cut
        /\ nextOrder' = nextOrder /\ SameCounts
Removes == \E s \in DOMAIN objects : \E i \in DOMAIN objects[s].links : Removed(s, i)

Effect == Quiet \/ Creates \/ Owes \/ Pays \/ Spares \/ Moves \/ Removes

LEMMA SameLinking == ASSUME UNCHANGED linking PROVE SameCounts
  BY DEF SameCounts, Uncounted

(* A call that neither begins nor ends in the third critical section.      *)
LEMMA SameLinkingBut ==
    ASSUME IInv, NEW t \in Thread, NEW c, linking[t].pc # "count", c.pc # "count",
           linking' = [linking EXCEPT ![t] = c]
    PROVE  SameCounts
<1>1. linking'[t] = c /\ \A u \in Thread : u # t => linking'[u] = linking[u]
  BY DEF IInv
<1>2. ASSUME NEW id, NEW u \in Thread
      PROVE  (linking'[u].pc = "count" /\ linking'[u].obj = id)
               <=> (linking[u].pc = "count" /\ linking[u].obj = id)
  BY <1>1
<1> QED
  BY <1>2 DEF SameCounts, Uncounted

LEMMA CreateEffect ==
    ASSUME IInv, NEW t \in Thread, CreateStep(t) \/ CreateAnonymous(t)
    PROVE  Effect
<1>1. CASE CreateAnonymous(t)
  BY <1>1, ArenaFacts, SameLinking DEF CreateAnonymous, Effect, Spares
<1>2. CASE CreateStep(t)
  <2>1. PICK s \in Handles :
          \/ \E p \in GroupPaths : CreateGroup(t, s, p)
          \/ \E d \in Paths, n \in Name :
               CreateDataset(t, s, d, n) \/ CreateDatasetRefused(t, s, d, n)
                 \/ CreateVirtual(t, s, d, n)
    BY <1>2 DEF CreateStep
  <2>2. CASE \E p \in GroupPaths : CreateGroup(t, s, p)
    <3>1. PICK p \in GroupPaths : CreateGroup(t, s, p)
      BY <2>2
    <3>2. SameCounts
      BY <3>1, SameLinking DEF CreateGroup
    <3>3. PICK g, link, more :
            Adds(g, link, more) /\ more # <<>> /\ NameFree(g, link.name)
      BY <3>1, CreateGroupAdds
    <3> QED
      BY <3>2, <3>3 DEF Effect, Creates
  <2>3. ASSUME NEW d \in Paths, NEW n \in Name, CreateDataset(t, s, d, n) PROVE Effect
    <3>1. PICK g \in DOMAIN objects :
            /\ Find(objects[g].links, <<n>>) = 0
            /\ objects' = Append(Push(objects, g, [name |-> <<n>>,
                                                   target |-> Hard(Len(objects) + 1),
                                                   order |-> nextOrder]),
                                 [EmptyDataset EXCEPT !.refcount = 1])
      BY <2>3 DEF CreateDataset, Free
    <3>2. nextOrder' = nextOrder + 1 /\ SameCounts
      BY <2>3, SameLinking DEF CreateDataset
    <3>3. PICK link, more : Adds(g, link, more) /\ more # <<>> /\ link.name = <<n>>
      BY <3>1, <3>2, NamesAndPaths, OneObject
    <3>4. NameFree(g, <<n>>)
      <4>1. objects[g].links \in Seq(LinkWithin(Len(objects)))
        BY ArenaFacts, NodeFacts
      <4> QED
        BY <3>1, <4>1, NotFound DEF NameFree
    <3> QED
      BY <3>2, <3>3, <3>4 DEF Effect, Creates
  <2>4. ASSUME NEW d \in Paths, NEW n \in Name, CreateVirtual(t, s, d, n) PROVE Effect
    <3>1. /\ nextOrder' = nextOrder + 1 /\ SameCounts /\ "create_virtual" \in Calls
          /\ s \in DOMAIN objects
          /\ objects' = Append(Push(objects, s, [name |-> Unsplit(d, n),
                                                 target |-> Hard(Len(objects) + 1),
                                                 order |-> nextOrder]),
                               [EmptyDataset EXCEPT !.refcount = 1])
      BY <2>4, SameLinking DEF CreateVirtual, Writing, Calling, Handles
    <3>2. PICK link, more : Adds(s, link, more) /\ more # <<>>
      BY <3>1, NamesAndPaths, OneObject
    <3> QED
      BY <3>1, <3>2 DEF Effect, Creates
  <2>5. ASSUME NEW d \in Paths, NEW n \in Name, CreateDatasetRefused(t, s, d, n) PROVE Effect
    BY <2>5, ArenaFacts, SameLinking DEF CreateDatasetRefused, Effect, Spares
  <2> QED
    BY <2>1, <2>2, <2>3, <2>4, <2>5
<1> QED
  BY <1>1, <1>2

(* Group::add_link, in any of the three calls.                             *)
LEMMA LinkEffect ==
    ASSUME IInv, NEW t \in Thread, LinkStep(t)
    PROVE  Effect
<1>1. PICK s \in Handles, d \in Paths, n \in Name :
        \/ \E p \in SoftPaths : LinkSoft(t, s, d, n, p)
        \/ LinkExternal(t, s, d, n)
        \/ \E p \in Paths : LinkHardResolve(t, s, p, d, n)
  BY DEF LinkStep
<1>2. ASSUME NEW target \in Target, target.kind # "Hard", UNCHANGED linking,
             AddLink(s, d, n, target) \/ AddLinkRefused(s, d, n)
      PROVE  Effect
  <2>1. SameCounts
    BY <1>2, SameLinking
  <2>2. CASE AddLink(s, d, n, target)
    <3>1. PICK g, link : Adds(g, link, <<>>) /\ link.target = target /\ NameFree(g, link.name)
      BY <1>2, <2>2, AddLinkAdds
    <3> QED
      BY <1>2, <2>1, <3>1 DEF Effect, Creates
  <2>3. CASE AddLinkRefused(s, d, n)
    BY <2>1, <2>3, ArenaFacts DEF AddLinkRefused, Effect, Quiet
  <2> QED
    BY <1>2, <2>2, <2>3
<1>3. CASE LinkExternal(t, s, d, n)
  <2>1. External \in Target /\ External.kind # "Hard"
    BY DEF Target, External
  <2> QED
    BY <1>2, <1>3, <2>1 DEF LinkExternal
<1>4. ASSUME NEW p \in SoftPaths, LinkSoft(t, s, d, n, p) PROVE Effect
  <2>1. Soft(p) \in Target /\ Soft(p).kind # "Hard"
    BY PathAssumption DEF Target, Soft
  <2> QED
    BY <1>2, <1>4, <2>1 DEF LinkSoft
<1>5. ASSUME NEW p \in Paths, LinkHardResolve(t, s, p, d, n) PROVE Effect
  <2>1. PICK c : /\ c.pc = "add" /\ linking' = [linking EXCEPT ![t] = c]
                 /\ linking[t] = Idle /\ UNCHANGED <<objects, nextOrder>>
    BY <1>5 DEF LinkHardResolve, Calling
  <2>2. linking[t].pc # "count" /\ c.pc # "count"
    BY <2>1 DEF Idle
  <2>3. SameCounts
    BY <2>1, <2>2, SameLinkingBut
  <2> QED
    BY <2>1, <2>3, ArenaFacts DEF Effect, Quiet
<1> QED
  BY <1>1, <1>3, <1>4, <1>5

LEMMA LinkHardEffect ==
    ASSUME IInv, NEW t \in Thread, LinkHardAdd(t) \/ LinkHardReadOnly(t) \/ LinkHardCount(t)
    PROVE  Effect
<1>1. CASE LinkHardReadOnly(t)
  <2>1. linking[t].pc = "add" /\ linking' = [linking EXCEPT ![t] = Idle]
        /\ UNCHANGED <<objects, nextOrder>>
    BY <1>1 DEF LinkHardReadOnly
  <2>2. SameCounts
    BY <2>1, SameLinkingBut DEF Idle
  <2> QED
    BY <2>1, <2>2, ArenaFacts DEF Effect, Quiet
<1>2. CASE LinkHardCount(t)
  <2>1. /\ linking[t].pc = "count" /\ nextOrder' = nextOrder
        /\ objects' = Count(objects, linking[t].obj) /\ linking' = [linking EXCEPT ![t] = Idle]
    BY <1>2 DEF LinkHardCount
  <2>2. linking[t].obj \in DOMAIN objects
    BY <2>1 DEF IInv
  <2> QED
    BY <2>1, <2>2 DEF Effect, Pays, Uncounted
<1>3. CASE LinkHardAdd(t)
  <2> DEFINE c == linking[t]
  <2>1. c \in LinkHardCall /\ c.pc = "add" /\ c.obj \in DOMAIN objects
    BY <1>3 DEF LinkHardAdd, IInv, Idle
  <2>2. c.leaf \in Name
    BY <2>1 DEF LinkHardCall
  <2>3. Hard(c.obj) \in Target /\ Hard(c.obj).obj \in DOMAIN objects
    BY <2>1, ArenaFacts DEF Hard, Target
  <2>4. CASE /\ AddLink(c.start, c.dir, c.leaf, Hard(c.obj))
             /\ linking' = [linking EXCEPT ![t] = [pc |-> "count", obj |-> c.obj]]
    <3>1. PICK g, link : Adds(g, link, <<>>) /\ link.target = Hard(c.obj) /\ NameFree(g, link.name)
      BY <2>2, <2>3, <2>4, AddLinkAdds
    <3> QED
      BY <2>1, <2>4, <3>1 DEF Effect, Owes
  <2>5. CASE /\ AddLinkRefused(c.start, c.dir, c.leaf)
             /\ linking' = [linking EXCEPT ![t] = Idle]
    <3>1. SameCounts
      BY <2>1, <2>5, SameLinkingBut DEF Idle
    <3> QED
      BY <2>5, <3>1, ArenaFacts DEF AddLinkRefused, Effect, Quiet
  <2> QED
    BY <1>3, <2>4, <2>5 DEF LinkHardAdd
<1> QED
  BY <1>1, <1>2, <1>3

LEMMA RemoveEffect ==
    ASSUME IInv, NEW t \in Thread, RemoveStep(t)
    PROVE  Effect
<1>1. PICK s \in Handles : \E i \in DOMAIN objects[s].links :
        Unlink(t, s, i) \/ \E d \in Paths, n \in Name : Relink(t, s, i, d, n)
  BY DEF RemoveStep
<1>2. PICK i \in DOMAIN objects[s].links :
        Unlink(t, s, i) \/ \E d \in Paths, n \in Name : Relink(t, s, i, d, n)
  BY <1>1
<1> DEFINE link == objects[s].links[i]
           cut == Cut(objects, s, i)
<1>3. s \in DOMAIN objects
  BY DEF Handles
<1>4. link \in LinkWithin(Len(objects))
  BY <1>3, ArenaFacts, NodeFacts
<1>5. CASE Unlink(t, s, i)
  <2>1. /\ objects' = IF link.target.kind = "Hard" THEN Uncount(cut, link.target.obj) ELSE cut
        /\ nextOrder' = nextOrder /\ SameCounts
    BY <1>5, SameLinking DEF Unlink
  <2> QED
    BY <1>3, <2>1 DEF Effect, Removes, Removed
<1>6. ASSUME NEW d \in Paths, NEW n \in Name, Relink(t, s, i, d, n) PROVE Effect
  <2> DEFINE moved == [link EXCEPT !.name = <<n>>]
  <2>1. moved \in LinkWithin(Len(objects)) /\ moved.order = link.order
        /\ moved.target = link.target
    BY <1>4, NamesAndPaths DEF LinkWithin, Link
  <2>2. objects' = cut \/ \E g \in DOMAIN cut : objects' = Push(cut, g, moved)
    BY <1>6 DEF Relink
  <2>3. nextOrder' = nextOrder /\ SameCounts /\ "relink" \in Calls
    BY <1>6, SameLinking DEF Relink, Writing, Calling
  <2> HIDE DEF moved
  <2> QED
    BY <1>3, <2>1, <2>2, <2>3 DEF Effect, Moves, Moved
<1> QED
  BY <1>2, <1>5, <1>6

LEMMA StepEffect == IInv /\ [Next]_vars => Effect
<1> SUFFICES ASSUME IInv, [Next]_vars PROVE Effect
  OBVIOUS
<1>1. CASE UNCHANGED <<objects, nextOrder, linking>>
  BY <1>1, ArenaFacts, SameLinking DEF Effect, Quiet
<1>2. ASSUME NEW t \in Thread, Step(t) PROVE Effect
  <2>1. CASE OverflowStep(t) \/ OverflowInLinkHard(t)
    BY <1>1, <2>1 DEF OverflowStep, OverflowInCall, OverflowInRelink, OverflowInLinkHard
  <2> QED
    BY <1>2, <2>1, CreateEffect, LinkEffect, LinkHardEffect, RemoveEffect DEF Step
<1> QED
  BY <1>1, <1>2 DEF Next, SealReadOnly, vars

-----------------------------------------------------------------------------
(* Creation orders are unique *)

(* The links of a chain, one at most in each of its objects.               *)
LEMMA ChainLinks ==
    ASSUME NEW m \in Nat, NEW more \in Arena(m), NEW n \in Nat, NEW o \in Nat, Chain(more, n, o),
           NEW p \in Slots(more)
    PROVE  /\ p = <<p[1], 1>> /\ p[1] \in 1..Len(more) /\ p[1] < Len(more)
           /\ LinkIn(more, p).order = o + p[1]
           /\ LinkIn(more, p).target = Hard(n + p[1] + 1)
<1>1. /\ p = <<p[1], p[2]>> /\ p[1] \in 1..Len(more)
      /\ p[2] \in 1..Len(more[p[1]].links)
  BY SlotPairs, NodeFacts
<1>2. more[p[1]].links # <<>>
  BY <1>1
<1> QED
  BY <1>1, <1>2 DEF Chain, LinkIn

LEMMA AddsParts ==
    ASSUME IInv, NEW g, NEW link, NEW more, Adds(g, link, more)
    PROVE  LET m == Len(objects) + Len(more)
           IN  /\ m \in Nat /\ objects \in Arena(m) /\ link \in LinkWithin(m)
               /\ Push(objects, g, link) \in Arena(m) /\ more \in Arena(m)
               /\ Len(Push(objects, g, link)) = Len(objects) /\ Len(more) \in Nat
<1>1. Len(more) \in Nat /\ Len(objects) \in Nat
  BY ArenaFacts, LenProperties DEF Adds, Arena
<1>2. objects \in Arena(Len(objects) + Len(more))
  BY <1>1, ArenaFacts, ArenaGrows
<1> QED
  BY <1>1, <1>2, PushWithin DEF Adds, SameShape

LEMMA AddsOrdered ==
    ASSUME IInv, Ordered(objects, nextOrder), NEW g, NEW link, NEW more, Adds(g, link, more)
    PROVE  Ordered(objects', nextOrder')
<1> DEFINE m == Len(objects) + Len(more)
           pushed == Push(objects, g, link)
<1>1. /\ m \in Nat /\ objects \in Arena(m) /\ link \in LinkWithin(m)
      /\ pushed \in Arena(m) /\ more \in Arena(m) /\ Len(more) \in Nat
  BY AddsParts
<1>2. /\ nextOrder \in Nat /\ Len(objects) \in Nat /\ g \in DOMAIN objects
      /\ link.order = nextOrder /\ nextOrder' \in Nat /\ nextOrder < nextOrder'
      /\ nextOrder + Len(more) <= nextOrder'
      /\ objects' = pushed \o more /\ Chain(more, Len(objects), nextOrder)
  BY ArenaFacts DEF Adds
<1> HIDE DEF m
<1>3. Ordered(pushed, nextOrder + 1)
  <2>1. \A p \in Slots(objects) : LinkIn(objects, p).order < nextOrder
    BY DEF Ordered
  <2>2. \A p \in Slots(objects) : LinkIn(objects, p).order # link.order
    BY <1>1, <1>2, <2>1, OrderIsNat
  <2> QED
    BY <1>1, <1>2, <2>2, OrderedPush
<1>4. \A p \in Slots(more) :
        /\ p = <<p[1], 1>> /\ p[1] \in 1..Len(more) /\ p[1] < Len(more)
        /\ LinkIn(more, p).order = nextOrder + p[1]
  BY <1>1, <1>2, ChainLinks
<1>5. Ordered(more, nextOrder')
  <2>1. \A p \in Slots(more) : LinkIn(more, p).order < nextOrder'
    BY <1>1, <1>2, <1>4
  <2>2. ASSUME NEW p \in Slots(more), NEW q \in Slots(more),
               LinkIn(more, p).order = LinkIn(more, q).order
        PROVE  p = q
    <3>1. p[1] = q[1]
      BY <1>1, <1>2, <1>4, <2>2
    <3> QED
      BY <1>4, <3>1
  <2> QED
    BY <2>1, <2>2 DEF Ordered
<1>6. \A p \in Slots(more) : nextOrder + 1 <= LinkIn(more, p).order
  BY <1>1, <1>2, <1>4
<1> HIDE DEF pushed
<1>7. Ordered(pushed \o more, nextOrder')
  <2>1. nextOrder + 1 \in Nat /\ nextOrder + 1 <= nextOrder'
    BY <1>2
  <2> QED
    BY <1>1, <1>2, <1>3, <1>5, <1>6, <2>1, OrderedConcat
<1> QED
  BY <1>2, <1>7

LEMMA MovedOrdered ==
    ASSUME IInv, Ordered(objects, nextOrder),
           NEW s \in DOMAIN objects, NEW i \in DOMAIN objects[s].links, NEW moved,
           Moved(s, i, moved)
    PROVE  Ordered(objects', nextOrder')
<1> DEFINE cut == Cut(objects, s, i)
<1>1. /\ moved \in LinkWithin(Len(objects)) /\ moved.order = objects[s].links[i].order
      /\ objects' = cut \/ \E g \in DOMAIN cut : objects' = Push(cut, g, moved)
      /\ nextOrder' = nextOrder
  BY DEF Moved
<1>2. /\ Ordered(cut, nextOrder)
      /\ \A p \in Slots(cut) : LinkIn(cut, p).order # moved.order
      /\ moved.order < nextOrder
  BY <1>1, ArenaFacts, OrderedCut
<1>3. cut \in Arena(Len(objects)) /\ Len(objects) \in Nat /\ nextOrder \in Nat
  BY ArenaFacts, CutWithin
<1> HIDE DEF cut
<1>4. CASE objects' = cut
  BY <1>1, <1>2, <1>4
<1>5. ASSUME NEW g \in DOMAIN cut, objects' = Push(cut, g, moved)
      PROVE  Ordered(objects', nextOrder')
  BY <1>1, <1>2, <1>3, <1>5, OrderedPush
<1> QED
  BY <1>1, <1>4, <1>5

LEMMA RemovedOrdered ==
    ASSUME IInv, Ordered(objects, nextOrder),
           NEW s \in DOMAIN objects, NEW i \in DOMAIN objects[s].links, Removed(s, i)
    PROVE  Ordered(objects', nextOrder')
<1> DEFINE cut == Cut(objects, s, i)
           target == objects[s].links[i].target
<1>1. /\ objects' = IF target.kind = "Hard" THEN Uncount(cut, target.obj) ELSE cut
      /\ nextOrder' = nextOrder
  BY DEF Removed
<1>2. Ordered(cut, nextOrder)
  BY ArenaFacts, OrderedCut
<1>3. /\ cut \in Arena(Len(objects)) /\ Len(objects) \in Nat
      /\ DOMAIN cut = DOMAIN objects
  BY ArenaFacts, CutWithin, LenProperties DEF SameShape, Arena
<1>4. target.kind = "Hard" => target.obj \in DOMAIN objects
  BY ArenaFacts, NodeFacts DEF LinkWithin
<1>5. CASE target.kind = "Hard"
  <2>1. objects' = Uncount(cut, target.obj) /\ target.obj \in DOMAIN cut
    BY <1>1, <1>3, <1>4, <1>5
  <2> HIDE DEF cut, target
  <2>2. SameLinks(cut, objects')
    BY <1>3, <2>1, CountSlots
  <2> QED
    BY <1>1, <1>2, <2>2, OrderedSame
<1>6. CASE target.kind # "Hard"
  BY <1>1, <1>2, <1>6
<1> QED
  BY <1>5, <1>6

LEMMA EffectOrdered ==
    ASSUME IInv, Ordered(objects, nextOrder), Effect
    PROVE  Ordered(objects', nextOrder')
<1>1. objects \in Arena(Len(objects)) /\ Len(objects) \in Nat /\ nextOrder \in Nat
  BY ArenaFacts
<1>2. ASSUME NEW o \in Nat, nextOrder <= o PROVE Ordered(objects, o)
  <2>1. \A p \in Slots(objects) : LinkIn(objects, p).order \in Nat
    BY <1>1, OrderIsNat
  <2> QED
    BY <1>1, <1>2, <2>1 DEF Ordered
<1>3. CASE Quiet
  BY <1>2, <1>3 DEF Quiet
<1>4. CASE Creates \/ Owes
  BY <1>4, AddsOrdered DEF Creates, Owes
<1>5. CASE Pays
  <2>1. PICK id \in DOMAIN objects : objects' = Count(objects, id) /\ nextOrder' = nextOrder
    BY <1>5 DEF Pays
  <2>2. SameLinks(objects, objects')
    BY <1>1, <2>1, CountSlots
  <2> QED
    BY <2>1, <2>2, OrderedSame
<1>6. CASE Spares
  <2>1. EmptyDataset \in NodeWithin(Len(objects)) /\ EmptyDataset.links = <<>>
    BY EmptySeq DEF NodeWithin, EmptyDataset
  <2>2. Ordered(objects, nextOrder')
    BY <1>2, <1>6 DEF Spares
  <2> QED
    BY <1>1, <1>6, <2>1, <2>2, OrderedAppend DEF Spares
<1>7. CASE Moves
  BY <1>7, MovedOrdered DEF Moves
<1>8. CASE Removes
  BY <1>8, RemovedOrdered DEF Removes
<1> QED
  BY <1>3, <1>4, <1>5, <1>6, <1>7, <1>8 DEF Effect

LEMMA LinkInvariance == Spec => [](IInv /\ Ordered(objects, nextOrder))
<1>1. Init => Ordered(objects, nextOrder)
  <2> SUFFICES ASSUME Init PROVE Slots(objects) = {}
    BY DEF Ordered
  <2> QED
    BY DEF Init, Slots, EmptyGroup
<1>2. /\ IInv /\ Ordered(objects, nextOrder) /\ [Next]_vars
      => IInv' /\ Ordered(objects, nextOrder)'
  BY NextInv, StepEffect, EffectOrdered
<1> QED
  BY <1>1, <1>2, InitInv, PTL DEF Spec

(* No two links of the file carry the same creation order and the next one *)
(* is above them all, whichever calls failed or moved links before         *)
(* (group.rs, add_link and relink; model.rs, next_order).                  *)
THEOREM OrdersAreUnique == Spec => []OrdersUnique
<1>1. IInv /\ Ordered(objects, nextOrder) => OrdersUnique
  <2> SUFFICES ASSUME IInv, Ordered(objects, nextOrder) PROVE OrdersUnique
    OBVIOUS
  <2>1. \A g \in DOMAIN objects : Len(objects[g].links) <= nextOrder
    BY ArenaFacts, OrderedBound
  <2>2. \A p \in LinkAt : p \in Slots(objects) /\ OrderOf(p) = LinkIn(objects, p).order
    BY DEF LinkAt, Slots, OrderOf, LinkIn
  <2> QED
    BY <2>1, <2>2 DEF OrdersUnique, Ordered
<1> QED
  BY <1>1, LinkInvariance, PTL

-----------------------------------------------------------------------------
(* Names are unique in a group, as long as no call stores a name that it   *)
(* has not looked for: relink and create_dataset's virtual branch do.      *)

Distinct(objs) ==
    \A p, q \in Slots(objs) :
      p[1] = q[1] /\ LinkIn(objs, p).name = LinkIn(objs, q).name => p = q

LEMMA AddsDistinct ==
    ASSUME IInv, Distinct(objects), NEW g, NEW link, NEW more, Adds(g, link, more),
           NameFree(g, link.name)
    PROVE  Distinct(objects')
<1> DEFINE m == Len(objects) + Len(more)
           pushed == Push(objects, g, link)
           new == <<g, Len(objects[g].links) + 1>>
<1>1. /\ m \in Nat /\ objects \in Arena(m) /\ link \in LinkWithin(m)
      /\ pushed \in Arena(m) /\ more \in Arena(m) /\ Len(pushed) = Len(objects)
  BY AddsParts
<1>2. /\ Len(objects) \in Nat /\ g \in DOMAIN objects /\ nextOrder \in Nat
      /\ objects' = pushed \o more /\ Chain(more, Len(objects), nextOrder)
  BY ArenaFacts DEF Adds
<1> HIDE DEF m
<1>3. /\ Slots(pushed) = Slots(objects) \cup {new} /\ LinkIn(pushed, new) = link
      /\ \A p \in Slots(objects) : LinkIn(pushed, p) = LinkIn(objects, p)
  BY <1>1, <1>2, PushSlots
<1>4. \A p \in Slots(objects) : p[1] = g => LinkIn(objects, p).name # link.name
  BY <1>1, SlotPairs DEF NameFree, LinkIn
<1>5. new[1] = g
  OBVIOUS
<1> HIDE DEF pushed, new
<1>6. Distinct(pushed)
  BY <1>3, <1>4, <1>5 DEF Distinct
<1>7. /\ \A p \in Slots(pushed) : LinkIn(objects', p) = LinkIn(pushed, p)
      /\ \A p \in Slots(objects') \ Slots(pushed) :
           p[1] - Len(objects) \in DOMAIN more /\ <<p[1] - Len(objects), p[2]>> \in Slots(more)
  BY <1>1, <1>2, ConcatSlots
<1>8. \A p \in Slots(pushed) : p[1] \in Nat /\ p[1] <= Len(objects)
  BY <1>1, SlotPairs, NodeFacts
<1>9. ASSUME NEW p \in Slots(objects') \ Slots(pushed)
      PROVE  p = <<p[1], 1>> /\ p[1] - Len(objects) \in 1..Len(more)
  <2>1. <<p[1] - Len(objects), p[2]>> \in Slots(more)
    BY <1>7
  <2>2. /\ <<p[1] - Len(objects), p[2]>>[2] = 1
        /\ <<p[1] - Len(objects), p[2]>>[1] \in 1..Len(more)
    <3>1. \A q \in Slots(more) : q = <<q[1], 1>> /\ q[1] \in 1..Len(more)
      BY <1>1, <1>2, ChainLinks
    <3> QED
      BY <2>1, <3>1
  <2>3. p = <<p[1], p[2]>>
    BY DEF Slots
  <2> QED
    BY <2>2, <2>3
<1>10. ASSUME NEW p \in Slots(objects') \ Slots(pushed), NEW q \in Slots(pushed), p[1] = q[1]
       PROVE  FALSE
  <2>1. q[1] \in Nat /\ q[1] <= Len(objects) /\ q[1] - Len(objects) >= 1
    BY <1>8, <1>9, <1>10
  <2> QED
    BY <1>2, <2>1
<1> QED
  BY <1>6, <1>7, <1>9, <1>10 DEF Distinct

LEMMA SameDistinct ==
    ASSUME NEW objs, NEW objs2, SameLinks(objs, objs2), Distinct(objs)
    PROVE  Distinct(objs2)
  BY DEF SameLinks, Distinct

LEMMA RemovedDistinct ==
    ASSUME IInv, Distinct(objects),
           NEW s \in DOMAIN objects, NEW i \in DOMAIN objects[s].links, Removed(s, i)
    PROVE  Distinct(objects')
<1> DEFINE cut == Cut(objects, s, i)
           target == objects[s].links[i].target
<1>1. objects' = IF target.kind = "Hard" THEN Uncount(cut, target.obj) ELSE cut
  BY DEF Removed
<1>2. /\ cut \in Arena(Len(objects)) /\ Len(objects) \in Nat
      /\ DOMAIN cut = DOMAIN objects
  BY ArenaFacts, CutWithin, LenProperties DEF SameShape, Arena
<1>3. target.kind = "Hard" => target.obj \in DOMAIN objects
  BY ArenaFacts, NodeFacts DEF LinkWithin
<1>4. Distinct(cut)
  <2>1. /\ \A p \in Slots(cut) : /\ Shift(s, i, p) \in Slots(objects)
                                 /\ LinkIn(cut, p) = LinkIn(objects, Shift(s, i, p))
        /\ \A p, q \in Slots(cut) : Shift(s, i, p) = Shift(s, i, q) => p = q
    BY ArenaFacts, CutSlots
  <2>2. \A p : Shift(s, i, p)[1] = p[1]
    BY DEF Shift
  <2> HIDE DEF cut
  <2> QED
    BY <2>1, <2>2 DEF Distinct
<1>5. CASE target.kind = "Hard"
  <2>1. objects' = Uncount(cut, target.obj) /\ target.obj \in DOMAIN cut
    BY <1>1, <1>2, <1>3, <1>5
  <2> HIDE DEF cut, target
  <2>2. SameLinks(cut, objects')
    BY <1>2, <2>1, CountSlots
  <2> QED
    BY <1>4, <2>2, SameDistinct
<1>6. CASE target.kind # "Hard"
  BY <1>1, <1>4, <1>6
<1> QED
  BY <1>5, <1>6

(* An object that nothing links to brings no link.                         *)
LEMMA SparesLinks ==
    ASSUME IInv, Spares
    PROVE  SameLinks(objects, objects')
<1>1. objects \in Arena(Len(objects)) /\ Len(objects) \in Nat
  BY ArenaFacts
<1>2. <<EmptyDataset>> \in Arena(Len(objects)) /\ Slots(<<EmptyDataset>>) = {}
  BY EmptySeq DEF Arena, Slots, NodeWithin, EmptyDataset
<1>3. objects' = objects \o <<EmptyDataset>>
  BY <1>1, AppendIsConcat DEF Spares, Arena, NodeWithin, EmptyDataset
<1>4. Slots(objects') = Slots(objects) /\ \A p \in Slots(objects) : LinkIn(objects', p) = LinkIn(objects, p)
  <2> DEFINE more == <<EmptyDataset>>
  <2>1. more \in Arena(Len(objects)) /\ Slots(more) = {} /\ objects' = objects \o more
    BY <1>2, <1>3
  <2> HIDE DEF more
  <2>2. /\ Slots(objects) \subseteq Slots(objects')
        /\ \A p \in Slots(objects) : LinkIn(objects', p) = LinkIn(objects, p)
        /\ \A p \in Slots(objects') \ Slots(objects) :
             <<p[1] - Len(objects), p[2]>> \in Slots(more)
    <3> DEFINE objs == objects
               n == Len(objects)
    <3>1. n \in Nat /\ objs \in Arena(n) /\ more \in Arena(n)
      BY <1>1, <2>1
    <3> HIDE DEF objs, n
    <3>2. /\ Slots(objs) \subseteq Slots(objs \o more)
          /\ \A p \in Slots(objs) : LinkIn(objs \o more, p) = LinkIn(objs, p)
          /\ \A p \in Slots(objs \o more) \ Slots(objs) :
               <<p[1] - Len(objs), p[2]>> \in Slots(more)
      BY <3>1, ConcatSlots
    <3> QED
      BY <2>1, <3>2 DEF objs
  <2> QED
    BY <2>1, <2>2
<1> QED
  BY <1>4 DEF SameLinks

(* No two links of a group have the same name, however the calls that look *)
(* for the name and then add the link are interleaved (group.rs: the check *)
(* and the push are one critical section).  The calls that store a name    *)
(* without looking for it are excluded.                                    *)
THEOREM NamesAreUnique ==
    ASSUME Calls \cap {"relink", "create_virtual"} = {}
    PROVE  Spec => []UniqueNames
<1>1. Init => Distinct(objects)
  <2> SUFFICES ASSUME Init PROVE Slots(objects) = {}
    BY DEF Distinct
  <2> QED
    BY DEF Init, Slots, EmptyGroup
<1>2. IInv /\ Distinct(objects) /\ [Next]_vars => IInv' /\ Distinct(objects)'
  <2> SUFFICES ASSUME IInv, Distinct(objects), Effect PROVE Distinct(objects')
    BY NextInv, StepEffect
  <2>1. CASE Quiet
    BY <2>1 DEF Quiet
  <2>2. CASE Creates \/ Owes
    <3>1. PICK g, link, more : Adds(g, link, more) /\ NameFree(g, link.name)
      BY <2>2 DEF Creates, Owes
    <3> QED
      BY <3>1, AddsDistinct
  <2>3. CASE Pays
    <3>1. PICK id \in DOMAIN objects : objects' = Count(objects, id)
      BY <2>3 DEF Pays
    <3>2. SameLinks(objects, objects')
      BY <3>1, ArenaFacts, CountSlots
    <3> QED
      BY <3>2, SameDistinct
  <2>4. CASE Spares
    BY <2>4, SparesLinks, SameDistinct
  <2>5. CASE Removes
    BY <2>5, RemovedDistinct DEF Removes
  <2> QED
    BY <2>1, <2>2, <2>3, <2>4, <2>5 DEF Effect, Moves
<1>3. IInv /\ Distinct(objects) => UniqueNames
  <2> SUFFICES ASSUME IInv, Distinct(objects), NEW g \in DOMAIN objects,
                      NEW i \in DOMAIN objects[g].links, NEW j \in DOMAIN objects[g].links,
                      objects[g].links[i].name = objects[g].links[j].name
               PROVE  i = j
    BY DEF UniqueNames
  <2>1. <<g, i>> \in Slots(objects) /\ <<g, j>> \in Slots(objects)
        /\ LinkIn(objects, <<g, i>>).name = LinkIn(objects, <<g, j>>).name
    BY ArenaFacts, SlotPairs
  <2>2. <<g, i>> = <<g, j>>
    BY <2>1 DEF Distinct
  <2> QED
    BY <2>2
<1> QED
  BY <1>1, <1>2, <1>3, InitInv, PTL DEF Spec

-----------------------------------------------------------------------------
(* References are counted *)

HardTo(objs, id) == {p \in Slots(objs) : LinkIn(objs, p).target = Hard(id)}

(* The creation orders number the links.                                   *)
LEMMA HardToFinite ==
    ASSUME NEW n \in Nat, NEW objs \in Arena(n), NEW o \in Nat, Ordered(objs, o), NEW id
    PROVE  IsFiniteSet(HardTo(objs, id)) /\ Cardinality(HardTo(objs, id)) \in Nat
<1> DEFINE f == [p \in Slots(objs) |-> LinkIn(objs, p).order]
<1>1. \A p \in Slots(objs) : LinkIn(objs, p).order \in 0..(o - 1)
  <2>1. \A p \in Slots(objs) : LinkIn(objs, p).order \in Nat /\ LinkIn(objs, p).order < o
    BY OrderIsNat DEF Ordered
  <2> QED
    BY <2>1
<1>2. f \in Injection(Slots(objs), 0..(o - 1))
  <2>1. /\ f \in [Slots(objs) -> 0..(o - 1)]
        /\ \A p, q \in Slots(objs) : f[p] = f[q] => p = q
    BY <1>1 DEF Ordered
  <2> HIDE DEF f
  <2> QED
    BY <2>1, Fun_IsInj
<1> HIDE DEF f
<1>3. IsFiniteSet(0..(o - 1))
  <2>1. 0 \in Int /\ o - 1 \in Int
    OBVIOUS
  <2> QED
    BY <2>1, FS_Interval
<1>4. IsFiniteSet(Slots(objs))
  BY <1>2, <1>3, FS_Injection
<1>5. HardTo(objs, id) \in SUBSET Slots(objs)
  BY DEF HardTo
<1> QED
  BY <1>4, <1>5, FS_Subset, FS_CardinalityType

LEMMA HardToPush ==
    ASSUME NEW n \in Nat, NEW objs \in Arena(n), NEW g \in DOMAIN objs, NEW link \in LinkWithin(n),
           NEW id
    PROVE  HardTo(Push(objs, g, link), id) =
             IF link.target = Hard(id) THEN HardTo(objs, id) \cup {<<g, Len(objs[g].links) + 1>>}
             ELSE HardTo(objs, id)
<1> DEFINE new == <<g, Len(objs[g].links) + 1>>
           objs2 == Push(objs, g, link)
<1>1. /\ Slots(objs2) = Slots(objs) \cup {new} /\ LinkIn(objs2, new) = link
      /\ \A p \in Slots(objs) : LinkIn(objs2, p) = LinkIn(objs, p)
  BY PushSlots
<1> HIDE DEF new, objs2
<1>2. HardTo(objs2, id) = IF link.target = Hard(id) THEN HardTo(objs, id) \cup {new}
                          ELSE HardTo(objs, id)
  BY <1>1 DEF HardTo
<1> QED
  BY <1>2 DEF new, objs2

(* The links that are left to an object inject into those it had.          *)
LEMMA HardToCut ==
    ASSUME NEW n \in Nat, NEW objs \in Arena(n), NEW o \in Nat, Ordered(objs, o),
           NEW s \in DOMAIN objs, NEW i \in DOMAIN objs[s].links, NEW id
    PROVE  LET left == Cardinality(HardTo(Cut(objs, s, i), id))
               all == Cardinality(HardTo(objs, id))
           IN  /\ left \in Nat /\ all \in Nat /\ left <= all
               /\ objs[s].links[i].target = Hard(id) => left + 1 <= all
<1> DEFINE cut == Cut(objs, s, i)
           T == HardTo(objs, id) \ {<<s, i>>}
           f == [p \in HardTo(cut, id) |-> Shift(s, i, p)]
<1>1. /\ \A p \in Slots(cut) : /\ Shift(s, i, p) \in Slots(objs) /\ Shift(s, i, p) # <<s, i>>
                               /\ LinkIn(cut, p) = LinkIn(objs, Shift(s, i, p))
      /\ \A p, q \in Slots(cut) : Shift(s, i, p) = Shift(s, i, q) => p = q
  BY CutSlots
<1>2. <<s, i>> \in Slots(objs) /\ LinkIn(objs, <<s, i>>) = objs[s].links[i]
  BY SlotPairs
<1>3. IsFiniteSet(HardTo(objs, id)) /\ Cardinality(HardTo(objs, id)) \in Nat
  BY HardToFinite
<1>4. cut \in Arena(n) /\ Ordered(cut, o)
  BY CutWithin, OrderedCut
<1>5. Cardinality(HardTo(cut, id)) \in Nat
  BY <1>4, HardToFinite
<1>6. f \in Injection(HardTo(cut, id), T)
  <2> HIDE DEF cut
  <2>1. /\ \A p \in HardTo(cut, id) : Shift(s, i, p) \in T
        /\ \A p, q \in HardTo(cut, id) : Shift(s, i, p) = Shift(s, i, q) => p = q
    BY <1>1 DEF HardTo
  <2>2. /\ f \in [HardTo(cut, id) -> T]
        /\ \A p, q \in HardTo(cut, id) : f[p] = f[q] => p = q
    BY <2>1
  <2> HIDE DEF f, T
  <2> QED
    BY <2>2, Fun_IsInj
<1>7. /\ IsFiniteSet(T)
      /\ Cardinality(T) = IF <<s, i>> \in HardTo(objs, id) THEN Cardinality(HardTo(objs, id)) - 1
                          ELSE Cardinality(HardTo(objs, id))
  BY <1>3, FS_RemoveElement
<1>8. objs[s].links[i].target = Hard(id) => <<s, i>> \in HardTo(objs, id)
  BY <1>2 DEF HardTo
<1> HIDE DEF f, T, cut
<1>9. Cardinality(HardTo(cut, id)) <= Cardinality(T)
  BY <1>6, <1>7, FS_Injection
<1>10. /\ Cardinality(HardTo(cut, id)) <= Cardinality(HardTo(objs, id))
       /\ objs[s].links[i].target = Hard(id) =>
            Cardinality(HardTo(cut, id)) + 1 <= Cardinality(HardTo(objs, id))
  BY <1>3, <1>5, <1>7, <1>8, <1>9
<1> QED
  BY <1>3, <1>5, <1>10 DEF cut

(* What a call that adds a link does for the objects there were,           *)
LEMMA AddsToOld ==
    ASSUME IInv, NEW g, NEW link, NEW more, Adds(g, link, more), NEW id \in DOMAIN objects
    PROVE  /\ objects'[id].refcount = objects[id].refcount
           /\ HardTo(objects', id) = HardTo(Push(objects, g, link), id)
<1> DEFINE m == Len(objects) + Len(more)
           pushed == Push(objects, g, link)
<1>1. /\ m \in Nat /\ objects \in Arena(m) /\ link \in LinkWithin(m)
      /\ pushed \in Arena(m) /\ more \in Arena(m) /\ Len(pushed) = Len(objects)
  BY AddsParts
<1>2. /\ Len(objects) \in Nat /\ g \in DOMAIN objects /\ nextOrder \in Nat
      /\ DOMAIN objects = 1..Len(objects)
      /\ objects' = pushed \o more /\ Chain(more, Len(objects), nextOrder)
  BY ArenaFacts DEF Adds
<1> HIDE DEF m
<1>3. /\ Slots(pushed) \subseteq Slots(objects')
      /\ \A p \in Slots(pushed) : LinkIn(objects', p) = LinkIn(pushed, p)
      /\ \A p \in Slots(objects') \ Slots(pushed) :
           /\ <<p[1] - Len(objects), p[2]>> \in Slots(more)
           /\ LinkIn(objects', p) = LinkIn(more, <<p[1] - Len(objects), p[2]>>)
  BY <1>1, <1>2, ConcatSlots
<1>4. pushed[id].refcount = objects[id].refcount
  <2>1. objects[g] \in NodeWithin(m)
    BY <1>1, <1>2, NodeFacts
  <2> QED
    BY <1>2, <2>1 DEF Push, NodeWithin
<1>5. objects'[id] = pushed[id]
  <2> HIDE DEF pushed
  <2>1. pushed \in Seq(NodeWithin(m)) /\ more \in Seq(NodeWithin(m))
    BY <1>1 DEF Arena
  <2>2. Len(more) \in Nat /\ id \in 1..(Len(pushed) + Len(more)) /\ id <= Len(pushed)
    BY <1>1, <1>2, <2>1, LenProperties
  <2> QED
    BY <1>2, <2>1, <2>2, ConcatProperties
<1>6. ASSUME NEW p \in Slots(objects') \ Slots(pushed), LinkIn(objects', p).target = Hard(id)
      PROVE  FALSE
  <2>1. PICK q \in Slots(more) : LinkIn(objects', p) = LinkIn(more, q)
    BY <1>3
  <2>2. q[1] \in 1..Len(more) /\ LinkIn(more, q).target = Hard(Len(objects) + q[1] + 1)
    BY <1>1, <1>2, ChainLinks
  <2>3. id = Len(objects) + q[1] + 1
    BY <1>6, <2>1, <2>2 DEF Hard
  <2> QED
    BY <1>2, <2>2, <2>3
<1> HIDE DEF pushed
<1>7. HardTo(objects', id) = HardTo(pushed, id)
  BY <1>3, <1>6 DEF HardTo
<1> QED
  BY <1>4, <1>5, <1>7 DEF pushed

(* and for those it adds: each is referenced once and linked to at most    *)
(* once.                                                                   *)
LEMMA AddsToNew ==
    ASSUME IInv, NEW g, NEW link, NEW more, Adds(g, link, more),
           NEW id \in DOMAIN objects' \ DOMAIN objects
    PROVE  /\ objects'[id].refcount = 1 /\ id # Root
           /\ \E q : HardTo(objects', id) \subseteq {q}
<1> DEFINE m == Len(objects) + Len(more)
           pushed == Push(objects, g, link)
           new == <<g, Len(objects[g].links) + 1>>
           q == IF id = Len(objects) + 1 THEN new ELSE <<id - 1, 1>>
<1>1. /\ m \in Nat /\ objects \in Arena(m) /\ link \in LinkWithin(m)
      /\ pushed \in Arena(m) /\ more \in Arena(m) /\ Len(pushed) = Len(objects)
      /\ Len(more) \in Nat
  BY AddsParts
<1>2. /\ Len(objects) \in Nat /\ g \in DOMAIN objects /\ nextOrder \in Nat
      /\ DOMAIN objects = 1..Len(objects) /\ Len(objects) >= 1
      /\ objects' = pushed \o more /\ Chain(more, Len(objects), nextOrder)
      /\ more # <<>> => link.target = Hard(Len(objects) + 1)
  BY ArenaFacts DEF Adds
<1> HIDE DEF m
<1>3. /\ Slots(pushed) = Slots(objects) \cup {new} /\ LinkIn(pushed, new) = link
      /\ \A p \in Slots(objects) : LinkIn(pushed, p) = LinkIn(objects, p)
  BY <1>1, <1>2, PushSlots
<1>4. /\ \A p \in Slots(pushed) : LinkIn(objects', p) = LinkIn(pushed, p)
      /\ \A p \in Slots(objects') \ Slots(pushed) :
           /\ <<p[1] - Len(objects), p[2]>> \in Slots(more)
           /\ LinkIn(objects', p) = LinkIn(more, <<p[1] - Len(objects), p[2]>>)
  BY <1>1, <1>2, ConcatSlots
<1>5. /\ id \in Nat /\ Len(objects) < id /\ id - Len(objects) \in 1..Len(more)
      /\ objects'[id] = more[id - Len(objects)]
  <2> HIDE DEF pushed
  <2>1. pushed \in Seq(NodeWithin(m)) /\ more \in Seq(NodeWithin(m))
    BY <1>1 DEF Arena
  <2>2. /\ objects' \in Seq(NodeWithin(m)) /\ Len(objects') = Len(pushed) + Len(more)
        /\ \A j \in 1..(Len(pushed) + Len(more)) :
             objects'[j] = IF j <= Len(pushed) THEN pushed[j] ELSE more[j - Len(pushed)]
    BY <1>2, <2>1, ConcatProperties
  <2>3. DOMAIN objects' = 1..(Len(objects) + Len(more))
    BY <1>1, <2>2, LenProperties
  <2>4. id \in Nat /\ Len(objects) < id /\ id <= Len(objects) + Len(more)
    BY <1>1, <1>2, <2>3
  <2> QED
    BY <1>1, <1>2, <2>2, <2>4
<1>6. objects'[id].refcount = 1 /\ id # Root /\ link.target = Hard(Len(objects) + 1)
  <2>1. more # <<>>
    BY <1>1, <1>5
  <2> QED
    BY <1>2, <1>5, <2>1 DEF Chain, Root
<1>7. ASSUME NEW p \in Slots(objects), LinkIn(objects', p).target = Hard(id)
      PROVE  FALSE
  <2>1. LinkIn(objects, p) \in LinkWithin(Len(objects)) /\ LinkIn(objects, p).target = Hard(id)
    BY <1>3, <1>4, <1>7, ArenaFacts, SlotPairs
  <2>2. Hard(id).kind = "Hard" /\ Hard(id).obj = id
    BY DEF Hard
  <2>3. id \in 1..Len(objects)
    BY <2>1, <2>2 DEF LinkWithin
  <2> QED
    BY <1>2, <1>5, <2>3
<1>8. ASSUME LinkIn(objects', new).target = Hard(id) PROVE id = Len(objects) + 1
  <2>1. Hard(id) = Hard(Len(objects) + 1)
    BY <1>3, <1>4, <1>6, <1>8
  <2> QED
    BY <2>1 DEF Hard
<1>9. ASSUME NEW p \in Slots(objects') \ Slots(pushed), LinkIn(objects', p).target = Hard(id)
      PROVE  p = <<id - 1, 1>> /\ id # Len(objects) + 1
  <2> DEFINE r == <<p[1] - Len(objects), p[2]>>
  <2>1. r \in Slots(more) /\ LinkIn(objects', p) = LinkIn(more, r)
    BY <1>4
  <2>2. r[1] = p[1] - Len(objects) /\ r[2] = p[2]
    OBVIOUS
  <2> HIDE DEF r
  <2>3. /\ r = <<r[1], 1>> /\ r[1] \in 1..Len(more)
        /\ LinkIn(more, r).target = Hard(Len(objects) + r[1] + 1)
    BY <1>1, <1>2, <2>1, ChainLinks
  <2>4. id = Len(objects) + r[1] + 1
    BY <1>9, <2>1, <2>3 DEF Hard
  <2>5. p = <<p[1], p[2]>> /\ p[1] \in Nat /\ p[2] = 1
    <3>1. objects' \in Arena(m)
      BY <1>1, <1>2, ConcatProperties DEF Arena
    <3> QED
      BY <1>1, <2>2, <2>3, <3>1, SlotPairs
  <2>6. p[1] = id - 1 /\ id # Len(objects) + 1
    BY <1>2, <2>2, <2>3, <2>4, <2>5
  <2> QED
    BY <2>5, <2>6
<1> HIDE DEF pushed, new
<1>10. HardTo(objects', id) \subseteq {q}
  BY <1>3, <1>7, <1>8, <1>9 DEF HardTo
<1> QED
  BY <1>6, <1>10

Covers ==
    \A id \in DOMAIN objects :
      objects[id].refcount + Cardinality(Uncounted(id))
        >= Cardinality(HardTo(objects, id)) + Base(id)

LEMMA UncountedFinite ==
    \A id : /\ IsFiniteSet(Uncounted(id)) /\ Cardinality(Uncounted(id)) \in Nat
            /\ IsFiniteSet(Uncounted(id)') /\ Cardinality(Uncounted(id)') \in Nat
<1>1. \A id : Uncounted(id) \in SUBSET Thread /\ Uncounted(id)' \in SUBSET Thread
  BY DEF Uncounted
<1> QED
  BY <1>1, ThreadAssumption, FS_Subset, FS_CardinalityType

(* The numbers that the invariant compares.                                *)
LEMMA CountFacts ==
    ASSUME IInv, Ordered(objects, nextOrder), NEW id \in DOMAIN objects
    PROVE  /\ objects[id].refcount \in Nat /\ Base(id) \in 0..1
           /\ Cardinality(HardTo(objects, id)) \in Nat /\ IsFiniteSet(HardTo(objects, id))
           /\ Cardinality(Uncounted(id)) \in Nat /\ Cardinality(Uncounted(id)') \in Nat
           /\ id \in Nat
<1>1. Base(id) \in 0..1
  BY DEF Base
<1> QED
  BY <1>1, ArenaFacts, NodeFacts, HardToFinite, UncountedFinite

LEMMA PaidOnce ==
    ASSUME IInv, NEW t \in Thread, NEW id \in DOMAIN objects, t \in Uncounted(id),
           linking' = [linking EXCEPT ![t] = Idle]
    PROVE  /\ Uncounted(id)' = Uncounted(id) \ {t}
           /\ \A h \in DOMAIN objects \ {id} : Uncounted(h)' = Uncounted(h)
<1>1. linking'[t].pc = "idle" /\ \A u \in Thread : u # t => linking'[u] = linking[u]
  BY DEF IInv, Idle
<1>2. linking[t].pc = "count" /\ linking[t].obj = id
  BY DEF Uncounted
<1>3. Uncounted(id)' = Uncounted(id) \ {t}
  BY <1>1 DEF Uncounted
<1>4. ASSUME NEW h \in DOMAIN objects \ {id} PROVE Uncounted(h)' = Uncounted(h)
  BY <1>1, <1>2 DEF Uncounted
<1> QED
  BY <1>3, <1>4

LEMMA OwedOnce ==
    ASSUME IInv, NEW t \in Thread, NEW id \in DOMAIN objects, linking[t].pc = "add",
           linking' = [linking EXCEPT ![t] = [pc |-> "count", obj |-> id]]
    PROVE  /\ t \notin Uncounted(id) /\ Uncounted(id)' = Uncounted(id) \cup {t}
           /\ \A h \in DOMAIN objects \ {id} : Uncounted(h)' = Uncounted(h)
<1>1. /\ linking'[t].pc = "count" /\ linking'[t].obj = id
      /\ \A u \in Thread : u # t => linking'[u] = linking[u]
  BY DEF IInv
<1>2. t \notin Uncounted(id) /\ Uncounted(id)' = Uncounted(id) \cup {t}
  BY <1>1 DEF Uncounted
<1>3. ASSUME NEW h \in DOMAIN objects \ {id} PROVE Uncounted(h)' = Uncounted(h)
  BY <1>1 DEF Uncounted
<1> QED
  BY <1>2, <1>3

(* A step that adds a link keeps the invariant when no count comes to be   *)
(* missing for an object that was there.                                   *)
LEMMA AddsCovers ==
    ASSUME IInv, Ordered(objects, nextOrder), Covers,
           NEW g, NEW link, NEW more, Adds(g, link, more),
           \A id \in DOMAIN objects :
             Cardinality(Uncounted(id)') =
               IF link.target = Hard(id) THEN Cardinality(Uncounted(id)) + 1
               ELSE Cardinality(Uncounted(id))
    PROVE  Covers'
<1> SUFFICES ASSUME NEW id \in DOMAIN objects'
             PROVE  objects'[id].refcount + Cardinality(Uncounted(id)')
                      >= Cardinality(HardTo(objects', id)) + Base(id)
  BY DEF Covers, HardTo, Slots, LinkIn, Base
<1>1. CASE id \in DOMAIN objects
  <2> DEFINE new == <<g, Len(objects[g].links) + 1>>
  <2>1. /\ objects'[id].refcount = objects[id].refcount
        /\ HardTo(objects', id) = HardTo(Push(objects, g, link), id)
    BY <1>1, AddsToOld
  <2>2. HardTo(objects', id) = IF link.target = Hard(id) THEN HardTo(objects, id) \cup {new}
                               ELSE HardTo(objects, id)
    <3>1. /\ Len(objects) + Len(more) \in Nat /\ objects \in Arena(Len(objects) + Len(more))
          /\ link \in LinkWithin(Len(objects) + Len(more)) /\ g \in DOMAIN objects
      BY AddsParts DEF Adds
    <3> QED
      BY <2>1, <3>1, HardToPush
  <2>3. /\ objects[id].refcount \in Nat /\ Base(id) \in 0..1
        /\ Cardinality(HardTo(objects, id)) \in Nat /\ IsFiniteSet(HardTo(objects, id))
        /\ Cardinality(Uncounted(id)) \in Nat
    BY <1>1, CountFacts
  <2>4. /\ objects[id].refcount + Cardinality(Uncounted(id))
             >= Cardinality(HardTo(objects, id)) + Base(id)
        /\ Cardinality(Uncounted(id)') = IF link.target = Hard(id)
                                         THEN Cardinality(Uncounted(id)) + 1
                                         ELSE Cardinality(Uncounted(id))
    BY <1>1 DEF Covers
  <2> HIDE DEF new
  <2>5. CASE link.target = Hard(id)
    <3>1. Cardinality(HardTo(objects', id)) \in {Cardinality(HardTo(objects, id)),
                                                 Cardinality(HardTo(objects, id)) + 1}
      BY <2>2, <2>3, <2>5, FS_AddElement
    <3> QED
      BY <2>1, <2>3, <2>4, <2>5, <3>1
  <2>6. CASE link.target # Hard(id)
    BY <2>1, <2>2, <2>3, <2>4, <2>6
  <2> QED
    BY <2>5, <2>6
<1>2. CASE id \notin DOMAIN objects
  <2>1. objects'[id].refcount = 1 /\ id # Root /\ \E q : HardTo(objects', id) \subseteq {q}
    BY <1>2, AddsToNew
  <2>2. PICK q : HardTo(objects', id) \subseteq {q}
    BY <2>1
  <2>3. Cardinality(HardTo(objects', id)) \in Nat /\ Cardinality(HardTo(objects', id)) <= 1
    <3>1. IsFiniteSet({q}) /\ Cardinality({q}) = 1
      BY FS_Singleton
    <3> QED
      BY <2>2, <3>1, FS_Subset, FS_CardinalityType
  <2>4. Cardinality(Uncounted(id)') \in Nat /\ Base(id) = 0
    BY <2>1, UncountedFinite DEF Base
  <2> QED
    BY <2>1, <2>3, <2>4
<1> QED
  BY <1>1, <1>2

(* The same for the steps that leave the links as they are, and those that *)
(* take one away.                                                          *)
LEMMA OthersCover ==
    ASSUME IInv, Ordered(objects, nextOrder), Covers, DOMAIN objects' = DOMAIN objects,
           \A id \in DOMAIN objects :
             \E lost \in Nat :
               /\ Cardinality(HardTo(objects', id)) \in Nat
               /\ Cardinality(HardTo(objects', id)) + lost <= Cardinality(HardTo(objects, id))
               /\ objects'[id].refcount \in Nat
               /\ objects'[id].refcount + Cardinality(Uncounted(id)') + lost
                    >= objects[id].refcount + Cardinality(Uncounted(id))
    PROVE  Covers'
<1> SUFFICES ASSUME NEW id \in DOMAIN objects
             PROVE  objects'[id].refcount + Cardinality(Uncounted(id)')
                      >= Cardinality(HardTo(objects', id)) + Base(id)
  BY DEF Covers, HardTo, Slots, LinkIn, Base
<1>1. PICK lost \in Nat :
        /\ Cardinality(HardTo(objects', id)) \in Nat
        /\ Cardinality(HardTo(objects', id)) + lost <= Cardinality(HardTo(objects, id))
        /\ objects'[id].refcount \in Nat
        /\ objects'[id].refcount + Cardinality(Uncounted(id)') + lost
             >= objects[id].refcount + Cardinality(Uncounted(id))
  OBVIOUS
<1>2. /\ objects[id].refcount \in Nat /\ Base(id) \in 0..1
      /\ Cardinality(HardTo(objects, id)) \in Nat
      /\ Cardinality(Uncounted(id)) \in Nat /\ Cardinality(Uncounted(id)') \in Nat
  BY CountFacts
<1>3. objects[id].refcount + Cardinality(Uncounted(id))
        >= Cardinality(HardTo(objects, id)) + Base(id)
  BY DEF Covers
<1> QED
  BY <1>1, <1>2, <1>3

LEMMA SameHardTo ==
    ASSUME NEW objs, NEW objs2, SameLinks(objs, objs2), NEW id
    PROVE  HardTo(objs2, id) = HardTo(objs, id)
  BY DEF SameLinks, HardTo

LEMMA QuietCovers ==
    ASSUME IInv, Ordered(objects, nextOrder), Covers, Quiet
    PROVE  Covers'
<1>1. UNCHANGED objects /\ \A id \in DOMAIN objects : Uncounted(id)' = Uncounted(id)
  BY CountFacts DEF Quiet, SameCounts
<1> QED
  BY <1>1 DEF Covers, HardTo, Slots, LinkIn, Base

LEMMA SparesCovers ==
    ASSUME IInv, Ordered(objects, nextOrder), Covers, Spares
    PROVE  Covers'
<1> SUFFICES ASSUME NEW id \in DOMAIN objects'
             PROVE  objects'[id].refcount + Cardinality(Uncounted(id)')
                      >= Cardinality(HardTo(objects', id)) + Base(id)
  BY DEF Covers, HardTo, Slots, LinkIn, Base
<1>1. HardTo(objects', id) = HardTo(objects, id)
  BY SparesLinks, SameHardTo
<1>2. /\ \A h \in DOMAIN objects : objects'[h] = objects[h]
      /\ objects'[Len(objects) + 1] = EmptyDataset
      /\ DOMAIN objects' = 1..(Len(objects) + 1)
      /\ DOMAIN objects = 1..Len(objects) /\ Len(objects) \in Nat /\ Len(objects) >= 1
  BY ArenaFacts, AppendProperties, LenProperties DEF Spares, Arena, NodeWithin, EmptyDataset
<1>3. CASE id \in DOMAIN objects
  <2>1. Uncounted(id)' = Uncounted(id)
    BY <1>3, CountFacts DEF Spares, SameCounts
  <2> QED
    BY <1>1, <1>2, <1>3, <2>1 DEF Covers
<1>4. CASE id \notin DOMAIN objects
  <2>1. id = Len(objects) + 1 /\ id # Root
    BY <1>2, <1>4 DEF Root
  <2>2. HardTo(objects, id) = {}
    <3> SUFFICES ASSUME NEW p \in Slots(objects), LinkIn(objects, p).target = Hard(id)
                 PROVE  FALSE
      BY DEF HardTo
    <3>1. LinkIn(objects, p) \in LinkWithin(Len(objects))
      BY ArenaFacts, SlotPairs
    <3>2. id \in 1..Len(objects)
      BY <3>1 DEF LinkWithin, Hard
    <3> QED
      BY <1>2, <1>4, <3>2
  <2>3. Cardinality(Uncounted(id)') \in Nat /\ Base(id) = 0 /\ objects'[id].refcount = 0
    BY <1>2, <2>1, UncountedFinite DEF Base, EmptyDataset
  <2> QED
    BY <1>1, <2>2, <2>3, FS_EmptySet
<1> QED
  BY <1>3, <1>4

LEMMA PaysCovers ==
    ASSUME IInv, Ordered(objects, nextOrder), Covers, Pays
    PROVE  Covers'
<1>1. PICK t \in Thread, id \in DOMAIN objects :
        /\ objects' = Count(objects, id) /\ t \in Uncounted(id)
        /\ linking' = [linking EXCEPT ![t] = Idle]
  BY DEF Pays
<1>2. /\ SameLinks(objects, objects')
      /\ \A h \in DOMAIN objects \ {id} : objects'[h] = objects[h]
      /\ objects'[id].refcount = objects[id].refcount + 1
  BY <1>1, ArenaFacts, CountSlots
<1>3. DOMAIN objects' = DOMAIN objects
  BY <1>1 DEF Count
<1>4. /\ Uncounted(id)' = Uncounted(id) \ {t}
      /\ \A h \in DOMAIN objects \ {id} : Uncounted(h)' = Uncounted(h)
  BY <1>1, PaidOnce
<1>5. /\ Cardinality(Uncounted(id)') = Cardinality(Uncounted(id)) - 1
      /\ Cardinality(Uncounted(id)) \in Nat
  BY <1>1, <1>4, UncountedFinite, FS_RemoveElement
<1>6. ASSUME NEW h \in DOMAIN objects
      PROVE  /\ HardTo(objects', h) = HardTo(objects, h)
             /\ objects'[h].refcount \in Nat
             /\ objects'[h].refcount + Cardinality(Uncounted(h)')
                  = objects[h].refcount + Cardinality(Uncounted(h))
  <2>1. HardTo(objects', h) = HardTo(objects, h) /\ objects[h].refcount \in Nat
    BY <1>2, SameHardTo, CountFacts
  <2>2. CASE h = id
    BY <1>2, <1>5, <2>1, <2>2
  <2>3. CASE h # id
    BY <1>2, <1>4, <2>1, <2>3
  <2> QED
    BY <2>1, <2>2, <2>3
<1>7. ASSUME NEW h \in DOMAIN objects
      PROVE  /\ Cardinality(HardTo(objects', h)) \in Nat
             /\ Cardinality(HardTo(objects', h)) + 0 <= Cardinality(HardTo(objects, h))
             /\ objects'[h].refcount \in Nat
             /\ objects'[h].refcount + Cardinality(Uncounted(h)') + 0
                  >= objects[h].refcount + Cardinality(Uncounted(h))
  <2>1. /\ Cardinality(HardTo(objects, h)) \in Nat /\ objects[h].refcount \in Nat
        /\ Cardinality(Uncounted(h)) \in Nat /\ Cardinality(Uncounted(h)') \in Nat
    BY CountFacts
  <2> QED
    BY <1>6, <2>1
<1> QED
  BY <1>3, <1>7, OthersCover

LEMMA MovedCovers ==
    ASSUME IInv, Ordered(objects, nextOrder), Covers,
           NEW s \in DOMAIN objects, NEW i \in DOMAIN objects[s].links, NEW moved,
           Moved(s, i, moved)
    PROVE  Covers'
<1> DEFINE cut == Cut(objects, s, i)
<1>1. /\ moved \in LinkWithin(Len(objects)) /\ moved.target = objects[s].links[i].target
      /\ objects' = cut \/ \E g \in DOMAIN cut : objects' = Push(cut, g, moved)
      /\ SameCounts
  BY DEF Moved
<1>2. /\ cut \in Arena(Len(objects)) /\ Ordered(cut, nextOrder) /\ DOMAIN cut = DOMAIN objects
      /\ Len(objects) \in Nat /\ nextOrder \in Nat
  BY ArenaFacts, CutWithin, OrderedCut, LenProperties DEF SameShape, Arena
<1>3. ASSUME NEW id \in DOMAIN objects
      PROVE  /\ cut[id].refcount = objects[id].refcount
             /\ Cardinality(HardTo(cut, id)) \in Nat /\ IsFiniteSet(HardTo(cut, id))
             /\ Cardinality(HardTo(cut, id)) <= Cardinality(HardTo(objects, id))
             /\ moved.target = Hard(id) =>
                  Cardinality(HardTo(cut, id)) + 1 <= Cardinality(HardTo(objects, id))
  <2>1. cut[id].refcount = objects[id].refcount
    BY ArenaFacts, CutSlots
  <2>2. /\ Cardinality(HardTo(cut, id)) <= Cardinality(HardTo(objects, id))
        /\ moved.target = Hard(id) =>
             Cardinality(HardTo(cut, id)) + 1 <= Cardinality(HardTo(objects, id))
    BY <1>1, ArenaFacts, HardToCut
  <2> HIDE DEF cut
  <2>3. Cardinality(HardTo(cut, id)) \in Nat /\ IsFiniteSet(HardTo(cut, id))
    BY <1>2, HardToFinite
  <2> QED
    BY <2>1, <2>2, <2>3
<1> HIDE DEF cut
<1>4. ASSUME NEW id \in DOMAIN objects
      PROVE  /\ objects'[id].refcount = objects[id].refcount
             /\ Cardinality(HardTo(objects', id)) \in Nat
             /\ Cardinality(HardTo(objects', id)) <= Cardinality(HardTo(objects, id))
  <2>1. CASE objects' = cut
    BY <1>3, <2>1
  <2>2. ASSUME NEW g \in DOMAIN cut, objects' = Push(cut, g, moved)
        PROVE  /\ objects'[id].refcount = objects[id].refcount
               /\ Cardinality(HardTo(objects', id)) \in Nat
               /\ Cardinality(HardTo(objects', id)) <= Cardinality(HardTo(objects, id))
    <3> DEFINE new == <<g, Len(cut[g].links) + 1>>
    <3>1. HardTo(objects', id) = IF moved.target = Hard(id) THEN HardTo(cut, id) \cup {new}
                                 ELSE HardTo(cut, id)
      BY <1>1, <1>2, <2>2, HardToPush
    <3>2. objects'[id].refcount = cut[id].refcount
      BY <1>1, <1>2, <2>2, NodeFacts DEF Push, NodeWithin
    <3> HIDE DEF new
    <3>3. Cardinality(HardTo(cut, id) \cup {new}) \in {Cardinality(HardTo(cut, id)),
                                                       Cardinality(HardTo(cut, id)) + 1}
      BY <1>3, FS_AddElement
    <3>4. Cardinality(HardTo(objects, id)) \in Nat
      BY CountFacts
    <3> QED
      BY <1>3, <3>1, <3>2, <3>3, <3>4
  <2> QED
    BY <1>1, <2>1, <2>2
<1>5. DOMAIN objects' = DOMAIN objects
  BY <1>1, <1>2 DEF Push
<1>6. ASSUME NEW id \in DOMAIN objects
      PROVE  /\ Cardinality(HardTo(objects', id)) + 0 <= Cardinality(HardTo(objects, id))
             /\ objects'[id].refcount \in Nat
             /\ objects'[id].refcount + Cardinality(Uncounted(id)') + 0
                  >= objects[id].refcount + Cardinality(Uncounted(id))
  <2>1. Uncounted(id)' = Uncounted(id)
    BY <1>1, CountFacts DEF SameCounts
  <2>2. /\ Cardinality(HardTo(objects, id)) \in Nat /\ objects[id].refcount \in Nat
        /\ Cardinality(Uncounted(id)) \in Nat
    BY CountFacts
  <2> QED
    BY <1>4, <2>1, <2>2
<1> QED
  BY <1>4, <1>5, <1>6, OthersCover

(* unlink counts a reference less for a link less, and never below zero.   *)
LEMMA RemovedCovers ==
    ASSUME IInv, Ordered(objects, nextOrder), Covers,
           NEW s \in DOMAIN objects, NEW i \in DOMAIN objects[s].links, Removed(s, i)
    PROVE  Covers'
<1> DEFINE cut == Cut(objects, s, i)
           target == objects[s].links[i].target
<1>1. /\ objects' = IF target.kind = "Hard" THEN Uncount(cut, target.obj) ELSE cut
      /\ SameCounts
  BY DEF Removed
<1>2. /\ cut \in Arena(Len(objects)) /\ DOMAIN cut = DOMAIN objects
      /\ Len(objects) \in Nat /\ nextOrder \in Nat
  BY ArenaFacts, CutWithin, LenProperties DEF SameShape, Arena
<1>3. target.kind = "Hard" => target.obj \in DOMAIN objects /\ target = Hard(target.obj)
  <2>1. objects[s].links[i] \in LinkWithin(Len(objects))
    BY ArenaFacts, NodeFacts
  <2>2. target \in Target
    BY <2>1 DEF LinkWithin, Link
  <2> QED
    BY <2>1, <2>2, ArenaFacts DEF LinkWithin, Target, Hard
<1>4. ASSUME NEW id \in DOMAIN objects
      PROVE  /\ cut[id].refcount = objects[id].refcount
             /\ Cardinality(HardTo(cut, id)) \in Nat
             /\ Cardinality(HardTo(cut, id)) <= Cardinality(HardTo(objects, id))
             /\ target = Hard(id) =>
                  Cardinality(HardTo(cut, id)) + 1 <= Cardinality(HardTo(objects, id))
  BY ArenaFacts, CutSlots, HardToCut
<1> HIDE DEF cut, target
<1>5. ASSUME NEW id \in DOMAIN objects
      PROVE  /\ Cardinality(HardTo(cut, id)) \in Nat /\ objects[id].refcount \in Nat
             /\ Cardinality(HardTo(objects, id)) \in Nat /\ Cardinality(Uncounted(id)) \in Nat
             /\ Uncounted(id)' = Uncounted(id)
  BY <1>1, <1>4, CountFacts DEF SameCounts
<1>6. CASE target.kind # "Hard"
  <2>1. ASSUME NEW id \in DOMAIN objects
        PROVE  /\ Cardinality(HardTo(objects', id)) \in Nat
               /\ Cardinality(HardTo(objects', id)) + 0 <= Cardinality(HardTo(objects, id))
               /\ objects'[id].refcount \in Nat
               /\ objects'[id].refcount + Cardinality(Uncounted(id)') + 0
                    >= objects[id].refcount + Cardinality(Uncounted(id))
    BY <1>1, <1>4, <1>5, <1>6
  <2> QED
    BY <1>1, <1>2, <1>6, <2>1, OthersCover
<1>7. CASE target.kind = "Hard"
  <2> DEFINE obj == target.obj
  <2>1. /\ obj \in DOMAIN objects /\ target = Hard(obj) /\ objects' = Uncount(cut, obj)
    BY <1>1, <1>3, <1>7
  <2> HIDE DEF obj
  <2>2. /\ SameLinks(cut, objects')
        /\ \A h \in DOMAIN objects \ {obj} : objects'[h] = cut[h]
        /\ objects'[obj].refcount = IF cut[obj].refcount = 0 THEN 0 ELSE cut[obj].refcount - 1
    BY <1>2, <2>1, CountSlots
  <2>3. DOMAIN objects' = DOMAIN objects
    BY <1>2, <2>1 DEF Uncount
  <2>4. ASSUME NEW id \in DOMAIN objects
        PROVE  \E lost \in Nat :
                 /\ Cardinality(HardTo(objects', id)) \in Nat
                 /\ Cardinality(HardTo(objects', id)) + lost <= Cardinality(HardTo(objects, id))
                 /\ objects'[id].refcount \in Nat
                 /\ objects'[id].refcount + Cardinality(Uncounted(id)') + lost
                      >= objects[id].refcount + Cardinality(Uncounted(id))
    <3>1. HardTo(objects', id) = HardTo(cut, id)
      BY <2>2, SameHardTo
    <3>2. CASE id = obj
      <4>1. Cardinality(HardTo(cut, id)) + 1 <= Cardinality(HardTo(objects, id))
        BY <1>4, <2>1, <3>2
      <4>2. objects'[id].refcount \in Nat /\ objects'[id].refcount + 1 >= objects[id].refcount
        BY <1>4, <1>5, <2>2, <3>2
      <4>3. /\ Cardinality(HardTo(objects', id)) \in Nat
            /\ Cardinality(HardTo(objects', id)) + 1 <= Cardinality(HardTo(objects, id))
            /\ objects'[id].refcount + Cardinality(Uncounted(id)') + 1
                 >= objects[id].refcount + Cardinality(Uncounted(id))
        BY <1>5, <3>1, <4>1, <4>2
      <4> QED
        BY <4>2, <4>3
    <3>3. CASE id # obj
      <4>1. objects'[id].refcount = objects[id].refcount
        BY <1>4, <2>2, <3>3
      <4>2. /\ Cardinality(HardTo(objects', id)) \in Nat
            /\ Cardinality(HardTo(objects', id)) + 0 <= Cardinality(HardTo(objects, id))
            /\ objects'[id].refcount \in Nat
            /\ objects'[id].refcount + Cardinality(Uncounted(id)') + 0
                 >= objects[id].refcount + Cardinality(Uncounted(id))
        BY <1>4, <1>5, <3>1, <4>1
      <4> QED
        BY <4>2
    <3> QED
      BY <3>2, <3>3
  <2> QED
    BY <2>3, <2>4, OthersCover
<1> QED
  BY <1>6, <1>7

LEMMA EffectCovers ==
    ASSUME IInv, Ordered(objects, nextOrder), Covers, Effect
    PROVE  Covers'
<1>1. CASE Creates
  <2>1. PICK g, link, more :
          /\ Adds(g, link, more) /\ (more # <<>> \/ link.target.kind # "Hard") /\ SameCounts
    BY <1>1 DEF Creates
  <2>2. ASSUME NEW id \in DOMAIN objects PROVE link.target # Hard(id)
    <3>1. CASE more # <<>>
      <4>1. link.target = Hard(Len(objects) + 1) /\ Len(objects) + 1 # id
        BY <2>1, <3>1, ArenaFacts DEF Adds
      <4> QED
        BY <4>1 DEF Hard
    <3>2. CASE link.target.kind # "Hard"
      BY <3>2 DEF Hard
    <3> QED
      BY <2>1, <3>1, <3>2
  <2>3. \A id \in DOMAIN objects : Uncounted(id)' = Uncounted(id)
    BY <2>1, CountFacts DEF SameCounts
  <2> QED
    BY <2>1, <2>2, <2>3, AddsCovers
<1>2. CASE Owes
  <2>0. PICK t \in Thread, id \in DOMAIN objects :
          \E g, link :
            /\ Adds(g, link, <<>>) /\ link.target = Hard(id)
            /\ linking[t].pc = "add"
            /\ linking' = [linking EXCEPT ![t] = [pc |-> "count", obj |-> id]]
    BY <1>2 DEF Owes
  <2>1. PICK g, link :
          /\ Adds(g, link, <<>>) /\ link.target = Hard(id)
          /\ linking[t].pc = "add"
          /\ linking' = [linking EXCEPT ![t] = [pc |-> "count", obj |-> id]]
    BY <2>0
  <2>2. /\ t \notin Uncounted(id) /\ Uncounted(id)' = Uncounted(id) \cup {t}
        /\ \A h \in DOMAIN objects \ {id} : Uncounted(h)' = Uncounted(h)
    BY <2>1, OwedOnce
  <2>3. Cardinality(Uncounted(id)') = Cardinality(Uncounted(id)) + 1
    BY <2>2, UncountedFinite, FS_AddElement
  <2>4. ASSUME NEW h \in DOMAIN objects
        PROVE  Cardinality(Uncounted(h)') =
                 IF link.target = Hard(h) THEN Cardinality(Uncounted(h)) + 1
                 ELSE Cardinality(Uncounted(h))
    <3>1. link.target = Hard(h) <=> h = id
      BY <2>1 DEF Hard
    <3> QED
      BY <2>2, <2>3, <3>1
  <2> QED
    BY <2>1, <2>4, AddsCovers
<1> QED
  BY <1>1, <1>2, QuietCovers, PaysCovers, SparesCovers, MovedCovers, RemovedCovers
     DEF Effect, Moves, Removes

(* No object is ever counted as less referenced than it is: its refcount,  *)
(* with the link_hard calls that have yet to count it, covers its hard     *)
(* links (and the root's own reference), however the three critical        *)
(* sections of link_hard interleave with unlink and relink (group.rs).     *)
THEOREM LinksAreCounted == Spec => []RefcountCoversLinks
<1>1. Init => Covers
  <2> SUFFICES ASSUME Init, NEW id \in DOMAIN objects
               PROVE  objects[id].refcount + Cardinality(Uncounted(id))
                        >= Cardinality(HardTo(objects, id)) + Base(id)
    BY DEF Covers
  <2>1. HardTo(objects, id) = {}
    BY DEF Init, HardTo, Slots, EmptyGroup
  <2>2. objects[id].refcount = 1 /\ Base(id) \in 0..1
    BY DEF Init, EmptyGroup, Base
  <2> QED
    BY <2>1, <2>2, FS_EmptySet, UncountedFinite
<1>2. /\ IInv /\ Ordered(objects, nextOrder) /\ Covers /\ [Next]_vars => Covers'
  BY StepEffect, EffectCovers
<1>3. IInv /\ Ordered(objects, nextOrder) /\ Covers => RefcountCoversLinks
  <2> SUFFICES ASSUME IInv, Ordered(objects, nextOrder), Covers, NEW id \in DOMAIN objects
               PROVE  objects[id].refcount + Cardinality(Uncounted(id))
                        >= Cardinality(HardLinksTo(id)) + Base(id)
    BY DEF RefcountCoversLinks
  <2>1. HardLinksTo(id) \in SUBSET HardTo(objects, id)
    BY DEF HardLinksTo, LinkAt, HardTo, Slots, LinkIn
  <2>2. /\ objects[id].refcount \in Nat /\ Base(id) \in 0..1
        /\ Cardinality(HardTo(objects, id)) \in Nat /\ IsFiniteSet(HardTo(objects, id))
        /\ Cardinality(Uncounted(id)) \in Nat
    BY CountFacts
  <2>3. /\ Cardinality(HardLinksTo(id)) \in Nat
        /\ Cardinality(HardLinksTo(id)) <= Cardinality(HardTo(objects, id))
    BY <2>1, <2>2, FS_Subset, FS_CardinalityType
  <2>4. objects[id].refcount + Cardinality(Uncounted(id))
          >= Cardinality(HardTo(objects, id)) + Base(id)
    BY DEF Covers
  <2> QED
    BY <2>2, <2>3, <2>4
<1> QED
  BY <1>1, <1>2, <1>3, LinkInvariance, PTL DEF Spec
=============================================================================
