---------------------------- MODULE ObjectModel ----------------------------
(***************************************************************************)
(* The object arena of an open HDF5 file and the link operations that      *)
(* threads perform on it through Group handles (model.rs, hl/group.rs,     *)
(* DatasetBuilder::create_dataset).                                        *)
(*                                                                         *)
(* An action is one critical section of the RwLock around FileState: all   *)
(* the calls but link_hard are a single one; link_hard is three (resolve   *)
(* the target, add the link, count the reference) and other threads run    *)
(* between them.  A call that returns an error without changing anything   *)
(* is a stutter and has no action; a call that returns an error after it   *)
(* changed something does.                                                 *)
(***************************************************************************)
EXTENDS ObjectGraph

CONSTANTS
    Thread,      \* threads that hold Group handles of the file
    Name,        \* path components
    Slash,       \* the leading "/" of a link name stored unsplit
    Paths,       \* directory parts and link_hard targets the application passes
    GroupPaths,  \* paths the application passes to create_group
    SoftPaths,   \* soft-link targets the application stores
    Calls,       \* the API calls the application makes
    MaxObjects,  \* bound: length of the arena
    MaxOrder     \* bound: creation orders handed out

Path == [abs : BOOLEAN, comps : Seq(Name \cup {Dot})]

ASSUME PathAssumption ==
    /\ Dot \notin Name /\ Slash \notin Name \cup {Dot}
    /\ Paths \subseteq Path
    /\ GroupPaths \subseteq Path
    /\ SoftPaths \subseteq Seq(Name \cup {Dot})

ASSUME ThreadAssumption == IsFiniteSet(Thread)

ASSUME BoundAssumption ==
    MaxObjects \in Nat /\ MaxOrder \in Nat

VARIABLES
    objects,     \* FileState.objects: the arena, an id is an index of it
    nextOrder,   \* FileState.next_creation_order
    readOnly,    \* FileState.read_only
    linking,     \* per thread, the link_hard call it is in
    aborted      \* the process died of a stack overflow

vars == <<objects, nextOrder, readOnly, linking, aborted>>

(* Group::find compares whole link names; only create_dataset's virtual    *)
(* branch stores names of several components (it never splits the path).   *)
LinkName == Seq(Name \cup {Dot, Slash})

Kind == {"None", "Group", "Dataset"}
Target == [kind : {"Hard"}, obj : Nat, path : {<<>>}]
          \cup [kind : {"Soft"}, obj : {None}, path : Seq(Name \cup {Dot})]
          \cup [kind : {"External"}, obj : {None}, path : {<<>>}]
Link == [name : LinkName, target : Target, order : Nat]
Node == [kind : Kind, links : Seq(Link), refcount : Nat]

External == [kind |-> "External", obj |-> None, path |-> <<>>]

Idle == [pc |-> "idle"]
LinkHardCall == [pc : {"add"}, start : Nat, dir : Paths, leaf : Name, obj : Nat]
                \cup [pc : {"count"}, obj : Nat]

EmptyGroup == [kind |-> "Group", links |-> <<>>, refcount |-> 0]
EmptyDataset == [kind |-> "Dataset", links |-> <<>>, refcount |-> 0]

-----------------------------------------------------------------------------
(* The outcomes of a link call *)

(* What stands in the way of the link leaf in the directory: the three     *)
(* outcomes of add_link and create_dataset that are not a success.         *)
Refused(objs, start, dir, leaf) ==
    LET g == Resolve(objs, start, dir)
    IN  g = None \/ (IsGroup(objs, g) /\ Find(objs[g].links, <<leaf>>) # 0)

NotAGroup(objs, start, dir) ==
    \E d \in DOMAIN objs : Resolve(objs, start, dir) = d /\ objs[d].kind # "Group"

(* A faulty Free: the name is not looked for. *)
FreeUnchecked(objs, g, start, dir, leaf) ==
    Resolve(objs, start, dir) = g /\ objs[g].kind = "Group"

Free(objs, g, start, dir, leaf) ==
    /\ Resolve(objs, start, dir) = g
    /\ objs[g].kind = "Group"
    /\ Find(objs[g].links, <<leaf>>) = 0

Push(objs, g, link) == [objs EXCEPT ![g].links = Append(@, link)]
Cut(objs, g, i) == [objs EXCEPT ![g].links = RemoveAt(@, i)]
(* Faulty counting: an object at zero is not brought back; a count below    *)
(* zero; an object whose count reaches zero leaves the arena.              *)
CountNotFromZero(objs, id) == [objs EXCEPT ![id].refcount = IF @ = 0 THEN 0 ELSE @ + 1]
UncountBelowZero(objs, id) == [objs EXCEPT ![id].refcount = @ - 1]
UncountAndFree(objs, id) ==
    [objs EXCEPT ![id] = IF @.refcount <= 1 THEN [kind |-> "None", links |-> <<>>, refcount |-> 0]
                         ELSE [@ EXCEPT !.refcount = @ - 1]]

Count(objs, id) == [objs EXCEPT ![id].refcount = @ + 1]
Uncount(objs, id) == [objs EXCEPT ![id].refcount = IF @ = 0 THEN 0 ELSE @ - 1]

-----------------------------------------------------------------------------
Init ==
    /\ objects = << [EmptyGroup EXCEPT !.refcount = 1] >>
    /\ nextOrder = 0
    /\ readOnly = FALSE
    /\ linking = [t \in Thread |-> Idle]
    /\ aborted = FALSE

Handles == {id \in DOMAIN objects : objects[id].kind = "Group"}

(* A thread outside link_hard makes the call c. *)
Calling(t, c) == c \in Calls /\ linking[t] = Idle /\ ~aborted
(* The same, for the calls that check read_only first. *)
Writing(t, c) == Calling(t, c) /\ ~readOnly

Room(objs, orders) == Len(objects) + objs <= MaxObjects /\ nextOrder + orders <= MaxOrder

(* A faulty Descend: the leading "/" is ignored. *)
DescendFromStart(objs, start, p) ==
    LET At[k \in 0..Len(p.comps)] ==
            IF k = 0 THEN start
            ELSE LET g == At[k - 1]
                     i == IF g = None THEN 0 ELSE Find(objs[g].links, <<p.comps[k]>>)
                 IN  IF i # 0 /\ IsGroup(objs, objs[g].links[i].target.obj)
                     THEN objs[g].links[i].target.obj ELSE None
    IN  At

(* The group that the first k components of a create_group path lead to    *)
(* along hard links, or None: soft links and "." are not followed.         *)
Descend(objs, start, p) ==
    LET At[k \in 0..Len(p.comps)] ==
            IF k = 0 THEN IF p.abs THEN Root ELSE start
            ELSE LET g == At[k - 1]
                     i == IF g = None THEN 0 ELSE Find(objs[g].links, <<p.comps[k]>>)
                 IN  IF i # 0 /\ IsGroup(objs, objs[g].links[i].target.obj)
                     THEN objs[g].links[i].target.obj ELSE None
    IN  At

(* The groups create_group allocates below component k, each linked from   *)
(* the one before it.                                                      *)
NewChain(p, k) ==
    [j \in 1..(Len(p.comps) - k) |->
        [kind |-> "Group", refcount |-> 1,
         links |-> IF j = Len(p.comps) - k THEN <<>>
                   ELSE << [name |-> <<p.comps[k + j + 1]>>,
                            target |-> Hard(Len(objects) + j + 1),
                            order |-> nextOrder + j] >>]]

CreateGroup(t, start, p) ==
    /\ Writing(t, "create_group")
    /\ \E k \in 0..(Len(p.comps) - 1), g \in Handles :
         /\ Room(Len(p.comps) - k, Len(p.comps) - k)
         /\ Descend(objects, start, p)[k] = g
         /\ Find(objects[g].links, <<p.comps[k + 1]>>) = 0
         /\ objects' = Push(objects, g, [name |-> <<p.comps[k + 1]>>,
                                         target |-> Hard(Len(objects) + 1),
                                         order |-> nextOrder])
                       \o NewChain(p, k)
         /\ nextOrder' = nextOrder + Len(p.comps) - k
    /\ UNCHANGED <<readOnly, linking, aborted>>

(* create_dataset, non-virtual: the object is allocated before the name is *)
(* checked, so the refused calls leave it in the arena without a link.     *)
CreateDataset(t, start, dir, leaf) ==
    /\ Writing(t, "create_dataset")
    /\ Room(1, 1)
    /\ \E g \in DOMAIN objects :
         /\ Free(objects, g, start, dir, leaf)
         /\ objects' = Append(Push(objects, g, [name |-> <<leaf>>,
                                                target |-> Hard(Len(objects) + 1),
                                                order |-> nextOrder]),
                              [EmptyDataset EXCEPT !.refcount = 1])
    /\ nextOrder' = nextOrder + 1
    /\ UNCHANGED <<readOnly, linking, aborted>>

CreateDatasetRefused(t, start, dir, leaf) ==
    /\ Writing(t, "create_dataset")
    /\ Room(1, 1)
    /\ \/ Refused(objects, start, dir, leaf) /\ UNCHANGED nextOrder
       \/ NotAGroup(objects, start, dir) /\ nextOrder' = nextOrder + 1
    /\ objects' = Append(objects, EmptyDataset)
    /\ UNCHANGED <<readOnly, linking, aborted>>

(* create(None): no link at all. *)
CreateAnonymous(t) ==
    /\ Writing(t, "create_anonymous")
    /\ Room(1, 0)
    /\ objects' = Append(objects, EmptyDataset)
    /\ UNCHANGED <<nextOrder, readOnly, linking, aborted>>

(* create_dataset's virtual branch: the path is neither split nor checked, *)
(* the link goes into the group the builder was made from.                 *)
Unsplit(dir, leaf) == (IF dir.abs THEN <<Slash>> ELSE <<>>) \o dir.comps \o <<leaf>>

CreateVirtual(t, start, dir, leaf) ==
    /\ Writing(t, "create_virtual")
    /\ Room(1, 1)
    /\ objects' = Append(Push(objects, start, [name |-> Unsplit(dir, leaf),
                                               target |-> Hard(Len(objects) + 1),
                                               order |-> nextOrder]),
                         [EmptyDataset EXCEPT !.refcount = 1])
    /\ nextOrder' = nextOrder + 1
    /\ UNCHANGED <<readOnly, linking, aborted>>

-----------------------------------------------------------------------------
(* Group::add_link, the critical section the three link calls share.       *)

(* A faulty add_link: the creation order is read and not advanced. *)
AddLinkSameOrder(start, dir, leaf, target) ==
    \E g \in DOMAIN objects :
      /\ Free(objects, g, start, dir, leaf)
      /\ objects' = Push(objects, g, [name |-> <<leaf>>, target |-> target,
                                      order |-> nextOrder])
      /\ UNCHANGED nextOrder

AddLink(start, dir, leaf, target) ==
    \E g \in DOMAIN objects :
      /\ Free(objects, g, start, dir, leaf)
      /\ objects' = Push(objects, g, [name |-> <<leaf>>, target |-> target,
                                      order |-> nextOrder])
      /\ nextOrder' = nextOrder + 1

(* The creation order is drawn before the parent is found not to be a      *)
(* group: it is lost.                                                      *)
AddLinkRefused(start, dir, leaf) ==
    /\ \/ Refused(objects, start, dir, leaf) /\ UNCHANGED nextOrder
       \/ NotAGroup(objects, start, dir) /\ nextOrder' = nextOrder + 1
    /\ UNCHANGED objects

LinkSoft(t, start, dir, leaf, path) ==
    /\ Writing(t, "link_soft")
    /\ Room(0, 1)
    /\ AddLink(start, dir, leaf, Soft(path)) \/ AddLinkRefused(start, dir, leaf)
    /\ UNCHANGED <<readOnly, linking, aborted>>

LinkExternal(t, start, dir, leaf) ==
    /\ Writing(t, "link_external")
    /\ Room(0, 1)
    /\ AddLink(start, dir, leaf, External) \/ AddLinkRefused(start, dir, leaf)
    /\ UNCHANGED <<readOnly, linking, aborted>>

(* link_hard, first critical section (a read lock, read_only unchecked):   *)
(* the target id is fetched and kept after the unlock.                     *)
LinkHardResolve(t, start, target, dir, leaf) ==
    /\ Calling(t, "link_hard")
    /\ \E id \in DOMAIN objects :
         /\ Resolve(objects, start, target) = id
         /\ linking' = [linking EXCEPT ![t] = [pc |-> "add", start |-> start,
                                               dir |-> dir, leaf |-> leaf, obj |-> id]]
    /\ UNCHANGED <<objects, nextOrder, readOnly, aborted>>

(* A faulty second critical section: read_only was checked in the first. *)
LinkHardAddUnchecked(t) ==
    /\ linking[t].pc = "add" /\ ~aborted
    /\ Room(0, 1)
    /\ LET c == linking[t]
       IN  \/ /\ AddLink(c.start, c.dir, c.leaf, Hard(c.obj))
              /\ linking' = [linking EXCEPT ![t] = [pc |-> "count", obj |-> c.obj]]
           \/ /\ AddLinkRefused(c.start, c.dir, c.leaf)
              /\ linking' = [linking EXCEPT ![t] = Idle]
    /\ UNCHANGED <<readOnly, aborted>>

(* Second critical section. *)
LinkHardAdd(t) ==
    /\ linking[t].pc = "add" /\ ~aborted /\ ~readOnly
    /\ Room(0, 1)
    /\ LET c == linking[t]
       IN  \/ /\ AddLink(c.start, c.dir, c.leaf, Hard(c.obj))
              /\ linking' = [linking EXCEPT ![t] = [pc |-> "count", obj |-> c.obj]]
           \/ /\ AddLinkRefused(c.start, c.dir, c.leaf)
              /\ linking' = [linking EXCEPT ![t] = Idle]
    /\ UNCHANGED <<readOnly, aborted>>

LinkHardReadOnly(t) ==
    /\ linking[t].pc = "add" /\ ~aborted /\ readOnly
    /\ linking' = [linking EXCEPT ![t] = Idle]
    /\ UNCHANGED <<objects, nextOrder, readOnly, aborted>>

(* Third critical section: read_only is not looked at again. *)
LinkHardCount(t) ==
    /\ linking[t].pc = "count" /\ ~aborted
    /\ objects' = Count(objects, linking[t].obj)
    /\ linking' = [linking EXCEPT ![t] = Idle]
    /\ UNCHANGED <<nextOrder, readOnly, aborted>>

(* Group::relink.  The link is taken out first; when the new directory is  *)
(* not found, or is not a group, the call fails and the link is gone.  The *)
(* new name is not compared with the names already there.                  *)
Relink(t, start, i, dir, leaf) ==
    /\ Writing(t, "relink")
    /\ Find(objects[start].links, objects[start].links[i].name) = i
    /\ LET cut == Cut(objects, start, i)
       IN  \/ \E g \in DOMAIN cut :
                /\ Resolve(cut, start, dir) = g
                /\ cut[g].kind = "Group"
                /\ objects' = Push(cut, g, [objects[start].links[i] EXCEPT !.name = <<leaf>>])
           \/ /\ Resolve(cut, start, dir) = None \/ NotAGroup(cut, start, dir)
              /\ objects' = cut
    /\ UNCHANGED <<nextOrder, readOnly, linking, aborted>>

(* Group::unlink.  The object stays in the arena whatever its refcount.    *)
Unlink(t, start, i) ==
    /\ Writing(t, "unlink")
    /\ Find(objects[start].links, objects[start].links[i].name) = i
    /\ LET target == objects[start].links[i].target
           cut == Cut(objects, start, i)
       IN  objects' = IF target.kind = "Hard" THEN Uncount(cut, target.obj) ELSE cut
    /\ UNCHANGED <<nextOrder, readOnly, linking, aborted>>

(* A soft link that leads back to itself: the recursion of resolve exhausts *)
(* the stack of whichever call resolves a path through it.                 *)
OverflowInCall(t, start, dir) ==
    /\ \/ \E c \in {"link_exists", "link_hard"} : Calling(t, c)
       \/ \E c \in {"create_dataset", "link_soft", "link_external"} : Writing(t, c)
    /\ Resolve(objects, start, dir) = Diverged
    /\ aborted' = TRUE
    /\ UNCHANGED <<objects, nextOrder, readOnly, linking>>

OverflowInLinkHard(t) ==
    /\ linking[t].pc = "add" /\ ~aborted /\ ~readOnly
    /\ Resolve(objects, linking[t].start, linking[t].dir) = Diverged
    /\ aborted' = TRUE
    /\ UNCHANGED <<objects, nextOrder, readOnly, linking>>

OverflowInRelink(t, start, i, dir) ==
    /\ Writing(t, "relink")
    /\ Resolve(Cut(objects, start, i), start, dir) = Diverged
    /\ aborted' = TRUE
    /\ UNCHANGED <<objects, nextOrder, readOnly, linking>>

(* The collective close of an MPI file marks the shared state read-only    *)
(* while other handles of it are still in use.                             *)
SealReadOnly ==
    /\ "close_collective" \in Calls /\ ~readOnly /\ ~aborted
    /\ readOnly' = TRUE
    /\ UNCHANGED <<objects, nextOrder, linking, aborted>>

CreateStep(t) ==
    \E s \in Handles :
      \/ \E p \in GroupPaths : CreateGroup(t, s, p)
      \/ \E d \in Paths, n \in Name : CreateDataset(t, s, d, n)
      \/ \E d \in Paths, n \in Name : CreateDatasetRefused(t, s, d, n)
      \/ \E d \in Paths, n \in Name : CreateVirtual(t, s, d, n)

LinkStep(t) ==
    \E s \in Handles, d \in Paths, n \in Name :
      \/ \E p \in SoftPaths : LinkSoft(t, s, d, n, p)
      \/ LinkExternal(t, s, d, n)
      \/ \E p \in Paths : LinkHardResolve(t, s, p, d, n)

RemoveStep(t) ==
    \E s \in Handles : \E i \in DOMAIN objects[s].links :
      \/ Unlink(t, s, i)
      \/ \E d \in Paths, n \in Name : Relink(t, s, i, d, n)

OverflowStep(t) ==
    \E s \in Handles, d \in Paths :
      \/ OverflowInCall(t, s, d)
      \/ \E i \in DOMAIN objects[s].links : OverflowInRelink(t, s, i, d)

Step(t) ==
    \/ CreateStep(t)
    \/ CreateAnonymous(t)
    \/ LinkStep(t)
    \/ LinkHardAdd(t)
    \/ LinkHardReadOnly(t)
    \/ LinkHardCount(t)
    \/ RemoveStep(t)
    \/ OverflowStep(t)
    \/ OverflowInLinkHard(t)

Next == SealReadOnly \/ \E t \in Thread : Step(t)

Spec == Init /\ [][Next]_vars

-----------------------------------------------------------------------------
(* Properties *)

(* Every variable keeps its type; refcount is a u32 that must never be     *)
(* taken below zero, whatever unlink does before link_hard has counted.    *)
TypeOK ==
    /\ objects \in Seq(Node)
    /\ nextOrder \in Nat
    /\ readOnly \in BOOLEAN
    /\ linking \in [Thread -> {Idle} \cup LinkHardCall]
    /\ aborted \in BOOLEAN

(* FileState::get and get_mut panic on an id whose slot is empty: no hard  *)
(* link, and no id that link_hard still holds after its unlock, ever names *)
(* such a slot.                                                            *)
Live(id) == id \in DOMAIN objects /\ objects[id].kind # "None"

HardTargetsLive ==
    /\ Live(Root)
    /\ \A g \in DOMAIN objects : \A i \in DOMAIN objects[g].links :
         LET t == objects[g].links[i].target IN t.kind = "Hard" => Live(t.obj)
    /\ \A t \in Thread : linking[t].pc # "idle" => Live(linking[t].obj)

(* No two links of the file carry the same creation order and the next one *)
(* is above them all, so that iteration by creation order is well defined, *)
(* whichever calls failed or moved links before.                           *)
LinkAt == {p \in (DOMAIN objects) \X (1..nextOrder) : p[2] \in DOMAIN objects[p[1]].links}
OrderOf(p) == objects[p[1]].links[p[2]].order

OrdersUnique ==
    /\ \A g \in DOMAIN objects : Len(objects[g].links) <= nextOrder
    /\ \A p \in LinkAt : OrderOf(p) < nextOrder
    /\ \A p, q \in LinkAt : OrderOf(p) = OrderOf(q) => p = q

(* The lifetime bookkeeping never counts an object as less referenced than *)
(* it is: its refcount, with the link_hard calls that have yet to count    *)
(* it, covers its hard links (and the file's own reference to the root).   *)
HardLinksTo(id) ==
    {p \in LinkAt : objects[p[1]].links[p[2]].target = Hard(id)}
Uncounted(id) == {t \in Thread : linking[t].pc = "count" /\ linking[t].obj = id}
Base(id) == IF id = Root THEN 1 ELSE 0

RefcountCoversLinks ==
    \A id \in DOMAIN objects :
      objects[id].refcount + Cardinality(Uncounted(id))
        >= Cardinality(HardLinksTo(id)) + Base(id)

(* No two links of a group have the same name, however the calls that test *)
(* for the name and then add the link are interleaved.                     *)
UniqueNames ==
    \A g \in DOMAIN objects : \A i, j \in DOMAIN objects[g].links :
      objects[g].links[i].name = objects[g].links[j].name => i = j

(* An id stays the id of the same object: slots are neither emptied nor    *)
(* reused, so a handle taken earlier cannot come to denote another object. *)
ArenaStable ==
    [][\A id \in DOMAIN objects :
         id \in DOMAIN objects' /\ objects'[id].kind = objects[id].kind]_vars

(* Once the state is read-only no link and no object is added or removed,  *)
(* not even by the link_hard call that was under way at that moment.       *)
ReadOnlyFreezes ==
    [][readOnly => /\ DOMAIN objects' = DOMAIN objects
                   /\ \A id \in DOMAIN objects : objects'[id].links = objects[id].links
                   /\ nextOrder' = nextOrder]_vars

(* When create_group has created something, the path it was given resolves *)
(* from the same handle to a new, empty group.                             *)
CreatedGroupResolves ==
    [][\A t \in Thread, s \in Handles, p \in GroupPaths :
         CreateGroup(t, s, p) =>
           LET id == Resolve(objects', s, p)
           IN  /\ id \in DOMAIN objects' \ DOMAIN objects
               /\ objects'[id] = [EmptyGroup EXCEPT !.refcount = 1]]_vars

(* A relink, whatever it answers, neither adds nor removes links.          *)
RelinkKeepsLinks ==
    [][\A t \in Thread, s \in Handles, d \in Paths, n \in Name :
         \A i \in DOMAIN objects[s].links :
           Relink(t, s, i, d, n) =>
             \E g \in DOMAIN objects' : \E j \in DOMAIN objects'[g].links :
               objects'[g].links[j].order = objects[s].links[i].order]_vars
=============================================================================
