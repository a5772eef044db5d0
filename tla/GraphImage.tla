----------------------------- MODULE GraphImage -----------------------------
(***************************************************************************)
(* Saving and opening: how the graph of objects and links is turned into a *)
(* file image (format/writer.rs) and an image into a graph again           *)
(* (format/reader.rs), the calls in between (Group::add_link), and images  *)
(* that another program wrote.                                             *)
(*                                                                         *)
(* The two recursions are stacks of frames, one frame for each group that  *)
(* is being written or read; an action is a step of the innermost group.   *)
(* What an object is besides its links is its content (ObjectHeaders); the *)
(* data of a dataset is the matter of DatasetImage.                        *)
(***************************************************************************)
EXTENDS ObjectHeaders

CONSTANTS
    Name,         \* link names, a set of positive numbers
    NewName,      \* the name the application adds after opening
    SoftTarget,   \* the string in a soft link
    LinkSize,     \* sizes of link messages, by the type of the link
    DenseAbove,   \* links that fit in a compact group (8)
    Graphs,       \* models the application saves
    Foreign,      \* what other programs stored: graphs, with their images
    MaxSaves      \* bound: images written

HardTargets(node) == {node.links[i].to : i \in {j \in DOMAIN node.links : node.links[j].kind = "Hard"}}

(* What an application has in memory: links between objects of the arena,  *)
(* and only groups have links.                                             *)
NodeOver(ids, node) ==
    /\ node = [kind |-> node.kind, content |-> node.content, links |-> node.links,
               refcount |-> node.refcount]
    /\ node.links \in Seq(ToSet(node.links)) /\ \A l \in ToSet(node.links) : l.name \in String
    /\ HardTargets(node) \subseteq ids
    /\ node.kind # "Group" => node.links = <<>>

WellFormed(m) ==
    /\ m = [objects |-> m.objects, root |-> m.root, next |-> m.next, sohm |-> m.sohm]
    /\ m.objects \in Seq(ToSet(m.objects)) /\ m.root \in DOMAIN m.objects
    /\ \A id \in DOMAIN m.objects : NodeOver(DOMAIN m.objects, m.objects[id])

ASSUME GraphAssumption == NewName \in String /\ \A m \in Graphs : WellFormed(m)

VARIABLES
    phase,        \* what the program is in the middle of
    model,        \* FileState: arena, root, next creation order, message sharing
    image,        \* the blocks written so far
    super,        \* the superblock: address of the root's header, its caches, extension
    sharing,      \* Writer.sohm (stores of shared messages) or Parser.sohm_indexes
    stack,        \* the recursion of the writer or the reader
    memo,         \* Writer.memo (object -> reference) or Parser.memo (address -> slot)
    source,       \* ghost: the graph the image stands for
    saves         \* ghost: images written

vars == <<phase, model, image, super, sharing, stack, memo, source, saves>>

Untracked == -1

Top == stack[Len(stack)]
Pop == SubSeq(stack, 1, Len(stack) - 1)
OnTop(frame) == [stack EXCEPT ![Len(stack)] = frame]

NoMemo == [x \in {} |-> None]
Memoized(x, v) == [y \in DOMAIN memo \cup {x} |-> IF y = x THEN v ELSE memo[y]]

ByName(s) == StableSort(s, [i \in DOMAIN s |-> s[i].name])
ByOrder(s) == StableSort(s, [i \in DOMAIN s |-> s[i].order])

-----------------------------------------------------------------------------
(* Writing *)

(* A faulty FormOf: external links are stored in symbol tables.            *)
FormOfNoExternal(links) == "Symtab"

FormOf(links) ==
    IF \A i \in DOMAIN links : links[i].kind # "External" THEN "Symtab"
    ELSE IF Len(links) > DenseAbove THEN "Dense" ELSE "Compact"

WriterFrame(id) ==
    LET links == model.objects[id].links
        form == FormOf(links)
    IN  [id |-> id, form |-> form, heap |-> <<>>, entries |-> <<>>, level |-> None,
         nodes |-> <<>>, heapAddr |-> None,
         todo |-> IF form = "Dense" THEN links ELSE ByName(links)]

(* The object that write_object is called for next.                        *)
ToWrite ==
    IF stack = <<>> THEN model.root
    ELSE IF Top.todo # <<>> /\ Head(Top.todo).kind = "Hard" THEN Head(Top.todo).to
    ELSE None

Visiting == {stack[i].id : i \in DOMAIN stack}

Save ==
    /\ phase \in {"model", "edited"} /\ saves < MaxSaves
    /\ phase' = "write"
    /\ image' = <<>> /\ super' = <<>> /\ stack' = <<>> /\ memo' = NoMemo
    /\ sharing' = EmptyStores(model.sohm)
    /\ source' = model
    /\ saves' = saves + 1
    /\ UNCHANGED model

(* A faulty Refused: unsupported objects are looked for in all the arena.  *)
RefusedIfAny(id) ==
    id \in Visiting \/ \E other \in DOMAIN model.objects : model.objects[other].kind = "Unsupported"

(* write_object fails on a group that is being written, and on an object   *)
(* that could not be read.                                                 *)
Refused(id) == id \in Visiting \/ model.objects[id].kind = "Unsupported"

LinkObject(link) == [type |-> "Link", size |-> LinkSize[link.kind], link |-> link]
LinkObjects(links) == [i \in DOMAIN links |-> LinkObject(links[i])]

(* What is in the messages of an object's header besides attributes.       *)
Bodies(node) ==
    {node.content.mtime, node.content.comment}
    \cup CASE node.kind = "Dataset" -> {node.content.space, node.content.dtype, node.content.fill}
           [] node.kind = "NamedType" -> {node.content.dtype}
           [] node.kind = "Group" /\ FormOf(node.links) = "Compact" -> Range(LinkObjects(node.links))
           [] OTHER -> {}

(* The header of an object can be written, and its dense links; how large  *)
(* a link message is does not depend on where the target has been written. *)
Encodable(node) ==
    /\ HeaderFits(Bodies(node), node.content.attrs)
    /\ FormOf(node.links) = "Dense" => HeapFits(LinkObjects(node.links))

(* The innermost group has written its members, and its tree.              *)
TreeDone == Top.level > 0 /\ Len(Top.nodes) = 1

MembersDone ==
    /\ phase = "write" /\ stack # <<>> /\ Top.todo = <<>>
    /\ Top.form = "Symtab" => TreeDone

(* What stops the writer: at an object whose turn it is; at the header and *)
(* the dense links of a group, after its members; at the heaps of shared   *)
(* messages, after all objects.                                            *)
Stopped ==
    \/ /\ phase = "write" /\ ToWrite \notin {None} \cup DOMAIN memo
       /\ \/ Refused(ToWrite)
          \/ model.objects[ToWrite].kind # "Group" /\ ~Encodable(model.objects[ToWrite])
    \/ MembersDone /\ ~Encodable(model.objects[Top.id])
    \/ phase = "write" /\ stack = <<>> /\ model.root \in DOMAIN memo /\ ~StoresFit(sharing)

Refuse ==
    /\ Stopped
    /\ phase' = "refused"
    /\ UNCHANGED <<model, image, super, sharing, stack, memo, source, saves>>

(* Datasets, and named types, which have no message but their type.        *)
WriteDataset ==
    /\ phase = "write" /\ ToWrite \notin {None} \cup DOMAIN memo
    /\ model.objects[ToWrite].kind \in {"Dataset", "NamedType"} /\ Encodable(model.objects[ToWrite])
    /\ \E node \in {model.objects[ToWrite]} : \E data \in {DataMessages(sharing, node.content)} :
           /\ image' = WithHeader(image,
                           IF node.kind = "NamedType" THEN <<Message("Datatype", node.content.dtype)>>
                           ELSE Append(data.msgs, Message("Layout", NoBody)), node.content)
           /\ sharing' = IF node.kind = "NamedType" THEN sharing ELSE data.stores
    /\ memo' = Memoized(ToWrite, [oh |-> Len(image'), cache |-> 0, btree |-> Undef, heap |-> Undef])
    /\ UNCHANGED <<phase, model, super, stack, source, saves>>

EnterGroup ==
    /\ phase = "write" /\ ToWrite \notin {None} \cup DOMAIN memo
    /\ model.objects[ToWrite].kind = "Group" /\ ~Refused(ToWrite)
    /\ stack' = Append(stack, WriterFrame(ToWrite))
    /\ UNCHANGED <<phase, model, image, super, sharing, memo, source, saves>>

SymbolEntry(link, heap) ==
    LET ref == IF link.kind = "Hard" THEN memo[link.to]
               ELSE [oh |-> Undef, cache |-> 2, btree |-> Undef, heap |-> Undef]
    IN  [nameOff |-> Offset(heap, link.name), addr |-> ref.oh, cache |-> ref.cache,
         scratch |-> CASE ref.cache = 0 -> <<0, 0>>
                       [] ref.cache = 1 -> <<ref.btree, ref.heap>>
                       [] ref.cache = 2 -> <<Offset(heap, link.to), 0>>]

LinkMessage(link) ==
    [name |-> link.name, kind |-> link.kind, order |-> Untracked,
     to |-> IF link.kind = "Hard" THEN memo[link.to].oh ELSE link.to]

(* A link whose object, if it has one, has been written.                   *)
WriteLink ==
    /\ phase = "write" /\ stack # <<>> /\ Top.todo # <<>>
    /\ ToWrite \in {None} \cup DOMAIN memo
    /\ LET link == Head(Top.todo)
           named == HeapAdd(Top.heap, link.name)
           heap == IF link.kind = "Soft" THEN HeapAdd(named, link.to) ELSE named
       IN  stack' = OnTop([Top EXCEPT
                !.todo = Tail(@),
                !.heap = IF Top.form = "Symtab" THEN heap ELSE @,
                !.entries = Append(@, IF Top.form = "Symtab" THEN SymbolEntry(link, heap)
                                      ELSE LinkMessage(link))])
    /\ UNCHANGED <<phase, model, image, super, sharing, memo, source, saves>>

(* The members are known: the heap and the leaves.                         *)
WriteLeaves ==
    /\ phase = "write" /\ stack # <<>> /\ Top.todo = <<>>
    /\ Top.form = "Symtab" /\ Top.heapAddr = None
    /\ LET heaped == Append(image, [type |-> "HEAP", strings |-> Top.heap])
       IN  /\ image' = WithSnods(heaped, Top.entries)
           /\ stack' = OnTop([Top EXCEPT !.heapAddr = Len(heaped),
                                         !.nodes = SnodRefs(heaped, Top.entries)])
    /\ UNCHANGED <<phase, model, super, sharing, memo, source, saves>>

WriteLevel ==
    /\ phase = "write" /\ stack # <<>> /\ Top.heapAddr # None /\ ~TreeDone
    /\ image' = WithLevel(image, Top.level, Top.nodes)
    /\ stack' = OnTop([Top EXCEPT !.level = @ + 1, !.nodes = LevelRefs(image, Top.nodes)])
    /\ UNCHANGED <<phase, model, super, sharing, memo, source, saves>>

LinkRecords(links) ==
    Of(HeapIds(LinkObjects(links)),
       LAMBDA ids : [i \in DOMAIN links |-> [hash |-> Hash[links[i].name], id |-> ids[i]]])

(* A faulty WithDenseLinks: the records are in the order of the links.     *)
WithDenseLinksUnsorted(links) ==
    WithTree(WithHeap(image, LinkObjects(links)), "Links", LinkRecords(links))

WithDenseLinks(links) ==
    WithTree(WithHeap(image, LinkObjects(links)), "Links", ByHash(LinkRecords(links)))

(* The object header, last: then the group is written and remembered.      *)
GroupMessages(heap, tree) ==
    IF Top.form = "Symtab"
    THEN <<Message("SymbolTable", [tree |-> Head(Top.nodes).addr, heap |-> Top.heapAddr])>>
    ELSE <<Message("LinkInfo", [heap |-> heap, tree |-> tree]), Message("GroupInfo", NoBody)>>
         \o (IF Top.form = "Dense" THEN <<>>
             ELSE [i \in DOMAIN Top.entries |-> Message("Link", Top.entries[i])])

WithGroup ==
    LET content == model.objects[Top.id].content
    IN  IF Top.form = "Dense"
        THEN Of(WithDenseLinks(Top.entries), LAMBDA dense :
                WithHeader(dense, GroupMessages(Len(image) + 1, Len(dense)), content))
        ELSE WithHeader(image, GroupMessages(Undef, Undef), content)

(* A faulty GroupRef: the caches point to the header.                      *)
GroupRefToHeader(oh) == [oh |-> oh, cache |-> 1, btree |-> oh, heap |-> Top.heapAddr]

GroupRef(oh) ==
    IF Top.form = "Symtab"
    THEN [oh |-> oh, cache |-> 1, btree |-> Head(Top.nodes).addr, heap |-> Top.heapAddr]
    ELSE [oh |-> oh, cache |-> 0, btree |-> Undef, heap |-> Undef]

WriteHeader ==
    /\ MembersDone /\ Encodable(model.objects[Top.id])
    /\ image' = WithGroup
    /\ memo' = Memoized(Top.id, GroupRef(Len(image')))
    /\ stack' = Pop
    /\ UNCHANGED <<phase, model, super, sharing, source, saves>>

(* Messages that were shared make the superblock one of version 2; the     *)
(* older one always says that the root's tree and heap are cached.         *)
WriteSuperblock ==
    /\ phase = "write" /\ stack = <<>> /\ model.root \in DOMAIN memo /\ StoresFit(sharing)
    /\ phase' = "image"
    /\ IF sharing = <<>>
       THEN /\ super' = [oh |-> memo[model.root].oh, cache |-> 1, ext |-> Undef,
                         btree |-> memo[model.root].btree, heap |-> memo[model.root].heap]
            /\ image' = image
       ELSE /\ image' = WithTables(image, sharing)
            /\ super' = [oh |-> memo[model.root].oh, cache |-> 0, btree |-> Undef,
                         heap |-> Undef, ext |-> Len(image')]
    /\ UNCHANGED <<model, sharing, stack, memo, source, saves>>

-----------------------------------------------------------------------------
(* Reading *)

EmptyNode == [kind |-> "Group", content |-> NoContent, links |-> <<>>, refcount |-> 0]

Open ==
    /\ phase = "image"
    /\ phase' = "read"
    /\ model' = [objects |-> <<EmptyNode>>, root |-> 1, next |-> 0, sohm |-> <<>>]
    /\ sharing' = Indexes(image, super.ext)
    /\ stack' = <<>> /\ memo' = NoMemo
    /\ UNCHANGED <<image, super, source, saves>>

(* The links of an object in the order they are parsed: link messages, the *)
(* symbol table, dense storage.  An item Damaged is where the parse fails. *)
DamagedItem == [name |-> None, kind |-> "Damaged", to |-> None, order |-> Untracked]

SymbolItems(table) ==
    IF table = NoBody THEN <<>>
    ELSE LET heap == image[table.heap].strings
             Item(e) == [name |-> StringAt(heap, e.nameOff), order |-> Untracked,
                         kind |-> IF e.cache = 2 THEN "Soft" ELSE "Hard",
                         to |-> IF e.cache = 2 THEN StringAt(heap, e.scratch[1]) ELSE e.addr]
             entries == EntriesUnder(image, table.tree)
         IN  [i \in DOMAIN entries |-> Item(entries[i])]

DenseItems(info) ==
    LET Item(object) == IF object = Lost THEN DamagedItem ELSE object.link
    IN  Of(DenseRecords(image, info), LAMBDA records :
            [i \in DOMAIN records |-> Of(HeapGet(image, info.heap, records[i].id), Item)])

Items(msgs) ==
    LET inHeader == SelectSeq(msgs, LAMBDA m : m.type \in {"Link", "Damaged"})
    IN  [i \in DOMAIN inHeader |->
            IF inHeader[i].type = "Damaged" THEN DamagedItem ELSE inHeader[i].body]
        \o (IF AttributesDamaged(image, msgs) THEN <<DamagedItem>> ELSE <<>>)
        \o SymbolItems(BodyOf(msgs, "SymbolTable"))
        \o DenseItems(BodyOf(msgs, "LinkInfo"))

(* The address that parse_object is called for next.                       *)
ToRead ==
    IF stack = <<>> THEN super.oh
    ELSE IF Top.todo # <<>> /\ Head(Top.todo).kind = "Hard" THEN Head(Top.todo).to
    ELSE None

Alloc(node) == [model EXCEPT !.objects = Append(@, node)]

MessagesToRead == Messages(image, sharing, ToRead)

(* Objects that are no groups, damaged or not.                             *)
ReadDataset ==
    /\ phase = "read" /\ ToRead \notin {None} \cup DOMAIN memo
    /\ \E msgs \in {MessagesToRead} :
           /\ KindOf(msgs) # "Group"
           /\ model' = Alloc(IF DamagedItem \in Range(Items(msgs))
                             THEN [EmptyNode EXCEPT !.kind = "Unsupported"]
                             ELSE [EmptyNode EXCEPT !.kind = KindOf(msgs),
                                                    !.content = ContentOf(image, msgs)])
    /\ memo' = Memoized(ToRead, Len(model.objects) + 1)
    /\ UNCHANGED <<phase, image, super, sharing, stack, source, saves>>

ReaderFrame(msgs) ==
    Of(Items(msgs), LAMBDA todo :
        [slot |-> Len(model.objects) + 1, todo |-> todo, links |-> <<>>,
         content |-> IF DamagedItem \in Range(todo) THEN NoContent ELSE ContentOf(image, msgs),
         drawn |-> OfType(msgs, "SymbolTable") # <<>>,
         dense |-> DenseRecords(image, BodyOf(msgs, "LinkInfo")) # <<>>])

(* A faulty EnterHeader: the slot is remembered only when it is complete.  *)
EnterHeaderUnmemoized ==
    /\ phase = "read" /\ ToRead \notin {None} \cup DOMAIN memo
    /\ \E msgs \in {MessagesToRead} :
           /\ KindOf(msgs) = "Group"
           /\ stack' = Append(stack, ReaderFrame(msgs))
    /\ model' = Alloc(EmptyNode)
    /\ UNCHANGED <<phase, image, super, sharing, memo, source, saves>>

(* The slot is taken and remembered before the members are read.           *)
EnterHeader ==
    /\ phase = "read" /\ ToRead \notin {None} \cup DOMAIN memo
    /\ \E msgs \in {MessagesToRead} :
           /\ KindOf(msgs) = "Group"
           /\ stack' = Append(stack, ReaderFrame(msgs))
    /\ model' = Alloc(EmptyNode)
    /\ memo' = Memoized(ToRead, Len(model.objects) + 1)
    /\ UNCHANGED <<phase, image, super, sharing, source, saves>>

(* A link, which has a string for a name, whose object, if it has one, has *)
(* a slot.  Links of other types are passed over.  Symbol tables have no   *)
(* creation orders: they are drawn.                                        *)
ReadLink ==
    /\ phase = "read" /\ stack # <<>> /\ Top.todo # <<>>
    /\ Head(Top.todo).kind = "Hard" => Head(Top.todo).to \in DOMAIN memo
    /\ LET item == Head(Top.todo)
           link == [name |-> item.name, kind |-> item.kind,
                    to |-> IF item.kind = "Hard" THEN memo[item.to] ELSE item.to,
                    order |-> IF Top.drawn THEN model.next
                              ELSE IF item.order = Untracked THEN 0 ELSE item.order]
       IN  /\ item.kind # "Damaged" /\ item.name \in String /\ item.order \in Int
           /\ stack' = OnTop([Top EXCEPT
                   !.todo = Tail(@),
                   !.links = IF item.kind = "Unknown" THEN @ ELSE Append(@, link)])
           /\ model' = IF Top.drawn THEN [model EXCEPT !.next = @ + 1] ELSE model
    /\ UNCHANGED <<phase, image, super, sharing, memo, source, saves>>

(* A faulty ReadDamaged: the group keeps the links before the damage.      *)
ReadDamagedPartly ==
    /\ phase = "read" /\ stack # <<>> /\ Top.todo # <<>> /\ Head(Top.todo).kind = "Damaged"
    /\ model' = [model EXCEPT !.objects[Top.slot].links = Top.links]
    /\ stack' = Pop
    /\ UNCHANGED <<phase, image, super, sharing, memo, source, saves>>

(* A faulty ReadDamaged: the cursor stays where the damage is.             *)
ReadDamagedAgain ==
    /\ phase = "read" /\ stack # <<>> /\ Top.todo # <<>> /\ Head(Top.todo).kind = "Damaged"
    /\ model' = [model EXCEPT !.objects[Top.slot].kind = "Unsupported"]
    /\ UNCHANGED <<phase, image, super, sharing, stack, memo, source, saves>>

(* What cannot be decoded makes its object unsupported, and no other; what *)
(* its links have led to stays in the arena.                               *)
ReadDamaged ==
    /\ phase = "read" /\ stack # <<>> /\ Top.todo # <<>> /\ Head(Top.todo).kind = "Damaged"
    /\ model' = [model EXCEPT !.objects[Top.slot].kind = "Unsupported"]
    /\ stack' = Pop
    /\ UNCHANGED <<phase, image, super, sharing, memo, source, saves>>

LeaveHeader ==
    /\ phase = "read" /\ stack # <<>> /\ Top.todo = <<>>
    /\ LET links == IF Top.dense THEN ByOrder(Top.links) ELSE Top.links
       IN  model' = [model EXCEPT !.objects[Top.slot] = [@ EXCEPT !.content = Top.content,
                                                                !.links = links]]
    /\ stack' = Pop
    /\ UNCHANGED <<phase, image, super, sharing, memo, source, saves>>

(* FileState::recount: over the whole arena, what nobody reaches included. *)
LinksTo(objects, id) ==
    {at \in UNION {{h} \X DOMAIN objects[h].links : h \in DOMAIN objects} :
        LET link == objects[at[1]].links[at[2]] IN link.kind = "Hard" /\ link.to = id}

(* A faulty Recounted: the root has no reference of its own.               *)
RecountedNoRoot(objects, root) ==
    [id \in DOMAIN objects |->
        [objects[id] EXCEPT !.refcount = Cardinality(LinksTo(objects, id))]]

Recounted(objects, root) ==
    [id \in DOMAIN objects |->
        [objects[id] EXCEPT !.refcount = Cardinality(LinksTo(objects, id))
                                         + IF id = root THEN 1 ELSE 0]]

Opened ==
    /\ phase = "read" /\ stack = <<>> /\ super.oh \in DOMAIN memo
    /\ phase' = "model"
    /\ model' = [model EXCEPT !.root = memo[super.oh],
                              !.objects = Recounted(@, memo[super.oh])]
    /\ UNCHANGED <<image, super, sharing, stack, memo, source, saves>>

-----------------------------------------------------------------------------
(* The application adds a soft link to the root.                           *)

RootLinks == model.objects[model.root].links

AddLink ==
    /\ phase = "model" /\ super # <<>>
    /\ model.objects[model.root].kind = "Group"
    /\ \A i \in DOMAIN RootLinks : RootLinks[i].name # NewName
    /\ model' = [model EXCEPT
           !.objects[model.root].links = Append(@, [name |-> NewName, kind |-> "Soft",
                                                    to |-> SoftTarget, order |-> model.next]),
           !.next = @ + 1]
    /\ phase' = "edited"
    /\ UNCHANGED <<image, super, sharing, stack, memo, source, saves>>

-----------------------------------------------------------------------------
InitModel ==
    /\ phase = "model"
    /\ model \in Graphs
    /\ image = <<>> /\ super = <<>>

(* An image that another program wrote, and what it stands for.            *)
InitForeign ==
    /\ phase = "image"
    /\ \E stored \in Foreign : model = stored.graph /\ image = stored.image
    /\ super = [oh |-> model.root, cache |-> 0, btree |-> Undef, heap |-> Undef, ext |-> Undef]

Init ==
    /\ InitModel \/ InitForeign
    /\ source = model
    /\ sharing = <<>> /\ stack = <<>> /\ memo = NoMemo /\ saves = 0

Serialize == \/ Refuse \/ WriteDataset \/ EnterGroup \/ WriteLink \/ WriteLeaves
             \/ WriteLevel \/ WriteHeader \/ WriteSuperblock

Parse == \/ ReadDataset \/ EnterHeader \/ ReadLink \/ ReadDamaged \/ LeaveHeader \/ Opened

Next == Save \/ Serialize \/ Open \/ Parse \/ AddLink

(* A call that has begun runs on: the two recursions are one thread each.  *)
Spec == Init /\ [][Next]_vars /\ WF_vars(Serialize \/ Parse)

-----------------------------------------------------------------------------
(* Properties *)

(* The objects that links lead to from those in ids, in one or more steps. *)
Below(objects, ids) ==
    LET Next1(s) == s \cup UNION {HardTargets(objects[id]) : id \in s}
        Reach[n \in Nat] == IF n = 0 THEN UNION {HardTargets(objects[id]) : id \in ids}
                            ELSE Next1(Reach[n - 1])
    IN  Reach[Len(objects)]

Reachable(m) == {m.root} \cup Below(m.objects, {m.root})

(* What a reader may make of the graph g: links of unknown types are not   *)
(* there, an object with damage is unsupported and has no links.           *)
Readable(g) ==
    [g EXCEPT !.objects = [id \in DOMAIN @ |->
        LET links == @[id].links
        IN  IF \E i \in DOMAIN links : links[i].kind = "Damaged"
            THEN [@[id] EXCEPT !.kind = "Unsupported", !.content = NoContent, !.links = <<>>]
            ELSE [@[id] EXCEPT !.links = SelectSeq(links, LAMBDA l : l.kind # "Unknown")]]]

(* The objects of two graphs that the same path leads to.                  *)
Pairs(g, h) ==
    LET Down(p) == {<<ab[1].to, ab[2].to>> :
                       ab \in {xy \in Range(g.objects[p[1]].links) \X Range(h.objects[p[2]].links) :
                                 xy[1].name = xy[2].name /\ xy[1].kind = "Hard" /\ xy[2].kind = "Hard"}}
        Same[n \in Nat] == IF n = 0 THEN {<<g.root, h.root>>}
                           ELSE Same[n - 1] \cup UNION {Down(p) : p \in Same[n - 1]}
    IN  Same[Len(g.objects)]

(* Names, link types and the targets of soft and external links.           *)
Shown(node) ==
    {<<l.name, l.kind, IF l.kind = "Hard" THEN None ELSE l.to>> : l \in Range(node.links)}

SameContent(c, d) ==
    /\ [c EXCEPT !.attrs = <<>>] = [d EXCEPT !.attrs = <<>>]
    /\ Range(c.attrs) = Range(d.attrs) /\ Len(c.attrs) = Len(d.attrs)

Alike(a, b) ==
    /\ a.kind = b.kind /\ SameContent(a.content, b.content)
    /\ Shown(a) = Shown(b) /\ Len(a.links) = Len(b.links)

(* The graph that an open yields is the graph that was saved, or that the  *)
(* other program stored: the same objects under the same paths, an object  *)
(* with several hard links still one object, and different ones different. *)
Faithful ==
    phase = "model" /\ super # <<>> =>
        LET g == Readable(source)
        IN  /\ \A p, q \in Pairs(g, model) : p[1] = q[1] <=> p[2] = q[2]
            /\ \A p \in Pairs(g, model) : Alike(g.objects[p[1]], model.objects[p[2]])

(* As far as links and headers go, a save is refused if the paths of the   *)
(* file have a cycle, lead to an object that could not be read or to one   *)
(* whose header or links are too large (writer.rs:167, 187, 1132, 1370,    *)
(* 1401), or if the shared messages are too many; and only then: sharing   *)
(* an object is no cycle, and what no path leads to is no obstacle.  What  *)
(* the data of a dataset may add to it is not in this module.              *)
Obstructed(m) ==
    \E id \in Reachable(m) :
        \/ m.objects[id].kind = "Unsupported"
        \/ id \in Below(m.objects, {id})
        \/ ~Encodable(m.objects[id])

RefusedIffObstructed ==
    /\ phase = "refused" => Obstructed(source) \/ ~StoresFit(sharing)
    /\ phase = "image" /\ saves > 0 => ~Obstructed(source) /\ StoresFit(sharing)

TablesIn(addr) == IF image[addr].type = "OHDR" THEN OfType(image[addr].msgs, "SymbolTable") ELSE <<>>
SymbolTables == {a \in DOMAIN image : TablesIn(a) # <<>>}
TableOf(a) == Last(TablesIn(a)).body

(* The B-tree of a group can be searched: its keys lead to each name's     *)
(* entry, to no other one, and the nodes of a level are chained.           *)
TreesSearchable ==
        /\ \A a \in SymbolTables :
              LET tree == TableOf(a).tree
                  heap == image[TableOf(a).heap].strings
              IN  \A name \in Name \cup {NewName} :
                    Searched(image, tree, heap, name)
                    = {e \in Range(EntriesUnder(image, tree)) : StringAt(heap, e.nameOff) = name}
        /\ \A a \in DOMAIN image : image[a].type = "TREE" /\ image[a].right # Undef =>
              LET right == image[image[a].right]
              IN  /\ right.left = a /\ right.level = image[a].level
                  /\ Head(right.keys) = Last(image[a].keys)

(* What an entry, or the superblock, caches of a group's tree and heap is  *)
(* what the group's header says.  libhdf5 opens groups by the caches.  The *)
(* superblock of a root without a symbol table has undefined addresses.    *)
CachesAgree ==
        /\ \A a \in DOMAIN image : image[a].type = "SNOD" =>
              \A e \in Range(image[a].entries) :
                  e.cache = 1 => <<TableOf(e.addr).tree, TableOf(e.addr).heap>> = e.scratch
        /\ super.cache = 1 =>
              IF super.oh \in SymbolTables THEN TableOf(super.oh) = [tree |-> super.btree, heap |-> super.heap]
              ELSE super.btree = Undef /\ super.heap = Undef

(* The indexes of dense storage are in the order of the hashes.            *)
TreesSorted ==
    \A a \in DOMAIN image : image[a].type = "BTHD" /\ image[a].kind # "Huge" =>
        LET records == TreeRecords(image, a)
        IN  \A i \in DOMAIN records : i > 1 => records[i - 1].hash <= records[i].hash

(* The lists of shared messages count the headers that refer to them.      *)
References(id, types) ==
    {at \in UNION {{b} \X DOMAIN image[b].msgs : b \in {h \in DOMAIN image : image[h].type = "OHDR"}} :
        LET message == image[at[1]].msgs[at[2]]
        IN  message.type \in types /\ message.flags = "Shared" /\ message.body.id = id}

SharedCounted ==
    \A a \in DOMAIN image : image[a].type = "SMTB" =>
        \A ix \in DOMAIN image[a].indexes :
            LET index == image[a].indexes[ix]
            IN  \A r \in Range(image[index.list].records) :
                    r.refs = Cardinality(References(r.id, index.types))

(* A reader that enters a group by a cached address and searches its tree  *)
(* by the keys or the hashes, as libhdf5 does, finds what one that reads   *)
(* headers and lists all entries finds; and one that releases a shared     *)
(* message, by its count, does not free what another header uses.          *)
GroupsSearchable ==
    phase = "image" =>
        /\ TreesSearchable /\ CachesAgree
        /\ saves > 0 => TreesSorted /\ SharedCounted

(* While an image is read, every header has one slot, however many links   *)
(* lead to it and whether or not it is complete; so the arena is bounded   *)
(* by the image, cycles included.                                          *)
OneSlotEach ==
        /\ Len(model.objects) = 1 + Cardinality(DOMAIN memo)
        /\ \A a, b \in DOMAIN memo : memo[a] = memo[b] => a = b

(* After an open a reference count is the number of links that paths can   *)
(* use, the root's own reference included, unless something was damaged.   *)
RefcountsExact ==
    source = Readable(source) =>
        \A id \in Reachable(model) :
            model.objects[id].refcount =
                Cardinality({x \in LinksTo(model.objects, id) : x[1] \in Reachable(model)})
                + IF id = model.root THEN 1 ELSE 0

(* The arena that an open builds has the objects of the image, each once   *)
(* and counted right, whatever cycles and shared objects the image has.    *)
ArenaExact ==
    /\ phase = "read" => OneSlotEach
    /\ phase = "model" /\ super # <<>> => RefcountsExact

(* A save or an open that has begun comes to its end, with a refusal or a  *)
(* result, whatever cycles the graph or the image has.                     *)
Ends == phase \in {"write", "read"} ~> phase \notin {"write", "read"}
=============================================================================
