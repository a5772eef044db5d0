---------------------------- MODULE MCGraphImage ----------------------------
(* Instances of GraphImage: graphs of three objects, images of them that   *)
(* other programs wrote, and graphs that just fit a file or just do not.   *)
EXTENDS GraphImage

(* The hashes of two names collide, and the order of hashes is not that of *)
(* the names.                                                              *)
MCHash == <<2, 1, 1, 3, 2, 0, 4, 6, 5, 4>>

(* Two hard links fit into a block of the first rows, other pairs do not.  *)
MCLinkSize == [Hard |-> 3, Soft |-> 4, External |-> 6, Unknown |-> 3, Damaged |-> 3]

Body(v, size) == [v |-> v, size |-> size]
Attr(name, elem, count, data) == [name |-> name, elem |-> elem, count |-> count, data |-> data]

(* A padded attribute; attributes of which one is too large for a header,  *)
(* one even for a block of a heap; two data sets of the same type.         *)
GroupContent(id) ==
    [NoContent EXCEPT !.comment = Body(id, 2), !.mtime = Body(id, 1),
                      !.attrs = IF id = 1 THEN <<Attr(1, 1, 1, <<7>>)>> ELSE <<>>]
DataContent(id) ==
    [NoContent EXCEPT !.space = Body(id, 2), !.dtype = Body(1, 5), !.fill = Body(id, id),
                      !.attrs = IF id = 2 THEN <<Attr(2, 1, 2, <<4, 5>>)>>
                                ELSE <<Attr(1, 2, 2, <<1, 2, 3, 4>>), Attr(2, 1, 8, [i \in 1 .. 8 |-> i]),
                                       Attr(4, 1, 1, <<9>>)>>]
TypeContent == [NoContent EXCEPT !.dtype = Body(1, 5)]

L(name, kind, to, order) == [name |-> name, kind |-> kind, to |-> to, order |-> order]
GroupNode(id, links) ==
    [kind |-> "Group", content |-> GroupContent(id), links |-> links, refcount |-> 0]
DataNode(id) ==
    [kind |-> "Dataset", content |-> DataContent(id), links |-> <<>>, refcount |-> 0]
TypeNode == [kind |-> "NamedType", content |-> TypeContent, links |-> <<>>, refcount |-> 0]
Unreadable == [EmptyNode EXCEPT !.kind = "Unsupported"]

Hards == {<<"Hard", id>> : id \in 1 .. 3}
NoLink == <<"None", 0>>

(* The links in the order of their names or against it: the order in which *)
(* they were created.                                                      *)
Links(f, names) ==
    LET present == SelectSeq(names, LAMBDA n : f[n] # NoLink)
    IN  [i \in DOMAIN present |-> L(present[i], f[present[i]][1], f[present[i]][2], i - 1)]

(* The other two objects: the second may be any, the third is a dataset or *)
(* leads back to the second.                                               *)
Second(ends) ==
    {DataNode(2), GroupNode(2, <<>>)} \cup {GroupNode(2, <<L(1, e[1], e[2], 0)>>) : e \in ends}
Third == {DataNode(3), GroupNode(3, <<L(1, "Hard", 2, 0)>>)}

RootEnds == Hards \cup {NoLink, <<"Soft", SoftTarget>>, <<"External", 0>>}

Graph(root, a, b, sohm) ==
    [objects |-> <<root, a, b>>, root |-> 1, next |-> 5, sohm |-> sohm]

(* Messages are shared: in one index, and in two for different types.      *)
OneIndex == << [types |-> {"Dataspace", "Datatype", "Fill"}, min |-> 3] >>
MCSohm == { OneIndex,
            << [types |-> {"Fill"}, min |-> 2], [types |-> {"Dataspace", "Datatype"}, min |-> 2] >> }

(* A root with links enough for a tree of two levels and a heap of several *)
(* blocks.                                                                 *)
Wide(f, b, sohm) ==
    Graph(GroupNode(1, <<L(5, "Soft", SoftTarget, 3), L(4, "Hard", 3, 4)>> \o Links(f, <<3, 2, 1>>)),
          DataNode(2), b, sohm)

(* At the limits.  A heap has room for eight objects of the size 6, and    *)
(* for eight of the size 5.                                                *)
Names == <<1, 2, 3, 4, 5, 7, 8, 9, 10>>

(* A group with n links that are dense.                                    *)
Crowded(n) ==
    Graph(GroupNode(1, [i \in 1 .. n |-> L(Names[i], "External", 0, i)]), DataNode(2), DataNode(3), <<>>)

(* A dataset with n attributes that are dense because of one more.         *)
Described(n, comment) ==
    [NoContent EXCEPT !.space = Body(1, 2), !.dtype = Body(1, 5), !.fill = Body(1, 1), !.comment = comment,
                      !.attrs = IF n = 0 THEN <<>>
                                ELSE [i \in 1 .. n |-> Attr(Names[i], 1, 4, <<i, 0, 0, i>>)]
                                     \o <<Attr(6, 1, 8, [i \in 1 .. 8 |-> i])>>]
Annotated(n, comment) ==
    Graph(GroupNode(1, <<L(1, "Hard", 2, 0)>>),
          [DataNode(2) EXCEPT !.content = Described(n, comment)], DataNode(3), <<>>)

(* Three datasets with messages that are shared: types are distinct or not.*)
Distinct(id, dtype) ==
    [NoContent EXCEPT !.space = Body(10 + id, 5), !.dtype = Body(dtype, 5), !.fill = Body(20 + id, 5)]
Shared(same) ==
    LET data(id) == [DataNode(id) EXCEPT !.content = Distinct(id, IF same /\ id = 3 THEN 2 ELSE id)]
    IN  [Graph(GroupNode(1, [i \in 1 .. 3 |-> L(i, "Hard", i + 1, i)]), data(2), data(3), OneIndex)
            EXCEPT !.objects = Append(@, data(4))]

(* A comment of the size 10 fits a message only if it is not padded.       *)
MCLimits ==
    {Crowded(n) : n \in 8 .. 9} \cup {Shared(same) : same \in BOOLEAN}
    \cup {Annotated(n, NoBody) : n \in 8 .. 9}
    \cup {Annotated(n, Body(1, size)) : n \in {0, 1}, size \in {8, 10, 12}}

(* What an application has in memory: a root with links that were created *)
(* against the order of their names, and two more objects.                 *)
MCGraphs ==
    MCLimits
    \cup {Graph(GroupNode(1, <<L(4, "Soft", SoftTarget, 2)>> \o Links(f, <<2, 1>>)), a, b, <<>>) :
        f \in [1 .. 2 -> RootEnds], a \in Second(Hards) \cup {Unreadable}, b \in Third}
    \cup {Wide(f, DataNode(3), <<>>) : f \in [1 .. 3 -> RootEnds \ {<<"Hard", 1>>, <<"Hard", 3>>}]}
    \cup {Wide([i \in 1 .. 3 |-> <<"Hard", 2 + (i % 2)>>], b, sohm) : b \in {DataNode(3), TypeNode},
              sohm \in MCSohm}
    \cup {Wide([i \in 1 .. 3 |-> IF i = 1 THEN e ELSE NoLink], b, sohm) :
              e \in RootEnds \cup {NoLink}, b \in {DataNode(3), TypeNode}, sohm \in MCSohm \cup {<<>>}}

-----------------------------------------------------------------------------
(* Images of other programs.  Object i has its header at address i.        *)

(* Link messages in a heap with one block, which a filter has packed.      *)
OneBlock(blocks, objects) ==
    LET offs == [i \in DOMAIN objects |-> BlockPrefix + 6 * (i - 1)]
    IN  [image |-> blocks \o
            << [type |-> "FRHP", table |-> [width |-> 2, start |-> 32, maxDirect |-> 32],
                root |-> Len(blocks) + 2, rows |-> 0, rootFiltered |-> TRUE,
                filtered |-> TRUE, hugeInIds |-> FALSE, hugeTree |-> Undef],
               [type |-> "FHDB", packed |-> [i \in DOMAIN objects |->
                                               [at |-> offs[i], object |-> objects[i]]]] >>,
         ids |-> [i \in DOMAIN objects |->
                     [type |-> "Managed", off |-> offs[i], len |-> objects[i].size]]]

(* A heap with a table of three rows, the last one of nested tables; the   *)
(* second object is in the last block of the last of these.                *)
NestedBlocks(blocks, objects) ==
    LET n == Len(blocks)
        offs == << BlockPrefix, 56 + BlockPrefix, 24 + BlockPrefix >>
        at(i) == [addr |-> IF i \in DOMAIN objects THEN n + 3 + i ELSE Undef, filtered |-> FALSE]
        none == [addr |-> Undef, filtered |-> FALSE]
    IN  [image |-> blocks \o
            << [type |-> "FRHP", table |-> [width |-> 2, start |-> 8, maxDirect |-> 8],
                root |-> n + 2, rows |-> 3, rootFiltered |-> FALSE,
                filtered |-> FALSE, hugeInIds |-> FALSE, hugeTree |-> Undef],
               [type |-> "FHIB", off |-> 0, direct |-> <<at(1), none, none, at(3)>>,
                nested |-> <<Undef, n + 3>>],
               [type |-> "FHIB", off |-> 48, direct |-> <<none, at(2)>>, nested |-> <<>>] >>
            \o [i \in DOMAIN objects |->
                  [type |-> "FHDB", held |-> <<[at |-> BlockPrefix, object |-> objects[i]]>>]],
         ids |-> [i \in DOMAIN objects |->
                     [type |-> "Managed", off |-> offs[i], len |-> objects[i].size]]]

(* A heap whose ids hold the first object, and the address of every other. *)
IdsOnly(blocks, objects) ==
    [image |-> blocks \o
        << [type |-> "FRHP", table |-> [width |-> 2, start |-> 8, maxDirect |-> 8],
            root |-> Undef, rows |-> 0, rootFiltered |-> FALSE,
            filtered |-> FALSE, hugeInIds |-> TRUE, hugeTree |-> Undef] >>
        \o [i \in DOMAIN objects |-> [type |-> "HUGE", object |-> objects[i]]],
     ids |-> [i \in DOMAIN objects |->
                 IF i = 1 THEN [type |-> "Tiny", object |-> objects[i]]
                 ELSE [type |-> "Huge", addr |-> Len(blocks) + 1 + i]]]

(* A tree of two levels, if there are records enough.                      *)
DeepTree(blocks, kind, records) ==
    LET n == Len(blocks)
    IN  IF Len(records) < 3 THEN WithTree(blocks, kind, records)
        ELSE blocks \o
            << [type |-> "BTLF", kind |-> kind, records |-> SubSeq(records, 1, 1)],
               [type |-> "BTLF", kind |-> kind, records |-> SubSeq(records, 3, Len(records))],
               [type |-> "BTIN", kind |-> kind, records |-> <<records[2]>>,
                children |-> <<[addr |-> n + 1, count |-> 1],
                               [addr |-> n + 2, count |-> Len(records) - 2]>>],
               [type |-> "BTHD", kind |-> kind, depth |-> 1, root |-> n + 3, count |-> 1] >>

Heaped(style, blocks, objects) ==
    CASE style = "OneBlock" -> OneBlock(blocks, objects)
      [] style = "Nested" -> NestedBlocks(blocks, objects)
      [] style = "Ids" -> IdsOnly(blocks, objects)

WithLinks(style, blocks, links) ==
    LET heap == Heaped(style, blocks, LinkObjects(links))
    IN  DeepTree(heap.image, "Links", ByHash([i \in DOMAIN links |->
            [hash |-> Hash[links[i].name], id |-> heap.ids[i]]]))

WithAttributes(style, blocks, attrs, shared) ==
    LET heap == Heaped(style, blocks, AttrObjects(attrs))
    IN  DeepTree(heap.image, "Attributes", ByHash([i \in DOMAIN attrs |->
            [hash |-> Hash[attrs[i].name], id |-> heap.ids[i], shared |-> shared]]))

LinkOrDamage(link) == IF link.kind = "Damaged" THEN Damage ELSE Message("Link", link)

(* The messages of a dataset: the type is that of a named type at addr.    *)
Messaged(content, addr) ==
    << Message("Dataspace", content.space),
       IF addr = Undef THEN Message("Datatype", content.dtype)
       ELSE [type |-> "Datatype", flags |-> "Shared", body |-> [kind |-> "Committed", addr |-> addr]],
       Message("Fill", content.fill), Message("Layout", NoBody) >>

Plain(content) ==
    IfSet("ModTime", content.mtime) \o IfSet("Comment", content.comment)
    \o [i \in DOMAIN content.attrs |-> Message("Attribute", content.attrs[i])]

(* Headers in one or two pieces.  acc.image has the headers of all objects *)
(* at their addresses, still without messages, and acc.id is the next.     *)
Compact(acc, node) ==
    LET n == Len(acc.image)
        own == IF node.kind = "Group"
               THEN <<Message("LinkInfo", NoBody)>> \o [i \in DOMAIN node.links |-> LinkOrDamage(node.links[i])]
               ELSE Messaged(node.content, n + 1)
        rest == Tail(own) \o Plain(node.content)
    IN  [id |-> acc.id + 1,
         image |-> [acc.image EXCEPT ![acc.id] = Header(2, <<Head(own), Message("Continuation", [addr |-> n + 2])>>)]
                   \o << Header(1, <<Message("Datatype", node.content.dtype)>>),
                         [type |-> "OCHK", msgs |-> rest] >>]

(* Dense links and attributes; what is damaged is a link, or an attribute  *)
(* that is shared.                                                         *)
Dense(style, acc, node) ==
    LET damaged == \E l \in Range(node.links) : l.kind = "Damaged"
        links == IF style # "Ids" THEN node.links
                 ELSE SelectSeq(node.links, LAMBDA l : l.kind # "Damaged")
        linked == IF node.kind = "Group" THEN WithLinks(style, acc.image, links) ELSE acc.image
        attrs == IF node.content.attrs = <<>> THEN <<Attr(1, 1, 1, <<1>>)>> ELSE node.content.attrs
        stored == WithAttributes("Ids", linked, attrs, style = "Ids" /\ damaged)
        named == Message("AttributeInfo", [heap |-> Len(linked) + 1, tree |-> Len(stored)])
        info == IF node.content.attrs = <<>> /\ ~(style = "Ids" /\ damaged) THEN <<>> ELSE <<named>>
        own == IF node.kind = "Group"
               THEN <<Message("LinkInfo", [heap |-> Len(acc.image) + 1, tree |-> Len(linked)])>>
               ELSE Messaged(node.content, Undef)
    IN  [id |-> acc.id + 1,
         image |-> [stored EXCEPT ![acc.id] =
             Header(1, own \o Plain([node.content EXCEPT !.attrs = <<>>]) \o info)]]

(* How a program may store a graph: the form, and if the order of creation *)
(* is in the links.                                                        *)
MCForms == { <<"Compact", TRUE>>, <<"Compact", FALSE>>, <<"OneBlock", TRUE>>,
             <<"Nested", TRUE>>, <<"Nested", FALSE>>, <<"Ids", TRUE>> }

StoredAs(form, graph) ==
    LET Untrack(node) == [node EXCEPT !.links = [i \in DOMAIN @ |-> [@[i] EXCEPT !.order = Untracked]]]
        Add(acc, node) == IF form[1] = "Compact" THEN Compact(acc, node) ELSE Dense(form[1], acc, node)
        empty == [id |-> 1, image |-> [id \in DOMAIN graph.objects |-> Header(1, <<>>)]]
    IN  FoldLeft(LAMBDA acc, node : Add(acc, IF form[2] THEN node ELSE Untrack(node)),
                 empty, graph.objects).image

ForeignEnds == {<<"Hard", 2>>, <<"Hard", 3>>, NoLink, <<"Unknown", 0>>, <<"Damaged", 0>>}

(* What other programs store: cycles, links of other types, damage.        *)
MCForeign ==
    {[graph |-> g, image |-> StoredAs(form, g)] : form \in MCForms,
        g \in {[Graph(GroupNode(1, Links(f, <<2, 1>>) \o <<L(3, "Soft", SoftTarget, 2)>>), a, b, <<>>)
                  EXCEPT !.next = 0] :
                  f \in [1 .. 2 -> ForeignEnds], a \in Second(Hards \cup {<<"Damaged", 0>>}), b \in Third}}
=============================================================================
