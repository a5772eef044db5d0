--------------------------- MODULE ObjectHeaders ---------------------------
(***************************************************************************)
(* Object headers: the messages that say what an object is.  How the       *)
(* writer makes them (format/writer.rs: append_comment_and_attrs,          *)
(* maybe_share, write_sohm_tables, write_object_header) and how the reader *)
(* takes them in (format/reader.rs: parse_object_header, handle_message,   *)
(* handle_shared_message, load_dense_attrs, parse_attribute), from other   *)
(* programs' files too: in continued headers, shared with named types.     *)
(*                                                                         *)
(* The body of a message is a value with a size.  An attribute is a name,  *)
(* a number of elements of a size each, and their bytes.                   *)
(***************************************************************************)
EXTENDS DenseStorage

CONSTANTS
    Hash,        \* the checksum of a name, in the indexes of dense storage
    Align,       \* what version 1 headers pad message bodies to (8)
    MaxMessage,  \* the largest body a message can have (65535)
    AttrFixed    \* size of an attribute message without its data

ASSUME MessageAssumption ==
    /\ Align \in Nat \ {0} /\ MaxMessage \in Nat /\ AttrFixed \in Nat
    /\ MaxManaged + Align <= MaxMessage

None == 0
Zeros(n) == [i \in 1 .. n |-> 0]
RoundUp(n) == ((n + Align - 1) \div Align) * Align

(* What is in an object besides its links.                                 *)
NoBody == [v |-> None, size |-> 0]
NoContent == [space |-> NoBody, dtype |-> NoBody, fill |-> NoBody,
              mtime |-> NoBody, comment |-> NoBody, attrs |-> <<>>]

Message(type, body) == [type |-> type, flags |-> "Plain", body |-> body]
IfSet(type, body) == IF body = NoBody THEN <<>> ELSE <<Message(type, body)>>

Header(version, msgs) ==
    [type |-> "OHDR", version |-> version, count |-> Len(msgs), msgs |-> msgs]

(* slice::sort_by_key, which keeps the order of elements with equal keys.  *)
StableSort(s, key) ==
    LET rank(i) == Cardinality({j \in DOMAIN s : key[j] < key[i] \/ (key[j] = key[i] /\ j <= i)})
    IN  [k \in DOMAIN s |-> s[CHOOSE i \in DOMAIN s : rank(i) = k]]

ByHash(records) ==
    Of(records, LAMBDA rs : StableSort(rs, [i \in DOMAIN rs |-> rs[i].hash]))

-----------------------------------------------------------------------------
(* Shared messages: equal bodies are stored once, in the store of the      *)
(* first index for their type and size; what is written in the header is   *)
(* replaced by a heap id when the heaps are written, at the end.           *)

EmptyStores(sohm) ==
    [ix \in DOMAIN sohm |-> [types |-> sohm[ix].types, min |-> sohm[ix].min,
                             objects |-> <<>>, refs |-> <<>>]]

(* A faulty Referred: a body that is stored already is not counted.        *)
ReferredOnce(store, body) ==
    IF Contains(store.objects, body) THEN store
    ELSE [store EXCEPT !.objects = Append(@, body), !.refs = Append(@, 1)]

Referred(store, body) ==
    LET known == SelectInSeq(store.objects, LAMBDA o : o = body)
    IN  IF known # 0 THEN [store EXCEPT !.refs[known] = @ + 1]
        ELSE [store EXCEPT !.objects = Append(@, body), !.refs = Append(@, 1)]

(* A faulty IndexFor: the types of the index are not looked at.            *)
IndexForAnyType(stores, message) == SelectInSeq(stores, LAMBDA s : s.min <= message.body.size)

IndexFor(stores, message) ==
    SelectInSeq(stores, LAMBDA s : message.type \in s.types /\ s.min <= message.body.size)

(* acc: the stores, and the messages so far.                               *)
MaybeShare(acc, message) ==
    LET body == message.body
        ix == IndexFor(acc.stores, message)
        store == Referred(acc.stores[ix], body)
        reference == [kind |-> "Pending", ix |-> ix,
                      obj |-> SelectInSeq(store.objects, LAMBDA o : o = body)]
    IN  IF ix = 0 \/ body.size > MaxManaged THEN [acc EXCEPT !.msgs = Append(@, message)]
        ELSE [stores |-> [acc.stores EXCEPT ![ix] = store],
              msgs |-> Append(acc.msgs, [type |-> message.type, flags |-> "Shared",
                                         body |-> reference])]

(* The first messages of a dataset's header, and the stores after them.    *)
DataMessages(stores, content) ==
    Accumulated(MaybeShare, [stores |-> stores, msgs |-> <<>>],
             <<Message("Dataspace", content.space), Message("Datatype", content.dtype),
               Message("Fill", content.fill)>>)

(* patch_sohm_refs                                                         *)
Patched(message, ids) ==
    IF message.flags = "Shared" /\ message.body.kind = "Pending"
    THEN [message EXCEPT !.body = [kind |-> "Sohm", id |-> ids[@.ix][@.obj]]]
    ELSE message

(* The heaps of the stores, one after the other; acc: the image and the    *)
(* addresses so far.                                                       *)
WithStore(acc, store) ==
    IF store.objects = <<>> THEN [acc EXCEPT !.heaps = Append(@, Undef)]
    ELSE [image |-> WithHeap(acc.image, store.objects),
          heaps |-> Append(acc.heaps, Len(acc.image) + 1)]

(* write_sohm_tables: the heaps, the lists of what is in them, the master  *)
(* table, and the header that the superblock's extension address names.    *)
WithTablesAfter(stored, stores) ==
    LET ids == [ix \in DOMAIN stores |-> HeapIds(stores[ix].objects)]
        patched == [a \in DOMAIN stored.image |->
                       LET block == stored.image[a]
                       IN  IF block.type # "OHDR" THEN block
                           ELSE [block EXCEPT !.msgs =
                                    [i \in DOMAIN @ |-> Patched(@[i], ids)]]]
        lists == [ix \in DOMAIN stores |->
                     [type |-> "SMLI", records |-> [i \in DOMAIN stores[ix].objects |->
                         [id |-> ids[ix][i], refs |-> stores[ix].refs[i]]]]]
        table == [type |-> "SMTB", indexes |-> [ix \in DOMAIN stores |->
                     [types |-> stores[ix].types, heap |-> stored.heaps[ix],
                      list |-> Len(patched) + ix]]]
        listed == patched \o lists
    IN  listed \o <<table, Header(1, <<Message("SharedTable", [addr |-> Len(listed) + 1])>>)>>

WithTables(image, stores) ==
    Of(Accumulated(WithStore, [image |-> image, heaps |-> <<>>], stores),
       LAMBDA stored : WithTablesAfter(stored, stores))

-----------------------------------------------------------------------------
(* Attributes: in the header, or all in dense storage if one is too large. *)

AttrSize(attr) == AttrFixed + Len(attr.data)

(* In a version 1 header the data ends where the padding does.             *)
PaddedAttribute(attr) ==
    [attr EXCEPT !.data = @ \o Zeros(RoundUp(AttrSize(attr)) - AttrSize(attr))]

AttrObject(attr) == [type |-> "Attribute", size |-> AttrSize(attr), attr |-> attr]
AttrObjects(attrs) == [i \in DOMAIN attrs |-> AttrObject(attrs[i])]

AttrRecords(attrs) ==
    LET record(id, attr) == [id |-> id, shared |-> FALSE, hash |-> Hash[attr.name]]
    IN  ByHash(Of(HeapIds(AttrObjects(attrs)),
                  LAMBDA ids : [i \in DOMAIN attrs |-> record(ids[i], attrs[i])]))

Oversized(attrs) == \E i \in DOMAIN attrs : RoundUp(AttrSize(attrs[i])) > MaxMessage

(* All attributes in a heap behind the image, and their tree.              *)
WithDenseAttributes(image, attrs) ==
    WithTree(WithHeap(image, AttrObjects(attrs)), "Attributes", AttrRecords(attrs))

(* write_object_header, write_object_header_v2: a header can be written if *)
(* each of its bodies, padded in version 1, fits a message, and what is    *)
(* too large for it fits a heap.  A body that is shared is a small one.    *)
HeaderFits(bodies, attrs) ==
    /\ \A b \in bodies : (IF Oversized(attrs) THEN b.size ELSE RoundUp(b.size)) <= MaxMessage
    /\ Oversized(attrs) => HeapFits(AttrObjects(attrs))

StoresFit(stores) == \A ix \in DOMAIN stores : HeapFits(stores[ix].objects)

(* The image with the header of an object, after what is special to it.    *)
WithHeader(image, msgs, content) ==
    LET attrs == content.attrs
        first == msgs \o IfSet("ModTime", content.mtime) \o IfSet("Comment", content.comment)
        Info(dense) == Message("AttributeInfo", [heap |-> Len(image) + 1, tree |-> Len(dense)])
    IN  IF Oversized(attrs)
        THEN Of(WithDenseAttributes(image, attrs),
                LAMBDA dense : Append(dense, Header(2, Append(first, Info(dense)))))
        ELSE Append(image, Header(1, first \o [i \in DOMAIN attrs |->
                                         Message("Attribute", PaddedAttribute(attrs[i]))]))

-----------------------------------------------------------------------------
(* Reading the messages of a header: those of its first block, then those  *)
(* of the blocks it is continued in, in the order they are named.          *)

MessagesIn(image, addr) ==
    LET From[addrs \in Seq(DOMAIN image)] ==
            IF addrs = <<>> THEN <<>>
            ELSE LET msgs == image[Head(addrs)].msgs
                     more == SelectSeq(msgs, LAMBDA m : m.type = "Continuation")
                 IN  msgs \o From[Tail(addrs) \o [i \in DOMAIN more |-> more[i].body.addr]]
    IN  From[<<addr>>]

(* A version 1 header says how many messages it has.                       *)
RawMessages(image, addr) ==
    LET msgs == MessagesIn(image, addr)
    IN  IF image[addr].version = 1 /\ image[addr].count < Len(msgs)
        THEN SubSeq(msgs, 1, image[addr].count) ELSE msgs

OfType(msgs, type) == SelectSeq(msgs, LAMBDA m : m.type = type)

(* What a message of the type says: a later message replaces an earlier.   *)
BodyOf(msgs, type) ==
    IF OfType(msgs, type) = <<>> THEN NoBody ELSE Last(OfType(msgs, type)).body

Damage == Message("Damaged", NoBody)

(* A message in the heap of the index for its type.                        *)
StoredMessage(image, indexes, message) ==
    LET ix == SelectInSeq(indexes, LAMBDA x : message.type \in x.types)
        body == HeapGet(image, indexes[ix].heap, message.body.id)
    IN  IF ix = 0 \/ indexes[ix].heap = Undef \/ body = Lost THEN Damage
        ELSE Message(message.type, body)

(* A message in the header of another object, a named type.                *)
CommittedMessage(image, message) ==
    LET body == BodyOf(RawMessages(image, message.body.addr), message.type)
        needed == message.type = "Datatype"
    IN  IF message.type \notin {"Datatype", "Dataspace", "Fill"} \/ (needed /\ body = NoBody)
        THEN Damage ELSE Message(message.type, body)

HandleMessage(image, indexes, message) ==
    IF message.flags = "Plain" THEN message
    ELSE IF message.body.kind = "Sohm" THEN StoredMessage(image, indexes, message)
    ELSE CommittedMessage(image, message)

Messages(image, indexes, addr) ==
    Of(RawMessages(image, addr), LAMBDA msgs :
        [i \in DOMAIN msgs |-> HandleMessage(image, indexes, msgs[i])])

(* finish_attribute: as many bytes as the type and the space say.          *)
AttributeOf(attr) ==
    [attr EXCEPT !.data = [k \in 1 .. attr.elem * attr.count |-> IF k <= Len(@) THEN @[k] ELSE 0]]

DenseRecords(image, info) ==
    IF info = NoBody \/ info.heap = Undef \/ info.tree = Undef THEN <<>> ELSE TreeRecords(image, info.tree)

DenseAttributes(image, info) ==
    Of(DenseRecords(image, info), LAMBDA records :
        [i \in DOMAIN records |-> HeapGet(image, info.heap, records[i].id)])

(* Shared attributes are not supported.                                    *)
AttributesDamaged(image, msgs) ==
    LET info == BodyOf(msgs, "AttributeInfo")
    IN  \/ \E r \in Range(DenseRecords(image, info)) : r.shared
        \/ Lost \in Range(DenseAttributes(image, info))

AttributesOf(image, msgs) ==
    LET compact == OfType(msgs, "Attribute")
    IN  [i \in DOMAIN compact |-> AttributeOf(compact[i].body)]
        \o Of(DenseAttributes(image, BodyOf(msgs, "AttributeInfo")), LAMBDA dense :
               [i \in DOMAIN dense |-> AttributeOf(dense[i].attr)])

ContentOf(image, msgs) ==
    [space |-> BodyOf(msgs, "Dataspace"), dtype |-> BodyOf(msgs, "Datatype"),
     fill |-> BodyOf(msgs, "Fill"), mtime |-> BodyOf(msgs, "ModTime"),
     comment |-> BodyOf(msgs, "Comment"), attrs |-> AttributesOf(image, msgs)]

(* What the messages say the object is; a header without a class is taken  *)
(* for a group.                                                            *)
KindOf(msgs) ==
    LET has(types) == \E m \in Range(msgs) : m.type \in types
    IN  IF has({"SymbolTable", "LinkInfo", "GroupInfo", "Link"}) THEN "Group"
        ELSE IF has({"Datatype"}) /\ has({"Dataspace"}) /\ has({"Layout"}) THEN "Dataset"
        ELSE IF has({"Datatype"}) THEN "NamedType" ELSE "Group"

(* The shared-message indexes that the superblock's extension leads to.    *)
Indexes(image, ext) ==
    IF ext = Undef THEN <<>>
    ELSE LET table == BodyOf(RawMessages(image, ext), "SharedTable")
         IN  IF table = NoBody THEN <<>> ELSE image[table.addr].indexes
=============================================================================
