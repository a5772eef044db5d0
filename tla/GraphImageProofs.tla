-------------------------- MODULE GraphImageProofs --------------------------
(***************************************************************************)
(* Proofs about GraphImage, for all graphs that an application saves, all  *)
(* images that other programs wrote, and all sizes and capacities: when a  *)
(* save is refused, and what the reader's arena has of an image.  What is  *)
(* in the blocks of an image plays no part in them.                        *)
(***************************************************************************)
EXTENDS GraphImage, BasicFacts, FiniteSetTheorems, FunctionTheorems

-----------------------------------------------------------------------------
(* What is below an object *)

Linked(objects) == \A id \in DOMAIN objects : HardTargets(objects[id]) \subseteq DOMAIN objects

Targets(objects, ids) == UNION {HardTargets(objects[id]) : id \in ids}

(* The sets that Below computes. *)
Descent(objects, ids) ==
    CHOOSE f : f = [n \in Nat |-> IF n = 0 THEN Targets(objects, ids)
                                  ELSE f[n - 1] \cup Targets(objects, f[n - 1])]

LEMMA BelowIsDescent ==
    ASSUME NEW objects, NEW ids
    PROVE  Below(objects, ids) = Descent(objects, ids)[Len(objects)]
  BY DEF Below, Descent, Targets

LEMMA DescentSteps ==
    ASSUME NEW objects, Linked(objects), NEW ids \in SUBSET DOMAIN objects
    PROVE  /\ Descent(objects, ids)[0] = Targets(objects, ids)
           /\ \A n \in Nat : Descent(objects, ids)[n + 1]
                = Descent(objects, ids)[n] \cup Targets(objects, Descent(objects, ids)[n])
<1> DEFINE D == DOMAIN objects
           a == Targets(objects, ids)
           H == [s \in SUBSET D |-> s \cup Targets(objects, s)]
           P(f) == f = [n \in Nat |-> IF n = 0 THEN a ELSE f[n - 1] \cup Targets(objects, f[n - 1])]
<1>1. \A s \in SUBSET D : Targets(objects, s) \in SUBSET D
  BY DEF Linked, Targets
<1>2. \A s \in SUBSET D : H[s] \in SUBSET D /\ H[s] = s \cup Targets(objects, s)
  BY <1>1
<1>3. a \in SUBSET D
  BY <1>1
<1> HIDE DEF H, a
<1>4. PICK f : IterationOf(f, a, H)
  BY Iteration
<1>5. f[0] = a /\ \A n \in Nat : f[n + 1] = H[f[n]]
  <2>1. \A n \in Nat : f[n] = IF n = 0 THEN a ELSE H[f[n - 1]]
    BY <1>4 DEF IterationOf
  <2>2. \A n \in Nat : n + 1 \in Nat /\ n + 1 # 0 /\ (n + 1) - 1 = n
    OBVIOUS
  <2> QED
    BY <2>1, <2>2
<1> DEFINE S == {n \in Nat : f[n] \in SUBSET D}
<1>6. 0 \in S /\ \A n \in Nat : n \in S => n + 1 \in S
  BY <1>2, <1>3, <1>5
<1>7. \A n \in Nat : f[n] \in SUBSET D
  <2> HIDE DEF S
  <2>1. Nat \subseteq S
    BY <1>6, Induction
  <2> QED
    BY <2>1 DEF S
<1>8. P(f)
  <2>1. ASSUME NEW n \in Nat, n # 0 PROVE f[n] = f[n - 1] \cup Targets(objects, f[n - 1])
    <3>1. n - 1 \in Nat /\ (n - 1) + 1 = n
      BY <2>1
    <3>2. f[n - 1] \in SUBSET D
      BY <1>7, <3>1
    <3>3. f[(n - 1) + 1] = H[f[n - 1]]
      BY <1>5, <3>1
    <3> QED
      BY <1>2, <3>1, <3>2, <3>3
  <2>2. f = [n \in Nat |-> f[n]]
    BY <1>4 DEF IterationOf
  <2> QED
    BY <1>5, <2>1, <2>2
<1> DEFINE d == Descent(objects, ids)
<1>9. P(d)
  BY <1>8 DEF Descent, a
<1> HIDE DEF d
<1>10. \A n \in Nat : d[n] = IF n = 0 THEN a ELSE d[n - 1] \cup Targets(objects, d[n - 1])
  BY <1>9
<1>11. \A n \in Nat : n + 1 \in Nat /\ n + 1 # 0 /\ (n + 1) - 1 = n
  OBVIOUS
<1>12. d[0] = a /\ \A n \in Nat : d[n + 1] = d[n] \cup Targets(objects, d[n])
  BY <1>10, <1>11
<1> QED
  BY <1>12 DEF d, a

(* What is below objects is in every set that has their targets and those  *)
(* of its own members.                                                     *)
LEMMA BelowClosed ==
    ASSUME NEW objects, Linked(objects), Len(objects) \in Nat,
           NEW ids \in SUBSET DOMAIN objects, NEW C,
           Targets(objects, ids) \subseteq C, Targets(objects, C) \subseteq C
    PROVE  Below(objects, ids) \subseteq C
<1> DEFINE d == Descent(objects, ids)
           S == {n \in Nat : d[n] \subseteq C}
<1>1. d[0] = Targets(objects, ids) /\ \A n \in Nat : d[n + 1] = d[n] \cup Targets(objects, d[n])
  BY DescentSteps
<1> HIDE DEF d
<1>2. ASSUME NEW n \in Nat, n \in S PROVE n + 1 \in S
  <2>1. Targets(objects, d[n]) \subseteq Targets(objects, C)
    BY <1>2 DEF Targets
  <2> QED
    BY <1>1, <1>2, <2>1
<1>3. 0 \in S
  BY <1>1
<1> HIDE DEF S
<1>4. Len(objects) \in S
  BY <1>2, <1>3, Induction
<1> QED
  BY <1>4, BelowIsDescent DEF S, d

(* The end of a path that is no longer than the arena is below its start.  *)
LEMMA BelowPath ==
    ASSUME NEW objects, Linked(objects), Len(objects) \in Nat,
           NEW p, NEW m \in Nat, 2 <= m, m - 2 <= Len(objects), p[1] \in DOMAIN objects,
           \A k \in 2..m : p[k] \in HardTargets(objects[p[k - 1]])
    PROVE  p[m] \in Below(objects, {p[1]})
<1> DEFINE d == Descent(objects, {p[1]})
           S == {n \in Nat : n + 2 <= m => p[n + 2] \in d[n]}
           U == {n \in Nat : p[m] \in d[m - 2 + n]}
<1>1. d[0] = Targets(objects, {p[1]}) /\ \A n \in Nat : d[n + 1] = d[n] \cup Targets(objects, d[n])
  BY DescentSteps
<1> HIDE DEF d
<1>2. 0 \in S
  <2>1. 2 \in 2..m /\ 2 - 1 = 1 /\ 0 + 2 = 2
    OBVIOUS
  <2>2. p[2] \in HardTargets(objects[p[1]])
    BY <2>1
  <2>3. p[2] \in Targets(objects, {p[1]})
    BY <2>2 DEF Targets
  <2> QED
    BY <1>1, <2>1, <2>3
<1>3. ASSUME NEW n \in Nat, n \in S PROVE n + 1 \in S
  <2> SUFFICES ASSUME n + 1 + 2 <= m PROVE p[n + 1 + 2] \in d[n + 1]
    OBVIOUS
  <2>1. n + 1 + 2 \in 2..m /\ (n + 1 + 2) - 1 = n + 2 /\ n + 2 <= m
    OBVIOUS
  <2>2. p[n + 1 + 2] \in HardTargets(objects[p[n + 2]]) /\ p[n + 2] \in d[n]
    BY <1>3, <2>1
  <2>3. p[n + 1 + 2] \in Targets(objects, d[n])
    BY <2>2 DEF Targets
  <2> QED
    BY <1>1, <2>3
<1>4. p[m] \in d[m - 2]
  <2> HIDE DEF S
  <2>1. m - 2 \in Nat /\ (m - 2) + 2 = m
    OBVIOUS
  <2>2. m - 2 \in S
    BY <1>2, <1>3, <2>1, Induction
  <2> QED
    BY <2>1, <2>2 DEF S
<1>5. 0 \in U
  BY <1>4
<1>6. ASSUME NEW n \in Nat, n \in U PROVE n + 1 \in U
  <2>1. m - 2 + n \in Nat /\ m - 2 + (n + 1) = (m - 2 + n) + 1
    OBVIOUS
  <2> QED
    BY <1>1, <1>6, <2>1
<1> HIDE DEF U
<1>7. Len(objects) - (m - 2) \in Nat /\ m - 2 + (Len(objects) - (m - 2)) = Len(objects)
  OBVIOUS
<1>8. Len(objects) - (m - 2) \in U
  BY <1>5, <1>6, <1>7, Induction
<1> QED
  BY <1>7, <1>8, BelowIsDescent DEF U, d

-----------------------------------------------------------------------------
(* Sorting *)

(* A sorted sequence has the same elements.                                *)
Preceding(s, key, i) ==
    {j \in DOMAIN s : key[j] < key[i] \/ (key[j] = key[i] /\ j <= i)}

LEMMA StableSortPermutes ==
    ASSUME NEW s, s \in Seq(ToSet(s)), NEW key, \A i \in DOMAIN s : key[i] \in Int
    PROVE  /\ StableSort(s, key) \in Seq(ToSet(StableSort(s, key)))
           /\ ToSet(StableSort(s, key)) = ToSet(s)
<1> DEFINE D == DOMAIN s
           P(i) == Preceding(s, key, i)
           rank == [i \in D |-> Cardinality(P(i))]
           at(k) == CHOOSE i \in D : Cardinality(P(i)) = k
           t == StableSort(s, key)
<1>1. D = 1..Len(s) /\ Len(s) \in Nat
  BY SequenceFacts
<1>2. IsFiniteSet(D) /\ Cardinality(D) = Len(s)
  <2>1. 1 \in Int /\ Len(s) \in Int
    BY <1>1
  <2>2. /\ IsFiniteSet(1..Len(s))
        /\ Cardinality(1..Len(s)) = IF 1 > Len(s) THEN 0 ELSE Len(s) - 1 + 1
    BY <2>1, FS_Interval
  <2> QED
    BY <1>1, <2>2
<1>3. ASSUME NEW i \in D
      PROVE  P(i) \in SUBSET D /\ i \in P(i) /\ IsFiniteSet(P(i)) /\ rank[i] \in D
  <2>1. P(i) \in SUBSET D
    BY DEF Preceding
  <2>2. i \in P(i)
    BY <1>1 DEF Preceding
  <2>3. IsFiniteSet(P(i)) /\ Cardinality(P(i)) \in Nat /\ Cardinality(P(i)) <= Len(s)
    BY <1>2, <2>1, FS_Subset, FS_CardinalityType
  <2>4. Cardinality(P(i)) # 0
    BY <2>2, <2>3, FS_EmptySet
  <2> QED
    BY <1>1, <2>1, <2>2, <2>3, <2>4
<1>4. ASSUME NEW i \in D, NEW k \in D, i # k, key[i] < key[k] \/ (key[i] = key[k] /\ i <= k)
      PROVE  rank[i] # rank[k]
  <2>1. P(i) \subseteq P(k)
    <3> SUFFICES ASSUME NEW j \in P(i) PROVE j \in P(k)
      OBVIOUS
    <3>1. j \in D /\ (key[j] < key[i] \/ (key[j] = key[i] /\ j <= i))
      BY DEF Preceding
    <3>2. key[j] \in Int /\ key[i] \in Int /\ key[k] \in Int /\ j \in Nat /\ i \in Nat /\ k \in Nat
      BY <1>1, <3>1
    <3>3. key[j] < key[k] \/ (key[j] = key[k] /\ j <= k)
      BY <1>4, <3>1, <3>2
    <3> QED
      BY <3>1, <3>3 DEF Preceding
  <2>2. k \notin P(i)
    <3>1. key[i] \in Int /\ key[k] \in Int /\ i \in Nat /\ k \in Nat
      BY <1>1
    <3> QED
      BY <1>4, <3>1 DEF Preceding
  <2>3. P(i) # P(k)
    BY <1>3, <2>2
  <2> QED
    BY <1>3, <2>1, <2>3, FS_Subset
<1>5. \A i, k \in D : rank[i] = rank[k] => i = k
  <2> SUFFICES ASSUME NEW i \in D, NEW k \in D, i # k PROVE rank[i] # rank[k]
    OBVIOUS
  <2> HIDE DEF rank
  <2>1. key[i] \in Int /\ key[k] \in Int /\ i \in Nat /\ k \in Nat
    BY <1>1
  <2> QED
    BY <1>4, <2>1
<1> HIDE DEF rank
<1>6. rank \in Injection(D, D)
  <2>1. rank \in [D -> D]
    BY <1>3 DEF rank
  <2> QED
    BY <1>5, <2>1, Fun_IsInj
<1>7. \A k \in D : \E i \in D : rank[i] = k
  <2>1. rank \in Surjection(D, D)
    BY <1>2, <1>6, FS_Injection
  <2> QED
    BY <2>1, Fun_SurjectionProperties
<1>8. \A k \in D : at(k) \in D /\ rank[at(k)] = k
  BY <1>7 DEF rank
<1>9. t = [k \in D |-> s[at(k)]]
  BY DEF StableSort, Preceding
<1> HIDE DEF t, at
<1>10. ToSet(t) = ToSet(s)
  <2>1. ASSUME NEW i \in D PROVE \E k \in D : t[k] = s[i]
    <3>1. rank[i] \in D
      BY <1>3
    <3>2. at(rank[i]) = i
      BY <1>5, <1>8, <3>1
    <3> QED
      BY <1>9, <3>1, <3>2
  <2>2. \A k \in D : t[k] = s[at(k)] /\ at(k) \in D
    BY <1>8, <1>9
  <2>3. DOMAIN t = D
    BY <1>9
  <2>4. ToSet(t) \subseteq ToSet(s)
    BY <2>2, <2>3 DEF ToSet
  <2>5. ToSet(s) \subseteq ToSet(t)
    BY <2>1, <2>3 DEF ToSet
  <2> QED
    BY <2>4, <2>5
<1>11. \A k \in 1..Len(s) : s[at(k)] \in ToSet(t)
  BY <1>1, <1>9 DEF ToSet
<1>12. [k \in 1..Len(s) |-> s[at(k)]] \in Seq(ToSet(t))
  BY <1>1, <1>11
<1> QED
  BY <1>1, <1>9, <1>10, <1>12 DEF t
-----------------------------------------------------------------------------
(* The invariant *)

HardIn(links) == {l.to : l \in {x \in ToSet(links) : x.kind = "Hard"}}

(* What is known of the recursion of the writer: what is done is written   *)
(* with all that is below it, and the groups that are being written are a  *)
(* path from the root that has not come back to itself.                    *)
GoodWritten(objects, done, id) ==
    /\ objects[id].kind # "Unsupported" /\ Encodable(objects[id])
    /\ HardTargets(objects[id]) \subseteq done
    /\ id \notin Below(objects, {id})

GoodWriter(objects, done, f) ==
    /\ f = [id |-> f.id, form |-> f.form, heap |-> f.heap, entries |-> f.entries,
            level |-> f.level, nodes |-> f.nodes, heapAddr |-> f.heapAddr, todo |-> f.todo]
    /\ f.id \in DOMAIN objects /\ objects[f.id].kind = "Group"
    /\ f.todo \in Seq(ToSet(f.todo))
    /\ HardIn(f.todo) \subseteq HardTargets(objects[f.id])
    /\ HardTargets(objects[f.id]) \subseteq done \cup HardIn(f.todo)

PathFrom(objects, root, s) ==
    /\ s # <<>> => s[1].id = root
    /\ \A k \in 2..Len(s) : s[k].id \in HardTargets(objects[s[k - 1].id])
    /\ \A j, k \in 1..Len(s) : s[j].id = s[k].id => j = k

GoodWriters(objects, root, done, s) ==
    /\ s \in Seq(ToSet(s))
    /\ \A k \in 1..Len(s) : GoodWriter(objects, done, s[k])
    /\ PathFrom(objects, root, s)

AllWritten(objects, done) ==
    /\ done \subseteq DOMAIN objects
    /\ \A id \in done : GoodWritten(objects, done, id)

Writing ==
    /\ source = model
    /\ AllWritten(model.objects, DOMAIN memo)
    /\ GoodWriters(model.objects, model.root, DOMAIN memo, stack)

(* What is known of the recursion of the reader: every header that was met *)
(* has a slot of its own behind the first, which the root of an empty file *)
(* has; the slot of a group that is being read is empty until it is done;  *)
(* and links lead to slots.                                                *)
GoodReader(objects, f) ==
    /\ f = [slot |-> f.slot, todo |-> f.todo, links |-> f.links, content |-> f.content,
            drawn |-> f.drawn, dense |-> f.dense]
    /\ f.slot \in DOMAIN objects /\ objects[f.slot] = EmptyNode
    /\ f.links \in Seq(ToSet(f.links))
    /\ \A l \in ToSet(f.links) : l.name \in String /\ l.order \in Int
    /\ HardIn(f.links) \subseteq DOMAIN objects

GoodReaders(objects, s) ==
    /\ s \in Seq(ToSet(s))
    /\ \A k \in 1..Len(s) : GoodReader(objects, s[k])
    /\ \A j, k \in 1..Len(s) : s[j].slot = s[k].slot => j = k

Slots ==
    /\ IsFiniteSet(DOMAIN memo)
    /\ \A a \in DOMAIN memo : memo[a] \in DOMAIN model.objects
    /\ OneSlotEach

Reading == Slots /\ model.next \in Int /\ GoodReaders(model.objects, stack)

(* The inductive invariant. *)
IInv ==
    /\ phase \in {"model", "edited", "write", "refused", "image", "read"}
    /\ phase # "image" => WellFormed(model)
    /\ phase = "write" => Writing
    /\ phase = "read" => Reading
    /\ RefusedIffObstructed

-----------------------------------------------------------------------------
(* Objects and links *)

LEMMA HardTargetsIn == ASSUME NEW node PROVE HardTargets(node) = HardIn(node.links)
  BY DEF HardTargets, HardIn, ToSet

LEMMA ArenaFacts ==
    ASSUME NEW m, WellFormed(m)
    PROVE  /\ Linked(m.objects) /\ Len(m.objects) \in Nat
           /\ DOMAIN m.objects = 1..Len(m.objects)
           /\ m.root \in DOMAIN m.objects
           /\ \A id \in DOMAIN m.objects : NodeOver(DOMAIN m.objects, m.objects[id])
<1>1. m.objects \in Seq(ToSet(m.objects))
  BY DEF WellFormed
<1>2. DOMAIN m.objects = 1..Len(m.objects) /\ Len(m.objects) \in Nat
  BY <1>1, SequenceFacts
<1> QED
  BY <1>2 DEF WellFormed, NodeOver, Linked

(* The links of a sequence are its first and the others.                   *)
LEMMA HardInTail ==
    ASSUME NEW s, s \in Seq(ToSet(s)), s # <<>>
    PROVE  /\ Tail(s) \in Seq(ToSet(Tail(s)))
           /\ ToSet(s) = {Head(s)} \cup ToSet(Tail(s))
           /\ HardIn(s) = HardIn(Tail(s)) \cup (IF Head(s).kind = "Hard" THEN {Head(s).to} ELSE {})
<1> DEFINE t == Tail(s)
           n == Len(s)
<1>1. n \in Nat \ {0} /\ DOMAIN s = 1..n
  BY SequenceFacts, EmptySeq
<1>2. /\ t \in Seq(ToSet(s)) /\ Len(t) = n - 1 /\ Head(s) = s[1]
      /\ \A i \in 1..n - 1 : t[i] = s[i + 1]
  BY <1>1, HeadTailProperties
<1>3. t \in Seq(ToSet(t)) /\ DOMAIN t = 1..n - 1
  BY <1>2, OwnElements
<1> HIDE DEF t, n
<1>4. ToSet(s) \subseteq {s[1]} \cup ToSet(t)
  <2> SUFFICES ASSUME NEW i \in 1..n, i # 1 PROVE s[i] \in ToSet(t)
    BY <1>1 DEF ToSet
  <2>1. i - 1 \in 1..n - 1 /\ (i - 1) + 1 = i
    BY <1>1
  <2>2. t[i - 1] = s[i]
    BY <1>2, <2>1
  <2> QED
    BY <1>3, <2>1, <2>2 DEF ToSet
<1>5. {s[1]} \cup ToSet(t) \subseteq ToSet(s)
  <2>1. \A i \in 1..n - 1 : i + 1 \in 1..n
    BY <1>1
  <2>2. 1 \in 1..n
    BY <1>1
  <2> QED
    BY <1>1, <1>2, <1>3, <2>1, <2>2 DEF ToSet
<1>6. ToSet(s) = {Head(s)} \cup ToSet(t)
  BY <1>2, <1>4, <1>5
<1>7. HardIn(s) = HardIn(t) \cup (IF Head(s).kind = "Hard" THEN {Head(s).to} ELSE {})
  BY <1>6 DEF HardIn
<1> QED
  BY <1>3, <1>6, <1>7 DEF t

(* What is below an object whose links lead to what is written is written. *)
LEMMA BelowWritten ==
    ASSUME NEW objects, Linked(objects), Len(objects) \in Nat,
           NEW done, AllWritten(objects, done),
           NEW ids \in SUBSET DOMAIN objects, Targets(objects, ids) \subseteq done
    PROVE  Below(objects, ids) \subseteq done
<1>1. Targets(objects, done) \subseteq done
  BY DEF AllWritten, GoodWritten, Targets
<1> QED
  BY <1>1, BelowClosed

LEMMA OneMoreWritten ==
    ASSUME NEW objects, Linked(objects), Len(objects) \in Nat,
           NEW done, AllWritten(objects, done),
           NEW id \in DOMAIN objects, id \notin done,
           objects[id].kind # "Unsupported", Encodable(objects[id]),
           HardTargets(objects[id]) \subseteq done
    PROVE  AllWritten(objects, done \cup {id})
<1>1. Targets(objects, {id}) \subseteq done
  BY DEF Targets
<1>2. Below(objects, {id}) \subseteq done
  BY <1>1, BelowWritten
<1> QED
  BY <1>2 DEF AllWritten, GoodWritten

(* Once the root is written nothing is in the way.                         *)
LEMMA WrittenUnobstructed ==
    ASSUME NEW m, WellFormed(m), NEW done, AllWritten(m.objects, done), m.root \in done
    PROVE  ~Obstructed(m)
<1>1. Linked(m.objects) /\ Len(m.objects) \in Nat /\ m.root \in DOMAIN m.objects
  BY ArenaFacts
<1>2. Targets(m.objects, {m.root}) \subseteq done
  BY DEF AllWritten, GoodWritten, Targets
<1>3. Below(m.objects, {m.root}) \subseteq done
  BY <1>1, <1>2, BelowWritten
<1>4. \A id \in Reachable(m) : GoodWritten(m.objects, done, id)
  BY <1>3 DEF Reachable, AllWritten
<1> QED
  BY <1>4 DEF Obstructed, GoodWritten

-----------------------------------------------------------------------------
(* The groups being written *)

(* They are no more than there are objects.                                *)
LEMMA PathIsShort ==
    ASSUME NEW objects, Len(objects) \in Nat, DOMAIN objects = 1..Len(objects),
           NEW root, NEW done, NEW s, GoodWriters(objects, root, done, s)
    PROVE  Len(s) \in Nat /\ Len(s) <= Len(objects)
<1> DEFINE ids == [k \in 1..Len(s) |-> s[k].id]
<1>1. Len(s) \in Nat
  BY SequenceFacts DEF GoodWriters
<1>2. \A k \in 1..Len(s) : s[k].id \in 1..Len(objects)
  BY DEF GoodWriters, GoodWriter
<1>3. ids \in [1..Len(s) -> 1..Len(objects)]
  BY <1>2
<1>4. \A j, k \in 1..Len(s) : ids[j] = ids[k] => j = k
  BY DEF GoodWriters, PathFrom
<1> HIDE DEF ids
<1>5. ids \in Injection(1..Len(s), 1..Len(objects))
  BY <1>3, <1>4, Fun_IsInj
<1>6. 1 \in Int /\ Len(s) \in Int /\ Len(objects) \in Int
  BY <1>1
<1>7. /\ IsFiniteSet(1..Len(s)) /\ IsFiniteSet(1..Len(objects))
      /\ Cardinality(1..Len(s)) = IF 1 > Len(s) THEN 0 ELSE Len(s) - 1 + 1
      /\ Cardinality(1..Len(objects)) = IF 1 > Len(objects) THEN 0 ELSE Len(objects) - 1 + 1
  BY <1>6, FS_Interval
<1>8. Cardinality(1..Len(s)) <= Cardinality(1..Len(objects))
  BY <1>5, <1>7, FS_Injection
<1> QED
  BY <1>1, <1>6, <1>7, <1>8

(* A link of the innermost group leads below all of them.                  *)
LEMMA BelowAllGroups ==
    ASSUME NEW objects, Linked(objects), Len(objects) \in Nat, DOMAIN objects = 1..Len(objects),
           NEW root, NEW done, NEW s, GoodWriters(objects, root, done, s),
           NEW t \in HardTargets(objects[s[Len(s)].id]), NEW i \in 1..Len(s)
    PROVE  t \in Below(objects, {s[i].id})
<1> DEFINE n == Len(s)
           p == [k \in 1..n - i + 2 |-> IF k = n - i + 2 THEN t ELSE s[k + i - 1].id]
           m == n - i + 2
<1>1. n \in Nat /\ n <= Len(objects)
  BY PathIsShort
<1>2. m \in Nat /\ 2 <= m /\ m - 2 <= Len(objects)
  BY <1>1
<1>3. s[i].id \in DOMAIN objects
  BY DEF GoodWriters, GoodWriter
<1>4. p[m] = t /\ m \in 1..m
  BY <1>1
<1>5. \A k \in 1..m - 1 : p[k] = s[k + i - 1].id
  BY <1>1
<1>6. p[1] = s[i].id
  <2>1. 1 \in 1..m - 1 /\ 1 + i - 1 = i
    BY <1>2
  <2> QED
    BY <1>5, <2>1
<1> HIDE DEF p
<1>7. ASSUME NEW k \in 2..m PROVE p[k] \in HardTargets(objects[p[k - 1]])
  <2>1. k - 1 \in 1..m - 1 /\ (k - 1) + i - 1 = k + i - 2
    BY <1>1
  <2>2. p[k - 1] = s[k + i - 2].id
    BY <1>5, <2>1
  <2>3. CASE k = m
    <3>1. k + i - 2 = n
      BY <1>1, <2>3
    <3> QED
      BY <1>4, <2>2, <2>3, <3>1
  <2>4. CASE k # m
    <3>1. k \in 1..m - 1 /\ k + i - 1 \in 2..n /\ (k + i - 1) - 1 = k + i - 2
      BY <1>1, <2>4
    <3>2. p[k] = s[k + i - 1].id
      BY <1>5, <3>1
    <3>3. s[k + i - 1].id \in HardTargets(objects[s[(k + i - 1) - 1].id])
      BY <3>1 DEF GoodWriters, PathFrom, n
    <3> QED
      BY <2>2, <3>1, <3>2, <3>3
  <2> QED
    BY <2>3, <2>4
<1> HIDE DEF m
<1>8. p[1] \in DOMAIN objects
  BY <1>3, <1>6
<1>9. p[m] \in Below(objects, {p[1]})
  BY <1>2, <1>7, <1>8, BelowPath
<1> QED
  BY <1>4, <1>6, <1>9

(* The innermost group, and the object whose turn it is.                   *)
LEMMA InnermostGroup ==
    ASSUME IInv, phase = "write", stack # <<>>
    PROVE  /\ Len(stack) \in Nat \ {0}
           /\ GoodWriter(model.objects, DOMAIN memo, Top)
<1>1. Len(stack) \in Nat \ {0}
  BY SequenceFacts, EmptySeq DEF IInv, Writing, GoodWriters
<1> QED
  BY <1>1 DEF IInv, Writing, GoodWriters, Top

LEMMA TurnOf ==
    ASSUME IInv, phase = "write", ToWrite # None
    PROVE  /\ ToWrite \in DOMAIN model.objects
           /\ stack = <<>> => ToWrite = model.root
           /\ stack # <<>> => ToWrite \in HardTargets(model.objects[Top.id])
<1>1. WellFormed(model)
  BY DEF IInv
<1>2. Linked(model.objects) /\ model.root \in DOMAIN model.objects
  BY <1>1, ArenaFacts
<1>3. CASE stack = <<>>
  BY <1>2, <1>3 DEF ToWrite
<1>4. CASE stack # <<>>
  <2>1. GoodWriter(model.objects, DOMAIN memo, Top)
    BY <1>4, InnermostGroup
  <2>2. Top.todo # <<>> /\ Head(Top.todo).kind = "Hard" /\ ToWrite = Head(Top.todo).to
    BY <1>4 DEF ToWrite
  <2>3. Head(Top.todo).to \in HardIn(Top.todo)
    BY <2>1, <2>2, HardInTail DEF GoodWriter
  <2>4. ToWrite \in HardTargets(model.objects[Top.id]) /\ Top.id \in DOMAIN model.objects
    BY <2>1, <2>2, <2>3 DEF GoodWriter
  <2> QED
    BY <1>2, <1>4, <2>4 DEF Linked
<1> QED
  BY <1>3, <1>4

(* The group around the innermost one goes on.                             *)
LEMMA PopKeeps ==
    ASSUME NEW objects, NEW root, NEW done, NEW s, GoodWriters(objects, root, done, s), s # <<>>
    PROVE  GoodWriters(objects, root, done, SubSeq(s, 1, Len(s) - 1))
<1> DEFINE n == Len(s)
           p == SubSeq(s, 1, Len(s) - 1)
<1>1. p = Front(s)
  BY DEF Front
<1>2. /\ n \in Nat \ {0} /\ p \in Seq(ToSet(p)) /\ Len(p) = n - 1
      /\ \A i \in 1..n - 1 : p[i] = s[i]
  BY <1>1, FrontFacts DEF GoodWriters
<1> HIDE DEF p, n
<1>3. \A k \in 1..n - 1 : GoodWriter(objects, done, p[k])
  BY <1>2 DEF GoodWriters, n
<1>4. PathFrom(objects, root, p)
  <2>1. ASSUME p # <<>> PROVE p[1].id = root
    <3>1. Len(p) # 0
      BY <1>2, <2>1, EmptySeq
    <3>2. 1 \in 1..n - 1
      BY <1>2, <3>1
    <3> QED
      BY <1>2, <3>2 DEF GoodWriters, PathFrom
  <2>2. ASSUME NEW k \in 2..n - 1 PROVE p[k].id \in HardTargets(objects[p[k - 1].id])
    <3>1. k \in 2..n /\ k \in 1..n - 1 /\ k - 1 \in 1..n - 1
      BY <1>2
    <3> QED
      BY <1>2, <3>1 DEF GoodWriters, PathFrom, n
  <2>3. \A k \in 1..n - 1 : k \in 1..n
    BY <1>2
  <2>4. \A j, k \in 1..n - 1 : p[j].id = p[k].id => j = k
    BY <1>2, <2>3 DEF GoodWriters, PathFrom, n
  <2> QED
    BY <1>2, <2>1, <2>2, <2>4 DEF PathFrom
<1>5. GoodWriters(objects, root, done, p)
  BY <1>2, <1>3, <1>4 DEF GoodWriters
<1> QED
  BY <1>5 DEF p

(* Where the writer is can be reached.                                     *)
LEMMA InnermostReachable ==
    ASSUME IInv, phase = "write", stack # <<>>
    PROVE  Top.id \in DOMAIN model.objects /\ Top.id \in Reachable(model)
<1> DEFINE objects == model.objects
           done == DOMAIN memo
           n == Len(stack)
           p == SubSeq(stack, 1, Len(stack) - 1)
<1>1. /\ WellFormed(model) /\ GoodWriters(objects, model.root, done, stack)
      /\ Linked(objects) /\ Len(objects) \in Nat /\ DOMAIN objects = 1..Len(objects)
  BY ArenaFacts DEF IInv, Writing
<1>2. /\ n \in Nat \ {0} /\ n \in 1..n /\ 1 \in 1..n /\ Top = stack[n]
      /\ Top.id \in DOMAIN objects /\ stack[1].id = model.root
  BY <1>1, InnermostGroup DEF GoodWriter, GoodWriters, PathFrom, Top
<1>3. CASE n = 1
  BY <1>2, <1>3 DEF Reachable
<1>4. CASE n # 1
  <2>1. p = Front(stack) /\ stack \in Seq(ToSet(stack))
    BY <1>1 DEF Front, GoodWriters
  <2>2. Len(p) = n - 1 /\ \A i \in 1..n - 1 : p[i] = stack[i]
    BY <1>2, <2>1, FrontFacts
  <2>3. GoodWriters(objects, model.root, done, p)
    BY <1>1, PopKeeps
  <2> HIDE DEF p
  <2>4. 1 \in 1..n - 1 /\ n - 1 \in 1..n - 1 /\ n \in 2..n
    <3>1. n \in Nat /\ n # 0 /\ n # 1
      BY <1>2, <1>4
    <3> HIDE DEF n
    <3> QED
      BY <3>1
  <2>5. Top.id \in HardTargets(objects[p[Len(p)].id])
    BY <1>1, <1>2, <2>2, <2>4 DEF GoodWriters, PathFrom
  <2>6. 1 \in 1..Len(p) /\ p[1].id = model.root
    BY <1>2, <2>2, <2>4
  <2>7. Top.id \in Below(objects, {model.root})
    BY <1>1, <2>3, <2>5, <2>6, BelowAllGroups
  <2> QED
    BY <1>2, <2>7 DEF Reachable
<1> QED
  BY <1>3, <1>4

(* The object whose turn it is can be reached, and if it is one that is    *)
(* being written then a path leads back to it.                             *)
LEMMA TurnReachable ==
    ASSUME IInv, phase = "write", ToWrite # None
    PROVE  /\ ToWrite \in Reachable(model)
           /\ ToWrite \in Visiting => ToWrite \in Below(model.objects, {ToWrite})
<1> DEFINE objects == model.objects
           t == ToWrite
<1>1. /\ WellFormed(model) /\ GoodWriters(objects, model.root, DOMAIN memo, stack)
      /\ Linked(objects) /\ Len(objects) \in Nat /\ DOMAIN objects = 1..Len(objects)
  BY ArenaFacts DEF IInv, Writing
<1>2. /\ t \in DOMAIN objects
      /\ stack = <<>> => t = model.root
      /\ stack # <<>> => t \in HardTargets(objects[Top.id])
  BY TurnOf
<1> HIDE DEF t
<1>3. CASE stack = <<>>
  BY <1>2, <1>3 DEF Reachable, Visiting, t
<1>4. CASE stack # <<>>
  <2>1. Len(stack) \in Nat \ {0}
    BY <1>4, InnermostGroup
  <2>2. \A i \in 1..Len(stack) : t \in Below(objects, {stack[i].id})
    BY <1>1, <1>2, <1>4, BelowAllGroups DEF Top
  <2>3. stack[1].id = model.root /\ 1 \in 1..Len(stack)
    BY <1>1, <1>4, <2>1 DEF GoodWriters, PathFrom
  <2>4. t \in Reachable(model)
    BY <2>2, <2>3 DEF Reachable
  <2>5. ASSUME t \in Visiting PROVE t \in Below(objects, {t})
    <3>1. PICK i \in 1..Len(stack) : t = stack[i].id
      BY <1>1, <2>5, SequenceFacts DEF Visiting, GoodWriters
    <3> QED
      BY <2>2, <3>1
  <2> QED
    BY <2>4, <2>5 DEF t
<1> QED
  BY <1>3, <1>4

LEMMA RefuseStep == ASSUME IInv, Refuse PROVE IInv'
<1> DEFINE objects == model.objects
           t == ToWrite
<1>1. /\ Stopped /\ phase' = "refused"
      /\ UNCHANGED <<model, image, super, sharing, stack, memo, source, saves>>
  BY DEF Refuse
<1>2. phase = "write" /\ source = model /\ WellFormed(model)
  <2>1. phase = "write"
    BY <1>1 DEF Stopped, MembersDone
  <2> QED
    BY <2>1 DEF IInv, Writing
<1>3. ASSUME t # None, Refused(t) \/ ~Encodable(objects[t]) PROVE Obstructed(model)
  <2>1. t \in Reachable(model) /\ (t \in Visiting => t \in Below(objects, {t}))
    BY <1>2, <1>3, TurnReachable
  <2> HIDE DEF t
  <2> QED
    BY <1>3, <2>1 DEF Refused, Obstructed
<1>4. ASSUME MembersDone, ~Encodable(objects[Top.id]) PROVE Obstructed(model)
  <2>1. Top.id \in Reachable(model)
    BY <1>2, <1>4, InnermostReachable DEF MembersDone
  <2> QED
    BY <1>4, <2>1 DEF Obstructed
<1>5. Obstructed(model) \/ ~StoresFit(sharing)
  BY <1>1, <1>3, <1>4 DEF Stopped
<1>6. Obstructed(source') \/ ~StoresFit(sharing')
  BY <1>1, <1>2, <1>5
<1> QED
  BY <1>1, <1>2, <1>6 DEF IInv, RefusedIffObstructed

(* What is done only grows, and that does no harm to the groups.           *)
LEMMA WritersMonotone ==
    ASSUME NEW objects, NEW root, NEW done, NEW more, done \subseteq more, NEW s,
           GoodWriters(objects, root, done, s)
    PROVE  GoodWriters(objects, root, more, s)
<1>1. \A k \in 1..Len(s) : GoodWriter(objects, more, s[k])
  BY DEF GoodWriters, GoodWriter
<1> QED
  BY <1>1 DEF GoodWriters

(* A step of the innermost group.                                          *)
LEMMA OnTopKeeps ==
    ASSUME NEW objects, NEW root, NEW done, NEW s, GoodWriters(objects, root, done, s), s # <<>>,
           NEW f, GoodWriter(objects, done, f), f.id = s[Len(s)].id
    PROVE  GoodWriters(objects, root, done, [s EXCEPT ![Len(s)] = f])
<1> DEFINE n == Len(s)
           a == [s EXCEPT ![n] = f]
<1>1. s \in Seq(ToSet(s)) /\ n \in Nat \ {0} /\ DOMAIN s = 1..n /\ n \in DOMAIN s
  BY SequenceFacts, EmptySeq DEF GoodWriters
<1>2. a \in Seq(ToSet(a)) /\ Len(a) = n /\ a[n] = f /\ \A k \in 1..n : k # n => a[k] = s[k]
  BY <1>1, ExceptFacts
<1> HIDE DEF a, n
<1>3. \A k \in 1..n : a[k].id = s[k].id
  BY <1>2 DEF n
<1>4. \A k \in 1..n : GoodWriter(objects, done, a[k])
  BY <1>2 DEF GoodWriters, n
<1>5. PathFrom(objects, root, a)
  <2>1. a # <<>> => a[1].id = root
    <3>1. s[1].id = root /\ 1 \in 1..n
      BY <1>1 DEF GoodWriters, PathFrom
    <3> QED
      BY <1>3, <3>1
  <2>2. \A k \in 2..n : k \in 1..n /\ k - 1 \in 1..n
    BY <1>1
  <2>3. \A k \in 2..n : a[k].id \in HardTargets(objects[a[k - 1].id])
    BY <1>3, <2>2 DEF GoodWriters, PathFrom, n
  <2>4. \A j, k \in 1..n : a[j].id = a[k].id => j = k
    BY <1>3 DEF GoodWriters, PathFrom, n
  <2> QED
    BY <1>2, <2>1, <2>3, <2>4 DEF PathFrom
<1>6. GoodWriters(objects, root, done, a)
  BY <1>2, <1>4, <1>5 DEF GoodWriters
<1> QED
  BY <1>6 DEF a, n

(* A step of the writer that is not the last leaves the graph alone.       *)
LEMMA StillWriting ==
    ASSUME IInv, phase = "write", UNCHANGED <<phase, model, source>>,
           AllWritten(model.objects, DOMAIN memo'),
           GoodWriters(model.objects, model.root, DOMAIN memo', stack')
    PROVE  IInv'
  BY DEF IInv, Writing, RefusedIffObstructed

(* A step of the innermost group that writes no object.                    *)
LEMMA WriterStep ==
    ASSUME IInv, phase = "write", stack # <<>>, UNCHANGED <<phase, model, memo, source>>,
           NEW f, stack' = OnTop(f), f.id = Top.id, GoodWriter(model.objects, DOMAIN memo, f)
    PROVE  IInv'
<1>1. /\ AllWritten(model.objects, DOMAIN memo)
      /\ GoodWriters(model.objects, model.root, DOMAIN memo, stack)
  BY DEF IInv, Writing
<1>2. GoodWriters(model.objects, model.root, DOMAIN memo, stack')
  BY <1>1, OnTopKeeps DEF OnTop, Top
<1> QED
  BY <1>1, <1>2, StillWriting

LEMMA WriteDatasetStep == ASSUME IInv, WriteDataset PROVE IInv'
<1> DEFINE objects == model.objects
           t == ToWrite
<1>1. /\ phase = "write" /\ t # None /\ t \notin DOMAIN memo
      /\ objects[t].kind \in {"Dataset", "NamedType"} /\ Encodable(objects[t])
      /\ UNCHANGED <<phase, model, super, stack, source, saves>>
      /\ DOMAIN memo' = DOMAIN memo \cup {t}
  BY DEF WriteDataset, Memoized
<1>2. /\ WellFormed(model) /\ AllWritten(objects, DOMAIN memo)
      /\ GoodWriters(objects, model.root, DOMAIN memo, stack)
  BY <1>1 DEF IInv, Writing
<1>3. Linked(objects) /\ Len(objects) \in Nat /\ t \in DOMAIN objects
  BY <1>1, <1>2, ArenaFacts, TurnOf
<1> HIDE DEF t
<1>4. NodeOver(DOMAIN objects, objects[t])
  BY <1>2, <1>3, ArenaFacts
<1>5. objects[t].links = <<>> /\ objects[t].kind # "Unsupported"
  BY <1>1, <1>4 DEF NodeOver
<1>6. HardTargets(objects[t]) = {}
  BY <1>5 DEF HardTargets
<1>7. AllWritten(objects, DOMAIN memo')
  BY <1>1, <1>2, <1>3, <1>5, <1>6, OneMoreWritten
<1>8. GoodWriters(objects, model.root, DOMAIN memo', stack')
  BY <1>1, <1>2, WritersMonotone
<1> QED
  BY <1>1, <1>7, <1>8, StillWriting

(* The frame of a group has all its links, sorted or as they are.          *)
LEMMA NewWriter ==
    ASSUME NEW id \in DOMAIN model.objects, WellFormed(model), NEW done,
           model.objects[id].kind = "Group"
    PROVE  GoodWriter(model.objects, done, WriterFrame(id)) /\ WriterFrame(id).id = id
<1> DEFINE links == model.objects[id].links
           todo == IF FormOf(links) = "Dense" THEN links ELSE ByName(links)
<1>1. links \in Seq(ToSet(links)) /\ \A l \in ToSet(links) : l.name \in String
  BY ArenaFacts DEF NodeOver
<1>2. todo \in Seq(ToSet(todo)) /\ ToSet(todo) = ToSet(links)
  <2> DEFINE key == [i \in DOMAIN links |-> links[i].name]
  <2>1. \A i \in DOMAIN links : key[i] \in Int
    BY <1>1 DEF ToSet, String
  <2> HIDE DEF key
  <2>2. /\ StableSort(links, key) \in Seq(ToSet(StableSort(links, key)))
        /\ ToSet(StableSort(links, key)) = ToSet(links)
    BY <1>1, <2>1, StableSortPermutes
  <2>3. ByName(links) = StableSort(links, key)
    BY DEF ByName, key
  <2> QED
    BY <1>1, <2>2, <2>3
<1>3. WriterFrame(id) =
        [id |-> id, form |-> FormOf(links), heap |-> <<>>, entries |-> <<>>, level |-> None,
         nodes |-> <<>>, heapAddr |-> None, todo |-> todo]
  BY DEF WriterFrame
<1>4. HardTargets(model.objects[id]) = HardIn(links)
  BY HardTargetsIn
<1> HIDE DEF todo, links
<1>5. HardIn(todo) = HardTargets(model.objects[id])
  BY <1>2, <1>4 DEF HardIn
<1> QED
  BY <1>2, <1>3, <1>5 DEF GoodWriter

LEMMA EnterGroupStep == ASSUME IInv, EnterGroup PROVE IInv'
<1> DEFINE objects == model.objects
           t == ToWrite
           f == WriterFrame(t)
           n == Len(stack)
<1>1. /\ phase = "write" /\ t # None /\ objects[t].kind = "Group" /\ t \notin Visiting
      /\ stack' = Append(stack, f)
      /\ UNCHANGED <<phase, model, image, super, sharing, memo, source, saves>>
  BY DEF EnterGroup, Refused
<1>2. /\ WellFormed(model) /\ AllWritten(objects, DOMAIN memo)
      /\ GoodWriters(objects, model.root, DOMAIN memo, stack)
  BY <1>1 DEF IInv, Writing
<1>3. /\ t \in DOMAIN objects
      /\ stack = <<>> => t = model.root
      /\ stack # <<>> => t \in HardTargets(objects[Top.id])
  BY <1>1, TurnOf
<1>4. GoodWriter(objects, DOMAIN memo, f) /\ f.id = t
  BY <1>1, <1>2, <1>3, NewWriter
<1>5. stack \in Seq(ToSet(stack)) /\ n \in Nat /\ DOMAIN stack = 1..n
  BY <1>2, SequenceFacts DEF GoodWriters
<1> HIDE DEF f, t
<1>6. /\ stack' \in Seq(ToSet(stack')) /\ Len(stack') = n + 1 /\ stack'[n + 1] = f
      /\ \A k \in 1..n : stack'[k] = stack[k]
  BY <1>1, <1>5, AppendFacts
<1>7. \A k \in 1..n : stack[k].id # t
  BY <1>1, <1>5 DEF Visiting
<1> HIDE DEF n
<1>8. \A k \in 1..n + 1 : k \in 1..n \/ k = n + 1
  BY <1>5
<1>9. \A k \in 1..n + 1 : GoodWriter(objects, DOMAIN memo, stack'[k])
  BY <1>2, <1>4, <1>6, <1>8 DEF GoodWriters, n
<1>10. PathFrom(objects, model.root, stack')
  <2>1. stack'[1].id = model.root
    <3>1. CASE stack = <<>>
      <4>1. n = 0
        BY <3>1 DEF n
      <4> QED
        BY <1>3, <1>4, <1>6, <3>1, <4>1
    <3>2. CASE stack # <<>>
      <4>1. 1 \in 1..n
        BY <1>5, <3>2, EmptySeq DEF n
      <4> QED
        BY <1>2, <1>6, <3>2, <4>1 DEF GoodWriters, PathFrom
    <3> QED
      BY <3>1, <3>2
  <2>2. ASSUME NEW k \in 2..n + 1 PROVE stack'[k].id \in HardTargets(objects[stack'[k - 1].id])
    <3>1. k - 1 \in 1..n
      BY <1>5
    <3>2. CASE k \in 2..n
      <4>1. k \in 1..n
        BY <1>5, <3>2
      <4> QED
        BY <1>2, <1>6, <3>1, <3>2, <4>1 DEF GoodWriters, PathFrom, n
    <3>3. CASE k = n + 1
      <4>1. k - 1 = n /\ n # 0
        BY <1>5, <3>1, <3>3
      <4>2. stack # <<>>
        BY <4>1 DEF n
      <4> QED
        BY <1>3, <1>4, <1>6, <3>1, <3>3, <4>1, <4>2 DEF Top, n
    <3> QED
      BY <1>5, <3>2, <3>3
  <2>3. ASSUME NEW j \in 1..n + 1, NEW k \in 1..n + 1, stack'[j].id = stack'[k].id PROVE j = k
    BY <1>2, <1>4, <1>6, <1>7, <1>8, <2>3 DEF GoodWriters, PathFrom, n
  <2> QED
    BY <1>6, <2>1, <2>2, <2>3 DEF PathFrom
<1>11. GoodWriters(objects, model.root, DOMAIN memo, stack')
  BY <1>6, <1>9, <1>10 DEF GoodWriters
<1> QED
  BY <1>1, <1>2, <1>11, StillWriting

(* A step of the innermost group does not change which group it is.        *)
WriterRecord(f) ==
    f = [id |-> f.id, form |-> f.form, heap |-> f.heap, entries |-> f.entries,
         level |-> f.level, nodes |-> f.nodes, heapAddr |-> f.heapAddr, todo |-> f.todo]

LinkDone(t, todo, heap, entries) == [t EXCEPT !.todo = todo, !.heap = heap, !.entries = entries]
LeavesDone(t, heapAddr, nodes) == [t EXCEPT !.heapAddr = heapAddr, !.nodes = nodes]
LevelDone(t, level, nodes) == [t EXCEPT !.level = level, !.nodes = nodes]

LEMMA WriterUpdates ==
    ASSUME NEW t, WriterRecord(t), NEW a, NEW b, NEW c
    PROVE  /\ WriterRecord(LinkDone(t, a, b, c))
           /\ WriterRecord(LeavesDone(t, a, b))
           /\ WriterRecord(LevelDone(t, a, b))
           /\ LinkDone(t, a, b, c).id = t.id
           /\ LinkDone(t, a, b, c).todo = a
           /\ LeavesDone(t, a, b).id = t.id
           /\ LeavesDone(t, a, b).todo = t.todo
           /\ LevelDone(t, a, b).id = t.id
           /\ LevelDone(t, a, b).todo = t.todo
<1> DEFINE id == t.id
           form == t.form
           heap == t.heap
           entries == t.entries
           level == t.level
           nodes == t.nodes
           heapAddr == t.heapAddr
           todo == t.todo
           u == [t EXCEPT !.todo = a]
           v == [u EXCEPT !.heap = b]
           w == [v EXCEPT !.entries = c]
           x == [t EXCEPT !.heapAddr = a]
           p == [x EXCEPT !.nodes = b]
           y == [t EXCEPT !.level = a]
           q == [y EXCEPT !.nodes = b]
<1>1. t = [id |-> id, form |-> form, heap |-> heap, entries |-> entries, level |-> level,
           nodes |-> nodes, heapAddr |-> heapAddr, todo |-> todo]
  BY DEF WriterRecord
<1> HIDE DEF id, form, heap, entries, level, nodes, heapAddr, todo
<1>2. v = [id |-> id, form |-> form, heap |-> b, entries |-> entries, level |-> level,
           nodes |-> nodes, heapAddr |-> heapAddr, todo |-> a]
  <2>1. u = [id |-> id, form |-> form, heap |-> heap, entries |-> entries, level |-> level,
             nodes |-> nodes, heapAddr |-> heapAddr, todo |-> a]
    BY <1>1
  <2> HIDE DEF u
  <2> QED
    BY <2>1
<1>3. /\ x = [id |-> id, form |-> form, heap |-> heap, entries |-> entries, level |-> level,
              nodes |-> nodes, heapAddr |-> a, todo |-> todo]
      /\ y = [id |-> id, form |-> form, heap |-> heap, entries |-> entries, level |-> a,
              nodes |-> nodes, heapAddr |-> heapAddr, todo |-> todo]
  BY <1>1
<1> HIDE DEF v, x, y
<1>4. w = [id |-> id, form |-> form, heap |-> b, entries |-> c, level |-> level,
           nodes |-> nodes, heapAddr |-> heapAddr, todo |-> a]
  BY <1>2
<1>5. p = [id |-> id, form |-> form, heap |-> heap, entries |-> entries, level |-> level,
           nodes |-> b, heapAddr |-> a, todo |-> todo]
  BY <1>3
<1>6. q = [id |-> id, form |-> form, heap |-> heap, entries |-> entries, level |-> a,
           nodes |-> b, heapAddr |-> heapAddr, todo |-> todo]
  BY <1>3
<1> HIDE DEF w, p, q
<1>7. WriterRecord(w) /\ w.id = id /\ w.todo = a
  BY <1>4 DEF WriterRecord
<1>8. WriterRecord(p) /\ p.id = id /\ p.todo = todo
  BY <1>5 DEF WriterRecord
<1>9. WriterRecord(q) /\ q.id = id /\ q.todo = todo
  BY <1>6 DEF WriterRecord
<1> QED
  BY <1>7, <1>8, <1>9 DEF u, v, w, x, y, p, q, id, todo, LinkDone, LeavesDone, LevelDone

LEMMA WriteLinkStep == ASSUME IInv, WriteLink PROVE IInv'
<1> DEFINE objects == model.objects
           done == DOMAIN memo
           top == Top
           link == Head(top.todo)
           named == HeapAdd(top.heap, link.name)
           heap == IF link.kind = "Soft" THEN HeapAdd(named, link.to) ELSE named
           h == IF top.form = "Symtab" THEN heap ELSE top.heap
           e == Append(top.entries, IF top.form = "Symtab" THEN SymbolEntry(link, heap)
                                    ELSE LinkMessage(link))
           f == LinkDone(top, Tail(top.todo), h, e)
<1>1. /\ phase = "write" /\ stack # <<>> /\ top.todo # <<>> /\ ToWrite \in {None} \cup done
      /\ UNCHANGED <<phase, model, image, super, sharing, memo, source, saves>>
  BY DEF WriteLink
<1>2. stack' = OnTop(f)
  BY DEF WriteLink, LinkDone
<1>3. GoodWriter(objects, done, top)
  BY <1>1, InnermostGroup
<1>4. Linked(objects) /\ DOMAIN objects = 1..Len(objects)
  BY <1>1, ArenaFacts DEF IInv
<1>5. link.kind = "Hard" => link.to \in done
  <2> SUFFICES ASSUME link.kind = "Hard" PROVE link.to \in done
    OBVIOUS
  <2>1. ToWrite = link.to
    BY <1>1 DEF ToWrite
  <2>2. link.to \in HardIn(top.todo)
    BY <1>1, <1>3, HardInTail DEF GoodWriter
  <2>3. link.to \in DOMAIN objects
    BY <1>3, <1>4, <2>2 DEF GoodWriter, Linked
  <2>4. link.to # None
    BY <1>4, <2>3 DEF None
  <2> QED
    BY <1>1, <2>1, <2>4
<1> HIDE DEF h, e, top
<1>6. WriterRecord(top)
  BY <1>3 DEF GoodWriter, WriterRecord
<1>7. WriterRecord(f) /\ f.id = top.id /\ f.todo = Tail(top.todo)
  BY <1>6, WriterUpdates
<1> HIDE DEF f, link
<1>8. /\ f.todo \in Seq(ToSet(f.todo))
      /\ HardIn(top.todo) = HardIn(f.todo) \cup (IF link.kind = "Hard" THEN {link.to} ELSE {})
  BY <1>1, <1>3, <1>7, HardInTail DEF GoodWriter, link
<1>9. GoodWriter(objects, done, f)
  BY <1>3, <1>5, <1>7, <1>8 DEF GoodWriter, WriterRecord
<1> QED
  BY <1>1, <1>2, <1>7, <1>9, WriterStep DEF top

LEMMA WriteLeavesStep == ASSUME IInv, WriteLeaves PROVE IInv'
<1> DEFINE top == Top
           heaped == Append(image, [type |-> "HEAP", strings |-> top.heap])
           h == Len(heaped)
           refs == SnodRefs(heaped, top.entries)
           f == LeavesDone(top, h, refs)
<1>1. /\ phase = "write" /\ stack # <<>>
      /\ UNCHANGED <<phase, model, super, sharing, memo, source, saves>>
  BY DEF WriteLeaves
<1>2. stack' = OnTop(f)
  BY DEF WriteLeaves, LeavesDone
<1>3. GoodWriter(model.objects, DOMAIN memo, top)
  BY <1>1, InnermostGroup
<1> HIDE DEF h, refs, top
<1>4. WriterRecord(top)
  BY <1>3 DEF GoodWriter, WriterRecord
<1>5. WriterRecord(f) /\ f.id = top.id /\ f.todo = top.todo
  BY <1>4, WriterUpdates
<1> HIDE DEF f
<1>6. GoodWriter(model.objects, DOMAIN memo, f)
  BY <1>3, <1>5 DEF GoodWriter, WriterRecord
<1> QED
  BY <1>1, <1>2, <1>5, <1>6, WriterStep DEF top

LEMMA WriteLevelStep == ASSUME IInv, WriteLevel PROVE IInv'
<1> DEFINE top == Top
           l == top.level + 1
           refs == LevelRefs(image, top.nodes)
           f == LevelDone(top, l, refs)
<1>1. /\ phase = "write" /\ stack # <<>>
      /\ UNCHANGED <<phase, model, super, sharing, memo, source, saves>>
  BY DEF WriteLevel
<1>2. stack' = OnTop(f)
  BY DEF WriteLevel, LevelDone
<1>3. GoodWriter(model.objects, DOMAIN memo, top)
  BY <1>1, InnermostGroup
<1> HIDE DEF l, refs, top
<1>4. WriterRecord(top)
  BY <1>3 DEF GoodWriter, WriterRecord
<1>5. WriterRecord(f) /\ f.id = top.id /\ f.todo = top.todo
  BY <1>4, WriterUpdates
<1> HIDE DEF f
<1>6. GoodWriter(model.objects, DOMAIN memo, f)
  BY <1>3, <1>5 DEF GoodWriter, WriterRecord
<1> QED
  BY <1>1, <1>2, <1>5, <1>6, WriterStep DEF top

LEMMA WriteHeaderStep == ASSUME IInv, WriteHeader PROVE IInv'
<1> DEFINE objects == model.objects
           done == DOMAIN memo
           id == Top.id
<1>1. /\ phase = "write" /\ stack # <<>> /\ Top.todo = <<>> /\ Encodable(objects[id])
      /\ stack' = Pop /\ DOMAIN memo' = done \cup {id}
      /\ UNCHANGED <<phase, model, super, sharing, source, saves>>
  BY DEF WriteHeader, Memoized, MembersDone
<1>2. /\ WellFormed(model) /\ AllWritten(objects, done)
      /\ GoodWriters(objects, model.root, done, stack)
  BY <1>1 DEF IInv, Writing
<1>3. GoodWriter(objects, done, Top)
  BY <1>1, InnermostGroup
<1>4. HardIn(Top.todo) = {}
  BY <1>1 DEF HardIn, ToSet
<1>5. /\ id \in DOMAIN objects /\ objects[id].kind # "Unsupported" /\ Encodable(objects[id])
      /\ HardTargets(objects[id]) \subseteq done
  BY <1>1, <1>3, <1>4 DEF GoodWriter
<1> HIDE DEF id
<1>6. AllWritten(objects, done \cup {id})
  <2>1. CASE id \in done
    <3>1. done \cup {id} = done
      BY <2>1
    <3> QED
      BY <1>2, <3>1
  <2>2. CASE id \notin done
    BY <1>2, <1>5, <2>2, ArenaFacts, OneMoreWritten
  <2> QED
    BY <2>1, <2>2
<1>7. GoodWriters(objects, model.root, done, stack')
  BY <1>1, <1>2, PopKeeps DEF Pop
<1>8. GoodWriters(objects, model.root, DOMAIN memo', stack')
  BY <1>1, <1>7, WritersMonotone
<1> QED
  BY <1>1, <1>6, <1>8, StillWriting

LEMMA WriteSuperblockStep == ASSUME IInv, WriteSuperblock PROVE IInv'
<1>1. /\ phase = "write" /\ model.root \in DOMAIN memo /\ phase' = "image"
      /\ StoresFit(sharing) /\ UNCHANGED <<model, sharing, source, saves>>
  BY DEF WriteSuperblock
<1>2. WellFormed(model) /\ source = model /\ AllWritten(model.objects, DOMAIN memo)
  BY <1>1 DEF IInv, Writing
<1>3. ~Obstructed(model)
  BY <1>1, <1>2, WrittenUnobstructed
<1>4. ~Obstructed(source') /\ StoresFit(sharing')
  BY <1>1, <1>2, <1>3
<1> QED
  BY <1>1, <1>4 DEF IInv, RefusedIffObstructed

(* A save begins with nothing written.                                     *)
LEMMA SaveStep == ASSUME IInv, Save PROVE IInv'
<1>1. /\ phase \in {"model", "edited"} /\ phase' = "write" /\ model' = model /\ source' = model
      /\ stack' = <<>> /\ memo' = NoMemo
  BY DEF Save
<1>2. WellFormed(model')
  BY <1>1 DEF IInv
<1>3. DOMAIN memo' = {}
  BY <1>1 DEF NoMemo
<1>4. AllWritten(model.objects, {})
  BY DEF AllWritten
<1>5. stack' \in Seq(ToSet(stack')) /\ Len(stack') = 0
  BY <1>1, EmptySeq
<1>6. GoodWriters(model.objects, model.root, {}, stack')
  BY <1>1, <1>5 DEF GoodWriters, PathFrom
<1>7. Writing'
  BY <1>1, <1>3, <1>4, <1>6 DEF Writing
<1> QED
  BY <1>1, <1>2, <1>7 DEF IInv, RefusedIffObstructed

-----------------------------------------------------------------------------
(* Graphs and nodes *)

Graph(objects, root, next, sohm) ==
    [objects |-> objects, root |-> root, next |-> next, sohm |-> sohm]
WithObjects(m, objects) == [m EXCEPT !.objects = objects]
WithNext(m, next) == [m EXCEPT !.next = next]
WithRoot(m, root, objects) == [m EXCEPT !.root = root, !.objects = objects]
WithLink(m, objects, next) == [m EXCEPT !.objects = objects, !.next = next]
Replaced(objects, id, node) == [objects EXCEPT ![id] = node]

AsKind(node, kind) == [node EXCEPT !.kind = kind]
AsData(node, kind, content) == [node EXCEPT !.kind = kind, !.content = content]
AsGroup(node, content, links) == [node EXCEPT !.content = content, !.links = links]
WithLinks(node, links) == [node EXCEPT !.links = links]
Counted(node, refcount) == [node EXCEPT !.refcount = refcount]

LEMMA GraphUpdates ==
    ASSUME NEW m, WellFormed(m), NEW o, NEW r, NEW n
    PROVE  /\ m = Graph(m.objects, m.root, m.next, m.sohm)
           /\ WithObjects(m, o) = Graph(o, m.root, m.next, m.sohm)
           /\ WithNext(m, n) = Graph(m.objects, m.root, n, m.sohm)
           /\ WithRoot(m, r, o) = Graph(o, r, m.next, m.sohm)
           /\ WithLink(m, o, n) = Graph(o, m.root, n, m.sohm)
<1> DEFINE objects == m.objects
           root == m.root
           next == m.next
           sohm == m.sohm
           u == [m EXCEPT !.root = r]
           v == [m EXCEPT !.objects = o]
<1>1. m = [objects |-> objects, root |-> root, next |-> next, sohm |-> sohm]
  BY DEF WellFormed
<1> HIDE DEF objects, root, next, sohm
<1>2. /\ u = [objects |-> objects, root |-> r, next |-> next, sohm |-> sohm]
      /\ v = [objects |-> o, root |-> root, next |-> next, sohm |-> sohm]
      /\ [m EXCEPT !.next = n] = [objects |-> objects, root |-> root, next |-> n, sohm |-> sohm]
  BY <1>1
<1> HIDE DEF u, v
<1>3. /\ [u EXCEPT !.objects = o] = [objects |-> o, root |-> r, next |-> next, sohm |-> sohm]
      /\ [v EXCEPT !.next = n] = [objects |-> o, root |-> root, next |-> n, sohm |-> sohm]
  BY <1>2
<1> QED
  BY <1>1, <1>2, <1>3
  DEF u, v, objects, root, next, sohm, Graph, WithObjects, WithNext, WithRoot, WithLink

LEMMA GraphFields ==
    ASSUME NEW o, NEW r, NEW n, NEW s
    PROVE  /\ Graph(o, r, n, s).objects = o /\ Graph(o, r, n, s).root = r
           /\ Graph(o, r, n, s).next = n
  BY DEF Graph

LEMMA GoodGraph ==
    ASSUME NEW o, NEW r, NEW n, NEW s, o \in Seq(ToSet(o)), r \in DOMAIN o,
           \A id \in DOMAIN o : NodeOver(DOMAIN o, o[id])
    PROVE  WellFormed(Graph(o, r, n, s))
<1> DEFINE g == Graph(o, r, n, s)
<1>1. g = [objects |-> g.objects, root |-> g.root, next |-> g.next, sohm |-> g.sohm]
  BY DEF Graph
<1>2. g.objects = o /\ g.root = r
  BY DEF Graph
<1> HIDE DEF g
<1>3. WellFormed(g)
  BY <1>1, <1>2 DEF WellFormed
<1> QED
  BY <1>3 DEF g

Node(kind, content, links, refcount) ==
    [kind |-> kind, content |-> content, links |-> links, refcount |-> refcount]

LEMMA GoodNode ==
    ASSUME NEW ids, NEW kind, NEW content, NEW links, NEW refcount,
           links \in Seq(ToSet(links)), \A l \in ToSet(links) : l.name \in String,
           HardIn(links) \subseteq ids, kind # "Group" => links = <<>>
    PROVE  NodeOver(ids, Node(kind, content, links, refcount))
<1> DEFINE n == Node(kind, content, links, refcount)
<1>1. /\ n = [kind |-> n.kind, content |-> n.content, links |-> n.links, refcount |-> n.refcount]
      /\ n.links = links /\ n.kind = kind
  BY DEF Node
<1> HIDE DEF n
<1>2. HardTargets(n) = HardIn(links)
  BY <1>1, HardTargetsIn
<1>3. NodeOver(ids, n)
  BY <1>1, <1>2 DEF NodeOver
<1> QED
  BY <1>3 DEF n

LEMMA NodeUpdates ==
    ASSUME NEW ids, NEW node, NodeOver(ids, node), NEW x
    PROVE  /\ WithLinks(node, x) = Node(node.kind, node.content, x, node.refcount)
           /\ Counted(node, x) = Node(node.kind, node.content, node.links, x)
<1> DEFINE kind == node.kind
           content == node.content
           links == node.links
           refcount == node.refcount
<1>1. node = [kind |-> kind, content |-> content, links |-> links, refcount |-> refcount]
  BY DEF NodeOver
<1> HIDE DEF kind, content, links, refcount
<1>2. /\ [node EXCEPT !.links = x]
         = [kind |-> kind, content |-> content, links |-> x, refcount |-> refcount]
      /\ [node EXCEPT !.refcount = x]
         = [kind |-> kind, content |-> content, links |-> links, refcount |-> x]
  BY <1>1
<1> QED
  BY <1>2 DEF kind, content, links, refcount, Node, WithLinks, Counted

(* What the reader makes of the empty node.                                *)
LEMMA NoLinks ==
    ASSUME NEW ids, NEW kind, NEW content, NEW refcount
    PROVE  NodeOver(ids, Node(kind, content, <<>>, refcount))
<1>1. <<>> \in Seq(ToSet(<<>>)) /\ ToSet(<<>>) = {}
  BY EmptySeq DEF ToSet
<1>2. HardIn(<<>>) = {}
  BY <1>1 DEF HardIn
<1> QED
  BY <1>1, <1>2, GoodNode

LEMMA EmptyNodeUpdates ==
    ASSUME NEW k, NEW c, NEW l
    PROVE  /\ AsKind(EmptyNode, k) = Node(k, NoContent, <<>>, 0)
           /\ AsData(EmptyNode, k, c) = Node(k, c, <<>>, 0)
           /\ AsGroup(EmptyNode, c, l) = Node("Group", c, l, 0)
<1> DEFINE u == [EmptyNode EXCEPT !.kind = k]
           v == [EmptyNode EXCEPT !.content = c]
<1>1. /\ u = [kind |-> k, content |-> NoContent, links |-> <<>>, refcount |-> 0]
      /\ v = [kind |-> "Group", content |-> c, links |-> <<>>, refcount |-> 0]
  BY DEF EmptyNode
<1> HIDE DEF u, v
<1>2. /\ [u EXCEPT !.content = c] = [kind |-> k, content |-> c, links |-> <<>>, refcount |-> 0]
      /\ [v EXCEPT !.links = l] = [kind |-> "Group", content |-> c, links |-> l, refcount |-> 0]
  BY <1>1
<1> QED
  BY <1>1, <1>2 DEF u, v, Node, AsKind, AsData, AsGroup

LEMMA EmptyNodeGood == ASSUME NEW ids PROVE NodeOver(ids, EmptyNode)
<1>1. EmptyNode = Node("Group", NoContent, <<>>, 0)
  BY DEF EmptyNode, Node
<1> QED
  BY <1>1, NoLinks

(* One more object in an arena.                                            *)
LEMMA AppendNode ==
    ASSUME NEW m, WellFormed(m), NEW node, NodeOver(DOMAIN m.objects, node)
    PROVE  /\ WellFormed(WithObjects(m, Append(m.objects, node)))
           /\ WithObjects(m, Append(m.objects, node)).objects = Append(m.objects, node)
           /\ WithObjects(m, Append(m.objects, node)).next = m.next
           /\ Len(m.objects) \in Nat /\ Len(Append(m.objects, node)) = Len(m.objects) + 1
           /\ DOMAIN Append(m.objects, node) = DOMAIN m.objects \cup {Len(m.objects) + 1}
           /\ Len(m.objects) + 1 \notin DOMAIN m.objects
           /\ Append(m.objects, node)[Len(m.objects) + 1] = node
           /\ \A id \in DOMAIN m.objects : Append(m.objects, node)[id] = m.objects[id]
<1> DEFINE n == Len(m.objects)
           o == Append(m.objects, node)
<1>1. /\ m.objects \in Seq(ToSet(m.objects)) /\ m.root \in DOMAIN m.objects
      /\ \A id \in DOMAIN m.objects : NodeOver(DOMAIN m.objects, m.objects[id])
  BY DEF WellFormed
<1>2. DOMAIN m.objects = 1..n /\ n \in Nat
  BY <1>1, SequenceFacts
<1>3. /\ o \in Seq(ToSet(o)) /\ Len(o) = n + 1 /\ o[n + 1] = node
      /\ \A i \in 1..n : o[i] = m.objects[i]
  BY <1>1, AppendFacts
<1>4. DOMAIN o = 1..n + 1
  BY <1>3, SequenceFacts
<1> HIDE DEF n, o
<1>5. 1..n + 1 = (1..n) \cup {n + 1} /\ n + 1 \notin 1..n
  BY <1>2
<1>6. \A id \in DOMAIN o : NodeOver(DOMAIN o, o[id])
  <2>1. ASSUME NEW x, NodeOver(DOMAIN m.objects, x) PROVE NodeOver(DOMAIN o, x)
    BY <1>2, <1>4, <1>5, <2>1 DEF NodeOver
  <2> QED
    BY <1>1, <1>2, <1>3, <1>4, <1>5, <2>1
<1>7. WithObjects(m, o) = Graph(o, m.root, m.next, m.sohm)
  BY GraphUpdates
<1>8. m.root \in DOMAIN o
  BY <1>1, <1>2, <1>4, <1>5
<1>9. WellFormed(WithObjects(m, o))
  BY <1>3, <1>6, <1>7, <1>8, GoodGraph
<1>10. WithObjects(m, o).objects = o /\ WithObjects(m, o).next = m.next
  BY <1>7, GraphFields
<1> QED
  BY <1>2, <1>3, <1>4, <1>5, <1>9, <1>10 DEF n, o

(* Another object in a slot of an arena.                                   *)
LEMMA ReplaceNode ==
    ASSUME NEW m, WellFormed(m), NEW id \in DOMAIN m.objects,
           NEW node, NodeOver(DOMAIN m.objects, node), NEW n
    PROVE  /\ WellFormed(WithObjects(m, Replaced(m.objects, id, node)))
           /\ WithObjects(m, Replaced(m.objects, id, node)).objects
              = Replaced(m.objects, id, node)
           /\ WithObjects(m, Replaced(m.objects, id, node)).next = m.next
           /\ WellFormed(WithLink(m, Replaced(m.objects, id, node), n))
           /\ Len(Replaced(m.objects, id, node)) = Len(m.objects)
           /\ DOMAIN Replaced(m.objects, id, node) = DOMAIN m.objects
           /\ \A k \in DOMAIN m.objects : k # id => Replaced(m.objects, id, node)[k] = m.objects[k]
<1> DEFINE o == Replaced(m.objects, id, node)
<1>1. /\ m.objects \in Seq(ToSet(m.objects)) /\ m.root \in DOMAIN m.objects
      /\ \A k \in DOMAIN m.objects : NodeOver(DOMAIN m.objects, m.objects[k])
  BY DEF WellFormed
<1>2. /\ o \in Seq(ToSet(o)) /\ Len(o) = Len(m.objects) /\ o[id] = node
      /\ \A k \in DOMAIN m.objects : k # id => o[k] = m.objects[k]
  BY <1>1, ExceptFacts DEF Replaced
<1>3. DOMAIN o = DOMAIN m.objects
  BY DEF Replaced
<1> HIDE DEF o
<1>4. \A k \in DOMAIN o : NodeOver(DOMAIN o, o[k])
  <2>1. ASSUME NEW k \in DOMAIN m.objects PROVE NodeOver(DOMAIN m.objects, o[k])
    BY <1>1, <1>2
  <2> QED
    BY <1>3, <2>1
<1>5. /\ WithObjects(m, o) = Graph(o, m.root, m.next, m.sohm)
      /\ WithLink(m, o, n) = Graph(o, m.root, n, m.sohm)
  BY GraphUpdates
<1>6. WellFormed(WithObjects(m, o)) /\ WellFormed(WithLink(m, o, n))
  BY <1>1, <1>2, <1>3, <1>4, <1>5, GoodGraph
<1>7. WithObjects(m, o).objects = o /\ WithObjects(m, o).next = m.next
  BY <1>5, GraphFields
<1> QED
  BY <1>2, <1>3, <1>6, <1>7 DEF o

-----------------------------------------------------------------------------
(* The reader *)

LEMMA StillReading ==
    ASSUME phase' = "read", WellFormed(model'), Reading' PROVE IInv'
  BY DEF IInv, RefusedIffObstructed

LEMMA InnermostReader ==
    ASSUME IInv, phase = "read", stack # <<>>
    PROVE  /\ Len(stack) \in Nat \ {0}
           /\ GoodReader(model.objects, Top)
<1>1. Len(stack) \in Nat \ {0}
  BY SequenceFacts, EmptySeq DEF IInv, Reading, GoodReaders
<1> QED
  BY <1>1 DEF IInv, Reading, GoodReaders, Top

(* A header that is met for the first time is given a slot of its own.     *)
LEMMA NewSlot ==
    ASSUME IInv, phase = "read", NEW x, x \notin DOMAIN memo,
           NEW node, NodeOver(DOMAIN model.objects, node),
           model' = Alloc(node), memo' = Memoized(x, Len(model.objects) + 1)
    PROVE  /\ WellFormed(model') /\ model'.next = model.next
           /\ Slots'
           /\ GoodReaders(model'.objects, stack)
           /\ Len(model.objects) + 1 \in DOMAIN model'.objects \ DOMAIN model.objects
           /\ model'.objects[Len(model.objects) + 1] = node
<1> DEFINE objects == model.objects
           new == Append(objects, node)
           n == Len(objects)
           done == DOMAIN memo
<1>1. /\ WellFormed(model) /\ GoodReaders(objects, stack)
      /\ IsFiniteSet(done) /\ n = 1 + Cardinality(done)
      /\ \A a \in done : memo[a] \in DOMAIN objects
      /\ \A a, b \in done : memo[a] = memo[b] => a = b
  BY DEF IInv, Reading, Slots, OneSlotEach
<1>2. model' = WithObjects(model, new)
  BY DEF Alloc, WithObjects
<1>3. /\ WellFormed(model') /\ model'.objects = new /\ model'.next = model.next
      /\ n \in Nat /\ Len(new) = n + 1 /\ DOMAIN new = DOMAIN objects \cup {n + 1}
      /\ n + 1 \notin DOMAIN objects /\ new[n + 1] = node
      /\ \A id \in DOMAIN objects : new[id] = objects[id]
  BY <1>1, <1>2, AppendNode
<1>4. /\ DOMAIN memo' = done \cup {x} /\ memo'[x] = n + 1
      /\ \A a \in done : memo'[a] = memo[a]
  BY DEF Memoized
<1> HIDE DEF new, n, done
<1>5. /\ IsFiniteSet(done \cup {x})
      /\ Cardinality(done \cup {x}) = Cardinality(done) + 1
  BY <1>1, FS_AddElement DEF done
<1>6. Cardinality(done) \in Nat
  BY <1>1, FS_CardinalityType
<1>7. Len(model'.objects) = 1 + Cardinality(DOMAIN memo')
  BY <1>1, <1>3, <1>4, <1>5, <1>6
<1>8. \A a, b \in DOMAIN memo' : memo'[a] = memo'[b] => a = b
  BY <1>1, <1>3, <1>4
<1>9. \A a \in DOMAIN memo' : memo'[a] \in DOMAIN model'.objects
  BY <1>1, <1>3, <1>4
<1>10. Slots'
  BY <1>4, <1>5, <1>7, <1>8, <1>9 DEF Slots, OneSlotEach
<1>11. ASSUME NEW f, GoodReader(objects, f) PROVE GoodReader(new, f)
  BY <1>3, <1>11 DEF GoodReader
<1>12. GoodReaders(new, stack)
  BY <1>1, <1>11 DEF GoodReaders
<1> QED
  BY <1>3, <1>10, <1>12 DEF n

LEMMA ReadDatasetStep == ASSUME IInv, ReadDataset PROVE IInv'
<1>1. /\ phase = "read" /\ phase' = "read" /\ ToRead \notin DOMAIN memo /\ stack' = stack
      /\ memo' = Memoized(ToRead, Len(model.objects) + 1)
  BY DEF ReadDataset
<1>2. PICK k, c : model' = Alloc(Node(k, c, <<>>, 0))
  <2>1. PICK msgs \in {MessagesToRead} :
          KindOf(msgs) # "Group" /\ model' = Alloc(IF DamagedItem \in Range(Items(msgs))
                         THEN [EmptyNode EXCEPT !.kind = "Unsupported"]
                         ELSE [EmptyNode EXCEPT !.kind = KindOf(msgs),
                                                !.content = ContentOf(image, msgs)])
    BY DEF ReadDataset
  <2> DEFINE k == KindOf(msgs)
             c == ContentOf(image, msgs)
             damaged == DamagedItem \in Range(Items(msgs))
  <2>2. model' = Alloc(IF damaged THEN AsKind(EmptyNode, "Unsupported")
                       ELSE AsData(EmptyNode, k, c))
    BY <2>1 DEF AsKind, AsData
  <2> HIDE DEF k, c, damaged
  <2>3. /\ AsKind(EmptyNode, "Unsupported") = Node("Unsupported", NoContent, <<>>, 0)
        /\ AsData(EmptyNode, k, c) = Node(k, c, <<>>, 0)
    BY EmptyNodeUpdates
  <2>4. CASE damaged
    BY <2>2, <2>3, <2>4
  <2>5. CASE ~damaged
    BY <2>2, <2>3, <2>5
  <2> QED
    BY <2>4, <2>5
<1>3. NodeOver(DOMAIN model.objects, Node(k, c, <<>>, 0))
  BY NoLinks
<1>4. /\ WellFormed(model') /\ model'.next = model.next /\ Slots'
      /\ GoodReaders(model'.objects, stack)
  BY <1>1, <1>2, <1>3, NewSlot
<1>5. Reading'
  BY <1>1, <1>4 DEF IInv, Reading
<1> QED
  BY <1>1, <1>4, <1>5, StillReading

LEMMA NewReader ==
    ASSUME NEW objects, NEW msgs, NEW slot, slot \in DOMAIN objects,
           slot = Len(model.objects) + 1, objects[slot] = EmptyNode
    PROVE  GoodReader(objects, ReaderFrame(msgs)) /\ ReaderFrame(msgs).slot = slot
<1> DEFINE todo == Items(msgs)
           content == IF DamagedItem \in Range(todo) THEN NoContent ELSE ContentOf(image, msgs)
           drawn == OfType(msgs, "SymbolTable") # <<>>
           dense == DenseRecords(image, BodyOf(msgs, "LinkInfo")) # <<>>
           f == ReaderFrame(msgs)
<1>1. f = [slot |-> slot, todo |-> todo, links |-> <<>>, content |-> content,
           drawn |-> drawn, dense |-> dense]
  BY DEF ReaderFrame, Of
<1> HIDE DEF todo, content, drawn, dense, f
<1>2. /\ f = [slot |-> f.slot, todo |-> f.todo, links |-> f.links, content |-> f.content,
              drawn |-> f.drawn, dense |-> f.dense]
      /\ f.slot = slot /\ f.links = <<>>
  BY <1>1
<1>3. <<>> \in Seq(ToSet(<<>>)) /\ ToSet(<<>>) = {}
  BY EmptySeq DEF ToSet
<1>4. HardIn(<<>>) = {}
  BY <1>3 DEF HardIn
<1> QED
  BY <1>2, <1>3, <1>4 DEF GoodReader, f

LEMMA EnterHeaderStep == ASSUME IInv, EnterHeader PROVE IInv'
<1> DEFINE n == Len(stack)
           slot == Len(model.objects) + 1
<1>1. /\ phase = "read" /\ phase' = "read" /\ ToRead \notin DOMAIN memo
      /\ memo' = Memoized(ToRead, Len(model.objects) + 1) /\ model' = Alloc(EmptyNode)
  BY DEF EnterHeader
<1>2. PICK msgs : stack' = Append(stack, ReaderFrame(msgs))
  BY DEF EnterHeader
<1>3. NodeOver(DOMAIN model.objects, EmptyNode)
  BY EmptyNodeGood
<1>4. /\ WellFormed(model') /\ model'.next = model.next /\ Slots'
      /\ GoodReaders(model'.objects, stack)
      /\ slot \in DOMAIN model'.objects \ DOMAIN model.objects
      /\ model'.objects[slot] = EmptyNode
  BY <1>1, <1>3, NewSlot
<1> DEFINE f == ReaderFrame(msgs)
<1>5. GoodReader(model'.objects, f) /\ f.slot = slot
  BY <1>4, NewReader
<1>6. GoodReaders(model.objects, stack)
  BY <1>1 DEF IInv, Reading
<1>7. stack \in Seq(ToSet(stack)) /\ n \in Nat
  BY <1>6, SequenceFacts DEF GoodReaders
<1>8. \A k \in 1..n : stack[k].slot \in DOMAIN model.objects
  BY <1>6 DEF GoodReaders, GoodReader
<1> HIDE DEF f
<1>9. /\ stack' \in Seq(ToSet(stack')) /\ Len(stack') = n + 1 /\ stack'[n + 1] = f
      /\ \A k \in 1..n : stack'[k] = stack[k]
  BY <1>2, <1>7, AppendFacts DEF f
<1> HIDE DEF slot, n
<1>10. \A k \in 1..n + 1 : k \in 1..n \/ k = n + 1
  BY <1>7
<1>11. \A k \in 1..n + 1 : GoodReader(model'.objects, stack'[k])
  BY <1>4, <1>5, <1>9, <1>10 DEF GoodReaders, n
<1>12. \A j, k \in 1..n + 1 : stack'[j].slot = stack'[k].slot => j = k
  <2> SUFFICES ASSUME NEW j \in 1..n + 1, NEW k \in 1..n + 1, stack'[j].slot = stack'[k].slot
               PROVE  j = k
    OBVIOUS
  <2>1. \A i \in 1..n : stack'[i].slot \in DOMAIN model.objects
    BY <1>8, <1>9
  <2>2. stack'[n + 1].slot \notin DOMAIN model.objects
    BY <1>4, <1>5, <1>9
  <2>3. CASE j \in 1..n /\ k \in 1..n
    BY <1>6, <1>9, <2>3 DEF GoodReaders, n
  <2> QED
    BY <1>10, <2>1, <2>2, <2>3
<1>13. GoodReaders(model'.objects, stack')
  BY <1>9, <1>11, <1>12 DEF GoodReaders
<1>14. Reading'
  BY <1>1, <1>4, <1>13 DEF IInv, Reading
<1> QED
  BY <1>1, <1>4, <1>14, StillReading

(* The group around the innermost one goes on, when the slot of that one   *)
(* is filled.                                                              *)
LEMMA PopReader ==
    ASSUME NEW objects, NEW s, GoodReaders(objects, s), s # <<>>,
           NEW new, DOMAIN new = DOMAIN objects,
           \A id \in DOMAIN objects : id # s[Len(s)].slot => new[id] = objects[id]
    PROVE  GoodReaders(new, SubSeq(s, 1, Len(s) - 1))
<1> DEFINE n == Len(s)
           p == SubSeq(s, 1, Len(s) - 1)
<1>1. p = Front(s)
  BY DEF Front
<1>2. /\ n \in Nat \ {0} /\ p \in Seq(ToSet(p)) /\ Len(p) = n - 1
      /\ \A i \in 1..n - 1 : p[i] = s[i]
  BY <1>1, FrontFacts DEF GoodReaders
<1> HIDE DEF p, n
<1>3. n \in 1..n /\ \A k \in 1..n - 1 : k \in 1..n /\ k # n
  BY <1>2
<1>4. ASSUME NEW k \in 1..n - 1 PROVE GoodReader(new, p[k])
  <2>1. GoodReader(objects, s[k]) /\ s[k].slot # s[n].slot
    BY <1>3 DEF GoodReaders, n
  <2>2. new[s[k].slot] = objects[s[k].slot]
    BY <2>1 DEF GoodReader, n
  <2>3. GoodReader(new, s[k])
    BY <2>1, <2>2 DEF GoodReader
  <2> QED
    BY <1>2, <2>3
<1>5. \A j, k \in 1..n - 1 : p[j].slot = p[k].slot => j = k
  BY <1>2, <1>3 DEF GoodReaders, n
<1>6. GoodReaders(new, p)
  BY <1>2, <1>4, <1>5 DEF GoodReaders
<1> QED
  BY <1>6 DEF p

(* A slot is filled.                                                       *)
LEMMA FilledSlot ==
    ASSUME IInv, phase = "read", stack # <<>>, phase' = "read", stack' = Pop, memo' = memo,
           NEW node, NodeOver(DOMAIN model.objects, node),
           model' = WithObjects(model, Replaced(model.objects, Top.slot, node))
    PROVE  IInv'
<1> DEFINE objects == model.objects
           new == Replaced(objects, Top.slot, node)
<1>1. WellFormed(model) /\ Slots /\ model.next \in Int /\ GoodReaders(objects, stack)
  BY DEF IInv, Reading
<1>2. Top.slot \in DOMAIN objects
  BY InnermostReader DEF GoodReader
<1>3. /\ WellFormed(model') /\ model'.objects = new /\ model'.next = model.next
      /\ Len(new) = Len(objects) /\ DOMAIN new = DOMAIN objects
      /\ \A k \in DOMAIN objects : k # Top.slot => new[k] = objects[k]
  BY <1>1, <1>2, ReplaceNode
<1> HIDE DEF new
<1>4. Slots'
  BY <1>1, <1>3 DEF Slots, OneSlotEach
<1>5. GoodReaders(new, stack')
  BY <1>1, <1>3, PopReader DEF Pop, Top
<1>6. Reading'
  BY <1>1, <1>3, <1>4, <1>5 DEF Reading
<1> QED
  BY <1>3, <1>6, StillReading

LEMMA ReadDamagedStep == ASSUME IInv, ReadDamaged PROVE IInv'
<1> DEFINE node == AsKind(model.objects[Top.slot], "Unsupported")
<1>1. /\ phase = "read" /\ phase' = "read" /\ stack # <<>> /\ stack' = Pop /\ memo' = memo
  BY DEF ReadDamaged
<1>2. model' = WithObjects(model, Replaced(model.objects, Top.slot, node))
  BY DEF ReadDamaged, WithObjects, Replaced, AsKind
<1>3. model.objects[Top.slot] = EmptyNode
  BY <1>1, InnermostReader DEF GoodReader
<1>4. node = Node("Unsupported", NoContent, <<>>, 0)
  BY <1>3, EmptyNodeUpdates
<1>5. NodeOver(DOMAIN model.objects, node)
  BY <1>4, NoLinks
<1> HIDE DEF node
<1> QED
  BY <1>1, <1>2, <1>5, FilledSlot

LEMMA LeaveHeaderStep == ASSUME IInv, LeaveHeader PROVE IInv'
<1> DEFINE links == IF Top.dense THEN ByOrder(Top.links) ELSE Top.links
           content == Top.content
           node == AsGroup(model.objects[Top.slot], content, links)
<1>1. /\ phase = "read" /\ phase' = "read" /\ stack # <<>> /\ stack' = Pop /\ memo' = memo
  BY DEF LeaveHeader
<1>2. model' = WithObjects(model, Replaced(model.objects, Top.slot, node))
  BY DEF LeaveHeader, WithObjects, Replaced, AsGroup
<1>3. GoodReader(model.objects, Top)
  BY <1>1, InnermostReader
<1>4. links \in Seq(ToSet(links)) /\ ToSet(links) = ToSet(Top.links)
  <2> DEFINE key == [i \in DOMAIN Top.links |-> Top.links[i].order]
  <2>1. Top.links \in Seq(ToSet(Top.links)) /\ \A i \in DOMAIN Top.links : key[i] \in Int
    BY <1>3 DEF GoodReader, ToSet
  <2>2. ByOrder(Top.links) = StableSort(Top.links, key)
    BY DEF ByOrder
  <2> HIDE DEF key
  <2>3. /\ StableSort(Top.links, key) \in Seq(ToSet(StableSort(Top.links, key)))
        /\ ToSet(StableSort(Top.links, key)) = ToSet(Top.links)
    BY <2>1, StableSortPermutes
  <2> QED
    BY <2>1, <2>2, <2>3
<1> HIDE DEF links, content
<1>5. node = Node("Group", content, links, 0)
  BY <1>3, EmptyNodeUpdates DEF GoodReader
<1>6. HardIn(links) = HardIn(Top.links)
  BY <1>4 DEF HardIn
<1>7. NodeOver(DOMAIN model.objects, node)
  BY <1>3, <1>4, <1>5, <1>6, GoodNode DEF GoodReader
<1> HIDE DEF node
<1> QED
  BY <1>1, <1>2, <1>7, FilledSlot

ReaderRecord(f) ==
    f = [slot |-> f.slot, todo |-> f.todo, links |-> f.links, content |-> f.content,
         drawn |-> f.drawn, dense |-> f.dense]
LinkRead(f, todo, links) == [f EXCEPT !.todo = todo, !.links = links]

LEMMA ReaderUpdate ==
    ASSUME NEW t, ReaderRecord(t), NEW a, NEW b
    PROVE  ReaderRecord(LinkRead(t, a, b)) /\ LinkRead(t, a, b).slot = t.slot
           /\ LinkRead(t, a, b).links = b
<1> DEFINE slot == t.slot
           todo == t.todo
           links == t.links
           content == t.content
           drawn == t.drawn
           dense == t.dense
           u == [t EXCEPT !.todo = a]
           v == [u EXCEPT !.links = b]
<1>1. t = [slot |-> slot, todo |-> todo, links |-> links, content |-> content,
           drawn |-> drawn, dense |-> dense]
  BY DEF ReaderRecord
<1> HIDE DEF slot, todo, links, content, drawn, dense
<1>2. u = [slot |-> slot, todo |-> a, links |-> links, content |-> content,
           drawn |-> drawn, dense |-> dense]
  BY <1>1
<1> HIDE DEF u
<1>3. v = [slot |-> slot, todo |-> a, links |-> b, content |-> content,
           drawn |-> drawn, dense |-> dense]
  BY <1>2
<1> HIDE DEF v
<1>4. ReaderRecord(v) /\ v.slot = slot /\ v.links = b
  BY <1>3 DEF ReaderRecord
<1> QED
  BY <1>4 DEF u, v, slot, LinkRead

LEMMA ReaderOnTop ==
    ASSUME NEW objects, NEW s, GoodReaders(objects, s), s # <<>>,
           NEW f, GoodReader(objects, f), f.slot = s[Len(s)].slot
    PROVE  GoodReaders(objects, [s EXCEPT ![Len(s)] = f])
<1> DEFINE n == Len(s)
           a == [s EXCEPT ![n] = f]
<1>1. s \in Seq(ToSet(s)) /\ n \in Nat \ {0} /\ DOMAIN s = 1..n /\ n \in DOMAIN s
  BY SequenceFacts, EmptySeq DEF GoodReaders
<1>2. a \in Seq(ToSet(a)) /\ Len(a) = n /\ a[n] = f /\ \A k \in 1..n : k # n => a[k] = s[k]
  BY <1>1, ExceptFacts
<1> HIDE DEF a, n
<1>3. \A k \in 1..n : a[k].slot = s[k].slot
  BY <1>2 DEF n
<1>4. \A k \in 1..n : GoodReader(objects, a[k])
  BY <1>2 DEF GoodReaders, n
<1>5. GoodReaders(objects, a)
  BY <1>2, <1>3, <1>4 DEF GoodReaders, n
<1> QED
  BY <1>5 DEF a, n

LEMMA ReadLinkStep == ASSUME IInv, ReadLink PROVE IInv'
<1> DEFINE objects == model.objects
           top == Top
           item == Head(top.todo)
           order == IF top.drawn THEN model.next
                    ELSE IF item.order = Untracked THEN 0 ELSE item.order
           link == [name |-> item.name, kind |-> item.kind,
                    to |-> IF item.kind = "Hard" THEN memo[item.to] ELSE item.to,
                    order |-> order]
           links == IF item.kind = "Unknown" THEN top.links ELSE Append(top.links, link)
           f == LinkRead(top, Tail(top.todo), links)
<1>1. /\ phase = "read" /\ phase' = "read" /\ stack # <<>> /\ memo' = memo
      /\ item.kind = "Hard" => item.to \in DOMAIN memo
      /\ item.name \in String /\ item.order \in Int
  BY DEF ReadLink
<1>2. stack' = OnTop(f)
  BY DEF ReadLink, LinkRead
<1>3. model' = IF top.drawn THEN WithNext(model, model.next + 1) ELSE model
  BY DEF ReadLink, WithNext
<1>4. /\ WellFormed(model) /\ Slots /\ model.next \in Int /\ GoodReaders(objects, stack)
  BY <1>1 DEF IInv, Reading
<1>5. GoodReader(objects, top)
  BY <1>1, InnermostReader
<1>6. order \in Int
  BY <1>1, <1>4
<1> HIDE DEF order, top
<1>7. /\ link.name \in String /\ link.order \in Int
      /\ link.kind = "Hard" => link.to \in DOMAIN objects
  BY <1>1, <1>4, <1>6 DEF Slots
<1> HIDE DEF link
<1>8. /\ links \in Seq(ToSet(links)) /\ ToSet(links) \subseteq ToSet(top.links) \cup {link}
  <2> DEFINE longer == Append(top.links, link)
  <2>1. top.links \in Seq(ToSet(top.links))
    BY <1>5 DEF GoodReader
  <2>2. longer \in Seq(ToSet(longer)) /\ ToSet(longer) = ToSet(top.links) \cup {link}
    BY <2>1, AppendFacts
  <2> HIDE DEF longer
  <2>3. links = top.links \/ links = longer
    BY DEF longer
  <2> HIDE DEF links
  <2> QED
    BY <2>1, <2>2, <2>3
<1> HIDE DEF links
<1>9. /\ \A l \in ToSet(links) : l.name \in String /\ l.order \in Int
      /\ HardIn(links) \subseteq DOMAIN objects
  BY <1>5, <1>7, <1>8 DEF GoodReader, HardIn
<1>10. ReaderRecord(top)
  BY <1>5 DEF GoodReader, ReaderRecord
<1>11. ReaderRecord(f) /\ f.slot = top.slot /\ f.links = links
  BY <1>10, ReaderUpdate
<1> HIDE DEF f
<1>12. GoodReader(objects, f)
  BY <1>5, <1>8, <1>9, <1>11 DEF GoodReader, ReaderRecord
<1>13. GoodReaders(objects, stack')
  BY <1>1, <1>2, <1>4, <1>11, <1>12, ReaderOnTop DEF OnTop, Top, top
<1>14. WellFormed(model') /\ model'.objects = objects /\ model'.next \in Int
  <2>1. CASE top.drawn
    <3> DEFINE g == Graph(objects, model.root, model.next + 1, model.sohm)
    <3>1. model' = g
      BY <1>3, <1>4, <2>1, GraphUpdates
    <3>2. WellFormed(g)
      BY <1>4, GoodGraph DEF WellFormed
    <3>3. g.objects = objects /\ g.next = model.next + 1
      BY GraphFields
    <3> QED
      BY <1>4, <3>1, <3>2, <3>3
  <2>2. CASE ~top.drawn
    BY <1>3, <1>4, <2>2
  <2> QED
    BY <2>1, <2>2
<1>15. Slots'
  BY <1>1, <1>4, <1>14 DEF Slots, OneSlotEach
<1>16. Reading'
  BY <1>13, <1>14, <1>15 DEF Reading
<1> QED
  BY <1>1, <1>14, <1>16, StillReading

(* An opening begins with the slot of the root of an empty file.           *)
LEMMA OpenStep == ASSUME IInv, Open PROVE IInv'
<1> DEFINE o == <<EmptyNode>>
<1>1. /\ phase' = "read" /\ model' = Graph(o, 1, 0, <<>>)
      /\ stack' = <<>> /\ memo' = NoMemo
  BY DEF Open, Graph
<1>2. DOMAIN memo' = {}
  BY <1>1 DEF NoMemo
<1>3. o \in Seq({EmptyNode}) /\ Len(o) = 1 /\ o[1] = EmptyNode
  OBVIOUS
<1> HIDE DEF o
<1>4. o \in Seq(ToSet(o)) /\ DOMAIN o = 1..1
  BY <1>3, OwnElements
<1>5. \A id \in DOMAIN o : NodeOver(DOMAIN o, o[id])
  BY <1>3, <1>4, EmptyNodeGood
<1>6. WellFormed(model') /\ model'.objects = o /\ model'.next = 0
  BY <1>1, <1>4, <1>5, GoodGraph, GraphFields
<1>7. Slots'
  BY <1>2, <1>3, <1>6, FS_EmptySet DEF Slots, OneSlotEach
<1>8. stack' \in Seq(ToSet(stack')) /\ Len(stack') = 0
  BY <1>1, EmptySeq
<1>9. GoodReaders(o, stack')
  BY <1>8 DEF GoodReaders
<1>10. Reading'
  BY <1>6, <1>7, <1>9 DEF Reading
<1> QED
  BY <1>1, <1>6, <1>10, StillReading

(* A count for every object makes no other graph of it.                    *)
LEMMA OpenedStep == ASSUME IInv, Opened PROVE IInv'
<1> DEFINE objects == model.objects
           root == memo[super.oh]
           count == [id \in DOMAIN objects |-> Cardinality(LinksTo(objects, id))
                                               + IF id = root THEN 1 ELSE 0]
           new == [id \in DOMAIN objects |-> Counted(objects[id], count[id])]
<1>1. /\ phase = "read" /\ phase' = "model" /\ super.oh \in DOMAIN memo
  BY DEF Opened
<1>2. Recounted(objects, root) = new
  BY DEF Recounted, Counted
<1>3. model' = WithRoot(model, root, Recounted(objects, root))
  BY DEF Opened, WithRoot
<1>4. WellFormed(model) /\ root \in DOMAIN objects
  BY <1>1 DEF IInv, Reading, Slots
<1>5. /\ DOMAIN objects = 1..Len(objects) /\ Len(objects) \in Nat
      /\ \A id \in DOMAIN objects : NodeOver(DOMAIN objects, objects[id])
  BY <1>4, ArenaFacts
<1> HIDE DEF root, count
<1>6. DOMAIN new = DOMAIN objects
  OBVIOUS
<1>7. ASSUME NEW id \in DOMAIN objects PROVE NodeOver(DOMAIN objects, new[id])
  <2> DEFINE node == objects[id]
  <2>1. NodeOver(DOMAIN objects, node)
    BY <1>5
  <2>2. new[id] = Counted(node, count[id])
    OBVIOUS
  <2> HIDE DEF node, new
  <2>3. Counted(node, count[id]) = Node(node.kind, node.content, node.links, count[id])
    BY <2>1, NodeUpdates
  <2>4. HardTargets(node) = HardIn(node.links)
    BY HardTargetsIn
  <2>5. /\ node.links \in Seq(ToSet(node.links)) /\ \A l \in ToSet(node.links) : l.name \in String
        /\ HardIn(node.links) \subseteq DOMAIN objects
        /\ node.kind # "Group" => node.links = <<>>
    BY <2>1, <2>4 DEF NodeOver
  <2>6. NodeOver(DOMAIN objects, Node(node.kind, node.content, node.links, count[id]))
    BY <2>5, GoodNode
  <2> QED
    BY <2>2, <2>3, <2>6
<1>8. new \in Seq(ToSet(new))
  <2>1. \A id \in 1..Len(objects) : new[id] \in ToSet(new)
    BY <1>5, <1>6 DEF ToSet
  <2>2. new = [id \in 1..Len(objects) |-> new[id]]
    BY <1>5
  <2> HIDE DEF new
  <2> QED
    BY <1>5, <2>1, <2>2
<1> HIDE DEF new
<1>9. WithRoot(model, root, new) = Graph(new, root, model.next, model.sohm)
  BY <1>4, GraphUpdates
<1>10. WellFormed(Graph(new, root, model.next, model.sohm))
  BY <1>4, <1>6, <1>7, <1>8, GoodGraph
<1>11. WellFormed(model')
  BY <1>2, <1>3, <1>9, <1>10
<1> QED
  BY <1>1, <1>11 DEF IInv, RefusedIffObstructed

(* A soft link leads to no object.                                         *)
LEMMA AddLinkStep == ASSUME IInv, AddLink PROVE IInv'
<1> DEFINE objects == model.objects
           old == objects[model.root]
           link == [name |-> NewName, kind |-> "Soft", to |-> SoftTarget, order |-> model.next]
           links == Append(old.links, link)
           node == WithLinks(old, links)
           n == model.next + 1
<1>1. phase = "model" /\ phase' = "edited" /\ old.kind = "Group"
  BY DEF AddLink
<1>2. model' = WithLink(model, Replaced(objects, model.root, node), n)
  BY DEF AddLink, WithLink, Replaced, WithLinks
<1>3. WellFormed(model)
  BY <1>1 DEF IInv
<1>4. model.root \in DOMAIN objects /\ NodeOver(DOMAIN objects, old)
  BY <1>3, ArenaFacts
<1>5. link.name \in String /\ link.kind # "Hard"
  BY GraphAssumption
<1> HIDE DEF link, old
<1>6. links \in Seq(ToSet(links)) /\ ToSet(links) = ToSet(old.links) \cup {link}
  BY <1>4, AppendFacts DEF NodeOver
<1> HIDE DEF links
<1>7. /\ \A l \in ToSet(links) : l.name \in String
      /\ HardIn(links) = HardIn(old.links)
  BY <1>4, <1>5, <1>6 DEF NodeOver, HardIn
<1>8. node = Node(old.kind, old.content, links, old.refcount)
  BY <1>4, NodeUpdates
<1>9. HardTargets(old) = HardIn(old.links)
  BY HardTargetsIn
<1>10. NodeOver(DOMAIN objects, node)
  <2>1. HardIn(links) \subseteq DOMAIN objects /\ old.kind = "Group"
    BY <1>1, <1>4, <1>7, <1>9 DEF NodeOver, old
  <2>2. NodeOver(DOMAIN objects, Node(old.kind, old.content, links, old.refcount))
    BY <1>6, <1>7, <2>1, GoodNode
  <2> QED
    BY <1>8, <2>2
<1> HIDE DEF node, n
<1>11. WellFormed(model')
  BY <1>2, <1>3, <1>4, <1>10, ReplaceNode
<1> QED
  BY <1>1, <1>11 DEF IInv, RefusedIffObstructed

-----------------------------------------------------------------------------
LEMMA InitIInv == Init => IInv
<1>1. ASSUME InitModel, Init PROVE IInv
  <2>1. phase = "model" /\ WellFormed(model)
    BY <1>1, GraphAssumption DEF InitModel
  <2> QED
    BY <2>1 DEF IInv, RefusedIffObstructed
<1>2. ASSUME InitForeign, Init PROVE IInv
  <2>1. phase = "image" /\ saves = 0
    BY <1>2 DEF InitForeign, Init
  <2> QED
    BY <2>1 DEF IInv, RefusedIffObstructed
<1> QED
  BY <1>1, <1>2 DEF Init

LEMMA NextIInv == IInv /\ [Next]_vars => IInv'
<1> SUFFICES ASSUME IInv, [Next]_vars PROVE IInv'
  OBVIOUS
<1>1. CASE Save
  BY <1>1, SaveStep
<1>2. CASE Serialize
  BY <1>2, RefuseStep, WriteDatasetStep, EnterGroupStep, WriteLinkStep, WriteLeavesStep,
     WriteLevelStep, WriteHeaderStep, WriteSuperblockStep DEF Serialize
<1>3. CASE Open
  BY <1>3, OpenStep
<1>4. CASE Parse
  BY <1>4, ReadDatasetStep, EnterHeaderStep, ReadLinkStep, ReadDamagedStep, LeaveHeaderStep,
     OpenedStep DEF Parse
<1>5. CASE AddLink
  BY <1>5, AddLinkStep
<1>6. CASE UNCHANGED vars
  BY <1>6 DEF vars, IInv, Writing, Reading, Slots, OneSlotEach, RefusedIffObstructed
<1> QED
  BY <1>1, <1>2, <1>3, <1>4, <1>5, <1>6 DEF Next

(* What is known of the two recursions holds of all executions.            *)
THEOREM Invariance == Spec => []IInv
  BY InitIInv, NextIInv, PTL DEF Spec

(* For every graph, as far as its links and headers go: a save is refused  *)
(* only if the paths from the root have a cycle, lead to an object that    *)
(* could not be read or to one whose header or links are too large, or if  *)
(* the shared messages are too many; and an image is written only if they  *)
(* do none of these, though what Writer::write_object has is the groups it *)
(* is within and the references of what is written.                        *)
THEOREM RefusalsAreRight == Spec => []RefusedIffObstructed
<1>1. IInv => RefusedIffObstructed
  BY DEF IInv
<1> QED
  BY <1>1, Invariance, PTL

(* For every image, what other programs wrote included: while it is read   *)
(* the arena has one slot for every address Parser::parse_object was       *)
(* called for, however many links lead there, besides the first slot.      *)
THEOREM OneSlotPerHeader == Spec => [](phase = "read" => OneSlotEach)
<1>1. IInv => (phase = "read" => OneSlotEach)
  BY DEF IInv, Reading, Slots
<1> QED
  BY <1>1, Invariance, PTL

(* Between the calls the arena is one that can be saved: every hard link   *)
(* leads to a slot, the links of a group are a sequence, and only groups   *)
(* have any, whatever the image was that the arena was read from.          *)
THEOREM ArenaStaysWellFormed == Spec => [](phase # "image" => WellFormed(model))
<1>1. IInv => (phase # "image" => WellFormed(model))
  BY DEF IInv
<1> QED
  BY <1>1, Invariance, PTL
=============================================================================
