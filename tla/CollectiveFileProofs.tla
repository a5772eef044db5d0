------------------------ MODULE CollectiveFileProofs ------------------------
(***************************************************************************)
(* Proofs about CollectiveFile, for any number of ranks, any scripts and   *)
(* any failures: who writes the physical file; and that the collective     *)
(* calls are collective, that is nobody leaves a synchronizing call before *)
(* all have entered it, what a call returns was given to that very call,   *)
(* and all ranks open the same bytes.                                      *)
(*                                                                         *)
(* The streams carry no call numbers.  What keeps the calls apart is that  *)
(* the plans of a call on rank 0 and on another rank mirror each other: as *)
(* many frames are sent as received, in each direction.  So the number of  *)
(* a frame on its stream tells the call it belongs to.                     *)
(***************************************************************************)
EXTENDS CollectiveFile, BasicFacts, SequenceTheorems, FiniteSetTheorems, FunctionTheorems, TLAPS

-----------------------------------------------------------------------------
(* The plans of the calls, written out, and who writes the file. *)

What == {"nothing", "own", "all", "received"}
LocalName == Call \cup {"load", "attach", "merge", "detach", "save", "seal", "drop"}
(* Only rank 0 merges. *)
LeafItem ==
    {Send(0, w) : w \in What} \cup {Recv(0), Drain(0)}
    \cup {Local(w) : w \in LocalName \ {"merge"}}

-----------------------------------------------------------------------------
(* Short tuples, joined. *)
LEMMA Tuples ==
    /\ \A a, b : <<a>> \o <<b>> = <<a, b>>
    /\ \A a, b, c : <<a, b>> \o <<c>> = <<a, b, c>>
    /\ \A a, b, c, d : <<a, b>> \o <<c, d>> = <<a, b, c, d>>
    /\ \A a, b, c, d, e : <<a, b, c>> \o <<d, e>> = <<a, b, c, d, e>>
    /\ \A a, b, c, d, e, f : <<a, b, c, d, e>> \o <<f>> = <<a, b, c, d, e, f>>
    /\ \A a, b, c, d, e, f : <<a, b, c, d>> \o <<e, f>> = <<a, b, c, d, e, f>>
    /\ \A a : <<a>> \o <<>> = <<a>> /\ <<>> \o <<a>> = <<a>>
<1>1. ASSUME NEW a, NEW b PROVE <<a>> \o <<b>> = <<a, b>>
  <2> DEFINE S == {a, b}
             s1 == <<a>>
             s2 == <<b>>
             t == s1 \o s2
             u == <<a, b>>
  <2>1. s1 \in Seq(S) /\ s2 \in Seq(S) /\ u \in Seq(S) /\ Len(u) = 2
    OBVIOUS
  <2>2. t \in Seq(S) /\ Len(t) = 2
    BY <2>1, ConcatProperties
  <2>3. t[1] = a /\ t[2] = b
    BY <2>1, ConcatProperties
  <2> HIDE DEF t
  <2>4. \A i \in 1..Len(t) : t[i] = u[i]
    BY <2>2, <2>3
  <2> HIDE DEF S, u
  <2>5. t = u
    BY <2>1, <2>2, <2>4, SeqEqual
  <2> QED
    BY <2>5, Zenon DEF t, u
<1>2. ASSUME NEW a, NEW b, NEW c PROVE <<a, b>> \o <<c>> = <<a, b, c>>
  <2> DEFINE S == {a, b, c}
             s1 == <<a, b>>
             s2 == <<c>>
             t == s1 \o s2
             u == <<a, b, c>>
  <2>1. s1 \in Seq(S) /\ s2 \in Seq(S) /\ u \in Seq(S) /\ Len(u) = 3
    OBVIOUS
  <2>2. t \in Seq(S) /\ Len(t) = 3
    BY <2>1, ConcatProperties
  <2>3. t[1] = a /\ t[2] = b /\ t[3] = c
    BY <2>1, ConcatProperties
  <2> HIDE DEF t
  <2>4. \A i \in 1..Len(t) : t[i] = u[i]
    BY <2>2, <2>3
  <2> HIDE DEF S, u
  <2>5. t = u
    BY <2>1, <2>2, <2>4, SeqEqual
  <2> QED
    BY <2>5, Zenon DEF t, u
<1>3. ASSUME NEW a, NEW b, NEW c, NEW d PROVE <<a, b>> \o <<c, d>> = <<a, b, c, d>>
  <2> DEFINE S == {a, b, c, d}
             s1 == <<a, b>>
             s2 == <<c, d>>
             t == s1 \o s2
             u == <<a, b, c, d>>
  <2>1. s1 \in Seq(S) /\ s2 \in Seq(S) /\ u \in Seq(S) /\ Len(u) = 4
    OBVIOUS
  <2>2. t \in Seq(S) /\ Len(t) = 4
    BY <2>1, ConcatProperties
  <2>3. t[1] = a /\ t[2] = b /\ t[3] = c /\ t[4] = d
    BY <2>1, ConcatProperties
  <2> HIDE DEF t
  <2>4. \A i \in 1..Len(t) : t[i] = u[i]
    BY <2>2, <2>3
  <2> HIDE DEF S, u
  <2>5. t = u
    BY <2>1, <2>2, <2>4, SeqEqual
  <2> QED
    BY <2>5, Zenon DEF t, u
<1>4. ASSUME NEW a, NEW b, NEW c, NEW d, NEW e PROVE <<a, b, c>> \o <<d, e>> = <<a, b, c, d, e>>
  <2> DEFINE S == {a, b, c, d, e}
             s1 == <<a, b, c>>
             s2 == <<d, e>>
             t == s1 \o s2
             u == <<a, b, c, d, e>>
  <2>1. s1 \in Seq(S) /\ s2 \in Seq(S) /\ u \in Seq(S) /\ Len(u) = 5
    OBVIOUS
  <2>2. t \in Seq(S) /\ Len(t) = 5
    BY <2>1, ConcatProperties
  <2>3. t[1] = a /\ t[2] = b /\ t[3] = c /\ t[4] = d /\ t[5] = e
    BY <2>1, ConcatProperties
  <2> HIDE DEF t
  <2>4. \A i \in 1..Len(t) : t[i] = u[i]
    BY <2>2, <2>3
  <2> HIDE DEF S, u
  <2>5. t = u
    BY <2>1, <2>2, <2>4, SeqEqual
  <2> QED
    BY <2>5, Zenon DEF t, u
<1>5. ASSUME NEW a, NEW b, NEW c, NEW d, NEW e, NEW f
      PROVE  <<a, b, c, d, e>> \o <<f>> = <<a, b, c, d, e, f>>
  <2> DEFINE S == {a, b, c, d, e, f}
             s1 == <<a, b, c, d, e>>
             s2 == <<f>>
             t == s1 \o s2
             u == <<a, b, c, d, e, f>>
  <2>1. s1 \in Seq(S) /\ s2 \in Seq(S) /\ u \in Seq(S) /\ Len(u) = 6
    OBVIOUS
  <2>2. t \in Seq(S) /\ Len(t) = 6
    BY <2>1, ConcatProperties
  <2>3. t[1] = a /\ t[2] = b /\ t[3] = c /\ t[4] = d /\ t[5] = e /\ t[6] = f
    BY <2>1, ConcatProperties
  <2> HIDE DEF t
  <2>4. \A i \in 1..Len(t) : t[i] = u[i]
    BY <2>2, <2>3
  <2> HIDE DEF S, u
  <2>5. t = u
    BY <2>1, <2>2, <2>4, SeqEqual
  <2> QED
    BY <2>5, Zenon DEF t, u
<1>6. ASSUME NEW a, NEW b, NEW c, NEW d, NEW e, NEW f
      PROVE  <<a, b, c, d>> \o <<e, f>> = <<a, b, c, d, e, f>>
  <2> DEFINE S == {a, b, c, d, e, f}
             s1 == <<a, b, c, d>>
             s2 == <<e, f>>
             t == s1 \o s2
             u == <<a, b, c, d, e, f>>
  <2>1. s1 \in Seq(S) /\ s2 \in Seq(S) /\ u \in Seq(S) /\ Len(u) = 6
    OBVIOUS
  <2>2. t \in Seq(S) /\ Len(t) = 6
    BY <2>1, ConcatProperties
  <2>3. t[1] = a /\ t[2] = b /\ t[3] = c /\ t[4] = d /\ t[5] = e /\ t[6] = f
    BY <2>1, ConcatProperties
  <2> HIDE DEF t
  <2>4. \A i \in 1..Len(t) : t[i] = u[i]
    BY <2>2, <2>3
  <2> HIDE DEF S, u
  <2>5. t = u
    BY <2>1, <2>2, <2>4, SeqEqual
  <2> QED
    BY <2>5, Zenon DEF t, u
<1>7. ASSUME NEW a PROVE <<a>> \o <<>> = <<a>> /\ <<>> \o <<a>> = <<a>>
  <2>1. <<a>> \in Seq({a})
    OBVIOUS
  <2> QED
    BY <2>1, ConcatEmptySeq
<1> QED
  BY <1>1, <1>2, <1>3, <1>4, <1>5, <1>6, <1>7

-----------------------------------------------------------------------------
(* The plans of a rank other than 0, item by item. *)

LEMMA LeafBarrier ==
    ASSUME NEW r \in Leaf
    PROVE  /\ Barrier(r) = <<Send(0, "nothing"), Recv(0)>>
           /\ Rendezvous(r) = <<Send(0, "own"), Recv(0)>>
           /\ Gather(r, 0) = <<Send(0, "own")>>
<1>1. r # 0
  BY CommAssumption DEF Leaf
<1>2. <<Send(0, "own")>> \o <<>> = <<Send(0, "own")>>
  OBVIOUS
<1> QED
  BY <1>1, <1>2 DEF Barrier, Rendezvous, Gather

LEMMA LeafPlans ==
    ASSUME NEW r \in Leaf
    PROVE  /\ Plan(r, "open") =
                <<Send(0, "nothing"), Recv(0), Local("load"), Local("attach"),
                  Send(0, "nothing"), Recv(0)>>
           /\ Plan(r, "create") =
                <<Local("create"), Local("attach"), Send(0, "nothing"), Recv(0)>>
           /\ Plan(r, "close") =
                <<Send(0, "own"), Local("detach"), Local("seal"), Send(0, "nothing"), Recv(0),
                  Local("drop")>>
           /\ Plan(r, "allgather") = <<Send(0, "own"), Recv(0)>>
           /\ Plan(r, "gather") =
                IF r = Size - 1 THEN <<Send(0, "own"), Recv(0)>> ELSE <<Send(0, "own")>>
           /\ Plan(r, "bcast") =
                IF r = Size - 1 THEN <<Send(0, "own"), Recv(0)>> ELSE <<Recv(0)>>
           /\ Plan(r, "init") = <<Send(0, "own"), Recv(0)>>
           /\ Plan(r, "barrier") = <<Send(0, "nothing"), Recv(0)>>
           /\ Plan(r, "prepare") = <<>>
<1>0. r # 0
  BY CommAssumption DEF Leaf
<1> DEFINE n == Send(0, "nothing")
           o == Send(0, "own")
           v == Recv(0)
           load == Local("load")
           create == Local("create")
           attach == Local("attach")
           detach == Local("detach")
           seal == Local("seal")
           drop == Local("drop")
<1>1. Plan(r, "open") = <<n, v>> \o <<load, attach>> \o <<n, v>>
  BY <1>0, LeafBarrier DEF Plan, Open
<1>2. Plan(r, "create") = <<create, attach>> \o <<n, v>>
  BY LeafBarrier DEF Plan
<1>3. Plan(r, "close") = <<o>> \o <<detach>> \o <<seal>> \o <<n, v>> \o <<drop>>
  BY <1>0, LeafBarrier DEF Plan, Close
<1>4. Plan(r, "allgather") = <<o>> \o (<<>> \o <<v>>)
  BY <1>0, LeafBarrier DEF Plan, Allgather, Relay
<1>5. Plan(r, "gather") = <<o>> \o (IF r = Size - 1 THEN <<v>> ELSE <<>>)
  BY <1>0 DEF Plan, Gather
<1>6. Plan(r, "bcast") = (IF r = Size - 1 THEN <<o>> ELSE <<>>) \o <<v>>
  BY <1>0 DEF Plan, Bcast, Relay
<1>7. Plan(r, "init") = <<o, v>> /\ Plan(r, "barrier") = <<n, v>> /\ Plan(r, "prepare") = <<>>
  BY <1>0, LeafBarrier DEF Plan
<1> HIDE DEF n, o, v, load, create, attach, detach, seal, drop
<1>8. Plan(r, "open") = <<n, v, load, attach, n, v>>
  BY <1>1, Tuples
<1>9. Plan(r, "create") = <<create, attach, n, v>>
  BY <1>2, Tuples
<1>10. Plan(r, "close") = <<o, detach, seal, n, v, drop>>
  <2>1. <<o>> \o <<detach>> = <<o, detach>> /\ <<o, detach>> \o <<seal>> = <<o, detach, seal>>
    BY Tuples
  <2>2. <<o, detach, seal>> \o <<n, v>> = <<o, detach, seal, n, v>>
    BY Tuples
  <2>3. <<o, detach, seal, n, v>> \o <<drop>> = <<o, detach, seal, n, v, drop>>
    BY Tuples
  <2> QED
    BY <1>3, <2>1, <2>2, <2>3
<1>11. Plan(r, "allgather") = <<o, v>>
  BY <1>4, Tuples
<1>12. Plan(r, "gather") = IF r = Size - 1 THEN <<o, v>> ELSE <<o>>
  BY <1>5, Tuples
<1>13. Plan(r, "bcast") = IF r = Size - 1 THEN <<o, v>> ELSE <<v>>
  BY <1>6, Tuples
<1> QED
  BY <1>7, <1>8, <1>9, <1>10, <1>11, <1>12, <1>13
     DEF n, o, v, load, create, attach, detach, seal, drop

-----------------------------------------------------------------------------
(* Who writes the physical file.                                           *)
(*                                                                         *)
(* A model that is open, not attached and not read-only would be written   *)
(* by Drop.  On a rank other than 0 that is so between create or load and  *)
(* attach, and between detach and seal, and nowhere else: no step between  *)
(* those can fail, so that no File is dropped there.                       *)

Writable(f) == f.open /\ ~f.attached /\ ~f.readOnly

(* What is left of a plan makes the model unwritable at once. *)
Exposing == {Local("create"), Local("load"), Local("detach")}
Settling == {Local("attach"), Local("seal")}
Saving == {Local("prepare"), Local("save")}
Settles(s) ==
    \A i \in 1..Len(s) :
      /\ s[i] \in Exposing => i < Len(s) /\ s[i + 1] \in Settling
      /\ s[i] \notin Saving

HasFlags(f) == {"open", "attached", "readOnly"} \subseteq DOMAIN f

(* A rank that cannot be left with a model its Drop would write.           *)
Harmless(r) ==
    /\ todo[r] \in Seq(LeafItem) /\ Settles(todo[r])
    /\ HasFlags(file[r])
    /\ alive[r] /\ Writable(file[r]) => todo[r] # <<>> /\ Head(todo[r]) \in Settling

RootInv ==
    /\ script \in Scripts
    /\ at \in [Rank -> Nat] /\ \A r \in Rank : at[r] <= Len(script)
    /\ DOMAIN todo = Rank /\ DOMAIN alive = Rank /\ DOMAIN file = Rank
    /\ \A r \in Leaf : Harmless(r)

LEMMA LeafItems ==
    /\ \A w \in What : Send(0, w) \in LeafItem
    /\ Recv(0) \in LeafItem /\ Drain(0) \in LeafItem
    /\ \A w \in LocalName : w # "merge" => Local(w) \in LeafItem
  BY DEF LeafItem

LEMMA KindsDiffer ==
    /\ \A p, w, x : Send(p, w) # Local(x)
    /\ \A p, x : Recv(p) # Local(x) /\ Drain(p) # Local(x)
    /\ \A w, x : Local(w) = Local(x) => w = x
    /\ \A p, w, q : Send(p, w) # Recv(q) /\ Send(p, w) # Drain(q) /\ Recv(p) # Drain(q)
  BY DEF Send, Recv, Drain, Local

LEMMA LeafSettles ==
    ASSUME NEW r \in Leaf, NEW call \in Call
    PROVE  Plan(r, call) \in Seq(LeafItem) /\ Settles(Plan(r, call))
<1> DEFINE n == Send(0, "nothing")
           o == Send(0, "own")
           v == Recv(0)
           load == Local("load")
           attach == Local("attach")
           create == Local("create")
           detach == Local("detach")
           seal == Local("seal")
           drop == Local("drop")
           Plain(x) == x \notin Exposing \cup Saving
<1>1. /\ n \in LeafItem /\ o \in LeafItem /\ v \in LeafItem
      /\ load \in LeafItem /\ attach \in LeafItem /\ create \in LeafItem
      /\ detach \in LeafItem /\ seal \in LeafItem /\ drop \in LeafItem
  BY LeafItems DEF What, LocalName, Call
<1>2. /\ Plain(n) /\ Plain(o) /\ Plain(v) /\ Plain(attach) /\ Plain(seal) /\ Plain(drop)
      /\ load \notin Saving /\ create \notin Saving /\ detach \notin Saving
  BY KindsDiffer DEF Exposing, Saving
<1>3. attach \in Settling /\ seal \in Settling
  BY DEF Settling
<1>4. \A w \in LocalName : w # "merge" => Local(w) \in LeafItem
  BY LeafItems
<1>5. \A w : w \notin {"create", "load", "detach", "prepare", "save"} => Plain(Local(w))
  BY KindsDiffer DEF Exposing, Saving
<1> HIDE DEF n, o, v, load, attach, create, detach, seal, drop
<1>6. CASE call = "open"
  <2> DEFINE s == <<n, v, load, attach, n, v>>
  <2>1. Plan(r, call) = s
    BY <1>6, LeafPlans DEF n, v, load, attach
  <2>2. s \in Seq(LeafItem)
    BY <1>1
  <2>3. Settles(s)
    BY <1>2, <1>3 DEF Settles
  <2> QED
    BY <2>1, <2>2, <2>3
<1>7. CASE call = "create"
  <2> DEFINE s == <<create, attach, n, v>>
  <2>1. Plan(r, call) = s
    BY <1>7, LeafPlans DEF n, v, create, attach
  <2>2. s \in Seq(LeafItem)
    BY <1>1
  <2>3. Settles(s)
    BY <1>2, <1>3 DEF Settles
  <2> QED
    BY <2>1, <2>2, <2>3
<1>8. CASE call = "close"
  <2> DEFINE s == <<o, detach, seal, n, v, drop>>
  <2>1. Plan(r, call) = s
    BY <1>8, LeafPlans DEF n, v, o, detach, seal, drop
  <2>2. s \in Seq(LeafItem)
    BY <1>1
  <2>3. Settles(s)
    BY <1>2, <1>3 DEF Settles
  <2> QED
    BY <2>1, <2>2, <2>3
<1>9. CASE call \in {"init", "barrier", "bcast", "gather", "allgather"}
  <2>1. Plan(r, call) \in {<<n, v>>, <<o, v>>, <<o>>, <<v>>}
    BY <1>9, LeafPlans DEF n, v, o
  <2>2. ASSUME NEW x \in {n, o, v}, NEW y \in {n, o, v}
        PROVE  /\ <<x, y>> \in Seq(LeafItem) /\ Settles(<<x, y>>)
               /\ <<x>> \in Seq(LeafItem) /\ Settles(<<x>>)
    <3>1. x \in LeafItem /\ y \in LeafItem /\ Plain(x) /\ Plain(y)
      BY <1>1, <1>2
    <3> QED
      BY <3>1 DEF Settles
  <2> QED
    BY <2>1, <2>2
<1>10. CASE call = "prepare"
  <2>1. Plan(r, call) = <<>>
    BY <1>10, LeafPlans
  <2>2. <<>> \in Seq(LeafItem) /\ Settles(<<>>)
    BY DEF Settles
  <2> QED
    BY <2>1, <2>2
<1>11. CASE call \in {"dataset", "write", "resize", "rename", "recreate"}
  <2> DEFINE x == Local(call)
  <2>1. Plan(r, call) = <<x>>
    BY <1>11 DEF Plan
  <2>2. call \in LocalName /\ call # "merge"
    BY <1>11 DEF LocalName
  <2>3. Plain(x)
    BY <1>5, <1>11
  <2>4. x \in LeafItem
    BY <1>4, <2>2
  <2> HIDE DEF x
  <2> QED
    BY <2>1, <2>3, <2>4 DEF Settles
<1> QED
  BY <1>6, <1>7, <1>8, <1>9, <1>10, <1>11 DEF Call

LEMMA RestSettles ==
    ASSUME NEW s \in Seq(LeafItem), s # <<>>, Settles(s)
    PROVE  /\ Tail(s) \in Seq(LeafItem) /\ Settles(Tail(s))
           /\ <<Drain(0)>> \o Tail(s) \in Seq(LeafItem) /\ Settles(<<Drain(0)>> \o Tail(s))
           /\ Head(s) \in LeafItem /\ Head(s) \notin Saving
           /\ Head(s) \in Exposing => Tail(s) # <<>> /\ Head(Tail(s)) \in Settling
<1> DEFINE t == Tail(s)
           d == <<Drain(0)>>
           u == d \o t
<1>1. /\ t \in Seq(LeafItem) /\ Len(t) = Len(s) - 1 /\ Len(s) \in Nat \ {0}
      /\ \A i \in 1..Len(t) : t[i] = s[i + 1]
      /\ Head(s) = s[1] /\ s[1] \in LeafItem
  BY HeadTailProperties
<1>2. Settles(t)
  BY <1>1 DEF Settles
<1>3. d \in Seq(LeafItem) /\ Len(d) = 1 /\ d[1] = Drain(0)
  BY LeafItems
<1>4. u \in Seq(LeafItem) /\ Len(u) = Len(t) + 1 /\ u[1] = Drain(0)
      /\ \A i \in 1..Len(t) : u[i + 1] = t[i]
  <2> HIDE DEF t, d
  <2>1. /\ u \in Seq(LeafItem) /\ Len(u) = Len(d) + Len(t)
        /\ \A i \in 1..Len(d) + Len(t) : u[i] = IF i <= Len(d) THEN d[i] ELSE t[i - Len(d)]
    BY <1>1, <1>3, ConcatProperties
  <2> HIDE DEF u
  <2>2. Len(t) \in Nat
    BY <1>1
  <2>3. ASSUME NEW i \in 1..Len(t) PROVE u[i + 1] = t[i]
    <3>1. i + 1 \in 1..Len(d) + Len(t) /\ ~(i + 1 <= Len(d)) /\ i + 1 - Len(d) = i
      BY <1>3, <2>2
    <3> QED
      BY <2>1, <3>1
  <2> QED
    BY <1>3, <2>1, <2>2, <2>3
<1>5. Settles(u)
  <2>1. Drain(0) \notin Exposing \cup Saving
    BY KindsDiffer DEF Exposing, Saving
  <2> HIDE DEF u, t
  <2>2. ASSUME NEW i \in 1..Len(u), i # 1
        PROVE  /\ u[i] \in Exposing => i < Len(u) /\ u[i + 1] \in Settling
               /\ u[i] \notin Saving
    <3>1. i - 1 \in 1..Len(t) /\ u[(i - 1) + 1] = t[i - 1] /\ (i - 1) + 1 = i
      BY <1>1, <1>4, <2>2
    <3>2. i < Len(u) => i \in 1..Len(t) /\ u[i + 1] = t[i]
      BY <1>1, <1>4, <2>2
    <3> QED
      BY <1>1, <1>2, <1>4, <3>1, <3>2 DEF Settles
  <2> QED
    BY <1>4, <2>1, <2>2 DEF Settles
<1>6. Head(s) \notin Saving
  BY <1>1 DEF Settles
<1>7. ASSUME Head(s) \in Exposing PROVE t # <<>> /\ Head(t) \in Settling
  <2>1. 1 < Len(s) /\ s[2] \in Settling
    BY <1>1, <1>7 DEF Settles
  <2> HIDE DEF t
  <2>2. Len(t) \in Nat /\ Len(t) >= 1 /\ t[1] = s[2]
    BY <1>1, <2>1
  <2>3. t # <<>>
    BY <2>2
  <2>4. Head(t) = t[1]
    BY <1>1, <2>3, HeadTailProperties
  <2> QED
    BY <2>1, <2>2, <2>3, <2>4
<1> QED
  BY <1>1, <1>2, <1>4, <1>5, <1>6, <1>7

LEMMA ScriptCalls ==
    ASSUME RootInv, NEW r \in Rank, at[r] < Len(script)
    PROVE  script[at[r] + 1] \in Call
  BY ScriptAssumption DEF RootInv

(* One rank's step keeps the others as they are.                           *)
LEMMA RootKept ==
    ASSUME RootInv, NEW r \in Rank,
           UNCHANGED script,
           at' = at \/ (at[r] < Len(script) /\ at' = [at EXCEPT ![r] = @ + 1]),
           DOMAIN todo' = Rank, DOMAIN alive' = Rank, DOMAIN file' = Rank,
           \A q \in Leaf : q # r =>
             todo'[q] = todo[q] /\ alive'[q] = alive[q] /\ file'[q] = file[q],
           r \in Leaf => Harmless(r)'
    PROVE  RootInv'
<1>1. at' \in [Rank -> Nat] /\ \A q \in Rank : at'[q] <= Len(script)
  <2>1. Len(script) \in Nat
    BY ScriptAssumption DEF RootInv
  <2> QED
    BY <2>1 DEF RootInv
<1>2. ASSUME NEW q \in Leaf PROVE Harmless(q)'
  <2>1. CASE q = r
    BY <2>1
  <2>2. CASE q # r
    BY <2>2 DEF RootInv, Harmless
  <2> QED
    BY <2>1, <2>2
<1> QED
  BY <1>1, <1>2 DEF RootInv

(* A local step of a rank other than 0. *)
LEMMA LeafLocal ==
    ASSUME RootInv, NEW r \in Leaf, NEW w, LocalStep(r, w)
    PROVE  /\ Head(todo[r]) = Local(w) /\ todo[r] # <<>> /\ alive'[r] /\ alive[r]
           /\ todo'[r] = Tail(todo[r])
           /\ todo'[r] \in Seq(LeafItem) /\ Settles(todo'[r])
           /\ w \notin {"attach", "seal"} => ~Writable(file[r])
           /\ w \in {"create", "load", "detach"} => todo'[r] # <<>> /\ Head(todo'[r]) \in Settling
           /\ w \notin {"prepare", "save", "merge"}
<1>1. /\ todo[r] \in Seq(LeafItem) /\ Settles(todo[r]) /\ todo[r] # <<>> /\ alive[r]
      /\ Head(todo[r]).do = "local" /\ Head(todo[r]).what = w
      /\ todo' = [todo EXCEPT ![r] = Tail(@)] /\ alive' = alive /\ r \in DOMAIN todo
  BY DEF RootInv, Harmless, LocalStep, Doing, At, Advance, Leaf, Rank
<1>2. Head(todo[r]) = Local(w)
  <2>1. Head(todo[r]) \in LeafItem
    BY <1>1, RestSettles
  <2> QED
    BY <1>1, <2>1 DEF LeafItem, Send, Recv, Drain, Local
<1>3. todo'[r] = Tail(todo[r]) /\ w # "merge"
  <2>1. Local("merge") \notin LeafItem
    BY KindsDiffer DEF LeafItem
  <2> QED
    BY <1>1, <1>2, <2>1, RestSettles
<1>4. w \notin {"attach", "seal"} => Local(w) \notin Settling
  BY KindsDiffer DEF Settling
<1>5. w \in {"create", "load", "detach"} => Local(w) \in Exposing
  BY DEF Exposing
<1>6. w \in {"prepare", "save"} => Local(w) \in Saving
  BY DEF Saving
<1>7. alive[r] /\ Writable(file[r]) => Head(todo[r]) \in Settling
  BY DEF RootInv, Harmless
<1> QED
  BY <1>1, <1>2, <1>3, <1>4, <1>5, <1>6, <1>7, RestSettles

LEMMA LeafHarmless ==
    ASSUME RootInv, NEW r \in Leaf, Step(r) \/ Dies(r)
    PROVE  Harmless(r)'
<1>1. r \in Rank /\ r # 0 /\ Harmless(r)
  BY CommAssumption DEF Leaf, Rank, RootInv
<1>2. HasFlags(file[r])
  BY <1>1 DEF Harmless
<1>3. ASSUME alive'[r] = FALSE, todo' = todo, file' = file PROVE Harmless(r)'
  BY <1>1, <1>3 DEF Harmless
<1>4. CASE Enter(r)
  <2>1. /\ script[at[r] + 1] \in Call /\ todo'[r] = Plan(r, script[at[r] + 1])
        /\ alive'[r] /\ file'[r] = file[r] /\ ~Writable(file[r])
    BY <1>1, <1>4, ScriptCalls DEF Enter, Harmless, RootInv
  <2> QED
    BY <1>2, <2>1, LeafSettles DEF Harmless
<1>5. CASE Communicate(r)
  <2> DEFINE head == Head(todo[r])
  <2>1. /\ todo[r] # <<>> /\ alive[r] /\ head.do \in {"send", "drain", "recv", "accept"}
        /\ file' = file /\ alive' = alive
    BY <1>5 DEF Communicate, DoSend, DoDrain, DoRecv, DoAccept, At, Take
  <2>2. todo[r] \in Seq(LeafItem) /\ Settles(todo[r]) /\ head \in LeafItem
    BY <1>1, <2>1, RestSettles DEF Harmless
  <2>3. ~Writable(file[r])
    BY <1>1, <2>1 DEF Harmless, Settling, Local
  <2>4. todo'[r] \in {Tail(todo[r]), <<>> \o Tail(todo[r]), <<Drain(0)>> \o Tail(todo[r])}
    <3>1. CASE DoSend(r, Own(r))
      <4>1. head.peer = 0
        BY <2>2, <3>1 DEF DoSend, At, LeafItem, Send, Recv, Drain, Local
      <4> QED
        BY <1>1, <3>1, <4>1 DEF DoSend, RootInv
    <3>2. CASE DoDrain(r) \/ DoRecv(r) \/ DoAccept(r)
      BY <1>1, <3>2 DEF DoDrain, DoRecv, DoAccept, Take, Advance, RootInv
    <3> QED
      BY <1>5, <3>1, <3>2 DEF Communicate
  <2>5. Tail(todo[r]) \in Seq(LeafItem) /\ <<>> \o Tail(todo[r]) = Tail(todo[r])
    BY <2>1, <2>2, RestSettles, ConcatEmptySeq
  <2> QED
    BY <1>2, <2>1, <2>2, <2>3, <2>4, <2>5, RestSettles DEF Harmless
<1>6. ASSUME NEW w, LocalStep(r, w),
             HasFlags(file'[r]),
             Writable(file'[r]) => \/ Writable(file[r]) /\ w \notin {"attach", "seal"}
                                   \/ w \in {"create", "load", "detach"}
      PROVE  Harmless(r)'
  BY <1>6, LeafLocal DEF Harmless
<1>7. CASE Prepare(r) \/ Merge(r) \/ Save(r)
  <2>1. file'[r] = file[r]
    BY <1>1, <1>7 DEF Prepare, Merge, Save, RootInv
  <2> QED
    BY <1>2, <1>6, <1>7, <2>1 DEF Prepare, Merge, Save
<1>8. CASE Create(r) \/ Load(r)
  <2>1. \E m : file'[r] = FileOf(m)
    BY <1>1, <1>8 DEF Create, Load, RootInv
  <2>2. HasFlags(file'[r])
    BY <2>1 DEF HasFlags, FileOf
  <2> QED
    BY <1>6, <1>8, <2>2 DEF Create, Load
<1>9. CASE Attach(r) \/ Seal(r) \/ Drop(r)
  <2>1. HasFlags(file'[r]) /\ ~Writable(file'[r])
    BY <1>1, <1>2, <1>9 DEF Attach, Seal, Drop, HasFlags, Writable, RootInv
  <2> QED
    BY <1>6, <1>9, <2>1 DEF Attach, Seal, Drop
<1>10. CASE Detach(r)
  <2>1. HasFlags(file'[r])
    BY <1>1, <1>2, <1>10 DEF Detach, HasFlags, RootInv
  <2> QED
    BY <1>6, <1>10, <2>1 DEF Detach
<1>11. CASE Dataset(r) \/ Resize(r) \/ Rename(r) \/ Recreate(r) \/ Write(r)
  <2>1. /\ HasFlags(file'[r])
        /\ file'[r].open = file[r].open /\ file'[r].attached = file[r].attached
        /\ file'[r].readOnly = file[r].readOnly
    <3>1. CASE Dataset(r)
      BY <1>1, <1>2, <3>1 DEF Dataset, HasFlags, RootInv
    <3>2. CASE Resize(r)
      BY <1>1, <1>2, <3>2 DEF Resize, HasFlags, RootInv
    <3>3. CASE Rename(r) \/ Recreate(r)
      BY <1>1, <1>2, <3>3 DEF Rename, Recreate, HasFlags, RootInv
    <3>4. CASE Write(r)
      BY <1>1, <1>2, <3>4 DEF Write, HasFlags, RootInv
    <3> QED
      BY <1>11, <3>1, <3>2, <3>3, <3>4
  <2> QED
    BY <1>6, <1>11, <2>1 DEF Dataset, Resize, Rename, Recreate, Write, Writable
<1>12. CASE CommFails(r) \/ LoadFails(r) \/ MergeFails(r) \/ SaveFails(r) \/ Dies(r)
  BY <1>1, <1>3, <1>12 DEF CommFails, LoadFails, MergeFails, SaveFails, Dies, Exit, RootInv
<1> QED
  BY <1>4, <1>5, <1>7, <1>8, <1>9, <1>10, <1>11, <1>12 DEF Step

(* What a step of one rank leaves alone. *)
LEMMA OthersStay ==
    ASSUME RootInv, NEW r \in Rank, Step(r) \/ Dies(r)
    PROVE  /\ UNCHANGED script
           /\ at' = at \/ (at[r] < Len(script) /\ at' = [at EXCEPT ![r] = @ + 1])
           /\ DOMAIN todo' = Rank /\ DOMAIN alive' = Rank /\ DOMAIN file' = Rank
           /\ \A q \in Rank : q # r =>
                /\ todo'[q] = todo[q] /\ alive'[q] = alive[q]
                /\ q # 0 \/ ~Merge(r) => file'[q] = file[q]
<1> DEFINE OneFile == /\ DOMAIN file' = Rank
                      /\ \A q \in Rank : q # r /\ (q # 0 \/ ~Merge(r)) => file'[q] = file[q]
           Stay == UNCHANGED script
                   /\ (at' = at \/ (at[r] < Len(script) /\ at' = [at EXCEPT ![r] = @ + 1]))
                   /\ DOMAIN todo' = Rank /\ DOMAIN alive' = Rank
                   /\ \A q \in Rank : q # r => todo'[q] = todo[q] /\ alive'[q] = alive[q]
<1>1. DOMAIN todo = Rank /\ DOMAIN alive = Rank /\ DOMAIN file = Rank /\ r \in Rank
  BY DEF RootInv
<1> DEFINE OneTodo == DOMAIN todo' = Rank /\ \A q \in Rank : q # r => todo'[q] = todo[q]
<1>2. CASE Enter(r)
  BY <1>1, <1>2 DEF Enter
<1>3. CASE Communicate(r)
  <2>1. UNCHANGED <<script, at, file, alive>>
    BY <1>3 DEF Communicate, DoSend, DoDrain, DoRecv, DoAccept, Take
  <2>2. CASE DoSend(r, Own(r))
    <3>1. OneTodo
      BY <1>1, <2>2 DEF DoSend
    <3> QED
      BY <1>1, <2>1, <3>1
  <2>3. CASE DoDrain(r) \/ DoRecv(r) \/ DoAccept(r)
    <3>1. todo' = [todo EXCEPT ![r] = Tail(@)]
      BY <2>3 DEF DoDrain, DoRecv, DoAccept, Take, Advance
    <3>2. OneTodo
      BY <1>1, <3>1
    <3> QED
      BY <1>1, <2>1, <3>2
  <2> QED
    BY <1>3, <2>2, <2>3 DEF Communicate
<1>4. ASSUME alive' = [alive EXCEPT ![r] = FALSE], UNCHANGED <<script, at, todo, file>>
      PROVE  Stay /\ OneFile
  BY <1>1, <1>4
<1>5. ASSUME NEW w, LocalStep(r, w) PROVE Stay
  BY <1>1, <1>5 DEF LocalStep, Advance
<1>6. ASSUME UNCHANGED file PROVE OneFile
  BY <1>1, <1>6
<1>7. CASE Create(r)
  <2>1. OneFile
    BY <1>1, <1>7 DEF Create
  <2> QED
    BY <1>5, <1>7, <2>1 DEF Create
<1>8. CASE Load(r)
  <2>1. OneFile
    BY <1>1, <1>8 DEF Load
  <2> QED
    BY <1>5, <1>8, <2>1 DEF Load
<1>9. CASE Attach(r)
  <2>1. OneFile
    BY <1>1, <1>9 DEF Attach
  <2> QED
    BY <1>5, <1>9, <2>1 DEF Attach
<1>10. CASE Dataset(r)
  <2>1. OneFile
    BY <1>1, <1>10 DEF Dataset
  <2> QED
    BY <1>5, <1>10, <2>1 DEF Dataset
<1>11. CASE Resize(r)
  <2>1. OneFile
    BY <1>1, <1>11 DEF Resize
  <2> QED
    BY <1>5, <1>11, <2>1 DEF Resize
<1>12. CASE Rename(r)
  <2>1. OneFile
    BY <1>1, <1>12 DEF Rename
  <2> QED
    BY <1>5, <1>12, <2>1 DEF Rename
<1>13. CASE Recreate(r)
  <2>1. OneFile
    BY <1>1, <1>13 DEF Recreate
  <2> QED
    BY <1>5, <1>13, <2>1 DEF Recreate
<1>14. CASE Write(r)
  <2>1. OneFile
    BY <1>1, <1>14 DEF Write
  <2> QED
    BY <1>5, <1>14, <2>1 DEF Write
<1>15. CASE Merge(r)
  <2>1. OneFile
    BY <1>1, <1>15 DEF Merge
  <2> QED
    BY <1>5, <1>15, <2>1 DEF Merge
<1>16. CASE Detach(r)
  <2>1. OneFile
    BY <1>1, <1>16 DEF Detach
  <2> QED
    BY <1>5, <1>16, <2>1 DEF Detach
<1>17. CASE Seal(r)
  <2>1. OneFile
    BY <1>1, <1>17 DEF Seal
  <2> QED
    BY <1>5, <1>17, <2>1 DEF Seal
<1>18. CASE Drop(r)
  <2>1. OneFile
    BY <1>1, <1>18 DEF Drop
  <2> QED
    BY <1>5, <1>18, <2>1 DEF Drop
<1>19. CASE Prepare(r) \/ Save(r)
  BY <1>5, <1>6, <1>19 DEF Prepare, Save
<1>20. CASE CommFails(r) \/ LoadFails(r) \/ MergeFails(r) \/ SaveFails(r) \/ Dies(r)
  BY <1>4, <1>20 DEF CommFails, LoadFails, MergeFails, SaveFails, Dies, Exit
<1> QED
  BY <1>2, <1>3, <1>7, <1>8, <1>9, <1>10, <1>11, <1>12, <1>13, <1>14, <1>15,
     <1>16, <1>17, <1>18, <1>19, <1>20 DEF Step

LEMMA RootInvariance == Spec => []RootInv
<1>1. Init => RootInv
  <2> SUFFICES ASSUME Init PROVE RootInv
    OBVIOUS
  <2>1. Len(script) \in Nat /\ 0 \in Nat
    BY ScriptAssumption DEF Init
  <2>2. ASSUME NEW r \in Leaf PROVE Harmless(r)
    <3>1. r \in Rank
      BY DEF Leaf, Rank
    <3>2. todo[r] = <<>> /\ file[r] = NoFile
      BY <3>1 DEF Init
    <3> QED
      BY <3>2 DEF Harmless, Settles, HasFlags, Writable, NoFile
  <2> QED
    BY <2>1, <2>2 DEF Init, RootInv
<1>2. RootInv /\ [Next]_vars => RootInv'
  <2>1. ASSUME RootInv, NEW r \in Rank, Step(r) \/ Dies(r) PROVE RootInv'
    <3>1. \A q \in Leaf : q \in Rank /\ q # 0
      BY CommAssumption DEF Leaf, Rank
    <3> QED
      BY <2>1, <3>1, OthersStay, LeafHarmless, RootKept
  <2>2. CASE UNCHANGED vars
    BY <2>2 DEF vars, commVars, RootInv, Harmless
  <2> QED
    BY <2>1, <2>2 DEF Next
<1> QED
  BY <1>1, <1>2, PTL DEF Spec

(* A rank other than 0 cannot change the file, even when it fails.         *)
LEMMA LeafWritesNothing ==
    ASSUME RootInv, NEW r \in Leaf, Step(r) \/ Dies(r)
    PROVE  disk' = disk
<1>1. r # 0 /\ Harmless(r)
  BY CommAssumption DEF Leaf, RootInv
<1>2. ASSUME alive[r], todo[r] # <<>>, Head(todo[r]) \notin Settling PROVE Dropped(file[r]) = disk
  BY <1>1, <1>2 DEF Harmless, Dropped, Writable
<1>3. ~Prepare(r) /\ ~Save(r) /\ ~SaveFails(r)
  <2>1. ASSUME NEW w \in {"prepare", "save"} PROVE ~Doing(r, w)
    <3> SUFFICES ASSUME Doing(r, w) PROVE FALSE
      OBVIOUS
    <3>1. /\ todo[r] # <<>> /\ Head(todo[r]).do = "local" /\ Head(todo[r]).what = w
          /\ Head(todo[r]) \in LeafItem /\ Head(todo[r]) \notin Saving
      BY <1>1, RestSettles DEF Doing, At, Harmless
    <3> QED
      BY <3>1 DEF LeafItem, Saving, Send, Recv, Drain, Local
  <2> QED
    BY <2>1 DEF Prepare, Save, SaveFails, LocalStep
<1>4. Drop(r) => disk' = disk
  <2> SUFFICES ASSUME Drop(r) PROVE disk' = disk
    OBVIOUS
  <2>1. alive[r] /\ todo[r] # <<>> /\ Head(todo[r]) = Local("drop")
    BY LeafLocal DEF Drop
  <2>2. Local("drop") \notin Settling
    BY KindsDiffer DEF Settling
  <2> QED
    BY <1>2, <2>1, <2>2 DEF Drop
<1>5. CommFails(r) => disk' = disk
  BY <1>2 DEF CommFails, Exit, Broken, Settling, Local
<1>6. LoadFails(r) \/ MergeFails(r) => disk' = disk
  BY <1>2 DEF LoadFails, MergeFails, Exit, Doing, At, Settling, Local
<1>7. Dies(r) => disk' = disk
  BY <1>1 DEF Dies, Interrupted
<1> QED
  BY <1>1, <1>3, <1>4, <1>5, <1>6, <1>7
     DEF Step, Enter, Communicate, Create, Load, Attach, Dataset, Resize, Rename, Recreate,
         Write, Merge, Detach, Seal

(* Only rank 0 ever writes the physical file, whatever fails on whichever  *)
(* rank, and whenever: the File that another rank drops on an error is     *)
(* attached, or read-only, or not yet open (file.rs, Drop; mpi.rs).        *)
THEOREM OnlyRootWritesFile == Spec => OnlyRootWrites
<1>1. ASSUME RootInv, [Next]_vars
      PROVE  [disk' # disk => \A r \in Leaf : todo'[r] = todo[r] /\ alive'[r] = alive[r]]_vars
  <2> SUFFICES ASSUME Next, disk' # disk
               PROVE  \A r \in Leaf : todo'[r] = todo[r] /\ alive'[r] = alive[r]
    BY <1>1
  <2>1. PICK r \in Rank : Step(r) \/ Dies(r)
    BY DEF Next
  <2>2. r \notin Leaf
    BY <1>1, <2>1, LeafWritesNothing
  <2>3. \A q \in Leaf : q \in Rank
    BY DEF Leaf, Rank
  <2> QED
    BY <1>1, <2>1, <2>2, <2>3, OthersStay
<1> QED
  BY <1>1, RootInvariance, PTL DEF Spec, OnlyRootWrites

-----------------------------------------------------------------------------
(* Counting the steps of a kind in a plan. *)

Hits(s, X) == {i \in 1..Len(s) : s[i] \in X}
Count(s, X) == Cardinality(Hits(s, X))

LEMMA CountNat ==
    ASSUME NEW S, NEW s \in Seq(S), NEW X
    PROVE  /\ IsFiniteSet(Hits(s, X)) /\ Count(s, X) \in Nat
           /\ Count(s, X) = 0 <=> \A i \in 1..Len(s) : s[i] \notin X
<1>1. IsFiniteSet(1..Len(s))
  <2>1. Len(s) \in Int /\ 1 \in Int
    OBVIOUS
  <2> QED
    BY <2>1, FS_Interval
<1>2. IsFiniteSet(Hits(s, X))
  BY <1>1, FS_Subset DEF Hits
<1>3. Count(s, X) \in Nat /\ (Count(s, X) = 0 <=> Hits(s, X) = {})
  BY <1>2, FS_CardinalityType, FS_EmptySet DEF Count
<1>4. Hits(s, X) = {} <=> \A i \in 1..Len(s) : s[i] \notin X
  BY DEF Hits
<1> QED
  BY <1>2, <1>3, <1>4

LEMMA CountConcat ==
    ASSUME NEW S, NEW s \in Seq(S), NEW t \in Seq(S), NEW X
    PROVE  Count(s \o t, X) = Count(s, X) + Count(t, X)
<1> DEFINE A == Hits(s, X)
           B == {i \in Len(s) + 1..Len(s) + Len(t) : t[i - Len(s)] \in X}
           f == [i \in Hits(t, X) |-> Len(s) + i]
           u == s \o t
<1>1. /\ u \in Seq(S) /\ Len(u) = Len(s) + Len(t)
      /\ \A i \in 1..Len(s) + Len(t) : u[i] = IF i <= Len(s) THEN s[i] ELSE t[i - Len(s)]
  BY ConcatProperties
<1>2. Len(s) \in Nat /\ Len(t) \in Nat
  OBVIOUS
<1>3. Hits(u, X) = A \cup B /\ A \cap B = {}
  <2> HIDE DEF u
  <2> QED
    BY <1>1, <1>2 DEF Hits
<1>4. f \in Bijection(Hits(t, X), B)
  <2>1. f \in [Hits(t, X) -> B]
    BY <1>2 DEF Hits
  <2>2. \A i, j \in Hits(t, X) : f[i] = f[j] => i = j
    BY <1>2 DEF Hits
  <2>3. ASSUME NEW b \in B PROVE \E i \in Hits(t, X) : f[i] = b
    <3>1. b - Len(s) \in Hits(t, X) /\ f[b - Len(s)] = b
      BY <1>2 DEF Hits
    <3> QED
      BY <3>1
  <2> HIDE DEF f, B
  <2>4. f \in Injection(Hits(t, X), B)
    BY <2>1, <2>2 DEF Injection, IsInjective
  <2>5. f \in Surjection(Hits(t, X), B)
    BY <2>1, <2>3 DEF Surjection
  <2> QED
    BY <2>4, <2>5 DEF Bijection
<1>5. IsFiniteSet(B) /\ Cardinality(B) = Count(t, X)
  <2>1. ExistsBijection(Hits(t, X), B)
    BY <1>4 DEF ExistsBijection
  <2> QED
    BY <2>1, CountNat, FS_Bijection DEF Count
<1>6. IsFiniteSet(A)
  BY CountNat
<1> HIDE DEF A, B, u
<1>7. Cardinality(A \cup B) = Cardinality(A) + Cardinality(B)
  <2>1. Cardinality(A) \in Nat /\ Cardinality(B) \in Nat /\ Cardinality(A \cap B) = 0
    BY <1>3, <1>5, <1>6, FS_CardinalityType, FS_EmptySet
  <2>2. Cardinality(A \cup B) = Cardinality(A) + Cardinality(B) - Cardinality(A \cap B)
    BY <1>5, <1>6, FS_Union
  <2> QED
    BY <2>1, <2>2
<1> QED
  BY <1>3, <1>5, <1>7 DEF Count, A, u

LEMMA CountOne ==
    ASSUME NEW x, NEW X
    PROVE  Count(<<x>>, X) = (IF x \in X THEN 1 ELSE 0) /\ Count(<<>>, X) = 0
<1>1. Hits(<<x>>, X) = IF x \in X THEN {1} ELSE {}
  BY DEF Hits
<1>2. Hits(<<>>, X) = {}
  BY DEF Hits
<1> QED
  BY <1>1, <1>2, FS_EmptySet, FS_Singleton DEF Count

(* What is left after a step: the rest of the plan, or a drain before it.  *)
LEMMA CountRest ==
    ASSUME NEW S, NEW s \in Seq(S), s # <<>>, NEW X
    PROVE  /\ Head(s) \in S /\ Tail(s) \in Seq(S)
           /\ Count(s, X) = Count(Tail(s), X) + (IF Head(s) \in X THEN 1 ELSE 0)
           /\ Count(Tail(s), X) \in Nat
           /\ \A d \in S : d \notin X => Count(<<d>> \o Tail(s), X) = Count(Tail(s), X)
<1>1. Head(s) \in S /\ Tail(s) \in Seq(S) /\ <<Head(s)>> \in Seq(S) /\ s = <<Head(s)>> \o Tail(s)
  BY HeadTailProperties, HeadTailAppend
<1>2. Count(Tail(s), X) \in Nat
  BY <1>1, CountNat
<1> DEFINE h == <<Head(s)>>
<1>3. Count(s, X) = Count(h, X) + Count(Tail(s), X)
  <2>1. h \in Seq(S) /\ s = h \o Tail(s)
    BY <1>1
  <2>2. Count(h \o Tail(s), X) = Count(h, X) + Count(Tail(s), X)
    <3> HIDE DEF h
    <3> QED
      BY <1>1, <2>1, CountConcat
  <2> QED
    BY <2>1, <2>2
<1>4. ASSUME NEW d \in S, d \notin X PROVE Count(<<d>> \o Tail(s), X) = Count(Tail(s), X)
  <2> DEFINE e == <<d>>
  <2>1. Count(e \o Tail(s), X) = Count(e, X) + Count(Tail(s), X)
    <3>1. e \in Seq(S)
      OBVIOUS
    <3> HIDE DEF e
    <3> QED
      BY <1>1, <3>1, CountConcat
  <2> QED
    BY <1>2, <1>4, <2>1, CountOne
<1> QED
  BY <1>1, <1>2, <1>3, <1>4, CountOne

-----------------------------------------------------------------------------
(* The plans of a call mirror each other. *)

RootItem ==
    {Send(q, w) : q \in Leaf, w \in What} \cup {Recv(q) : q \in Leaf}
    \cup {Drain(q) : q \in Leaf} \cup {Accept} \cup {Local(w) : w \in LocalName}

Sends(p) == {Send(p, w) : w \in What}

(* How many frames a rank other than 0 sends and receives in a call. *)
NUp(q, call) ==
    IF call \in {"open", "close"} THEN 2
    ELSE IF call \in {"init", "barrier", "gather", "allgather", "create"}
            \/ (call = "bcast" /\ q = Size - 1)
    THEN 1 ELSE 0

NDown(q, call) ==
    IF call = "open" THEN 2
    ELSE IF call \in {"init", "barrier", "bcast", "allgather", "create", "close"}
            \/ (call = "gather" /\ q = Size - 1)
    THEN 1 ELSE 0

(* A stretch of a plan that receives and sends so many frames from and to  *)
(* p, and accepts nobody.                                                  *)
Exchanges(s, S, p, in, out) ==
    /\ s \in Seq(S)
    /\ Count(s, {Recv(p)}) = in /\ Count(s, Sends(p)) = out /\ Count(s, {Accept}) = 0

LEMMA ItemKinds ==
    /\ \A p, q, w : Send(p, w) # Recv(q) /\ Send(p, w) # Drain(q) /\ Send(p, w) # Accept
    /\ \A p, q : Recv(p) # Drain(q) /\ Recv(p) # Accept /\ Drain(p) # Accept
    /\ \A p, w, x : Local(x) # Send(p, w) /\ Local(x) # Recv(p) /\ Local(x) # Drain(p)
    /\ \A x : Local(x) # Accept
    /\ \A p, q : Recv(p) = Recv(q) => p = q
    /\ \A p, q, w, x : Send(p, w) = Send(q, x) => p = q /\ w = x
  BY DEF Send, Recv, Drain, Accept, Local

LEMMA ExchangesBoth ==
    ASSUME NEW S, NEW p, NEW s, NEW t, NEW i \in Nat, NEW j \in Nat, NEW k \in Nat, NEW l \in Nat,
           Exchanges(s, S, p, i, j), Exchanges(t, S, p, k, l)
    PROVE  Exchanges(s \o t, S, p, i + k, j + l)
<1>1. s \in Seq(S) /\ t \in Seq(S) /\ s \o t \in Seq(S)
  BY ConcatProperties DEF Exchanges
<1>2. \A X : Count(s \o t, X) = Count(s, X) + Count(t, X)
  BY <1>1, CountConcat
<1> QED
  BY <1>1, <1>2 DEF Exchanges

LEMMA ExchangesOne ==
    ASSUME NEW S, NEW p
    PROVE  /\ Exchanges(<<>>, S, p, 0, 0)
           /\ \A w \in What : Send(p, w) \in S => Exchanges(<<Send(p, w)>>, S, p, 0, 1)
           /\ Recv(p) \in S => Exchanges(<<Recv(p)>>, S, p, 1, 0)
           /\ \A x \in S : x # Recv(p) /\ x \notin Sends(p) /\ x # Accept
                => Exchanges(<<x>>, S, p, 0, 0)
<1>1. <<>> \in Seq(S) /\ \A x \in S : <<x>> \in Seq(S)
  OBVIOUS
<1>2. \A w \in What : Send(p, w) \in Sends(p) /\ Send(p, w) # Recv(p) /\ Send(p, w) # Accept
  BY ItemKinds DEF Sends
<1>3. Recv(p) \notin Sends(p) /\ Recv(p) # Accept
  BY ItemKinds DEF Sends
<1> QED
  BY <1>1, <1>2, <1>3, CountOne DEF Exchanges

LEMMA TwoElements ==
    /\ Cardinality({}) = 0
    /\ \A i : Cardinality({i}) = 1
    /\ \A i, j : i # j => Cardinality({i, j}) = 2
<1>1. Cardinality({}) = 0 /\ \A i : Cardinality({i}) = 1 /\ IsFiniteSet({i})
  BY FS_EmptySet, FS_Singleton
<1>2. ASSUME NEW i, NEW j, i # j PROVE Cardinality({i, j}) = 2
  <2> DEFINE S == {i}
  <2>1. S \cup {j} = {i, j} /\ j \notin S
    BY <1>2
  <2>2. IsFiniteSet(S) /\ Cardinality(S) = 1
    BY <1>1
  <2> HIDE DEF S
  <2>3. Cardinality(S \cup {j}) = Cardinality(S) + 1
    BY <2>1, <2>2, FS_AddElement
  <2> QED
    BY <2>1, <2>2, <2>3
<1> QED
  BY <1>1, <1>2

LEMMA LeafTable ==
    ASSUME NEW q \in Leaf, NEW call \in Call
    PROVE  Exchanges(Plan(q, call), LeafItem, 0, NDown(q, call), NUp(q, call))
<1> DEFINE n == Send(0, "nothing")
           o == Send(0, "own")
           v == Recv(0)
           Z == Sends(0)
           V == {Recv(0)}
           Has(z, w) == Hits(Plan(q, call), Z) = z /\ Hits(Plan(q, call), V) = w
           Rest(x) == x \notin Z \cup V
<1>1. n \in Z /\ o \in Z /\ v \notin Z /\ v \in V /\ n \notin V /\ o \notin V
  BY ItemKinds DEF Sends, What
<1>2. \A w : Rest(Local(w))
  BY ItemKinds DEF Sends
<1>3. Plan(q, call) \in Seq(LeafItem)
  BY LeafSettles
<1>4. Count(Plan(q, call), {Accept}) = 0
  <2>1. \A x \in LeafItem : x # Accept
    BY ItemKinds DEF LeafItem
  <2> QED
    BY <1>3, <2>1, CountNat
<1> HIDE DEF n, o, v, Z, V
<1>5. CASE call = "open"
  <2>1. Has({1, 5}, {2, 6})
    <3> DEFINE a == Local("load")
               b == Local("attach")
               s == <<n, v, a, b, n, v>>
    <3>1. Plan(q, call) = s
      BY <1>5, LeafPlans DEF n, v
    <3>2. Rest(a) /\ Rest(b)
      BY <1>2
    <3> HIDE DEF a, b
    <3>3. Hits(s, Z) = {1, 5} /\ Hits(s, V) = {2, 6}
      BY <1>1, <3>2 DEF Hits
    <3> QED
      BY <3>1, <3>3
  <2>2. Cardinality({1, 5}) = 2 /\ Cardinality({2, 6}) = 2
    <3>1. 1 # 5 /\ 2 # 6
      OBVIOUS
    <3> QED
      BY <3>1, TwoElements, Zenon
  <2> QED
    BY <1>3, <1>4, <1>5, <2>1, <2>2 DEF Exchanges, Count, NUp, NDown, Z, V
<1>6. CASE call = "create"
  <2>1. Has({3}, {4})
    <3> DEFINE a == Local("create")
               b == Local("attach")
               s == <<a, b, n, v>>
    <3>1. Plan(q, call) = s
      BY <1>6, LeafPlans DEF n, v
    <3>2. Rest(a) /\ Rest(b)
      BY <1>2
    <3> HIDE DEF a, b
    <3>3. Hits(s, Z) = {3} /\ Hits(s, V) = {4}
      BY <1>1, <3>2 DEF Hits
    <3> QED
      BY <3>1, <3>3
  <2> QED
    BY <1>3, <1>4, <1>6, <2>1, TwoElements DEF Exchanges, Count, NUp, NDown, Z, V
<1>7. CASE call = "close"
  <2>1. Has({1, 4}, {5})
    <3> DEFINE a == Local("detach")
               b == Local("seal")
               c == Local("drop")
               s == <<o, a, b, n, v, c>>
    <3>1. Plan(q, call) = s
      BY <1>7, LeafPlans DEF n, o, v
    <3>2. Rest(a) /\ Rest(b) /\ Rest(c)
      BY <1>2
    <3> HIDE DEF a, b, c
    <3>3. Hits(s, Z) = {1, 4} /\ Hits(s, V) = {5}
      BY <1>1, <3>2 DEF Hits
    <3> QED
      BY <3>1, <3>3
  <2>2. Cardinality({1, 4}) = 2 /\ Cardinality({5}) = 1
    <3>1. 1 # 4
      OBVIOUS
    <3> QED
      BY <3>1, TwoElements, Zenon
  <2> QED
    BY <1>3, <1>4, <1>7, <2>1, <2>2 DEF Exchanges, Count, NUp, NDown, Z, V
<1>8. \A x \in Z \ V : \A s : s = <<x, v>> => Hits(s, Z) = {1} /\ Hits(s, V) = {2}
  BY <1>1 DEF Hits
<1>9. /\ \A s : s = <<o>> => Hits(s, Z) = {1} /\ Hits(s, V) = {}
      /\ \A s : s = <<v>> => Hits(s, Z) = {} /\ Hits(s, V) = {1}
      /\ \A s, x : s = <<x>> /\ Rest(x) => Hits(s, Z) = {} /\ Hits(s, V) = {}
      /\ \A s : s = <<>> => Hits(s, Z) = {} /\ Hits(s, V) = {}
  <2>1. \A s : s = <<o>> => Hits(s, Z) = {1} /\ Hits(s, V) = {}
    BY <1>1 DEF Hits
  <2>2. \A s : s = <<v>> => Hits(s, Z) = {} /\ Hits(s, V) = {1}
    BY <1>1 DEF Hits
  <2>3. ASSUME NEW x, Rest(x) PROVE Hits(<<x>>, Z) = {} /\ Hits(<<x>>, V) = {}
    BY <2>3 DEF Hits
  <2>4. Hits(<<>>, Z) = {} /\ Hits(<<>>, V) = {}
    BY DEF Hits
  <2> QED
    BY <2>1, <2>2, <2>3, <2>4
<1>10. CASE call \in {"init", "barrier", "allgather"}
  <2>1. Plan(q, call) = <<n, v>> \/ Plan(q, call) = <<o, v>>
    BY <1>10, LeafPlans, LeafBarrier DEF Plan, n, v, o
  <2>2. Has({1}, {2})
    BY <1>1, <1>8, <2>1
  <2> QED
    BY <1>3, <1>4, <1>10, <2>2, TwoElements DEF Exchanges, Count, NUp, NDown, Z, V
<1>11. CASE call = "gather"
  <2>1. Plan(q, call) = IF q = Size - 1 THEN <<o, v>> ELSE <<o>>
    BY <1>11, LeafPlans DEF v, o
  <2>2. Has({1}, IF q = Size - 1 THEN {2} ELSE {})
    BY <1>1, <1>8, <1>9, <2>1
  <2> QED
    BY <1>3, <1>4, <1>11, <2>2, TwoElements DEF Exchanges, Count, NUp, NDown, Z, V
<1>12. CASE call = "bcast"
  <2>1. Plan(q, call) = IF q = Size - 1 THEN <<o, v>> ELSE <<v>>
    BY <1>12, LeafPlans DEF v, o
  <2>2. IF q = Size - 1 THEN Has({1}, {2}) ELSE Has({}, {1})
    BY <1>1, <1>8, <1>9, <2>1
  <2> QED
    BY <1>3, <1>4, <1>12, <2>2, TwoElements DEF Exchanges, Count, NUp, NDown, Z, V
<1>13. CASE call = "prepare"
  <2>1. Plan(q, call) = <<>>
    <3>1. q # 0
      BY CommAssumption DEF Leaf
    <3> QED
      BY <1>13, <3>1 DEF Plan
  <2>2. Has({}, {})
    BY <1>9, <2>1
  <2> QED
    BY <1>3, <1>4, <1>13, <2>2, TwoElements DEF Exchanges, Count, NUp, NDown, Z, V
<1>14. CASE call \in {"dataset", "write", "resize", "rename", "recreate"}
  <2>1. Plan(q, call) = <<Local(call)>>
    BY <1>14 DEF Plan
  <2>2. Has({}, {})
    BY <1>2, <1>9, <2>1
  <2> QED
    BY <1>3, <1>4, <1>14, <2>2, TwoElements DEF Exchanges, Count, NUp, NDown, Z, V
<1> QED
  BY <1>5, <1>6, <1>7, <1>10, <1>11, <1>12, <1>13, <1>14 DEF Call

LEMMA ToAll ==
    ASSUME NEW q \in Leaf
    PROVE  /\ Exchanges(RecvFromAll, RootItem, q, 1, 0)
           /\ \A w \in What : Exchanges(SendToAll(w), RootItem, q, 0, 1)
           /\ [i \in Leaf |-> Accept] \in Seq(RootItem)
           /\ Count([i \in Leaf |-> Accept], {Recv(q)}) = 0
           /\ Count([i \in Leaf |-> Accept], Sends(q)) = 0
           /\ Count([i \in Leaf |-> Accept], {Accept}) = Size - 1
<1> DEFINE N == Size - 1
<1>1. N \in Nat /\ Leaf = 1..N
  BY CommAssumption DEF Leaf
<1>2. \A S : \A f \in [1..N -> S] : f \in Seq(S) /\ Len(f) = N
  BY <1>1
<1>3. RecvFromAll \in Seq(RootItem) /\ Len(RecvFromAll) = N
  <2>1. RecvFromAll \in [1..N -> RootItem]
    BY <1>1 DEF RecvFromAll, RootItem
  <2> QED
    BY <1>2, <2>1
<1>4. ASSUME NEW w \in What PROVE SendToAll(w) \in Seq(RootItem) /\ Len(SendToAll(w)) = N
  <2>1. SendToAll(w) \in [1..N -> RootItem]
    BY <1>1 DEF SendToAll, RootItem
  <2> QED
    BY <1>2, <2>1
<1> DEFINE acc == [i \in Leaf |-> Accept]
<1>5. acc \in Seq(RootItem) /\ Len(acc) = N
  <2>1. acc \in [1..N -> RootItem]
    BY <1>1 DEF RootItem
  <2> QED
    BY <1>2, <2>1
<1>6. /\ Hits(RecvFromAll, {Recv(q)}) = {q}
      /\ Hits(RecvFromAll, Sends(q)) = {} /\ Hits(RecvFromAll, {Accept}) = {}
  <2>1. \A i \in 1..N : RecvFromAll[i] = Recv(i)
    BY <1>1 DEF RecvFromAll
  <2> QED
    BY <1>1, <1>3, <2>1, ItemKinds DEF Hits, Sends
<1>7. ASSUME NEW w \in What
      PROVE  /\ Hits(SendToAll(w), Sends(q)) = {q}
             /\ Hits(SendToAll(w), {Recv(q)}) = {} /\ Hits(SendToAll(w), {Accept}) = {}
  <2>1. \A i \in 1..N : SendToAll(w)[i] = Send(i, w)
    BY <1>1 DEF SendToAll
  <2> QED
    BY <1>1, <1>4, <2>1, ItemKinds DEF Hits, Sends
<1>8. Hits(acc, {Accept}) = 1..N /\ Hits(acc, {Recv(q)}) = {} /\ Hits(acc, Sends(q)) = {}
  <2>1. \A i \in 1..N : acc[i] = Accept
    BY <1>1
  <2> HIDE DEF acc
  <2> QED
    BY <1>1, <1>5, <2>1, ItemKinds DEF Hits, Sends
<1>9. Cardinality(1..N) = N
  <2>1. N \in Int /\ 1 \in Int
    BY <1>1
  <2>2. Cardinality(1..N) = IF 1 > N THEN 0 ELSE N - 1 + 1
    BY <2>1, FS_Interval
  <2> QED
    BY <1>1, <2>2
<1> QED
  BY <1>3, <1>4, <1>5, <1>6, <1>7, <1>8, <1>9, TwoElements DEF Exchanges, Count

(* Rank 0 receives and sends what the others send and receive; it does not *)
(* receive in init, it accepts.                                            *)
LEMMA RootTable ==
    ASSUME NEW q \in Leaf, NEW call \in Call, call # "init"
    PROVE  Exchanges(Plan(0, call), RootItem, q, NUp(q, call), NDown(q, call))
<1> DEFINE E(s, i, j) == Exchanges(s, RootItem, q, i, j)
           B == Barrier(0)
           R == RecvFromAll
           S(w) == SendToAll(w)
           L(x) == <<Local(x)>>
<1>0. \A s, t : \A i, j, k, l, m, n \in Nat :
        E(s, i, j) /\ E(t, k, l) /\ m = i + k /\ n = j + l => E(s \o t, m, n)
  BY ExchangesBoth
<1>1. E(<<>>, 0, 0) /\ E(R, 1, 0) /\ \A w \in What : E(S(w), 0, 1)
  BY ToAll, ExchangesOne
<1>2. \A x \in LocalName : E(L(x), 0, 0)
  <2> SUFFICES ASSUME NEW x \in LocalName PROVE E(L(x), 0, 0)
    OBVIOUS
  <2>1. Local(x) \in RootItem
    BY DEF RootItem
  <2>2. Local(x) # Recv(q) /\ Local(x) \notin Sends(q) /\ Local(x) # Accept
    BY ItemKinds DEF Sends
  <2> QED
    BY <2>1, <2>2, ExchangesOne
<1>3. \A p \in Leaf : /\ E(<<Recv(p)>>, IF p = q THEN 1 ELSE 0, 0)
                      /\ E(<<Send(p, "all")>>, 0, IF p = q THEN 1 ELSE 0)
  <2> SUFFICES ASSUME NEW p \in Leaf
               PROVE  /\ E(<<Recv(p)>>, IF p = q THEN 1 ELSE 0, 0)
                      /\ E(<<Send(p, "all")>>, 0, IF p = q THEN 1 ELSE 0)
    OBVIOUS
  <2>1. Recv(p) \in RootItem /\ Send(p, "all") \in RootItem
    BY DEF RootItem, What
  <2>2. /\ p # q => Recv(p) # Recv(q) /\ Send(p, "all") \notin Sends(q)
        /\ Recv(p) \notin Sends(q) /\ Recv(p) # Accept
        /\ Send(p, "all") # Recv(q) /\ Send(p, "all") # Accept
    BY ItemKinds DEF Sends
  <2>3. CASE p = q
    BY <2>1, <2>3, ExchangesOne DEF What
  <2>4. CASE p # q
    BY <2>1, <2>2, <2>4, ExchangesOne
  <2> QED
    BY <2>3, <2>4
<1>4. E(B, 1, 1)
  <2>1. B = R \o S("nothing")
    BY DEF Barrier
  <2> HIDE DEF E, B, R, S
  <2> QED
    BY <1>0, <1>1, <2>1 DEF What
<1>5. 0 \notin Leaf /\ Size \in Nat \ {0} /\ Leaf = 1..(Size - 1)
  BY CommAssumption DEF Leaf
<1>6. CASE call = "barrier"
  BY <1>4, <1>6 DEF Plan, NUp, NDown
<1>7. CASE call = "bcast"
  <2>1. Size - 1 # 0 /\ Size - 1 \in Leaf
    BY <1>5
  <2>2. Plan(0, call) = <<Recv(Size - 1)>> \o S("received")
    BY <1>7, <2>1 DEF Plan, Bcast, Relay
  <2> DEFINE d == IF Size - 1 = q THEN 1 ELSE 0
  <2>3. d \in Nat /\ E(<<Recv(Size - 1)>>, d, 0)
    BY <1>3, <2>1
  <2> HIDE DEF E, S, d
  <2>4. E(<<Recv(Size - 1)>> \o S("received"), d, 1)
    BY <1>0, <1>1, <2>3 DEF What
  <2> QED
    BY <1>7, <2>2, <2>4 DEF NUp, NDown, E, d
<1>8. CASE call = "gather"
  <2>1. Size - 1 # 0 /\ Size - 1 \in Leaf
    BY <1>5
  <2>2. Plan(0, call) = R \o <<Send(Size - 1, "all")>>
    BY <1>8, <2>1 DEF Plan, Gather
  <2> DEFINE d == IF Size - 1 = q THEN 1 ELSE 0
  <2>3. d \in Nat /\ E(<<Send(Size - 1, "all")>>, 0, d)
    BY <1>3, <2>1
  <2> HIDE DEF E, R, d
  <2>4. E(R \o <<Send(Size - 1, "all")>>, 1, d)
    BY <1>0, <1>1, <2>3
  <2> QED
    BY <1>8, <2>2, <2>4 DEF NUp, NDown, E, d
<1>9. CASE call = "allgather"
  <2>1. Plan(0, call) = (R \o <<>>) \o (<<>> \o S("all"))
    BY <1>9 DEF Plan, Allgather, Gather, Relay
  <2> HIDE DEF E, R, S
  <2>2. E(R \o <<>>, 1, 0) /\ E(<<>> \o S("all"), 0, 1)
    BY <1>0, <1>1 DEF What
  <2>3. E((R \o <<>>) \o (<<>> \o S("all")), 1, 1)
    BY <1>0, <2>2
  <2> QED
    BY <1>9, <2>1, <2>3 DEF NUp, NDown, E
<1>10. CASE call = "prepare"
  <2>1. Plan(0, call) = L("prepare")
    BY <1>10 DEF Plan
  <2> QED
    BY <1>2, <1>10, <2>1 DEF NUp, NDown, LocalName, Call
<1>11. CASE call \in {"dataset", "write", "resize", "rename", "recreate"}
  <2>1. Plan(0, call) = L(call)
    BY <1>11 DEF Plan
  <2> QED
    BY <1>2, <1>11, <2>1 DEF NUp, NDown, LocalName
<1>12. CASE call = "create"
  <2>1. Plan(0, call) = (L("create") \o L("attach")) \o B
    BY <1>12, Tuples DEF Plan
  <2> HIDE DEF E, B, L
  <2>2. E(L("create") \o L("attach"), 0, 0)
    BY <1>0, <1>2 DEF LocalName, Call
  <2>3. E((L("create") \o L("attach")) \o B, 1, 1)
    BY <1>0, <1>4, <2>2
  <2> QED
    BY <1>12, <2>1, <2>3 DEF NUp, NDown, E
<1>13. CASE call = "open"
  <2> DEFINE s1 == L("load") \o B
             s2 == s1 \o L("attach")
  <2>1. Plan(0, call) = s2 \o B
    BY <1>13 DEF Plan, Open
  <2> HIDE DEF E, B, L
  <2>2. E(s1, 1, 1)
    BY <1>0, <1>2, <1>4 DEF LocalName
  <2> HIDE DEF s1
  <2>3. E(s2, 1, 1)
    BY <1>0, <1>2, <2>2 DEF LocalName
  <2> HIDE DEF s2
  <2>4. E(s2 \o B, 2, 2)
    BY <1>0, <1>4, <2>3
  <2> QED
    BY <1>13, <2>1, <2>4 DEF NUp, NDown, E
<1>14. CASE call = "close"
  <2> DEFINE m == <<Local("merge"), Local("detach"), Local("save")>>
             s1 == (R \o <<>>) \o m
             s2 == s1 \o L("seal")
             s3 == s2 \o B
  <2>1. Plan(0, call) = s3 \o L("drop")
    BY <1>14 DEF Plan, Close, Gather
  <2>2. m = (L("merge") \o L("detach")) \o L("save")
    <3> DEFINE a == Local("merge")
               b == Local("detach")
               c == Local("save")
    <3> HIDE DEF a, b, c
    <3>1. <<a>> \o <<b>> = <<a, b>> /\ <<a, b>> \o <<c>> = <<a, b, c>>
      BY Tuples
    <3> QED
      BY <3>1 DEF a, b, c
  <2> HIDE DEF E, B, L, m, R
  <2>3. E(L("merge") \o L("detach"), 0, 0)
    BY <1>0, <1>2 DEF LocalName
  <2>4. E(m, 0, 0)
    BY <1>0, <1>2, <2>2, <2>3 DEF LocalName
  <2>5. E(R \o <<>>, 1, 0)
    BY <1>0, <1>1
  <2>6. E(s1, 1, 0)
    BY <1>0, <2>4, <2>5
  <2> HIDE DEF s1
  <2>7. E(s2, 1, 0)
    BY <1>0, <1>2, <2>6 DEF LocalName
  <2> HIDE DEF s2
  <2>8. E(s3, 2, 1)
    BY <1>0, <1>4, <2>7
  <2> HIDE DEF s3
  <2>9. E(s3 \o L("drop"), 2, 1)
    BY <1>0, <1>2, <2>8 DEF LocalName
  <2> QED
    BY <1>14, <2>1, <2>9 DEF NUp, NDown, E
<1> QED
  BY <1>6, <1>7, <1>8, <1>9, <1>10, <1>11, <1>12, <1>13, <1>14 DEF Call

-----------------------------------------------------------------------------
(* The frames of a script: so many up to and with call k.                  *)

Total(n, b) == CHOOSE f : Recurs(f, n, 0, [i \in 1..n |-> 1], b)

LEMMA Totals ==
    ASSUME NEW n \in Nat, NEW b \in [1..n -> Nat]
    PROVE  /\ Total(n, b) \in [0..n -> Nat] /\ Total(n, b)[0] = 0
           /\ \A k \in 1..n : Total(n, b)[k] = Total(n, b)[k - 1] + b[k]
           /\ \A j, k \in 0..n : j <= k => Total(n, b)[j] <= Total(n, b)[k]
<1> DEFINE a == [i \in 1..n |-> 1]
           T == Total(n, b)
<1>1. Recurs(T, n, 0, a, b)
  <2>1. a \in [1..n -> Nat] /\ 0 \in Nat
    OBVIOUS
  <2> HIDE DEF a
  <2>2. \E f : Recurs(f, n, 0, a, b)
    BY <2>1, Recurrence
  <2> QED
    BY <2>2 DEF Total, a
<1> HIDE DEF T
<1>2. T \in [0..n -> Nat] /\ T[0] = 0 /\ \A k \in 1..n : T[k] = T[k - 1] * a[k] + b[k]
  BY <1>1 DEF Recurs
<1>3. ASSUME NEW k \in 1..n PROVE T[k] = T[k - 1] + b[k]
  <2>1. T[k] = T[k - 1] * a[k] + b[k] /\ a[k] = 1
    BY <1>2
  <2>2. k - 1 \in 0..n
    OBVIOUS
  <2>3. T[k - 1] \in Nat /\ b[k] \in Nat
    BY <1>2, <2>2
  <2>4. \A x \in Nat : x * 1 = x
    OBVIOUS
  <2> QED
    BY <2>1, <2>3, <2>4
<1>4. ASSUME NEW j \in 0..n PROVE \A k \in 0..n : j <= k => T[j] <= T[k]
  <2> DEFINE S == {k \in Nat : k \in 0..n /\ j <= k => T[j] <= T[k]}
  <2>1. 0 \in S
    BY <1>2
  <2>2. ASSUME NEW k \in Nat, k \in S PROVE k + 1 \in S
    <3> SUFFICES ASSUME k + 1 \in 0..n, j <= k + 1 PROVE T[j] <= T[k + 1]
      OBVIOUS
    <3>1. CASE j = k + 1
      BY <1>2, <3>1
    <3>2. CASE j <= k
      <4>1. T[j] <= T[k] /\ T[k] \in Nat /\ T[j] \in Nat
        BY <1>2, <2>2, <3>2
      <4>2. T[k + 1] = T[k] + b[k + 1] /\ b[k + 1] \in Nat
        <5>1. k + 1 \in 1..n /\ (k + 1) - 1 = k
          OBVIOUS
        <5> QED
          BY <1>3, <5>1
      <4>3. \A x, y, z \in Nat : x <= y => x <= y + z
        OBVIOUS
      <4> QED
        BY <4>1, <4>2, <4>3
    <3> QED
      BY <3>1, <3>2
  <2> HIDE DEF S
  <2>3. Nat \subseteq S
    BY <2>1, <2>2, Induction
  <2> QED
    BY <2>3 DEF S
<1> QED
  BY <1>2, <1>3, <1>4 DEF T

UpTo(q) == Total(Len(script), [i \in 1..Len(script) |-> NUp(q, script[i])])
DownTo(q) == Total(Len(script), [i \in 1..Len(script) |-> NDown(q, script[i])])

LEMMA ScriptTotals ==
    ASSUME script \in Scripts, NEW q \in Leaf
    PROVE  /\ Len(script) \in Nat \ {0}
           /\ \A k \in 1..Len(script) : script[k] \in Call /\ (script[k] = "init" <=> k = 1)
           /\ UpTo(q) \in [0..Len(script) -> Nat] /\ UpTo(q)[0] = 0
           /\ DownTo(q) \in [0..Len(script) -> Nat] /\ DownTo(q)[0] = 0
           /\ \A k \in 1..Len(script) :
                /\ NUp(q, script[k]) \in 0..2 /\ UpTo(q)[k] = UpTo(q)[k - 1] + NUp(q, script[k])
                /\ NDown(q, script[k]) \in 0..2
                /\ DownTo(q)[k] = DownTo(q)[k - 1] + NDown(q, script[k])
           /\ \A j, k \in 0..Len(script) : j <= k =>
                UpTo(q)[j] <= UpTo(q)[k] /\ DownTo(q)[j] <= DownTo(q)[k]
<1> DEFINE n == Len(script)
           u == [i \in 1..n |-> NUp(q, script[i])]
           d == [i \in 1..n |-> NDown(q, script[i])]
<1>1. script \in Seq(Call) /\ script # <<>> /\ \A k \in 1..n : script[k] = "init" <=> k = 1
  BY ScriptAssumption
<1>2. n \in Nat \ {0} /\ \A k \in 1..n : script[k] \in Call
  BY <1>1, EmptySeq
<1>3. \A call : NUp(q, call) \in 0..2 /\ NDown(q, call) \in 0..2
  BY DEF NUp, NDown
<1>4. u \in [1..n -> Nat] /\ d \in [1..n -> Nat]
  BY <1>3
<1>5. \A k \in 1..n : u[k] = NUp(q, script[k]) /\ d[k] = NDown(q, script[k])
  OBVIOUS
<1>6. UpTo(q) = Total(n, u) /\ DownTo(q) = Total(n, d)
  BY DEF UpTo, DownTo
<1> HIDE DEF u, d
<1>7. ASSUME NEW b \in [1..n -> Nat]
      PROVE  /\ Total(n, b) \in [0..n -> Nat] /\ Total(n, b)[0] = 0
             /\ \A k \in 1..n : Total(n, b)[k] = Total(n, b)[k - 1] + b[k]
             /\ \A j, k \in 0..n : j <= k => Total(n, b)[j] <= Total(n, b)[k]
  BY <1>2, Totals
<1> QED
  BY <1>1, <1>2, <1>3, <1>4, <1>5, <1>6, <1>7

-----------------------------------------------------------------------------
(* In a synchronizing call rank 0 has heard of everybody before it sends   *)
(* its last frame to anybody.                                              *)

Taking == {Recv(q) : q \in Leaf} \cup {Accept}
Calm(s) == \A i \in 1..Len(s) : s[i] \notin Taking
Releases(s) == \A q \in Leaf : \E j \in 1..Len(s) : s[j] \in Sends(q)
Followed(s) ==
    \A i \in 1..Len(s) : s[i] \in Taking =>
      \A q \in Leaf : \E j \in (i + 1)..Len(s) : s[j] \in Sends(q)

(* It accepts, in init, before anything else.                              *)
AcceptsFirst(s) ==
    \A i, j \in 1..Len(s) : i < j /\ s[j] = Accept => s[i] = Accept

LEMMA FollowedConcat ==
    ASSUME NEW S, NEW s \in Seq(S), NEW t \in Seq(S)
    PROVE  /\ s \o t \in Seq(S)
           /\ Followed(t) /\ Releases(t) => Followed(s \o t) /\ Releases(s \o t)
           /\ Followed(s) /\ Calm(t) => Followed(s \o t)
<1> DEFINE u == s \o t
           m == Len(s)
           n == Len(t)
<1>1. /\ u \in Seq(S) /\ m \in Nat /\ n \in Nat /\ Len(u) = m + n
      /\ \A i \in 1..m + n : u[i] = IF i <= m THEN s[i] ELSE t[i - m]
  BY ConcatProperties
<1>2. \A j \in 1..n : j + m \in 1..m + n /\ u[j + m] = t[j]
  BY <1>1
<1> HIDE DEF u, m, n
<1>3. ASSUME Followed(t), Releases(t) PROVE Followed(u) /\ Releases(u)
  <2>1. Releases(u)
    <3> SUFFICES ASSUME NEW q \in Leaf PROVE \E j \in 1..m + n : u[j] \in Sends(q)
      BY <1>1 DEF Releases
    <3>1. PICK j \in 1..n : t[j] \in Sends(q)
      BY <1>3 DEF Releases, n
    <3> QED
      BY <1>2, <3>1
  <2>2. ASSUME NEW i \in 1..m + n, u[i] \in Taking, NEW q \in Leaf
        PROVE  \E j \in (i + 1)..m + n : u[j] \in Sends(q)
    <3>1. CASE i <= m
      <4>1. PICK j \in 1..n : t[j] \in Sends(q)
        BY <1>3 DEF Releases, n
      <4>2. j + m \in (i + 1)..m + n
        BY <1>1, <3>1
      <4> QED
        BY <1>2, <4>1, <4>2
    <3>2. CASE i > m
      <4>0. u[i] = t[i - m]
        BY <1>1, <3>2
      <4>1. i - m \in 1..n /\ t[i - m] \in Taking
        BY <1>1, <2>2, <3>2, <4>0
      <4>2. PICK j \in ((i - m) + 1)..n : t[j] \in Sends(q)
        BY <1>3, <4>1 DEF Followed, n
      <4>3. j \in 1..n /\ j + m \in (i + 1)..m + n
        BY <1>1, <4>1
      <4> QED
        BY <1>2, <4>2, <4>3
    <3> QED
      BY <1>1, <3>1, <3>2
  <2>3. Followed(u)
    BY <1>1, <2>2 DEF Followed
  <2> QED
    BY <2>1, <2>3
<1>4. ASSUME Followed(s), Calm(t) PROVE Followed(u)
  <2> SUFFICES ASSUME NEW i \in 1..m + n, u[i] \in Taking, NEW q \in Leaf
               PROVE  \E j \in (i + 1)..m + n : u[j] \in Sends(q)
    BY <1>1 DEF Followed
  <2>1. i <= m
    <3> SUFFICES ASSUME i > m PROVE FALSE
      BY <1>1
    <3>1. i - m \in 1..n /\ t[i - m] \in Taking
      BY <1>1
    <3> QED
      BY <1>4, <3>1 DEF Calm, n
  <2>2. u[i] = s[i] /\ i \in 1..m
    BY <1>1, <2>1
  <2>3. PICK j \in (i + 1)..m : s[j] \in Sends(q)
    <3>1. s[i] \in Taking
      BY <2>2
    <3> QED
      BY <1>4, <2>2, <3>1 DEF Followed, m
  <2>4. j \in (i + 1)..m + n /\ u[j] = s[j]
    BY <1>1, <2>2
  <2> QED
    BY <2>3, <2>4
<1> QED
  BY <1>1, <1>3, <1>4 DEF u

(* What is left after a step still is so.                                  *)
LEMMA FollowedRest ==
    ASSUME NEW S, NEW s \in Seq(S), s # <<>>
    PROVE  /\ Followed(s) => Followed(Tail(s))
           /\ AcceptsFirst(s) => AcceptsFirst(Tail(s))
           /\ \A d \in S : d \notin Taking =>
                /\ Followed(s) => Followed(<<d>> \o Tail(s))
                /\ Calm(s) => Calm(<<d>> \o Tail(s))
                /\ AcceptsFirst(s) /\ Head(s) # Accept => AcceptsFirst(<<d>> \o Tail(s))
<1> DEFINE t == Tail(s)
           n == Len(s)
<1>1. /\ n \in Nat \ {0} /\ t \in Seq(S) /\ Len(t) = n - 1
      /\ \A i \in 1..n - 1 : t[i] = s[i + 1]
  BY HeadTailProperties, EmptySeq
<1> HIDE DEF t, n
<1>2. ASSUME Followed(s) PROVE Followed(t)
  <2> SUFFICES ASSUME NEW i \in 1..n - 1, t[i] \in Taking, NEW q \in Leaf
               PROVE  \E j \in (i + 1)..n - 1 : t[j] \in Sends(q)
    BY <1>1 DEF Followed
  <2>1. i + 1 \in 1..n /\ s[i + 1] \in Taking
    BY <1>1
  <2>2. PICK j \in ((i + 1) + 1)..n : s[j] \in Sends(q)
    BY <1>2, <2>1 DEF Followed, n
  <2>3. j - 1 \in (i + 1)..n - 1 /\ t[j - 1] = s[j]
    BY <1>1
  <2> QED
    BY <2>2, <2>3
<1>3. ASSUME AcceptsFirst(s) PROVE AcceptsFirst(t)
  <2> SUFFICES ASSUME NEW i \in 1..n - 1, NEW j \in 1..n - 1, i < j, t[j] = Accept
               PROVE  t[i] = Accept
    BY <1>1 DEF AcceptsFirst
  <2>1. i + 1 \in 1..n /\ j + 1 \in 1..n /\ i + 1 < j + 1 /\ s[j + 1] = Accept
    BY <1>1
  <2>2. s[i + 1] = Accept
    BY <1>3, <2>1 DEF AcceptsFirst, n
  <2> QED
    BY <1>1, <2>2
<1>4. ASSUME NEW d \in S, d \notin Taking
      PROVE  /\ Followed(s) => Followed(<<d>> \o t)
             /\ Calm(s) => Calm(<<d>> \o t)
             /\ AcceptsFirst(s) /\ s[1] # Accept => AcceptsFirst(<<d>> \o t)
  <2> DEFINE e == <<d>>
             u == e \o t
  <2>1. /\ e \in Seq(S) /\ Len(e) = 1 /\ e[1] = d
    OBVIOUS
  <2> HIDE DEF e
  <2>2. /\ Len(u) = n
        /\ \A i \in 1..n : u[i] = IF i <= 1 THEN e[i] ELSE t[i - 1]
    <3>1. /\ Len(u) = Len(e) + Len(t)
          /\ \A i \in 1..Len(e) + Len(t) : u[i] = IF i <= Len(e) THEN e[i] ELSE t[i - Len(e)]
      BY <1>1, <2>1, ConcatProperties
    <3>2. Len(e) + Len(t) = n
      BY <1>1, <2>1
    <3> HIDE DEF u
    <3> QED
      BY <2>1, <3>1, <3>2
  <2> HIDE DEF u
  <2>3. u[1] = d /\ \A i \in 2..n : u[i] = s[i]
    <3>1. u[1] = d
      <4>1. 1 \in 1..n /\ 1 <= 1
        BY <1>1
      <4>2. u[1] = e[1]
        BY <2>2, <4>1
      <4> QED
        BY <2>1, <4>2
    <3>2. ASSUME NEW i \in 2..n PROVE u[i] = s[i]
      <4>1. i \in 1..n /\ ~(i <= 1) /\ i - 1 \in 1..n - 1 /\ (i - 1) + 1 = i
        BY <1>1
      <4>2. u[i] = t[i - 1]
        BY <2>2, <4>1
      <4> QED
        BY <1>1, <4>1, <4>2
    <3> QED
      BY <3>1, <3>2
  <2>4. Followed(s) => Followed(u)
    <3> SUFFICES ASSUME Followed(s), NEW i \in 1..n, u[i] \in Taking, NEW q \in Leaf
                 PROVE  \E j \in (i + 1)..n : u[j] \in Sends(q)
      BY <2>2 DEF Followed
    <3>1. i \in 2..n /\ s[i] \in Taking
      BY <1>4, <2>3
    <3>2. PICK j \in (i + 1)..n : s[j] \in Sends(q)
      BY <3>1 DEF Followed, n
    <3> QED
      BY <2>3, <3>2
  <2>5. Calm(s) => Calm(u)
    BY <1>4, <2>2, <2>3 DEF Calm, n
  <2>6. AcceptsFirst(s) /\ s[1] # Accept => AcceptsFirst(u)
    <3> SUFFICES ASSUME AcceptsFirst(s), s[1] # Accept, NEW i \in 1..n PROVE u[i] # Accept
      BY <2>2 DEF AcceptsFirst
    <3>1. CASE i = 1
      BY <1>4, <2>3, <3>1 DEF Taking
    <3>2. CASE i \in 2..n
      <4>1. 1 \in 1..n /\ i \in 1..n /\ 1 < i
        BY <1>1, <3>2
      <4> QED
        BY <2>3, <3>2, <4>1 DEF AcceptsFirst, n
    <3> QED
      BY <1>1, <3>1, <3>2
  <2> QED
    BY <2>4, <2>5, <2>6 DEF u, e
<1>5. Head(s) = s[1]
  OBVIOUS
<1> QED
  BY <1>2, <1>3, <1>4, <1>5 DEF t

LEMMA RootSynchronizes ==
    ASSUME NEW q \in Leaf, NEW call \in Synchronizes
    PROVE  Followed(Plan(0, call)) /\ Plan(0, call) \in Seq(RootItem)
<1> DEFINE B == Barrier(0)
           R == RecvFromAll
           A == [i \in Leaf |-> Accept]
           S(w) == SendToAll(w)
           L(x) == <<Local(x)>>
           I(s) == s \in Seq(RootItem)
<1>1. /\ I(R) /\ I(A) /\ I(<<>>) /\ \A w \in What : I(S(w))
      /\ \A x \in LocalName : I(L(x))
  <2>1. \A x \in LocalName : Local(x) \in RootItem
    BY DEF RootItem
  <2>2. I(R) /\ I(A) /\ \A w \in What : I(S(w))
    BY ToAll DEF Exchanges
  <2>3. \A x \in LocalName : I(L(x))
    BY <2>1
  <2> QED
    BY <2>2, <2>3
<1>2. ASSUME NEW w \in What PROVE Calm(S(w)) /\ Followed(S(w)) /\ Releases(S(w))
  <2>1. Leaf = 1..(Size - 1) /\ Len(S(w)) = Size - 1 /\ \A i \in Leaf : S(w)[i] = Send(i, w)
    BY CommAssumption DEF SendToAll, Leaf
  <2> HIDE DEF S
  <2>2. \A i \in Leaf : Send(i, w) \notin Taking /\ Send(i, w) \in Sends(i)
    BY ItemKinds DEF Taking, Sends
  <2> QED
    BY <2>1, <2>2 DEF Calm, Followed, Releases
<1>3. \A x \in LocalName : Calm(L(x)) /\ Followed(L(x))
  <2> SUFFICES ASSUME NEW x \in LocalName PROVE Calm(L(x)) /\ Followed(L(x))
    OBVIOUS
  <2>1. Local(x) \notin Taking
    BY ItemKinds DEF Taking
  <2> QED
    BY <2>1 DEF Calm, Followed
<1>4. \A s, t : I(s) /\ I(t) => I(s \o t)
  OBVIOUS
<1>5. \A s, t : I(s) /\ I(t) /\ Followed(t) /\ Releases(t) => Followed(s \o t) /\ Releases(s \o t)
  BY FollowedConcat
<1>6. \A s, t : I(s) /\ I(t) /\ Followed(s) /\ Calm(t) => Followed(s \o t)
  BY FollowedConcat
<1> HIDE DEF I, R, A, S, L
<1>7. I(B) /\ Followed(B) /\ Releases(B)
  <2>1. B = R \o S("nothing")
    BY DEF Barrier, R, S
  <2> HIDE DEF B
  <2> QED
    BY <1>1, <1>2, <1>4, <1>5, <2>1 DEF What
<1> HIDE DEF B
<1>8. CASE call = "init"
  <2>1. Plan(0, call) = A \o S("nothing")
    BY <1>8 DEF Plan, Rendezvous, A, S
  <2> QED
    BY <1>1, <1>2, <1>4, <1>5, <2>1 DEF What, I
<1>9. CASE call = "barrier"
  <2>1. Plan(0, call) = B
    BY <1>9 DEF Plan, B
  <2> QED
    BY <1>7, <2>1 DEF I
<1>10. CASE call = "allgather"
  <2>1. Plan(0, call) = (R \o <<>>) \o (<<>> \o S("all"))
    BY <1>10 DEF Plan, Allgather, Gather, Relay, R, S
  <2>2. <<>> \o S("all") = S("all") /\ I(R \o <<>>)
    BY <1>1, <1>4 DEF I, What
  <2> QED
    BY <1>1, <1>2, <1>4, <1>5, <2>1, <2>2 DEF What, I
<1>11. CASE call = "create"
  <2>1. Plan(0, call) = (L("create") \o L("attach")) \o B
    BY <1>11, Tuples DEF Plan, L, B
  <2>2. I(L("create") \o L("attach"))
    BY <1>1, <1>4 DEF LocalName, Call
  <2> QED
    BY <1>4, <1>5, <1>7, <2>1, <2>2 DEF I
<1>12. CASE call = "open"
  <2> DEFINE s == (L("load") \o B) \o L("attach")
  <2>1. Plan(0, call) = s \o B
    BY <1>12 DEF Plan, Open, L, B
  <2>2. I(s)
    BY <1>1, <1>4, <1>7 DEF LocalName
  <2> HIDE DEF s
  <2> QED
    BY <1>4, <1>5, <1>7, <2>1, <2>2 DEF I
<1>13. CASE call = "close"
  <2> DEFINE m == <<Local("merge"), Local("detach"), Local("save")>>
             s == ((R \o <<>>) \o m) \o L("seal")
             u == s \o B
  <2>1. Plan(0, call) = u \o L("drop")
    BY <1>13 DEF Plan, Close, Gather, R, L, B
  <2>2. I(m)
    <3>1. Local("merge") \in RootItem /\ Local("detach") \in RootItem /\ Local("save") \in RootItem
      BY DEF RootItem, LocalName
    <3> QED
      BY <3>1 DEF I
  <2> HIDE DEF m
  <2>3. I(s)
    BY <1>1, <1>4, <2>2 DEF LocalName
  <2> HIDE DEF s
  <2>4. I(u) /\ Followed(u)
    BY <1>4, <1>5, <1>7, <2>3
  <2> HIDE DEF u
  <2> QED
    BY <1>1, <1>3, <1>4, <1>6, <2>1, <2>4 DEF I, LocalName
<1> QED
  BY <1>8, <1>9, <1>10, <1>11, <1>12, <1>13 DEF Synchronizes

LEMMA RootInit ==
    ASSUME NEW q \in Leaf
    PROVE  /\ Plan(0, "init") \in Seq(RootItem)
           /\ Count(Plan(0, "init"), {Recv(q)}) = 0
           /\ Count(Plan(0, "init"), Sends(q)) = 1
           /\ Count(Plan(0, "init"), {Accept}) = Size - 1
           /\ AcceptsFirst(Plan(0, "init"))
<1> DEFINE a == [i \in Leaf |-> Accept]
           s == SendToAll("nothing")
           u == a \o s
           N == Size - 1
<1>1. Plan(0, "init") = u
  BY DEF Plan, Rendezvous
<1>2. /\ a \in Seq(RootItem) /\ s \in Seq(RootItem)
      /\ Count(a, {Recv(q)}) = 0 /\ Count(a, Sends(q)) = 0 /\ Count(a, {Accept}) = Size - 1
      /\ Count(s, {Recv(q)}) = 0 /\ Count(s, Sends(q)) = 1 /\ Count(s, {Accept}) = 0
  BY ToAll DEF Exchanges, What
<1>3. N \in Nat /\ Leaf = 1..N /\ Len(a) = N /\ Len(s) = N
  BY CommAssumption DEF Leaf, SendToAll
<1>4. (\A i \in 1..N : a[i] = Accept) /\ \A i \in 1..N : s[i] # Accept
  BY <1>3, ItemKinds DEF SendToAll
<1> HIDE DEF a, s
<1>5. \A X : Count(u, X) = Count(a, X) + Count(s, X)
  BY <1>2, CountConcat
<1>6. /\ u \in Seq(RootItem) /\ Len(u) = N + N
      /\ \A i \in 1..N + N : u[i] = IF i <= N THEN a[i] ELSE s[i - N]
  <2> HIDE DEF N
  <2>1. /\ u \in Seq(RootItem) /\ Len(u) = Len(a) + Len(s)
        /\ \A i \in 1..Len(a) + Len(s) : u[i] = IF i <= Len(a) THEN a[i] ELSE s[i - Len(a)]
    BY <1>2, ConcatProperties
  <2> HIDE DEF u
  <2> QED
    BY <1>3, <2>1
<1> HIDE DEF u
<1>7. AcceptsFirst(u)
  <2> SUFFICES ASSUME NEW i \in 1..N + N, NEW j \in 1..N + N, i < j, u[j] = Accept
               PROVE  u[i] = Accept
    BY <1>3, <1>6 DEF AcceptsFirst
  <2>1. j <= N
    <3> SUFFICES ASSUME j > N PROVE FALSE
      BY <1>3
    <3>1. j - N \in 1..N /\ u[j] = s[j - N]
      BY <1>3, <1>6
    <3> QED
      BY <1>4, <3>1
  <2>2. i \in 1..N /\ u[i] = a[i]
    BY <1>3, <1>6, <2>1
  <2> QED
    BY <1>4, <2>2
<1> QED
  BY <1>1, <1>2, <1>3, <1>5, <1>6, <1>7

-----------------------------------------------------------------------------
(* The frames under way.                                                   *)

IsSeq(s) == \E S : s \in Seq(S)

Typed ==
    /\ RootInv
    /\ DOMAIN stream = Streams /\ \A s \in Streams : IsSeq(stream[s])
    /\ DOMAIN got = Rank
    /\ \A r \in Rank : at[r] = 0 => todo[r] = <<>>
    /\ Leaf # {} => todo[0] \in Seq(RootItem) /\ AcceptsFirst(todo[0])

(* What the call of rank q, and that of rank 0, have yet to send and to    *)
(* receive.                                                                *)
Sending(q) == Count(todo[q], Sends(0))
Receiving(q) == Count(todo[q], {Recv(0)})
Gathering(q) == Count(todo[0], {Recv(q)})
Releasing(q) == Count(todo[0], Sends(q))
Accepting == Count(todo[0], {Accept})

(* How many frames of the script have been sent and received.              *)
UpSent(q) == UpTo(q)[at[q]] - Sending(q)
UpGot(q) == UpTo(q)[at[0]] - Gathering(q)
DownSent(q) == DownTo(q)[at[0]] - Releasing(q)
DownGot(q) == DownTo(q)[at[q]] - Receiving(q)
Taken(q) == UpSent(q) - Len(stream[<<q, 0>>])

(* What is left of a call is no more than the call.                        *)
Within(q) ==
    /\ at[q] > 0 => /\ Sending(q) <= NUp(q, script[at[q]])
                    /\ Receiving(q) <= NDown(q, script[at[q]])
    /\ at[0] > 0 => /\ Gathering(q) <= NUp(q, script[at[0]])
                    /\ Releasing(q) <= NDown(q, script[at[0]])

(* Nothing is lost or invented; as long as rank 0 accepts, whoever it has  *)
(* accepted has sent one frame.                                            *)
Balanced(q) ==
    /\ DownSent(q) = DownGot(q) + Len(stream[<<0, q>>])
    /\ Accepting = 0 => Taken(q) = UpGot(q)
    /\ Accepting > 0 => Taken(q) \in {0, 1} /\ Gathering(q) = 0 /\ Releasing(q) = 1

Unaccepted == {q \in Leaf : Taken(q) = 0}

CountInv ==
    /\ \A q \in Leaf : Within(q) /\ Balanced(q)
    /\ Leaf # {} => /\ Accepting > 0 => at[0] = 1 /\ Accepting = Cardinality(Unaccepted)
                    /\ at[0] > 0 /\ script[at[0]] \in Synchronizes => Followed(todo[0])

-----------------------------------------------------------------------------
(* What a step does to the calls and the frames.                           *)

Resting == UNCHANGED <<stream, todo, got, at>>

Enters(r) ==
    /\ todo[r] = <<>> /\ at[r] < Len(script)
    /\ at' = [at EXCEPT ![r] = @ + 1]
    /\ todo' = [todo EXCEPT ![r] = Plan(r, script[at[r] + 1])]
    /\ got' = [got EXCEPT ![r] = <<>>]
    /\ stream' = stream

Passes(r) ==
    /\ todo[r] # <<>> /\ Head(todo[r]).do \in {"local", "drain"}
    /\ todo' = [todo EXCEPT ![r] = Tail(@)]
    /\ UNCHANGED <<stream, got, at>>

Gives(r) == DoSend(r, Own(r)) /\ at' = at

Hears(r, q) ==
    /\ todo[r] # <<>>
    /\ \/ Head(todo[r]).do = "recv" /\ q = Head(todo[r]).peer
       \/ Head(todo[r]).do = "accept" /\ q \in Leaf
    /\ Take(r, q) /\ at' = at

Effect(r) == Enters(r) \/ Passes(r) \/ Gives(r) \/ \E q : Hears(r, q)

LEMMA CommunicateEffect ==
    ASSUME NEW r \in Rank, Communicate(r)
    PROVE  script' = script /\ Effect(r)
<1>1. script' = script /\ at' = at
  BY DEF Communicate
<1>2. CASE DoSend(r, Own(r))
  BY <1>1, <1>2 DEF Effect, Gives
<1>3. CASE DoDrain(r)
  BY <1>1, <1>3 DEF Effect, Passes, DoDrain, At, Advance
<1>4. CASE DoRecv(r)
  <2>1. Hears(r, Head(todo[r]).peer)
    BY <1>1, <1>4 DEF Hears, DoRecv, At
  <2> QED
    BY <1>1, <2>1 DEF Effect
<1>5. CASE DoAccept(r)
  <2>1. PICK q \in Leaf : Hears(r, q)
    BY <1>1, <1>5 DEF Hears, DoAccept, At
  <2> QED
    BY <1>1, <2>1 DEF Effect
<1> QED
  BY <1>2, <1>3, <1>4, <1>5 DEF Communicate

LEMMA RankEffect ==
    ASSUME NEW r \in Rank, Step(r) \/ Dies(r)
    PROVE  script' = script /\ (Resting \/ Effect(r))
<1>1. CASE Enter(r)
  BY <1>1 DEF Enter, Enters, Effect
<1>2. ASSUME NEW w, LocalStep(r, w) PROVE script' = script /\ Passes(r)
  BY <1>2 DEF LocalStep, Doing, At, Advance, Passes
<1>3. CASE Communicate(r)
  BY <1>3, CommunicateEffect
<1>4. CASE Prepare(r)
  BY <1>2, <1>4 DEF Prepare, Effect
<1>5. CASE Create(r)
  BY <1>2, <1>5 DEF Create, Effect
<1>6. CASE Load(r)
  BY <1>2, <1>6 DEF Load, Effect
<1>7. CASE Attach(r)
  BY <1>2, <1>7 DEF Attach, Effect
<1>8. CASE Dataset(r)
  BY <1>2, <1>8 DEF Dataset, Effect
<1>9. CASE Resize(r)
  BY <1>2, <1>9 DEF Resize, Effect
<1>10. CASE Rename(r)
  BY <1>2, <1>10 DEF Rename, Effect
<1>11. CASE Recreate(r)
  BY <1>2, <1>11 DEF Recreate, Effect
<1>12. CASE Write(r)
  BY <1>2, <1>12 DEF Write, Effect
<1>13. CASE Merge(r)
  BY <1>2, <1>13 DEF Merge, Effect
<1>14. CASE Detach(r)
  BY <1>2, <1>14 DEF Detach, Effect
<1>15. CASE Save(r)
  BY <1>2, <1>15 DEF Save, Effect
<1>16. CASE Seal(r)
  BY <1>2, <1>16 DEF Seal, Effect
<1>17. CASE Drop(r)
  BY <1>2, <1>17 DEF Drop, Effect
<1>18. CASE CommFails(r) \/ LoadFails(r) \/ MergeFails(r) \/ SaveFails(r) \/ Dies(r)
  BY <1>18 DEF CommFails, LoadFails, MergeFails, SaveFails, Dies, Exit, Resting
<1> QED
  BY <1>1, <1>3, <1>4, <1>5, <1>6, <1>7, <1>8, <1>9, <1>10, <1>11, <1>12, <1>13,
     <1>14, <1>15, <1>16, <1>17, <1>18 DEF Step

LEMMA StepEffect ==
    ASSUME [Next]_vars
    PROVE  script' = script /\ (Resting \/ \E r \in Rank : Effect(r))
<1>1. CASE UNCHANGED vars
  BY <1>1 DEF vars, commVars, Resting
<1> QED
  BY <1>1, RankEffect DEF Next

LEMMA SeqFacts ==
    ASSUME NEW s, IsSeq(s)
    PROVE  /\ Len(s) \in Nat /\ (s = <<>> <=> Len(s) = 0)
           /\ \A x : /\ IsSeq(Append(s, x)) /\ Len(Append(s, x)) = Len(s) + 1
                     /\ \A i \in 1..Len(s) + 1 :
                          Append(s, x)[i] = IF i <= Len(s) THEN s[i] ELSE x
           /\ s # <<>> => /\ IsSeq(Tail(s)) /\ Len(Tail(s)) = Len(s) - 1 /\ Head(s) = s[1]
                          /\ \A i \in 1..Len(s) - 1 : Tail(s)[i] = s[i + 1]
<1>1. PICK S : s \in Seq(S)
  BY DEF IsSeq
<1>2. Len(s) \in Nat /\ (s = <<>> <=> Len(s) = 0)
  BY <1>1, EmptySeq
<1>3. ASSUME NEW x
      PROVE  /\ IsSeq(Append(s, x)) /\ Len(Append(s, x)) = Len(s) + 1
             /\ \A i \in 1..Len(s) + 1 : Append(s, x)[i] = IF i <= Len(s) THEN s[i] ELSE x
  <2> DEFINE T == S \cup {x}
  <2>1. s \in Seq(T) /\ x \in T
    BY <1>1
  <2> HIDE DEF T
  <2>2. /\ Append(s, x) \in Seq(T) /\ Len(Append(s, x)) = Len(s) + 1
        /\ \A i \in 1..Len(s) : Append(s, x)[i] = s[i]
        /\ Append(s, x)[Len(s) + 1] = x
    BY <2>1, AppendProperties
  <2>3. \A i \in 1..Len(s) + 1 : Append(s, x)[i] = IF i <= Len(s) THEN s[i] ELSE x
    BY <1>2, <2>2
  <2> QED
    BY <2>2, <2>3 DEF IsSeq
<1>4. ASSUME s # <<>>
      PROVE  /\ IsSeq(Tail(s)) /\ Len(Tail(s)) = Len(s) - 1 /\ Head(s) = s[1]
             /\ \A i \in 1..Len(s) - 1 : Tail(s)[i] = s[i + 1]
  <2>1. /\ Tail(s) \in Seq(S) /\ Len(Tail(s)) = Len(s) - 1
        /\ \A i \in 1..Len(s) - 1 : Tail(s)[i] = s[i + 1]
    BY <1>1, <1>4, HeadTailProperties
  <2> QED
    BY <2>1 DEF IsSeq
<1> QED
  BY <1>2, <1>3, <1>4

LEMMA LeafForms ==
    ASSUME NEW x \in LeafItem
    PROVE  /\ x.do \in {"send", "recv", "drain", "local"}
           /\ x.do = "send" => x.peer = 0 /\ \E w \in What : x = Send(0, w) /\ x.what = w
           /\ x.do = "recv" => x = Recv(0) /\ x.peer = 0
           /\ x.do \in {"drain", "local"} => x \notin Sends(0) /\ x # Recv(0)
<1>1. CASE \E w \in What : x = Send(0, w)
  BY <1>1 DEF Send, Sends
<1>2. CASE x = Recv(0)
  BY <1>2 DEF Recv, Send, Sends
<1>3. CASE x = Drain(0) \/ \E w \in LocalName : x = Local(w)
  BY <1>3 DEF Recv, Send, Sends, Drain, Local
<1> QED
  BY <1>1, <1>2, <1>3 DEF LeafItem

LEMMA RootForms ==
    ASSUME NEW x \in RootItem
    PROVE  /\ x.do \in {"send", "recv", "drain", "local", "accept"}
           /\ x.do = "send" =>
                \E q \in Leaf, w \in What : x = Send(q, w) /\ x.peer = q /\ x.what = w
           /\ x.do = "recv" => \E q \in Leaf : x = Recv(q) /\ x.peer = q
           /\ x.do = "accept" => x = Accept
           /\ x.do \in {"drain", "local"} =>
                /\ x \notin Taking /\ \A q \in Leaf : x \notin Sends(q)
<1>1. CASE \E q \in Leaf, w \in What : x = Send(q, w)
  BY <1>1 DEF Send
<1>2. CASE \E q \in Leaf : x = Recv(q)
  BY <1>2 DEF Recv
<1>3. CASE x = Accept
  BY <1>3 DEF Accept
<1>4. CASE (\E q \in Leaf : x = Drain(q)) \/ \E w \in LocalName : x = Local(w)
  <2>1. x.do \in {"drain", "local"}
    BY <1>4 DEF Drain, Local
  <2>2. x \notin Taking /\ \A q \in Leaf : x \notin Sends(q)
    BY <1>4, ItemKinds DEF Taking, Sends
  <2> QED
    BY <2>1, <2>2
<1> QED
  BY <1>1, <1>2, <1>3, <1>4 DEF RootItem

LEMMA LeafPlaces ==
    ASSUME NEW q \in Leaf
    PROVE  /\ q # 0 /\ q \in Rank /\ 0 \in Rank /\ Leaf # {}
           /\ <<q, 0>> \in Streams /\ <<0, q>> \in Streams /\ <<q, 0>> # <<0, q>>
           /\ \A p : p # q => <<q, 0>> # <<p, 0>> /\ <<0, q>> # <<0, p>>
<1>1. q # 0 /\ q \in Rank /\ 0 \in Rank /\ Leaf # {}
  <2>1. q # 0 /\ q \in Rank /\ 0 \in Rank
    BY CommAssumption DEF Leaf, Rank
  <2> QED
    BY <2>1
<1>2. <<q, 0>> \in Streams /\ <<0, q>> \in Streams
  BY DEF Streams
<1>3. \A p : <<q, 0>> = <<p, 0>> \/ <<0, q>> = <<0, p>> => p = q
  OBVIOUS
<1>4. <<q, 0>> # <<0, q>>
  BY <1>1
<1> QED
  BY <1>1, <1>2, <1>3, <1>4

-----------------------------------------------------------------------------
(* The steps of a rank q other than 0. *)

LeafEnters(q) ==
    /\ todo[q] = <<>> /\ at[q] < Len(script)
    /\ at'[q] = at[q] + 1 /\ todo'[q] = Plan(q, script[at[q] + 1]) /\ got'[q] = <<>>
    /\ stream'[<<q, 0>>] = stream[<<q, 0>>] /\ stream'[<<0, q>>] = stream[<<0, q>>]

LeafPasses(q) ==
    /\ todo[q] # <<>> /\ Head(todo[q]) \notin Sends(0) \cup {Recv(0)}
    /\ todo'[q] = Tail(todo[q]) /\ at'[q] = at[q] /\ got'[q] = got[q]
    /\ stream'[<<q, 0>>] = stream[<<q, 0>>] /\ stream'[<<0, q>>] = stream[<<0, q>>]

LeafSends(q, w) ==
    /\ todo[q] # <<>> /\ Head(todo[q]) = Send(0, w) /\ w \in What
    /\ todo'[q] \in {Tail(todo[q]), <<Drain(0)>> \o Tail(todo[q])}
    /\ at'[q] = at[q] /\ got'[q] = got[q]
    /\ stream'[<<q, 0>>] = Append(stream[<<q, 0>>], Content(q, Own(q), w))
    /\ stream'[<<0, q>>] = stream[<<0, q>>]

LeafTakes(q) ==
    /\ todo[q] # <<>> /\ Head(todo[q]) = Recv(0) /\ stream[<<0, q>>] # <<>>
    /\ todo'[q] = Tail(todo[q]) /\ at'[q] = at[q]
    /\ got'[q] = got[q] \o Head(stream[<<0, q>>])
    /\ stream'[<<0, q>>] = Tail(stream[<<0, q>>]) /\ stream'[<<q, 0>>] = stream[<<q, 0>>]

(* What rank p has and what is between it and rank 0 stays. *)
Kept(p) == todo'[p] = todo[p] /\ at'[p] = at[p] /\ got'[p] = got[p]
KeptStreams(p) == stream'[<<p, 0>>] = stream[<<p, 0>>] /\ stream'[<<0, p>>] = stream[<<0, p>>]
Domains == DOMAIN stream' = Streams /\ DOMAIN got' = Rank

LeafMove(q) ==
    LeafEnters(q) \/ LeafPasses(q) \/ (\E w : LeafSends(q, w)) \/ LeafTakes(q)

LEMMA LeafEffect ==
    ASSUME Typed, NEW q \in Leaf, Effect(q)
    PROVE  /\ LeafMove(q) /\ Kept(0) /\ Domains
           /\ \A p \in Leaf : p # q => Kept(p) /\ KeptStreams(p)
<1>1. /\ DOMAIN todo = Rank /\ DOMAIN got = Rank /\ DOMAIN at = Rank /\ DOMAIN stream = Streams
      /\ todo[q] \in Seq(LeafItem)
  BY DEF Typed, RootInv, Harmless
<1>2. /\ q # 0 /\ q \in Rank /\ 0 \in Rank /\ <<q, 0>> \in Streams /\ <<0, q>> \in Streams
      /\ <<q, 0>> # <<0, q>>
  BY LeafPlaces
<1>3. \A p \in Leaf : p # q => /\ p \in Rank /\ <<p, 0>> \in Streams /\ <<0, p>> \in Streams
                               /\ <<p, 0>> # <<q, 0>> /\ <<p, 0>> # <<0, q>>
                               /\ <<0, p>> # <<q, 0>> /\ <<0, p>> # <<0, q>>
  BY <1>2, LeafPlaces
<1>4. CASE Enters(q)
  BY <1>1, <1>2, <1>3, <1>4
     DEF Enters, LeafMove, LeafEnters, Kept, KeptStreams, Domains
<1>5. todo[q] # <<>> => Head(todo[q]) \in LeafItem
  BY <1>1, HeadTailProperties
<1>6. CASE Passes(q)
  <2>1. Head(todo[q]) \notin Sends(0) \cup {Recv(0)}
    BY <1>5, <1>6, LeafForms DEF Passes
  <2> QED
    BY <1>1, <1>2, <1>3, <1>6, <2>1
       DEF Passes, LeafMove, LeafPasses, Kept, KeptStreams, Domains
<1>7. CASE Gives(q)
  <2> DEFINE h == Head(todo[q])
             rest == (IF Buffered THEN <<>> ELSE <<Drain(0)>>) \o Tail(todo[q])
  <2>1. h \in LeafItem /\ h.do = "send" /\ todo[q] # <<>>
    BY <1>5, <1>7 DEF Gives, DoSend, At
  <2>2. PICK w \in What : h = Send(0, w) /\ h.what = w /\ h.peer = 0
    BY <2>1, LeafForms
  <2>3. /\ stream' = [stream EXCEPT ![<<q, 0>>] = Append(@, Content(q, Own(q), w))]
        /\ todo' = [todo EXCEPT ![q] = rest]
        /\ got' = got /\ at' = at
    BY <1>7, <2>2 DEF Gives, DoSend
  <2>4. rest \in {Tail(todo[q]), <<Drain(0)>> \o Tail(todo[q])}
    <3>1. Tail(todo[q]) \in Seq(LeafItem)
      BY <1>1, <2>1, HeadTailProperties
    <3> QED
      BY <3>1, ConcatEmptySeq
  <2> HIDE DEF rest, h
  <2>5. LeafSends(q, w)
    BY <1>1, <1>2, <2>1, <2>2, <2>3, <2>4 DEF LeafSends, h
  <2> QED
    BY <1>1, <1>2, <1>3, <2>3, <2>5 DEF LeafMove, Kept, KeptStreams, Domains
<1>8. ASSUME NEW p, Hears(q, p) PROVE LeafTakes(q) /\ Kept(0) /\ Domains
           /\ \A x \in Leaf : x # q => Kept(x) /\ KeptStreams(x)
  <2>1. Head(todo[q]) \in LeafItem /\ todo[q] # <<>>
    BY <1>5, <1>8 DEF Hears
  <2>2. Head(todo[q]) = Recv(0) /\ p = 0
    BY <1>8, <2>1, LeafForms DEF Hears
  <2>3. /\ stream[<<0, q>>] # <<>>
        /\ got' = [got EXCEPT ![q] = @ \o Head(stream[<<0, q>>])]
        /\ stream' = [stream EXCEPT ![<<0, q>>] = Tail(@)]
        /\ todo' = [todo EXCEPT ![q] = Tail(@)] /\ at' = at
    BY <1>8, <2>2 DEF Hears, Take, Advance
  <2> QED
    BY <1>1, <1>2, <1>3, <2>1, <2>2, <2>3 DEF LeafTakes, Kept, KeptStreams, Domains
<1> QED
  BY <1>4, <1>6, <1>7, <1>8 DEF Effect, LeafMove

(* The steps of rank 0. *)

RootEnters ==
    /\ todo[0] = <<>> /\ at[0] < Len(script)
    /\ at'[0] = at[0] + 1 /\ todo'[0] = Plan(0, script[at[0] + 1]) /\ got'[0] = <<>>
    /\ stream' = stream

RootPasses ==
    /\ todo[0] # <<>> /\ Head(todo[0]) \notin Taking
    /\ \A q \in Leaf : Head(todo[0]) \notin Sends(q)
    /\ todo'[0] = Tail(todo[0]) /\ at'[0] = at[0] /\ got'[0] = got[0]
    /\ stream' = stream

RootSends(p, w) ==
    /\ todo[0] # <<>> /\ Head(todo[0]) = Send(p, w) /\ p \in Leaf /\ w \in What
    /\ todo'[0] \in {Tail(todo[0]), <<Drain(p)>> \o Tail(todo[0])}
    /\ at'[0] = at[0] /\ got'[0] = got[0]
    /\ stream' = [stream EXCEPT ![<<0, p>>] = Append(@, Content(0, Own(0), w))]

RootTakes(p) ==
    /\ todo[0] # <<>> /\ Head(todo[0]) \in {Recv(p), Accept}
    /\ p \in Leaf /\ stream[<<p, 0>>] # <<>>
    /\ todo'[0] = Tail(todo[0]) /\ at'[0] = at[0]
    /\ got'[0] = got[0] \o Head(stream[<<p, 0>>])
    /\ stream' = [stream EXCEPT ![<<p, 0>>] = Tail(@)]

RootMove ==
    RootEnters \/ RootPasses \/ (\E p, w : RootSends(p, w)) \/ \E p : RootTakes(p)

LEMMA RootEffect ==
    ASSUME Typed, Leaf # {}, Effect(0)
    PROVE  /\ RootMove /\ Domains
           /\ \A q \in Leaf : Kept(q)
<1>1. /\ DOMAIN todo = Rank /\ DOMAIN got = Rank /\ DOMAIN at = Rank /\ DOMAIN stream = Streams
      /\ todo[0] \in Seq(RootItem)
  BY DEF Typed, RootInv
<1>2. 0 \in Rank /\ \A q \in Leaf : q # 0 /\ q \in Rank
  BY LeafPlaces
<1>3. CASE Enters(0)
  BY <1>1, <1>2, <1>3 DEF Enters, RootMove, RootEnters, Kept, Domains
<1>4. todo[0] # <<>> => Head(todo[0]) \in RootItem /\ Tail(todo[0]) \in Seq(RootItem)
  BY <1>1, HeadTailProperties
<1>5. CASE Passes(0)
  <2>1. Head(todo[0]) \notin Taking /\ \A q \in Leaf : Head(todo[0]) \notin Sends(q)
    BY <1>4, <1>5, RootForms DEF Passes
  <2> QED
    BY <1>1, <1>2, <1>5, <2>1 DEF Passes, RootMove, RootPasses, Kept, Domains
<1>6. CASE Gives(0)
  <2> DEFINE h == Head(todo[0])
  <2>1. h \in RootItem /\ h.do = "send" /\ todo[0] # <<>> /\ Tail(todo[0]) \in Seq(RootItem)
    BY <1>4, <1>6 DEF Gives, DoSend, At
  <2>2. PICK p \in Leaf, w \in What : h = Send(p, w) /\ h.what = w /\ h.peer = p
    BY <2>1, RootForms
  <2> DEFINE rest == (IF Buffered THEN <<>> ELSE <<Drain(p)>>) \o Tail(todo[0])
  <2>3. /\ stream' = [stream EXCEPT ![<<0, p>>] = Append(@, Content(0, Own(0), w))]
        /\ todo' = [todo EXCEPT ![0] = rest]
        /\ got' = got /\ at' = at
    BY <1>6, <2>2 DEF Gives, DoSend
  <2>4. rest \in {Tail(todo[0]), <<Drain(p)>> \o Tail(todo[0])}
    BY <2>1, ConcatEmptySeq
  <2> HIDE DEF rest, h
  <2>5. RootSends(p, w)
    BY <1>1, <1>2, <2>1, <2>2, <2>3, <2>4 DEF RootSends, h
  <2> QED
    BY <1>1, <1>2, <2>3, <2>5 DEF RootMove, Kept, Domains
<1>7. ASSUME NEW p, Hears(0, p) PROVE RootTakes(p) /\ Domains /\ \A q \in Leaf : Kept(q)
  <2>1. Head(todo[0]) \in RootItem /\ todo[0] # <<>>
    BY <1>4, <1>7 DEF Hears
  <2>2. Head(todo[0]) \in {Recv(p), Accept} /\ p \in Leaf
    BY <1>7, <2>1, RootForms DEF Hears
  <2>3. /\ stream[<<p, 0>>] # <<>>
        /\ got' = [got EXCEPT ![0] = @ \o Head(stream[<<p, 0>>])]
        /\ stream' = [stream EXCEPT ![<<p, 0>>] = Tail(@)]
        /\ todo' = [todo EXCEPT ![0] = Tail(@)] /\ at' = at
    BY <1>7 DEF Hears, Take, Advance
  <2> QED
    BY <1>1, <1>2, <2>1, <2>2, <2>3 DEF RootTakes, Kept, Domains
<1> QED
  BY <1>3, <1>5, <1>6, <1>7 DEF Effect, RootMove

-----------------------------------------------------------------------------
(* Types *)

LEMMA RootPlan ==
    ASSUME NEW q \in Leaf, NEW call \in Call
    PROVE  Plan(0, call) \in Seq(RootItem) /\ AcceptsFirst(Plan(0, call))
<1>1. CASE call = "init"
  BY <1>1, RootInit
<1>2. CASE call # "init"
  <2>1. Plan(0, call) \in Seq(RootItem) /\ Count(Plan(0, call), {Accept}) = 0
    BY <1>2, RootTable DEF Exchanges
  <2>2. \A i \in 1..Len(Plan(0, call)) : Plan(0, call)[i] # Accept
    BY <2>1, CountNat
  <2> QED
    BY <2>1, <2>2 DEF AcceptsFirst
<1> QED
  BY <1>1, <1>2

LEMMA TypedStep ==
    ASSUME Typed, RootInv', [Next]_vars
    PROVE  Typed'
<1>1. script' = script /\ (Resting \/ \E r \in Rank : Effect(r))
  BY StepEffect
<1>2. CASE Resting
  BY <1>1, <1>2 DEF Typed, Resting, IsSeq
<1>3. /\ DOMAIN stream = Streams /\ \A s \in Streams : IsSeq(stream[s])
      /\ \A r \in Rank : at[r] \in Nat /\ (at[r] = 0 => todo[r] = <<>>)
      /\ Leaf # {} => todo[0] \in Seq(RootItem) /\ AcceptsFirst(todo[0])
  BY DEF Typed, RootInv
<1>4. ASSUME NEW q \in Leaf, Effect(q) PROVE Typed'
  <2>1. /\ LeafMove(q) /\ Kept(0) /\ Domains
        /\ \A p \in Leaf : p # q => Kept(p) /\ KeptStreams(p)
    BY <1>4, LeafEffect
  <2>2. IsSeq(stream'[<<q, 0>>]) /\ IsSeq(stream'[<<0, q>>])
    <3>1. IsSeq(stream[<<q, 0>>]) /\ IsSeq(stream[<<0, q>>])
      BY <1>3, LeafPlaces
    <3>2. ASSUME NEW w, LeafSends(q, w) PROVE IsSeq(stream'[<<q, 0>>]) /\ IsSeq(stream'[<<0, q>>])
      BY <3>1, <3>2, SeqFacts DEF LeafSends
    <3>3. CASE LeafTakes(q)
      BY <3>1, <3>3, SeqFacts DEF LeafTakes
    <3> QED
      BY <2>1, <3>1, <3>2, <3>3 DEF LeafMove, LeafEnters, LeafPasses
  <2>3. \A s \in Streams : IsSeq(stream'[s])
    <3>0. \A s \in Streams : \E p \in Leaf : s = <<p, 0>> \/ s = <<0, p>>
      BY DEF Streams
    <3> SUFFICES ASSUME NEW p \in Leaf
                 PROVE  IsSeq(stream'[<<p, 0>>]) /\ IsSeq(stream'[<<0, p>>])
      BY <3>0
    <3>1. CASE p = q
      BY <2>2, <3>1
    <3>2. CASE p # q
      BY <1>3, <2>1, <3>2, LeafPlaces DEF KeptStreams
    <3> QED
      BY <3>1, <3>2
  <2>4. at'[q] = 0 => todo'[q] = <<>>
    <3>1. at[q] \in Nat /\ (at[q] = 0 => todo[q] = <<>>)
      BY <1>3, LeafPlaces
    <3>2. CASE LeafEnters(q)
      BY <3>1, <3>2 DEF LeafEnters
    <3>3. CASE at'[q] = at[q] /\ todo[q] # <<>>
      BY <3>1, <3>3
    <3> QED
      BY <2>1, <3>2, <3>3 DEF LeafMove, LeafPasses, LeafSends, LeafTakes
  <2>5. \A r \in Rank : at'[r] = 0 => todo'[r] = <<>>
    <3>1. \A r \in Rank : r = 0 \/ r \in Leaf
      BY CommAssumption DEF Rank, Leaf
    <3> QED
      BY <1>3, <2>1, <2>4, <3>1 DEF Kept
  <2> QED
    BY <1>3, <2>1, <2>3, <2>5 DEF Typed, Domains, Kept
<1>5. ASSUME Effect(0), Leaf # {} PROVE Typed'
  <2>1. RootMove /\ Domains /\ \A q \in Leaf : Kept(q)
    BY <1>5, RootEffect
  <2>2. \A s \in Streams : IsSeq(stream'[s])
    <3>1. CASE stream' = stream
      BY <1>3, <3>1
    <3>2. ASSUME NEW p, NEW w, RootSends(p, w) PROVE \A s \in Streams : IsSeq(stream'[s])
      <4>1. <<0, p>> \in Streams
        BY <3>2, LeafPlaces DEF RootSends
      <4> QED
        BY <1>3, <3>2, <4>1, SeqFacts DEF RootSends
    <3>3. ASSUME NEW p, RootTakes(p) PROVE \A s \in Streams : IsSeq(stream'[s])
      <4>1. <<p, 0>> \in Streams
        BY <3>3, LeafPlaces DEF RootTakes
      <4> QED
        BY <1>3, <3>3, <4>1, SeqFacts DEF RootTakes
    <3> QED
      BY <2>1, <3>1, <3>2, <3>3 DEF RootMove, RootEnters, RootPasses
  <2>3. /\ at'[0] = 0 => todo'[0] = <<>>
        /\ todo'[0] \in Seq(RootItem) /\ AcceptsFirst(todo'[0])
    <3>1. at[0] \in Nat /\ (at[0] = 0 => todo[0] = <<>>)
      BY <1>3, CommAssumption DEF Rank
    <3>2. PICK q \in Leaf : TRUE
      BY <1>5
    <3>3. CASE RootEnters
      <4>1. script[at[0] + 1] \in Call
        <5>1. script \in Seq(Call) /\ at[0] + 1 \in 1..Len(script)
          BY <3>1, <3>3, ScriptAssumption DEF RootEnters, Typed, RootInv
        <5> QED
          BY <5>1
      <4> QED
        BY <3>1, <3>2, <3>3, <4>1, RootPlan DEF RootEnters
    <3>4. ASSUME todo[0] # <<>>
          PROVE  /\ Tail(todo[0]) \in Seq(RootItem) /\ AcceptsFirst(Tail(todo[0]))
                 /\ \A p \in Leaf : <<Drain(p)>> \o Tail(todo[0]) \in Seq(RootItem)
      <4>1. \A p \in Leaf : <<Drain(p)>> \in Seq(RootItem)
        BY DEF RootItem
      <4> QED
        BY <1>3, <1>5, <3>4, <4>1, HeadTailProperties, FollowedRest
    <3>5. CASE RootPasses \/ \E p : RootTakes(p)
      BY <3>1, <3>4, <3>5 DEF RootPasses, RootTakes
    <3>6. ASSUME NEW p, NEW w, RootSends(p, w)
          PROVE  todo'[0] \in Seq(RootItem) /\ AcceptsFirst(todo'[0])
      <4>1. Head(todo[0]) # Accept
        BY <3>6, ItemKinds DEF RootSends
      <4>2. Drain(p) \in RootItem /\ Drain(p) \notin Taking
        <5>1. p \in Leaf
          BY <3>6 DEF RootSends
        <5>2. Drain(p) \in RootItem
          BY <5>1 DEF RootItem
        <5>3. Drain(p) \notin Taking
          BY ItemKinds DEF Taking
        <5> QED
          BY <5>2, <5>3
      <4> QED
        BY <1>3, <1>5, <3>4, <3>6, <4>1, <4>2, FollowedRest DEF RootSends
    <3> QED
      BY <2>1, <3>1, <3>3, <3>5, <3>6 DEF RootMove, RootSends
  <2>4. \A r \in Rank : at'[r] = 0 => todo'[r] = <<>>
    <3>1. \A r \in Rank : r = 0 \/ r \in Leaf
      BY CommAssumption DEF Rank, Leaf
    <3> QED
      BY <1>3, <2>1, <2>3, <3>1 DEF Kept
  <2> QED
    BY <2>1, <2>2, <2>3, <2>4 DEF Typed, Domains
<1>6. ASSUME Effect(0), Leaf = {} PROVE Typed'
  <2>1. Rank = {0} /\ Streams = {}
    <3>1. Streams = {}
      BY <1>6 DEF Streams
    <3>2. Rank = {0}
      BY <1>6, CommAssumption DEF Rank, Leaf
    <3> QED
      BY <3>1, <3>2
  <2>2. DOMAIN stream' = Streams /\ DOMAIN got' = Rank
    BY <1>6 DEF Typed, Effect, Enters, Passes, Gives, DoSend, Hears, Take
  <2>3. at'[0] = 0 => todo'[0] = <<>>
    <3>1. at[0] \in Nat /\ (at[0] = 0 => todo[0] = <<>>) /\ DOMAIN at = Rank
      BY <1>3, <2>1 DEF Typed, RootInv
    <3>2. CASE Enters(0)
      BY <2>1, <3>1, <3>2 DEF Enters
    <3>3. CASE Passes(0) \/ Gives(0) \/ \E q : Hears(0, q)
      BY <3>1, <3>3 DEF Passes, Gives, Hears, DoSend, At
    <3> QED
      BY <1>6, <3>2, <3>3 DEF Effect
  <2> QED
    BY <1>6, <2>1, <2>2, <2>3 DEF Typed
<1>7. \A r \in Rank : r = 0 \/ r \in Leaf
  BY CommAssumption DEF Rank, Leaf
<1> QED
  BY <1>1, <1>2, <1>4, <1>5, <1>6, <1>7

-----------------------------------------------------------------------------
(* The counts *)

LEMMA Numbers ==
    ASSUME Typed, NEW q \in Leaf
    PROVE  /\ script \in Scripts /\ at[q] \in 0..Len(script) /\ at[0] \in 0..Len(script)
           /\ Sending(q) \in Nat /\ Receiving(q) \in Nat /\ Gathering(q) \in Nat
           /\ Releasing(q) \in Nat /\ Accepting \in Nat
           /\ Len(stream[<<q, 0>>]) \in Nat /\ Len(stream[<<0, q>>]) \in Nat
           /\ todo[q] = <<>> => Sending(q) = 0 /\ Receiving(q) = 0
           /\ todo[0] = <<>> => Gathering(q) = 0 /\ Releasing(q) = 0 /\ Accepting = 0
           /\ at[q] = 0 => todo[q] = <<>>
           /\ at[0] = 0 => todo[0] = <<>>
<1>1. /\ q \in Rank /\ 0 \in Rank /\ Leaf # {} /\ <<q, 0>> \in Streams /\ <<0, q>> \in Streams
  BY LeafPlaces
<1>2. /\ script \in Scripts /\ at[q] \in Nat /\ at[0] \in Nat /\ at[q] <= Len(script)
      /\ at[0] <= Len(script) /\ Len(script) \in Nat
      /\ todo[q] \in Seq(LeafItem) /\ todo[0] \in Seq(RootItem)
      /\ at[q] = 0 => todo[q] = <<>>
      /\ at[0] = 0 => todo[0] = <<>>
  BY <1>1, ScriptAssumption DEF Typed, RootInv, Harmless
<1>3. Len(stream[<<q, 0>>]) \in Nat /\ Len(stream[<<0, q>>]) \in Nat
  BY <1>1, SeqFacts DEF Typed
<1>4. \A X : Count(todo[q], X) \in Nat /\ Count(todo[0], X) \in Nat
  BY <1>2, CountNat
<1>5. \A X : Count(<<>>, X) = 0
  BY CountOne
<1>6. /\ Sending(q) \in Nat /\ Receiving(q) \in Nat /\ Gathering(q) \in Nat
      /\ Releasing(q) \in Nat /\ Accepting \in Nat
  BY <1>4 DEF Sending, Receiving, Gathering, Releasing, Accepting
<1>7. /\ todo[q] = <<>> => Sending(q) = 0 /\ Receiving(q) = 0
      /\ todo[0] = <<>> => Gathering(q) = 0 /\ Releasing(q) = 0 /\ Accepting = 0
  BY <1>5 DEF Sending, Receiving, Gathering, Releasing, Accepting
<1>8. at[q] \in 0..Len(script) /\ at[0] \in 0..Len(script)
  BY <1>2
<1> QED
  BY <1>2, <1>3, <1>6, <1>7, <1>8

LeafCounts(q) ==
    \/ /\ at'[q] = at[q] + 1 /\ at'[q] <= Len(script)
       /\ Sending(q) = 0 /\ Receiving(q) = 0
       /\ Sending(q)' = NUp(q, script[at[q] + 1]) /\ Receiving(q)' = NDown(q, script[at[q] + 1])
       /\ KeptStreams(q)
    \/ /\ at'[q] = at[q] /\ Sending(q)' = Sending(q) /\ Receiving(q)' = Receiving(q)
       /\ KeptStreams(q)
    \/ /\ at'[q] = at[q] /\ Sending(q)' = Sending(q) - 1 /\ Receiving(q)' = Receiving(q)
       /\ Sending(q) > 0
       /\ Len(stream'[<<q, 0>>]) = Len(stream[<<q, 0>>]) + 1
       /\ stream'[<<0, q>>] = stream[<<0, q>>]
    \/ /\ at'[q] = at[q] /\ Sending(q)' = Sending(q) /\ Receiving(q)' = Receiving(q) - 1
       /\ Receiving(q) > 0
       /\ Len(stream'[<<0, q>>]) = Len(stream[<<0, q>>]) - 1 /\ Len(stream[<<0, q>>]) > 0
       /\ stream'[<<q, 0>>] = stream[<<q, 0>>]

LEMMA LeafCounting ==
    ASSUME Typed, NEW q \in Leaf, LeafMove(q)
    PROVE  LeafCounts(q)
<1>1. /\ script \in Scripts /\ at[q] \in 0..Len(script)
      /\ Sending(q) \in Nat /\ Receiving(q) \in Nat
      /\ Len(stream[<<q, 0>>]) \in Nat /\ Len(stream[<<0, q>>]) \in Nat
      /\ todo[q] = <<>> => Sending(q) = 0 /\ Receiving(q) = 0
  BY Numbers
<1>2. /\ todo[q] \in Seq(LeafItem)
      /\ IsSeq(stream[<<q, 0>>]) /\ IsSeq(stream[<<0, q>>])
  BY LeafPlaces DEF Typed, RootInv, Harmless
<1>3. todo[q] # <<>> =>
        \A X : /\ Count(todo[q], X)
                    = Count(Tail(todo[q]), X) + (IF Head(todo[q]) \in X THEN 1 ELSE 0)
               /\ Count(Tail(todo[q]), X) \in Nat
               /\ \A d \in LeafItem : d \notin X =>
                    Count(<<d>> \o Tail(todo[q]), X) = Count(Tail(todo[q]), X)
  BY <1>2, CountRest
<1>4. CASE LeafEnters(q)
  <2> DEFINE call == script[at[q] + 1]
  <2>1. call \in Call
    <3>1. at[q] + 1 \in 1..Len(script)
      BY <1>1, <1>4 DEF LeafEnters
    <3> QED
      BY <1>1, <3>1, ScriptTotals
  <2>2. /\ Count(Plan(q, call), {Recv(0)}) = NDown(q, call)
        /\ Count(Plan(q, call), Sends(0)) = NUp(q, call)
    BY <2>1, LeafTable DEF Exchanges
  <2>3. Sending(q)' = NUp(q, call) /\ Receiving(q)' = NDown(q, call)
    BY <1>4, <2>2 DEF LeafEnters, Sending, Receiving
  <2> QED
    BY <1>1, <1>4, <2>3 DEF LeafEnters, LeafCounts, KeptStreams
<1>5. CASE LeafPasses(q)
  <2>1. Sending(q)' = Sending(q) /\ Receiving(q)' = Receiving(q)
    BY <1>3, <1>5 DEF LeafPasses, Sending, Receiving
  <2> QED
    BY <1>5, <2>1 DEF LeafPasses, LeafCounts, KeptStreams
<1>6. ASSUME NEW w, LeafSends(q, w) PROVE LeafCounts(q)
  <2>1. Head(todo[q]) \in Sends(0) /\ Head(todo[q]) \notin {Recv(0)}
    BY <1>6, ItemKinds DEF LeafSends, Sends
  <2>2. Drain(0) \in LeafItem /\ Drain(0) \notin Sends(0) /\ Drain(0) \notin {Recv(0)}
    BY LeafItems, ItemKinds DEF Sends
  <2>3. \A X : Drain(0) \notin X => Count(todo'[q], X) = Count(Tail(todo[q]), X)
    BY <1>3, <1>6, <2>2 DEF LeafSends
  <2>4. Receiving(q)' = Receiving(q)
    <3>1. Count(todo[q], {Recv(0)}) = Count(Tail(todo[q]), {Recv(0)})
      BY <1>3, <1>6, <2>1 DEF LeafSends
    <3> QED
      BY <2>2, <2>3, <3>1 DEF Receiving
  <2>5. Sending(q)' = Sending(q) - 1 /\ Sending(q) > 0
    <3>1. /\ Count(todo[q], Sends(0)) = Count(Tail(todo[q]), Sends(0)) + 1
          /\ Count(Tail(todo[q]), Sends(0)) \in Nat
      BY <1>3, <1>6, <2>1 DEF LeafSends
    <3>2. Count(todo'[q], Sends(0)) = Count(Tail(todo[q]), Sends(0))
      BY <2>2, <2>3
    <3> QED
      BY <3>1, <3>2 DEF Sending
  <2>6. Len(stream'[<<q, 0>>]) = Len(stream[<<q, 0>>]) + 1
    BY <1>2, <1>6, SeqFacts DEF LeafSends
  <2> QED
    BY <1>6, <2>4, <2>5, <2>6 DEF LeafSends, LeafCounts
<1>7. CASE LeafTakes(q)
  <2>1. Head(todo[q]) \notin Sends(0) /\ Head(todo[q]) \in {Recv(0)}
    BY <1>7, ItemKinds DEF LeafTakes, Sends
  <2>2. Receiving(q) = Receiving(q)' + 1 /\ Receiving(q)' \in Nat /\ Sending(q)' = Sending(q)
    BY <1>3, <1>7, <2>1 DEF LeafTakes, Receiving, Sending
  <2>3. Len(stream'[<<0, q>>]) = Len(stream[<<0, q>>]) - 1 /\ Len(stream[<<0, q>>]) > 0
    BY <1>2, <1>7, SeqFacts DEF LeafTakes
  <2> QED
    BY <1>7, <2>2, <2>3 DEF LeafTakes, LeafCounts
<1> QED
  BY <1>4, <1>5, <1>6, <1>7 DEF LeafMove

(* A step of rank q leaves the balance of q, *)
LEMMA LeafBalance ==
    ASSUME Typed, script' = script, NEW q \in Leaf, Within(q), Balanced(q), LeafCounts(q), Kept(0)
    PROVE  /\ Within(q)' /\ Balanced(q)' /\ Taken(q)' = Taken(q) /\ Accepting' = Accepting
           /\ DownGot(q)' = DownGot(q) + (Len(stream[<<0, q>>]) - Len(stream'[<<0, q>>]))
<1> DEFINE n == Len(script)
           U == UpTo(q)
           D == DownTo(q)
<1>1. /\ at[q] \in 0..n /\ at[0] \in 0..n /\ script \in Scripts
      /\ Sending(q) \in Nat /\ Receiving(q) \in Nat /\ Gathering(q) \in Nat
      /\ Releasing(q) \in Nat /\ Accepting \in Nat
      /\ Len(stream[<<q, 0>>]) \in Nat /\ Len(stream[<<0, q>>]) \in Nat
  BY Numbers
<1>2. /\ n \in Nat /\ \A k \in 0..n : U[k] \in Nat /\ D[k] \in Nat
      /\ \A k \in 1..n : /\ NUp(q, script[k]) \in 0..2 /\ NDown(q, script[k]) \in 0..2
                         /\ U[k] = U[k - 1] + NUp(q, script[k])
                         /\ D[k] = D[k - 1] + NDown(q, script[k])
  BY <1>1, ScriptTotals
<1>3. UpTo(q)' = U /\ DownTo(q)' = D
  BY DEF UpTo, DownTo
<1>4. /\ at'[0] = at[0] /\ Gathering(q)' = Gathering(q) /\ Releasing(q)' = Releasing(q)
      /\ Accepting' = Accepting
  BY DEF Kept, Gathering, Releasing, Accepting
<1>5. /\ UpGot(q)' = UpGot(q) /\ DownSent(q)' = DownSent(q)
  BY <1>3, <1>4 DEF UpGot, DownSent
<1> DEFINE a == at[q]
           b == at'[q]
           s == Sending(q)
           s2 == Sending(q)'
           v == Receiving(q)
           v2 == Receiving(q)'
           lu == Len(stream[<<q, 0>>])
           lu2 == Len(stream'[<<q, 0>>])
           ld == Len(stream[<<0, q>>])
           ld2 == Len(stream'[<<0, q>>])
           P(k) == NUp(q, script[k])
           Q(k) == NDown(q, script[k])
<1>6. \/ /\ b = a + 1 /\ b <= n /\ s = 0 /\ v = 0 /\ s2 = P(a + 1) /\ v2 = Q(a + 1)
         /\ lu2 = lu /\ ld2 = ld
      \/ b = a /\ s2 = s /\ v2 = v /\ lu2 = lu /\ ld2 = ld
      \/ b = a /\ s2 = s - 1 /\ v2 = v /\ lu2 = lu + 1 /\ ld2 = ld
      \/ b = a /\ s2 = s /\ v2 = v - 1 /\ lu2 = lu /\ ld2 = ld - 1
  BY DEF LeafCounts, KeptStreams
<1>7. a > 0 => s <= P(a) /\ v <= Q(a)
  BY DEF Within
<1>8. /\ UpSent(q) = U[a] - s /\ UpSent(q)' = U[b] - s2
      /\ DownGot(q) = D[a] - v /\ DownGot(q)' = D[b] - v2
      /\ Taken(q) = UpSent(q) - lu /\ Taken(q)' = UpSent(q)' - lu2
  BY <1>3 DEF UpSent, DownGot, Taken
<1>9. /\ a \in 0..n /\ s \in Nat /\ v \in Nat /\ lu \in Nat /\ ld \in Nat
      /\ \A k \in 1..n : /\ P(k) \in 0..2 /\ Q(k) \in 0..2
                         /\ U[k] = U[k - 1] + P(k) /\ D[k] = D[k - 1] + Q(k)
  BY <1>1, <1>2
<1>10. U[a] \in Nat /\ D[a] \in Nat /\ n \in Nat
  BY <1>2, <1>9
<1> HIDE DEF n, U, D, a, b, s, s2, v, v2, lu, lu2, ld, ld2, P, Q
<1> DEFINE G == /\ (U[b] - s2) - lu2 = (U[a] - s) - lu /\ D[b] - v2 = (D[a] - v) + (ld - ld2)
                /\ b > 0 => s2 <= P(b) /\ v2 <= Q(b)
<1>11. ASSUME /\ b = a + 1 /\ b <= n /\ s = 0 /\ v = 0 /\ s2 = P(a + 1) /\ v2 = Q(a + 1)
              /\ lu2 = lu /\ ld2 = ld
       PROVE  G
  <2>1. a + 1 \in 1..n /\ (a + 1) - 1 = a
    BY <1>9, <1>10, <1>11
  <2>2. /\ U[b] = U[a] + P(b) /\ D[b] = D[a] + Q(b) /\ P(b) \in Nat /\ Q(b) \in Nat
    BY <1>9, <1>11, <2>1
  <2>3. /\ (U[b] - s2) - lu2 = (U[a] - s) - lu /\ D[b] - v2 = (D[a] - v) + (ld - ld2)
    BY <1>9, <1>10, <1>11, <2>2
  <2> QED
    BY <1>11, <2>2, <2>3
<1>12. ASSUME b = a PROVE G
  <2>1. /\ (U[b] - s2) - lu2 = (U[a] - s) - lu /\ D[b] - v2 = (D[a] - v) + (ld - ld2)
    BY <1>6, <1>9, <1>10, <1>12
  <2>2. s2 <= s /\ v2 <= v /\ s2 \in Int /\ v2 \in Int
    BY <1>6, <1>9, <1>12
  <2>3. b > 0 => P(b) \in Int /\ Q(b) \in Int
    BY <1>9, <1>12
  <2>4. b > 0 => s2 <= P(b) /\ v2 <= Q(b)
    BY <1>7, <1>9, <1>12, <2>2, <2>3
  <2> QED
    BY <2>1, <2>4
<1>13. G
  BY <1>6, <1>9, <1>11, <1>12
<1>14. Taken(q)' = Taken(q) /\ DownGot(q)' = DownGot(q) + (ld - ld2)
  BY <1>8, <1>13
<1>15. Within(q)'
  BY <1>4, <1>13 DEF Within, P, Q, b, s2, v2
<1>16. Balanced(q)'
  <2>1. ld \in Nat /\ ld2 \in Int /\ DownGot(q) \in Int
    BY <1>6, <1>8, <1>9, <1>10
  <2>2. DownGot(q)' + ld2 = DownGot(q) + ld
    BY <1>14, <2>1
  <2> QED
    BY <1>4, <1>5, <1>14, <2>2 DEF Balanced, ld, ld2
<1> QED
  BY <1>4, <1>14, <1>15, <1>16 DEF ld, ld2

(* and of every other rank. *)
LEMMA OthersBalance ==
    ASSUME script' = script, NEW q \in Leaf, Kept(0), Kept(q), KeptStreams(q)
    PROVE  /\ Within(q) => Within(q)'
           /\ Balanced(q) => Balanced(q)'
           /\ Taken(q)' = Taken(q)
<1>1. UpTo(q)' = UpTo(q) /\ DownTo(q)' = DownTo(q)
  BY DEF UpTo, DownTo
<1>2. /\ Sending(q)' = Sending(q) /\ Receiving(q)' = Receiving(q) /\ Gathering(q)' = Gathering(q)
      /\ Releasing(q)' = Releasing(q) /\ Accepting' = Accepting
      /\ at'[q] = at[q] /\ at'[0] = at[0]
  BY DEF Kept, Sending, Receiving, Gathering, Releasing, Accepting
<1>3. /\ UpSent(q)' = UpSent(q) /\ UpGot(q)' = UpGot(q) /\ DownSent(q)' = DownSent(q)
      /\ DownGot(q)' = DownGot(q) /\ Taken(q)' = Taken(q)
  BY <1>1, <1>2 DEF UpSent, UpGot, DownSent, DownGot, Taken, KeptStreams
<1> QED
  BY <1>2, <1>3 DEF Within, Balanced, KeptStreams

(* The counts, in a step of rank 0. *)
RootCounts(q) ==
    \/ /\ at'[0] = at[0] + 1 /\ at'[0] <= Len(script) /\ KeptStreams(q)
       /\ Gathering(q) = 0 /\ Releasing(q) = 0 /\ Accepting = 0
       /\ at[0] = 0 => Gathering(q)' = 0 /\ Releasing(q)' = 1 /\ Accepting' = Size - 1
       /\ at[0] > 0 => /\ Gathering(q)' = NUp(q, script[at[0] + 1])
                       /\ Releasing(q)' = NDown(q, script[at[0] + 1])
                       /\ Accepting' = 0
    \/ /\ at'[0] = at[0] /\ KeptStreams(q)
       /\ Gathering(q)' = Gathering(q) /\ Releasing(q)' = Releasing(q) /\ Accepting' = Accepting
    \/ /\ at'[0] = at[0] /\ stream'[<<q, 0>>] = stream[<<q, 0>>]
       /\ Len(stream'[<<0, q>>]) = Len(stream[<<0, q>>]) + 1
       /\ Gathering(q)' = Gathering(q) /\ Releasing(q)' = Releasing(q) - 1 /\ Releasing(q) > 0
       /\ Accepting' = 0 /\ Accepting = 0
    \/ /\ at'[0] = at[0] /\ stream'[<<0, q>>] = stream[<<0, q>>]
       /\ Len(stream'[<<q, 0>>]) = Len(stream[<<q, 0>>]) - 1
       /\ Gathering(q)' = Gathering(q) - 1 /\ Gathering(q) > 0 /\ Releasing(q)' = Releasing(q)
       /\ Accepting' = 0 /\ Accepting = 0

RootAccepts(p) ==
    /\ p \in Leaf /\ at'[0] = at[0]
    /\ Accepting > 0 /\ Accepting' = Accepting - 1
    /\ stream'[<<0, p>>] = stream[<<0, p>>]
    /\ Len(stream'[<<p, 0>>]) = Len(stream[<<p, 0>>]) - 1 /\ Len(stream[<<p, 0>>]) > 0
    /\ \A q \in Leaf : /\ Gathering(q)' = Gathering(q) /\ Releasing(q)' = Releasing(q)
                       /\ q # p => KeptStreams(q)

LEMMA RootCounting ==
    ASSUME Typed, Leaf # {}, RootMove
    PROVE  (\A q \in Leaf : RootCounts(q)) \/ \E p : RootAccepts(p)
<1>1. /\ script \in Scripts /\ at[0] \in 0..Len(script) /\ Accepting \in Nat
      /\ todo[0] = <<>> => Accepting = 0 /\ \A q \in Leaf : Gathering(q) = 0 /\ Releasing(q) = 0
  BY Numbers
<1>2. /\ todo[0] \in Seq(RootItem) /\ AcceptsFirst(todo[0]) /\ DOMAIN stream = Streams
      /\ \A s \in Streams : IsSeq(stream[s])
  BY DEF Typed
<1>3. todo[0] # <<>> =>
        \A X : /\ Count(todo[0], X)
                    = Count(Tail(todo[0]), X) + (IF Head(todo[0]) \in X THEN 1 ELSE 0)
               /\ Count(Tail(todo[0]), X) \in Nat
               /\ \A d \in RootItem : d \notin X =>
                    Count(<<d>> \o Tail(todo[0]), X) = Count(Tail(todo[0]), X)
  BY <1>2, CountRest
<1>4. \A q \in Leaf : /\ <<q, 0>> \in Streams /\ <<0, q>> \in Streams /\ <<q, 0>> # <<0, q>>
                      /\ \A p \in Leaf : /\ <<q, 0>> # <<0, p>> /\ <<0, q>> # <<p, 0>>
                                         /\ p # q => <<q, 0>> # <<p, 0>> /\ <<0, q>> # <<0, p>>
  <2> SUFFICES ASSUME NEW q \in Leaf, NEW p \in Leaf
               PROVE  /\ <<q, 0>> \in Streams /\ <<0, q>> \in Streams /\ <<q, 0>> # <<0, q>>
                      /\ <<q, 0>> # <<0, p>> /\ <<0, q>> # <<p, 0>>
                      /\ p # q => <<q, 0>> # <<p, 0>> /\ <<0, q>> # <<0, p>>
    OBVIOUS
  <2>1. /\ <<q, 0>> \in Streams /\ <<0, q>> \in Streams /\ <<q, 0>> # <<0, q>>
        /\ p # q => <<q, 0>> # <<p, 0>> /\ <<0, q>> # <<0, p>>
    BY LeafPlaces
  <2>2. q # 0 /\ p # 0
    BY LeafPlaces
  <2>3. <<q, 0>> # <<0, p>> /\ <<0, q>> # <<p, 0>>
    BY <2>2
  <2> QED
    BY <2>1, <2>3
<1>5. CASE RootEnters
  <2> SUFFICES ASSUME NEW q \in Leaf PROVE RootCounts(q)
    OBVIOUS
  <2> DEFINE call == script[at[0] + 1]
  <2>1. call \in Call /\ (call = "init" <=> at[0] = 0)
    <3>1. at[0] + 1 \in 1..Len(script) /\ (at[0] + 1 = 1 <=> at[0] = 0)
      BY <1>1, <1>5 DEF RootEnters
    <3> QED
      BY <1>1, <3>1, ScriptTotals
  <2>2. at[0] = 0 => Gathering(q)' = 0 /\ Releasing(q)' = 1 /\ Accepting' = Size - 1
    BY <1>5, <2>1, RootInit DEF RootEnters, Gathering, Releasing, Accepting
  <2>3. at[0] > 0 => /\ Gathering(q)' = NUp(q, call) /\ Releasing(q)' = NDown(q, call)
                     /\ Accepting' = 0
    <3> SUFFICES ASSUME at[0] > 0
                 PROVE  /\ Gathering(q)' = NUp(q, call) /\ Releasing(q)' = NDown(q, call)
                        /\ Accepting' = 0
      OBVIOUS
    <3>1. call # "init"
      BY <1>1, <2>1
    <3>2. Exchanges(Plan(0, call), RootItem, q, NUp(q, call), NDown(q, call))
      BY <2>1, <3>1, RootTable
    <3>3. todo'[0] = Plan(0, call)
      BY <1>5 DEF RootEnters
    <3> QED
      BY <3>2, <3>3 DEF Exchanges, Gathering, Releasing, Accepting
  <2> QED
    BY <1>1, <1>5, <2>2, <2>3 DEF RootEnters, RootCounts, KeptStreams
<1>6. CASE RootPasses
  <2> SUFFICES ASSUME NEW q \in Leaf PROVE RootCounts(q)
    OBVIOUS
  <2>1. /\ Head(todo[0]) \notin {Recv(q)} /\ Head(todo[0]) \notin Sends(q)
        /\ Head(todo[0]) \notin {Accept} /\ todo[0] # <<>> /\ todo'[0] = Tail(todo[0])
    BY <1>6 DEF RootPasses, Taking
  <2>2. /\ Gathering(q)' = Gathering(q) /\ Releasing(q)' = Releasing(q)
        /\ Accepting' = Accepting
    BY <1>3, <2>1 DEF Gathering, Releasing, Accepting
  <2> QED
    BY <1>6, <2>2 DEF RootPasses, RootCounts, KeptStreams
<1>7. ASSUME todo[0] # <<>>, Head(todo[0]) # Accept
      PROVE  Count(Tail(todo[0]), {Accept}) = 0 /\ Accepting = 0
  <2>1. \A i \in 1..Len(todo[0]) : todo[0][i] # Accept
    <3>1. Len(todo[0]) \in Nat \ {0} /\ todo[0][1] # Accept
      BY <1>2, <1>7, EmptySeq
    <3> QED
      BY <1>2, <3>1 DEF AcceptsFirst
  <2>2. Count(todo[0], {Accept}) = 0
    BY <1>2, <2>1, CountNat
  <2> QED
    BY <1>3, <1>7, <2>2 DEF Accepting
<1>8. ASSUME NEW p, NEW w, RootSends(p, w), NEW q \in Leaf PROVE RootCounts(q)
  <2>1. /\ p \in Leaf /\ w \in What /\ todo[0] # <<>> /\ Head(todo[0]) = Send(p, w)
        /\ todo'[0] \in {Tail(todo[0]), <<Drain(p)>> \o Tail(todo[0])} /\ at'[0] = at[0]
        /\ stream' = [stream EXCEPT ![<<0, p>>] = Append(@, Content(0, Own(0), w))]
    BY <1>8 DEF RootSends
  <2>2. /\ Head(todo[0]) \notin {Recv(q)} /\ Head(todo[0]) # Accept
        /\ Head(todo[0]) \in Sends(q) <=> p = q
    BY <2>1, ItemKinds DEF Sends
  <2>3. Drain(p) \in RootItem /\ Drain(p) \notin {Recv(q)} \cup Sends(q) \cup {Accept}
    <3>1. Drain(p) \in RootItem
      BY <2>1 DEF RootItem
    <3>2. Drain(p) \notin {Recv(q)} \cup Sends(q) \cup {Accept}
      BY ItemKinds DEF Sends
    <3> QED
      BY <3>1, <3>2
  <2>4. \A X : Drain(p) \notin X => Count(todo'[0], X) = Count(Tail(todo[0]), X)
    BY <1>3, <2>1, <2>3
  <2>5. Accepting' = 0 /\ Accepting = 0
    BY <1>7, <2>1, <2>2, <2>3, <2>4 DEF Accepting
  <2>6. Gathering(q)' = Gathering(q)
    <3>1. Count(todo[0], {Recv(q)}) = Count(Tail(todo[0]), {Recv(q)})
      BY <1>3, <2>1, <2>2
    <3> QED
      BY <2>3, <2>4, <3>1 DEF Gathering
  <2>7. CASE p = q
    <3>1. Releasing(q)' = Releasing(q) - 1 /\ Releasing(q) > 0
      <4>1. /\ Count(todo[0], Sends(q)) = Count(Tail(todo[0]), Sends(q)) + 1
            /\ Count(Tail(todo[0]), Sends(q)) \in Nat
        BY <1>3, <2>1, <2>2, <2>7
      <4>2. Count(todo'[0], Sends(q)) = Count(Tail(todo[0]), Sends(q))
        BY <2>3, <2>4
      <4> QED
        BY <4>1, <4>2 DEF Releasing
    <3>2. /\ Len(stream'[<<0, q>>]) = Len(stream[<<0, q>>]) + 1
          /\ stream'[<<q, 0>>] = stream[<<q, 0>>]
      <4>1. /\ stream'[<<0, q>>] = Append(stream[<<0, q>>], Content(0, Own(0), w))
            /\ stream'[<<q, 0>>] = stream[<<q, 0>>] /\ IsSeq(stream[<<0, q>>])
        BY <1>2, <1>4, <2>1, <2>7
      <4> QED
        BY <4>1, SeqFacts
    <3> QED
      BY <2>1, <2>5, <2>6, <3>1, <3>2 DEF RootCounts
  <2>8. CASE p # q
    <3>1. Releasing(q)' = Releasing(q)
      <4>1. Count(todo[0], Sends(q)) = Count(Tail(todo[0]), Sends(q))
        BY <1>3, <2>1, <2>2, <2>8
      <4> QED
        BY <2>3, <2>4, <4>1 DEF Releasing
    <3>2. KeptStreams(q)
      BY <1>2, <1>4, <2>1, <2>8 DEF KeptStreams
    <3> QED
      BY <2>1, <2>5, <2>6, <3>1, <3>2 DEF RootCounts
  <2> QED
    BY <2>7, <2>8
<1>9. ASSUME NEW p, RootTakes(p) PROVE (\A q \in Leaf : RootCounts(q)) \/ RootAccepts(p)
  <2>1. /\ p \in Leaf /\ todo[0] # <<>> /\ todo'[0] = Tail(todo[0]) /\ at'[0] = at[0]
        /\ stream' = [stream EXCEPT ![<<p, 0>>] = Tail(@)] /\ stream[<<p, 0>>] # <<>>
        /\ Head(todo[0]) \in {Recv(p), Accept}
    BY <1>9 DEF RootTakes
  <2>2. /\ Len(stream'[<<p, 0>>]) = Len(stream[<<p, 0>>]) - 1 /\ Len(stream[<<p, 0>>]) > 0
        /\ stream'[<<0, p>>] = stream[<<0, p>>]
    <3>1. /\ stream'[<<p, 0>>] = Tail(stream[<<p, 0>>])
          /\ stream'[<<0, p>>] = stream[<<0, p>>] /\ IsSeq(stream[<<p, 0>>])
      BY <1>2, <1>4, <2>1
    <3>2. /\ Len(Tail(stream[<<p, 0>>])) = Len(stream[<<p, 0>>]) - 1
          /\ Len(stream[<<p, 0>>]) \in Nat /\ Len(stream[<<p, 0>>]) # 0
      BY <2>1, <3>1, SeqFacts
    <3> QED
      BY <3>1, <3>2
  <2>3. \A q \in Leaf : q # p => KeptStreams(q)
    BY <1>2, <1>4, <2>1 DEF KeptStreams
  <2>4. \A q \in Leaf : Head(todo[0]) \notin Sends(q) /\ Releasing(q)' = Releasing(q)
    <3> SUFFICES ASSUME NEW q \in Leaf
                 PROVE  Head(todo[0]) \notin Sends(q) /\ Releasing(q)' = Releasing(q)
      OBVIOUS
    <3>1. Head(todo[0]) \notin Sends(q)
      BY <2>1, ItemKinds DEF Sends
    <3> QED
      BY <1>3, <2>1, <3>1 DEF Releasing
  <2>5. CASE Head(todo[0]) = Accept
    <3>1. \A q \in Leaf : Gathering(q)' = Gathering(q)
      <4> SUFFICES ASSUME NEW q \in Leaf PROVE Gathering(q)' = Gathering(q)
        OBVIOUS
      <4>1. Head(todo[0]) \notin {Recv(q)}
        BY <2>5, ItemKinds
      <4> QED
        BY <1>3, <2>1, <4>1 DEF Gathering
    <3>2. Accepting > 0 /\ Accepting' = Accepting - 1
      <4>1. Accepting = Accepting' + 1 /\ Accepting' \in Nat
        BY <1>3, <2>1, <2>5 DEF Accepting
      <4>2. \A x \in Nat, y \in Nat : x = y + 1 => x > 0 /\ y = x - 1
        OBVIOUS
      <4> QED
        BY <1>1, <4>1, <4>2
    <3> QED
      BY <2>1, <2>2, <2>3, <2>4, <3>1, <3>2 DEF RootAccepts
  <2>6. CASE Head(todo[0]) = Recv(p)
    <3> SUFFICES ASSUME NEW q \in Leaf PROVE RootCounts(q)
      OBVIOUS
    <3>1. Accepting' = 0 /\ Accepting = 0
      <4>1. Head(todo[0]) # Accept
        BY <2>6, ItemKinds
      <4> QED
        BY <1>7, <2>1, <4>1 DEF Accepting
    <3>2. CASE q = p
      <4>1. Gathering(q)' = Gathering(q) - 1 /\ Gathering(q) > 0
        <5>1. Gathering(q) = Gathering(q)' + 1 /\ Gathering(q)' \in Nat
          BY <1>3, <2>1, <2>6, <3>2 DEF Gathering
        <5> QED
          BY <5>1
      <4> QED
        BY <2>1, <2>2, <2>4, <3>1, <3>2, <4>1 DEF RootCounts
    <3>3. CASE q # p
      <4>1. Head(todo[0]) \notin {Recv(q)}
        BY <2>6, <3>3, ItemKinds
      <4>2. Gathering(q)' = Gathering(q)
        BY <1>3, <2>1, <4>1 DEF Gathering
      <4> QED
        BY <2>1, <2>3, <2>4, <3>1, <3>3, <4>2 DEF RootCounts
    <3> QED
      BY <3>2, <3>3
  <2> QED
    BY <2>1, <2>5, <2>6
<1> QED
  BY <1>5, <1>6, <1>8, <1>9 DEF RootMove

(* A step of rank 0 that accepts nobody leaves the balance of every rank; *)
(* when it begins to accept, nobody has been heard of.                     *)
LEMMA RootBalance ==
    ASSUME Typed, script' = script, NEW q \in Leaf, Within(q), Balanced(q), RootCounts(q), Kept(q)
    PROVE  /\ Within(q)' /\ Balanced(q)'
           /\ Accepting' > 0 =>
                \/ at'[0] = at[0] /\ Accepting' = Accepting /\ Taken(q)' = Taken(q)
                \/ at[0] = 0 /\ at'[0] = 1 /\ Accepting' = Size - 1 /\ Taken(q)' = 0
<1> DEFINE n == Len(script)
           U == UpTo(q)
           D == DownTo(q)
<1>1. /\ at[q] \in 0..n /\ at[0] \in 0..n /\ script \in Scripts
      /\ Sending(q) \in Nat /\ Receiving(q) \in Nat /\ Gathering(q) \in Nat
      /\ Releasing(q) \in Nat /\ Accepting \in Nat
      /\ Len(stream[<<q, 0>>]) \in Nat /\ Len(stream[<<0, q>>]) \in Nat
  BY Numbers
<1>2. /\ n \in Nat \ {0} /\ \A k \in 0..n : U[k] \in Nat /\ D[k] \in Nat
      /\ U[0] = 0 /\ D[0] = 0
      /\ \A k \in 1..n : /\ NUp(q, script[k]) \in 0..2 /\ NDown(q, script[k]) \in 0..2
                         /\ U[k] = U[k - 1] + NUp(q, script[k])
                         /\ D[k] = D[k - 1] + NDown(q, script[k])
      /\ script[1] = "init"
  <2>1. n \in Nat \ {0} /\ 1 \in 1..n
    BY <1>1, ScriptTotals
  <2> QED
    BY <1>1, <2>1, ScriptTotals
<1>3. UpTo(q)' = U /\ DownTo(q)' = D
  BY DEF UpTo, DownTo
<1>4. at'[q] = at[q] /\ Sending(q)' = Sending(q) /\ Receiving(q)' = Receiving(q)
  BY DEF Kept, Sending, Receiving
<1>5. UpSent(q)' = UpSent(q) /\ DownGot(q)' = DownGot(q)
  BY <1>3, <1>4 DEF UpSent, DownGot
<1> DEFINE a == at[0]
           b == at'[0]
           g == Gathering(q)
           g2 == Gathering(q)'
           v == Releasing(q)
           v2 == Releasing(q)'
           c == Accepting
           c2 == Accepting'
           lu == Len(stream[<<q, 0>>])
           lu2 == Len(stream'[<<q, 0>>])
           ld == Len(stream[<<0, q>>])
           ld2 == Len(stream'[<<0, q>>])
           P(k) == NUp(q, script[k])
           Q(k) == NDown(q, script[k])
<1>6. \/ /\ b = a + 1 /\ b <= n /\ lu2 = lu /\ ld2 = ld /\ g = 0 /\ v = 0 /\ c = 0
         /\ a = 0 => g2 = 0 /\ v2 = 1 /\ c2 = Size - 1
         /\ a > 0 => g2 = P(a + 1) /\ v2 = Q(a + 1) /\ c2 = 0
      \/ b = a /\ lu2 = lu /\ ld2 = ld /\ g2 = g /\ v2 = v /\ c2 = c
      \/ b = a /\ lu2 = lu /\ ld2 = ld + 1 /\ g2 = g /\ v2 = v - 1 /\ c2 = 0 /\ c = 0
      \/ b = a /\ lu2 = lu - 1 /\ ld2 = ld /\ g2 = g - 1 /\ v2 = v /\ c2 = 0 /\ c = 0
  BY DEF RootCounts, KeptStreams
<1>7. /\ a \in 0..n /\ g \in Nat /\ v \in Nat /\ c \in Nat /\ lu \in Nat /\ ld \in Nat
      /\ n \in Nat \ {0} /\ U[a] \in Nat /\ D[a] \in Nat /\ U[0] = 0 /\ D[0] = 0
      /\ P(1) = 1 /\ Q(1) = 1
      /\ \A k \in 1..n : /\ P(k) \in 0..2 /\ Q(k) \in 0..2
                         /\ U[k] = U[k - 1] + P(k) /\ D[k] = D[k - 1] + Q(k)
  BY <1>1, <1>2 DEF NUp, NDown
<1>8. a > 0 => g <= P(a) /\ v <= Q(a)
  BY DEF Within
<1>9. /\ D[a] - v = DownGot(q) + ld
      /\ c = 0 => UpSent(q) - lu = U[a] - g
      /\ c > 0 => UpSent(q) - lu \in {0, 1} /\ g = 0 /\ v = 1
  BY DEF Balanced, DownSent, UpGot, Taken
<1>10. /\ UpSent(q) \in Int /\ DownGot(q) \in Int
  BY <1>1, <1>2 DEF UpSent, DownGot
<1> DEFINE x == UpSent(q)
           y == DownGot(q)
           G == /\ b > 0 => g2 <= P(b) /\ v2 <= Q(b)
                /\ D[b] - v2 = y + ld2
                /\ c2 = 0 => x - lu2 = U[b] - g2
                /\ c2 > 0 => /\ x - lu2 \in {0, 1} /\ g2 = 0 /\ v2 = 1
                             /\ \/ b = a /\ c2 = c /\ x - lu2 = x - lu
                                \/ a = 0 /\ b = 1 /\ c2 = Size - 1 /\ x - lu2 = 0
<1>11. UpSent(q)' = x /\ DownGot(q)' = y
  BY <1>5
<1>12. /\ D[a] - v = y + ld /\ x \in Int /\ y \in Int
       /\ c = 0 => x - lu = U[a] - g
       /\ c > 0 => x - lu \in {0, 1} /\ g = 0 /\ v = 1
  BY <1>9, <1>10
<1>13. G => Within(q)' /\ Balanced(q)'
              /\ (Accepting' > 0 =>
                   \/ at'[0] = at[0] /\ Accepting' = Accepting /\ Taken(q)' = Taken(q)
                   \/ at[0] = 0 /\ at'[0] = 1 /\ Accepting' = Size - 1 /\ Taken(q)' = 0)
  <2>1. /\ DownSent(q)' = D[b] - v2 /\ UpGot(q)' = U[b] - g2
        /\ Taken(q)' = x - lu2 /\ Taken(q) = x - lu
    BY <1>3, <1>11 DEF DownSent, UpGot, Taken
  <2>2. G => Balanced(q)'
    BY <1>11, <2>1 DEF Balanced
  <2>3. G => Within(q)'
    BY <1>4 DEF Within
  <2> QED
    BY <2>1, <2>2, <2>3
<1> HIDE DEF n, U, D, a, b, g, g2, v, v2, c, c2, lu, lu2, ld, ld2, P, Q, x, y
<1>14. ASSUME /\ b = a + 1 /\ b <= n /\ lu2 = lu /\ ld2 = ld /\ g = 0 /\ v = 0 /\ c = 0
              /\ a = 0 => g2 = 0 /\ v2 = 1 /\ c2 = Size - 1
              /\ a > 0 => g2 = P(a + 1) /\ v2 = Q(a + 1) /\ c2 = 0
       PROVE  G
  <2>1. b \in 1..n /\ b - 1 = a
    BY <1>7, <1>14
  <2>2. /\ U[b] = U[a] + P(b) /\ D[b] = D[a] + Q(b) /\ P(b) \in Nat /\ Q(b) \in Nat
    BY <1>7, <2>1
  <2>3. D[a] = y + ld /\ x - lu = U[a]
    BY <1>7, <1>14, <1>12
  <2>4. CASE a = 0
    <3>1. b = 1 /\ g2 = 0 /\ v2 = 1 /\ c2 = Size - 1 /\ P(b) = 1 /\ Q(b) = 1
      BY <1>7, <1>14, <2>4
    <3>2. x - lu2 = 0 /\ D[b] - v2 = y + ld2 /\ U[a] = 0
      BY <1>7, <1>14, <2>2, <2>3, <2>4, <3>1
    <3>3. c2 = 0 => FALSE
      <4>1. Size - 1 # 0
        BY CommAssumption DEF Leaf
      <4> QED
        BY <3>1, <4>1
    <3> QED
      BY <2>4, <3>1, <3>2, <3>3
  <2>5. CASE a > 0
    <3>1. g2 = P(b) /\ v2 = Q(b) /\ c2 = 0
      BY <1>14, <2>5
    <3>2. x - lu2 = U[b] - g2 /\ D[b] - v2 = y + ld2
      BY <1>7, <1>14, <1>12, <2>2, <2>3, <3>1
    <3> QED
      BY <2>2, <3>1, <3>2
  <2> QED
    BY <1>7, <2>4, <2>5
<1>15. ASSUME b = a /\ lu2 = lu /\ ld2 = ld /\ g2 = g /\ v2 = v /\ c2 = c PROVE G
  BY <1>8, <1>15, <1>12
<1>16. ASSUME b = a /\ lu2 = lu /\ ld2 = ld + 1 /\ g2 = g /\ v2 = v - 1 /\ c2 = 0 /\ c = 0
       PROVE  G
  <2>1. b > 0 => g2 <= P(b) /\ v2 <= Q(b)
    BY <1>7, <1>8, <1>16
  <2>2. D[b] - v2 = y + ld2 /\ x - lu2 = U[b] - g2
    BY <1>7, <1>12, <1>16
  <2> QED
    BY <1>16, <2>1, <2>2
<1>17. ASSUME b = a /\ lu2 = lu - 1 /\ ld2 = ld /\ g2 = g - 1 /\ v2 = v /\ c2 = 0 /\ c = 0
       PROVE  G
  <2>1. b > 0 => g2 <= P(b) /\ v2 <= Q(b)
    BY <1>7, <1>8, <1>17
  <2>2. D[b] - v2 = y + ld2 /\ x - lu2 = U[b] - g2
    BY <1>7, <1>12, <1>17
  <2> QED
    BY <1>17, <2>1, <2>2
<1>18. G
  BY <1>6, <1>14, <1>15, <1>16, <1>17
<1> QED
  BY <1>13, <1>18

(* Whoever rank 0 accepts had not been heard of, and now has sent one      *)
(* frame.                                                                  *)
LEMMA AcceptBalance ==
    ASSUME Typed, script' = script, NEW p, NEW q \in Leaf, Within(q), Balanced(q), RootAccepts(p),
           Kept(q), at[0] = 1
    PROVE  /\ Within(q)'
           /\ DownSent(q)' = DownGot(q)' + Len(stream'[<<0, q>>])
           /\ UpGot(q)' = 1 /\ Gathering(q)' = 0 /\ Releasing(q)' = 1
           /\ Taken(q) \in {0, 1}
           /\ q # p => Taken(q)' = Taken(q)
           /\ q = p => Taken(q) = 0 /\ Taken(q)' = 1
<1> DEFINE n == Len(script)
           U == UpTo(q)
           D == DownTo(q)
           a == at[q]
           s == Sending(q)
           v == Receiving(q)
           lu == Len(stream[<<q, 0>>])
           lu2 == Len(stream'[<<q, 0>>])
           ld == Len(stream[<<0, q>>])
<1>1. /\ a \in 0..n /\ script \in Scripts /\ s \in Nat /\ v \in Nat /\ lu \in Nat /\ ld \in Nat
      /\ Accepting \in Nat
  BY Numbers
<1>2. /\ n \in Nat \ {0} /\ \A k \in 0..n : U[k] \in Nat /\ D[k] \in Nat
      /\ U[0] = 0 /\ D[0] = 0
      /\ \A k \in 1..n : /\ NDown(q, script[k]) \in 0..2
                         /\ U[k] = U[k - 1] + NUp(q, script[k])
                         /\ D[k] = D[k - 1] + NDown(q, script[k])
      /\ \A j, k \in 0..n : j <= k => D[j] <= D[k]
      /\ script[1] = "init" /\ 1 \in 1..n
  <2>1. n \in Nat \ {0} /\ 1 \in 1..n
    BY <1>1, ScriptTotals
  <2> QED
    BY <1>1, <2>1, ScriptTotals
<1>3. U[1] = 1 /\ D[1] = 1
  <2>1. NUp(q, script[1]) = 1 /\ NDown(q, script[1]) = 1
    BY <1>2 DEF NUp, NDown
  <2>2. U[1] = U[1 - 1] + 1 /\ D[1] = D[1 - 1] + 1
    BY <1>2, <2>1
  <2> QED
    BY <1>2, <2>2
<1>4. UpTo(q)' = U /\ DownTo(q)' = D
  BY DEF UpTo, DownTo
<1>5. /\ at'[q] = a /\ Sending(q)' = s /\ Receiving(q)' = v /\ at'[0] = 1
      /\ Gathering(q)' = Gathering(q) /\ Releasing(q)' = Releasing(q)
      /\ stream'[<<0, q>>] = stream[<<0, q>>]
  BY DEF Kept, Sending, Receiving, RootAccepts, KeptStreams
<1>6. /\ Gathering(q) = 0 /\ Releasing(q) = 1 /\ Taken(q) \in {0, 1}
      /\ DownSent(q) = DownGot(q) + ld
  BY DEF RootAccepts, Balanced
<1>7. DownSent(q) = 0 /\ UpGot(q)' = 1
  BY <1>3, <1>4, <1>5, <1>6 DEF DownSent, UpGot
<1>8. /\ UpSent(q)' = UpSent(q) /\ DownGot(q)' = DownGot(q) /\ DownSent(q)' = DownSent(q)
  BY <1>4, <1>5 DEF UpSent, DownGot, DownSent
<1>9. a > 0 => v <= NDown(q, script[a])
  BY DEF Within
<1>10. UpSent(q) = U[a] - s /\ DownGot(q) = D[a] - v /\ Taken(q) = UpSent(q) - lu
  BY DEF UpSent, DownGot, Taken
<1>11. Within(q)'
  BY <1>5 DEF Within
<1>12. q # p => Taken(q)' = Taken(q)
  BY <1>8 DEF Taken, RootAccepts, KeptStreams
<1>13. q = p => lu2 = lu - 1 /\ lu > 0 /\ Taken(q)' = UpSent(q) - lu2
  BY <1>8 DEF RootAccepts, Taken
<1> HIDE DEF n, U, D, a, s, v, lu, lu2, ld
<1>14. a <= 1
  <2> SUFFICES ASSUME a > 1 PROVE FALSE
    BY <1>1
  <2>1. a \in 1..n /\ a - 1 \in 0..n /\ 1 \in 0..n /\ 1 <= a - 1
    BY <1>1, <1>2
  <2>2. /\ D[a] = D[a - 1] + NDown(q, script[a]) /\ D[1] <= D[a - 1]
        /\ NDown(q, script[a]) \in Nat /\ D[a - 1] \in Nat
    BY <1>2, <2>1
  <2>3. D[a] - v >= 1
    BY <1>1, <1>3, <1>9, <2>1, <2>2
  <2>4. D[a] - v \in Int
    BY <1>1, <2>2
  <2> QED
    BY <1>1, <1>6, <1>7, <1>10, <2>3, <2>4
<1>15. U[a] <= 1 /\ U[a] \in Nat
  <2>1. a \in 0..1
    BY <1>1, <1>14
  <2> QED
    BY <1>2, <1>3, <2>1
<1>16. q = p => Taken(q) = 0 /\ Taken(q)' = 1
  <2> SUFFICES ASSUME q = p PROVE Taken(q) = 0 /\ Taken(q)' = 1
    OBVIOUS
  <2>1. Taken(q) = (U[a] - s) - lu /\ Taken(q) <= 0
    BY <1>1, <1>10, <1>13, <1>15
  <2>2. Taken(q) = 0
    BY <1>6, <2>1
  <2>3. Taken(q)' = Taken(q) + 1
    BY <1>1, <1>10, <1>13, <1>15
  <2> QED
    BY <2>2, <2>3
<1> QED
  BY <1>5, <1>6, <1>7, <1>8, <1>11, <1>12, <1>16 DEF ld

LEMMA FollowedStep ==
    ASSUME Typed, CountInv, Leaf # {}, RootMove, at'[0] > 0, script[at'[0]] \in Synchronizes
    PROVE  Followed(todo'[0])
<1>1. PICK q \in Leaf : TRUE
  OBVIOUS
<1>2. /\ todo[0] \in Seq(RootItem) /\ at[0] \in 0..Len(script)
      /\ at[0] > 0 /\ script[at[0]] \in Synchronizes => Followed(todo[0])
  BY <1>1, Numbers DEF Typed, CountInv
<1>3. CASE RootEnters
  BY <1>1, <1>3, RootSynchronizes DEF RootEnters
<1>4. ASSUME todo[0] # <<>>, at'[0] = at[0]
      PROVE  /\ Followed(Tail(todo[0]))
             /\ \A d \in RootItem : d \notin Taking => Followed(<<d>> \o Tail(todo[0]))
  BY <1>2, <1>4, FollowedRest
<1>5. CASE RootPasses \/ \E p : RootTakes(p)
  BY <1>4, <1>5 DEF RootPasses, RootTakes
<1>6. ASSUME NEW p, NEW w, RootSends(p, w) PROVE Followed(todo'[0])
  <2>1. p \in Leaf
    BY <1>6 DEF RootSends
  <2>2. Drain(p) \in RootItem
    BY <2>1 DEF RootItem
  <2>3. Drain(p) \notin Taking
    BY ItemKinds DEF Taking
  <2> QED
    BY <1>4, <1>6, <2>2, <2>3 DEF RootSends
<1> QED
  BY <1>3, <1>5, <1>6 DEF RootMove

LEMMA CountStep ==
    ASSUME Typed, CountInv, [Next]_vars
    PROVE  CountInv'
<1>1. script' = script /\ (Resting \/ \E r \in Rank : Effect(r))
  BY StepEffect
<1>2. /\ \A q \in Leaf : Within(q) /\ Balanced(q)
      /\ Leaf # {} /\ Accepting > 0 => at[0] = 1 /\ Accepting = Cardinality(Unaccepted)
      /\ Leaf # {} /\ at[0] > 0 /\ script[at[0]] \in Synchronizes => Followed(todo[0])
  BY DEF CountInv
<1>3. CASE Resting
  <2>1. Kept(0) /\ \A q \in Leaf : Kept(q) /\ KeptStreams(q)
    BY <1>3 DEF Resting, Kept, KeptStreams
  <2>2. \A q \in Leaf : Within(q)' /\ Balanced(q)' /\ Taken(q)' = Taken(q)
    BY <1>1, <1>2, <2>1, OthersBalance
  <2>3. Unaccepted' = Unaccepted /\ Accepting' = Accepting
    BY <2>1, <2>2 DEF Unaccepted, Accepting, Kept
  <2> QED
    BY <1>1, <1>2, <2>1, <2>2, <2>3 DEF CountInv, Kept
<1>4. ASSUME NEW q \in Leaf, Effect(q) PROVE CountInv'
  <2>1. /\ LeafMove(q) /\ Kept(0)
        /\ \A p \in Leaf : p # q => Kept(p) /\ KeptStreams(p)
    BY <1>4, LeafEffect
  <2>2. Within(q)' /\ Balanced(q)' /\ Taken(q)' = Taken(q)
    <3>1. LeafCounts(q)
      BY <2>1, LeafCounting
    <3> QED
      BY <1>1, <1>2, <2>1, <3>1, LeafBalance
  <2>3. \A p \in Leaf : Within(p)' /\ Balanced(p)' /\ Taken(p)' = Taken(p)
    BY <1>1, <1>2, <2>1, <2>2, OthersBalance
  <2>4. Unaccepted' = Unaccepted /\ Accepting' = Accepting
    BY <2>1, <2>3 DEF Unaccepted, Accepting, Kept
  <2> QED
    BY <1>1, <1>2, <2>1, <2>3, <2>4 DEF CountInv, Kept
<1>5. CASE Leaf = {}
  BY <1>5 DEF CountInv
<1>6. ASSUME Effect(0), Leaf # {} PROVE CountInv'
  <2>1. RootMove /\ \A q \in Leaf : Kept(q)
    BY <1>6, RootEffect
  <2>2. at'[0] > 0 /\ script'[at'[0]] \in Synchronizes => Followed(todo'[0])
    BY <1>1, <1>6, <2>1, FollowedStep
  <2>3. IsFiniteSet(Leaf) /\ Cardinality(Leaf) = Size - 1
    <3> DEFINE m == Size - 1
    <3>1. m \in Int /\ 1 \in Int /\ m >= 0 /\ m = Size - 1 /\ Leaf = 1..m
      BY CommAssumption DEF Leaf
    <3> HIDE DEF m
    <3>2. IsFiniteSet(1..m) /\ Cardinality(1..m) = IF 1 > m THEN 0 ELSE m - 1 + 1
      BY <3>1, FS_Interval
    <3> QED
      BY <3>1, <3>2
  <2>4. CASE \A q \in Leaf : RootCounts(q)
    <3>1. \A q \in Leaf :
            /\ Within(q)' /\ Balanced(q)'
            /\ Accepting' > 0 =>
                 \/ at'[0] = at[0] /\ Accepting' = Accepting /\ Taken(q)' = Taken(q)
                 \/ at[0] = 0 /\ at'[0] = 1 /\ Accepting' = Size - 1 /\ Taken(q)' = 0
      BY <1>1, <1>2, <2>1, <2>4, RootBalance
    <3>2. ASSUME Accepting' > 0 PROVE at'[0] = 1 /\ Accepting' = Cardinality(Unaccepted')
      <4>1. CASE at[0] = 0 /\ at'[0] = 1
        <5>1. Accepting' = Size - 1 /\ \A q \in Leaf : Taken(q)' = 0
          BY <1>6, <3>1, <3>2, <4>1
        <5>2. Unaccepted' = Leaf
          BY <5>1 DEF Unaccepted
        <5> QED
          BY <2>3, <4>1, <5>1, <5>2
      <4>2. CASE ~(at[0] = 0 /\ at'[0] = 1)
        <5>1. at'[0] = at[0] /\ Accepting' = Accepting /\ \A q \in Leaf : Taken(q)' = Taken(q)
          BY <1>6, <3>1, <3>2, <4>2
        <5>2. Unaccepted' = Unaccepted
          BY <5>1 DEF Unaccepted
        <5> QED
          BY <1>2, <1>6, <3>2, <5>1, <5>2
      <4> QED
        BY <4>1, <4>2
    <3> QED
      BY <2>2, <3>1, <3>2 DEF CountInv
  <2>5. ASSUME NEW p, RootAccepts(p) PROVE CountInv'
    <3>1. /\ Accepting > 0 /\ Accepting' = Accepting - 1 /\ p \in Leaf /\ at'[0] = at[0]
      BY <2>5 DEF RootAccepts
    <3>2. at[0] = 1 /\ Accepting = Cardinality(Unaccepted)
      BY <1>2, <1>6, <3>1
    <3>3. ASSUME NEW q \in Leaf
          PROVE  /\ Within(q)'
                 /\ DownSent(q)' = DownGot(q)' + Len(stream'[<<0, q>>])
                 /\ UpGot(q)' = 1 /\ Gathering(q)' = 0 /\ Releasing(q)' = 1
                 /\ Taken(q) \in {0, 1}
                 /\ q # p => Taken(q)' = Taken(q)
                 /\ q = p => Taken(q) = 0 /\ Taken(q)' = 1
      <4>1. Within(q) /\ Balanced(q) /\ Kept(q)
        BY <1>2, <2>1
      <4> QED
        BY <1>1, <2>5, <3>2, <4>1, AcceptBalance
    <3>4. /\ Unaccepted' = Unaccepted \ {p} /\ p \in Unaccepted
      <4>1. p \in Leaf /\ Taken(p) = 0
        BY <3>1, <3>3
      <4>2. ASSUME NEW q \in Leaf PROVE Taken(q)' = 0 <=> q # p /\ Taken(q) = 0
        <5>1. /\ q # p => Taken(q)' = Taken(q)
              /\ q = p => Taken(q) = 0 /\ Taken(q)' = 1
          BY <3>3
        <5> QED
          BY <5>1
      <4> QED
        BY <4>1, <4>2 DEF Unaccepted
    <3>5. IsFiniteSet(Unaccepted)
      BY <2>3, FS_Subset DEF Unaccepted
    <3>6. /\ IsFiniteSet(Unaccepted') /\ Cardinality(Unaccepted') = Accepting'
      BY <3>1, <3>2, <3>4, <3>5, FS_RemoveElement
    <3>7. ASSUME Accepting' = 0, NEW q \in Leaf PROVE Taken(q)' = UpGot(q)'
      <4>1. Unaccepted' = {}
        BY <3>6, <3>7, FS_EmptySet
      <4>2. Taken(q)' # 0
        BY <4>1 DEF Unaccepted
      <4> QED
        BY <3>3, <4>2
    <3>8. ASSUME NEW q \in Leaf PROVE Within(q)' /\ Balanced(q)'
      <4>1. Accepting' > 0 => Taken(q)' \in {0, 1}
        BY <3>3
      <4>2. Accepting' = 0 => Taken(q)' = UpGot(q)'
        BY <3>7
      <4> QED
        BY <3>3, <4>1, <4>2 DEF Balanced
    <3> QED
      BY <2>2, <3>1, <3>2, <3>6, <3>8 DEF CountInv
  <2> QED
    BY <1>6, <2>1, <2>4, <2>5, RootCounting
<1>7. \A r \in Rank : r = 0 \/ r \in Leaf
  BY CommAssumption DEF Rank, Leaf
<1> QED
  BY <1>1, <1>3, <1>4, <1>5, <1>6, <1>7

LEMMA CountInit ==
    ASSUME Init, RootInv
    PROVE  Typed /\ CountInv
<1>1. /\ \A s \in Streams : stream[s] = <<>>
      /\ \A r \in Rank : todo[r] = <<>> /\ at[r] = 0
      /\ DOMAIN stream = Streams /\ DOMAIN got = Rank /\ 0 \in Rank
      /\ script \in Scripts
  BY CommAssumption DEF Init, Rank
<1>2. Typed
  <2>1. <<>> \in Seq(RootItem) /\ AcceptsFirst(<<>>)
    BY DEF AcceptsFirst
  <2> QED
    BY <1>1, <2>1 DEF Typed, IsSeq
<1>3. ASSUME NEW q \in Leaf PROVE Within(q) /\ Balanced(q) /\ Accepting = 0
  <2>1. todo[q] = <<>> /\ todo[0] = <<>> /\ at[q] = 0 /\ at[0] = 0
        /\ Len(stream[<<q, 0>>]) = 0 /\ Len(stream[<<0, q>>]) = 0
    BY <1>1, LeafPlaces
  <2>2. /\ Sending(q) = 0 /\ Receiving(q) = 0 /\ Gathering(q) = 0 /\ Releasing(q) = 0
        /\ Accepting = 0
    BY <1>2, <2>1, Numbers
  <2>3. UpTo(q)[0] = 0 /\ DownTo(q)[0] = 0
    BY <1>1, ScriptTotals
  <2>4. /\ UpSent(q) = 0 /\ UpGot(q) = 0 /\ DownSent(q) = 0 /\ DownGot(q) = 0 /\ Taken(q) = 0
    BY <2>1, <2>2, <2>3 DEF UpSent, UpGot, DownSent, DownGot, Taken
  <2> QED
    BY <2>1, <2>2, <2>4 DEF Within, Balanced
<1> QED
  BY <1>1, <1>2, <1>3 DEF CountInv

(* The frames sent and received on either way of a leaf always add up to   *)
(* what the calls of both ends have done so far.                           *)
THEOREM CountInvariance == Spec => [](Typed /\ CountInv)
<1>1. ASSUME Init, RootInv PROVE Typed /\ CountInv
  BY <1>1, CountInit
<1>2. ASSUME Typed /\ CountInv, RootInv', [Next]_vars PROVE (Typed /\ CountInv)'
  BY <1>2, TypedStep, CountStep
<1> QED
  BY <1>1, <1>2, RootInvariance, PTL DEF Spec

-----------------------------------------------------------------------------
(* Nobody leaves before all have entered. *)

(* The frames of a call come after those of the calls before it.           *)
LEMMA CallsInOrder ==
    ASSUME script \in Scripts, NEW q \in Leaf, NEW k \in 1..Len(script), NEW a \in 0..Len(script)
    PROVE  /\ UpTo(q)[a] \in Nat /\ UpTo(q)[k] \in Nat
           /\ DownTo(q)[a] \in Nat /\ DownTo(q)[k] \in Nat
           /\ NUp(q, script[k]) \in Nat /\ NDown(q, script[k]) \in Nat
           /\ UpTo(q)[k] = UpTo(q)[k - 1] + NUp(q, script[k])
           /\ DownTo(q)[k] = DownTo(q)[k - 1] + NDown(q, script[k])
           /\ a > k => /\ UpTo(q)[a] - NUp(q, script[a]) >= UpTo(q)[k]
                       /\ DownTo(q)[a] - NDown(q, script[a]) >= DownTo(q)[k]
                       /\ NUp(q, script[a]) \in Nat /\ NDown(q, script[a]) \in Nat
           /\ a < k => /\ UpTo(q)[a] <= UpTo(q)[k] - NUp(q, script[k])
                       /\ DownTo(q)[a] <= DownTo(q)[k] - NDown(q, script[k])
<1> DEFINE n == Len(script)
           U == UpTo(q)
           D == DownTo(q)
           P(i) == NUp(q, script[i])
           Q(i) == NDown(q, script[i])
<1>1. n \in Nat /\ U \in [0..n -> Nat] /\ D \in [0..n -> Nat]
  BY ScriptTotals
<1>2. \A i \in 1..n : P(i) \in 0..2 /\ U[i] = U[i - 1] + P(i)
  BY ScriptTotals
<1>3. \A i \in 1..n : Q(i) \in 0..2 /\ D[i] = D[i - 1] + Q(i)
  BY ScriptTotals
<1>4. \A i, j \in 0..n : i <= j => U[i] <= U[j] /\ D[i] <= D[j]
  BY ScriptTotals
<1>5. k \in 1..n /\ a \in 0..n
  OBVIOUS
<1> HIDE DEF n, U, D, P, Q
<1>6. k \in 0..n /\ k - 1 \in 0..n
  BY <1>1, <1>5
<1>7. /\ U[a] \in Nat /\ U[k] \in Nat /\ D[a] \in Nat /\ D[k] \in Nat
      /\ U[k - 1] \in Nat /\ D[k - 1] \in Nat
  BY <1>1, <1>5, <1>6
<1>8. /\ P(k) \in Nat /\ U[k] = U[k - 1] + P(k)
      /\ Q(k) \in Nat /\ D[k] = D[k - 1] + Q(k)
  <2>1. P(k) \in 0..2 /\ U[k] = U[k - 1] + P(k)
    BY <1>2, <1>5
  <2>2. Q(k) \in 0..2 /\ D[k] = D[k - 1] + Q(k)
    BY <1>3, <1>5
  <2> QED
    BY <2>1, <2>2
<1>9. ASSUME a > k
      PROVE  U[a] - P(a) >= U[k] /\ D[a] - Q(a) >= D[k] /\ P(a) \in Nat /\ Q(a) \in Nat
  <2>1. a \in 1..n /\ a - 1 \in 0..n /\ k <= a - 1
    BY <1>1, <1>5, <1>9
  <2>2. P(a) \in 0..2 /\ U[a] = U[a - 1] + P(a)
    BY <1>2, <2>1
  <2>3. Q(a) \in 0..2 /\ D[a] = D[a - 1] + Q(a)
    BY <1>3, <2>1
  <2>4. U[k] <= U[a - 1] /\ D[k] <= D[a - 1] /\ U[a - 1] \in Nat /\ D[a - 1] \in Nat
    BY <1>1, <1>4, <1>6, <2>1
  <2>5. \A x, y, z \in Nat, d \in 0..2 : x = y + d /\ z <= y => x - d >= z /\ d \in Nat
    OBVIOUS
  <2> QED
    BY <1>7, <2>2, <2>3, <2>4, <2>5
<1>10. ASSUME a < k PROVE U[a] <= U[k] - P(k) /\ D[a] <= D[k] - Q(k)
  <2>1. a <= k - 1
    BY <1>5, <1>1, <1>10
  <2>2. U[a] <= U[k - 1] /\ D[a] <= D[k - 1]
    BY <1>4, <1>5, <1>6, <2>1
  <2>3. \A x, y, z, d \in Nat : x = y + d /\ z <= y => z <= x - d
    OBVIOUS
  <2> QED
    BY <1>7, <1>8, <2>2, <2>3
<1> QED
  BY <1>7, <1>8, <1>9, <1>10 DEF U, D, P, Q

(* What a rank has returned from has been sent to it, *)
LEMMA ReleasedByRoot ==
    ASSUME Typed, CountInv, NEW p \in Leaf, NEW k \in 1..Len(script), script[k] \in Synchronizes,
           Returned(p, k)
    PROVE  at[0] >= k /\ (at[0] = k => Releasing(p) = 0)
<1> DEFINE n == Len(script)
           D == DownTo(p)
           a == at[p]
           b == at[0]
           w == Receiving(p)
           v == Releasing(p)
           l == Len(stream[<<0, p>>])
           Q(i) == NDown(p, script[i])
<1>1. /\ a \in 0..n /\ b \in 0..n /\ w \in Nat /\ v \in Nat /\ l \in Nat /\ script \in Scripts
      /\ todo[p] = <<>> => w = 0
  BY Numbers
<1>2. /\ D[a] \in Nat /\ D[b] \in Nat /\ D[k] \in Nat /\ Q(k) \in Nat
      /\ a > k => D[a] - Q(a) >= D[k] /\ Q(a) \in Nat
      /\ b < k => D[b] <= D[k] - Q(k)
  BY <1>1, CallsInOrder
<1>3. Q(k) >= 1
  BY DEF NDown, Synchronizes
<1>4. /\ D[b] - v = (D[a] - w) + l
      /\ a > 0 => w <= Q(a)
  BY DEF CountInv, Balanced, Within, DownSent, DownGot
<1>5. a > k \/ (a = k /\ w = 0)
  BY <1>1 DEF Returned
<1>6. k \in Nat /\ k > 0 /\ a \in Nat /\ b \in Nat
  BY <1>1
<1> HIDE DEF n, D, a, b, w, v, l, Q
<1> DEFINE x == D[a]
           y == D[b]
           z == D[k]
<1>7. /\ x \in Nat /\ y \in Nat /\ z \in Nat /\ w \in Nat /\ v \in Nat /\ l \in Nat
      /\ y - v = (x - w) + l
      /\ a = k => x = z
      /\ b = k => y = z
  BY <1>1, <1>2, <1>4
<1> HIDE DEF x, y, z
<1>8. x - w >= z
  <2>1. CASE a > k
    <3>1. x - Q(a) >= z /\ Q(a) \in Nat /\ w <= Q(a)
      BY <1>2, <1>4, <1>6, <2>1 DEF x, z
    <3> QED
      BY <1>7, <3>1
  <2>2. CASE a = k /\ w = 0
    BY <1>7, <2>2
  <2> QED
    BY <1>5, <2>1, <2>2
<1>9. y - v >= z
  BY <1>7, <1>8
<1>10. b >= k
  <2>1. b < k => y <= z - Q(k)
    BY <1>2 DEF y, z
  <2>2. ~(b < k)
    BY <1>2, <1>3, <1>7, <1>9, <2>1
  <2> QED
    BY <1>6, <2>2
<1>11. b = k => v = 0
  BY <1>7, <1>9
<1> QED
  BY <1>10, <1>11 DEF b, v

(* and what rank 0 is done with has been sent by everybody.                *)
LEMMA HeardByRoot ==
    ASSUME Typed, CountInv, NEW q \in Leaf, NEW k \in 1..Len(script), script[k] \in Synchronizes,
           at[0] > k \/ (at[0] = k /\ Gathering(q) = 0 /\ Accepting = 0)
    PROVE  at[q] >= k
<1> DEFINE n == Len(script)
           U == UpTo(q)
           a == at[q]
           b == at[0]
           s == Sending(q)
           g == Gathering(q)
           l == Len(stream[<<q, 0>>])
           P(i) == NUp(q, script[i])
<1>1. /\ a \in 0..n /\ b \in 0..n /\ s \in Nat /\ g \in Nat /\ l \in Nat /\ script \in Scripts
      /\ Accepting \in Nat
  BY Numbers
<1>2. /\ U[a] \in Nat /\ U[b] \in Nat /\ U[k] \in Nat /\ P(k) \in Nat
      /\ b > k => U[b] - P(b) >= U[k] /\ P(b) \in Nat
      /\ a < k => U[a] <= U[k] - P(k)
  BY <1>1, CallsInOrder
<1>3. P(k) >= 1
  BY DEF NUp, Synchronizes
<1>4. Accepting = 0
  <2>1. Accepting > 0 => at[0] = 1
    BY DEF CountInv
  <2> QED
    BY <1>1, <2>1
<1>5. /\ (U[a] - s) - l = U[b] - g
      /\ b > 0 => g <= P(b)
  BY <1>4 DEF CountInv, Balanced, Within, Taken, UpSent, UpGot
<1>6. (b > k \/ (b = k /\ g = 0)) /\ k \in Nat /\ k > 0 /\ a \in Nat /\ b \in Nat
  BY <1>1
<1> HIDE DEF n, U, a, b, s, g, l, P
<1> DEFINE x == U[a]
           y == U[b]
           z == U[k]
<1>7. /\ x \in Nat /\ y \in Nat /\ z \in Nat /\ s \in Nat /\ g \in Nat /\ l \in Nat
      /\ (x - s) - l = y - g
      /\ b = k => y = z
  BY <1>1, <1>2, <1>5
<1> HIDE DEF x, y, z
<1>8. y - g >= z
  <2>1. CASE b > k
    <3>1. y - P(b) >= z /\ P(b) \in Nat /\ g <= P(b)
      BY <1>2, <1>5, <1>6, <2>1 DEF y, z
    <3> QED
      BY <1>7, <3>1
  <2>2. CASE b = k /\ g = 0
    BY <1>7, <2>2
  <2> QED
    BY <1>6, <2>1, <2>2
<1>9. x >= z
  BY <1>7, <1>8
<1>10. a >= k
  <2>1. a < k => x <= z - P(k)
    BY <1>2 DEF x, z
  <2>2. ~(a < k)
    BY <1>2, <1>3, <1>7, <1>9, <2>1
  <2> QED
    BY <1>6, <2>2
<1> QED
  BY <1>10 DEF a

LEMMA Synchronized ==
    ASSUME Typed, CountInv
    PROVE  BarrierSync
<1> SUFFICES ASSUME NEW q \in Rank, NEW r \in Rank, NEW k \in DOMAIN script,
                    script[k] \in Synchronizes, Returned(r, k)
             PROVE  at[q] >= k
  BY DEF BarrierSync
<1>1. script \in Seq(Call) /\ \A x \in Rank : at[x] \in Nat
  BY ScriptAssumption DEF Typed, RootInv
<1>2. k \in 1..Len(script) /\ k \in Nat
  BY <1>1
<1>3. \A x \in Rank : x = 0 \/ x \in Leaf
  BY CommAssumption DEF Rank, Leaf
<1>4. CASE r = q
  BY <1>1, <1>2, <1>4 DEF Returned
<1>5. CASE r # q /\ r = 0
  <2>1. q \in Leaf
    BY <1>3, <1>5
  <2>2. at[0] > k \/ (at[0] = k /\ Gathering(q) = 0 /\ Accepting = 0)
    BY <1>5, <2>1, Numbers DEF Returned
  <2> QED
    BY <1>2, <2>1, <2>2, HeardByRoot
<1>6. CASE r # q /\ r # 0
  <2>1. r \in Leaf
    BY <1>3, <1>6
  <2>2. at[0] >= k /\ (at[0] = k => Releasing(r) = 0)
    BY <1>2, <2>1, ReleasedByRoot
  <2>3. CASE q = 0
    BY <2>2, <2>3
  <2>4. CASE q \in Leaf
    <3>1. ASSUME at[0] = k PROVE Gathering(q) = 0 /\ Accepting = 0
      <4>1. todo[0] \in Seq(RootItem) /\ Followed(todo[0])
        <5>1. at[0] > 0
          BY <1>2, <3>1
        <5> QED
          BY <2>1, <3>1, <5>1 DEF Typed, CountInv
      <4>2. \A i \in 1..Len(todo[0]) : todo[0][i] \notin Sends(r)
        BY <2>2, <3>1, <4>1, CountNat DEF Releasing
      <4>3. \A i \in 1..Len(todo[0]) : todo[0][i] \notin Taking
        <5> SUFFICES ASSUME NEW i \in 1..Len(todo[0]), todo[0][i] \in Taking PROVE FALSE
          OBVIOUS
        <5>1. PICK j \in (i + 1)..Len(todo[0]) : todo[0][j] \in Sends(r)
          BY <2>1, <4>1 DEF Followed
        <5>2. j \in 1..Len(todo[0])
          BY <4>1
        <5> QED
          BY <4>2, <5>1, <5>2
      <4>4. \A i \in 1..Len(todo[0]) : todo[0][i] \notin {Recv(q)} /\ todo[0][i] \notin {Accept}
        BY <2>4, <4>3 DEF Taking
      <4> QED
        BY <4>1, <4>4, CountNat DEF Gathering, Accepting
    <3>2. at[0] > k \/ (at[0] = k /\ Gathering(q) = 0 /\ Accepting = 0)
      <4>1. at[0] \in Nat
        BY <1>1, <2>1, LeafPlaces
      <4> QED
        BY <1>2, <2>2, <3>1, <4>1
    <3> QED
      BY <1>2, <2>4, <3>2, HeardByRoot
  <2> QED
    BY <1>3, <2>3, <2>4
<1> QED
  BY <1>4, <1>5, <1>6

-----------------------------------------------------------------------------
(* The values under way.                                                   *)

(* Frame number x of the way up from q, down to q, belongs to call k. *)
UpCall(q, k, x) == UpTo(q)[k - 1] < x /\ x <= UpTo(q)[k]
DownCall(q, k, x) == DownTo(q)[k - 1] < x /\ x <= DownTo(q)[k]

Exchanging == {"bcast", "gather", "allgather"}

(* The values of rank 0 and of those it hears of, in their order.          *)
Sources(call) == IF call = "bcast" THEN <<Size - 1>> ELSE [i \in Leaf |-> i]
Heard(call, k, m) == [i \in 1..m |-> <<Sources(call)[i], k>>]
Relaying(call) == IF call = "bcast" THEN "received" ELSE "all"

(* The frames of such a call carry what that call gives.                   *)
UpFrames(q) ==
    \A i \in 1..Len(stream[<<q, 0>>]), k \in 1..Len(script) :
      script[k] \in Exchanging /\ UpCall(q, k, Taken(q) + i)
        => stream[<<q, 0>>][i] = << <<q, k>> >>

DownFrames(q) ==
    \A i \in 1..Len(stream[<<0, q>>]), k \in 1..Len(script) :
      script[k] \in Exchanging /\ DownCall(q, k, DownGot(q) + i)
        => stream[<<0, q>>][i] = Expected(q, script[k], k)

(* What a call has received so far.                                        *)
LeafGot(q) ==
    at[q] > 0 /\ script[at[q]] \in Exchanging =>
      /\ \A i \in 1..Len(todo[q]) : todo[q][i] \in {Send(0, "own"), Recv(0), Drain(0)}
      /\ got[q] = IF Receiving(q) > 0 THEN <<>> ELSE Expected(q, script[at[q]], at[q])

(* The plan of rank 0: it has heard of m and now hears of the others, in   *)
(* order, and then only sends.                                             *)
Hearing(s, call, m) ==
    LET n == Len(Sources(call))
    IN  /\ m \in 0..n /\ n - m <= Len(s)
        /\ \A i \in 1..(n - m) : s[i] = Recv(Sources(call)[m + i])
        /\ \A i \in (n - m + 1)..Len(s) :
             \E q \in Leaf : s[i] \in {Send(q, Relaying(call)), Drain(q)}

RootGot ==
    at[0] > 0 /\ script[at[0]] \in Exchanging =>
      IF Size = 1 THEN todo[0] = <<>> /\ got[0] = <<>>
      ELSE \E m \in Nat : /\ Hearing(todo[0], script[at[0]], m)
                          /\ got[0] = Heard(script[at[0]], at[0], m)

ValueInv ==
    /\ \A q \in Leaf : UpFrames(q) /\ DownFrames(q) /\ LeafGot(q)
    /\ RootGot

LEMMA Ordered ==
    \A x, y, z \in Int : /\ y < x /\ z <= y => ~(x <= z)
                        /\ x <= y /\ y <= z => ~(z < x)
  OBVIOUS

Rises(T, n) == \A i, j \in 0..n : i <= j => T[i] <= T[j]

(* Frame x belongs to call a and to no other: c of the p frames of a are   *)
(* still to come, and x is the next.                                       *)
Only(T, n, x, a) == \A k \in 1..n : T[k - 1] < x /\ x <= T[k] <=> k = a
Pending(T, x, a, c, p) ==
    c \in Nat /\ c > 0 /\ p \in Nat /\ c <= p /\ T[a] = T[a - 1] + p /\ x = T[a] - c + 1

LEMMA OneCall ==
    ASSUME NEW n \in Nat, NEW T, T \in [0..n -> Nat] /\ Rises(T, n), NEW a \in 1..n,
           NEW x \in Int, NEW c, NEW p, Pending(T, x, a, c, p)
    PROVE  Only(T, n, x, a)
<1>0. /\ T \in [0..n -> Nat] /\ c \in Nat /\ c > 0 /\ p \in Nat /\ c <= p
      /\ T[a] = T[a - 1] + p /\ x = T[a] - c + 1
  BY DEF Pending
<1>1. \A k \in 1..n : k \in 0..n /\ k - 1 \in 0..n
  OBVIOUS
<1>2. \A k \in 1..n : T[k] \in Nat /\ T[k - 1] \in Nat
  BY <1>0, <1>1
<1> DEFINE y == T[a]
           z == T[a - 1]
<1>3. y \in Nat /\ z \in Nat /\ y = z + p /\ x = y - c + 1
  BY <1>0, <1>2
<1> SUFFICES ASSUME NEW k \in 1..n PROVE T[k - 1] < x /\ x <= T[k] <=> k = a
  BY DEF Only
<1> DEFINE v == T[k]
           w == T[k - 1]
<1>4. v \in Nat /\ w \in Nat
  BY <1>2
<1>5. k < a => v <= z
  <2> SUFFICES ASSUME k < a PROVE v <= z
    OBVIOUS
  <2>1. k \in 0..n /\ a - 1 \in 0..n /\ k <= a - 1
    BY <1>1
  <2> QED
    BY <2>1 DEF Rises
<1>6. k > a => y <= w
  <2> SUFFICES ASSUME k > a PROVE y <= w
    OBVIOUS
  <2>1. a \in 0..n /\ k - 1 \in 0..n /\ a <= k - 1
    BY <1>1
  <2> QED
    BY <2>1 DEF Rises
<1>7. k = a => v = y /\ w = z
  OBVIOUS
<1>8. k < a \/ k = a \/ k > a
  OBVIOUS
<1> HIDE DEF v, w, y, z
<1>9. z < x /\ x <= y
  <2>1. \A e, f \in Nat : e = f + p => f < e - c + 1 /\ e - c + 1 <= e
    BY <1>0
  <2> QED
    BY <1>0, <1>3, <2>1
<1>10. w < x /\ x <= v <=> k = a
  <2>2. x \in Int /\ y \in Int /\ z \in Int /\ v \in Int /\ w \in Int
    BY <1>3, <1>4
  <2>3. CASE k < a
    <3>1. v <= z /\ z < x
      BY <1>5, <1>9, <2>3
    <3>2. ~(x <= v)
      BY <2>2, <3>1, Ordered
    <3>3. k # a
      BY <2>3
    <3> QED
      BY <3>2, <3>3
  <2>4. CASE k > a
    <3>1. x <= y /\ y <= w
      BY <1>6, <1>9, <2>4
    <3>2. ~(w < x)
      BY <2>2, <3>1, Ordered
    <3>3. k # a
      BY <2>4
    <3> QED
      BY <3>2, <3>3
  <2> QED
    BY <1>7, <1>8, <1>9, <2>3, <2>4
<1> QED
  BY <1>10 DEF v, w

(* The next frame on either way, at either end, belongs to the call its    *)
(* sender or receiver is in.                                               *)
LEMMA CallOf ==
    ASSUME Typed, NEW q \in Leaf, Within(q), Balanced(q)
    PROVE  /\ Sending(q) > 0 =>
                /\ at[q] \in 1..Len(script)
                /\ \A k \in 1..Len(script) :
                     UpCall(q, k, Taken(q) + (Len(stream[<<q, 0>>]) + 1)) <=> k = at[q]
           /\ Receiving(q) > 0 =>
                /\ at[q] \in 1..Len(script)
                /\ \A k \in 1..Len(script) : DownCall(q, k, DownGot(q) + 1) <=> k = at[q]
           /\ Gathering(q) > 0 /\ Accepting = 0 =>
                /\ at[0] \in 1..Len(script)
                /\ \A k \in 1..Len(script) : UpCall(q, k, Taken(q) + 1) <=> k = at[0]
           /\ Releasing(q) > 0 =>
                /\ at[0] \in 1..Len(script)
                /\ \A k \in 1..Len(script) :
                     DownCall(q, k, DownGot(q) + (Len(stream[<<0, q>>]) + 1)) <=> k = at[0]
<1> DEFINE n == Len(script)
           U == UpTo(q)
           D == DownTo(q)
           a == at[q]
           b == at[0]
           lu == Len(stream[<<q, 0>>])
           ld == Len(stream[<<0, q>>])
           s == Sending(q)
           v == Receiving(q)
           g == Gathering(q)
           r == Releasing(q)
           P(i) == NUp(q, script[i])
           Q(i) == NDown(q, script[i])
           u == UpSent(q)
           t == Taken(q)
           d == DownGot(q)
<1>1. /\ a \in 0..n /\ b \in 0..n /\ s \in Nat /\ v \in Nat /\ g \in Nat /\ r \in Nat
      /\ lu \in Nat /\ ld \in Nat /\ script \in Scripts
      /\ todo[q] = <<>> => s = 0 /\ v = 0
      /\ todo[0] = <<>> => g = 0 /\ r = 0
      /\ a = 0 => todo[q] = <<>>
      /\ b = 0 => todo[0] = <<>>
  BY Numbers
<1>2. /\ n \in Nat /\ U \in [0..n -> Nat] /\ D \in [0..n -> Nat]
      /\ Rises(U, n) /\ Rises(D, n)
  BY <1>1, ScriptTotals DEF Rises
<1>3. \A i \in 1..n : P(i) \in Nat /\ U[i] = U[i - 1] + P(i)
  BY <1>1, CallsInOrder
<1>4. \A i \in 1..n : Q(i) \in Nat /\ D[i] = D[i - 1] + Q(i)
  BY <1>1, CallsInOrder
<1>5. /\ a > 0 => s <= P(a) /\ v <= Q(a)
      /\ b > 0 => g <= P(b) /\ r <= Q(b)
  BY DEF Within
<1>6. u = U[a] - s /\ t = u - lu /\ d = D[a] - v
  BY DEF UpSent, Taken, DownGot
<1>7. /\ D[b] - r = d + ld
      /\ Accepting = 0 => t = U[b] - g
  BY DEF Balanced, DownSent, UpGot
<1>8. U[a] \in Nat /\ U[b] \in Nat /\ D[a] \in Nat /\ D[b] \in Nat
  BY <1>1, <1>2
<1>9. \A k, x : /\ UpCall(q, k, x) <=> U[k - 1] < x /\ x <= U[k]
                /\ DownCall(q, k, x) <=> D[k - 1] < x /\ x <= D[k]
  BY DEF UpCall, DownCall
<1> HIDE DEF n, U, D, a, b, lu, ld, s, v, g, r, P, Q, u, t, d
<1>10. s > 0 \/ v > 0 => a \in 1..n
  BY <1>1, <1>2
<1>11. g > 0 \/ r > 0 => b \in 1..n
  BY <1>1, <1>2
<1> DEFINE x1 == t + (lu + 1)
           x2 == d + 1
           x3 == t + 1
           x4 == d + (ld + 1)
           Ua == U[a]
           Ub == U[b]
           Da == D[a]
           Db == D[b]
<1>12. /\ Ua \in Nat /\ Ub \in Nat /\ Da \in Nat /\ Db \in Nat
       /\ u = Ua - s /\ t = u - lu /\ d = Da - v /\ Db - r = d + ld
       /\ Accepting = 0 => t = Ub - g
  BY <1>6, <1>7, <1>8
<1>13. /\ x1 = Ua - s + 1 /\ x2 = Da - v + 1 /\ x4 = Db - r + 1
       /\ Accepting = 0 => x3 = Ub - g + 1
       /\ x1 \in Int /\ x2 \in Int /\ x3 \in Int /\ x4 \in Int
  <2> HIDE DEF Ua, Ub, Da, Db
  <2>1. u \in Int /\ t \in Int /\ d \in Int
    BY <1>1, <1>12
  <2>2. x1 = Ua - s + 1 /\ x2 = Da - v + 1
    BY <1>1, <1>12, <2>1
  <2>3. x4 = Db - r + 1
    BY <1>1, <1>12, <2>1
  <2>4. Accepting = 0 => x3 = Ub - g + 1
    BY <1>1, <1>12, <2>1
  <2> QED
    BY <1>1, <2>1, <2>2, <2>3, <2>4
<1> HIDE DEF x1, x2, x3, x4
<1>14. ASSUME s > 0 PROVE \A k \in 1..n : UpCall(q, k, x1) <=> k = a
  <2>1. a \in 1..n /\ P(a) \in Nat /\ U[a] = U[a - 1] + P(a) /\ s <= P(a)
    <3>1. a \in 1..n
      BY <1>10, <1>14
    <3> QED
      BY <1>3, <1>5, <3>1
  <2>2. /\ n \in Nat /\ U \in [0..n -> Nat] /\ Rises(U, n)
        /\ s \in Nat /\ s > 0 /\ x1 \in Int /\ x1 = U[a] - s + 1
    BY <1>1, <1>2, <1>13, <1>14
  <2>3. Pending(U, x1, a, s, P(a))
    BY <2>1, <2>2 DEF Pending
  <2>4. Only(U, n, x1, a)
    BY <2>1, <2>2, <2>3, OneCall, Zenon
  <2> QED
    BY <1>9, <2>4 DEF Only
<1>15. ASSUME v > 0 PROVE \A k \in 1..n : DownCall(q, k, x2) <=> k = a
  <2>1. a \in 1..n /\ Q(a) \in Nat /\ D[a] = D[a - 1] + Q(a) /\ v <= Q(a)
    <3>1. a \in 1..n
      BY <1>10, <1>15
    <3> QED
      BY <1>4, <1>5, <3>1
  <2>2. /\ n \in Nat /\ D \in [0..n -> Nat] /\ Rises(D, n)
        /\ v \in Nat /\ v > 0 /\ x2 \in Int /\ x2 = D[a] - v + 1
    BY <1>1, <1>2, <1>13, <1>15
  <2>3. Pending(D, x2, a, v, Q(a))
    BY <2>1, <2>2 DEF Pending
  <2>4. Only(D, n, x2, a)
    BY <2>1, <2>2, <2>3, OneCall, Zenon
  <2> QED
    BY <1>9, <2>4 DEF Only
<1>16. ASSUME g > 0, Accepting = 0 PROVE \A k \in 1..n : UpCall(q, k, x3) <=> k = b
  <2>1. b \in 1..n /\ P(b) \in Nat /\ U[b] = U[b - 1] + P(b) /\ g <= P(b)
    <3>1. b \in 1..n
      BY <1>11, <1>16
    <3> QED
      BY <1>3, <1>5, <3>1
  <2>2. /\ n \in Nat /\ U \in [0..n -> Nat] /\ Rises(U, n)
        /\ g \in Nat /\ g > 0 /\ x3 \in Int /\ x3 = U[b] - g + 1
    BY <1>1, <1>2, <1>13, <1>16
  <2>3. Pending(U, x3, b, g, P(b))
    BY <2>1, <2>2 DEF Pending
  <2>4. Only(U, n, x3, b)
    BY <2>1, <2>2, <2>3, OneCall, Zenon
  <2> QED
    BY <1>9, <2>4 DEF Only
<1>17. ASSUME r > 0 PROVE \A k \in 1..n : DownCall(q, k, x4) <=> k = b
  <2>1. b \in 1..n /\ Q(b) \in Nat /\ D[b] = D[b - 1] + Q(b) /\ r <= Q(b)
    <3>1. b \in 1..n
      BY <1>11, <1>17
    <3> QED
      BY <1>4, <1>5, <3>1
  <2>2. /\ n \in Nat /\ D \in [0..n -> Nat] /\ Rises(D, n)
        /\ r \in Nat /\ r > 0 /\ x4 \in Int /\ x4 = D[b] - r + 1
    BY <1>1, <1>2, <1>13, <1>17
  <2>3. Pending(D, x4, b, r, Q(b))
    BY <2>1, <2>2 DEF Pending
  <2>4. Only(D, n, x4, b)
    BY <2>1, <2>2, <2>3, OneCall, Zenon
  <2> QED
    BY <1>9, <2>4 DEF Only
<1> QED
  BY <1>10, <1>11, <1>14, <1>15, <1>16, <1>17
     DEF n, a, b, lu, ld, s, v, g, r, t, d, x1, x2, x3, x4

-----------------------------------------------------------------------------
(* The values, in a step of a rank other than 0. *)

LEMMA LeafUp ==
    ASSUME Typed, script' = script, NEW q \in Leaf, Within(q), Balanced(q), LeafMove(q), Kept(0),
           UpFrames(q), LeafGot(q)
    PROVE  UpFrames(q)'
<1> DEFINE S == stream[<<q, 0>>]
           n == Len(S)
<1>1. /\ IsSeq(S) /\ n \in Nat /\ at[q] \in 0..Len(script)
      /\ todo[q] \in Seq(LeafItem)
  <2>1. IsSeq(S) /\ todo[q] \in Seq(LeafItem)
    BY LeafPlaces DEF Typed, RootInv, Harmless
  <2> QED
    BY <2>1, Numbers
<1>2. LeafCounts(q)
  BY LeafCounting
<1>3. Taken(q)' = Taken(q)
  BY <1>2, LeafBalance
<1>4. \A k, x : UpCall(q, k, x)' <=> UpCall(q, k, x)
  BY DEF UpCall, UpTo
<1>5. \A i \in 1..n, k \in 1..Len(script) :
         script[k] \in Exchanging /\ UpCall(q, k, Taken(q) + i) => S[i] = << <<q, k>> >>
  BY DEF UpFrames
<1>6. CASE stream'[<<q, 0>>] = S
  BY <1>3, <1>4, <1>5, <1>6 DEF UpFrames
<1>7. ASSUME NEW w, LeafSends(q, w) PROVE UpFrames(q)'
  <2>1. /\ stream'[<<q, 0>>] = Append(S, Content(q, Own(q), w))
        /\ Head(todo[q]) = Send(0, w) /\ todo[q] # <<>> /\ at'[q] = at[q]
    BY <1>7 DEF LeafSends
  <2>2. /\ Len(stream'[<<q, 0>>]) = n + 1
        /\ \A i \in 1..n + 1 :
             stream'[<<q, 0>>][i] = IF i <= n THEN S[i] ELSE Content(q, Own(q), w)
    BY <1>1, <2>1, SeqFacts
  <2>3. Sending(q) > 0
    BY <1>1, <1>2, <2>1, <2>2 DEF LeafCounts, KeptStreams
  <2>4. \A k \in 1..Len(script) : UpCall(q, k, Taken(q) + (n + 1)) <=> k = at[q]
    BY <2>3, CallOf
  <2>5. ASSUME script[at[q]] \in Exchanging, at[q] > 0
        PROVE  Content(q, Own(q), w) = << <<q, at[q]>> >>
    <3>1. Head(todo[q]) \in {Send(0, "own"), Recv(0), Drain(0)}
      <4>1. Len(todo[q]) \in Nat \ {0} /\ Head(todo[q]) = todo[q][1]
        BY <1>1, <2>1, EmptySeq
      <4> QED
        BY <2>5, <4>1 DEF LeafGot
    <3>2. w = "own"
      BY <2>1, <3>1, ItemKinds
    <3>3. Own(q) = <<q, at[q]>>
      BY <2>5 DEF Own, Exchanging
    <3> QED
      BY <3>2, <3>3 DEF Content
  <2> DEFINE t == Taken(q)
             S2 == stream'[<<q, 0>>]
  <2>6. Len(S2) = n + 1 /\ n \in Nat
    BY <1>1, <2>2
  <2> HIDE DEF n, t, S, S2
  <2>7. ASSUME NEW i \in 1..(n + 1), NEW k \in 1..Len(script), script[k] \in Exchanging,
               UpCall(q, k, t + i)
        PROVE  S2[i] = << <<q, k>> >>
    <3>1. CASE i <= n
      <4>1. i \in 1..n
        BY <2>6, <3>1
      <4>2. S2[i] = S[i]
        BY <2>2, <3>1 DEF S2
      <4> QED
        BY <1>5, <2>7, <4>1, <4>2 DEF t
    <3>2. CASE i = n + 1
      <4>1. UpCall(q, k, t + (n + 1))
        BY <2>7, <3>2
      <4>2. k = at[q]
        BY <2>4, <4>1 DEF t
      <4>3. S2[i] = Content(q, Own(q), w)
        <5>1. ~(i <= n)
          BY <2>6, <3>2
        <5> QED
          BY <2>2, <5>1 DEF S2
      <4>4. k > 0
        OBVIOUS
      <4> QED
        BY <2>5, <2>7, <4>2, <4>3, <4>4
    <3> QED
      BY <2>6, <3>1, <3>2
  <2>8. \A i \in 1..(n + 1), k \in 1..Len(script) :
          script[k] \in Exchanging /\ UpCall(q, k, t + i) => S2[i] = << <<q, k>> >>
    BY <2>7
  <2> QED
    BY <1>3, <1>4, <2>6, <2>8 DEF UpFrames, S2, t
<1> QED
  BY <1>6, <1>7 DEF LeafMove, LeafEnters, LeafPasses, LeafTakes

LEMMA LeafDown ==
    ASSUME Typed, script' = script, NEW q \in Leaf, Within(q), Balanced(q), LeafMove(q), Kept(0),
           DownFrames(q)
    PROVE  DownFrames(q)'
<1> DEFINE S == stream[<<0, q>>]
           n == Len(S)
<1>1. /\ IsSeq(S) /\ n \in Nat /\ DownGot(q) \in Int
  <2>1. IsSeq(S)
    BY LeafPlaces DEF Typed
  <2>2. DownTo(q)[at[q]] \in Nat /\ Receiving(q) \in Nat
    BY Numbers, ScriptTotals
  <2> QED
    BY <2>1, <2>2, Numbers DEF DownGot
<1>2. LeafCounts(q)
  BY LeafCounting
<1>3. DownGot(q)' = DownGot(q) + (n - Len(stream'[<<0, q>>]))
  BY <1>2, LeafBalance
<1>4. \A k, x : DownCall(q, k, x)' <=> DownCall(q, k, x)
  BY DEF DownCall, DownTo
<1>5. \A i \in 1..n, k \in 1..Len(script) :
         script[k] \in Exchanging /\ DownCall(q, k, DownGot(q) + i)
           => S[i] = Expected(q, script[k], k)
  BY DEF DownFrames
<1>7. CASE stream'[<<0, q>>] = S
  <2>1. DownGot(q)' = DownGot(q)
    BY <1>1, <1>3, <1>7
  <2> QED
    BY <1>4, <1>5, <1>7, <2>1 DEF DownFrames
<1>8. CASE LeafTakes(q)
  <2>1. stream'[<<0, q>>] = Tail(S) /\ S # <<>>
    BY <1>8 DEF LeafTakes
  <2>2. Len(Tail(S)) = n - 1 /\ \A i \in 1..n - 1 : Tail(S)[i] = S[i + 1]
    BY <1>1, <2>1, SeqFacts
  <2>3. DownGot(q)' = DownGot(q) + 1
    BY <1>1, <1>3, <2>1, <2>2
  <2>4. ASSUME NEW i \in 1..n - 1, NEW k \in 1..Len(script), script[k] \in Exchanging,
               DownCall(q, k, (DownGot(q) + 1) + i)
        PROVE  Tail(S)[i] = Expected(q, script[k], k)
    <3>1. i + 1 \in 1..n
      BY <1>1
    <3>2. (DownGot(q) + 1) + i = DownGot(q) + (i + 1)
      <4>1. \A x \in Int, y \in Int : (x + 1) + y = x + (y + 1)
        OBVIOUS
      <4> QED
        BY <1>1, <4>1
    <3> QED
      BY <1>5, <2>2, <2>4, <3>1, <3>2
  <2> DEFINE S2 == stream'[<<0, q>>]
             d == DownGot(q) + 1
  <2>5. Len(S2) = n - 1
    BY <2>1, <2>2
  <2>6. \A i \in 1..(n - 1), k \in 1..Len(script) :
          script[k] \in Exchanging /\ DownCall(q, k, d + i) => S2[i] = Expected(q, script[k], k)
    BY <2>1, <2>4
  <2> HIDE DEF n, S2, d
  <2> QED
    BY <1>4, <2>3, <2>5, <2>6 DEF DownFrames, S2, d
<1> QED
  BY <1>7, <1>8 DEF LeafMove, LeafEnters, LeafPasses, LeafSends

LEMMA ExpectedSeq ==
    ASSUME NEW q, NEW call, NEW k
    PROVE  \E S : Expected(q, call, k) \in Seq(S)
<1> DEFINE everyones == [i \in 1..Size |-> <<i - 1, k>>]
           E == {<<i - 1, k>> : i \in 1..Size} \cup {<<Size - 1, k>>}
<1>1. everyones \in Seq(E)
  <2>1. Size \in Nat /\ everyones \in [1..Size -> E]
    BY CommAssumption
  <2> HIDE DEF everyones, E
  <2> QED
    BY <2>1
<1>2. << <<Size - 1, k>> >> \in Seq(E) /\ <<>> \in Seq(E)
  OBVIOUS
<1>3. Expected(q, call, k) \in {<< <<Size - 1, k>> >>, everyones, <<>>}
  BY DEF Expected
<1> HIDE DEF everyones, E
<1> QED
  BY <1>1, <1>2, <1>3

LEMMA LeafKeeps ==
    ASSUME Typed, script' = script, NEW q \in Leaf, Within(q), Balanced(q), LeafMove(q), Kept(0),
           DownFrames(q), LeafGot(q)
    PROVE  LeafGot(q)'
<1> DEFINE X == {Send(0, "own"), Recv(0), Drain(0)}
           call == script[at[q]]
<1>1. /\ todo[q] \in Seq(LeafItem) /\ at[q] \in 0..Len(script) /\ Receiving(q) \in Nat
      /\ script \in Scripts /\ Len(stream[<<q, 0>>]) \in Nat /\ Len(stream[<<0, q>>]) \in Nat
  <2>1. todo[q] \in Seq(LeafItem)
    BY LeafPlaces DEF Typed, RootInv, Harmless
  <2> QED
    BY <2>1, Numbers
<1>2. LeafCounts(q)
  BY LeafCounting
<1>3. \A c, k : Expected(q, c, k)' = Expected(q, c, k)
  BY DEF Expected
<1>4. CASE LeafEnters(q)
  <2> DEFINE c == script[at[q] + 1]
  <2> SUFFICES ASSUME c \in Exchanging
               PROVE  /\ \A i \in 1..Len(todo'[q]) : todo'[q][i] \in X
                      /\ got'[q] = IF Receiving(q)' > 0 THEN <<>> ELSE Expected(q, c, at[q] + 1)
    BY <1>3, <1>4 DEF LeafGot, LeafEnters
  <2>1. todo'[q] = Plan(q, c) /\ got'[q] = <<>>
    BY <1>4 DEF LeafEnters
  <2>2. Receiving(q)' = NDown(q, c)
    BY <1>1, <1>2, <1>4 DEF LeafCounts, LeafEnters
  <2>3. Receiving(q)' = 0 => Expected(q, c, at[q] + 1) = <<>>
    BY <2>2 DEF NDown, Expected, Exchanging
  <2>4. \A i \in 1..Len(Plan(q, c)) : Plan(q, c)[i] \in X
    <3> DEFINE o == Send(0, "own")
               v == Recv(0)
    <3>1. Plan(q, c) \in {<<o, v>>, <<o>>, <<v>>} /\ o \in X /\ v \in X
      BY LeafPlans DEF Exchanging
    <3> HIDE DEF o, v, X, c
    <3>2. \A s \in {<<o, v>>, <<o>>, <<v>>} : \A i \in 1..Len(s) : s[i] \in {o, v}
      OBVIOUS
    <3> QED
      BY <3>1, <3>2
  <2>5. Receiving(q)' \in Nat
    BY <2>2 DEF NDown
  <2> QED
    BY <2>1, <2>3, <2>4, <2>5
<1>5. ASSUME at[q] > 0, call \in Exchanging, todo[q] # <<>>
      PROVE  /\ \A i \in 1..Len(Tail(todo[q])) : Tail(todo[q])[i] \in X
             /\ \A i \in 1..Len(<<Drain(0)>> \o Tail(todo[q])) :
                  (<<Drain(0)>> \o Tail(todo[q]))[i] \in X
             /\ Head(todo[q]) \in X
  <2> DEFINE s == todo[q]
             e == <<Drain(0)>>
             u == e \o Tail(s)
  <2>1. \A i \in 1..Len(s) : s[i] \in X
    BY <1>5 DEF LeafGot
  <2>2. /\ Len(s) \in Nat \ {0} /\ Tail(s) \in Seq(LeafItem) /\ Len(Tail(s)) = Len(s) - 1
        /\ \A i \in 1..Len(s) - 1 : Tail(s)[i] = s[i + 1]
        /\ Head(s) = s[1]
    BY <1>1, <1>5, HeadTailProperties, EmptySeq
  <2>3. \A i \in 1..Len(s) - 1 : i + 1 \in 1..Len(s)
    BY <2>2
  <2>4. \A i \in 1..Len(Tail(s)) : Tail(s)[i] \in X
    BY <2>1, <2>2, <2>3
  <2>5. e \in Seq(LeafItem) /\ Len(e) = 1 /\ e[1] = Drain(0)
    BY LeafItems
  <2>6. \A i \in 1..Len(u) : u[i] = Drain(0) \/ \E j \in 1..Len(Tail(s)) : u[i] = Tail(s)[j]
    <3> DEFINE r == Tail(s)
    <3>1. r \in Seq(LeafItem) /\ Len(r) \in Nat
      BY <2>2
    <3> HIDE DEF e, s, r, u
    <3>2. /\ Len(u) = Len(e) + Len(r)
          /\ \A i \in 1..Len(e) + Len(r) : u[i] = IF i <= Len(e) THEN e[i] ELSE r[i - Len(e)]
      <4>1. u = e \o r
        BY DEF r, u
      <4> QED
        BY <2>5, <3>1, <4>1, ConcatProperties
    <3>3. Len(u) = 1 + Len(r) /\ \A i \in 1..1 + Len(r) : u[i] = IF i <= 1 THEN e[i] ELSE r[i - 1]
      BY <2>5, <3>2
    <3> SUFFICES ASSUME NEW i \in 1..Len(u)
                 PROVE  u[i] = Drain(0) \/ \E j \in 1..Len(Tail(s)) : u[i] = Tail(s)[j]
      OBVIOUS
    <3>4. CASE i = 1
      <4>1. u[1] = e[1]
        BY <3>1, <3>3
      <4> QED
        BY <2>5, <3>4, <4>1
    <3>5. CASE i > 1
      <4>1. i - 1 \in 1..Len(r) /\ u[i] = r[i - 1]
        BY <3>1, <3>3, <3>5
      <4> QED
        BY <4>1 DEF r
    <3> QED
      BY <3>1, <3>3, <3>4, <3>5
  <2>7. Head(s) \in X
    BY <2>1, <2>2
  <2> HIDE DEF u, s, X
  <2>8. Drain(0) \in X
    BY DEF X
  <2>9. \A i \in 1..Len(u) : u[i] \in X
    BY <2>4, <2>6, <2>8
  <2> QED
    BY <2>4, <2>7, <2>9 DEF u, s, e
<1>6. ASSUME at'[q] = at[q], todo[q] # <<>>, got'[q] = got[q], Receiving(q)' = Receiving(q),
             todo'[q] \in {Tail(todo[q]), <<Drain(0)>> \o Tail(todo[q])}
      PROVE  LeafGot(q)'
  <2> SUFFICES ASSUME at[q] > 0, call \in Exchanging
               PROVE  /\ \A i \in 1..Len(todo'[q]) : todo'[q][i] \in X
                      /\ got'[q] = IF Receiving(q)' > 0 THEN <<>> ELSE Expected(q, call, at[q])
    BY <1>3, <1>6 DEF LeafGot
  <2>1. \A i \in 1..Len(todo'[q]) : todo'[q][i] \in X
    <3> HIDE DEF X
    <3> QED
      BY <1>5, <1>6
  <2> QED
    BY <1>6, <2>1 DEF LeafGot
<1>7. CASE LeafPasses(q)
  <2>1. /\ at'[q] = at[q] /\ Len(stream'[<<q, 0>>]) = Len(stream[<<q, 0>>])
        /\ Len(stream'[<<0, q>>]) = Len(stream[<<0, q>>])
    BY <1>7 DEF LeafPasses
  <2>2. Receiving(q)' = Receiving(q)
    BY <1>1, <1>2, <2>1 DEF LeafCounts
  <2> QED
    BY <1>6, <1>7, <2>2 DEF LeafPasses
<1>8. ASSUME NEW w, LeafSends(q, w) PROVE LeafGot(q)'
  <2>1. at'[q] = at[q] /\ Len(stream'[<<0, q>>]) = Len(stream[<<0, q>>])
    BY <1>8 DEF LeafSends
  <2>2. ~(at'[q] = at[q] + 1) /\ ~(Len(stream'[<<0, q>>]) = Len(stream[<<0, q>>]) - 1)
    <3>1. \A x \in Int : x # x + 1 /\ x # x - 1
      OBVIOUS
    <3>2. at[q] \in Int /\ Len(stream[<<0, q>>]) \in Int
      BY <1>1
    <3> QED
      BY <2>1, <3>1, <3>2, Zenon
  <2>3. Receiving(q)' = Receiving(q)
    BY <1>2, <2>2 DEF LeafCounts
  <2> QED
    BY <1>6, <1>8, <2>3 DEF LeafSends
<1>9. CASE LeafTakes(q)
  <2> DEFINE S == stream[<<0, q>>]
  <2>1. /\ at'[q] = at[q] /\ todo[q] # <<>> /\ todo'[q] = Tail(todo[q]) /\ S # <<>>
        /\ got'[q] = got[q] \o Head(S) /\ stream'[<<0, q>>] = Tail(S)
    BY <1>9 DEF LeafTakes
  <2> SUFFICES ASSUME at[q] > 0, call \in Exchanging
               PROVE  /\ \A i \in 1..Len(todo'[q]) : todo'[q][i] \in X
                      /\ got'[q] = IF Receiving(q)' > 0 THEN <<>> ELSE Expected(q, call, at[q])
    BY <1>3, <2>1 DEF LeafGot
  <2>2. \A i \in 1..Len(todo'[q]) : todo'[q][i] \in X
    BY <1>5, <2>1
  <2>3. /\ Len(S) \in Nat \ {0} /\ Len(Tail(S)) = Len(S) - 1 /\ Head(S) = S[1]
    <3>1. IsSeq(S)
      BY LeafPlaces DEF Typed
    <3> QED
      BY <2>1, <3>1, SeqFacts
  <2>4. Receiving(q)' = Receiving(q) - 1 /\ Receiving(q) > 0
    <3>1. at'[q] = at[q] /\ Len(stream'[<<0, q>>]) # Len(stream[<<0, q>>])
      BY <1>1, <2>1, <2>3
    <3>2. ~KeptStreams(q) /\ stream'[<<0, q>>] # stream[<<0, q>>]
      BY <3>1 DEF KeptStreams
    <3> QED
      BY <1>2, <3>2 DEF LeafCounts
  <2>5. Receiving(q) = 1
    <3>1. Receiving(q) <= NDown(q, call)
      BY DEF Within
    <3>2. NDown(q, call) <= 1
      BY DEF NDown, Exchanging
    <3>3. NDown(q, call) \in Nat
      BY DEF NDown
    <3> QED
      BY <1>1, <2>4, <3>1, <3>2, <3>3
  <2>6. got[q] = <<>>
    BY <2>5 DEF LeafGot
  <2>7. S[1] = Expected(q, call, at[q])
    <3>1. at[q] \in 1..Len(script) /\ DownCall(q, at[q], DownGot(q) + 1)
      BY <2>4, CallOf
    <3> QED
      BY <2>3, <3>1 DEF DownFrames
  <2>8. <<>> \o Expected(q, call, at[q]) = Expected(q, call, at[q])
    <3>1. \E T : Expected(q, call, at[q]) \in Seq(T)
      BY ExpectedSeq
    <3> QED
      BY <3>1
  <2> QED
    BY <2>1, <2>2, <2>3, <2>4, <2>5, <2>6, <2>7, <2>8
<1> QED
  BY <1>4, <1>7, <1>8, <1>9 DEF LeafMove

-----------------------------------------------------------------------------
(* The values, in a step of rank 0. *)

LEMMA RootUp ==
    ASSUME Typed, script' = script, NEW q \in Leaf, RootMove, Kept(q), UpFrames(q)
    PROVE  UpFrames(q)'
<1> DEFINE S == stream[<<q, 0>>]
           n == Len(S)
<1>1. /\ IsSeq(S) /\ n \in Nat /\ UpSent(q) \in Int
      /\ <<q, 0>> \in Streams /\ DOMAIN stream = Streams
  <2>1. IsSeq(S) /\ <<q, 0>> \in Streams /\ DOMAIN stream = Streams
    BY LeafPlaces DEF Typed
  <2>2. UpTo(q)[at[q]] \in Nat /\ Sending(q) \in Nat
    BY Numbers, ScriptTotals
  <2> QED
    BY <2>1, <2>2, Numbers DEF UpSent
<1>2. UpSent(q)' = UpSent(q)
  BY DEF UpSent, UpTo, Sending, Kept
<1>3. Taken(q) = UpSent(q) - n /\ Taken(q)' = UpSent(q) - Len(stream'[<<q, 0>>])
  BY <1>2 DEF Taken
<1>4. \A k, x : UpCall(q, k, x)' <=> UpCall(q, k, x)
  BY DEF UpCall, UpTo
<1>5. \A i \in 1..n, k \in 1..Len(script) :
         script[k] \in Exchanging /\ UpCall(q, k, Taken(q) + i) => S[i] = << <<q, k>> >>
  BY DEF UpFrames
<1>6. CASE stream'[<<q, 0>>] = S
  <2>1. Taken(q)' = Taken(q)
    BY <1>3, <1>6
  <2> QED
    BY <1>4, <1>5, <1>6, <2>1 DEF UpFrames
<1>7. CASE RootTakes(q)
  <2>1. stream'[<<q, 0>>] = Tail(S) /\ S # <<>>
    BY <1>1, <1>7 DEF RootTakes
  <2>2. Len(Tail(S)) = n - 1 /\ \A i \in 1..n - 1 : Tail(S)[i] = S[i + 1]
    BY <1>1, <2>1, SeqFacts
  <2>3. Taken(q)' = Taken(q) + 1 /\ Taken(q) \in Int
    BY <1>1, <1>3, <2>1, <2>2
  <2>4. ASSUME NEW i \in 1..n - 1, NEW k \in 1..Len(script), script[k] \in Exchanging,
               UpCall(q, k, (Taken(q) + 1) + i)
        PROVE  Tail(S)[i] = << <<q, k>> >>
    <3>1. i + 1 \in 1..n
      <4>1. \A x \in Nat : \A j \in 1..x - 1 : j + 1 \in 1..x
        OBVIOUS
      <4> QED
        BY <1>1, <4>1, Zenon
    <3>2. (Taken(q) + 1) + i = Taken(q) + (i + 1)
      <4>1. \A x \in Int, y \in Int : (x + 1) + y = x + (y + 1)
        OBVIOUS
      <4> QED
        BY <2>3, <4>1
    <3> QED
      BY <1>5, <2>2, <2>4, <3>1, <3>2
  <2> DEFINE S2 == stream'[<<q, 0>>]
             t == Taken(q) + 1
  <2>5. Len(S2) = n - 1
    BY <2>1, <2>2
  <2>6. \A i \in 1..(n - 1), k \in 1..Len(script) :
          script[k] \in Exchanging /\ UpCall(q, k, t + i) => S2[i] = << <<q, k>> >>
    BY <2>1, <2>4
  <2>7. Taken(q)' = t
    BY <2>3
  <2> HIDE DEF n, S2, t
  <2>8. \A i \in 1..Len(S2), k \in 1..Len(script) :
          script[k] \in Exchanging /\ UpCall(q, k, t + i) => S2[i] = << <<q, k>> >>
    BY <2>5, <2>6
  <2> QED
    BY <1>4, <2>7, <2>8 DEF UpFrames, S2
<1>8. CASE RootEnters \/ RootPasses
  BY <1>6, <1>8 DEF RootEnters, RootPasses
<1>9. ASSUME NEW p, NEW w, RootSends(p, w) PROVE UpFrames(q)'
  <2>1. <<0, p>> # <<q, 0>>
    BY LeafPlaces
  <2>2. stream'[<<q, 0>>] = S
    BY <1>1, <1>9, <2>1 DEF RootSends
  <2> QED
    BY <1>6, <2>2
<1>10. ASSUME NEW p, RootTakes(p), p # q PROVE UpFrames(q)'
  <2>1. <<p, 0>> # <<q, 0>>
    BY <1>10
  <2>2. stream'[<<q, 0>>] = S
    BY <1>1, <1>10, <2>1 DEF RootTakes
  <2> QED
    BY <1>6, <2>2
<1> QED
  BY <1>7, <1>8, <1>9, <1>10 DEF RootMove

LEMMA SourceFacts ==
    ASSUME NEW call \in Exchanging, Size # 1
    PROVE  /\ Len(Sources(call)) \in Nat \ {0}
           /\ \A i \in 1..Len(Sources(call)) : Sources(call)[i] \in Leaf
           /\ call = "bcast" => Len(Sources(call)) = 1 /\ Sources(call)[1] = Size - 1
           /\ call # "bcast" => /\ Len(Sources(call)) = Size - 1
                                /\ \A i \in Leaf : Sources(call)[i] = i
<1>1. Size - 1 \in Nat \ {0} /\ Leaf = 1..(Size - 1) /\ Size - 1 \in Leaf
  BY CommAssumption DEF Leaf
<1>2. CASE call = "bcast"
  BY <1>1, <1>2 DEF Sources
<1>3. CASE call # "bcast"
  <2>1. Sources(call) = [i \in 1..(Size - 1) |-> i]
    BY <1>1, <1>3 DEF Sources
  <2> QED
    BY <1>1, <1>3, <2>1
<1> QED
  BY <1>2, <1>3

LEMMA HeardFacts ==
    ASSUME NEW call \in Exchanging, Size # 1, NEW k, NEW m \in 0..Len(Sources(call))
    PROVE  /\ m < Len(Sources(call)) =>
                Heard(call, k, m) \o << <<Sources(call)[m + 1], k>> >> = Heard(call, k, m + 1)
           /\ Heard(call, k, 0) = <<>>
           /\ call = "bcast" => Heard(call, k, Len(Sources(call))) = << <<Size - 1, k>> >>
           /\ call # "bcast" => << <<0, k>> >> \o Heard(call, k, Len(Sources(call)))
                                  = [i \in 1..Size |-> <<i - 1, k>>]
<1> DEFINE n == Len(Sources(call))
           V == {<<i, k>> : i \in Leaf}
           W == V \cup {<<0, k>>}
<1>1. n \in Nat \ {0} /\ \A i \in 1..n : Sources(call)[i] \in Leaf
  BY SourceFacts
<1>2. ASSUME NEW l \in 0..n
      PROVE  /\ Heard(call, k, l) \in Seq(V) /\ Len(Heard(call, k, l)) = l
             /\ \A i \in 1..l : Heard(call, k, l)[i] = <<Sources(call)[i], k>>
  <2>1. \A i \in 1..l : <<Sources(call)[i], k>> \in V
    BY <1>1
  <2>2. l \in Nat
    BY <1>1
  <2> HIDE DEF V
  <2> QED
    BY <2>1, <2>2 DEF Heard
<1> HIDE DEF n, V
<1>3. ASSUME m < n
      PROVE  Heard(call, k, m) \o << <<Sources(call)[m + 1], k>> >> = Heard(call, k, m + 1)
  <2> DEFINE s == Heard(call, k, m)
             e == << <<Sources(call)[m + 1], k>> >>
             u == s \o e
             v == Heard(call, k, m + 1)
  <2>1. m \in 0..n /\ m + 1 \in 0..n /\ m \in Nat /\ m + 1 \in 1..n
    BY <1>1, <1>3 DEF n
  <2>2. e \in Seq(V) /\ Len(e) = 1 /\ e[1] = <<Sources(call)[m + 1], k>>
    BY <1>1, <2>1 DEF V
  <2>3. /\ s \in Seq(V) /\ Len(s) = m /\ \A i \in 1..m : s[i] = <<Sources(call)[i], k>>
        /\ v \in Seq(V) /\ Len(v) = m + 1 /\ \A i \in 1..m + 1 : v[i] = <<Sources(call)[i], k>>
    BY <1>2, <2>1
  <2> HIDE DEF s, e, v
  <2>4. /\ u \in Seq(V) /\ Len(u) = Len(s) + Len(e)
        /\ \A i \in 1..Len(s) + Len(e) : u[i] = IF i <= Len(s) THEN s[i] ELSE e[i - Len(s)]
    BY <2>2, <2>3, ConcatProperties
  <2> HIDE DEF u
  <2>5. Len(u) = m + 1 /\ \A i \in 1..m + 1 : u[i] = IF i <= m THEN s[i] ELSE e[i - m]
    BY <2>2, <2>3, <2>4
  <2>6. ASSUME NEW i \in 1..m + 1 PROVE u[i] = v[i]
    <3>1. CASE i <= m
      <4>1. i \in 1..m
        BY <2>1, <3>1
      <4>2. u[i] = s[i]
        BY <2>5, <3>1
      <4>3. s[i] = <<Sources(call)[i], k>> /\ v[i] = <<Sources(call)[i], k>>
        BY <2>3, <4>1
      <4> QED
        BY <4>2, <4>3, Zenon
    <3>2. CASE i = m + 1
      <4>1. i - m = 1 /\ ~(i <= m)
        BY <2>1, <3>2
      <4>2. u[i] = e[1]
        BY <2>5, <4>1
      <4>3. v[m + 1] = <<Sources(call)[m + 1], k>>
        <5>1. m + 1 \in 1..m + 1
          BY <2>1
        <5> QED
          BY <2>3, <5>1
      <4>4. e[1] = v[m + 1]
        BY <2>2, <4>3, Zenon
      <4>5. v[i] = v[m + 1]
        BY <3>2
      <4> QED
        BY <4>2, <4>4, <4>5, Zenon
    <3> QED
      BY <2>1, <3>1, <3>2
  <2>7. u = v
    BY <2>3, <2>4, <2>5, <2>6
  <2> QED
    BY <2>7 DEF u, s, e, v
<1>4. Heard(call, k, 0) = <<>>
  BY <1>1, <1>2 DEF n
<1>5. ASSUME call = "bcast" PROVE Heard(call, k, n) = << <<Size - 1, k>> >>
  <2>1. n = 1 /\ Sources(call)[1] = Size - 1
    BY <1>5, SourceFacts DEF n
  <2>2. /\ Heard(call, k, 1) \in Seq(V) /\ Len(Heard(call, k, 1)) = 1
        /\ Heard(call, k, 1)[1] = <<Size - 1, k>>
    BY <1>2, <2>1
  <2> DEFINE h == Heard(call, k, 1)
             v == <<Size - 1, k>>
  <2> HIDE DEF h, v
  <2>3. h = <<h[1]>>
    <3>1. h \in Seq(V) /\ Len(h) = 1
      BY <2>2 DEF h
    <3> QED
      BY <3>1
  <2> QED
    BY <2>1, <2>2, <2>3 DEF h, v
<1>6. ASSUME call # "bcast"
      PROVE  << <<0, k>> >> \o Heard(call, k, n) = [i \in 1..Size |-> <<i - 1, k>>]
  <2> DEFINE e == << <<0, k>> >>
             s == Heard(call, k, n)
             u == e \o s
             v == [i \in 1..Size |-> <<i - 1, k>>]
  <2>1. n = Size - 1 /\ (\A i \in Leaf : Sources(call)[i] = i) /\ Leaf = 1..n /\ Size \in Nat
        /\ Size = 1 + n
    BY <1>6, SourceFacts, CommAssumption DEF n, Leaf
  <2>2. s \in Seq(V) /\ Len(s) = n /\ \A i \in 1..n : s[i] = <<i, k>>
    <3>1. n \in 0..n
      BY <1>1
    <3>2. \A i \in 1..n : Sources(call)[i] = i
      BY <2>1
    <3>3. s \in Seq(V) /\ Len(s) = n /\ \A i \in 1..n : s[i] = <<Sources(call)[i], k>>
      BY <1>2, <3>1
    <3> HIDE DEF s
    <3> QED
      BY <3>2, <3>3
  <2>3. e \in Seq(W) /\ Len(e) = 1 /\ e[1] = <<0, k>>
    OBVIOUS
  <2>4. s \in Seq(W)
    <3> HIDE DEF s
    <3> QED
      BY <2>2
  <2>5. v \in Seq(W) /\ Len(v) = 1 + n /\ \A i \in 1..1 + n : v[i] = <<i - 1, k>>
    <3>1. \A i \in 1..Size : <<i - 1, k>> \in W
      <4> SUFFICES ASSUME NEW i \in 1..Size PROVE <<i - 1, k>> \in W
        OBVIOUS
      <4>1. i = 1 \/ i - 1 \in Leaf
        BY <2>1
      <4> QED
        BY <4>1 DEF V
    <3> HIDE DEF W
    <3> QED
      BY <2>1, <3>1
  <2> HIDE DEF e, s, v, W
  <2>6. /\ u \in Seq(W) /\ Len(u) = Len(e) + Len(s)
        /\ \A i \in 1..Len(e) + Len(s) : u[i] = IF i <= Len(e) THEN e[i] ELSE s[i - Len(e)]
    BY <2>3, <2>4, ConcatProperties
  <2> HIDE DEF u
  <2>7. Len(u) = 1 + n /\ \A i \in 1..1 + n : u[i] = IF i <= 1 THEN e[i] ELSE s[i - 1]
    BY <2>2, <2>3, <2>6
  <2>8. ASSUME NEW i \in 1..1 + n PROVE u[i] = v[i]
    <3>1. CASE i = 1
      <4>1. u[1] = e[1] /\ v[1] = <<1 - 1, k>>
        BY <2>5, <2>7, <3>1
      <4> QED
        BY <2>3, <3>1, <4>1
    <3>2. CASE i > 1
      <4>1. i - 1 \in 1..n /\ ~(i <= 1)
        BY <1>1, <3>2
      <4>2. u[i] = s[i - 1]
        BY <2>7, <4>1
      <4> QED
        BY <2>2, <2>5, <4>1, <4>2
    <3> QED
      BY <1>1, <3>1, <3>2
  <2>9. u = v
    BY <2>5, <2>6, <2>7, <2>8
  <2> QED
    BY <2>9, Zenon DEF u, e, s, v
<1> QED
  BY <1>3, <1>4, <1>5, <1>6, Zenon DEF n

LEMMA HearingHead ==
    ASSUME NEW call \in Exchanging, Size # 1, NEW m \in Nat, NEW s \in Seq(RootItem), s # <<>>,
           Hearing(s, call, m)
    PROVE  /\ Head(s) \in Taking =>
                /\ m < Len(Sources(call)) /\ Head(s) = Recv(Sources(call)[m + 1])
                /\ Hearing(Tail(s), call, m + 1)
           /\ Head(s) \notin Taking =>
                /\ m = Len(Sources(call)) /\ Hearing(Tail(s), call, m)
                /\ \E q \in Leaf : Head(s) \in {Send(q, Relaying(call)), Drain(q)}
                /\ \A p \in Leaf : Hearing(<<Drain(p)>> \o Tail(s), call, m)
<1> DEFINE n == Len(Sources(call))
           l == Len(s)
           t == Tail(s)
           Later(x) == \E q \in Leaf : x \in {Send(q, Relaying(call)), Drain(q)}
           First(i) == Recv(Sources(call)[i])
<1>1. n \in Nat /\ \A i \in 1..n : First(i) \in Taking
  BY SourceFacts DEF Taking
<1>2. /\ l \in Nat \ {0} /\ Head(s) = s[1] /\ t \in Seq(RootItem) /\ Len(t) = l - 1
      /\ \A i \in 1..(l - 1) : t[i] = s[i + 1]
  BY HeadTailProperties, EmptySeq
<1>3. \A x : Later(x) => x \notin Taking
  BY ItemKinds DEF Taking
<1>4. \A r, k : Hearing(r, call, k) <=>
        /\ k \in 0..n /\ n - k <= Len(r)
        /\ \A i \in 1..(n - k) : r[i] = First(k + i)
        /\ \A i \in (n - k + 1)..Len(r) : Later(r[i])
  BY DEF Hearing
<1>5. /\ m \in 0..n /\ n - m <= l
      /\ \A i \in 1..(n - m) : s[i] = First(m + i)
      /\ \A i \in (n - m + 1)..l : Later(s[i])
  BY <1>4
<1> HIDE DEF n, l, t, Later, First
<1>6. ASSUME m < n
      PROVE  /\ Head(s) = First(m + 1) /\ Head(s) \in Taking
             /\ Hearing(t, call, m + 1)
  <2>1. 1 \in 1..(n - m) /\ m + 1 \in 1..n
    BY <1>1, <1>6
  <2>2. Head(s) = First(m + 1) /\ Head(s) \in Taking
    BY <1>1, <1>2, <1>5, <2>1
  <2>3. m + 1 \in 0..n /\ n - (m + 1) <= l - 1
    BY <1>1, <1>2, <1>5, <1>6
  <2>4. ASSUME NEW i \in 1..(n - (m + 1)) PROVE t[i] = First((m + 1) + i)
    <3>1. i \in 1..(l - 1) /\ i + 1 \in 1..(n - m) /\ m + (i + 1) = (m + 1) + i
      BY <1>1, <1>2, <1>5
    <3>2. t[i] = s[i + 1] /\ s[i + 1] = First(m + (i + 1))
      BY <1>2, <1>5, <3>1
    <3> QED
      BY <3>1, <3>2
  <2>5. ASSUME NEW i \in (n - (m + 1) + 1)..(l - 1) PROVE Later(t[i])
    <3>1. i \in 1..(l - 1) /\ i + 1 \in (n - m + 1)..l
      BY <1>1, <1>2, <1>5, <1>6
    <3>2. t[i] = s[i + 1] /\ Later(s[i + 1])
      BY <1>2, <1>5, <3>1
    <3> QED
      BY <3>2
  <2> QED
    BY <1>2, <1>4, <2>2, <2>3, <2>4, <2>5
<1>7. ASSUME m = n
      PROVE  /\ Head(s) \notin Taking /\ Later(Head(s)) /\ Hearing(t, call, m)
             /\ \A p \in Leaf : Hearing(<<Drain(p)>> \o t, call, m)
  <2>1. n - m = 0 /\ n - m + 1 = 1 /\ m \in 0..n
    BY <1>1, <1>5, <1>7
  <2>2. \A i \in 1..l : Later(s[i])
    BY <1>5, <2>1
  <2>3. Head(s) \notin Taking /\ Later(Head(s))
    <3>1. 1 \in 1..l
      BY <1>2
    <3> QED
      BY <1>2, <1>3, <2>2, <3>1
  <2>4. \A r : Len(r) \in Nat /\ (\A i \in 1..Len(r) : Later(r[i])) => Hearing(r, call, m)
    <3> SUFFICES ASSUME NEW r, Len(r) \in Nat, \A i \in 1..Len(r) : Later(r[i])
                 PROVE  Hearing(r, call, m)
      OBVIOUS
    <3>1. n - m <= Len(r) /\ ~(\E i \in 1..(n - m) : TRUE)
      BY <2>1
    <3>2. \A i \in (n - m + 1)..Len(r) : Later(r[i])
      BY <2>1
    <3> QED
      BY <1>4, <2>1, <3>1, <3>2
  <2>5. \A i \in 1..(l - 1) : Later(t[i])
    <3> SUFFICES ASSUME NEW i \in 1..(l - 1) PROVE Later(t[i])
      OBVIOUS
    <3>1. i + 1 \in 1..l
      BY <1>2
    <3> QED
      BY <1>2, <2>2, <3>1
  <2>6. Hearing(t, call, m)
    BY <1>2, <2>4, <2>5
  <2>7. ASSUME NEW p \in Leaf PROVE Hearing(<<Drain(p)>> \o t, call, m)
    <3> DEFINE e == <<Drain(p)>>
               u == e \o t
    <3>1. e \in Seq(RootItem) /\ Len(e) = 1 /\ e[1] = Drain(p)
      BY DEF RootItem
    <3>2. Later(Drain(p))
      BY DEF Later
    <3> HIDE DEF e
    <3>3. /\ Len(u) = Len(e) + Len(t)
          /\ \A i \in 1..Len(e) + Len(t) : u[i] = IF i <= Len(e) THEN e[i] ELSE t[i - Len(e)]
      BY <1>2, <3>1, ConcatProperties
    <3> HIDE DEF u
    <3>4. Len(u) = l /\ \A i \in 1..l : u[i] = IF i <= 1 THEN e[i] ELSE t[i - 1]
      BY <1>2, <3>1, <3>3
    <3>5. ASSUME NEW i \in 1..l PROVE Later(u[i])
      <4>1. CASE i = 1
        <5>1. u[i] = Drain(p)
          BY <1>2, <3>1, <3>4, <4>1
        <5> QED
          BY <3>2, <5>1
      <4>2. CASE i > 1
        <5>1. u[i] = t[i - 1] /\ i - 1 \in 1..(l - 1)
          BY <1>2, <3>4, <4>2
        <5> QED
          BY <2>5, <5>1
      <4> QED
        BY <1>2, <4>1, <4>2
    <3>6. Hearing(u, call, m)
      BY <1>2, <2>4, <3>4, <3>5
    <3> QED
      BY <3>6 DEF u, e
  <2> QED
    BY <2>3, <2>6, <2>7
<1>8. m < n \/ m = n
  BY <1>1, <1>5
<1> QED
  BY <1>6, <1>7, <1>8 DEF n, t, Later, First

LEMMA HearingPlan ==
    ASSUME NEW call \in Exchanging, Size # 1
    PROVE  Hearing(Plan(0, call), call, 0)
<1> DEFINE n == Len(Sources(call))
           R == RecvFromAll
           A(w) == SendToAll(w)
           First(i) == Recv(Sources(call)[i])
           Later(x) == \E q \in Leaf : x \in {Send(q, Relaying(call)), Drain(q)}
<1>1. Size - 1 \in Leaf /\ Size - 1 # 0 /\ Size - 1 \in Nat /\ Leaf = 1..(Size - 1)
  BY CommAssumption DEF Leaf
<1>2. n \in Nat /\ \A i \in 1..n : Sources(call)[i] \in Leaf
  BY SourceFacts
<1>3. ASSUME NEW r \in Seq(RootItem), NEW t \in Seq(RootItem),
             Len(r) = n, \A i \in 1..n : r[i] = First(i), \A i \in 1..Len(t) : Later(t[i])
      PROVE  Hearing(r \o t, call, 0)
  <2> DEFINE u == r \o t
             l == Len(t)
  <2>1. /\ Len(u) = Len(r) + l
        /\ \A i \in 1..Len(r) + l : u[i] = IF i <= Len(r) THEN r[i] ELSE t[i - Len(r)]
    BY ConcatProperties
  <2>2. l \in Nat
    OBVIOUS
  <2> HIDE DEF u, l, First, Later, n
  <2>3. Len(u) = n + l /\ \A i \in 1..n + l : u[i] = IF i <= n THEN r[i] ELSE t[i - n]
    BY <1>3, <2>1
  <2>4. ASSUME NEW i \in 1..n PROVE u[i] = First(i)
    BY <1>2, <1>3, <2>2, <2>3
  <2>5. ASSUME NEW i \in (n + 1)..(n + l) PROVE Later(u[i])
    <3>1. i \in 1..n + l /\ ~(i <= n) /\ i - n \in 1..l
      BY <1>2, <2>2
    <3>2. u[i] = t[i - n]
      BY <2>3, <3>1
    <3> QED
      BY <1>3, <3>1, <3>2 DEF l
  <2>6. /\ 0 \in 0..n /\ n - 0 = n /\ n <= Len(u)
        /\ \A i \in 1..n : u[i] = First(0 + i)
        /\ \A i \in (n + 1)..Len(u) : Later(u[i])
    BY <1>2, <2>2, <2>3, <2>4, <2>5
  <2>7. Hearing(u, call, 0)
    BY <2>6 DEF Hearing, n, First, Later
  <2> QED
    BY <2>7 DEF u
<1>4. R \in Seq(RootItem) /\ Len(R) = Size - 1 /\ \A i \in Leaf : R[i] = Recv(i)
  <2>1. \A i \in 1..(Size - 1) : Recv(i) \in RootItem
    BY <1>1 DEF RootItem
  <2>2. R = [i \in 1..(Size - 1) |-> Recv(i)]
    BY <1>1 DEF RecvFromAll
  <2> HIDE DEF R
  <2> QED
    BY <1>1, <2>1, <2>2
<1>5. ASSUME NEW w \in What
      PROVE  /\ A(w) \in Seq(RootItem) /\ Len(A(w)) = Size - 1
             /\ \A i \in Leaf : A(w)[i] = Send(i, w)
  <2> DEFINE v == A(w)
  <2>1. \A i \in 1..(Size - 1) : Send(i, w) \in RootItem
    BY <1>1 DEF RootItem
  <2>2. v = [i \in 1..(Size - 1) |-> Send(i, w)]
    BY <1>1 DEF SendToAll
  <2> HIDE DEF v
  <2>3. v \in Seq(RootItem) /\ Len(v) = Size - 1 /\ \A i \in Leaf : v[i] = Send(i, w)
    BY <1>1, <2>1, <2>2
  <2> QED
    BY <2>3 DEF v
<1>6. CASE call = "bcast"
  <2> DEFINE r == <<Recv(Size - 1)>>
             t == A("received")
  <2>1. Plan(0, call) = r \o t
    BY <1>1, <1>6 DEF Plan, Bcast, Relay
  <2>2. r \in Seq(RootItem) /\ Len(r) = n /\ \A i \in 1..n : r[i] = First(i)
    <3>1. n = 1 /\ Sources(call)[1] = Size - 1
      BY <1>6, SourceFacts
    <3>2. Recv(Size - 1) \in RootItem
      BY <1>1 DEF RootItem
    <3> QED
      BY <3>1, <3>2
  <2>3. t \in Seq(RootItem) /\ \A i \in 1..Len(t) : Later(t[i])
    BY <1>1, <1>5, <1>6 DEF What, Relaying
  <2> HIDE DEF r, t, n, First, Later
  <2> QED
    BY <1>3, <2>1, <2>2, <2>3
<1>7. CASE call = "gather"
  <2> DEFINE t == <<Send(Size - 1, "all")>>
  <2>1. Plan(0, call) = R \o t
    BY <1>1, <1>7 DEF Plan, Gather
  <2>2. Len(R) = n /\ \A i \in 1..n : R[i] = First(i)
    BY <1>1, <1>4, <1>7, SourceFacts
  <2>3. t \in Seq(RootItem) /\ \A i \in 1..Len(t) : Later(t[i])
    <3>1. Send(Size - 1, "all") \in RootItem
      BY <1>1 DEF RootItem, What
    <3>2. Later(Send(Size - 1, "all"))
      BY <1>1, <1>7 DEF Relaying
    <3> HIDE DEF Later
    <3> QED
      BY <3>1, <3>2
  <2> HIDE DEF R, t, n, First, Later
  <2> QED
    BY <1>3, <1>4, <2>1, <2>2, <2>3
<1>8. CASE call = "allgather"
  <2> DEFINE t == A("all")
  <2>1. t \in Seq(RootItem) /\ \A i \in 1..Len(t) : Later(t[i])
    BY <1>1, <1>5, <1>8 DEF What, Relaying
  <2>2. Plan(0, call) = R \o t
    <3>1. Plan(0, call) = (R \o <<>>) \o (<<>> \o t)
      BY <1>8 DEF Plan, Allgather, Gather, Relay
    <3> HIDE DEF R, t
    <3>2. R \o <<>> = R /\ <<>> \o t = t
      BY <1>4, <2>1, ConcatEmptySeq
    <3> QED
      BY <3>1, <3>2
  <2>3. Len(R) = n /\ \A i \in 1..n : R[i] = First(i)
    BY <1>1, <1>4, <1>8, SourceFacts
  <2> HIDE DEF R, t, n, First, Later
  <2> QED
    BY <1>3, <1>4, <2>1, <2>2, <2>3
<1> QED
  BY <1>6, <1>7, <1>8 DEF Exchanging

(* What rank 0 sends is what the call of that number returns to q.         *)
LEMMA RootRelays ==
    ASSUME Typed, NEW q \in Leaf, Within(q), NEW w, RootSends(q, w), RootGot,
           Releasing(q) > 0, at[0] \in 1..Len(script), script[at[0]] \in Exchanging
    PROVE  Content(0, Own(0), w) = Expected(q, script[at[0]], at[0])
<1> DEFINE call == script[at[0]]
           k == at[0]
           n == Len(Sources(call))
<1>1. /\ Size # 1 /\ todo[0] \in Seq(RootItem) /\ todo[0] # <<>> /\ Head(todo[0]) = Send(q, w)
      /\ k > 0
  BY CommAssumption DEF Leaf, Typed, RootInv, RootSends
<1>2. PICK m \in Nat : Hearing(todo[0], call, m) /\ got[0] = Heard(call, k, m)
  BY <1>1 DEF RootGot
<1>3. Send(q, w) \notin Taking
  BY ItemKinds DEF Taking
<1>4. m = n /\ \E p \in Leaf : Send(q, w) \in {Send(p, Relaying(call)), Drain(p)}
  <2> HIDE DEF call
  <2> QED
    BY <1>1, <1>2, <1>3, HearingHead DEF call
<1>5. w = Relaying(call)
  BY <1>4, ItemKinds
<1>6. Own(0) = <<0, k>>
  BY DEF Own, Exchanging
<1>7. m \in 0..n
  BY <1>4, <1>1, SourceFacts
<1>8. CASE call = "bcast"
  <2>1. Heard(call, k, n) = << <<Size - 1, k>> >>
    <3>1. call \in Exchanging /\ m \in 0..Len(Sources(call))
      BY <1>7
    <3> HIDE DEF call, k
    <3> QED
      BY <1>1, <1>8, <3>1, HeardFacts
  <2>2. Content(0, Own(0), w) = got[0]
    BY <1>5, <1>8 DEF Content, Relaying
  <2>3. Expected(q, call, k) = << <<Size - 1, k>> >>
    BY <1>8 DEF Expected
  <2> QED
    BY <1>2, <1>4, <2>1, <2>2, <2>3
<1>9. CASE call # "bcast"
  <2>1. << <<0, k>> >> \o Heard(call, k, n) = [i \in 1..Size |-> <<i - 1, k>>]
    <3>1. call \in Exchanging /\ m \in 0..Len(Sources(call)) /\ Size # 1
      BY <1>1, <1>7
    <3> HIDE DEF call, k
    <3> QED
      BY <1>9, <3>1, HeardFacts, Zenon
  <2>2. Content(0, Own(0), w) = << <<0, k>> >> \o got[0]
    BY <1>5, <1>6, <1>9 DEF Content, Relaying
  <2>3. call = "gather" => q = Size - 1
    <3>1. Releasing(q) <= NDown(q, call)
      BY <1>1 DEF Within
    <3>2. call = "gather" /\ q # Size - 1 => NDown(q, call) = 0
      BY DEF NDown
    <3>3. Releasing(q) \in Nat
      BY Numbers
    <3> QED
      BY <3>1, <3>2, <3>3
  <2>4. Expected(q, call, k) = [i \in 1..Size |-> <<i - 1, k>>]
    BY <1>9, <2>3 DEF Expected, Exchanging
  <2>5. got[0] = Heard(call, k, n)
    BY <1>2, <1>4
  <2> HIDE DEF call, k, n
  <2>6. Content(0, Own(0), w) = Expected(q, call, k)
    BY <2>1, <2>2, <2>4, <2>5, Zenon
  <2> QED
    BY <2>6 DEF call, k
<1> QED
  BY <1>8, <1>9

LEMMA RootDown ==
    ASSUME Typed, script' = script, NEW q \in Leaf, Within(q), Balanced(q), RootMove, Kept(q),
           DownFrames(q), RootGot
    PROVE  DownFrames(q)'
<1> DEFINE S == stream[<<0, q>>]
           n == Len(S)
<1>1. /\ IsSeq(S) /\ n \in Nat /\ <<0, q>> \in Streams /\ DOMAIN stream = Streams
      /\ at[0] \in 0..Len(script) /\ todo[0] \in Seq(RootItem)
  <2>1. /\ IsSeq(S) /\ <<0, q>> \in Streams /\ DOMAIN stream = Streams
        /\ todo[0] \in Seq(RootItem)
    BY LeafPlaces DEF Typed, RootInv
  <2> QED
    BY <2>1, Numbers
<1>2. DownGot(q)' = DownGot(q)
  BY DEF DownGot, DownTo, Receiving, Kept
<1>3. \A k, x : DownCall(q, k, x)' <=> DownCall(q, k, x)
  BY DEF DownCall, DownTo
<1>4. \A i \in 1..n, k \in 1..Len(script) :
         script[k] \in Exchanging /\ DownCall(q, k, DownGot(q) + i)
           => S[i] = Expected(q, script[k], k)
  BY DEF DownFrames
<1>5. CASE stream'[<<0, q>>] = S
  BY <1>2, <1>3, <1>4, <1>5 DEF DownFrames
<1>6. ASSUME NEW w, RootSends(q, w) PROVE DownFrames(q)'
  <2> DEFINE C == Content(0, Own(0), w)
  <2>1. /\ stream'[<<0, q>>] = Append(S, C) /\ todo[0] # <<>>
        /\ Head(todo[0]) = Send(q, w) /\ w \in What
    BY <1>1, <1>6 DEF RootSends
  <2>2. /\ Len(stream'[<<0, q>>]) = n + 1
        /\ \A i \in 1..n + 1 : stream'[<<0, q>>][i] = IF i <= n THEN S[i] ELSE C
    BY <1>1, <2>1, SeqFacts
  <2>3. Releasing(q) > 0
    <3>1. Head(todo[0]) \in Sends(q)
      BY <2>1 DEF Sends
    <3>2. Count(Tail(todo[0]), Sends(q)) \in Nat
      <4>1. Tail(todo[0]) \in Seq(RootItem)
        BY <1>1, <2>1, HeadTailProperties
      <4> QED
        BY <4>1, CountNat
    <3>3. Count(todo[0], Sends(q)) = Count(Tail(todo[0]), Sends(q)) + 1
      BY <1>1, <2>1, <3>1, CountRest
    <3> QED
      BY <3>2, <3>3 DEF Releasing
  <2>4. /\ at[0] \in 1..Len(script)
        /\ \A k \in 1..Len(script) : DownCall(q, k, DownGot(q) + (n + 1)) <=> k = at[0]
    BY <2>3, CallOf
  <2>5. script[at[0]] \in Exchanging => C = Expected(q, script[at[0]], at[0])
    BY <1>6, <2>3, <2>4, RootRelays
  <2> DEFINE d == DownGot(q)
             S2 == stream'[<<0, q>>]
  <2>6. Len(S2) = n + 1 /\ n \in Nat
    BY <1>1, <2>2
  <2> HIDE DEF n, d, S, S2, C
  <2>7. ASSUME NEW i \in 1..(n + 1), NEW k \in 1..Len(script), script[k] \in Exchanging,
               DownCall(q, k, d + i)
        PROVE  S2[i] = Expected(q, script[k], k)
    <3>1. CASE i <= n
      <4>1. i \in 1..n
        BY <2>6, <3>1
      <4>2. S2[i] = S[i]
        BY <2>2, <3>1 DEF S2
      <4> QED
        BY <1>4, <2>7, <4>1, <4>2 DEF d
    <3>2. CASE i = n + 1
      <4>1. DownCall(q, k, d + (n + 1))
        BY <2>7, <3>2
      <4>2. k = at[0]
        BY <2>4, <4>1 DEF d
      <4>3. S2[i] = C
        <5>1. ~(i <= n)
          BY <2>6, <3>2
        <5> QED
          BY <2>2, <5>1 DEF S2
      <4> QED
        BY <2>5, <2>7, <4>2, <4>3
    <3> QED
      BY <2>6, <3>1, <3>2
  <2>8. \A i \in 1..Len(S2), k \in 1..Len(script) :
          script[k] \in Exchanging /\ DownCall(q, k, d + i) => S2[i] = Expected(q, script[k], k)
    BY <2>6, <2>7
  <2> QED
    BY <1>2, <1>3, <2>8 DEF DownFrames, S2, d
<1>7. CASE RootEnters \/ RootPasses
  BY <1>5, <1>7 DEF RootEnters, RootPasses
<1>8. ASSUME NEW p, RootTakes(p) PROVE DownFrames(q)'
  <2>1. <<p, 0>> # <<0, q>>
    BY LeafPlaces
  <2>2. stream'[<<0, q>>] = S
    BY <1>1, <1>8, <2>1 DEF RootTakes
  <2> QED
    BY <1>5, <2>2
<1>9. ASSUME NEW p, NEW w, RootSends(p, w), p # q PROVE DownFrames(q)'
  <2>1. <<0, p>> # <<0, q>>
    BY <1>9
  <2>2. stream'[<<0, q>>] = S
    BY <1>1, <1>9, <2>1 DEF RootSends
  <2> QED
    BY <1>5, <2>2
<1> QED
  BY <1>6, <1>7, <1>8, <1>9 DEF RootMove

LEMMA RootKeeps ==
    ASSUME Typed, CountInv, Leaf # {}, script' = script, RootMove,
           \A q \in Leaf : UpFrames(q), RootGot
    PROVE  RootGot'
<1> DEFINE a == at[0]
           call == script[a]
<1>1. /\ Size # 1 /\ todo[0] \in Seq(RootItem) /\ a \in 0..Len(script) /\ script \in Scripts
      /\ Accepting \in Nat
  <2>1. Size # 1 /\ todo[0] \in Seq(RootItem)
    BY CommAssumption DEF Leaf, Typed, RootInv
  <2> QED
    BY <2>1, Numbers
<1>2. ASSUME NEW m \in Nat, NEW b, NEW c, at'[0] = b, script[b] = c, Hearing(todo'[0], c, m),
             got'[0] = Heard(c, b, m)
      PROVE  RootGot'
  BY <1>1, <1>2 DEF RootGot, Hearing, Heard
<1>3. (at'[0] > 0 /\ script[at'[0]] \in Exchanging) \/ RootGot'
  BY DEF RootGot
<1>4. CASE RootEnters
  <2> DEFINE b == a + 1
             c == script[b]
  <2>1. at'[0] = b /\ todo'[0] = Plan(0, c) /\ got'[0] = <<>>
    BY <1>4 DEF RootEnters
  <2> SUFFICES ASSUME c \in Exchanging PROVE RootGot'
    BY <1>3, <2>1
  <2> HIDE DEF b, c
  <2>2. Hearing(Plan(0, c), c, 0)
    BY <1>1, HearingPlan
  <2>3. Heard(c, b, 0) = <<>>
    <3>1. Len(Sources(c)) \in Nat
      BY <1>1, SourceFacts
    <3>2. 0 \in 0..Len(Sources(c))
      BY <3>1
    <3> QED
      BY <1>1, <3>2, HeardFacts
  <2>4. script[b] = c
    BY DEF c
  <2> QED
    BY <1>2, <2>1, <2>2, <2>3, <2>4
<1>5. ASSUME at'[0] = a, todo[0] # <<>>, Head(todo[0]) \notin Taking, got'[0] = got[0],
             NEW p, todo'[0] \in {Tail(todo[0]), <<Drain(p)>> \o Tail(todo[0])},
             p \in Leaf \/ todo'[0] = Tail(todo[0])
      PROVE  RootGot'
  <2> SUFFICES ASSUME a > 0, call \in Exchanging PROVE RootGot'
    BY <1>3, <1>5
  <2>1. PICK m \in Nat : Hearing(todo[0], call, m) /\ got[0] = Heard(call, a, m)
    BY <1>1 DEF RootGot
  <2>2. /\ Hearing(Tail(todo[0]), call, m)
        /\ \A x \in Leaf : Hearing(<<Drain(x)>> \o Tail(todo[0]), call, m)
    <3> HIDE DEF call
    <3> QED
      BY <1>1, <1>5, <2>1, HearingHead
  <2>3. Hearing(todo'[0], call, m)
    BY <1>5, <2>2
  <2> QED
    BY <1>2, <1>5, <2>1, <2>3
<1>6. CASE RootPasses
  <2>1. /\ at'[0] = a /\ todo[0] # <<>> /\ Head(todo[0]) \notin Taking /\ got'[0] = got[0]
        /\ todo'[0] = Tail(todo[0])
    BY <1>6 DEF RootPasses
  <2> QED
    BY <1>5, <2>1
<1>7. ASSUME NEW p, NEW w, RootSends(p, w) PROVE RootGot'
  <2>1. /\ at'[0] = a /\ todo[0] # <<>> /\ Head(todo[0]) = Send(p, w) /\ got'[0] = got[0]
        /\ p \in Leaf /\ todo'[0] \in {Tail(todo[0]), <<Drain(p)>> \o Tail(todo[0])}
    BY <1>7 DEF RootSends
  <2>2. Send(p, w) \notin Taking
    BY ItemKinds DEF Taking
  <2> QED
    BY <1>5, <2>1, <2>2
<1>8. ASSUME NEW p, RootTakes(p) PROVE RootGot'
  <2> DEFINE S == stream[<<p, 0>>]
             n == Len(Sources(call))
  <2>1. /\ at'[0] = a /\ todo[0] # <<>> /\ Head(todo[0]) \in {Recv(p), Accept} /\ p \in Leaf
        /\ todo'[0] = Tail(todo[0]) /\ got'[0] = got[0] \o Head(S) /\ S # <<>>
    BY <1>8 DEF RootTakes
  <2> SUFFICES ASSUME a > 0, call \in Exchanging PROVE RootGot'
    BY <1>3, <2>1
  <2>2. PICK m \in Nat : Hearing(todo[0], call, m) /\ got[0] = Heard(call, a, m)
    BY <1>1 DEF RootGot
  <2>3. Head(todo[0]) \in Taking
    BY <2>1 DEF Taking
  <2>4. /\ m < n /\ Head(todo[0]) = Recv(Sources(call)[m + 1])
        /\ Hearing(Tail(todo[0]), call, m + 1)
    <3> HIDE DEF call
    <3> QED
      BY <1>1, <2>1, <2>2, <2>3, HearingHead
  <2>5. p = Sources(call)[m + 1] /\ Head(todo[0]) = Recv(p)
    BY <2>1, <2>4, ItemKinds
  <2>6. Accepting = 0
    <3>1. Accepting > 0 => a = 1
      BY DEF CountInv
    <3>2. a = 1 => call = "init"
      BY <1>1, ScriptAssumption
    <3>3. a # 1
      BY <3>2 DEF Exchanging
    <3> QED
      BY <1>1, <3>1, <3>3
  <2>7. Gathering(p) > 0
    <3>1. Head(todo[0]) \in {Recv(p)}
      BY <2>5
    <3>2. /\ Count(todo[0], {Recv(p)}) = Count(Tail(todo[0]), {Recv(p)}) + 1
          /\ Count(Tail(todo[0]), {Recv(p)}) \in Nat
      BY <1>1, <2>1, <3>1, CountRest
    <3> QED
      BY <3>2 DEF Gathering
  <2>8. a \in 1..Len(script) /\ UpCall(p, a, Taken(p) + 1)
    <3>1. Within(p) /\ Balanced(p)
      BY <2>1 DEF CountInv
    <3> QED
      BY <2>1, <2>6, <2>7, <3>1, CallOf
  <2>9. Head(S) = << <<p, a>> >>
    <3>1. IsSeq(S)
      BY <2>1, LeafPlaces DEF Typed
    <3>2. Len(S) \in Nat \ {0} /\ Head(S) = S[1]
      BY <2>1, <3>1, SeqFacts
    <3>3. 1 \in 1..Len(S)
      BY <3>2
    <3>4. UpFrames(p)
      BY <2>1
    <3> QED
      BY <2>8, <3>2, <3>3, <3>4 DEF UpFrames
  <2>10. m \in 0..n
    BY <1>1, <2>4, SourceFacts
  <2>11. Heard(call, a, m) \o << <<Sources(call)[m + 1], a>> >> = Heard(call, a, m + 1)
    <3>1. call \in Exchanging /\ m \in 0..Len(Sources(call)) /\ m < Len(Sources(call)) /\ Size # 1
      BY <1>1, <2>4, <2>10
    <3> HIDE DEF call, a
    <3> QED
      BY <3>1, HeardFacts, Zenon
  <2>12. got'[0] = Heard(call, a, m + 1)
    <3>1. got'[0] = Heard(call, a, m) \o << <<p, a>> >>
      BY <2>1, <2>2, <2>9, Zenon
    <3> HIDE DEF call, a
    <3> QED
      BY <2>5, <2>11, <3>1, Zenon
  <2>13. Hearing(todo'[0], call, m + 1)
    BY <2>1, <2>4
  <2>14. m + 1 \in Nat
    OBVIOUS
  <2> QED
    BY <1>2, <2>1, <2>12, <2>13, <2>14, Zenon
<1> QED
  BY <1>4, <1>6, <1>7, <1>8 DEF RootMove

(* Rank 0 alone exchanges nothing. *)
LEMMA AloneKeeps ==
    ASSUME Typed, script' = script, Leaf = {}, Effect(0), RootGot
    PROVE  RootGot'
<1>1. Size = 1 /\ 0 \in Rank /\ DOMAIN todo = Rank /\ DOMAIN got = Rank /\ DOMAIN at = Rank
  <2>1. Size = 1 /\ 0 \in Rank
    <3>1. Size # 1 => 1 \in Leaf
      BY CommAssumption DEF Leaf
    <3> QED
      BY <3>1, CommAssumption DEF Rank
  <2> QED
    BY <2>1 DEF Typed, RootInv
<1>2. CASE Enters(0)
  <2> DEFINE b == at[0] + 1
             c == script[b]
             N == [r \in Leaf |-> Recv(r)]
             A(w) == [r \in Leaf |-> Send(r, w)]
  <2>1. at'[0] = b /\ todo'[0] = Plan(0, c) /\ got'[0] = <<>>
    BY <1>1, <1>2 DEF Enters
  <2>2. N = <<>> /\ \A w : A(w) = <<>>
    OBVIOUS
  <2>3. <<>> \o <<>> = <<>>
    OBVIOUS
  <2>4. c \in Exchanging => Plan(0, c) = <<>>
    <3>1. Size - 1 = 0
      BY <1>1
    <3>2. RecvFromAll = <<>> /\ \A w : SendToAll(w) = <<>>
      BY <2>2 DEF RecvFromAll, SendToAll
    <3> HIDE DEF c, N, A
    <3> QED
      BY <2>3, <3>1, <3>2 DEF Exchanging, Plan, Bcast, Gather, Allgather, Relay
  <2> QED
    BY <1>1, <2>1, <2>4 DEF RootGot
<1>3. ASSUME todo[0] # <<>>, at'[0] = at[0] PROVE RootGot'
  <2>1. ~(at[0] > 0 /\ script[at[0]] \in Exchanging)
    BY <1>1, <1>3 DEF RootGot
  <2> QED
    BY <1>3, <2>1 DEF RootGot
<1> QED
  BY <1>2, <1>3 DEF Effect, Passes, Gives, DoSend, At, Hears

LEMMA OthersKeep ==
    ASSUME script' = script, NEW q \in Leaf, Kept(q)
    PROVE  /\ LeafGot(q) => LeafGot(q)'
           /\ KeptStreams(q) /\ UpFrames(q) => UpFrames(q)'
           /\ KeptStreams(q) /\ DownFrames(q) => DownFrames(q)'
<1>1. UpTo(q)' = UpTo(q) /\ DownTo(q)' = DownTo(q)
  BY DEF UpTo, DownTo
<1>2. Sending(q)' = Sending(q) /\ Receiving(q)' = Receiving(q)
  BY DEF Kept, Sending, Receiving
<1>3. UpSent(q)' = UpSent(q) /\ DownGot(q)' = DownGot(q)
  BY <1>1, <1>2 DEF UpSent, DownGot, Kept
<1>4. LeafGot(q) => LeafGot(q)'
  BY <1>2 DEF LeafGot, Kept, Expected
<1>5. ASSUME KeptStreams(q)
      PROVE  (UpFrames(q) => UpFrames(q)') /\ (DownFrames(q) => DownFrames(q)')
  <2>1. Taken(q)' = Taken(q)
    BY <1>3, <1>5 DEF Taken, KeptStreams
  <2>2. UpFrames(q) => UpFrames(q)'
    BY <1>1, <1>5, <2>1 DEF UpFrames, UpCall, KeptStreams
  <2>3. DownFrames(q) => DownFrames(q)'
    BY <1>1, <1>3, <1>5 DEF DownFrames, DownCall, KeptStreams, Expected
  <2> QED
    BY <2>2, <2>3
<1> QED
  BY <1>4, <1>5

LEMMA ValueStep ==
    ASSUME Typed, CountInv, ValueInv, [Next]_vars
    PROVE  ValueInv'
<1>1. script' = script /\ (Resting \/ \E r \in Rank : Effect(r))
  BY StepEffect
<1>2. \A q \in Leaf : Within(q) /\ Balanced(q)
  BY DEF CountInv
<1>3. (\A q \in Leaf : UpFrames(q) /\ DownFrames(q) /\ LeafGot(q)) /\ RootGot
  BY DEF ValueInv
<1>4. Kept(0) => RootGot'
  BY <1>1, <1>3 DEF Kept, RootGot, Hearing, Heard
<1>5. CASE Resting
  <2>1. ASSUME NEW q \in Leaf PROVE UpFrames(q)' /\ DownFrames(q)' /\ LeafGot(q)'
    <3>1. Kept(q) /\ KeptStreams(q)
      BY <1>5 DEF Resting, Kept, KeptStreams
    <3> QED
      BY <1>1, <1>3, <3>1, OthersKeep
  <2>2. Kept(0)
    BY <1>5 DEF Resting, Kept
  <2> QED
    BY <1>4, <2>1, <2>2 DEF ValueInv
<1>6. CASE Effect(0)
  <2>1. CASE Leaf = {}
    BY <1>1, <1>3, <1>6, <2>1, AloneKeeps DEF ValueInv
  <2>2. CASE Leaf # {}
    <3>1. RootMove /\ \A q \in Leaf : Kept(q)
      BY <1>6, <2>2, RootEffect
    <3>2. ASSUME NEW q \in Leaf PROVE UpFrames(q)' /\ DownFrames(q)' /\ LeafGot(q)'
      <4>1. UpFrames(q)'
        BY <1>1, <1>3, <3>1, RootUp
      <4>2. DownFrames(q)'
        BY <1>1, <1>2, <1>3, <3>1, RootDown
      <4>3. LeafGot(q)'
        BY <1>1, <1>3, <3>1, OthersKeep
      <4> QED
        BY <4>1, <4>2, <4>3
    <3>3. RootGot'
      BY <1>1, <1>3, <2>2, <3>1, RootKeeps
    <3> QED
      BY <3>2, <3>3 DEF ValueInv
  <2> QED
    BY <2>1, <2>2
<1>7. ASSUME NEW r \in Leaf, Effect(r) PROVE ValueInv'
  <2>1. /\ LeafMove(r) /\ Kept(0)
        /\ \A p \in Leaf : p # r => Kept(p) /\ KeptStreams(p)
    BY <1>7, LeafEffect
  <2>2. ASSUME NEW q \in Leaf PROVE UpFrames(q)' /\ DownFrames(q)' /\ LeafGot(q)'
    <3>1. CASE q = r
      <4>1. LeafMove(q)
        BY <2>1, <3>1
      <4>2. UpFrames(q)'
        BY <1>1, <1>2, <1>3, <2>1, <4>1, LeafUp
      <4>3. DownFrames(q)'
        BY <1>1, <1>2, <1>3, <2>1, <4>1, LeafDown
      <4>4. LeafGot(q)'
        BY <1>1, <1>2, <1>3, <2>1, <4>1, LeafKeeps
      <4> QED
        BY <4>2, <4>3, <4>4
    <3>2. CASE q # r
      BY <1>1, <1>3, <2>1, <3>2, OthersKeep
    <3> QED
      BY <3>1, <3>2
  <2> QED
    BY <1>4, <2>1, <2>2 DEF ValueInv
<1>8. \A r \in Rank : r = 0 \/ r \in Leaf
  BY CommAssumption DEF Rank, Leaf
<1> QED
  BY <1>1, <1>5, <1>6, <1>7, <1>8

LEMMA ValueInit ==
    ASSUME Init
    PROVE  ValueInv
<1>1. 0 \in Rank /\ \A q \in Leaf : q \in Rank /\ <<q, 0>> \in Streams /\ <<0, q>> \in Streams
  BY LeafPlaces, CommAssumption DEF Rank
<1>2. ASSUME NEW q \in Leaf PROVE UpFrames(q) /\ DownFrames(q) /\ LeafGot(q)
  <2>1. stream[<<q, 0>>] = <<>> /\ stream[<<0, q>>] = <<>> /\ at[q] = 0
    BY <1>1 DEF Init
  <2>2. Len(<<>>) = 0
    OBVIOUS
  <2> QED
    BY <2>1, <2>2 DEF UpFrames, DownFrames, LeafGot
<1>3. at[0] = 0
  BY <1>1 DEF Init
<1> QED
  BY <1>2, <1>3 DEF ValueInv, RootGot

(* Every frame under way carries the values of the call it belongs to, and *)
(* what a rank has received so far is what that call is to return.         *)
THEOREM ValueInvariance == Spec => [](Typed /\ CountInv /\ ValueInv)
<1>1. Init => ValueInv
  BY ValueInit
<1>2. ASSUME ValueInv, Typed /\ CountInv, [Next]_vars PROVE ValueInv'
  BY <1>2, ValueStep
<1> QED
  BY <1>1, <1>2, CountInvariance, PTL DEF Spec

LEMMA Exchanged ==
    ASSUME Typed, ValueInv
    PROVE  FramesMatch
<1> SUFFICES ASSUME NEW r \in Rank, at[r] > 0, todo[r] = <<>>, script[at[r]] \in Exchanging,
                    script[at[r]] = "gather" => r # 0
             PROVE  Result(r, script[at[r]]) = Expected(r, script[at[r]], at[r])
  BY DEF FramesMatch, Exchanging
<1> DEFINE k == at[r]
           call == script[k]
           n == Len(Sources(call))
           everyones == [i \in 1..Size |-> <<i - 1, k>>]
<1>1. r = 0 \/ r \in Leaf
  BY CommAssumption DEF Rank, Leaf
<1>2. CASE r \in Leaf
  <2>1. r # 0 /\ Receiving(r) = 0 /\ LeafGot(r)
    BY <1>2, Numbers, LeafPlaces DEF ValueInv
  <2>2. got[r] = Expected(r, call, k)
    BY <2>1 DEF LeafGot
  <2> QED
    BY <2>1, <2>2 DEF Result
<1>3. CASE r = 0
  <2>1. Own(0) = <<0, k>>
    BY <1>3 DEF Own, Exchanging
  <2>2. call # "bcast" => call = "allgather"
    BY <1>3 DEF Exchanging
  <2>3. Expected(0, call, k) = IF call = "bcast" THEN << <<Size - 1, k>> >> ELSE everyones
    BY <2>2 DEF Expected
  <2>4. CASE Size = 1
    <3>1. got[0] = <<>>
      BY <1>3, <2>4 DEF ValueInv, RootGot
    <3> DEFINE e == << <<0, k>> >>
    <3>2. e \o <<>> = e
      OBVIOUS
    <3>3. Result(0, call) = e
      BY <2>1, <2>4, <3>1, <3>2 DEF Result
    <3>4. everyones = e /\ Size - 1 = 0
      <4>1. Size = 1 /\ Size - 1 = 0
        BY <2>4
      <4>2. everyones \in Seq({<<0, k>>}) /\ Len(everyones) = 1 /\ everyones[1] = <<0, k>>
        BY <4>1
      <4> HIDE DEF everyones
      <4>3. everyones = <<everyones[1]>>
        <5>1. \A V : \A h \in Seq(V) : Len(h) = 1 => h = <<h[1]>>
          OBVIOUS
        <5> QED
          BY <4>2, <5>1
      <4> QED
        BY <4>1, <4>2, <4>3
    <3> HIDE DEF everyones
    <3> QED
      BY <1>3, <2>3, <3>3, <3>4
  <2>5. CASE Size # 1
    <3>1. PICK m \in Nat : Hearing(<<>>, call, m) /\ got[0] = Heard(call, k, m)
      BY <1>3, <2>5 DEF ValueInv, RootGot
    <3>2. n \in Nat
      BY <2>5, SourceFacts
    <3>3. m = n
      <4>1. m \in 0..n /\ n - m <= Len(<<>>) /\ Len(<<>>) = 0
        BY <3>1 DEF Hearing
      <4> QED
        BY <3>2, <4>1
    <3>4. /\ call = "bcast" => Heard(call, k, n) = << <<Size - 1, k>> >>
          /\ call # "bcast" => << <<0, k>> >> \o Heard(call, k, n) = everyones
      <4>1. call \in Exchanging /\ m \in 0..Len(Sources(call)) /\ Size # 1
        BY <2>5, <3>2, <3>3
      <4> HIDE DEF call, k
      <4> QED
        BY <4>1, HeardFacts, Zenon
    <3>5. Result(0, call) = IF call = "bcast" THEN got[0] ELSE << <<0, k>> >> \o got[0]
      BY <2>1, <2>2, <2>5 DEF Result
    <3>6. got[0] = Heard(call, k, n)
      BY <3>1, <3>3
    <3> HIDE DEF call, n, everyones, k
    <3>7. Result(0, call) = Expected(0, call, k)
      BY <2>3, <3>4, <3>5, <3>6, Zenon
    <3> QED
      BY <1>3, <3>7 DEF call, k
  <2> QED
    BY <2>4, <2>5
<1> QED
  BY <1>1, <1>2, <1>3

(* The collective calls are collective, for every number of ranks and      *)
(* every script: nobody leaves a synchronizing call before all have        *)
(* entered it, and each call returns what the ranks gave to that very      *)
(* call, whoever dies and however many frames are under way.               *)
THEOREM CallsAreCollective == Spec => []CallsMatch
<1>1. Typed /\ CountInv /\ ValueInv => CallsMatch
  BY Synchronized, Exchanged DEF CallsMatch
<1> QED
  BY <1>1, ValueInvariance, PTL

-----------------------------------------------------------------------------
(* The bytes that a collective open parses.                                *)

Opens(r) == at[r] > 0 /\ script[at[r]] = "open"
(* What is left loads nothing. *)
Quietly(x) == x.do = "local" => x = Local("attach")
Quiet(s) == \A i \in 1..Len(s) : Quietly(s[i])
Opened(r) == Opens(r) /\ Quiet(todo[r])

(* What may be left of an open, of a rank other than 0, with the load.     *)
Unloaded ==
    {<<Send(0, "nothing"), Recv(0), Local("load"), Local("attach"), Send(0, "nothing"), Recv(0)>>,
     <<Drain(0), Recv(0), Local("load"), Local("attach"), Send(0, "nothing"), Recv(0)>>,
     <<Recv(0), Local("load"), Local("attach"), Send(0, "nothing"), Recv(0)>>,
     <<Local("load"), Local("attach"), Send(0, "nothing"), Recv(0)>>}

Modelled(f) == {"name", "dims", "data"} \subseteq DOMAIN f

(* Rank 0 has loaded what the file still holds, in the end written back by *)
(* its Drop; another rank has been let in by rank 0 when it loads.         *)
OpenState(r) ==
    Opens(r) =>
      IF r = 0
      THEN \/ todo[0] = Open(0)
           \/ /\ Quiet(todo[0]) /\ Modelled(file[0])
              /\ disk.st = "whole" /\ Model(disk.model) = Model(file[0])
      ELSE \/ todo[r] \in Unloaded
           \/ Quiet(todo[r]) /\ Receiving(r) <= 1 /\ Modelled(file[r])

Alike(q, r) ==
    Opened(q) /\ Opened(r) /\ at[q] = at[r] => Model(file[q]) = Model(file[r])

OpenInv == Leaf # {} => \A r \in Rank : OpenState(r) /\ \A q \in Rank : Alike(q, r)

LEMMA QuietRest ==
    ASSUME NEW S, NEW s \in Seq(S), s # <<>>, Quiet(s)
    PROVE  /\ Quiet(Tail(s)) /\ \A p : Quiet(<<Drain(p)>> \o Tail(s))
           /\ Head(s).do = "local" => Head(s) = Local("attach")
<1> DEFINE t == Tail(s)
<1>1. /\ t \in Seq(S) /\ Len(t) = Len(s) - 1 /\ Len(s) \in Nat /\ Len(s) >= 1
      /\ Head(s) = s[1] /\ \A i \in 1..Len(s) - 1 : t[i] = s[i + 1]
  BY HeadTailProperties
<1> HIDE DEF t
<1>2. Quietly(Head(s)) /\ Quiet(t)
  <2>1. \A i \in 1..Len(t) : i + 1 \in 1..Len(s) /\ t[i] = s[i + 1]
    BY <1>1
  <2> QED
    BY <1>1, <2>1 DEF Quiet
<1>3. ASSUME NEW p PROVE Quiet(<<Drain(p)>> \o t)
  <2> DEFINE d == <<Drain(p)>>
             u == d \o t
             T == S \cup {Drain(p)}
  <2>1. d \in Seq(T) /\ t \in Seq(T) /\ Len(d) = 1 /\ d[1] = Drain(p)
    BY <1>1
  <2> HIDE DEF d, T
  <2>2. /\ Len(u) = Len(d) + Len(t)
        /\ \A i \in 1..Len(d) + Len(t) : u[i] = IF i <= Len(d) THEN d[i] ELSE t[i - Len(d)]
    BY <2>1, ConcatProperties
  <2> HIDE DEF u
  <2>3. Quietly(Drain(p))
    BY DEF Quietly, Drain
  <2>4. Len(t) \in Nat
    BY <1>1
  <2>5. ASSUME NEW i \in 1..Len(u) PROVE Quietly(u[i])
    <3>1. i = 1 \/ (i - 1 \in 1..Len(t) /\ ~(i <= 1) /\ i \in 1..1 + Len(t))
      BY <2>1, <2>2, <2>4
    <3>2. 1 \in 1..1 + Len(t)
      BY <2>4
    <3> QED
      BY <1>2, <2>1, <2>2, <2>3, <3>1, <3>2 DEF Quiet
  <2> QED
    BY <2>5 DEF Quiet, u, d
<1> QED
  BY <1>2, <1>3 DEF t, Quietly

LEMMA UnloadedRest ==
    ASSUME NEW s \in Unloaded
    PROVE  /\ s # <<>> /\ ~Quiet(s) /\ \E i \in DOMAIN s : s[i] = Local("load")
           /\ Head(s) \in Sends(0) =>
                Tail(s) \in Unloaded /\ <<Drain(0)>> \o Tail(s) \in Unloaded
           /\ Head(s).do = "drain" \/ Head(s) = Recv(0) => Tail(s) \in Unloaded
           /\ Head(s).do = "local" =>
                /\ Head(s) = Local("load")
                /\ s = <<Local("load"), Local("attach"), Send(0, "nothing"), Recv(0)>>
<1> DEFINE n == Send(0, "nothing")
           v == Recv(0)
           d == Drain(0)
           load == Local("load")
           attach == Local("attach")
<1>1. /\ d \notin Sends(0) /\ v \notin Sends(0) /\ load \notin Sends(0)
      /\ n # v /\ load # v /\ n # attach
  BY ItemKinds DEF Sends
<1>2. /\ n.do = "send" /\ v.do = "recv" /\ d.do = "drain" /\ load.do = "local" /\ load # attach
  BY DEF Send, Recv, Drain, Local
<1>3. ~Quietly(load)
  BY <1>2 DEF Quietly
<1>4. ASSUME NEW a, NEW b, NEW c, NEW e, NEW f
      PROVE  <<a>> \o <<b, c, e, f, b>> = <<a, b, c, e, f, b>>
  <2> DEFINE S == {a, b, c, e, f}
             s1 == <<a>>
             s2 == <<b, c, e, f, b>>
             t == s1 \o s2
             u == <<a, b, c, e, f, b>>
  <2>1. s1 \in Seq(S) /\ s2 \in Seq(S) /\ u \in Seq(S) /\ Len(u) = 6
    OBVIOUS
  <2>2. t \in Seq(S) /\ Len(t) = 6
    BY <2>1, ConcatProperties
  <2>3. t[1] = a /\ t[2] = b /\ t[3] = c /\ t[4] = e /\ t[5] = f /\ t[6] = b
    BY <2>1, ConcatProperties
  <2> HIDE DEF t
  <2>4. \A i \in 1..Len(t) : t[i] = u[i]
    BY <2>2, <2>3
  <2> HIDE DEF S, u
  <2>5. t = u
    BY <2>1, <2>2, <2>4, SeqEqual
  <2> QED
    BY <2>5, Zenon DEF t, u
<1> DEFINE s1 == <<n, v, load, attach, n, v>>
           s2 == <<d, v, load, attach, n, v>>
           s3 == <<v, load, attach, n, v>>
           s4 == <<load, attach, n, v>>
<1>5. s3 \in Unloaded /\ s2 \in Unloaded /\ s4 \in Unloaded /\ s \in {s1, s2, s3, s4}
  BY DEF Unloaded
<1> HIDE DEF n, v, d, load, attach
<1>6. <<d>> \o s3 = s2
  BY <1>4
<1>7. CASE s = s1
  <2>1. Tail(s) = s3 /\ Head(s) = n /\ s # <<>> /\ 3 \in 1..Len(s) /\ s[3] = load /\ 3 \in DOMAIN s
    BY <1>7
  <2>2. ~Quiet(s)
    BY <1>3, <2>1 DEF Quiet
  <2> QED
    BY <1>1, <1>2, <1>5, <1>6, <2>1, <2>2 DEF d, v, load
<1>8. CASE s = s2
  <2>1. Tail(s) = s3 /\ Head(s) = d /\ s # <<>> /\ 3 \in 1..Len(s) /\ s[3] = load /\ 3 \in DOMAIN s
    BY <1>8
  <2>2. ~Quiet(s)
    BY <1>3, <2>1 DEF Quiet
  <2> QED
    BY <1>1, <1>2, <1>5, <2>1, <2>2 DEF v, load
<1>9. CASE s = s3
  <2>1. Tail(s) = s4 /\ Head(s) = v /\ s # <<>> /\ 2 \in 1..Len(s) /\ s[2] = load /\ 2 \in DOMAIN s
    BY <1>9
  <2>2. ~Quiet(s)
    BY <1>3, <2>1 DEF Quiet
  <2> QED
    BY <1>1, <1>2, <1>5, <2>1, <2>2 DEF v, load
<1>10. CASE s = s4
  <2>1. Head(s) = load /\ s # <<>> /\ 1 \in 1..Len(s) /\ s[1] = load /\ 1 \in DOMAIN s
    BY <1>10
  <2>2. ~Quiet(s)
    BY <1>3, <2>1 DEF Quiet
  <2>3. Head(s).do # "drain" /\ Head(s) # v /\ Head(s) \notin Sends(0)
    BY <1>1, <1>2, <2>1
  <2>4. s = <<Local("load"), Local("attach"), Send(0, "nothing"), Recv(0)>>
    BY <1>10 DEF n, v, load, attach
  <2> QED
    BY <2>1, <2>2, <2>3, <2>4 DEF v, load
<1> QED
  BY <1>5, <1>7, <1>8, <1>9, <1>10

LEMMA QuietConcat ==
    ASSUME NEW S, NEW s \in Seq(S), NEW t \in Seq(S), Quiet(t)
    PROVE  /\ s \o t \in Seq(S) /\ Quiet(s) => Quiet(s \o t)
           /\ s # <<>> => s \o t # <<>> /\ Head(s \o t) = Head(s)
           /\ s # <<>> /\ Quiet(Tail(s)) => Quiet(Tail(s \o t))
<1> DEFINE u == s \o t
           m == Len(s)
           n == Len(t)
<1>1. /\ u \in Seq(S) /\ Len(u) = m + n /\ m \in Nat /\ n \in Nat
      /\ \A i \in 1..m + n : u[i] = IF i <= m THEN s[i] ELSE t[i - m]
  BY ConcatProperties
<1>2. s # <<>> => /\ m >= 1 /\ Head(s) = s[1] /\ Len(Tail(s)) = m - 1
                  /\ \A i \in 1..m - 1 : Tail(s)[i] = s[i + 1]
  BY HeadTailProperties
<1> HIDE DEF u
<1>3. u # <<>> => /\ Head(u) = u[1] /\ Len(Tail(u)) = Len(u) - 1
                  /\ \A i \in 1..Len(u) - 1 : Tail(u)[i] = u[i + 1]
  BY <1>1, HeadTailProperties
<1>4. s # <<>> => u # <<>>
  <2>1. s # <<>> => Len(u) >= 1
    BY <1>1, <1>2
  <2>2. Len(<<>>) = 0
    OBVIOUS
  <2> QED
    BY <2>1, <2>2
<1> HIDE DEF m, n
<1>0. m \in Nat /\ n \in Nat /\ Len(u) = m + n
  BY <1>1
<1>5. \A j \in 1..n : Quietly(t[j])
  BY DEF Quiet, n
<1>6. Quiet(s) => Quiet(u)
  <2> SUFFICES ASSUME Quiet(s), NEW i \in 1..m + n PROVE Quietly(u[i])
    BY <1>1 DEF Quiet
  <2>1. CASE i <= m
    <3>1. i \in 1..m
      BY <1>1, <2>1
    <3> QED
      BY <1>1, <2>1, <3>1 DEF Quiet, m
  <2>2. CASE ~(i <= m)
    <3>1. i - m \in 1..n
      BY <1>1, <2>2
    <3> QED
      BY <1>1, <1>5, <2>2, <3>1
  <2> QED
    BY <2>1, <2>2
<1>7. ASSUME s # <<>>, Quiet(Tail(s)) PROVE Quiet(Tail(u))
  <2> DEFINE v == Tail(u)
             k == m + n - 1
  <2>3. Len(v) = k /\ \A i \in 1..k : v[i] = u[i + 1]
    BY <1>0, <1>3, <1>4, <1>7
  <2> HIDE DEF v
  <2> SUFFICES ASSUME NEW i \in 1..k PROVE Quietly(u[i + 1])
    BY <2>3 DEF Quiet, v
  <2>0. i + 1 \in 1..m + n /\ i \in Nat
    BY <1>0
  <2>1. CASE i + 1 <= m
    <3>1. i \in 1..m - 1
      BY <1>0, <2>0, <2>1
    <3> QED
      BY <1>1, <1>2, <1>7, <2>0, <2>1, <3>1 DEF Quiet
  <2>2. CASE ~(i + 1 <= m)
    <3>1. (i + 1) - m \in 1..n
      BY <1>0, <2>0, <2>2
    <3> QED
      BY <1>1, <1>5, <2>0, <2>2, <3>1
  <2> QED
    BY <2>1, <2>2
<1>8. s # <<>> => Head(u) = Head(s)
  BY <1>1, <1>2, <1>3, <1>4
<1> QED
  BY <1>1, <1>4, <1>6, <1>7, <1>8 DEF u

(* Rank 0 loads before it lets the others in. *)
LEMMA RootOpens ==
    ASSUME NEW q \in Leaf
    PROVE  /\ Open(0) \in Seq(RootItem) /\ Open(0) # <<>> /\ Head(Open(0)) = Local("load")
           /\ Quiet(Tail(Open(0))) /\ ~Quiet(Open(0))
           /\ 1 \in DOMAIN Open(0) /\ Open(0)[1] = Local("load")
           /\ Count(Open(0), Sends(q)) = 2
           /\ Plan(0, "open") = Open(0) /\ Plan(q, "open") \in Unloaded
<1> DEFINE load == <<Local("load")>>
           attach == <<Local("attach")>>
           R == RecvFromAll
           S == SendToAll("nothing")
           B == R \o S
<1>1. load \in Seq(RootItem) /\ attach \in Seq(RootItem)
  <2>1. Local("load") \in RootItem /\ Local("attach") \in RootItem
    BY DEF RootItem, LocalName
  <2> QED
    BY <2>1
<1>2. R \in Seq(RootItem) /\ S \in Seq(RootItem) /\ Quiet(R) /\ Quiet(S)
  <2>1. Size - 1 \in Nat
    BY CommAssumption
  <2>2. R = [r \in 1..Size - 1 |-> Recv(r)] /\ S = [r \in 1..Size - 1 |-> Send(r, "nothing")]
    BY DEF RecvFromAll, SendToAll, Leaf
  <2>3. \A r \in 1..Size - 1 : Recv(r) \in RootItem /\ Send(r, "nothing") \in RootItem
    BY DEF RootItem, Leaf, What
  <2>4. R \in Seq(RootItem) /\ S \in Seq(RootItem) /\ Len(R) = Size - 1 /\ Len(S) = Size - 1
    BY <2>1, <2>2, <2>3
  <2>5. \A r : Quietly(Recv(r)) /\ Quietly(Send(r, "nothing"))
    BY DEF Quietly, Recv, Send
  <2>6. ASSUME NEW i \in 1..Size - 1 PROVE R[i] = Recv(i) /\ S[i] = Send(i, "nothing")
    BY <2>2
  <2> HIDE DEF R, S
  <2> QED
    BY <2>4, <2>5, <2>6 DEF Quiet
<1>3. B \in Seq(RootItem) /\ Quiet(B)
  <2> HIDE DEF R, S
  <2> QED
    BY <1>2, QuietConcat
<1>4. Head(load) = Local("load") /\ load # <<>> /\ Tail(load) = <<>> /\ Quiet(<<>>)
      /\ Quiet(attach)
  BY DEF Quiet, Quietly
<1>5. Open(0) = ((load \o B) \o attach) \o B
  BY DEF Open, Barrier
<1>16. Head(load) = Local("load") /\ load # <<>> /\ Quiet(Tail(load))
  BY <1>4
<1> HIDE DEF load, attach, B
<1> DEFINE u == load \o B
           v == u \o attach
           w == v \o B
<1>6. u \in Seq(RootItem) /\ u # <<>> /\ Head(u) = Local("load") /\ Quiet(Tail(u))
  BY <1>1, <1>3, <1>16, QuietConcat
<1> HIDE DEF u
<1>7. v \in Seq(RootItem) /\ v # <<>> /\ Head(v) = Local("load") /\ Quiet(Tail(v))
  BY <1>1, <1>4, <1>6, QuietConcat
<1> HIDE DEF v
<1>8. w \in Seq(RootItem) /\ w # <<>> /\ Head(w) = Local("load") /\ Quiet(Tail(w))
  BY <1>3, <1>7, QuietConcat
<1>9. w = Open(0)
  BY <1>5 DEF w, v, u
<1> HIDE DEF w
<1>10. w[1] = Local("load") /\ 1 \in 1..Len(w) /\ 1 \in DOMAIN w
  <2>1. Len(w) \in Nat /\ Len(w) >= 1 /\ Head(w) = w[1] /\ DOMAIN w = 1..Len(w)
    BY <1>8, HeadTailProperties
  <2> QED
    BY <1>8, <2>1
<1>11. ~Quietly(Local("load"))
  BY DEF Quietly, Local
<1>12. ~Quiet(w)
  BY <1>10, <1>11 DEF Quiet
<1>13. Plan(0, "open") = Open(0)
  BY DEF Plan
<1>14. Count(Open(0), Sends(q)) = 2
  <2>1. "open" \in Call /\ "open" # "init"
    BY DEF Call
  <2>2. Exchanges(Plan(0, "open"), RootItem, q, NUp(q, "open"), NDown(q, "open"))
    BY <2>1, RootTable
  <2> QED
    BY <1>13, <2>2 DEF Exchanges, NDown
<1>15. Plan(q, "open") \in Unloaded
  BY LeafPlans DEF Unloaded
<1> QED
  BY <1>8, <1>9, <1>10, <1>12, <1>13, <1>14, <1>15

(* A rank that has the first confirmation of an open has it from rank 0 in *)
(* that open,                                                              *)
LEMMA LetIn ==
    ASSUME Typed, CountInv, NEW p \in Leaf, Opens(p), Receiving(p) <= 1
    PROVE  at[0] >= at[p] /\ (at[0] = at[p] => Releasing(p) <= 1)
<1> DEFINE n == Len(script)
           D == DownTo(p)
           a == at[p]
           b == at[0]
           w == Receiving(p)
           v == Releasing(p)
           l == Len(stream[<<0, p>>])
           Q(i) == NDown(p, script[i])
<1>1. /\ a \in 0..n /\ b \in 0..n /\ w \in Nat /\ v \in Nat /\ l \in Nat /\ script \in Scripts
      /\ a > 0 /\ w <= 1
  BY Numbers DEF Opens
<1>2. a \in 1..n /\ a \in Nat /\ b \in Nat
  BY <1>1
<1>3. /\ D[a] \in Nat /\ D[b] \in Nat
      /\ b < a => D[b] <= D[a] - Q(a)
  BY <1>1, <1>2, CallsInOrder
<1>4. Q(a) = 2
  BY DEF NDown, Opens
<1>5. D[b] - v = (D[a] - w) + l
  BY DEF CountInv, Balanced, DownSent, DownGot
<1> HIDE DEF n, D, a, b, w, v, l, Q
<1> DEFINE x == D[a]
           y == D[b]
<1>6. /\ x \in Nat /\ y \in Nat /\ w \in Nat /\ v \in Nat /\ l \in Nat /\ w <= 1
      /\ y - v = (x - w) + l
      /\ b = a => y = x
      /\ b < a => y <= x - 2
  BY <1>1, <1>3, <1>4, <1>5
<1> HIDE DEF x, y
<1>7. b >= a /\ (b = a => v <= 1)
  BY <1>2, <1>6
<1> QED
  BY <1>7 DEF a, b, v

(* and rank 0 does not leave an open before everybody is through.          *)
LEMMA NotAhead ==
    ASSUME Typed, CountInv, NEW q \in Leaf, Opens(q), Sending(q) >= 1
    PROVE  at[0] <= at[q]
<1> DEFINE n == Len(script)
           U == UpTo(q)
           a == at[q]
           b == at[0]
           s == Sending(q)
           g == Gathering(q)
           l == Len(stream[<<q, 0>>])
           P(i) == NUp(q, script[i])
<1>1. /\ a \in 0..n /\ b \in 0..n /\ s \in Nat /\ g \in Nat /\ l \in Nat /\ script \in Scripts
      /\ Accepting \in Nat /\ a > 0 /\ s >= 1
  BY Numbers DEF Opens
<1>2. a \in 1..n /\ a \in Nat /\ b \in Nat
  BY <1>1
<1>3. CASE Accepting > 0
  <2>1. b = 1
    BY <1>3 DEF CountInv
  <2> QED
    BY <1>1, <1>2, <2>1
<1>4. CASE Accepting = 0
  <2>1. /\ U[a] \in Nat /\ U[b] \in Nat
        /\ b > a => U[b] - P(b) >= U[a] /\ P(b) \in Nat
    BY <1>1, <1>2, CallsInOrder
  <2>2. /\ (U[a] - s) - l = U[b] - g
        /\ b > 0 => g <= P(b)
    BY <1>4 DEF CountInv, Balanced, Within, Taken, UpSent, UpGot
  <2>3. s >= 1 /\ s \in Nat /\ g \in Nat /\ l \in Nat
    BY <1>1
  <2> HIDE DEF n, U, a, b, s, g, l, P
  <2> DEFINE x == U[a]
             y == U[b]
  <2>4. x \in Nat /\ y \in Nat /\ (x - s) - l = y - g
    BY <2>1, <2>2
  <2>5. b > a => y - P(b) >= x /\ P(b) \in Nat /\ g <= P(b)
    BY <1>2, <2>1, <2>2
  <2> HIDE DEF x, y
  <2>6. ~(b > a)
    BY <2>3, <2>4, <2>5
  <2> QED
    BY <1>2, <2>6 DEF a, b
<1> QED
  BY <1>1, <1>3, <1>4

-----------------------------------------------------------------------------
(* The steps of an open *)

LEMMA SameCall ==
    ASSUME NEW r \in Rank, Step(r) \/ Dies(r), ~Enter(r)
    PROVE  at' = at
<1>1. \A w : LocalStep(r, w) => at' = at
  BY DEF LocalStep
<1>2. Exit(r) => at' = at
  BY DEF Exit
<1> QED
  BY <1>1, <1>2
     DEF Step, Communicate, Prepare, Create, Load, Attach, Dataset, Resize, Rename, Recreate,
         Write, Merge, Detach, Save, Seal, Drop, CommFails, LoadFails, MergeFails, SaveFails, Dies

(* A call that fails, or a process that dies. *)
Stops(r) ==
    UNCHANGED <<todo, at, file>> /\ disk' \in {disk, Dropped(file[r])}

LEMMA OpenSteps ==
    ASSUME NEW r \in Rank, Step(r) \/ Dies(r), ~Enter(r),
           todo[r] # <<>> /\ Head(todo[r]).do = "local" =>
             Head(todo[r]) \in {Local("load"), Local("attach")}
    PROVE  Communicate(r) \/ Load(r) \/ Attach(r) \/ Stops(r)
<1>1. ASSUME NEW w, Doing(r, w) PROVE w \in {"load", "attach"}
  BY <1>1 DEF Doing, At, Local
<1>2. ASSUME NEW w, LocalStep(r, w) PROVE w \in {"load", "attach"}
  BY <1>1, <1>2 DEF LocalStep
<1>3. /\ ~Prepare(r) /\ ~Create(r) /\ ~Dataset(r) /\ ~Resize(r) /\ ~Rename(r) /\ ~Recreate(r)
      /\ ~Write(r) /\ ~Merge(r) /\ ~Detach(r) /\ ~Save(r) /\ ~Seal(r) /\ ~Drop(r)
      /\ ~MergeFails(r) /\ ~SaveFails(r)
  BY <1>1, <1>2
     DEF Prepare, Create, Dataset, Resize, Rename, Recreate, Write, Merge, Detach, Save, Seal,
         Drop, MergeFails, SaveFails
<1>4. CommFails(r) \/ LoadFails(r) => Stops(r)
  BY DEF CommFails, LoadFails, Exit, Stops
<1>5. Dies(r) => Stops(r)
  <2>1. Interrupted(r) = {disk}
    BY <1>1 DEF Interrupted
  <2> QED
    BY <2>1 DEF Dies, Stops
<1> QED
  BY <1>3, <1>4, <1>5 DEF Step

(* Communicating leaves the rest of the plan, perhaps after a drain. *)
LEMMA Communicates ==
    ASSUME Typed, NEW r \in Rank, Leaf # {}, Communicate(r)
    PROVE  /\ todo[r] # <<>> /\ Head(todo[r]).do # "local" /\ UNCHANGED <<file, disk, at>>
           /\ r # 0 => LeafPasses(r) \/ (\E w : LeafSends(r, w)) \/ LeafTakes(r)
           /\ r = 0 => \/ todo'[0] = Tail(todo[0])
                       \/ \E p : todo'[0] = <<Drain(p)>> \o Tail(todo[0])
<1>1. /\ todo[r] # <<>> /\ Head(todo[r]).do # "local" /\ UNCHANGED <<file, disk, at>>
  BY DEF Communicate, DoSend, DoDrain, DoRecv, DoAccept, At
<1>2. Effect(r)
  BY CommunicateEffect
<1>3. ASSUME r # 0 PROVE LeafPasses(r) \/ (\E w : LeafSends(r, w)) \/ LeafTakes(r)
  <2>1. r \in Leaf
    BY <1>3, CommAssumption DEF Rank, Leaf
  <2> QED
    BY <1>1, <1>2, <2>1, LeafEffect DEF LeafMove, LeafEnters
<1>4. ASSUME r = 0
      PROVE  \/ todo'[0] = Tail(todo[0])
             \/ \E p : todo'[0] = <<Drain(p)>> \o Tail(todo[0])
  <2>1. RootMove
    BY <1>2, <1>4, RootEffect
  <2> QED
    BY <1>1, <1>4, <2>1 DEF RootMove, RootEnters, RootPasses, RootSends, RootTakes
<1> QED
  BY <1>1, <1>3, <1>4

(* A rank other than 0 that loads is let in by rank 0, which has loaded,   *)
(* and whose file is as it was.                                            *)
LEMMA LeafLoads ==
    ASSUME Typed, CountInv, OpenInv, NEW q \in Leaf, Opens(q),
           todo[q] = <<Local("load"), Local("attach"), Send(0, "nothing"), Recv(0)>>
    PROVE  /\ Receiving(q) <= 1 /\ at[0] = at[q] /\ Opened(0)
           /\ \A x \in Rank : Opened(x) /\ at[x] = at[q] => Model(file[x]) = Model(disk.model)
<1>0. q # 0 /\ q \in Rank /\ 0 \in Rank /\ Leaf # {}
  BY LeafPlaces
<1> DEFINE load == Local("load")
           attach == Local("attach")
           n == Send(0, "nothing")
           v == Recv(0)
           s == <<load, attach, n, v>>
<1>1. /\ n \in Sends(0) /\ v \notin Sends(0) /\ load \notin Sends(0) /\ attach \notin Sends(0)
      /\ n # v /\ load # v /\ attach # v
  BY ItemKinds DEF Sends, What
<1> HIDE DEF load, attach, n, v
<1>2. Hits(s, Sends(0)) = {3} /\ Hits(s, {v}) = {4}
  BY <1>1 DEF Hits
<1>3. Count(s, Sends(0)) = 1 /\ Count(s, {v}) = 1
  BY <1>2, TwoElements DEF Count
<1>4. Sending(q) >= 1 /\ Receiving(q) <= 1
  BY <1>3 DEF Sending, Receiving, load, attach, n, v
<1>5. at[0] >= at[q] /\ (at[0] = at[q] => Releasing(q) <= 1) /\ at[0] <= at[q]
  BY <1>4, LetIn, NotAhead
<1>6. at[0] = at[q] /\ Releasing(q) <= 1
  <2>1. at[0] \in Nat /\ at[q] \in Nat
    BY <1>0 DEF Typed, RootInv
  <2> QED
    BY <1>5, <2>1
<1>7. todo[0] # Open(0)
  <2>1. todo[0] = Open(0) => Releasing(q) = 2
    BY RootOpens DEF Releasing
  <2> QED
    BY <1>6, <2>1
<1>8. Opens(0)
  BY <1>6 DEF Opens
<1>9. Quiet(todo[0]) /\ Model(disk.model) = Model(file[0])
  BY <1>0, <1>7, <1>8 DEF OpenInv, OpenState
<1>10. Opened(0)
  BY <1>8, <1>9 DEF Opened
<1>11. ASSUME NEW x \in Rank, Opened(x), at[x] = at[q] PROVE Model(file[x]) = Model(disk.model)
  <2>1. Alike(x, 0)
    BY <1>0 DEF OpenInv
  <2> QED
    BY <1>6, <1>9, <1>10, <1>11, <2>1 DEF Alike
<1> QED
  BY <1>4, <1>6, <1>10, <1>11

LEMMA FewerToReceive ==
    ASSUME NEW s \in Seq(LeafItem), s # <<>>
    PROVE  /\ Count(Tail(s), {Recv(0)}) <= Count(s, {Recv(0)})
           /\ Count(<<Drain(0)>> \o Tail(s), {Recv(0)}) <= Count(s, {Recv(0)})
<1>1. Drain(0) \in LeafItem /\ Drain(0) \notin {Recv(0)}
  BY LeafItems, KindsDiffer
<1> DEFINE X == {Recv(0)}
           c == Count(s, X)
           d == Count(Tail(s), X)
           e == Count(<<Drain(0)>> \o Tail(s), X)
<1>2. c = d + (IF Head(s) \in X THEN 1 ELSE 0) /\ d \in Nat /\ e = d
  BY <1>1, CountRest
<1> HIDE DEF c, d, e
<1>3. d <= c /\ e <= c
  BY <1>2
<1> QED
  BY <1>3 DEF c, d, e

Attached(f) == [f EXCEPT !.attached = TRUE, !.log = <<>>]

LEMMA ModelAttached ==
    ASSUME NEW f, Modelled(f)
    PROVE  Modelled(Attached(f)) /\ Model(Attached(f)) = Model(f)
  BY DEF Modelled, Model, Attached

LEMMA ModelOfFile ==
    ASSUME NEW m
    PROVE  /\ Modelled(FileOf(m)) /\ Model(FileOf(m)) = Model(m)
           /\ Model(Model(m)) = Model(m)
           /\ Whole(m).st = "whole" /\ Whole(m).model = m
  BY DEF Modelled, Model, FileOf, Whole

(* A rank other than 0 in an open.                                         *)
LEMMA LeafOpens ==
    ASSUME Typed, CountInv, OpenInv, NEW q \in Leaf, Opens(q), Step(q) \/ Dies(q), ~Enter(q)
    PROVE  /\ OpenState(q)'
           /\ Opened(q)' => \A x \in Rank : Opened(x) /\ at[x] = at[q] =>
                              Model(file[x]) = Model(file'[q])
<1>0. /\ q # 0 /\ q \in Rank /\ Leaf # {} /\ at' = at
      /\ todo[q] \in Seq(LeafItem) /\ q \in DOMAIN file
  BY LeafPlaces, SameCall DEF Typed, RootInv, Harmless
<1>1. todo[q] \in Unloaded \/ (Quiet(todo[q]) /\ Receiving(q) <= 1 /\ Modelled(file[q]))
  BY <1>0 DEF OpenInv, OpenState
<1>2. \A w : LocalStep(q, w) => Head(todo[q]) = Local(w) /\ todo'[q] = Tail(todo[q])
  BY LeafLocal DEF Typed
<1>3. ASSUME todo'[q] \in Unloaded
      PROVE  OpenState(q)' /\ ~Opened(q)'
  BY <1>0, <1>3, UnloadedRest DEF OpenState, Opened
<1>4. ASSUME Quiet(todo'[q]), Count(todo'[q], {Recv(0)}) <= 1, Modelled(file'[q])
      PROVE  OpenState(q)'
  BY <1>0, <1>4 DEF OpenState, Receiving
<1>5. CASE todo[q] \in Unloaded
  <2>0. todo[q] # <<>>
    BY <1>5, UnloadedRest
  <2>1. Communicate(q) \/ Load(q) \/ Attach(q) \/ Stops(q)
    BY <1>0, <1>5, UnloadedRest, OpenSteps
  <2>2. CASE Communicate(q)
    <3>1. LeafPasses(q) \/ (\E w : LeafSends(q, w)) \/ LeafTakes(q)
      BY <1>0, <2>2, Communicates
    <3>2. CASE LeafPasses(q)
      <4>1. Head(todo[q]) \in LeafItem /\ Head(todo[q]).do # "local"
        BY <1>0, <2>0, <2>2, Communicates, RestSettles DEF Typed, RootInv, Harmless
      <4>2. Head(todo[q]).do = "drain"
        BY <3>2, <4>1 DEF LeafPasses, LeafItem, Sends, Send, Recv, Drain, Local
      <4> QED
        BY <1>3, <1>5, <3>2, <4>2, UnloadedRest DEF LeafPasses
    <3>3. ASSUME NEW w, LeafSends(q, w) PROVE todo'[q] \in Unloaded
      <4>1. Head(todo[q]) \in Sends(0)
        BY <3>3 DEF LeafSends, Sends
      <4> QED
        BY <1>5, <3>3, <4>1, UnloadedRest DEF LeafSends
    <3>4. CASE LeafTakes(q)
      BY <1>3, <1>5, <3>4, UnloadedRest DEF LeafTakes
    <3> QED
      BY <1>3, <3>1, <3>2, <3>3, <3>4
  <2>3. CASE Load(q)
    <3> DEFINE m == disk.model
    <3>1. Head(todo[q]) = Local("load") /\ todo'[q] = Tail(todo[q]) /\ file'[q] = FileOf(m)
      BY <1>0, <1>2, <2>3 DEF Load
    <3>2. todo[q] = <<Local("load"), Local("attach"), Send(0, "nothing"), Recv(0)>>
      <4>1. Head(todo[q]).do = "local"
        BY <3>1 DEF Local
      <4> QED
        BY <1>5, <4>1, UnloadedRest
    <3>3. /\ Receiving(q) <= 1
          /\ \A x \in Rank : Opened(x) /\ at[x] = at[q] => Model(file[x]) = Model(m)
      BY <3>2, LeafLoads
    <3>4. Quiet(todo'[q])
      <4>1. todo'[q] = <<Local("attach"), Send(0, "nothing"), Recv(0)>>
        BY <3>1, <3>2
      <4>2. /\ Quietly(Local("attach")) /\ Quietly(Send(0, "nothing")) /\ Quietly(Recv(0))
        BY DEF Quietly, Send, Recv
      <4> QED
        BY <4>1, <4>2 DEF Quiet
    <3>5. Count(todo'[q], {Recv(0)}) <= 1
      <4>1. Count(todo'[q], {Recv(0)}) <= Receiving(q)
        BY <1>0, <2>0, <3>1, FewerToReceive DEF Receiving
      <4>2. Count(todo'[q], {Recv(0)}) \in Nat /\ Receiving(q) \in Nat
        <5>1. Tail(todo[q]) \in Seq(LeafItem)
          BY <1>0, <2>0, HeadTailProperties
        <5> QED
          BY <1>0, <3>1, <5>1, CountNat DEF Receiving
      <4> QED
        BY <3>3, <4>1, <4>2
    <3>6. Modelled(file'[q]) /\ Model(file'[q]) = Model(m)
      BY <3>1, ModelOfFile
    <3> QED
      BY <1>4, <3>3, <3>4, <3>5, <3>6
  <2>4. ~Attach(q)
    <3>1. Local("attach").do = "local" /\ Local("attach") # Local("load")
      BY DEF Local
    <3> QED
      BY <1>2, <1>5, <3>1, UnloadedRest DEF Attach
  <2>5. CASE Stops(q)
    BY <1>3, <1>5, <2>5 DEF Stops
  <2> QED
    BY <2>1, <2>2, <2>3, <2>4, <2>5
<1>6. CASE Quiet(todo[q]) /\ Receiving(q) <= 1 /\ Modelled(file[q])
  <2>1. todo[q] # <<>> =>
          /\ Quiet(Tail(todo[q])) /\ \A p : Quiet(<<Drain(p)>> \o Tail(todo[q]))
          /\ Head(todo[q]).do = "local" => Head(todo[q]) = Local("attach")
    BY <1>0, <1>6, QuietRest
  <2>2. Communicate(q) \/ Load(q) \/ Attach(q) \/ Stops(q)
    BY <1>0, <2>1, OpenSteps
  <2>3. ASSUME todo[q] # <<>>, todo'[q] \in {Tail(todo[q]), <<Drain(0)>> \o Tail(todo[q])}
        PROVE  Quiet(todo'[q]) /\ Count(todo'[q], {Recv(0)}) <= 1
    <3>1. Count(todo'[q], {Recv(0)}) <= Receiving(q)
      BY <1>0, <2>3, FewerToReceive DEF Receiving
    <3>2. Count(todo'[q], {Recv(0)}) \in Nat /\ Receiving(q) \in Nat
      <4>1. Tail(todo[q]) \in Seq(LeafItem) /\ <<Drain(0)>> \o Tail(todo[q]) \in Seq(LeafItem)
        BY <1>0, <2>3, RestSettles DEF Typed, RootInv, Harmless
      <4> QED
        BY <1>0, <2>3, <4>1, CountNat DEF Receiving
    <3>3. Quiet(todo'[q])
      BY <2>1, <2>3
    <3>4. \A c, d \in Nat : c <= d /\ d <= 1 => c <= 1
      OBVIOUS
    <3> QED
      BY <1>6, <3>1, <3>2, <3>3, <3>4
  <2>4. Model(file'[q]) = Model(file[q]) =>
          \A x \in Rank : Opened(x) /\ at[x] = at[q] => Model(file[x]) = Model(file'[q])
    <3>1. Opened(q)
      BY <1>6 DEF Opened
    <3> QED
      BY <1>0, <3>1 DEF OpenInv, Alike
  <2>5. CASE Communicate(q)
    <3>1. LeafPasses(q) \/ (\E w : LeafSends(q, w)) \/ LeafTakes(q)
      BY <1>0, <2>5, Communicates
    <3>2. todo[q] # <<>> /\ todo'[q] \in {Tail(todo[q]), <<Drain(0)>> \o Tail(todo[q])}
      BY <3>1 DEF LeafPasses, LeafSends, LeafTakes
    <3>3. file' = file
      BY <1>0, <2>5, Communicates
    <3> QED
      BY <1>4, <1>6, <2>3, <2>4, <3>2, <3>3
  <2>6. ~Load(q)
    <3>1. Local("load").do = "local" /\ Local("attach") # Local("load")
      BY DEF Local
    <3>2. Load(q) => todo[q] # <<>>
      BY DEF Load, LocalStep, Doing, At
    <3> QED
      BY <1>2, <2>1, <3>1, <3>2 DEF Load
  <2>7. CASE Attach(q)
    <3>1. todo[q] # <<>> /\ todo'[q] = Tail(todo[q])
      BY <1>2, <2>7 DEF Attach, LocalStep, Doing, At
    <3>2. file'[q] = Attached(file[q])
      BY <1>0, <2>7 DEF Attach, Attached
    <3>3. Modelled(file'[q]) /\ Model(file'[q]) = Model(file[q])
      BY <1>6, <3>2, ModelAttached
    <3> QED
      BY <1>4, <2>3, <2>4, <3>1, <3>3
  <2>8. CASE Stops(q)
    BY <1>4, <1>6, <2>4, <2>8 DEF Stops, Receiving
  <2> QED
    BY <2>2, <2>5, <2>6, <2>7, <2>8
<1> QED
  BY <1>1, <1>5, <1>6

(* Rank 0 in an open.                                                      *)
LEMMA RootOpensFirst ==
    ASSUME Typed, CountInv, OpenInv, Leaf # {}, Opens(0), Step(0) \/ Dies(0), ~Enter(0)
    PROVE  /\ OpenState(0)'
           /\ Opened(0)' => \A x \in Leaf : Opened(x) /\ at[x] = at[0] =>
                              Model(file[x]) = Model(file'[0])
<1>0. /\ 0 \in Rank /\ at' = at /\ todo[0] \in Seq(RootItem) /\ 0 \in DOMAIN file
      /\ 0 \in DOMAIN todo
  <2>1. 0 \in Rank
    BY CommAssumption DEF Rank
  <2> QED
    BY <2>1, SameCall DEF Typed, RootInv
<1> DEFINE Held == Modelled(file[0]) /\ disk.st = "whole" /\ Model(disk.model) = Model(file[0])
<1>1. todo[0] = Open(0) \/ (Quiet(todo[0]) /\ Held)
  BY <1>0 DEF OpenInv, OpenState
<1>2. \A w : LocalStep(0, w) =>
        /\ todo[0] # <<>> /\ Head(todo[0]).do = "local" /\ Head(todo[0]).what = w
        /\ todo'[0] = Tail(todo[0])
  BY <1>0 DEF LocalStep, Doing, At, Advance
<1>3. Local("load").do = "local" /\ Local("load").what = "load" /\ Local("attach").what = "attach"
  BY DEF Local
<1>4. ASSUME todo'[0] = Open(0) PROVE OpenState(0)' /\ ~Opened(0)'
  BY <1>4, RootOpens DEF OpenState, Opened
<1>5. ASSUME Quiet(todo'[0]), Held' PROVE OpenState(0)'
  BY <1>5 DEF OpenState
<1>6. CASE todo[0] = Open(0)
  <2>1. /\ todo[0] # <<>> /\ Head(todo[0]) = Local("load") /\ Quiet(Tail(todo[0]))
        /\ \A q \in Leaf : Releasing(q) = 2
    BY <1>6, RootOpens DEF Releasing
  <2>2. Communicate(0) \/ Load(0) \/ Attach(0) \/ Stops(0)
    BY <1>0, <2>1, OpenSteps
  <2>3. ~Communicate(0) /\ ~Attach(0)
    BY <1>0, <1>2, <1>3, <2>1, Communicates DEF Attach
  <2>4. CASE Load(0)
    <3>1. /\ todo'[0] = Tail(todo[0]) /\ file'[0] = FileOf(disk.model)
          /\ disk' = disk /\ disk.st = "whole"
      BY <1>0, <1>2, <2>4 DEF Load
    <3>2. Modelled(file'[0]) /\ Model(file'[0]) = Model(disk.model)
      BY <3>1, ModelOfFile
    <3>3. Quiet(todo'[0]) /\ Held'
      BY <2>1, <3>1, <3>2
    <3>4. ASSUME NEW x \in Leaf, Opened(x), at[x] = at[0] PROVE FALSE
      <4>1. x \in Rank /\ x # 0
        BY LeafPlaces
      <4>2. Opens(x) /\ todo[x] \notin Unloaded
        BY <3>4, UnloadedRest DEF Opened
      <4>3. Receiving(x) <= 1
        BY <3>4, <4>1, <4>2 DEF OpenInv, OpenState
      <4>4. Releasing(x) <= 1
        BY <3>4, <4>2, <4>3, LetIn
      <4> QED
        BY <2>1, <4>4
    <3> QED
      BY <1>5, <3>3, <3>4
  <2>5. CASE Stops(0)
    BY <1>4, <1>6, <2>5 DEF Stops
  <2> QED
    BY <2>2, <2>3, <2>4, <2>5
<1>7. CASE Quiet(todo[0]) /\ Held
  <2>1. todo[0] # <<>> =>
          /\ Quiet(Tail(todo[0])) /\ \A p : Quiet(<<Drain(p)>> \o Tail(todo[0]))
          /\ Head(todo[0]).do = "local" => Head(todo[0]) = Local("attach")
    BY <1>0, <1>7, QuietRest
  <2>2. Communicate(0) \/ Load(0) \/ Attach(0) \/ Stops(0)
    BY <1>0, <2>1, OpenSteps
  <2>3. Model(file'[0]) = Model(file[0]) =>
          \A x \in Leaf : Opened(x) /\ at[x] = at[0] => Model(file[x]) = Model(file'[0])
    <3>1. Opened(0)
      BY <1>7 DEF Opened
    <3>2. \A x \in Leaf : x \in Rank
      BY LeafPlaces
    <3> QED
      BY <1>0, <3>1, <3>2 DEF OpenInv, Alike
  <2>4. CASE Communicate(0)
    <3>1. /\ todo[0] # <<>> /\ UNCHANGED <<file, disk>>
          /\ \/ todo'[0] = Tail(todo[0])
             \/ \E p : todo'[0] = <<Drain(p)>> \o Tail(todo[0])
      BY <1>0, <2>4, Communicates
    <3>2. Quiet(todo'[0])
      BY <2>1, <3>1
    <3> QED
      BY <1>5, <1>7, <2>3, <3>1, <3>2
  <2>5. ~Load(0)
    BY <1>2, <1>3, <2>1 DEF Load
  <2>6. CASE Attach(0)
    <3>1. todo[0] # <<>> /\ todo'[0] = Tail(todo[0]) /\ disk' = disk
      BY <1>2, <2>6 DEF Attach
    <3>2. file'[0] = Attached(file[0])
      BY <1>0, <2>6 DEF Attach, Attached
    <3>3. Modelled(file'[0]) /\ Model(file'[0]) = Model(file[0])
      BY <1>7, <3>2, ModelAttached
    <3>4. Quiet(todo'[0]) /\ Held'
      BY <1>7, <2>1, <3>1, <3>3
    <3> QED
      BY <1>5, <2>3, <3>3, <3>4
  <2>7. CASE Stops(0)
    <3>1. UNCHANGED <<todo, at, file>> /\ disk' \in {disk, Whole(Model(file[0]))}
      BY <2>7 DEF Stops, Dropped
    <3>2. disk'.st = "whole" /\ Model(disk'.model) = Model(file[0])
      BY <1>7, <3>1, ModelOfFile
    <3>3. Quiet(todo'[0]) /\ Held'
      BY <1>7, <3>1, <3>2
    <3> QED
      BY <1>5, <2>3, <3>1, <3>3
  <2> QED
    BY <2>2, <2>4, <2>5, <2>6, <2>7
<1> QED
  BY <1>1, <1>6, <1>7

LEMMA OpenEnters ==
    ASSUME Typed, Leaf # {}, NEW r \in Rank, Enter(r)
    PROVE  OpenState(r)' /\ ~Opened(r)'
<1>1. /\ at'[r] = at[r] + 1 /\ todo'[r] = Plan(r, script[at[r] + 1]) /\ script' = script
  BY DEF Enter, Typed, RootInv
<1>2. r = 0 \/ r \in Leaf
  BY CommAssumption DEF Rank, Leaf
<1>3. Opens(r)' => todo'[r] = Plan(r, "open")
  BY <1>1 DEF Opens
<1>4. CASE r = 0
  BY <1>3, <1>4, RootOpens DEF OpenState, Opened
<1>5. CASE r \in Leaf
  <2>1. r # 0
    BY <1>5, LeafPlaces
  <2>2. Opens(r)' => todo'[r] \in Unloaded
    BY <1>3, <1>5, RootOpens
  <2> QED
    BY <2>1, <2>2, UnloadedRest DEF OpenState, Opened
<1> QED
  BY <1>2, <1>4, <1>5

LEMMA OpenStep ==
    ASSUME Typed, CountInv, OpenInv, Leaf # {}, NEW r \in Rank, Step(r) \/ Dies(r)
    PROVE  OpenInv'
<1>1. r = 0 \/ r \in Leaf
  BY CommAssumption DEF Rank, Leaf
<1>2. ASSUME r \in Leaf PROVE r # 0 /\ ~Merge(r) /\ disk' = disk
  <2>1. ~Merge(r)
    BY <1>2, LeafLocal DEF Merge, Typed
  <2> QED
    BY <1>2, <2>1, LeafPlaces, LeafWritesNothing DEF Typed
<1>3. /\ script' = script
      /\ at' = at \/ (at[r] < Len(script) /\ at' = [at EXCEPT ![r] = @ + 1])
      /\ \A x \in Rank : x # r => todo'[x] = todo[x] /\ (x # 0 \/ ~Merge(r) => file'[x] = file[x])
  BY OthersStay DEF Typed
<1>4. ASSUME NEW x \in Rank, x # r
      PROVE  /\ at'[x] = at[x] /\ todo'[x] = todo[x] /\ file'[x] = file[x]
             /\ x = 0 => disk' = disk
  BY <1>1, <1>2, <1>3, <1>4 DEF Typed, RootInv
<1>5. ASSUME NEW x \in Rank, x # r
      PROVE  OpenState(x)' /\ (Opened(x)' <=> Opened(x))
  <2>1. OpenState(x)
    BY <1>5 DEF OpenInv
  <2>2. Opens(x)' <=> Opens(x)
    BY <1>3, <1>4, <1>5 DEF Opens
  <2>3. Receiving(x)' = Receiving(x)
    BY <1>4, <1>5 DEF Receiving
  <2>4. OpenState(x)'
    BY <1>4, <1>5, <2>1, <2>2, <2>3 DEF OpenState
  <2> QED
    BY <1>4, <1>5, <2>2, <2>4 DEF Opened
<1>6. /\ OpenState(r)'
      /\ Opened(r)' => \A x \in Rank : x # r /\ Opened(x) /\ at[x] = at'[r] =>
                         Model(file[x]) = Model(file'[r])
  <2>1. CASE Enter(r)
    BY <2>1, OpenEnters
  <2>2. CASE ~Enter(r) /\ ~Opens(r)
    <3>1. ~Opens(r)'
      BY <1>3, <2>2, SameCall DEF Opens
    <3> QED
      BY <3>1 DEF OpenState, Opened
  <2>3. CASE ~Enter(r) /\ Opens(r) /\ r = 0
    <3>1. at' = at /\ \A x \in Rank : x # 0 => x \in Leaf
      BY <2>3, SameCall, CommAssumption DEF Rank, Leaf
    <3> QED
      BY <2>3, <3>1, RootOpensFirst
  <2>4. CASE ~Enter(r) /\ Opens(r) /\ r # 0
    <3>1. at' = at /\ r \in Leaf
      BY <1>1, <2>4, SameCall
    <3> QED
      BY <2>4, <3>1, LeafOpens
  <2> QED
    BY <2>1, <2>2, <2>3, <2>4
<1>7. ASSUME NEW x \in Rank, NEW y \in Rank PROVE Alike(x, y)'
  <2>1. CASE x # r /\ y # r
    <3>1. Alike(x, y)
      BY <1>7 DEF OpenInv
    <3> QED
      BY <1>4, <1>5, <2>1, <3>1 DEF Alike
  <2>2. CASE x = r /\ y # r
    BY <1>4, <1>5, <1>6, <2>2 DEF Alike
  <2>3. CASE x # r /\ y = r
    BY <1>4, <1>5, <1>6, <2>3 DEF Alike
  <2>4. CASE x = r /\ y = r
    BY <2>4 DEF Alike
  <2> QED
    BY <2>1, <2>2, <2>3, <2>4
<1> QED
  BY <1>5, <1>6, <1>7 DEF OpenInv

THEOREM OpenInvariance == Spec => [](Typed /\ CountInv /\ OpenInv)
<1>1. Init => OpenInv
  BY DEF Init, OpenInv, OpenState, Alike, Opened, Opens
<1>2. ASSUME Typed /\ CountInv, OpenInv, [Next]_vars PROVE OpenInv'
  <2>1. CASE UNCHANGED vars
    <3>1. \A r \in Rank : /\ Opens(r)' = Opens(r) /\ Opened(r)' = Opened(r)
                          /\ Receiving(r)' = Receiving(r)
      BY <2>1 DEF vars, commVars, Opens, Opened, Receiving
    <3> QED
      BY <1>2, <2>1, <3>1 DEF vars, commVars, OpenInv, OpenState, Alike
  <2>2. CASE Leaf = {}
    BY <2>2 DEF OpenInv
  <2>3. CASE Leaf # {} /\ Next
    BY <1>2, <2>3, OpenStep DEF Next
  <2> QED
    BY <1>2, <2>1, <2>2, <2>3
<1> QED
  BY <1>1, <1>2, CountInvariance, PTL DEF Spec

(* Every rank parses the same bytes in a collective open, whatever fails:  *)
(* nobody loads before rank 0 has, and rank 0 does not write the file      *)
(* before everybody has (mpi.rs, open).                                    *)
THEOREM OpensSeeSameBytes == Spec => []SameBytes
<1>1. ASSUME Typed /\ CountInv /\ OpenInv PROVE SameBytes
  <2> SUFFICES ASSUME NEW q \in Rank, NEW r \in Rank, at[q] = at[r], at[r] > 0,
                      script[at[r]] = "open", Loaded(q), Loaded(r)
               PROVE  Model(file[q]) = Model(file[r])
    BY DEF SameBytes
  <2>1. CASE Leaf = {}
    <3>1. q = r
      BY <2>1, CommAssumption DEF Rank, Leaf
    <3> QED
      BY <3>1
  <2>2. CASE Leaf # {}
    <3>1. ASSUME NEW x \in Rank, Opens(x), Loaded(x) PROVE Opened(x)
      <4>1. OpenState(x)
        BY <1>1, <2>2 DEF OpenInv
      <4>2. todo[x] \notin Unloaded
        BY <3>1, UnloadedRest DEF Loaded
      <4>3. todo[x] # Open(0)
        BY <2>2, <3>1, RootOpens DEF Loaded
      <4> QED
        BY <3>1, <4>1, <4>2, <4>3 DEF OpenState, Opened
    <3>2. Opened(q) /\ Opened(r)
      BY <3>1 DEF Opens
    <3> QED
      BY <1>1, <2>2, <3>2 DEF OpenInv, Alike
  <2> QED
    BY <2>1, <2>2
<1> QED
  BY <1>1, OpenInvariance, PTL
=============================================================================
