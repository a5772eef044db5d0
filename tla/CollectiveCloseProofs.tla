------------------------ MODULE CollectiveCloseProofs ------------------------
(***************************************************************************)
(* The file is complete when a collective close returns (CollectiveFile's  *)
(* FileComplete), for every number of ranks, every script of the kind      *)
(* Proper describes, and whatever fails.                                   *)
(*                                                                         *)
(* The argument: M[k] is what a copy of the file holds after k calls but   *)
(* for the rows written since; every rank's copy has its name and shape,   *)
(* and its log says what its own row holds (RankBody).  In a close the     *)
(* log is in the rank's file, then in its stream, then in rank 0's buffer  *)
(* (LeafBody, Collecting); rank 0 merges all of them and saves (Collected, *)
(* Saved) before anybody may return (HoldingOn).                           *)
(***************************************************************************)
EXTENDS CollectiveFileProofs

-----------------------------------------------------------------------------
(* The file is complete after a close.                                     *)
(*                                                                         *)
(* M[k] is the model of whoever has done the first k calls of the script   *)
(* and has not written since it opened the file: the metadata calls change *)
(* every copy alike.                                                       *)

NotWrong == {"closed", "bare", "clean", "written"}
Ph(k) == Phases(script)[k]

After(call, m) ==
    CASE call = "dataset" -> [name |-> "d", dims |-> Shape, data |-> Filled(Shape, Zero)]
      [] call = "resize" ->
           [name |-> m.name, dims |-> Wider, data |-> Reshaped(m.data, m.dims, Wider, Zero)]
      [] call = "rename" -> [name |-> Other(m.name), dims |-> m.dims, data |-> m.data]
      [] call = "recreate" -> [name |-> m.name, dims |-> m.dims, data |-> Filled(m.dims, Zero)]
      [] call = "create" -> Empty
      [] OTHER -> m

Sized(dims) == dims \in {Shape, Wider}

ChainTo(M, n) ==
    /\ \A k \in 1..n : script[k] # "open" => M[k] = After(script[k], M[k - 1])
    /\ \A k \in 0..n : Ph(k) \in {"clean", "written"} => Sized(M[k].dims)
Chain(M) == ChainTo(M, Len(script))

LEMMA PhaseSteps ==
    ASSUME NEW s \in Seq(Call), Proper(s)
    PROVE  /\ Phases(s)[0] = "closed"
           /\ \A k \in 1..Len(s) : Phases(s)[k] = Moved(s[k], Phases(s)[k - 1])
           /\ \A k \in 0..Len(s) : Phases(s)[k] \in NotWrong
<1> DEFINE n == Len(s)
           IsPhase(f) == f = [k \in 0..n |-> IF k = 0 THEN "closed" ELSE Moved(s[k], f[k - 1])]
           Upto(f, m) == f[0] = "closed" /\ \A k \in 1..m : f[k] = Moved(s[k], f[k - 1])
           S == {m \in Nat : \E f : f = [k \in 0..m |-> f[k]] /\ Upto(f, m)}
<1>1. n \in Nat
  OBVIOUS
<1>2. 0 \in S
  <2> DEFINE f == [k \in 0..0 |-> "closed"]
  <2>1. f = [k \in 0..0 |-> f[k]] /\ Upto(f, 0)
    OBVIOUS
  <2> HIDE DEF f, Upto
  <2>2. \E g : g = [k \in 0..0 |-> g[k]] /\ Upto(g, 0)
    BY <2>1
  <2> QED
    BY <2>2
<1>3. ASSUME NEW m \in Nat, m \in S PROVE m + 1 \in S
  <2>1. PICK f : f = [k \in 0..m |-> f[k]] /\ Upto(f, m)
    BY <1>3
  <2> DEFINE g == [k \in 0..m + 1 |-> IF k = m + 1 THEN Moved(s[k], f[m]) ELSE f[k]]
  <2>2. g = [k \in 0..m + 1 |-> g[k]]
    OBVIOUS
  <2>3. \A k \in 0..m : g[k] = f[k] /\ k \in 0..m + 1
    OBVIOUS
  <2>4. g[m + 1] = Moved(s[m + 1], f[m]) /\ m \in 0..m /\ 0 \in 0..m
    OBVIOUS
  <2>5. \A k \in 1..m + 1 : (k \in 1..m /\ k - 1 \in 0..m /\ k \in 0..m) \/ (k = m + 1 /\ k - 1 = m)
    OBVIOUS
  <2> HIDE DEF g
  <2>6. Upto(g, m + 1)
    <3>1. g[0] = "closed"
      BY <2>1, <2>3, <2>4
    <3>2. ASSUME NEW k \in 1..m + 1 PROVE g[k] = Moved(s[k], g[k - 1])
      <4>1. CASE k \in 1..m /\ k - 1 \in 0..m /\ k \in 0..m
        BY <2>1, <2>3, <4>1
      <4>2. CASE k = m + 1 /\ k - 1 = m
        BY <2>3, <2>4, <4>2
      <4> QED
        BY <2>5, <4>1, <4>2
    <3> QED
      BY <3>1, <3>2
  <2> HIDE DEF Upto
  <2>7. \E h : h = [k \in 0..m + 1 |-> h[k]] /\ Upto(h, m + 1)
    BY <2>2, <2>6
  <2> QED
    BY <2>7
<1>4. n \in S
  <2> HIDE DEF S
  <2>1. Nat \subseteq S
    BY <1>2, <1>3, Induction
  <2> QED
    BY <1>1, <2>1
<1>5. PICK f : f = [k \in 0..n |-> f[k]] /\ Upto(f, n)
  BY <1>4
<1>6. IsPhase(f)
  <2>1. \A k \in 0..n : k = 0 \/ (k # 0 /\ k \in 1..n)
    BY <1>1
  <2>2. \A k \in 0..n : f[k] = IF k = 0 THEN "closed" ELSE Moved(s[k], f[k - 1])
    BY <1>5, <2>1
  <2> QED
    BY <1>5, <2>2
<1>7. Phases(s) = CHOOSE g : IsPhase(g)
  BY DEF Phases
<1>8. IsPhase(Phases(s))
  <2> HIDE DEF IsPhase
  <2> QED
    BY <1>6, <1>7
<1>9. \A k \in 0..n : Phases(s)[k] = IF k = 0 THEN "closed" ELSE Moved(s[k], Phases(s)[k - 1])
  <2> DEFINE P == Phases(s)
  <2>1. P = [k \in 0..n |-> IF k = 0 THEN "closed" ELSE Moved(s[k], P[k - 1])]
    BY <1>8
  <2> HIDE DEF P
  <2>2. \A k \in 0..n : P[k] = IF k = 0 THEN "closed" ELSE Moved(s[k], P[k - 1])
    BY <2>1
  <2> QED
    BY <2>2 DEF P
<1>10. Phases(s)[0] = "closed" /\ \A k \in 1..n : Phases(s)[k] = Moved(s[k], Phases(s)[k - 1])
  <2>1. 0 \in 0..n /\ \A k \in 1..n : k \in 0..n /\ k # 0
    BY <1>1
  <2> QED
    BY <1>9, <2>1
<1>11. \A c, p : Moved(c, p) \in NotWrong \/ Moved(c, p) = "wrong" \/ Moved(c, p) = p
  BY DEF Moved, NotWrong
<1> DEFINE T == {k \in Nat : k <= n => Phases(s)[k] \in NotWrong}
<1>12. 0 \in T
  BY <1>10 DEF NotWrong
<1>13. ASSUME NEW m \in Nat, m \in T PROVE m + 1 \in T
  <2> SUFFICES ASSUME m + 1 <= n PROVE Phases(s)[m + 1] \in NotWrong
    OBVIOUS
  <2>1. m + 1 \in 1..n /\ m + 1 \in 0..n /\ m <= n /\ (m + 1) - 1 = m
    BY <1>1
  <2>2. Phases(s)[m] \in NotWrong
    BY <1>13, <2>1
  <2>3. Phases(s)[m + 1] = Moved(s[m + 1], Phases(s)[m]) /\ Phases(s)[m + 1] # "wrong"
    BY <1>10, <2>1 DEF Proper
  <2> QED
    BY <1>11, <2>2, <2>3
<1>14. Nat \subseteq T
  <2> HIDE DEF T
  <2> QED
    BY <1>12, <1>13, Induction
<1>15. ASSUME NEW k \in 0..n PROVE Phases(s)[k] \in NotWrong
  <2>1. k \in Nat /\ k <= n
    BY <1>1
  <2> QED
    BY <1>14, <2>1
<1> QED
  BY <1>10, <1>15

LEMMA SizedAfter ==
    ASSUME NEW call, NEW p, NEW m, call # "open", Moved(call, p) \in {"clean", "written"},
           p \in {"clean", "written"} => Sized(m.dims)
    PROVE  Sized(After(call, m).dims)
<1>1. CASE call = "dataset" \/ call = "resize"
  BY <1>1 DEF After, Sized
<1>2. CASE call \in {"rename", "recreate", "write"}
  <2>1. p \in {"clean", "written"}
    BY <1>2 DEF Moved
  <2> QED
    BY <1>2, <2>1 DEF After
<1>3. CASE call \in {"init", "barrier", "bcast", "gather", "allgather"}
  <2>1. p \in {"clean", "written"}
    BY <1>3 DEF Moved
  <2> QED
    BY <1>3, <2>1 DEF After
<1>4. call \in {"dataset", "resize", "rename", "recreate", "write"}
      \/ call \in {"init", "barrier", "bcast", "gather", "allgather"}
  BY DEF Moved
<1> QED
  BY <1>1, <1>2, <1>3, <1>4

(* A beginning of such a chain can be continued. *)
LEMMA Continued ==
    ASSUME script \in Scripts, Proper(script), NEW k \in 0..Len(script), NEW M, ChainTo(M, k)
    PROVE  \E N : Chain(N) /\ \A j \in 0..k : N[j] = M[j]
<1> DEFINE n == Len(script)
           Goes(N, j) == ChainTo(N, j) /\ \A i \in 0..k : N[i] = M[i]
           S == {j \in Nat : k + j <= n => \E N : Goes(N, k + j)}
<1>1. script \in Seq(Call) /\ n \in Nat /\ k \in Nat /\ k <= n
  BY ScriptAssumption
<1>2. \A j \in 1..n : Ph(j) = Moved(script[j], Ph(j - 1))
  BY <1>1, PhaseSteps DEF Ph
<1>3. 0 \in S
  <2>1. k + 0 = k /\ Goes(M, k)
    BY <1>1
  <2> HIDE DEF Goes
  <2> QED
    BY <2>1
<1>4. ASSUME NEW j \in Nat, j \in S PROVE j + 1 \in S
  <2> SUFFICES ASSUME k + (j + 1) <= n PROVE \E N : Goes(N, k + (j + 1))
    OBVIOUS
  <2> DEFINE e == k + j
             f == k + (j + 1)
  <2>1. e \in Nat /\ f = e + 1 /\ f \in 1..n /\ f \in Nat /\ k <= e /\ e <= n /\ f - 1 = e
    BY <1>1
  <2>2. PICK N : Goes(N, e)
    BY <1>4, <2>1
  <2> HIDE DEF e, f
  <2> DEFINE new == IF script[f] = "open" THEN [dims |-> Shape] ELSE After(script[f], N[e])
             O == [i \in 0..f |-> IF i = f THEN new ELSE N[i]]
  <2>3. O[f] = new /\ \A i \in 0..e : O[i] = N[i]
    <3>1. f \in 0..f /\ \A i \in 0..e : i \in 0..f /\ i # f
      BY <2>1
    <3> QED
      BY <3>1
  <2>4. \A i \in 1..f : (i \in 1..e /\ i \in 0..e /\ i - 1 \in 0..e) \/ (i = f /\ i - 1 = e /\ e \in 0..e)
    BY <2>1
  <2>5. \A i \in 0..f : i \in 0..e \/ i = f
    BY <2>1
  <2> HIDE DEF O
  <2>6. ASSUME NEW i \in 1..f, script[i] # "open" PROVE O[i] = After(script[i], O[i - 1])
    <3>1. CASE i \in 1..e /\ i \in 0..e /\ i - 1 \in 0..e
      <4>1. N[i] = After(script[i], N[i - 1])
        BY <2>2, <2>6, <3>1 DEF ChainTo
      <4> QED
        BY <2>3, <3>1, <4>1
    <3>2. CASE i = f /\ i - 1 = e /\ e \in 0..e
      BY <2>3, <2>6, <3>2
    <3> QED
      BY <2>4, <3>1, <3>2
  <2>7. ASSUME NEW i \in 0..f, Ph(i) \in {"clean", "written"} PROVE Sized(O[i].dims)
    <3>1. CASE i \in 0..e
      BY <2>2, <2>3, <2>7, <3>1 DEF ChainTo
    <3>2. CASE i = f
      <4>1. Ph(f) = Moved(script[f], Ph(e))
        BY <1>2, <2>1
      <4>2. e \in 0..e
        BY <2>1
      <4>3. Ph(e) \in {"clean", "written"} => Sized(N[e].dims)
        BY <2>2, <4>2 DEF ChainTo
      <4>4. CASE script[f] = "open"
        BY <2>3, <3>2, <4>4 DEF Sized
      <4>5. CASE script[f] # "open"
        <5>1. Sized(After(script[f], N[e]).dims)
          BY <2>7, <3>2, <4>1, <4>3, <4>5, SizedAfter
        <5> QED
          BY <2>3, <3>2, <4>5, <5>1
      <4> QED
        BY <4>4, <4>5
    <3> QED
      BY <2>5, <3>1, <3>2
  <2>8. Goes(O, f)
    <3>1. \A i \in 0..k : i \in 0..e
      BY <1>1, <2>1
    <3> QED
      BY <2>2, <2>3, <2>6, <2>7, <3>1 DEF ChainTo
  <2> HIDE DEF Goes
  <2> QED
    BY <2>8 DEF f
<1>5. n - k \in S
  <2> HIDE DEF S
  <2>1. Nat \subseteq S
    BY <1>3, <1>4, Induction
  <2> QED
    BY <1>1, <2>1
<1>6. k + (n - k) = n /\ n - k \in Nat /\ n <= n
  BY <1>1
<1> HIDE DEF Goes
<1>7. \E N : Goes(N, n)
  BY <1>5, <1>6
<1> QED
  BY <1>7 DEF Goes, Chain

LEMMA FirstChain ==
    ASSUME script \in Scripts, Proper(script)
    PROVE  \E M : Chain(M)
<1> DEFINE M == [j \in {0} |-> Empty]
<1>1. script \in Seq(Call)
  BY ScriptAssumption
<1>2. Ph(0) = "closed" /\ 0 \in 0..Len(script)
  BY <1>1, PhaseSteps DEF Ph
<1>3. ChainTo(M, 0)
  BY <1>2 DEF ChainTo
<1> HIDE DEF M
<1> QED
  BY <1>2, <1>3, Continued

(* Rank 0 finds m when it opens the file in call k. *)
LEMMA Rebuilt ==
    ASSUME script \in Scripts, Proper(script), NEW k \in 1..Len(script), script[k] = "open",
           NEW M, Chain(M), NEW m, Sized(m.dims)
    PROVE  \E N : Chain(N) /\ N[k] = m /\ \A j \in 0..(k - 1) : N[j] = M[j]
<1> DEFINE O == [j \in 0..k |-> IF j = k THEN m ELSE M[j]]
           n == Len(script)
<1>1. n \in Nat /\ k \in Nat /\ k \in 0..n /\ k <= n /\ k \in 0..k
  BY ScriptTotals, ScriptAssumption
<1>2. O[k] = m /\ \A j \in 0..(k - 1) : O[j] = M[j]
  <2>1. \A j \in 0..(k - 1) : j \in 0..k /\ j # k
    BY <1>1
  <2> QED
    BY <1>1, <2>1
<1> HIDE DEF O
<1>3. ASSUME NEW i \in 1..k, script[i] # "open" PROVE O[i] = After(script[i], O[i - 1])
  <2>1. i \in 0..(k - 1) /\ i - 1 \in 0..(k - 1) /\ i \in 1..n
    <3>1. i # k
      BY <1>3
    <3> QED
      BY <1>1, <3>1
  <2>2. M[i] = After(script[i], M[i - 1])
    BY <1>3, <2>1 DEF Chain, ChainTo
  <2> QED
    BY <1>2, <2>1, <2>2
<1>4. ASSUME NEW i \in 0..k, Ph(i) \in {"clean", "written"} PROVE Sized(O[i].dims)
  <2>1. i = k \/ (i \in 0..(k - 1) /\ i \in 0..n)
    BY <1>1
  <2> QED
    BY <1>2, <1>4, <2>1 DEF Chain, ChainTo
<1>5. ChainTo(O, k)
  BY <1>3, <1>4 DEF ChainTo
<1>6. PICK N : Chain(N) /\ \A j \in 0..k : N[j] = O[j]
  BY <1>1, <1>5, Continued
<1>7. N[k] = m /\ \A j \in 0..(k - 1) : N[j] = M[j]
  <2>1. \A j \in 0..(k - 1) : j \in 0..k
    BY <1>1
  <2> QED
    BY <1>1, <1>2, <1>6, <2>1
<1> QED
  BY <1>6, <1>7

-----------------------------------------------------------------------------
(* What the merge of the logs does.                                        *)

LEMMA LastIsMax ==
    ASSUME NEW n \in Nat, NEW s \in SUBSET (1..n + 1), n + 1 \in s
    PROVE  Max(s) = n + 1
<1>1. n + 1 \in s /\ \A y \in s : y <= n + 1
  OBVIOUS
<1>2. \A x \in s : (\A y \in s : y <= x) => x = n + 1
  BY <1>1
<1> QED
  BY <1>1, <1>2 DEF Max

LEMMA SomeMax ==
    ASSUME NEW n \in Nat, NEW s \in SUBSET (1..n), s # {}
    PROVE  Max(s) \in s
<1> DEFINE S == {m \in Nat : \A t \in SUBSET (1..m) : t # {} => \E x \in t : \A y \in t : y <= x}
<1>1. 0 \in S
  <2>1. 1..0 = {}
    OBVIOUS
  <2> QED
    BY <2>1
<1>2. ASSUME NEW m \in Nat, m \in S PROVE m + 1 \in S
  <2> SUFFICES ASSUME NEW t \in SUBSET (1..m + 1), t # {} PROVE \E x \in t : \A y \in t : y <= x
    OBVIOUS
  <2>1. CASE m + 1 \in t
    <3>1. \A y \in t : y <= m + 1
      OBVIOUS
    <3> QED
      BY <2>1, <3>1
  <2>2. CASE m + 1 \notin t
    <3>1. t \in SUBSET (1..m)
      BY <2>2
    <3> QED
      BY <1>2, <3>1
  <2> QED
    BY <2>1, <2>2
<1>3. Nat \subseteq S
  <2> HIDE DEF S
  <2> QED
    BY <1>1, <1>2, Induction
<1>4. \E x \in s : \A y \in s : y <= x
  BY <1>3
<1> QED
  BY <1>4 DEF Max

(* A fold is made one element after the other. *)
Folded(d, s) == FoldLeft(Apply, d, s)

LEMMA FoldSteps ==
    ASSUME NEW d, NEW s, IsSeq(s)
    PROVE  \E R : /\ R[0] = d /\ \A j \in 1..Len(s) : R[j] = Apply(R[j - 1], s[j])
                  /\ Folded(d, s) = R[Len(s)]
<1> DEFINE n == Len(s)
           D == DOMAIN s
           Eq(f, m) == f = [t \in SUBSET (1..m) |->
                              IF t = {} THEN d ELSE Apply(f[t \ {Max(t)}], s[Max(t)])]
           S == {m \in Nat : m <= n => \E f : Eq(f, m)}
<1>1. n \in Nat /\ D = 1..n
  BY SeqFacts DEF IsSeq
<1>2. 0 \in S
  <2> DEFINE f == [t \in SUBSET (1..0) |-> d]
  <2>1. \A t \in SUBSET (1..0) : t = {}
    OBVIOUS
  <2>2. Eq(f, 0)
    BY <2>1
  <2> HIDE DEF Eq
  <2> QED
    BY <2>2
<1>3. ASSUME NEW m \in Nat, m \in S PROVE m + 1 \in S
  <2> HIDE DEF Eq
  <2> SUFFICES ASSUME m + 1 <= n PROVE \E f : Eq(f, m + 1)
    OBVIOUS
  <2>0. m <= n
    BY <1>1
  <2>1. PICK f : Eq(f, m)
    BY <1>3, <2>0
  <2> USE DEF Eq
  <2> DEFINE g == [t \in SUBSET (1..m + 1) |->
                     IF m + 1 \in t THEN Apply(f[t \ {m + 1}], s[m + 1]) ELSE f[t]]
  <2>2. \A t \in SUBSET (1..m) : t \in SUBSET (1..m + 1) /\ m + 1 \notin t
    OBVIOUS
  <2>3. \A t \in SUBSET (1..m) : g[t] = f[t]
    BY <2>2
  <2>4. \A t \in SUBSET (1..m + 1) : m + 1 \in t => g[t] = Apply(f[t \ {m + 1}], s[m + 1])
    OBVIOUS
  <2>5. \A t \in SUBSET (1..m) :
          f[t] = IF t = {} THEN d ELSE Apply(f[t \ {Max(t)}], s[Max(t)])
    BY <2>1
  <2>6. g = [t \in SUBSET (1..m + 1) |-> g[t]]
    OBVIOUS
  <2> HIDE DEF g
  <2>7. ASSUME NEW t \in SUBSET (1..m + 1)
        PROVE  g[t] = IF t = {} THEN d ELSE Apply(g[t \ {Max(t)}], s[Max(t)])
    <3>1. CASE m + 1 \in t
      <4>1. Max(t) = m + 1 /\ t \ {m + 1} \in SUBSET (1..m)
        BY <3>1, LastIsMax
      <4>2. g[t \ {m + 1}] = f[t \ {m + 1}]
        BY <2>3, <4>1
      <4> QED
        BY <2>4, <3>1, <4>1, <4>2
    <3>2. CASE m + 1 \notin t
      <4>1. t \in SUBSET (1..m) /\ t \ {Max(t)} \in SUBSET (1..m)
        <5>1. \A x \in t : x \in 1..m
          BY <3>2
        <5> QED
          BY <5>1
      <4>2. g[t \ {Max(t)}] = f[t \ {Max(t)}] /\ g[t] = f[t]
        BY <2>3, <4>1
      <4> QED
        BY <2>5, <4>1, <4>2
    <3> QED
      BY <3>1, <3>2
  <2>8. Eq(g, m + 1)
    BY <2>6, <2>7
  <2> HIDE DEF Eq
  <2> QED
    BY <2>8
<1>4. \E f : Eq(f, n)
  <2>1. Nat \subseteq S
    <3> HIDE DEF S
    <3> QED
      BY <1>2, <1>3, Induction
  <2> HIDE DEF Eq
  <2> QED
    BY <1>1, <2>1
<1>5. Folded(d, s) = (CHOOSE f : Eq(f, n))[1..n]
  BY <1>1 DEF Folded, FoldLeft, MapThenFoldSet
<1>6. PICK f : Eq(f, n) /\ Folded(d, s) = f[1..n]
  <2> HIDE DEF Eq
  <2> QED
    BY <1>4, <1>5
<1> DEFINE R == [j \in 0..n |-> f[1..j]]
<1>7. \A t \in SUBSET (1..n) :
        f[t] = IF t = {} THEN d ELSE Apply(f[t \ {Max(t)}], s[Max(t)])
  BY <1>6
<1>8. R[0] = d /\ R[n] = f[1..n]
  <2>1. 1..0 = {} /\ 1..0 \in SUBSET (1..n) /\ 0 \in 0..n /\ n \in 0..n
    BY <1>1
  <2> QED
    BY <1>7, <2>1
<1>9. ASSUME NEW j \in 1..n PROVE R[j] = Apply(R[j - 1], s[j])
  <2>0. j \in Nat /\ j >= 1 /\ j <= n
    BY <1>1
  <2>1. /\ j \in 0..n /\ j - 1 \in 0..n /\ 1..j \in SUBSET (1..n) /\ j \in 1..j
        /\ (1..j) \ {j} = 1..(j - 1) /\ 1..j # {} /\ j - 1 \in Nat /\ (j - 1) + 1 = j
    <3>1. j \in 0..n /\ j - 1 \in 0..n /\ j \in 1..j /\ j - 1 \in Nat /\ (j - 1) + 1 = j
      BY <1>1, <2>0
    <3>2. \A x \in 1..j : x \in 1..n
      BY <1>1, <2>0
    <3>3. (1..j) \ {j} = 1..(j - 1)
      BY <2>0
    <3> QED
      BY <3>1, <3>2, <3>3
  <2>2. Max(1..j) = j
    BY <2>1, LastIsMax
  <2>3. f[1..j] = Apply(f[(1..j) \ {j}], s[j])
    BY <1>7, <2>1, <2>2
  <2> QED
    BY <2>1, <2>3
<1> HIDE DEF R
<1> QED
  BY <1>6, <1>8, <1>9

LEMMA ConcatFacts ==
    ASSUME NEW s, IsSeq(s), NEW t, IsSeq(t)
    PROVE  /\ IsSeq(s \o t) /\ Len(s \o t) = Len(s) + Len(t) /\ Len(s) \in Nat /\ Len(t) \in Nat
           /\ \A i \in 1..Len(s) + Len(t) :
                (s \o t)[i] = IF i <= Len(s) THEN s[i] ELSE t[i - Len(s)]
<1>1. PICK S : s \in Seq(S)
  BY DEF IsSeq
<1>2. PICK T : t \in Seq(T)
  BY DEF IsSeq
<1> DEFINE U == S \cup T
<1>3. s \in Seq(U) /\ t \in Seq(U)
  BY <1>1, <1>2, SeqMonotonic
<1> HIDE DEF U
<1>4. /\ s \o t \in Seq(U) /\ Len(s \o t) = Len(s) + Len(t)
      /\ \A i \in 1..Len(s) + Len(t) : (s \o t)[i] = IF i <= Len(s) THEN s[i] ELSE t[i - Len(s)]
  BY <1>3, ConcatProperties
<1>5. Len(s) \in Nat /\ Len(t) \in Nat
  BY <1>1, <1>2
<1> QED
  BY <1>4, <1>5 DEF IsSeq

(* f holds the entries of the first m logs: each is an entry of some log,  *)
(* and after the last one of a log come only those of later logs.          *)
From(f, logs, x, lo, hi) ==
    \E q \in lo..hi : \E y \in 1..Len(logs[q]) : f[x] = logs[q][y]
Spread(f, logs, m) ==
    /\ IsSeq(f)
    /\ \A x \in 1..Len(f) : From(f, logs, x, 1, m)
    /\ \A q \in 1..m : Len(logs[q]) > 0 =>
         \E x \in 1..Len(f) : /\ f[x] = logs[q][Len(logs[q])]
                              /\ \A z \in (x + 1)..Len(f) : From(f, logs, z, q + 1, m)

LEMMA SpreadNext ==
    ASSUME NEW m \in Nat, NEW logs, \A q \in 1..m + 1 : IsSeq(logs[q]), NEW f, Spread(f, logs, m)
    PROVE  Spread(f \o logs[m + 1], logs, m + 1)
<1> DEFINE l == logs[m + 1]
           g == f \o l
           a == Len(f)
           b == Len(l)
<1>0. m + 1 \in 1..m + 1 /\ \A q \in 1..m : q \in 1..m + 1 /\ Len(logs[q]) \in Nat
  BY SeqFacts
<1>1. /\ IsSeq(g) /\ Len(g) = a + b /\ a \in Nat /\ b \in Nat
      /\ \A i \in 1..a + b : g[i] = IF i <= a THEN f[i] ELSE l[i - a]
  BY <1>0, ConcatFacts DEF Spread
<1> HIDE DEF g
<1>2. \A x \in 1..a : x \in 1..a + b /\ g[x] = f[x]
  BY <1>1
<1>3. ASSUME NEW x \in 1..a + b, ~(x <= a), NEW lo \in Nat, lo <= m + 1
      PROVE  From(g, logs, x, lo, m + 1)
  <2>1. x - a \in 1..b /\ g[x] = l[x - a] /\ m + 1 \in lo..(m + 1)
    BY <1>1, <1>3
  <2> QED
    BY <2>1 DEF From
<1>4. ASSUME NEW x \in 1..a, NEW lo \in Nat, From(f, logs, x, lo, m)
      PROVE  From(g, logs, x, lo, m + 1)
  <2>1. PICK q \in lo..m : \E y \in 1..Len(logs[q]) : f[x] = logs[q][y]
    BY <1>4 DEF From
  <2>2. q \in lo..(m + 1) /\ g[x] = f[x]
    BY <1>2
  <2> QED
    BY <2>1, <2>2 DEF From
<1>5. ASSUME NEW x \in 1..Len(g) PROVE From(g, logs, x, 1, m + 1)
  <2>1. CASE x <= a
    <3>1. x \in 1..a
      BY <1>1, <2>1
    <3>2. From(f, logs, x, 1, m)
      BY <3>1 DEF Spread
    <3> QED
      BY <1>4, <3>1, <3>2
  <2>2. CASE ~(x <= a)
    BY <1>1, <1>3, <2>2
  <2> QED
    BY <2>1, <2>2
<1>6. ASSUME NEW q \in 1..m + 1, Len(logs[q]) > 0
      PROVE  \E x \in 1..Len(g) : /\ g[x] = logs[q][Len(logs[q])]
                                  /\ \A z \in (x + 1)..Len(g) : From(g, logs, z, q + 1, m + 1)
  <2>1. CASE q = m + 1
    <3>1. a + b \in 1..Len(g) /\ ~(a + b <= a) /\ a + b - a = b /\ b > 0
      BY <1>1, <1>6, <2>1
    <3>2. g[a + b] = l[b] /\ \A z \in (a + b + 1)..Len(g) : FALSE
      BY <1>1, <3>1
    <3> QED
      BY <2>1, <3>1, <3>2
  <2>2. CASE q # m + 1
    <3>1. q \in 1..m
      BY <2>2
    <3>2. PICK x \in 1..a : /\ f[x] = logs[q][Len(logs[q])]
                            /\ \A z \in (x + 1)..a : From(f, logs, z, q + 1, m)
      BY <1>6, <3>1 DEF Spread
    <3>3. x \in 1..Len(g) /\ g[x] = f[x] /\ q + 1 \in Nat /\ q + 1 <= m + 1
      BY <1>1, <1>2, <3>1
    <3>4. ASSUME NEW z \in (x + 1)..Len(g) PROVE From(g, logs, z, q + 1, m + 1)
      <4>1. z \in 1..a + b
        BY <1>1
      <4>2. CASE z <= a
        <5>1. z \in (x + 1)..a /\ z \in 1..a
          BY <1>1, <4>1, <4>2
        <5> QED
          BY <1>4, <3>2, <3>3, <5>1
      <4>3. CASE ~(z <= a)
        BY <1>3, <3>3, <4>1, <4>3
      <4> QED
        BY <4>2, <4>3
    <3> QED
      BY <3>2, <3>3, <3>4
  <2> QED
    BY <2>1, <2>2
<1> QED
  BY <1>1, <1>5, <1>6 DEF Spread, g

LEMMA FlattenSteps ==
    ASSUME NEW logs, IsSeq(logs), \A q \in 1..Len(logs) : IsSeq(logs[q])
    PROVE  Spread(FlattenSeq(logs), logs, Len(logs))
<1> DEFINE n == Len(logs)
           Eq(f, m) == f = [i \in 1..m |-> IF i = 1 THEN logs[i] ELSE f[i - 1] \o logs[i]]
           S == {m \in Nat : \E f : Eq(f, m)}
<1>1. n \in Nat
  BY SeqFacts
<1>2. CASE n = 0
  <2>1. FlattenSeq(logs) = <<>>
    BY <1>2, SeqFacts DEF FlattenSeq
  <2>2. IsSeq(<<>>) /\ Len(<<>>) = 0
    <3>1. <<>> \in Seq({})
      OBVIOUS
    <3> QED
      BY <3>1 DEF IsSeq
  <2> QED
    BY <1>2, <2>1, <2>2 DEF Spread
<1>3. CASE n > 0
  <2>1. 0 \in S
    <3>1. Eq([i \in 1..0 |-> logs], 0)
      <4>1. 1..0 = {}
        OBVIOUS
      <4> QED
        BY <4>1
    <3> HIDE DEF Eq
    <3> QED
      BY <3>1
  <2>2. ASSUME NEW m \in Nat, m \in S PROVE m + 1 \in S
    <3> HIDE DEF Eq
    <3>1. PICK f : Eq(f, m)
      BY <2>2
    <3> DEFINE g == [i \in 1..m + 1 |->
                       IF i = m + 1 THEN (IF i = 1 THEN logs[i] ELSE f[m] \o logs[i]) ELSE f[i]]
    <3>0. m + 1 \in 1..m + 1 /\ \A i \in 1..m : i \in 1..m + 1 /\ i # m + 1
      OBVIOUS
    <3>2. g = [i \in 1..m + 1 |-> g[i]] /\ \A i \in 1..m : g[i] = f[i]
      <4>1. g = [i \in 1..m + 1 |-> g[i]]
        BY Zenon
      <4>2. \A i \in 1..m : g[i] = f[i]
        BY <3>0, Zenon
      <4> QED
        BY <4>1, <4>2
    <3>3. g[m + 1] = IF m + 1 = 1 THEN logs[m + 1] ELSE f[m] \o logs[m + 1]
      BY <3>0, Zenon
    <3>4. \A i \in 1..m : f[i] = IF i = 1 THEN logs[i] ELSE f[i - 1] \o logs[i]
      BY <3>1 DEF Eq
    <3> HIDE DEF g
    <3>5. ASSUME NEW i \in 1..m + 1 PROVE g[i] = IF i = 1 THEN logs[i] ELSE g[i - 1] \o logs[i]
      <4>1. CASE i = m + 1
        <5>1. i = 1 \/ (m \in 1..m /\ i - 1 = m)
          BY <4>1
        <5> QED
          BY <3>2, <3>3, <4>1, <5>1
      <4>2. CASE i # m + 1
        <5>1. i \in 1..m /\ (i = 1 \/ i - 1 \in 1..m)
          BY <4>2
        <5> QED
          BY <3>2, <3>4, <5>1
      <4> QED
        BY <4>1, <4>2
    <3>6. Eq(g, m + 1)
      BY <3>2, <3>5 DEF Eq
    <3> QED
      BY <3>6
  <2>3. n \in S
    <3>1. Nat \subseteq S
      <4> HIDE DEF S
      <4> QED
        BY <2>1, <2>2, Induction
    <3> QED
      BY <1>1, <3>1
  <2>4. FlattenSeq(logs) = (CHOOSE f : Eq(f, n))[n]
    BY <1>3 DEF FlattenSeq
  <2>5. PICK f : Eq(f, n) /\ FlattenSeq(logs) = f[n]
    <3> HIDE DEF Eq
    <3> QED
      BY <2>3, <2>4
  <2>6. \A i \in 1..n : f[i] = IF i = 1 THEN logs[i] ELSE f[i - 1] \o logs[i]
    BY <2>5
  <2> DEFINE T == {m \in Nat : m + 1 <= n => Spread(f[m + 1], logs, m + 1)}
  <2>7. 0 \in T
    <3>1. f[1] = logs[1] /\ IsSeq(logs[1]) /\ Len(logs[1]) \in Nat
      <4>1. 1 \in 1..n
        BY <1>1, <1>3
      <4> QED
        BY <2>6, <4>1, SeqFacts
    <3>2. 1 \in 1..1 /\ \A q \in 1..1 : q = 1
      OBVIOUS
    <3>3. Spread(logs[1], logs, 1)
      BY <3>1, <3>2 DEF Spread, From
    <3> QED
      BY <3>1, <3>3
  <2>8. ASSUME NEW m \in Nat, m \in T PROVE m + 1 \in T
    <3> SUFFICES ASSUME (m + 1) + 1 <= n PROVE Spread(f[(m + 1) + 1], logs, (m + 1) + 1)
      OBVIOUS
    <3> DEFINE k == m + 1
    <3>1. /\ k \in Nat /\ k <= n /\ k + 1 \in 1..n /\ k + 1 # 1 /\ (k + 1) - 1 = k
          /\ \A q \in 1..k + 1 : q \in 1..n
      BY <1>1
    <3>2. Spread(f[k], logs, k)
      BY <2>8, <3>1
    <3> HIDE DEF k
    <3>3. f[k + 1] = f[k] \o logs[k + 1]
      BY <2>6, <3>1
    <3>4. Spread(f[k + 1], logs, k + 1)
      BY <3>1, <3>2, <3>3, SpreadNext
    <3> QED
      BY <3>4 DEF k
  <2>9. n - 1 \in T
    <3> HIDE DEF T
    <3>1. Nat \subseteq T
      BY <2>7, <2>8, Induction
    <3> QED
      BY <1>1, <1>3, <3>1
  <2>10. (n - 1) + 1 = n /\ n <= n
    BY <1>1
  <2> QED
    BY <2>5, <2>9, <2>10
<1> QED
  BY <1>1, <1>2, <1>3

-----------------------------------------------------------------------------
(* The local steps of the plans.                                           *)

LocalsIn(s, X) == IsSeq(s) /\ \A i \in 1..Len(s) : s[i].do = "local" => s[i] \in X

LEMMA LocalsBoth ==
    ASSUME NEW X, NEW s, LocalsIn(s, X), NEW t, LocalsIn(t, X)
    PROVE  LocalsIn(s \o t, X)
<1> DEFINE u == s \o t
           a == Len(s)
           b == Len(t)
<1>1. /\ IsSeq(u) /\ Len(u) = a + b /\ a \in Nat /\ b \in Nat
      /\ \A i \in 1..a + b : u[i] = IF i <= a THEN s[i] ELSE t[i - a]
  BY ConcatFacts DEF LocalsIn
<1>2. /\ \A i \in 1..a : s[i].do = "local" => s[i] \in X
      /\ \A i \in 1..b : t[i].do = "local" => t[i] \in X
  BY DEF LocalsIn
<1> HIDE DEF u, a, b
<1>3. ASSUME NEW i \in 1..a + b, u[i].do = "local" PROVE u[i] \in X
  <2>1. CASE i <= a
    <3>1. i \in 1..a /\ u[i] = s[i]
      BY <1>1, <2>1
    <3> QED
      BY <1>2, <1>3, <3>1
  <2>2. CASE ~(i <= a)
    <3>1. i - a \in 1..b /\ u[i] = t[i - a]
      BY <1>1, <2>2
    <3> QED
      BY <1>2, <1>3, <3>1
  <2> QED
    BY <2>1, <2>2
<1> QED
  BY <1>1, <1>3 DEF LocalsIn, u

LEMMA LocalsOne ==
    ASSUME NEW X
    PROVE  LocalsIn(<<>>, X) /\ \A x : (x.do = "local" => x \in X) => LocalsIn(<<x>>, X)
<1>1. ASSUME NEW x PROVE IsSeq(<<x>>) /\ Len(<<x>>) = 1 /\ <<x>>[1] = x
  <2>1. <<x>> \in Seq({x})
    OBVIOUS
  <2> QED
    BY <2>1 DEF IsSeq
<1>2. IsSeq(<<>>) /\ Len(<<>>) = 0
  <2>1. <<>> \in Seq({})
    OBVIOUS
  <2> QED
    BY <2>1 DEF IsSeq
<1>3. LocalsIn(<<>>, X)
  BY <1>2 DEF LocalsIn
<1>4. ASSUME NEW x, x.do = "local" => x \in X PROVE LocalsIn(<<x>>, X)
  <2>1. \A i \in 1..1 : i = 1
    OBVIOUS
  <2> QED
    BY <1>1, <1>4, <2>1 DEF LocalsIn
<1> QED
  BY <1>3, <1>4

LEMMA LocalsRest ==
    ASSUME NEW X, NEW s, LocalsIn(s, X), s # <<>>
    PROVE  /\ LocalsIn(Tail(s), X) /\ \A p : LocalsIn(<<Drain(p)>> \o Tail(s), X)
           /\ <<>> \o Tail(s) = Tail(s)
           /\ Head(s).do = "local" => Head(s) \in X
<1> DEFINE t == Tail(s)
<1>1. /\ IsSeq(t) /\ Len(t) = Len(s) - 1 /\ Len(s) \in Nat /\ Len(s) # 0 /\ Head(s) = s[1]
      /\ \A i \in 1..Len(s) - 1 : t[i] = s[i + 1]
  BY SeqFacts DEF LocalsIn
<1>2. <<>> \o t = t
  <2>1. PICK S : t \in Seq(S)
    BY <1>1 DEF IsSeq
  <2> HIDE DEF t
  <2> QED
    BY <2>1, ConcatEmptySeq
<1> HIDE DEF t
<1>3. LocalsIn(t, X)
  <2>1. \A i \in 1..Len(t) : i + 1 \in 1..Len(s) /\ t[i] = s[i + 1]
    BY <1>1
  <2> QED
    BY <1>1, <2>1 DEF LocalsIn
<1>4. Head(s).do = "local" => Head(s) \in X
  <2>1. 1 \in 1..Len(s)
    BY <1>1
  <2> QED
    BY <1>1, <2>1 DEF LocalsIn
<1>5. ASSUME NEW p PROVE LocalsIn(<<Drain(p)>> \o t, X)
  <2>1. Drain(p).do = "local" => Drain(p) \in X
    BY DEF Drain
  <2>2. LocalsIn(<<Drain(p)>>, X)
    BY <2>1, LocalsOne
  <2> QED
    BY <1>3, <2>2, LocalsBoth
<1> QED
  BY <1>2, <1>3, <1>4, <1>5 DEF t

Attaching == {Local("attach")}

LEMMA LocalsQuiet ==
    ASSUME NEW s
    PROVE  /\ LocalsIn(s, {}) => LocalsIn(s, Attaching)
           /\ LocalsIn(s, Attaching) => Quiet(s)
  BY DEF LocalsIn, Attaching, Quiet, Quietly

(* Who receives from all and who sends to all does nothing else. *)
LEMMA TalkingToAll ==
    ASSUME NEW X
    PROVE  /\ LocalsIn(RecvFromAll, X) /\ \A w : LocalsIn(SendToAll(w), X)
           /\ LocalsIn([i \in Leaf |-> Accept], X)
           /\ Len(RecvFromAll) = Size - 1 /\ \A i \in 1..Size - 1 : RecvFromAll[i] = Recv(i)
<1> DEFINE n == Size - 1
<1>1. n \in Nat /\ Leaf = 1..n
  BY CommAssumption DEF Leaf
<1> HIDE DEF n
<1>2. ASSUME NEW S, NEW f \in [1..n -> S] PROVE IsSeq(f) /\ Len(f) = n
  <2>1. f \in Seq(S) /\ Len(f) = n
    BY <1>1
  <2> QED
    BY <2>1 DEF IsSeq
<1>3. /\ \A p : Recv(p).do = "recv" /\ \A w : Send(p, w).do = "send"
      /\ Accept.do = "accept"
  BY DEF Recv, Send, Accept
<1>4. LocalsIn(RecvFromAll, X) /\ Len(RecvFromAll) = n /\ \A i \in 1..n : RecvFromAll[i] = Recv(i)
  <2> DEFINE f == RecvFromAll
  <2>1. f \in [1..n -> {Recv(i) : i \in 1..n}] /\ \A i \in 1..n : f[i] = Recv(i)
    BY <1>1 DEF RecvFromAll
  <2> HIDE DEF f
  <2>2. IsSeq(f) /\ Len(f) = n
    BY <1>2, <2>1
  <2> QED
    BY <1>3, <2>1, <2>2 DEF LocalsIn, f
<1>5. ASSUME NEW w PROVE LocalsIn(SendToAll(w), X)
  <2> DEFINE f == SendToAll(w)
  <2>1. f \in [1..n -> {Send(i, w) : i \in 1..n}] /\ \A i \in 1..n : f[i] = Send(i, w)
    BY <1>1 DEF SendToAll
  <2> HIDE DEF f
  <2>2. IsSeq(f) /\ Len(f) = n
    BY <1>2, <2>1
  <2> QED
    BY <1>3, <2>1, <2>2 DEF LocalsIn, f
<1>6. LocalsIn([i \in Leaf |-> Accept], X)
  <2> DEFINE f == [i \in Leaf |-> Accept]
  <2>1. f \in [1..n -> {Accept}] /\ \A i \in 1..n : f[i] = Accept
    BY <1>1
  <2> HIDE DEF f
  <2>2. IsSeq(f) /\ Len(f) = n
    BY <1>2, <2>1
  <2> QED
    BY <1>3, <2>1, <2>2 DEF LocalsIn, f
<1> QED
  BY <1>4, <1>5, <1>6 DEF n

Talking == {"init", "barrier", "bcast", "gather", "allgather"}

LEMMA TalkPlans ==
    ASSUME NEW X, NEW r \in Rank
    PROVE  LocalsIn(Barrier(r), X) /\ \A call \in Talking : LocalsIn(Plan(r, call), X)
<1> DEFINE In(s) == LocalsIn(s, X)
<1>1. \A s, t : In(s) /\ In(t) => In(s \o t)
  BY LocalsBoth
<1>2. /\ In(RecvFromAll) /\ \A w : In(SendToAll(w))
      /\ In([i \in Leaf |-> Accept])
  BY TalkingToAll
<1>3. In(<<>>) /\ \A p : In(<<Recv(p)>>) /\ \A w : In(<<Send(p, w)>>)
  <2>1. \A p : Recv(p).do # "local" /\ \A w : Send(p, w).do # "local"
    BY DEF Recv, Send
  <2> QED
    BY <2>1, LocalsOne
<1>4. \A w : In(<<Send(0, w), Recv(0)>>)
  <2>1. \A w : <<Send(0, w)>> \o <<Recv(0)>> = <<Send(0, w), Recv(0)>>
    BY Tuples
  <2>2. \A w : In(<<Send(0, w)>> \o <<Recv(0)>>)
    BY <1>1, <1>3
  <2> QED
    BY <2>1, <2>2
<1> HIDE DEF In
<1>5. In(Barrier(r)) /\ In(Rendezvous(r))
  BY <1>1, <1>2, <1>4 DEF Barrier, Rendezvous
<1>6. \A p : In(Gather(r, p))
  BY <1>1, <1>2, <1>3 DEF Gather
<1>7. \A p, w : In(Relay(r, p, w))
  BY <1>1, <1>2, <1>3 DEF Relay
<1>8. \A p : In(Bcast(r, p))
  BY <1>7 DEF Bcast
<1>9. In(Allgather(r))
  BY <1>1, <1>6, <1>7 DEF Allgather
<1>10. \A call \in Talking : In(Plan(r, call))
  BY <1>5, <1>6, <1>8, <1>9 DEF Talking, Plan
<1> QED
  BY <1>5, <1>10 DEF In

LEMMA FirstOf ==
    ASSUME NEW x, NEW t, IsSeq(t)
    PROVE  <<x>> \o t # <<>> /\ IsSeq(<<x>> \o t) /\ Head(<<x>> \o t) = x /\ Tail(<<x>> \o t) = t
<1> DEFINE e == <<x>>
           u == e \o t
<1>1. IsSeq(e) /\ Len(e) = 1 /\ e[1] = x
  <2>1. e \in Seq({x})
    OBVIOUS
  <2> QED
    BY <2>1 DEF IsSeq
<1> HIDE DEF e
<1>2. /\ IsSeq(u) /\ Len(u) = 1 + Len(t) /\ Len(t) \in Nat
      /\ \A i \in 1..1 + Len(t) : u[i] = IF i <= 1 THEN e[i] ELSE t[i - 1]
  BY <1>1, ConcatFacts
<1> HIDE DEF u
<1>3. u # <<>>
  BY <1>2, SeqFacts
<1>4. /\ IsSeq(Tail(u)) /\ Len(Tail(u)) = Len(t) /\ Head(u) = u[1]
      /\ \A i \in 1..Len(t) : Tail(u)[i] = u[i + 1]
  BY <1>2, <1>3, SeqFacts
<1>5. u[1] = x
  <2>1. 1 \in 1..1 + Len(t) /\ 1 <= 1
    BY <1>2
  <2> QED
    BY <1>1, <1>2, <2>1
<1>6. \A i \in 1..Len(t) : u[i + 1] = t[i]
  <2>1. \A i \in 1..Len(t) : i + 1 \in 1..1 + Len(t) /\ ~(i + 1 <= 1) /\ (i + 1) - 1 = i
    BY <1>2
  <2> QED
    BY <1>2, <2>1
<1>7. Tail(u) = t
  <2> DEFINE v == Tail(u)
  <2>1. PICK S : v \in Seq(S)
    BY <1>4 DEF IsSeq
  <2>2. PICK T : t \in Seq(T)
    BY DEF IsSeq
  <2>3. Len(v) = Len(t) /\ \A i \in 1..Len(t) : v[i] = t[i]
    BY <1>4, <1>6
  <2> HIDE DEF v
  <2>4. v = t
    BY <2>1, <2>2, <2>3, SeqEqual
  <2> QED
    BY <2>4 DEF v
<1> QED
  BY <1>2, <1>3, <1>4, <1>5, <1>7 DEF u, e

(* The calls that begin with a local step, and what then is left.          *)
Acting == {"create", "dataset", "resize", "rename", "recreate", "write", "prepare"}
Remaining(call) == IF call = "create" THEN Attaching ELSE {}

LEMMA ActingPlans ==
    ASSUME NEW r \in Rank, NEW call \in Acting, r = 0 \/ call # "prepare"
    PROVE  LET s == Plan(r, call)
           IN  /\ s # <<>> /\ IsSeq(s) /\ Head(s) = Local(call) /\ ~Quiet(s)
               /\ LocalsIn(Tail(s), Remaining(call))
<1> DEFINE x == Local(call)
<1>1. x.do = "local" /\ x # Local("attach")
  BY DEF Local, Acting
<1>2. ASSUME NEW t, LocalsIn(t, Remaining(call)), Plan(r, call) = <<x>> \o t
      PROVE  LET s == Plan(r, call)
             IN  /\ s # <<>> /\ IsSeq(s) /\ Head(s) = x /\ ~Quiet(s)
                 /\ LocalsIn(Tail(s), Remaining(call))
  <2> DEFINE s == Plan(r, call)
  <2>1. s # <<>> /\ IsSeq(s) /\ Head(s) = x /\ Tail(s) = t
    BY <1>2, FirstOf DEF LocalsIn
  <2> HIDE DEF s
  <2>2. Len(s) \in Nat /\ Len(s) # 0 /\ Head(s) = s[1]
    BY <2>1, SeqFacts
  <2>3. 1 \in 1..Len(s)
    BY <2>2
  <2>4. ~Quiet(s)
    BY <1>1, <2>1, <2>2, <2>3 DEF Quiet, Quietly
  <2> QED
    BY <1>2, <2>1, <2>4 DEF s
<1>3. CASE call = "create"
  <2> DEFINE a == Local("attach")
             B == Barrier(r)
             t == <<a>> \o B
  <2>1. LocalsIn(t, Attaching)
    <3>1. LocalsIn(B, Attaching)
      BY TalkPlans
    <3>2. LocalsIn(<<a>>, Attaching)
      <4>1. a \in Attaching
        BY DEF Attaching
      <4> HIDE DEF a
      <4> QED
        BY <4>1, LocalsOne
    <3> HIDE DEF B
    <3> QED
      BY <3>1, <3>2, LocalsBoth
  <2>2. Plan(r, call) = <<x, a>> \o B
    BY <1>3 DEF Plan
  <2>3. PICK S : B \in Seq(S)
    BY TalkPlans DEF LocalsIn, IsSeq
  <2> HIDE DEF x, a, B
  <2>4. (<<x>> \o <<a>>) \o B = <<x>> \o t
    <3> DEFINE U == S \cup {x, a}
    <3>1. <<x>> \in Seq(U) /\ <<a>> \in Seq(U) /\ B \in Seq(U)
      BY <2>3, SeqMonotonic
    <3> HIDE DEF U
    <3> QED
      BY <3>1, ConcatAssociative
  <2>5. <<x>> \o <<a>> = <<x, a>>
    BY Tuples
  <2>6. LocalsIn(t, Remaining(call)) /\ Plan(r, call) = <<x>> \o t
    BY <1>3, <2>1, <2>2, <2>4, <2>5 DEF Remaining
  <2> HIDE DEF t
  <2>7. LET s == Plan(r, call)
        IN  /\ s # <<>> /\ IsSeq(s) /\ Head(s) = x /\ ~Quiet(s)
            /\ LocalsIn(Tail(s), Remaining(call))
    BY <1>2, <2>6
  <2> QED
    BY <2>7 DEF x
<1>4. CASE call # "create"
  <2>1. Plan(r, call) = <<x>>
    BY <1>4 DEF Plan, Acting
  <2>2. <<x>> \o <<>> = <<x>> /\ LocalsIn(<<>>, Remaining(call))
    <3>1. <<x>> \in Seq({x})
      OBVIOUS
    <3>2. LocalsIn(<<>>, Remaining(call))
      BY LocalsOne
    <3> HIDE DEF x
    <3> QED
      BY <3>1, <3>2, ConcatEmptySeq
  <2> HIDE DEF x
  <2>3. LET s == Plan(r, call)
        IN  /\ s # <<>> /\ IsSeq(s) /\ Head(s) = x /\ ~Quiet(s)
            /\ LocalsIn(Tail(s), Remaining(call))
    BY <1>2, <2>1, <2>2
  <2> QED
    BY <2>3 DEF x
<1> QED
  BY <1>3, <1>4

-----------------------------------------------------------------------------
(* What rank 0 does in a close, by the place of the step in the plan.      *)

Others == Size - 1
Finishing == {Local("drop")}

LEMMA ClosePlan ==
    LET C == Close(0)
        n == Others
    IN  /\ n \in Nat /\ IsSeq(C) /\ Len(C) \in Nat /\ Len(C) >= n + 5 + n
        /\ \A i \in 1..n : C[i] = Recv(i) /\ C[n + 4 + i] = Recv(i)
        /\ C[n + 1] = Local("merge") /\ C[n + 2] = Local("detach")
        /\ C[n + 3] = Local("save") /\ C[n + 4] = Local("seal")
        /\ \A i \in (n + 5)..Len(C) : C[i].do = "local" => C[i] \in Finishing
        /\ C[Len(C)] = Local("drop") /\ Plan(0, "close") = C
<1> DEFINE n == Others
           R == RecvFromAll
           B == R \o SendToAll("nothing")
           m == <<Local("merge"), Local("detach"), Local("save")>>
           s == <<Local("seal")>>
           d == <<Local("drop")>>
           C == Close(0)
<1>1. n \in Nat
  BY CommAssumption DEF Others
<1>2. /\ LocalsIn(R, Finishing) /\ LocalsIn(SendToAll("nothing"), Finishing)
      /\ Len(R) = n /\ \A i \in 1..n : R[i] = Recv(i)
  BY TalkingToAll DEF Others
<1>3. /\ IsSeq(m) /\ Len(m) = 3 /\ m[1] = Local("merge") /\ m[2] = Local("detach")
      /\ m[3] = Local("save")
      /\ IsSeq(s) /\ Len(s) = 1 /\ s[1] = Local("seal")
      /\ IsSeq(d) /\ Len(d) = 1 /\ d[1] = Local("drop")
  <2>1. \A x : <<x>> \in Seq({x})
    OBVIOUS
  <2>2. m \in Seq({Local("merge"), Local("detach"), Local("save")})
    OBVIOUS
  <2> QED
    BY <2>1, <2>2 DEF IsSeq
<1>4. LocalsIn(d, Finishing)
  BY LocalsOne DEF Finishing
<1>5. LocalsIn(B, Finishing) /\ Len(B) \in Nat /\ Len(B) >= n /\ \A i \in 1..n : B[i] = Recv(i)
  <2> DEFINE S == SendToAll("nothing")
  <2>1. LocalsIn(S, Finishing)
    BY <1>2
  <2> HIDE DEF R, S, n
  <2>2. LocalsIn(R \o S, Finishing)
    BY <1>2, <2>1, LocalsBoth
  <2>3. /\ Len(R \o S) = Len(R) + Len(S) /\ Len(S) \in Nat
        /\ \A i \in 1..Len(R) + Len(S) : (R \o S)[i] = IF i <= Len(R) THEN R[i] ELSE S[i - Len(R)]
    BY <1>2, <2>1, ConcatFacts DEF LocalsIn
  <2>4. Len(R \o S) = n + Len(S) /\ \A i \in 1..n : (R \o S)[i] = Recv(i)
    <3>1. \A i \in 1..n : i \in 1..n + Len(S) /\ i <= n
      BY <1>1, <2>3
    <3> QED
      BY <1>2, <2>3, <3>1
  <2> QED
    BY <1>1, <2>2, <2>3, <2>4 DEF S
<1>6. C = ((((R \o <<>>) \o m) \o s) \o B) \o d
  BY DEF Close, Gather, Barrier
<1>7. R \o <<>> = R
  <2>1. PICK S : R \in Seq(S)
    BY <1>2 DEF LocalsIn, IsSeq
  <2> HIDE DEF R
  <2> QED
    BY <2>1, ConcatEmptySeq
<1>8. Plan(0, "close") = C
  BY DEF Plan
<1> HIDE DEF n, R, B, m, s, d, C
<1> DEFINE u == R \o m
           v == u \o s
           w == v \o B
<1>9. /\ IsSeq(u) /\ Len(u) = n + 3 /\ \A i \in 1..n : u[i] = Recv(i)
      /\ u[n + 1] = Local("merge") /\ u[n + 2] = Local("detach") /\ u[n + 3] = Local("save")
  <2>0. /\ IsSeq(u) /\ Len(u) = Len(R) + Len(m)
        /\ \A i \in 1..Len(R) + Len(m) : u[i] = IF i <= Len(R) THEN R[i] ELSE m[i - Len(R)]
    BY <1>2, <1>3, ConcatFacts DEF LocalsIn
  <2> HIDE DEF u
  <2>1. /\ IsSeq(u) /\ Len(u) = n + 3
        /\ \A i \in 1..n + 3 : u[i] = IF i <= n THEN R[i] ELSE m[i - n]
    BY <1>2, <1>3, <2>0
  <2>2. /\ \A i \in 1..n : i \in 1..n + 3 /\ i <= n
        /\ \A j \in 1..3 : n + j \in 1..n + 3 /\ ~(n + j <= n) /\ (n + j) - n = j
    BY <1>1
  <2>3. 1 \in 1..3 /\ 2 \in 1..3 /\ 3 \in 1..3
    OBVIOUS
  <2> QED
    BY <1>2, <1>3, <2>1, <2>2, <2>3
<1> HIDE DEF u
<1>10. /\ IsSeq(v) /\ Len(v) = n + 4 /\ (\A i \in 1..n + 3 : v[i] = u[i])
       /\ v[n + 4] = Local("seal")
  <2>0. /\ IsSeq(v) /\ Len(v) = Len(u) + Len(s)
        /\ \A i \in 1..Len(u) + Len(s) : v[i] = IF i <= Len(u) THEN u[i] ELSE s[i - Len(u)]
    BY <1>3, <1>9, ConcatFacts
  <2> HIDE DEF v
  <2>1. /\ IsSeq(v) /\ Len(v) = (n + 3) + 1
        /\ \A i \in 1..(n + 3) + 1 : v[i] = IF i <= n + 3 THEN u[i] ELSE s[i - (n + 3)]
    BY <1>3, <1>9, <2>0
  <2>2. /\ (n + 3) + 1 = n + 4 /\ n + 4 \in 1..(n + 3) + 1 /\ ~(n + 4 <= n + 3)
        /\ (n + 4) - (n + 3) = 1
        /\ \A i \in 1..n + 3 : i \in 1..(n + 3) + 1 /\ i <= n + 3
    BY <1>1
  <2> QED
    BY <1>3, <2>1, <2>2
<1> HIDE DEF v
<1>11. /\ IsSeq(w) /\ Len(w) = (n + 4) + Len(B) /\ (\A i \in 1..n + 4 : w[i] = v[i])
       /\ \A i \in 1..Len(B) : w[n + 4 + i] = B[i]
  <2>0. /\ IsSeq(w) /\ Len(w) = Len(v) + Len(B)
        /\ \A i \in 1..Len(v) + Len(B) : w[i] = IF i <= Len(v) THEN v[i] ELSE B[i - Len(v)]
    BY <1>5, <1>10, ConcatFacts DEF LocalsIn
  <2> HIDE DEF w
  <2>1. /\ IsSeq(w) /\ Len(w) = (n + 4) + Len(B)
        /\ \A i \in 1..(n + 4) + Len(B) : w[i] = IF i <= n + 4 THEN v[i] ELSE B[i - (n + 4)]
    BY <1>10, <2>0
  <2>2. /\ \A i \in 1..n + 4 : i \in 1..(n + 4) + Len(B) /\ i <= n + 4
        /\ \A i \in 1..Len(B) : /\ n + 4 + i \in 1..(n + 4) + Len(B) /\ ~(n + 4 + i <= n + 4)
                                /\ (n + 4 + i) - (n + 4) = i
    BY <1>1, <1>5
  <2> QED
    BY <2>1, <2>2
<1> HIDE DEF w
<1>12. C = w \o d
  BY <1>6, <1>7 DEF w, v, u
<1> DEFINE l == (n + 4) + Len(B)
<1>13. /\ IsSeq(C) /\ Len(C) = l + 1 /\ (\A i \in 1..l : C[i] = w[i])
       /\ C[l + 1] = Local("drop")
  <2>0. l \in Nat
    BY <1>1, <1>5
  <2>1. /\ IsSeq(C) /\ Len(C) = l + 1
        /\ \A i \in 1..l + 1 : C[i] = IF i <= l THEN w[i] ELSE d[i - l]
    <3>1. /\ IsSeq(C) /\ Len(C) = Len(w) + Len(d)
          /\ \A i \in 1..Len(w) + Len(d) : C[i] = IF i <= Len(w) THEN w[i] ELSE d[i - Len(w)]
      BY <1>3, <1>11, <1>12, ConcatFacts
    <3>2. Len(w) = l
      BY <1>11
    <3> QED
      BY <1>3, <3>1, <3>2
  <2> HIDE DEF l
  <2>2. /\ l + 1 \in 1..l + 1 /\ ~(l + 1 <= l) /\ (l + 1) - l = 1
        /\ \A i \in 1..l : i \in 1..l + 1 /\ i <= l
    BY <2>0
  <2> QED
    BY <1>3, <2>1, <2>2
<1>14. /\ \A i \in 1..n + 4 : i \in 1..l
       /\ \A i \in 1..Len(B) : n + 4 + i \in 1..l
       /\ \A i \in 1..n : i \in 1..n + 4 /\ i \in 1..n + 3 /\ i \in 1..Len(B)
       /\ n + 1 \in 1..n + 3 /\ n + 2 \in 1..n + 3 /\ n + 3 \in 1..n + 3 /\ n + 4 \in 1..n + 4
       /\ \A i \in 1..n + 3 : i \in 1..n + 4
       /\ l \in Nat /\ l + 1 >= n + 5 + n
       /\ \A i \in (n + 5)..(l + 1) :
            i = l + 1 \/ (i - (n + 4) \in 1..Len(B) /\ i = n + 4 + (i - (n + 4)))
  BY <1>1, <1>5
<1> HIDE DEF l
<1>15. \A i \in (n + 5)..Len(C) : C[i].do = "local" => C[i] \in Finishing
  <2> SUFFICES ASSUME NEW i \in (n + 5)..(l + 1), C[i].do = "local" PROVE C[i] \in Finishing
    BY <1>13
  <2>1. CASE i = l + 1
    BY <1>13, <2>1 DEF Finishing
  <2>2. CASE i - (n + 4) \in 1..Len(B) /\ i = n + 4 + (i - (n + 4))
    <3> DEFINE j == i - (n + 4)
    <3>1. j \in 1..Len(B) /\ i = n + 4 + j
      BY <2>2
    <3> HIDE DEF j
    <3>2. C[i] = B[j]
      BY <1>11, <1>13, <1>14, <3>1
    <3> QED
      BY <1>5, <3>1, <3>2 DEF LocalsIn
  <2> QED
    BY <1>14, <2>1, <2>2
<1>16. \A i \in 1..n : C[i] = Recv(i) /\ C[n + 4 + i] = Recv(i)
  BY <1>5, <1>9, <1>10, <1>11, <1>13, <1>14
<1>17. /\ C[n + 1] = Local("merge") /\ C[n + 2] = Local("detach") /\ C[n + 3] = Local("save")
       /\ C[n + 4] = Local("seal")
  BY <1>9, <1>10, <1>11, <1>13, <1>14
<1> QED
  BY <1>1, <1>8, <1>13, <1>14, <1>15, <1>16, <1>17 DEF n, C

(* The plan without its first j steps. *)
Rest(s, j) ==
    /\ IsSeq(s) /\ j \in 0..(Others + 4) /\ Len(s) = Len(Close(0)) - j
    /\ \A i \in 1..Len(s) : s[i] = Close(0)[j + i]

LEMMA RestFacts ==
    /\ Rest(Close(0), 0)
    /\ \A s, j : Rest(s, j) => ~Quiet(s)
    /\ \A s : Rest(s, Others + 4) => LocalsIn(s, Finishing)
    /\ \A s : \A j \in 0..(Others + 3) : Rest(s, j) =>
         s # <<>> /\ Head(s) = Close(0)[j + 1] /\ Rest(Tail(s), j + 1) /\ <<>> \o Tail(s) = Tail(s)
<1> DEFINE C == Close(0)
           n == Others
           l == Len(C)
<1>1. /\ n \in Nat /\ IsSeq(C) /\ l \in Nat /\ l >= n + 5 + n
      /\ (\A i \in (n + 5)..l : C[i].do = "local" => C[i] \in Finishing)
      /\ C[l] = Local("drop")
  BY ClosePlan
<1> HIDE DEF C, n
<1> DEFINE Left(s, j) == /\ IsSeq(s) /\ j \in 0..(n + 4) /\ Len(s) = l - j
                         /\ \A i \in 1..Len(s) : s[i] = C[j + i]
<1>2. \A s, j : Rest(s, j) <=> Left(s, j)
  BY DEF Rest, C, n
<1> HIDE DEF l
<1>3. Left(C, 0)
  <2>1. \A i \in 1..l : 0 + i = i
    OBVIOUS
  <2>2. 0 \in 0..(n + 4) /\ l - 0 = l
    BY <1>1
  <2> QED
    BY <1>1, <2>1, <2>2 DEF l
<1>4. ASSUME NEW s, Left(s, n + 4) PROVE LocalsIn(s, Finishing)
  <2>1. Len(s) = l - (n + 4) /\ \A i \in 1..Len(s) : s[i] = C[(n + 4) + i]
    BY <1>4
  <2>2. \A i \in 1..Len(s) : (n + 4) + i \in (n + 5)..l
    BY <1>1, <2>1
  <2> QED
    BY <1>1, <1>4, <2>1, <2>2 DEF LocalsIn
<1>5. ASSUME NEW s, NEW j \in 0..(n + 3), Left(s, j)
      PROVE  /\ s # <<>> /\ Head(s) = C[j + 1] /\ Left(Tail(s), j + 1)
             /\ <<>> \o Tail(s) = Tail(s)
  <2> DEFINE t == Tail(s)
  <2>0. j \in Nat /\ j + 1 \in 0..(n + 4) /\ l - j > 0
    BY <1>1
  <2>1. IsSeq(s) /\ Len(s) = l - j /\ \A i \in 1..Len(s) : s[i] = C[j + i]
    BY <1>5
  <2>2. s # <<>>
    BY <2>0, <2>1, SeqFacts
  <2>3. IsSeq(t) /\ Len(t) = Len(s) - 1 /\ Head(s) = s[1] /\ \A i \in 1..Len(s) - 1 : t[i] = s[i + 1]
    BY <2>1, <2>2, SeqFacts
  <2>4. PICK T : t \in Seq(T)
    BY <2>3 DEF IsSeq
  <2> HIDE DEF t
  <2>5. <<>> \o t = t
    BY <2>4, ConcatEmptySeq
  <2>6. Len(t) = l - (j + 1) /\ \A i \in 1..Len(t) : t[i] = C[(j + 1) + i]
    <3>1. Len(t) = l - (j + 1)
      BY <1>1, <2>0, <2>1, <2>3
    <3>2. \A i \in 1..Len(t) : i \in 1..Len(s) - 1 /\ i + 1 \in 1..Len(s) /\ j + (i + 1) = (j + 1) + i
      BY <1>1, <2>0, <2>1, <2>3
    <3> QED
      BY <2>1, <2>3, <3>1, <3>2
  <2>7. Head(s) = C[j + 1]
    <3>1. 1 \in 1..Len(s)
      BY <1>1, <2>0, <2>1
    <3> QED
      BY <2>1, <2>3, <3>1
  <2> QED
    BY <2>0, <2>2, <2>3, <2>5, <2>6, <2>7 DEF t
<1>6. ASSUME NEW s, NEW j, Left(s, j) PROVE ~Quiet(s)
  <2>1. Len(s) = l - j /\ j \in 0..(n + 4) /\ \A i \in 1..Len(s) : s[i] = C[j + i]
    BY <1>6
  <2>2. l - j \in 1..Len(s) /\ j + (l - j) = l
    BY <1>1, <2>1
  <2>3. s[l - j] = Local("drop")
    BY <1>1, <2>1, <2>2
  <2>4. ~Quietly(Local("drop"))
    BY DEF Quietly, Local
  <2> QED
    BY <2>2, <2>3, <2>4 DEF Quiet
<1> HIDE DEF Left
<1> QED
  BY <1>2, <1>3, <1>4, <1>5, <1>6 DEF C, n

-----------------------------------------------------------------------------
(* What the steps of a rank do.                                            *)

Does(r, w) ==
    CASE w = "prepare" -> Prepare(r)
      [] w = "create" -> Create(r)
      [] w = "load" -> Load(r)
      [] w = "attach" -> Attach(r)
      [] w = "dataset" -> Dataset(r)
      [] w = "resize" -> Resize(r)
      [] w = "rename" -> Rename(r)
      [] w = "recreate" -> Recreate(r)
      [] w = "write" -> Write(r)
      [] w = "merge" -> Merge(r)
      [] w = "detach" -> Detach(r)
      [] w = "save" -> Save(r)
      [] w = "seal" -> Seal(r)
      [] w = "drop" -> Drop(r)
      [] OTHER -> FALSE

Halts(r) ==
    /\ UNCHANGED <<stream, todo, got, at, file>>
    /\ disk' \in {disk, Dropped(file[r])} \cup Interrupted(r)

LEMMA OwnSteps ==
    ASSUME NEW r \in Rank, Step(r) \/ Dies(r), ~Enter(r)
    PROVE  Communicate(r) \/ Halts(r) \/ \E w : Does(r, w)
<1>1. CommFails(r) \/ LoadFails(r) \/ MergeFails(r) => Halts(r)
  BY DEF CommFails, LoadFails, MergeFails, Exit, Halts
<1>2. SaveFails(r) \/ Dies(r) => Halts(r)
  BY DEF SaveFails, Dies, Exit, Halts
<1>3. /\ Does(r, "prepare") <=> Prepare(r)
      /\ Does(r, "create") <=> Create(r)
      /\ Does(r, "load") <=> Load(r)
      /\ Does(r, "attach") <=> Attach(r)
      /\ Does(r, "dataset") <=> Dataset(r)
      /\ Does(r, "resize") <=> Resize(r)
      /\ Does(r, "rename") <=> Rename(r)
  BY DEF Does
<1>4. /\ Does(r, "recreate") <=> Recreate(r)
      /\ Does(r, "write") <=> Write(r)
      /\ Does(r, "merge") <=> Merge(r)
      /\ Does(r, "detach") <=> Detach(r)
      /\ Does(r, "save") <=> Save(r)
      /\ Does(r, "seal") <=> Seal(r)
      /\ Does(r, "drop") <=> Drop(r)
  BY DEF Does
<1> QED
  BY <1>1, <1>2, <1>3, <1>4 DEF Step

(* A local step is the head of the plan. *)
LEMMA DoesHead ==
    ASSUME NEW r \in Rank, DOMAIN todo = Rank, NEW w, Does(r, w)
    PROVE  /\ todo[r] # <<>> /\ Head(todo[r]).do = "local" /\ Head(todo[r]).what = w
           /\ todo'[r] = Tail(todo[r]) /\ UNCHANGED <<stream, got, at, script>>
<1>1. LocalStep(r, w)
  BY DEF Does, Prepare, Create, Load, Attach, Dataset, Resize, Rename, Recreate, Write, Merge,
         Detach, Save, Seal, Drop
<1> QED
  BY <1>1 DEF LocalStep, Doing, At, Advance

LEMMA Talks ==
    ASSUME NEW r \in Rank, DOMAIN todo = Rank, Communicate(r)
    PROVE  /\ todo[r] # <<>> /\ Head(todo[r]).do # "local" /\ UNCHANGED <<file, disk, at, script>>
           /\ \/ todo'[r] = Tail(todo[r])
              \/ todo'[r] = <<>> \o Tail(todo[r])
              \/ \E p : todo'[r] = <<Drain(p)>> \o Tail(todo[r])
           /\ Head(todo[r]).do # "send" => todo'[r] = Tail(todo[r])
<1>1. UNCHANGED <<file, disk, at, script>>
  BY DEF Communicate
<1>2. CASE DoSend(r, Own(r))
  BY <1>1, <1>2 DEF DoSend, At
<1>3. CASE DoDrain(r)
  BY <1>1, <1>3 DEF DoDrain, At, Advance
<1>4. CASE DoRecv(r) \/ DoAccept(r)
  BY <1>1, <1>4 DEF DoRecv, DoAccept, Take, At, Advance
<1> QED
  BY <1>2, <1>3, <1>4 DEF Communicate

(* A rank whose local steps are all in X. *)
LEMMA LocalsStep ==
    ASSUME NEW r \in Rank, DOMAIN todo = Rank, Step(r) \/ Dies(r), ~Enter(r),
           NEW X, LocalsIn(todo[r], X)
    PROVE  /\ LocalsIn(todo'[r], X)
           /\ \/ Communicate(r) /\ UNCHANGED <<file, disk, at>>
              \/ Halts(r)
              \/ \E w : Does(r, w) /\ Head(todo[r]) \in X /\ Head(todo[r]).what = w
<1>1. CASE Communicate(r)
  <2>1. LocalsIn(todo'[r], X)
    BY <1>1, Talks, LocalsRest
  <2> QED
    BY <1>1, <2>1, Talks
<1>2. CASE Halts(r)
  BY <1>2 DEF Halts
<1>3. ASSUME NEW w, Does(r, w) PROVE LocalsIn(todo'[r], X) /\ Head(todo[r]) \in X /\ Head(todo[r]).what = w
  BY <1>3, DoesHead, LocalsRest
<1> QED
  BY <1>1, <1>2, <1>3, OwnSteps

Fielded(f) == HasFlags(f) /\ Modelled(f) /\ "log" \in DOMAIN f

LEMMA FieldsKept ==
    ASSUME NEW r \in Rank, DOMAIN file = Rank, NEW w, Does(r, w), w = "merge" => r = 0,
           Fielded(file[r])
    PROVE  Fielded(file'[r])
<1>1. \A m : Fielded(FileOf(m))
  BY DEF Fielded, HasFlags, Modelled, FileOf
<1>2. \A f : DOMAIN f = DOMAIN file[r] => Fielded(f)
  BY DEF Fielded, HasFlags, Modelled
<1>3. file' = file => Fielded(file'[r])
  OBVIOUS
<1>4. CASE w \in {"prepare", "save"}
  BY <1>3, <1>4 DEF Does, Prepare, Save
<1>5. CASE w \in {"create", "load"}
  BY <1>1, <1>5 DEF Does, Create, Load
<1>6. CASE w \in {"attach", "dataset", "resize"}
  BY <1>2, <1>6 DEF Does, Attach, Dataset, Resize
<1>7. CASE w \in {"rename", "recreate", "write"}
  BY <1>2, <1>7 DEF Does, Rename, Recreate, Write
<1>8. CASE w \in {"merge", "detach", "seal", "drop"}
  BY <1>2, <1>8 DEF Does, Merge, Detach, Seal, Drop
<1> QED
  BY <1>4, <1>5, <1>6, <1>7, <1>8 DEF Does

-----------------------------------------------------------------------------
(* The calls, by what is left of them.                                     *)

Closes(r) == at[r] > 0 /\ script[at[r]] = "close"
Begins(r) ==
    /\ script[at[r]] \in Acting /\ (r = 0 \/ script[at[r]] # "prepare")
    /\ todo[r] = Plan(r, script[at[r]])
Plain(r) ==
    at[r] > 0 /\ ~Opens(r) /\ ~Closes(r) =>
      Begins(r) \/ LocalsIn(todo[r], Remaining(script[at[r]]))

Leaving == {Local("detach"), Local("seal"), Local("drop")}
LeafCloses(q) ==
    Closes(q) => /\ LocalsIn(todo[q], Leaving)
                 /\ todo[q] = Plan(q, "close") \/ Sending(q) <= 1

Saved == disk = Whole(Model(file[0]))
RootCloses ==
    Closes(0) =>
      \/ \E j \in 0..(Others + 3) : Rest(todo[0], j) /\ (j = Others + 3 => Saved)
      \/ LocalsIn(todo[0], Finishing) /\ Saved /\ file[0].readOnly

ShapeInv ==
    /\ \A r \in Rank : Fielded(file[r]) /\ Plain(r)
    /\ \A q \in Leaf : LeafCloses(q)
    /\ RootCloses

(* What a step of rank r leaves to the others. *)
LEMMA Aside ==
    ASSUME Typed, NEW r \in Rank, Step(r) \/ Dies(r)
    PROVE  /\ script' = script /\ at[r] \in Nat
           /\ at' = at \/ (at[r] < Len(script) /\ at' = [at EXCEPT ![r] = @ + 1])
           /\ DOMAIN todo = Rank /\ DOMAIN file = Rank
           /\ \A x \in Rank : x # r =>
                at'[x] = at[x] /\ todo'[x] = todo[x] /\ file'[x] = file[x]
           /\ r # 0 => r \in Leaf /\ ~Merge(r) /\ disk' = disk
<1>1. r = 0 \/ r \in Leaf
  BY CommAssumption DEF Rank, Leaf
<1>2. ASSUME r \in Leaf PROVE r # 0 /\ ~Merge(r) /\ disk' = disk
  <2>1. ~Merge(r)
    BY <1>2, LeafLocal DEF Merge, Typed
  <2> QED
    BY <1>2, <2>1, LeafPlaces, LeafWritesNothing DEF Typed
<1>3. /\ script' = script
      /\ at' = at \/ (at[r] < Len(script) /\ at' = [at EXCEPT ![r] = @ + 1])
      /\ \A x \in Rank : x # r => todo'[x] = todo[x] /\ (x # 0 \/ ~Merge(r) => file'[x] = file[x])
  BY OthersStay DEF Typed
<1>4. at[r] \in Nat /\ DOMAIN todo = Rank /\ DOMAIN file = Rank /\ DOMAIN at = Rank
  BY DEF Typed, RootInv
<1>5. ASSUME NEW x \in Rank, x # r
      PROVE  at'[x] = at[x] /\ todo'[x] = todo[x] /\ file'[x] = file[x]
  BY <1>1, <1>2, <1>3, <1>4, <1>5
<1> QED
  BY <1>1, <1>2, <1>3, <1>4, <1>5

LEMMA Entered ==
    ASSUME Typed, NEW r \in Rank, Enter(r)
    PROVE  /\ at[r] + 1 \in 1..Len(script) /\ script[at[r] + 1] \in Call
           /\ at'[r] = at[r] + 1 /\ todo'[r] = Plan(r, script[at[r] + 1]) /\ todo[r] = <<>>
           /\ UNCHANGED <<script, file, disk>>
<1>1. /\ todo[r] = <<>> /\ at[r] < Len(script) /\ at[r] \in Nat
      /\ at' = [at EXCEPT ![r] = @ + 1]
      /\ todo' = [todo EXCEPT ![r] = Plan(r, script[at[r] + 1])]
      /\ UNCHANGED <<script, file, disk>> /\ DOMAIN at = Rank /\ DOMAIN todo = Rank
  BY DEF Enter, Typed, RootInv
<1>2. at[r] + 1 \in 1..Len(script)
  BY <1>1, ScriptTotals, ScriptAssumption DEF Typed, RootInv
<1> QED
  BY <1>1, <1>2, ScriptCalls DEF Typed

LEMMA FieldsStep ==
    ASSUME Typed, NEW r \in Rank, Step(r) \/ Dies(r), Fielded(file[r])
    PROVE  Fielded(file'[r])
<1>1. CASE Enter(r) \/ Communicate(r) \/ Halts(r)
  BY <1>1 DEF Enter, Communicate, Halts
<1>2. ASSUME NEW w, Does(r, w) PROVE Fielded(file'[r])
  <2>1. w = "merge" => r = 0
    BY <1>2, Aside DEF Does
  <2> QED
    BY <1>2, <2>1, Aside, FieldsKept
<1> QED
  BY <1>1, <1>2, OwnSteps

LEMMA PlainStep ==
    ASSUME Typed, NEW r \in Rank, Step(r) \/ Dies(r), Plain(r)
    PROVE  Plain(r)'
<1>0. script' = script /\ DOMAIN todo = Rank
  BY Aside
<1>1. CASE Enter(r)
  <2> DEFINE call == script[at[r] + 1]
  <2>1. call \in Call /\ at'[r] = at[r] + 1 /\ todo'[r] = Plan(r, call) /\ script'[at'[r]] = call
    BY <1>1, Entered
  <2> HIDE DEF call
  <2> SUFFICES ASSUME call # "open", call # "close"
               PROVE  Begins(r)' \/ LocalsIn(todo'[r], Remaining(call))
    BY <2>1 DEF Plain, Opens, Closes
  <2>2. call \in Talking \/ call \in Acting
    BY <2>1 DEF Call, Talking, Acting
  <2>3. CASE call \in Talking
    BY <2>1, <2>3, TalkPlans
  <2>4. CASE call \in Acting /\ (r = 0 \/ call # "prepare")
    BY <2>1, <2>4 DEF Begins
  <2>5. CASE r # 0 /\ call = "prepare"
    BY <2>1, <2>5, LocalsOne DEF Plan
  <2> QED
    BY <2>2, <2>3, <2>4, <2>5
<1>2. CASE ~Enter(r)
  <2> DEFINE call == script[at[r]]
             X == Remaining(call)
  <2>1. at' = at /\ (Opens(r)' <=> Opens(r)) /\ (Closes(r)' <=> Closes(r))
        /\ script'[at'[r]] = call
    BY <1>0, <1>2, SameCall DEF Opens, Closes
  <2>2. CASE LocalsIn(todo[r], X)
    <3>1. LocalsIn(todo'[r], X)
      BY <1>0, <1>2, <2>2, LocalsStep
    <3> QED
      BY <2>1, <3>1 DEF Plain
  <2>3. CASE Begins(r)
    <3>1. Head(todo[r]).do = "local" /\ LocalsIn(Tail(todo[r]), X)
      BY <2>3, ActingPlans DEF Begins, Local
    <3>2. CASE Communicate(r)
      BY <1>0, <3>1, <3>2, Talks
    <3>3. CASE Halts(r)
      <4>1. Begins(r)'
        BY <1>0, <2>1, <2>3, <3>3 DEF Begins, Halts
      <4> QED
        BY <4>1 DEF Plain
    <3>4. ASSUME NEW w, Does(r, w) PROVE LocalsIn(todo'[r], X)
      BY <1>0, <3>1, <3>4, DoesHead
    <3> QED
      BY <1>2, <2>1, <3>2, <3>3, <3>4, OwnSteps DEF Plain
  <2> QED
    BY <2>1, <2>2, <2>3 DEF Plain
<1> QED
  BY <1>1, <1>2

LEMMA FewerToSend ==
    ASSUME NEW s \in Seq(LeafItem), s # <<>>, NEW t, t \in {Tail(s), <<Drain(0)>> \o Tail(s)}
    PROVE  /\ Count(t, Sends(0)) \in Nat /\ Count(s, Sends(0)) \in Nat
           /\ Count(s, Sends(0)) = Count(t, Sends(0)) + (IF Head(s) \in Sends(0) THEN 1 ELSE 0)
<1>1. Drain(0) \in LeafItem /\ Drain(0) \notin Sends(0)
  BY LeafItems, ItemKinds DEF Sends
<1> DEFINE X == Sends(0)
           c == Count(s, X)
           d == Count(Tail(s), X)
           e == Count(<<Drain(0)>> \o Tail(s), X)
<1>2. c = d + (IF Head(s) \in X THEN 1 ELSE 0) /\ d \in Nat /\ e = d
  BY <1>1, CountRest
<1>3. Count(t, X) = d
  BY <1>2
<1> HIDE DEF c, d, e, X
<1>4. c \in Nat
  BY <1>2
<1> QED
  BY <1>2, <1>3, <1>4 DEF X, c

(* A rank other than 0 closes. *)
LEMMA LeafClosePlan ==
    ASSUME NEW q \in Leaf
    PROVE  LET s == Plan(q, "close")
           IN  /\ s \in Seq(LeafItem) /\ s # <<>> /\ Head(s) = Send(0, "own")
               /\ LocalsIn(s, Leaving) /\ Count(s, Sends(0)) = 2 /\ ~Quiet(s)
<1> DEFINE s == Plan(q, "close")
           a == Send(0, "own")
           b == Local("detach")
           c == Local("seal")
           d == Send(0, "nothing")
           e == Recv(0)
           f == Local("drop")
<1>1. s = <<a, b, c, d, e, f>>
  BY LeafPlans
<1>2. a.do # "local" /\ d.do # "local" /\ e.do # "local" /\ b \in Leaving /\ c \in Leaving /\ f \in Leaving
  BY DEF Send, Recv, Leaving
<1>3. s \in Seq(LeafItem) /\ Count(s, Sends(0)) = 2
  <2>1. "close" \in Call /\ NUp(q, "close") = 2
    BY DEF Call, NUp
  <2> QED
    BY <2>1, LeafTable DEF Exchanges
<1>4. ~Quietly(b)
  BY DEF Quietly, Local
<1> HIDE DEF a, b, c, d, e, f
<1>5. s # <<>> /\ Head(s) = a /\ Len(s) = 6 /\ s[2] = b
  BY <1>1
<1>6. LocalsIn(s, Leaving)
  <2>1. \A i \in 1..6 : s[i] \in {a, b, c, d, e, f}
    BY <1>1
  <2> HIDE DEF s
  <2> QED
    BY <1>2, <1>3, <1>5, <2>1 DEF LocalsIn, IsSeq
<1>7. ~Quiet(s)
  <2>1. 2 \in 1..6
    OBVIOUS
  <2> QED
    BY <1>4, <1>5, <2>1 DEF Quiet
<1> QED
  BY <1>3, <1>5, <1>6, <1>7 DEF s, a

(* It has sent all but one frame after its first step. *)
LEMMA OneToSend ==
    ASSUME NEW q \in Leaf, todo[q] \in Seq(LeafItem), todo[q] # <<>>,
           todo[q] = Plan(q, "close") \/ Sending(q) <= 1,
           todo'[q] \in {Tail(todo[q]), <<Drain(0)>> \o Tail(todo[q])}
    PROVE  Sending(q)' <= 1
<1>1. /\ Sending(q)' \in Nat /\ Sending(q) \in Nat
      /\ Sending(q) = Sending(q)' + (IF Head(todo[q]) \in Sends(0) THEN 1 ELSE 0)
  BY FewerToSend DEF Sending
<1>2. CASE todo[q] = Plan(q, "close")
  <2>1. Sending(q) = 2 /\ Head(todo[q]) \in Sends(0)
    BY <1>2, LeafClosePlan DEF Sending, Sends, What
  <2> HIDE DEF Sending
  <2> QED
    BY <1>1, <2>1
<1>3. CASE Sending(q) <= 1
  <2> HIDE DEF Sending
  <2> QED
    BY <1>1, <1>3
<1> QED
  BY <1>2, <1>3

LEMMA LeafShape ==
    ASSUME Typed, NEW q \in Leaf, Step(q) \/ Dies(q), LeafCloses(q)
    PROVE  LeafCloses(q)'
<1>0. script' = script /\ DOMAIN todo = Rank /\ q \in Rank /\ q # 0 /\ Leaf # {}
      /\ todo[q] \in Seq(LeafItem)
  BY LeafPlaces, Aside DEF Typed, RootInv, Harmless
<1>1. CASE Enter(q)
  BY <1>0, <1>1, Entered, LeafClosePlan DEF LeafCloses, Closes
<1>2. CASE ~Enter(q)
  <2>1. at' = at /\ (Closes(q)' <=> Closes(q))
    BY <1>0, <1>2, SameCall DEF Closes
  <2> SUFFICES ASSUME Closes(q)
               PROVE  LocalsIn(todo'[q], Leaving) /\ (todo'[q] = Plan(q, "close") \/ Sending(q)' <= 1)
    BY <2>1 DEF LeafCloses
  <2>2. LocalsIn(todo[q], Leaving) /\ (todo[q] = Plan(q, "close") \/ Sending(q) <= 1)
    BY DEF LeafCloses
  <2>3. LocalsIn(todo'[q], Leaving)
    BY <1>0, <1>2, <2>2, LocalsStep
  <2>4. CASE Halts(q)
    BY <2>2, <2>3, <2>4 DEF Halts, Sending
  <2>5. todo[q] # <<>> /\ todo'[q] \in {Tail(todo[q]), <<Drain(0)>> \o Tail(todo[q])}
        => Sending(q)' <= 1
    BY <1>0, <2>2, OneToSend
  <2>6. CASE Communicate(q)
    <3>1. todo[q] # <<>> /\ todo'[q] \in {Tail(todo[q]), <<Drain(0)>> \o Tail(todo[q])}
      BY <1>0, <2>6, Communicates DEF LeafPasses, LeafSends, LeafTakes
    <3> QED
      BY <2>3, <2>5, <3>1
  <2>7. ASSUME NEW w, Does(q, w) PROVE Sending(q)' <= 1
    <3>1. todo[q] # <<>> /\ todo'[q] = Tail(todo[q])
      BY <1>0, <2>7, DoesHead
    <3> QED
      BY <2>5, <3>1
  <2> QED
    BY <1>0, <1>2, <2>3, <2>4, <2>6, <2>7, OwnSteps
<1> QED
  BY <1>1, <1>2

(* What rank 0 saved is not written over. *)
LEMMA SavedHalts ==
    ASSUME Saved, Halts(0),
           todo[0] # <<>> /\ Head(todo[0]).do = "local" =>
             Head(todo[0]).what \notin {"prepare", "create", "save"}
    PROVE  Saved'
<1>1. Interrupted(0) = {disk}
  BY DEF Interrupted, Doing, At
<1>2. disk' \in {disk, Dropped(file[0])} /\ file' = file
  BY <1>1 DEF Halts
<1> QED
  BY <1>2 DEF Saved, Dropped

LEMMA LocalNames ==
    \A w : Local(w).do = "local" /\ Local(w).what = w
  BY DEF Local

LEMMA RootShape ==
    ASSUME Typed, Step(0) \/ Dies(0), RootCloses, Fielded(file[0])
    PROVE  RootCloses'
<1>0. /\ 0 \in Rank /\ script' = script /\ DOMAIN todo = Rank /\ DOMAIN file = Rank
      /\ Others \in Nat
  <2>1. 0 \in Rank /\ Others \in Nat
    BY CommAssumption DEF Rank, Others
  <2> QED
    BY <2>1, Aside
<1> DEFINE n == Others
<1>1. CASE Enter(0)
  <2>1. Closes(0)' => todo'[0] = Close(0)
    BY <1>0, <1>1, Entered, ClosePlan DEF Closes
  <2>2. Closes(0)' => Rest(todo'[0], 0)
    BY <2>1, RestFacts
  <2>3. 0 \in 0..(n + 3) /\ 0 # n + 3
    BY <1>0
  <2> QED
    BY <2>2, <2>3 DEF RootCloses
<1>2. CASE ~Enter(0)
  <2>1. at' = at /\ (Closes(0)' <=> Closes(0))
    BY <1>0, <1>2, SameCall DEF Closes
  <2> SUFFICES ASSUME Closes(0)
               PROVE  \/ \E j \in 0..(n + 3) : Rest(todo'[0], j) /\ (j = n + 3 => Saved')
                      \/ LocalsIn(todo'[0], Finishing) /\ Saved' /\ file'[0].readOnly
    BY <2>1 DEF RootCloses
  <2>2. ASSUME NEW j \in 0..(n + 3), Rest(todo[0], j), j = n + 3 => Saved
        PROVE  \/ \E i \in 0..(n + 3) : Rest(todo'[0], i) /\ (i = n + 3 => Saved')
               \/ LocalsIn(todo'[0], Finishing) /\ Saved' /\ file'[0].readOnly
    <3> DEFINE s == todo[0]
    <3>1. s # <<>> /\ Head(s) = Close(0)[j + 1] /\ Rest(Tail(s), j + 1)
      BY <2>2, RestFacts
    <3>2. /\ (j \in 0..(n - 1) /\ j + 1 \in 1..n) \/ j = n \/ j = n + 1 \/ j = n + 2 \/ j = n + 3
          /\ j + 1 \in 0..(n + 3) \/ j = n + 3
          /\ (n + 1) + 1 = n + 2 /\ (n + 2) + 1 = n + 3 /\ (n + 3) + 1 = n + 4
          /\ j + 1 = n + 3 => j = n + 2
      BY <1>0
    <3>3. /\ j + 1 \in 1..n => Head(s).do = "recv"
          /\ j = n => Head(s) = Local("merge")
          /\ j = n + 1 => Head(s) = Local("detach")
          /\ j = n + 2 => Head(s) = Local("save")
          /\ j = n + 3 => Head(s) = Local("seal")
      <4>1. j + 1 \in 1..n => Head(s) = Recv(j + 1)
        BY <3>1, ClosePlan
      <4> QED
        BY <3>1, <3>2, <4>1, ClosePlan DEF Recv
    <3>4. CASE Halts(0)
      <4>1. j = n + 3 => Saved'
        BY <2>2, <3>3, <3>4, LocalNames, SavedHalts
      <4> QED
        BY <2>2, <3>4, <4>1 DEF Halts
    <3>5. CASE Communicate(0)
      <4>1. Head(s).do # "local" /\ (Head(s).do # "send" => todo'[0] = Tail(s))
        BY <1>0, <3>5, Talks
      <4>2. j + 1 \in 1..n /\ todo'[0] = Tail(s)
        BY <3>2, <3>3, <4>1, LocalNames
      <4>3. j + 1 \in 0..(n + 3) /\ j + 1 # n + 3
        BY <1>0, <4>2
      <4> QED
        BY <3>1, <4>2, <4>3
    <3>6. ASSUME NEW w, Does(0, w)
          PROVE  \/ \E i \in 0..(n + 3) : Rest(todo'[0], i) /\ (i = n + 3 => Saved')
                 \/ LocalsIn(todo'[0], Finishing) /\ Saved' /\ file'[0].readOnly
      <4>1. Head(s).do = "local" /\ Head(s).what = w /\ todo'[0] = Tail(s)
        BY <1>0, <3>6, DoesHead
      <4>2. CASE j = n + 3
        <5>1. w = "seal"
          BY <3>3, <4>1, <4>2, LocalNames
        <5>2. disk' = disk /\ file'[0] = [file[0] EXCEPT !.readOnly = TRUE]
          BY <1>0, <3>6, <5>1 DEF Does, Seal
        <5>3. Model(file'[0]) = Model(file[0]) /\ file'[0].readOnly
          BY <5>2 DEF Fielded, HasFlags, Model
        <5>4. LocalsIn(todo'[0], Finishing)
          BY <3>1, <3>2, <4>1, <4>2, RestFacts
        <5> QED
          BY <2>2, <4>2, <5>2, <5>3, <5>4 DEF Saved
      <4>3. CASE j # n + 3
        <5>1. j + 1 \in 0..(n + 3) /\ Rest(todo'[0], j + 1)
          BY <3>1, <3>2, <4>1, <4>3
        <5>2. ASSUME j + 1 = n + 3 PROVE Saved'
          <6>1. w = "save"
            BY <3>2, <3>3, <4>1, <5>2, LocalNames
          <6>2. disk' = Whole(Model(file[0])) /\ file' = file
            BY <3>6, <6>1 DEF Does, Save
          <6> QED
            BY <6>2 DEF Saved
        <5> QED
          BY <5>1, <5>2
      <4> QED
        BY <4>2, <4>3
    <3> QED
      BY <1>0, <1>2, <3>4, <3>5, <3>6, OwnSteps
  <2>3. ASSUME LocalsIn(todo[0], Finishing), Saved, file[0].readOnly
        PROVE  LocalsIn(todo'[0], Finishing) /\ Saved' /\ file'[0].readOnly
    <3>1. /\ LocalsIn(todo'[0], Finishing)
          /\ \/ Communicate(0) /\ UNCHANGED <<file, disk, at>>
             \/ Halts(0)
             \/ \E w : Does(0, w) /\ Head(todo[0]) \in Finishing /\ Head(todo[0]).what = w
      BY <1>0, <1>2, <2>3, LocalsStep
    <3>2. CASE UNCHANGED <<file, disk, at>>
      BY <2>3, <3>1, <3>2 DEF Saved
    <3>3. CASE Halts(0)
      <4>1. todo[0] # <<>> /\ Head(todo[0]).do = "local" => Head(todo[0]) = Local("drop")
        <5>1. todo[0] # <<>> /\ Head(todo[0]).do = "local" => Head(todo[0]) \in Finishing
          BY <2>3, LocalsRest
        <5> QED
          BY <5>1 DEF Finishing
      <4>2. Saved'
        BY <2>3, <3>3, <4>1, LocalNames, SavedHalts
      <4> QED
        BY <2>3, <3>1, <3>3, <4>2 DEF Halts
    <3>4. ASSUME NEW w, Does(0, w), Head(todo[0]) \in Finishing, Head(todo[0]).what = w
          PROVE  Saved' /\ file'[0].readOnly
      <4>1. w = "drop"
        BY <3>4, LocalNames DEF Finishing
      <4>2. disk' = Dropped(file[0]) /\ file'[0] = [file[0] EXCEPT !.open = FALSE]
        BY <1>0, <3>4, <4>1 DEF Does, Drop
      <4>3. disk' = disk
        BY <2>3, <4>2 DEF Dropped
      <4>4. Model(file'[0]) = Model(file[0]) /\ file'[0].readOnly
        BY <2>3, <4>2 DEF Fielded, HasFlags, Model
      <4> QED
        BY <2>3, <4>3, <4>4 DEF Saved
    <3> QED
      BY <3>1, <3>2, <3>3, <3>4
  <2> QED
    BY <2>2, <2>3 DEF RootCloses
<1> QED
  BY <1>1, <1>2

LEMMA ShapeStep ==
    ASSUME Typed, ShapeInv, NEW r \in Rank, Step(r) \/ Dies(r)
    PROVE  ShapeInv'
<1>0. /\ script' = script /\ 0 \in Rank /\ \A q \in Leaf : q \in Rank
      /\ \A x \in Rank : x # r => at'[x] = at[x] /\ todo'[x] = todo[x] /\ file'[x] = file[x]
      /\ r # 0 => r \in Leaf /\ disk' = disk
  <2>1. 0 \in Rank /\ \A q \in Leaf : q \in Rank
    BY CommAssumption DEF Rank, Leaf
  <2> QED
    BY <2>1, Aside
<1>1. \A x \in Rank : x # r =>
        (Opens(x)' <=> Opens(x)) /\ (Closes(x)' <=> Closes(x)) /\ Sending(x)' = Sending(x)
  BY <1>0 DEF Opens, Closes, Sending
<1>2. ASSUME NEW x \in Rank PROVE Fielded(file[x])' /\ Plain(x)'
  <2>1. CASE x = r
    BY <2>1, FieldsStep, PlainStep DEF ShapeInv
  <2>2. CASE x # r
    <3>1. Fielded(file[x]) /\ Plain(x)
      BY DEF ShapeInv
    <3> QED
      BY <1>0, <1>1, <2>2, <3>1 DEF Plain, Begins
  <2> QED
    BY <2>1, <2>2
<1>3. ASSUME NEW q \in Leaf PROVE LeafCloses(q)'
  <2>1. LeafCloses(q)
    BY DEF ShapeInv
  <2>2. CASE q = r
    BY <2>1, <2>2, LeafShape
  <2>3. CASE q # r
    BY <1>0, <1>1, <2>1, <2>3 DEF LeafCloses
  <2> QED
    BY <2>2, <2>3
<1>4. RootCloses'
  <2>1. RootCloses /\ Fielded(file[0])
    BY <1>0 DEF ShapeInv
  <2>2. CASE r = 0
    BY <2>1, <2>2, RootShape
  <2>3. CASE r # 0
    BY <1>0, <1>1, <2>1, <2>3 DEF RootCloses, Saved
  <2> QED
    BY <2>2, <2>3
<1> QED
  BY <1>2, <1>3, <1>4 DEF ShapeInv

LEMMA ShapeInit ==
    ASSUME Init
    PROVE  ShapeInv
<1>1. \A r \in Rank : at[r] = 0 /\ file[r] = NoFile
  BY DEF Init
<1>2. Fielded(NoFile)
  BY DEF Fielded, HasFlags, Modelled, NoFile
<1>3. 0 \in Rank /\ \A q \in Leaf : q \in Rank
  BY CommAssumption DEF Rank, Leaf
<1> QED
  BY <1>1, <1>2, <1>3 DEF ShapeInv, Plain, LeafCloses, RootCloses, Closes

-----------------------------------------------------------------------------
(* What the ranks have of the chain.                                       *)

(* The call a rank has last done, the file of a rank that has done it, and *)
(* the log of one that has written since: its entries are for its row, and *)
(* the last one is what it has there.                                      *)
Done(r) == IF Quiet(todo[r]) THEN at[r] ELSE at[r] - 1

Holds(m, f, p) ==
    /\ f.name = m.name /\ f.dims = m.dims /\ DOMAIN f.data = DOMAIN m.data
    /\ p # "written" => f.data = m.data

Logs(m, f, q, p, L) ==
    IF p = "written"
    THEN /\ IsSeq(L) /\ Len(L) > 0
         /\ \A i \in 1..Len(L) : L[i].cells = Row(m.dims, q)
         /\ \A c \in Row(m.dims, q) \cap DOMAIN f.data : f.data[c] = L[Len(L)].value
    ELSE L = <<>>

Ready(m, f, r, p) ==
    p # "closed" => Holds(m, f, p) /\ (r # 0 => Logs(m, f, r, p, f.log))

RankBody(M, r) == ~Closes(r) => Ready(M[Done(r)], file[r], r, Ph(Done(r)))

(* A rank other than 0 in a close: its log is in its file, on the way,     *)
LeafBody(M, q) ==
    Closes(q) =>
      /\ Holds(M[at[q] - 1], file[q], Ph(at[q] - 1))
      /\ todo[q] = Plan(q, "close") => Logs(M[at[q] - 1], file[q], q, Ph(at[q] - 1), file[q].log)
      /\ \A i \in 1..Len(stream[<<q, 0>>]) : Taken(q) + i = UpTo(q)[at[q] - 1] + 1 =>
           \E L : /\ stream[<<q, 0>>][i] = <<L>>
                  /\ Logs(M[at[q] - 1], file[q], q, Ph(at[q] - 1), L)

(* or with rank 0, which merges the logs when it has them all.             *)
Collecting(m, p, j) ==
    /\ Rest(todo[0], j) /\ Holds(m, file[0], p) /\ IsSeq(got[0]) /\ Len(got[0]) = j
    /\ \A q \in 1..j : at[q] = at[0] /\ Logs(m, file[q], q, p, got[0][q])

Merged == {Local("detach"), Local("save"), Local("seal"), Local("drop")}
Collected(m) ==
    /\ LocalsIn(todo[0], Merged) /\ file[0].name = m.name /\ file[0].dims = m.dims
    /\ \A q \in Leaf :
         /\ at[q] >= at[0]
         /\ at[q] = at[0] => \A c \in Row(m.dims, q) : file[0].data[c] = file[q].data[c]

RootBody(M) ==
    Closes(0) => \/ \E j \in 0..Others : Collecting(M[at[0] - 1], Ph(at[0] - 1), j)
                 \/ Collected(M[at[0] - 1])

(* The file on disk, when rank 0 has closed it or not yet opened it.       *)
DiskBody ==
    Ph(Done(0)) = "closed" => ~file[0].open /\ (disk.st = "whole" => Sized(disk.model.dims))

BodyOf(M) ==
    /\ Chain(M) /\ RootBody(M)
    /\ \A r \in Rank : RankBody(M, r)
    /\ \A q \in Leaf : LeafBody(M, q)
BodyInv == Leaf # {} /\ Proper(script) => DiskBody /\ \E M : BodyOf(M)

LEMMA PhaseTable ==
    ASSUME script \in Scripts, Proper(script), NEW k \in 1..Len(script)
    PROVE  /\ script[k] = "create" => Ph(k - 1) = "closed" /\ Ph(k) = "bare"
           /\ script[k] = "open" => Ph(k - 1) = "closed" /\ Ph(k) = "clean"
           /\ script[k] = "dataset" => Ph(k - 1) = "bare" /\ Ph(k) = "clean"
           /\ script[k] \in {"resize", "rename", "recreate"} => Ph(k - 1) = "clean" /\ Ph(k) = "clean"
           /\ script[k] = "write" => Ph(k - 1) \in {"clean", "written"} /\ Ph(k) = "written"
           /\ script[k] = "close" => Ph(k - 1) \in {"clean", "written"} /\ Ph(k) = "closed"
           /\ script[k] = "prepare" => Ph(k - 1) = "closed" /\ Ph(k) = "closed"
           /\ script[k] \in Talking => Ph(k) = Ph(k - 1)
<1> DEFINE p == Ph(k - 1)
<1>1. Ph(k) = Moved(script[k], p) /\ Ph(k) # "wrong"
  <2>1. script \in Seq(Call)
    BY ScriptAssumption
  <2>2. k \in 0..Len(script)
    BY <2>1
  <2> QED
    BY <2>1, <2>2, PhaseSteps DEF Ph, Proper
<1> HIDE DEF p
<1>2. \A c : Moved(c, p) # "wrong" =>
        /\ c = "create" => p = "closed" /\ Moved(c, p) = "bare"
        /\ c = "open" => p = "closed" /\ Moved(c, p) = "clean"
        /\ c = "dataset" => p = "bare" /\ Moved(c, p) = "clean"
        /\ c \in {"resize", "rename", "recreate"} => p = "clean" /\ Moved(c, p) = "clean"
        /\ c = "write" => p \in {"clean", "written"} /\ Moved(c, p) = "written"
        /\ c = "close" => p \in {"clean", "written"} /\ Moved(c, p) = "closed"
        /\ c = "prepare" => p = "closed" /\ Moved(c, p) = "closed"
        /\ c \in Talking => Moved(c, p) = p
  BY DEF Moved, Talking
<1> QED
  BY <1>1, <1>2 DEF p

(* A step that is not local leaves as much to do. *)
LEMMA QuietSame ==
    ASSUME NEW s, IsSeq(s), s # <<>>, Head(s).do # "local"
    PROVE  /\ Quiet(Tail(s)) <=> Quiet(s)
           /\ Quiet(<<>> \o Tail(s)) <=> Quiet(s)
           /\ \A p : Quiet(<<Drain(p)>> \o Tail(s)) <=> Quiet(s)
<1> DEFINE t == Tail(s)
           l == Len(t)
<1>1. /\ IsSeq(t) /\ Len(s) = l + 1 /\ l \in Nat /\ Head(s) = s[1]
      /\ \A i \in 1..l : t[i] = s[i + 1]
  <2>1. /\ IsSeq(t) /\ l = Len(s) - 1 /\ Len(s) \in Nat /\ Len(s) # 0 /\ Head(s) = s[1]
        /\ \A i \in 1..Len(s) - 1 : t[i] = s[i + 1]
    BY SeqFacts
  <2> HIDE DEF l
  <2>2. Len(s) = l + 1 /\ l \in Nat
    BY <2>1
  <2>3. Len(s) - 1 = l
    BY <2>1
  <2> QED
    BY <2>1, <2>2, <2>3
<1>2. <<>> \o t = t
  <2>1. PICK S : t \in Seq(S)
    BY <1>1 DEF IsSeq
  <2> HIDE DEF t
  <2> QED
    BY <2>1, ConcatEmptySeq
<1> HIDE DEF t
<1>3. Quiet(t) <=> \A i \in 1..l : Quietly(t[i])
  BY DEF Quiet
<1>4. Quiet(s) <=> Quiet(t)
  <2> HIDE DEF l
  <2>1. Quietly(s[1])
    BY <1>1 DEF Quietly
  <2>2. \A i \in 1..l + 1 : i = 1 \/ (i - 1 \in 1..l /\ s[i] = t[i - 1])
    <3>1. \A i \in 1..l + 1 : i = 1 \/ (i - 1 \in 1..l /\ (i - 1) + 1 = i)
      BY <1>1
    <3> QED
      BY <1>1, <3>1
  <2>3. \A i \in 1..l : i + 1 \in 1..l + 1 /\ t[i] = s[i + 1]
    BY <1>1
  <2> QED
    BY <1>1, <1>3, <2>1, <2>2, <2>3 DEF Quiet
<1>5. ASSUME NEW p PROVE Quiet(<<Drain(p)>> \o t) <=> Quiet(t)
  <2> DEFINE d == <<Drain(p)>>
             u == d \o t
  <2>1. IsSeq(d) /\ Len(d) = 1 /\ d[1] = Drain(p)
    <3>1. d \in Seq({Drain(p)})
      OBVIOUS
    <3> QED
      BY <3>1 DEF IsSeq
  <2>2. Quietly(d[1])
    BY <2>1 DEF Quietly, Drain
  <2> HIDE DEF d
  <2>0. Len(u) = Len(d) + l /\ \A i \in 1..Len(d) + l : u[i] = IF i <= Len(d) THEN d[i] ELSE t[i - Len(d)]
    BY <1>1, <2>1, ConcatFacts
  <2>3. Len(u) = 1 + l /\ \A i \in 1..1 + l : u[i] = IF i <= 1 THEN d[i] ELSE t[i - 1]
    BY <2>0, <2>1
  <2> HIDE DEF u, l
  <2>4. \A i \in 1..1 + l : (i = 1 /\ u[i] = d[1]) \/ (i - 1 \in 1..l /\ u[i] = t[i - 1])
    BY <1>1, <2>3
  <2>5. \A i \in 1..l : i + 1 \in 1..1 + l /\ u[i + 1] = t[i]
    <3>1. \A i \in 1..l : i + 1 \in 1..1 + l /\ ~(i + 1 <= 1) /\ (i + 1) - 1 = i
      BY <1>1
    <3> QED
      BY <2>3, <3>1
  <2>6. Quiet(u) <=> Quiet(t)
    BY <1>3, <2>2, <2>3, <2>4, <2>5 DEF Quiet
  <2> QED
    BY <2>6 DEF u, d
<1> QED
  BY <1>2, <1>4, <1>5 DEF t

LEMMA TodoSeq ==
    ASSUME Typed, Leaf # {}, NEW r \in Rank
    PROVE  IsSeq(todo[r]) /\ (r # 0 => r \in Leaf) /\ (at[r] = 0 => todo[r] = <<>>)
<1>1. r = 0 \/ r \in Leaf
  BY CommAssumption DEF Rank, Leaf
<1> QED
  BY <1>1 DEF Typed, RootInv, Harmless, IsSeq

LEMMA TalkQuiet ==
    ASSUME Typed, Leaf # {}, NEW r \in Rank, Communicate(r)
    PROVE  /\ Quiet(todo'[r]) <=> Quiet(todo[r])
           /\ todo[r] # <<>> /\ Head(todo[r]).do # "local" /\ UNCHANGED <<file, disk, at, script>>
<1>1. DOMAIN todo = Rank
  BY DEF Typed, RootInv
<1>2. /\ todo[r] # <<>> /\ Head(todo[r]).do # "local" /\ UNCHANGED <<file, disk, at, script>>
      /\ \/ todo'[r] = Tail(todo[r])
         \/ todo'[r] = <<>> \o Tail(todo[r])
         \/ \E p : todo'[r] = <<Drain(p)>> \o Tail(todo[r])
  BY <1>1, Talks
<1> DEFINE s == todo[r]
<1>3. IsSeq(s)
  BY TodoSeq
<1>4. /\ Quiet(Tail(s)) <=> Quiet(s)
      /\ Quiet(<<>> \o Tail(s)) <=> Quiet(s)
      /\ \A p : Quiet(<<Drain(p)>> \o Tail(s)) <=> Quiet(s)
  <2>1. s # <<>> /\ Head(s).do # "local"
    BY <1>2
  <2> HIDE DEF s
  <2> QED
    BY <1>3, <2>1, QuietSame
<1> QED
  BY <1>2, <1>4, Zenon

(* The steps within a call other than a close. *)
Stays(r) ==
    /\ Quiet(todo'[r]) <=> Quiet(todo[r])
    /\ UNCHANGED <<file, disk>>
Attaches(r) ==
    /\ Quiet(todo[r]) /\ Quiet(todo'[r]) /\ script[at[r]] \in {"create", "open"}
    /\ file'[r] = Attached(file[r]) /\ disk' = disk
Acts(r) ==
    /\ ~Quiet(todo[r]) /\ Quiet(todo'[r]) /\ script[at[r]] \in Acting
    /\ Does(r, script[at[r]])
Loads(r) ==
    /\ ~Quiet(todo[r]) /\ Quiet(todo'[r]) /\ Opens(r) /\ Load(r)
    /\ r = 0 => todo[0] = Open(0)
    /\ r # 0 => todo[r] = <<Local("load"), Local("attach"), Send(0, "nothing"), Recv(0)>>

LEMMA QuietAttach ==
    ASSUME NEW s, IsSeq(s), s # <<>>, Quiet(s)
    PROVE  Quiet(Tail(s)) /\ (Head(s).do = "local" => Head(s) = Local("attach"))
<1>1. PICK S : s \in Seq(S)
  BY DEF IsSeq
<1> QED
  BY <1>1, QuietRest

LEMMA AttachStep ==
    ASSUME Typed, NEW r \in Rank, NEW w, Does(r, w), Head(todo[r]) = Local("attach")
    PROVE  file'[r] = Attached(file[r]) /\ disk' = disk
<1>1. DOMAIN file = Rank /\ DOMAIN todo = Rank
  BY DEF Typed, RootInv
<1>2. w = "attach"
  BY <1>1, DoesHead, LocalNames
<1> QED
  BY <1>1, <1>2 DEF Does, Attach, Attached

LEMMA WithinCall ==
    ASSUME Typed, OpenInv, ShapeInv, Leaf # {}, NEW r \in Rank, Step(r) \/ Dies(r), ~Enter(r),
           at[r] > 0, ~Closes(r)
    PROVE  at' = at /\ (Stays(r) \/ Halts(r) \/ Attaches(r) \/ Acts(r) \/ Loads(r))
<1> DEFINE call == script[at[r]]
           s == todo[r]
<1>0. at' = at /\ DOMAIN todo = Rank /\ IsSeq(s) /\ (r # 0 => r \in Leaf)
  BY SameCall, TodoSeq DEF Typed, RootInv
<1>1. CASE Communicate(r)
  BY <1>0, <1>1, TalkQuiet DEF Stays
<1>2. CASE Halts(r)
  BY <1>0, <1>2
<1>3. ASSUME NEW w, Does(r, w) PROVE Attaches(r) \/ Acts(r) \/ Loads(r)
  <2>1. s # <<>> /\ Head(s).do = "local" /\ Head(s).what = w /\ todo'[r] = Tail(s)
    BY <1>0, <1>3, DoesHead
  <2>2. ASSUME Quiet(s), call \in {"create", "open"} PROVE Attaches(r)
    <3>1. Quiet(Tail(s)) /\ Head(s) = Local("attach")
      <4> HIDE DEF s
      <4> QED
        BY <1>0, <2>1, <2>2, QuietAttach
    <3> QED
      BY <1>3, <2>1, <2>2, <3>1, AttachStep DEF Attaches
  <2>3. CASE Opens(r)
    <3>1. call = "open" /\ OpenState(r)
      BY <2>3 DEF Opens, OpenInv
    <3>2. CASE Quiet(s)
      BY <2>2, <3>1, <3>2
    <3>3. CASE ~Quiet(s) /\ r = 0
      <4>1. s = Open(0)
        BY <2>3, <3>1, <3>3 DEF OpenState
      <4>2. Head(s) = Local("load") /\ Quiet(Tail(s))
        BY <4>1, RootOpens
      <4>3. w = "load"
        BY <2>1, <4>2, LocalNames
      <4>4. Load(r)
        BY <1>3, <4>3 DEF Does
      <4> QED
        BY <2>1, <2>3, <3>3, <4>1, <4>2, <4>4 DEF Loads
    <3>4. CASE ~Quiet(s) /\ r # 0
      <4>1. s \in Unloaded
        BY <2>3, <3>1, <3>4 DEF OpenState
      <4>2. /\ Head(s) = Local("load")
            /\ s = <<Local("load"), Local("attach"), Send(0, "nothing"), Recv(0)>>
        BY <2>1, <4>1, UnloadedRest
      <4>3. w = "load"
        BY <2>1, <4>2, LocalNames
      <4>4. Load(r)
        BY <1>3, <4>3 DEF Does
      <4>5. Quiet(Tail(s))
        <5>1. Tail(s) = <<Local("attach"), Send(0, "nothing"), Recv(0)>>
          BY <4>2
        <5>2. Quietly(Local("attach")) /\ Quietly(Send(0, "nothing")) /\ Quietly(Recv(0))
          BY DEF Quietly, Send, Recv
        <5>3. Quiet(<<Local("attach"), Send(0, "nothing"), Recv(0)>>)
          BY <5>2 DEF Quiet
        <5> QED
          BY <5>1, <5>3
      <4> QED
        BY <2>1, <2>3, <3>4, <4>2, <4>4, <4>5 DEF Loads
    <3> QED
      BY <3>2, <3>3, <3>4
  <2>4. CASE ~Opens(r)
    <3>1. Begins(r) \/ LocalsIn(s, Remaining(call))
      BY <2>4 DEF ShapeInv, Plain
    <3>2. CASE Begins(r)
      <4>1. Head(s) = Local(call) /\ ~Quiet(s) /\ LocalsIn(Tail(s), Remaining(call)) /\ call \in Acting
        BY <3>2, ActingPlans DEF Begins
      <4>2. w = call
        BY <2>1, <4>1, LocalNames
      <4>3. Quiet(Tail(s))
        <5>1. LocalsIn(Tail(s), Attaching)
          BY <4>1, LocalsQuiet DEF Remaining
        <5> QED
          BY <5>1, LocalsQuiet
      <4> QED
        BY <1>3, <2>1, <4>1, <4>2, <4>3 DEF Acts
    <3>3. CASE LocalsIn(s, Remaining(call))
      <4>1. Head(s) \in Remaining(call)
        <5> HIDE DEF s
        <5> QED
          BY <2>1, <3>3, LocalsRest
      <4>2. call = "create" /\ Remaining(call) = Attaching
        BY <4>1 DEF Remaining
      <4>3. Quiet(s)
        BY <3>3, <4>2, LocalsQuiet
      <4> QED
        BY <2>2, <4>2, <4>3
    <3> QED
      BY <3>1, <3>2, <3>3
  <2> QED
    BY <2>3, <2>4
<1> QED
  BY <1>0, <1>1, <1>2, <1>3, OwnSteps

(* A call changes the file of a rank as the chain goes on.                 *)
Follows(call, p, p2) ==
    /\ call = "create" => p2 = "bare"
    /\ call = "dataset" => p = "bare" /\ p2 = "clean"
    /\ call \in {"resize", "rename", "recreate"} => p = "clean" /\ p2 = "clean"
    /\ call = "write" => p \in {"clean", "written"} /\ p2 = "written"
    /\ call = "prepare" => p2 = "closed"

LEMMA ActsReady ==
    ASSUME Typed, NEW r \in Rank, Fielded(file[r]), NEW call \in Acting, Does(r, call),
           NEW m, NEW p, NEW p2, Follows(call, p, p2), Ready(m, file[r], r, p)
    PROVE  Ready(After(call, m), file'[r], r, p2)
<1>0. DOMAIN file = Rank
  BY DEF Typed, RootInv
<1>1. /\ {"name", "dims", "data", "log"} \subseteq DOMAIN file[r]
  BY DEF Fielded, Modelled
<1>2. CASE call = "create"
  <2>1. file'[r] = FileOf(Empty) /\ p2 = "bare" /\ After(call, m) = Empty
    BY <1>0, <1>2 DEF Does, Create, Follows, After
  <2>2. /\ FileOf(Empty).name = Empty.name /\ FileOf(Empty).dims = Empty.dims
        /\ FileOf(Empty).data = Empty.data /\ FileOf(Empty).log = <<>>
    BY DEF FileOf, Empty
  <2> QED
    BY <2>1, <2>2 DEF Ready, Holds, Logs
<1>3. CASE call = "prepare"
  BY <1>3 DEF Follows, Ready
<1>4. CASE call \in {"dataset", "resize", "rename", "recreate"}
  <2> DEFINE n == After(call, m)
             f == file[r]
             g == file'[r]
  <2>1. p \in {"bare", "clean"} /\ p2 = "clean"
    BY <1>4 DEF Follows
  <2>2. f.name = m.name /\ f.dims = m.dims /\ f.data = m.data /\ (r # 0 => f.log = <<>>)
    BY <2>1 DEF Ready, Holds, Logs
  <2>3. g.name = n.name /\ g.dims = n.dims /\ g.data = n.data /\ g.log = f.log
    <3>1. CASE call = "dataset"
      <4>1. g = [f EXCEPT !.name = "d", !.dims = Shape, !.data = Filled(Shape, Zero)]
        BY <1>0, <3>1 DEF Does, Dataset
      <4> HIDE DEF f, g
      <4>2. g.name = "d" /\ g.dims = Shape /\ g.data = Filled(Shape, Zero) /\ g.log = f.log
        BY <1>1, <4>1 DEF f
      <4> QED
        BY <3>1, <4>2 DEF After
    <3>2. CASE call = "resize"
      <4> DEFINE x == [f EXCEPT !.dims = Wider, !.data = Reshaped(@, f.dims, Wider, Zero)]
      <4>0. file' = [file EXCEPT ![r] = x]
        BY <3>2 DEF Does, Resize
      <4>1. g = x
        <5> HIDE DEF x
        <5> QED
          BY <1>0, <4>0
      <4> HIDE DEF f, g
      <4>2. /\ g.name = f.name /\ g.dims = Wider /\ g.data = Reshaped(f.data, f.dims, Wider, Zero)
            /\ g.log = f.log
        BY <1>1, <4>1 DEF f
      <4> QED
        BY <2>2, <3>2, <4>2 DEF After
    <3>3. CASE call = "rename"
      <4>1. g = [f EXCEPT !.name = Other(@)]
        BY <1>0, <3>3 DEF Does, Rename
      <4> HIDE DEF f, g
      <4>2. g.name = Other(f.name) /\ g.dims = f.dims /\ g.data = f.data /\ g.log = f.log
        BY <1>1, <4>1 DEF f
      <4> QED
        BY <2>2, <3>3, <4>2 DEF After
    <3>4. CASE call = "recreate"
      <4>1. g = [f EXCEPT !.data = Filled(f.dims, Zero)]
        BY <1>0, <3>4 DEF Does, Recreate
      <4> HIDE DEF f, g
      <4>2. g.name = f.name /\ g.dims = f.dims /\ g.data = Filled(f.dims, Zero) /\ g.log = f.log
        BY <1>1, <4>1 DEF f
      <4> QED
        BY <2>2, <3>4, <4>2 DEF After
    <3> QED
      BY <1>4, <3>1, <3>2, <3>3, <3>4
  <2> HIDE DEF n
  <2>4. Ready(n, g, r, p2)
    BY <2>1, <2>2, <2>3 DEF Ready, Holds, Logs
  <2> QED
    BY <2>4 DEF n
<1>5. CASE call = "write"
  <2> DEFINE f == file[r]
             g == file'[r]
             e == Entry(r)
             R == Row(m.dims, r)
             L == f.log
  <2>1. p \in {"clean", "written"} /\ p2 = "written" /\ After(call, m) = m
    BY <1>5 DEF Follows, After
  <2>2. /\ f.name = m.name /\ f.dims = m.dims /\ DOMAIN f.data = DOMAIN m.data
        /\ r # 0 => Logs(m, f, r, p, L)
    BY <2>1 DEF Ready, Holds
  <2>3. e.cells = R
    BY <2>2 DEF Entry
  <2> DEFINE x == [f EXCEPT !.data = Apply(@, e), !.log = IF r = 0 THEN @ ELSE Append(@, e)]
  <2>0. file' = [file EXCEPT ![r] = x]
    BY <1>5 DEF Does, Write
  <2>4. g = x
    <3> HIDE DEF x
    <3> QED
      BY <1>0, <2>0
  <2> HIDE DEF e, f, g
  <2>5. /\ g.name = f.name /\ g.dims = f.dims /\ g.data = Apply(f.data, e)
        /\ r # 0 => g.log = Append(f.log, e)
    BY <1>1, <2>4 DEF f
  <2>6. /\ DOMAIN g.data = DOMAIN f.data
        /\ \A c \in R \cap DOMAIN g.data : g.data[c] = e.value
    BY <2>3, <2>5 DEF Apply
  <2>7. ASSUME r # 0
        PROVE  /\ IsSeq(g.log) /\ Len(g.log) > 0 /\ g.log[Len(g.log)] = e
               /\ \A i \in 1..Len(g.log) : g.log[i].cells = R
    <3>1. IsSeq(L) /\ \A i \in 1..Len(L) : L[i].cells = R
      <4>1. CASE p = "clean"
        <5>1. L = <<>>
          BY <2>2, <2>7, <4>1 DEF Logs
        <5>2. <<>> \in Seq({}) /\ Len(<<>>) = 0
          OBVIOUS
        <5> HIDE DEF L
        <5> QED
          BY <5>1, <5>2 DEF IsSeq
      <4>2. CASE p = "written"
        BY <2>2, <2>7, <4>2 DEF Logs
      <4> QED
        BY <2>1, <4>1, <4>2
    <3>2. /\ Len(L) \in Nat /\ IsSeq(Append(L, e)) /\ Len(Append(L, e)) = Len(L) + 1
          /\ \A i \in 1..Len(L) + 1 : Append(L, e)[i] = IF i <= Len(L) THEN L[i] ELSE e
      BY <3>1, SeqFacts
    <3>3. g.log = Append(L, e)
      BY <2>5, <2>7
    <3> DEFINE N == Append(L, e)
               l == Len(L)
    <3> HIDE DEF N, L, R
    <3>4. /\ IsSeq(N) /\ Len(N) = l + 1 /\ l \in Nat
          /\ \A i \in 1..l + 1 : N[i] = IF i <= l THEN L[i] ELSE e
      BY <3>2 DEF N
    <3>5. N[l + 1] = e /\ l + 1 > 0
      <4>1. l + 1 \in 1..l + 1 /\ ~(l + 1 <= l) /\ l + 1 > 0
        BY <3>4
      <4> QED
        BY <3>4, <4>1
    <3>6. \A i \in 1..l + 1 : N[i].cells = R
      <4>1. \A i \in 1..l + 1 : ~(i <= l) \/ i \in 1..l
        BY <3>4
      <4> QED
        BY <2>3, <3>1, <3>4, <4>1
    <3> QED
      BY <3>3, <3>4, <3>5, <3>6 DEF N
  <2>8. Holds(m, g, p2)
    BY <2>1, <2>2, <2>5, <2>6 DEF Holds
  <2>9. r # 0 => Logs(m, g, r, p2, g.log)
    <3> SUFFICES ASSUME r # 0 PROVE Logs(m, g, r, p2, g.log)
      OBVIOUS
    <3>1. \A c \in R \cap DOMAIN g.data : g.data[c] = g.log[Len(g.log)].value
      BY <2>6, <2>7
    <3> QED
      BY <2>1, <2>7, <3>1 DEF Logs
  <2> QED
    BY <2>1, <2>8, <2>9 DEF Ready, g
<1> QED
  BY <1>2, <1>3, <1>4, <1>5 DEF Acting

(* What only marks the file keeps what it holds. *)
Alters(f, g) ==
    /\ g.name = f.name /\ g.dims = f.dims /\ g.data = f.data

LEMMA SameHolds ==
    ASSUME NEW m, NEW p, NEW f, NEW g, Alters(f, g)
    PROVE  /\ Holds(m, f, p) => Holds(m, g, p)
           /\ \A q, L : Logs(m, f, q, p, L) => Logs(m, g, q, p, L)
  BY DEF Alters, Holds, Logs

LEMMA AttachedReady ==
    ASSUME NEW m, NEW p, NEW f, Fielded(f), p \in {"bare", "clean"}, NEW r, Ready(m, f, r, p)
    PROVE  Ready(m, Attached(f), r, p)
<1> DEFINE g == Attached(f)
<1>1. g.name = f.name /\ g.dims = f.dims /\ g.data = f.data /\ g.log = <<>>
  BY DEF Attached, Fielded, HasFlags, Modelled
<1> HIDE DEF g
<1>2. Ready(m, g, r, p)
  BY <1>1 DEF Ready, Holds, Logs
<1> QED
  BY <1>2 DEF g

LEMMA LoadedReady ==
    ASSUME NEW m, NEW b, m.name = b.name, m.dims = b.dims, m.data = b.data, NEW r
    PROVE  Ready(m, FileOf(b), r, "clean")
<1>1. /\ FileOf(b).name = b.name /\ FileOf(b).dims = b.dims /\ FileOf(b).data = b.data
      /\ FileOf(b).log = <<>>
  BY DEF FileOf
<1> QED
  BY <1>1 DEF Ready, Holds, Logs

(* A rank that has returned. *)
LEMMA ReturnedReady ==
    ASSUME Typed, Proper(script), NEW r \in Rank, todo[r] = <<>>, NEW M, RankBody(M, r)
    PROVE  Ready(M[at[r]], file[r], r, Ph(at[r]))
<1>1. Done(r) = at[r]
  <2>1. Len(<<>>) = 0
    OBVIOUS
  <2>2. Quiet(<<>>)
    BY <2>1 DEF Quiet
  <2> QED
    BY <2>2 DEF Done
<1>2. CASE ~Closes(r)
  BY <1>1, <1>2 DEF RankBody
<1>3. CASE Closes(r)
  <2>1. script \in Scripts /\ at[r] \in 1..Len(script)
    <3>1. script \in Scripts /\ at[r] \in Nat /\ at[r] <= Len(script) /\ at[r] > 0
      BY <1>3 DEF Typed, RootInv, Closes
    <3>2. Len(script) \in Nat
      BY <3>1, ScriptAssumption
    <3> QED
      BY <3>1, <3>2
  <2>2. Ph(at[r]) = "closed"
    BY <1>3, <2>1, PhaseTable DEF Closes
  <2> QED
    BY <2>2 DEF Ready
<1> QED
  BY <1>2, <1>3

LEMMA EnterRank ==
    ASSUME Typed, Leaf # {}, Proper(script), NEW r \in Rank, Enter(r), NEW M, Chain(M), RankBody(M, r)
    PROVE  RankBody(M, r)'
<1> DEFINE k == at[r]
           call == script[k + 1]
<1>1. /\ k + 1 \in 1..Len(script) /\ call \in Call /\ at'[r] = k + 1 /\ todo'[r] = Plan(r, call)
      /\ todo[r] = <<>> /\ script' = script /\ file' = file /\ k \in Nat /\ script \in Scripts
      /\ (k + 1) - 1 = k
  <2>1. k \in Nat /\ script \in Scripts
    BY DEF Typed, RootInv
  <2>2. (k + 1) - 1 = k
    BY <2>1
  <2> QED
    BY <2>1, <2>2, Entered
<1>2. Ready(M[k], file[r], r, Ph(k))
  BY <1>1, ReturnedReady
<1>3. CASE Closes(r)'
  BY <1>3 DEF RankBody
<1>4. CASE ~Quiet(todo'[r])
  <2>1. Done(r)' = k
    BY <1>1, <1>4 DEF Done
  <2> QED
    BY <1>1, <1>2, <2>1 DEF RankBody, Ph
<1>5. CASE Quiet(todo'[r]) /\ ~Closes(r)'
  <2>1. Done(r)' = k + 1
    BY <1>1, <1>5 DEF Done
  <2>2. call # "close"
    BY <1>1, <1>5 DEF Closes
  <2>3. call # "open"
    BY <1>1, <1>5, OpenEnters DEF Opened, Opens
  <2>4. ~(call \in Acting /\ (r = 0 \/ call # "prepare"))
    BY <1>1, <1>5, ActingPlans
  <2>5. call \in Talking \/ call = "prepare"
    BY <1>1, <2>2, <2>3, <2>4 DEF Call, Talking, Acting
  <2>6. Ready(M[k + 1], file[r], r, Ph(k + 1))
    <3>1. CASE call = "prepare"
      <4>1. Ph(k + 1) = "closed"
        BY <1>1, <3>1, PhaseTable
      <4> QED
        BY <4>1 DEF Ready
    <3>2. CASE call \in Talking
      <4>1. Ph(k + 1) = Ph(k)
        BY <1>1, <3>2, PhaseTable
      <4>2. M[k + 1] = M[k]
        <5>1. M[k + 1] = After(call, M[k])
          BY <1>1, <2>3 DEF Chain, ChainTo
        <5> QED
          BY <3>2, <5>1 DEF After, Talking
      <4> QED
        BY <1>2, <4>1, <4>2
    <3> QED
      BY <2>5, <3>1, <3>2
  <2> QED
    BY <1>1, <2>1, <2>6 DEF RankBody, Ph
<1> QED
  BY <1>3, <1>4, <1>5

(* A rank goes on with a call, unless it loads. *)
LEMMA OwnRank ==
    ASSUME Typed, OpenInv, ShapeInv, Leaf # {}, Proper(script), NEW r \in Rank,
           Step(r) \/ Dies(r), ~Loads(r), NEW M, Chain(M), RankBody(M, r)
    PROVE  RankBody(M, r)'
<1> DEFINE k == at[r]
           f == file[r]
<1>0. script' = script /\ k \in Nat /\ script \in Scripts
  BY Aside DEF Typed, RootInv
<1>1. CASE Enter(r)
  BY <1>1, EnterRank
<1>2. CASE ~Enter(r) /\ k > 0 /\ Closes(r)
  <2>1. Closes(r)'
    BY <1>0, <1>2, SameCall DEF Closes
  <2> QED
    BY <2>1 DEF RankBody
<1>3. ASSUME at' = at, Quiet(todo'[r]) <=> Quiet(todo[r]), file' = file
      PROVE  RankBody(M, r)'
  <2>1. Done(r)' = Done(r) /\ (Closes(r)' <=> Closes(r))
    BY <1>0, <1>3 DEF Done, Closes
  <2> QED
    BY <1>0, <1>3, <2>1 DEF RankBody, Ph
<1>4. CASE Halts(r)
  BY <1>3, <1>4 DEF Halts
<1>5. CASE ~Enter(r) /\ k > 0 /\ ~Closes(r)
  <2>1. at' = at /\ (Stays(r) \/ Halts(r) \/ Attaches(r) \/ Acts(r))
    BY <1>5, WithinCall
  <2>2. k \in 1..Len(script) /\ k \in Int
    <3>1. k <= Len(script)
      BY DEF Typed, RootInv
    <3>2. Len(script) \in Nat
      BY <1>0, ScriptAssumption
    <3> QED
      BY <1>0, <1>5, <3>1, <3>2
  <2>3. CASE Stays(r)
    BY <1>3, <2>1, <2>3 DEF Stays
  <2>4. CASE Attaches(r)
    <3>1. Done(r) = k /\ Done(r)' = k /\ ~Closes(r)'
      BY <1>0, <1>5, <2>1, <2>4 DEF Done, Attaches, Closes
    <3>2. Ready(M[k], f, r, Ph(k))
      BY <1>5, <3>1 DEF RankBody
    <3>3. Ph(k) \in {"bare", "clean"}
      BY <1>0, <2>2, <2>4, PhaseTable DEF Attaches
    <3>4. Fielded(f)
      BY DEF ShapeInv
    <3>5. Ready(M[k], file'[r], r, Ph(k))
      BY <2>4, <3>2, <3>3, <3>4, AttachedReady DEF Attaches
    <3> QED
      BY <1>0, <3>1, <3>5 DEF RankBody, Ph
  <2>5. CASE Acts(r)
    <3> DEFINE call == script[k]
    <3>1. Done(r) = k - 1 /\ Done(r)' = k /\ ~Closes(r)' /\ call \in Acting /\ Does(r, call)
      BY <1>0, <1>5, <2>1, <2>5 DEF Done, Acts, Closes
    <3>2. Ready(M[k - 1], f, r, Ph(k - 1))
      BY <1>5, <3>1 DEF RankBody
    <3>3. Follows(call, Ph(k - 1), Ph(k))
      BY <1>0, <2>2, PhaseTable DEF Follows
    <3>4. M[k] = After(call, M[k - 1])
      <4>1. call # "open"
        BY <3>1 DEF Acting
      <4> QED
        BY <2>2, <4>1 DEF Chain, ChainTo
    <3>5. Fielded(f)
      BY DEF ShapeInv
    <3> HIDE DEF call
    <3>6. Ready(After(call, M[k - 1]), file'[r], r, Ph(k))
      BY <3>1, <3>2, <3>3, <3>5, ActsReady
    <3> QED
      BY <1>0, <3>1, <3>4, <3>6 DEF RankBody, Ph
  <2> QED
    BY <1>4, <2>1, <2>3, <2>4, <2>5
<1>6. CASE ~Enter(r) /\ k = 0
  <2>1. todo[r] = <<>> /\ DOMAIN todo = Rank
    BY <1>6, TodoSeq DEF Typed, RootInv
  <2>2. ~Communicate(r) /\ \A w : ~Does(r, w)
    BY <2>1, Talks, DoesHead
  <2> QED
    BY <1>4, <1>6, <2>2, OwnSteps
<1> QED
  BY <1>0, <1>1, <1>2, <1>5, <1>6

-----------------------------------------------------------------------------
(* Steps of a rank other than 0.                                           *)

LEMMA LeafStays ==
    ASSUME NEW q \in Leaf, script' = script, at'[q] = at[q], todo'[q] = todo[q],
           file'[q] = file[q], stream'[<<q, 0>>] = stream[<<q, 0>>],
           NEW M, NEW N, Closes(q) => N[at[q] - 1] = M[at[q] - 1], LeafBody(M, q)
    PROVE  LeafBody(N, q)'
<1>1. (Closes(q)' <=> Closes(q)) /\ Taken(q)' = Taken(q) /\ UpTo(q)' = UpTo(q)
  BY DEF Closes, Taken, UpSent, UpTo, Sending
<1> QED
  BY <1>1 DEF LeafBody, Ph

(* One that loads finds what rank 0 has. *)
LEMMA LeafLoadRank ==
    ASSUME Typed, CountInv, OpenInv, Leaf # {}, Proper(script), NEW q \in Leaf, Loads(q),
           Step(q) \/ Dies(q), ~Enter(q), NEW M, RankBody(M, 0)
    PROVE  RankBody(M, q)'
<1> DEFINE k == at[q]
<1>0. /\ q \in Rank /\ q # 0 /\ at' = at /\ script' = script /\ script \in Scripts
      /\ DOMAIN file = Rank /\ k \in 1..Len(script) /\ script[k] = "open"
  <2>1. q \in Rank /\ q # 0 /\ at' = at /\ script' = script /\ script \in Scripts
        /\ DOMAIN file = Rank /\ script[k] = "open" /\ k \in Nat /\ k > 0 /\ k <= Len(script)
    BY LeafPlaces, SameCall, Aside DEF Typed, RootInv, Loads, Opens
  <2>2. Len(script) \in Nat
    BY <2>1, ScriptAssumption
  <2> QED
    BY <2>1, <2>2
<1>1. at[0] = k /\ Opened(0) /\ Model(file[0]) = Model(disk.model)
  <2>1. Opens(q) /\ todo[q] = <<Local("load"), Local("attach"), Send(0, "nothing"), Recv(0)>>
    BY <1>0 DEF Loads
  <2>2. 0 \in Rank
    BY LeafPlaces
  <2>3. at[0] = k /\ Opened(0)
    BY <2>1, LeafLoads
  <2>4. \A x \in Rank : Opened(x) /\ at[x] = at[q] => Model(file[x]) = Model(disk.model)
    BY <2>1, LeafLoads
  <2> QED
    BY <2>2, <2>3, <2>4
<1>2. Done(0) = k /\ ~Closes(0) /\ Ph(k) = "clean"
  BY <1>0, <1>1, PhaseTable DEF Done, Opened, Closes
<1>3. Holds(M[k], file[0], "clean")
  BY <1>2 DEF RankBody, Ready
<1>4. /\ M[k].name = disk.model.name /\ M[k].dims = disk.model.dims
      /\ M[k].data = disk.model.data
  BY <1>1, <1>3 DEF Holds, Model
<1>5. file'[q] = FileOf(disk.model) /\ Done(q)' = k /\ ~Closes(q)'
  BY <1>0 DEF Loads, Load, Done, Closes
<1>6. Ready(M[k], FileOf(disk.model), q, "clean")
  BY <1>4, LoadedReady
<1> QED
  BY <1>0, <1>2, <1>5, <1>6 DEF RankBody, Ph

(* Rank 0 keeps everybody in a close until it has saved and sealed the file. *)
LEMMA HoldingOn ==
    ASSUME Typed, CountInv, Closes(0), NEW j \in 0..(Others + 3), Rest(todo[0], j), NEW q \in Leaf
    PROVE  at[q] <= at[0] /\ (at[q] = at[0] => todo[q] # <<>>)
<1> DEFINE s == todo[0]
           n == Others
           C == Close(0)
           i == n + 4 + q - j
<1>1. n \in Nat /\ q \in 1..n /\ j \in 0..(n + 3)
  BY CommAssumption DEF Others, Leaf
<1>2. Len(C) \in Nat /\ Len(C) >= n + 5 + n /\ C[n + 4 + q] = Recv(q)
  BY <1>1, ClosePlan
<1>3. Len(s) = Len(C) - j /\ \A x \in 1..Len(s) : s[x] = C[j + x]
  BY DEF Rest
<1> HIDE DEF n, C
<1>4. i \in 1..Len(s) /\ j + i = n + 4 + q /\ i \in Int
  BY <1>1, <1>2, <1>3
<1>5. s[i] \in Taking
  BY <1>2, <1>3, <1>4 DEF Taking
<1>6. Followed(s)
  BY DEF CountInv, Closes, Synchronizes
<1> HIDE DEF i
<1>7. PICK x \in (i + 1)..Len(s) : s[x] \in Sends(q)
  BY <1>4, <1>5, <1>6 DEF Followed
<1>8. x \in 1..Len(s)
  BY <1>4
<1>9. Releasing(q) # 0
  <2>1. s \in Seq(RootItem)
    BY DEF Typed
  <2> HIDE DEF s
  <2>2. Count(s, Sends(q)) # 0
    BY <1>7, <1>8, <2>1, CountNat
  <2> QED
    BY <2>2 DEF Releasing, s
<1>10. at[0] \in 1..Len(script) /\ at[q] \in 0..Len(script)
  <2>1. at[0] \in 0..Len(script) /\ at[q] \in 0..Len(script) /\ at[0] > 0
    BY Numbers DEF Closes
  <2> QED
    BY <2>1
<1>11. script[at[0]] \in Synchronizes /\ at[0] \in Int /\ at[q] \in Int
  BY <1>10 DEF Closes, Synchronizes
<1>12. ~Returned(q, at[0])
  BY <1>9, <1>10, <1>11, ReleasedByRoot
<1> QED
  BY <1>11, <1>12 DEF Returned

LEMMA Holding ==
    ASSUME Typed, CountInv, Closes(0), NEW j \in 0..Others, Rest(todo[0], j), NEW q \in Leaf
    PROVE  at[q] <= at[0] /\ (at[q] = at[0] => todo[q] # <<>>)
<1>1. j \in 0..(Others + 3)
  BY CommAssumption DEF Others
<1> QED
  BY <1>1, HoldingOn

LEMMA LeafCloseFile ==
    ASSUME Typed, NEW q \in Leaf, Step(q) \/ Dies(q), ~Enter(q), Closes(q), LeafCloses(q),
           Fielded(file[q])
    PROVE  at' = at /\ Alters(file[q], file'[q])
<1>0. q \in Rank /\ DOMAIN todo = Rank /\ DOMAIN file = Rank /\ at' = at
  BY LeafPlaces, Aside, SameCall
<1>1. \/ Communicate(q) /\ UNCHANGED <<file, disk, at>>
      \/ Halts(q)
      \/ \E w : Does(q, w) /\ Head(todo[q]) \in Leaving /\ Head(todo[q]).what = w
  BY <1>0, LocalsStep DEF LeafCloses
<1>2. file' = file => Alters(file[q], file'[q])
  BY DEF Alters
<1>3. ASSUME NEW w, Does(q, w), Head(todo[q]) \in Leaving, Head(todo[q]).what = w
      PROVE  Alters(file[q], file'[q])
  <2>1. w \in {"detach", "seal", "drop"}
    BY <1>3, LocalNames DEF Leaving
  <2>2. \/ file'[q] = [file[q] EXCEPT !.attached = FALSE, !.log = <<>>]
        \/ file'[q] = [file[q] EXCEPT !.readOnly = TRUE]
        \/ file'[q] = [file[q] EXCEPT !.open = FALSE]
    BY <1>0, <1>3, <2>1 DEF Does, Detach, Seal, Drop
  <2> QED
    BY <2>2 DEF Alters, Fielded, Modelled
<1> QED
  BY <1>0, <1>1, <1>2, <1>3 DEF Halts

LEMMA LeafBodyEnters ==
    ASSUME Typed, CountInv, Leaf # {}, Proper(script), NEW q \in Leaf, Enter(q),
           NEW M, RankBody(M, q)
    PROVE  LeafBody(M, q)'
<1> DEFINE k == at[q]
           S == stream[<<q, 0>>]
<1>0. q \in Rank /\ script \in Scripts /\ k \in Nat /\ Len(S) \in Nat
  BY LeafPlaces, Numbers DEF Typed, RootInv
<1>1. /\ k + 1 \in 1..Len(script) /\ at'[q] = k + 1 /\ todo'[q] = Plan(q, script[k + 1])
      /\ todo[q] = <<>> /\ script' = script /\ file' = file /\ (k + 1) - 1 = k
  BY <1>0, Entered
<1>2. Ready(M[k], file[q], q, Ph(k)) /\ q # 0
  BY <1>0, <1>1, ReturnedReady, LeafPlaces
<1> SUFFICES ASSUME script[k + 1] = "close" PROVE LeafBody(M, q)'
  BY <1>1 DEF LeafBody, Closes
<1>3. Ph(k) # "closed"
  BY <1>0, <1>1, PhaseTable
<1>4. Holds(M[k], file[q], Ph(k)) /\ Logs(M[k], file[q], q, Ph(k), file[q].log)
  BY <1>2, <1>3 DEF Ready
<1>5. stream' = stream /\ Step(q)
  BY DEF Enter, Step
<1>6. Taken(q)' = Taken(q)
  <2>1. Effect(q)
    BY <1>5 DEF Enter, Enters, Effect
  <2>2. LeafCounts(q) /\ Kept(0)
    BY <2>1, LeafEffect, LeafCounting
  <2> QED
    BY <1>1, <2>2, LeafBalance DEF CountInv
<1>7. Taken(q) = UpTo(q)[k] - Len(S) /\ UpTo(q)[k] \in Nat
  <2>1. Sending(q) = 0
    BY <1>1, Numbers
  <2>2. UpTo(q)[k] \in Nat
    BY Numbers, ScriptTotals
  <2> QED
    BY <1>0, <2>1, <2>2 DEF Taken, UpSent
<1>8. \A i \in 1..Len(S) : Taken(q) + i # UpTo(q)[k] + 1
  <2> DEFINE t == Taken(q)
             u == UpTo(q)[k]
             l == Len(S)
  <2>1. t = u - l /\ u \in Nat /\ l \in Nat
    BY <1>0, <1>7
  <2> HIDE DEF t, u, l
  <2>2. \A i \in 1..l : t + i # u + 1
    BY <2>1
  <2> QED
    BY <2>2 DEF t, u, l
<1>9. UpTo(q)' = UpTo(q)
  BY <1>1 DEF UpTo
<1> QED
  BY <1>1, <1>4, <1>5, <1>6, <1>8, <1>9 DEF LeafBody, Ph

LEMMA LeafBodyOwn ==
    ASSUME Typed, CountInv, ShapeInv, Leaf # {}, Proper(script), NEW q \in Leaf,
           Step(q) \/ Dies(q), NEW M, RankBody(M, q), LeafBody(M, q)
    PROVE  LeafBody(M, q)'
<1> DEFINE k == at[q]
           S == stream[<<q, 0>>]
           m == M[k - 1]
           p == Ph(k - 1)
           Mine(f, L) == Logs(m, f, q, p, L)
<1>0. /\ q \in Rank /\ script \in Scripts /\ k \in Nat /\ script' = script /\ DOMAIN todo = Rank
      /\ Leaf # {} /\ q # 0 /\ todo[q] \in Seq(LeafItem)
  BY LeafPlaces, Aside DEF Typed, RootInv, Harmless
<1>1. CASE Enter(q)
  BY <1>1, LeafBodyEnters
<1>2. CASE ~Enter(q) /\ ~Closes(q)
  <2>1. ~Closes(q)'
    BY <1>0, <1>2, SameCall DEF Closes
  <2> QED
    BY <2>1 DEF LeafBody
<1>3. CASE Halts(q)
  BY <1>0, <1>3, LeafStays DEF Halts
<1>4. CASE ~Enter(q) /\ ~Halts(q) /\ Closes(q)
  <2>1. at' = at /\ Alters(file[q], file'[q])
    BY <1>0, <1>4, LeafCloseFile DEF ShapeInv
  <2>2. Closes(q)' /\ UpTo(q)' = UpTo(q) /\ Ph(k - 1)' = p
    BY <1>0, <1>4, <2>1 DEF Closes, UpTo, Ph
  <2>3. /\ Holds(m, file[q], p)
        /\ todo[q] = Plan(q, "close") => Mine(file[q], file[q].log)
        /\ \A i \in 1..Len(S) : Taken(q) + i = UpTo(q)[k - 1] + 1 =>
             \E L : S[i] = <<L>> /\ Mine(file[q], L)
    BY <1>4 DEF LeafBody
  <2>4. Holds(m, file'[q], p) /\ \A L : Mine(file[q], L) => Mine(file'[q], L)
    <3> HIDE DEF m, p
    <3> QED
      BY <2>1, <2>3, SameHolds
  <2>5. Communicate(q) \/ \E w : Does(q, w)
    BY <1>0, <1>4, OwnSteps
  <2>6. todo[q] # <<>> /\ todo'[q] \in {Tail(todo[q]), <<Drain(0)>> \o Tail(todo[q])}
    <3>1. CASE Communicate(q)
      BY <1>0, <3>1, Communicates DEF LeafPasses, LeafSends, LeafTakes
    <3>2. CASE \E w : Does(q, w)
      BY <1>0, <3>2, DoesHead
    <3> QED
      BY <2>5, <3>1, <3>2
  <2>7. todo[q] = Plan(q, "close") \/ Sending(q) <= 1
    BY <1>4 DEF ShapeInv, LeafCloses
  <2>8. todo'[q] # Plan(q, "close")
    <3>1. Sending(q)' <= 1
      BY <1>0, <2>6, <2>7, OneToSend
    <3>2. todo'[q] = Plan(q, "close") => Sending(q)' = 2
      BY LeafClosePlan DEF Sending
    <3> HIDE DEF Sending
    <3> QED
      BY <3>1, <3>2
  <2>9. Resting \/ Effect(q)
    BY <1>0, RankEffect
  <2>11. Effect(q) => LeafMove(q) /\ LeafCounts(q) /\ Kept(0)
    BY LeafEffect, LeafCounting
  <2>12. Taken(q)' = Taken(q)
    <3>1. CASE Resting
      <4>1. Sending(q)' = Sending(q)
        BY <3>1 DEF Resting, Sending
      <4> QED
        BY <2>1, <2>2, <3>1, <4>1 DEF Resting, Taken, UpSent
    <3>2. CASE Effect(q)
      BY <1>0, <2>11, <3>2, LeafBalance DEF CountInv
    <3> QED
      BY <2>9, <3>1, <3>2
  <2>13. ASSUME stream'[<<q, 0>>] = S PROVE LeafBody(M, q)'
    <3>1. \A i \in 1..Len(S) : Taken(q) + i = UpTo(q)[k - 1] + 1 =>
             \E L : S[i] = <<L>> /\ Mine(file'[q], L)
      BY <2>3, <2>4
    <3> QED
      BY <2>1, <2>2, <2>4, <2>8, <2>12, <2>13, <3>1 DEF LeafBody, Ph
  <2>14. ASSUME NEW w, LeafSends(q, w) PROVE LeafBody(M, q)'
    <3>1. /\ Head(todo[q]) = Send(0, w)
          /\ stream'[<<q, 0>>] = Append(S, Content(q, Own(q), w))
      BY <2>14 DEF LeafSends
    <3>2. /\ Len(S) \in Nat /\ Len(stream'[<<q, 0>>]) = Len(S) + 1
          /\ \A i \in 1..Len(S) + 1 :
               stream'[<<q, 0>>][i] = IF i <= Len(S) THEN S[i] ELSE Content(q, Own(q), w)
      BY <3>1, LeafPlaces, SeqFacts DEF Typed
    <3>3. ASSUME Taken(q) + (Len(S) + 1) = UpTo(q)[k - 1] + 1
          PROVE  \E L : Content(q, Own(q), w) = <<L>> /\ Mine(file'[q], L)
      <4>1. Sending(q) = 2
        <5> DEFINE a == UpTo(q)[k - 1]
                   b == UpTo(q)[k]
        <5>1. /\ k \in 1..Len(script) /\ NUp(q, script[k]) = 2 /\ Sending(q) \in Nat
          <6>1. k \in 0..Len(script) /\ Sending(q) \in Nat
            BY Numbers
          <6> QED
            BY <1>4, <6>1 DEF Closes, NUp
        <5>2. a \in Nat /\ b = a + 2
          <6>1. b = a + 2 /\ k - 1 \in 0..Len(script) /\ UpTo(q) \in [0..Len(script) -> Nat]
            <7>1. Len(script) \in Nat /\ b = a + NUp(q, script[k])
              BY <1>0, <5>1, ScriptTotals
            <7>2. UpTo(q) \in [0..Len(script) -> Nat]
              BY <1>0, ScriptTotals
            <7>3. k - 1 \in 0..Len(script)
              BY <1>0, <5>1, <7>1
            <7> QED
              BY <5>1, <7>1, <7>2, <7>3
          <6> QED
            BY <6>1
        <5>3. Taken(q) = (b - Sending(q)) - Len(S)
          BY DEF Taken, UpSent
        <5> HIDE DEF a, b, Sending, Taken
        <5>4. Taken(q) + (Len(S) + 1) = a + 1
          BY <3>3 DEF a
        <5> QED
          BY <3>2, <5>1, <5>2, <5>3, <5>4
      <4>2. todo[q] = Plan(q, "close")
        BY <2>7, <4>1
      <4>3. w = "own"
        <5>1. Send(0, w) = Send(0, "own")
          BY <3>1, <4>2, LeafClosePlan
        <5> QED
          BY <5>1, ItemKinds
      <4>4. Own(q) = file[q].log
        BY <1>4 DEF Own, Closes
      <4>5. Content(q, Own(q), w) = <<file[q].log>>
        BY <4>3, <4>4 DEF Content
      <4>6. Mine(file'[q], file[q].log)
        BY <2>3, <2>4, <4>2
      <4> QED
        BY <4>5, <4>6
    <3>4. \A i \in 1..Len(S) + 1 : Taken(q) + i = UpTo(q)[k - 1] + 1 =>
            \E L : stream'[<<q, 0>>][i] = <<L>> /\ Mine(file'[q], L)
      <4> SUFFICES ASSUME NEW i \in 1..Len(S) + 1, Taken(q) + i = UpTo(q)[k - 1] + 1
                   PROVE  \E L : stream'[<<q, 0>>][i] = <<L>> /\ Mine(file'[q], L)
        OBVIOUS
      <4>1. (i \in 1..Len(S) /\ i <= Len(S)) \/ (i = Len(S) + 1 /\ ~(i <= Len(S)))
        BY <3>2
      <4>2. CASE i \in 1..Len(S) /\ i <= Len(S)
        <5>1. PICK L : S[i] = <<L>> /\ Mine(file[q], L)
          BY <2>3, <4>2
        <5> QED
          BY <2>4, <3>2, <4>2, <5>1
      <4>3. CASE i = Len(S) + 1 /\ ~(i <= Len(S))
        BY <3>2, <3>3, <4>3
      <4> QED
        BY <4>1, <4>2, <4>3
    <3> QED
      BY <2>1, <2>2, <2>4, <2>8, <2>12, <3>2, <3>4 DEF LeafBody, Ph
  <2>15. ~LeafEnters(q)
    BY <2>6 DEF LeafEnters
  <2> QED
    BY <2>9, <2>11, <2>13, <2>14, <2>15 DEF LeafMove, LeafPasses, LeafTakes, Resting
<1> QED
  BY <1>1, <1>2, <1>3, <1>4

(* It leaves what rank 0 has collected. *)
LEMMA RootBodyStays ==
    ASSUME Typed, CountInv, ShapeInv, Leaf # {}, NEW q \in Leaf, Step(q) \/ Dies(q),
           NEW M, RootBody(M)
    PROVE  RootBody(M)'
<1> DEFINE m == M[at[0] - 1]
           p == Ph(at[0] - 1)
<1>0. /\ q \in Rank /\ 0 \in Rank /\ q # 0 /\ script' = script /\ \A x \in Leaf : x \in Rank
      /\ \A x \in Rank : x # q => at'[x] = at[x] /\ todo'[x] = todo[x] /\ file'[x] = file[x]
      /\ at[q] \in Nat /\ at[0] \in Nat /\ (at' = at \/ at'[q] = at[q] + 1)
  <2>1. q \in Rank /\ 0 \in Rank /\ q # 0 /\ \A x \in Leaf : x \in Rank
    BY LeafPlaces
  <2>2. at[0] \in Nat /\ DOMAIN at = Rank
    BY <2>1 DEF Typed, RootInv
  <2> QED
    BY <2>1, <2>2, Aside
<1>1. at'[0] = at[0] /\ todo'[0] = todo[0] /\ file'[0] = file[0] /\ (Closes(0)' <=> Closes(0))
  BY <1>0 DEF Closes
<1>2. got'[0] = got[0]
  <2>1. Resting \/ Effect(q)
    BY <1>0, RankEffect
  <2> QED
    BY <2>1, LeafEffect DEF Resting, Kept
<1>3. ASSUME ~Enter(q), Closes(q) PROVE at' = at /\ Alters(file[q], file'[q])
  BY <1>0, <1>3, LeafCloseFile DEF ShapeInv
<1> SUFFICES ASSUME Closes(0)
             PROVE  \/ \E j \in 0..Others : Collecting(m, p, j)'
                    \/ Collected(m)'
  BY <1>0, <1>1 DEF RootBody, Ph
<1>4. m' = m /\ p' = p
  BY <1>0, <1>1 DEF Ph
<1> HIDE DEF m, p
<1>5. ASSUME NEW j \in 0..Others, Collecting(m, p, j) PROVE Collecting(m, p, j)'
  <2>1. /\ Rest(todo[0], j) /\ Holds(m, file[0], p) /\ IsSeq(got[0]) /\ Len(got[0]) = j
        /\ \A x \in 1..j : at[x] = at[0] /\ Logs(m, file[x], x, p, got[0][x])
    BY <1>5 DEF Collecting
  <2>2. ASSUME NEW x \in 1..j PROVE at'[x] = at[0] /\ Logs(m, file'[x], x, p, got[0][x])
    <3>1. x \in Leaf /\ at[x] = at[0] /\ Logs(m, file[x], x, p, got[0][x])
      <4>1. x \in Leaf
        BY CommAssumption DEF Others, Leaf
      <4> QED
        BY <2>1, <4>1
    <3>2. CASE x # q
      BY <1>0, <3>1, <3>2
    <3>3. CASE x = q
      <4>1. todo[q] # <<>>
        BY <2>1, <3>1, <3>3, Holding
      <4>2. ~Enter(q) /\ Closes(q)
        BY <3>1, <3>3, <4>1 DEF Enter, Closes
      <4>3. at' = at /\ Alters(file[q], file'[q])
        BY <1>3, <4>2
      <4> QED
        BY <3>1, <3>3, <4>3, SameHolds
    <3> QED
      BY <3>2, <3>3
  <2> QED
    BY <1>1, <1>2, <1>4, <2>1, <2>2 DEF Collecting
<1>6. ASSUME Collected(m) PROVE Collected(m)'
  <2>1. /\ LocalsIn(todo[0], Merged) /\ file[0].name = m.name /\ file[0].dims = m.dims
        /\ \A x \in Leaf :
             /\ at[x] >= at[0]
             /\ at[x] = at[0] => \A c \in Row(m.dims, x) : file[0].data[c] = file[x].data[c]
    BY <1>6 DEF Collected
  <2>2. ASSUME NEW x \in Leaf
        PROVE  /\ at'[x] >= at[0]
               /\ at'[x] = at[0] => \A c \in Row(m.dims, x) : file[0].data[c] = file'[x].data[c]
    <3>1. CASE x # q
      BY <1>0, <2>1, <3>1
    <3>2. CASE x = q
      <4>1. at'[q] >= at[0]
        BY <1>0, <2>1, <3>2
      <4>2. ASSUME at'[q] = at[0]
            PROVE  \A c \in Row(m.dims, q) : file[0].data[c] = file'[q].data[c]
        <5>1. at[q] = at[0]
          BY <1>0, <2>1, <3>2, <4>2
        <5>2. ~Enter(q) /\ Closes(q)
          <6>1. Enter(q) => at'[q] = at[q] + 1
            BY <1>0, Entered
          <6> QED
            BY <1>0, <4>2, <5>1, <6>1 DEF Closes
        <5>3. Alters(file[q], file'[q])
          BY <1>3, <5>2
        <5> QED
          BY <2>1, <5>1, <5>3 DEF Alters
      <4> QED
        BY <3>2, <4>1, <4>2
    <3> QED
      BY <3>1, <3>2
  <2> QED
    BY <1>1, <1>4, <2>1, <2>2 DEF Collected
<1> QED
  BY <1>5, <1>6 DEF RootBody, m, p

-----------------------------------------------------------------------------
(* Steps of rank 0.                                                        *)

(* It opens the file: the chain goes on with what is there.                *)
LEMMA RootLoads ==
    ASSUME Typed, CountInv, OpenInv, Leaf # {}, Proper(script), Loads(0), Step(0) \/ Dies(0),
           ~Enter(0), DiskBody, NEW M, BodyOf(M)
    PROVE  DiskBody' /\ \E N : BodyOf(N)'
<1> DEFINE k == at[0]
           n == Len(script)
           m == disk.model
<1>0. /\ 0 \in Rank /\ script' = script /\ at' = at /\ script \in Scripts /\ n \in Nat
      /\ k \in 1..n /\ script[k] = "open" /\ todo[0] = Open(0) /\ DOMAIN file = Rank
      /\ \A x \in Leaf : x \in Rank /\ x # 0
      /\ \A x \in Rank : x # 0 => todo'[x] = todo[x] /\ file'[x] = file[x]
      /\ disk.st = "whole" /\ file'[0] = FileOf(m)
      /\ ~Quiet(todo[0]) /\ Quiet(todo'[0]) /\ stream' = stream
  <2>1. 0 \in Rank /\ \A x \in Leaf : x \in Rank /\ x # 0
    BY CommAssumption DEF Rank, Leaf
  <2>2. /\ script' = script /\ at' = at /\ script \in Scripts /\ k \in Nat /\ k <= n
        /\ DOMAIN file = Rank
        /\ \A x \in Rank : x # 0 => todo'[x] = todo[x] /\ file'[x] = file[x]
    BY <2>1, SameCall, Aside DEF Typed, RootInv
  <2>3. k > 0 /\ script[k] = "open" /\ todo[0] = Open(0) /\ ~Quiet(todo[0]) /\ Quiet(todo'[0])
        /\ Load(0)
    BY DEF Loads, Opens
  <2>4. disk.st = "whole" /\ file'[0] = FileOf(m) /\ stream' = stream
    BY <2>1, <2>2, <2>3 DEF Load, LocalStep
  <2>5. n \in Nat
    BY <2>2, ScriptAssumption
  <2>6. k \in 1..n
    BY <2>2, <2>3, <2>5
  <2> QED
    BY <2>1, <2>2, <2>3, <2>4, <2>5, <2>6
<1>1. Ph(k - 1) = "closed" /\ Ph(k) = "clean" /\ Done(0) = k - 1 /\ Done(0)' = k /\ ~Closes(0)'
  BY <1>0, PhaseTable DEF Done, Closes
<1>2. Sized(m.dims)
  BY <1>0, <1>1 DEF DiskBody
<1>3. PICK N : Chain(N) /\ N[k] = m /\ \A j \in 0..(k - 1) : N[j] = M[j]
  <2>1. Chain(M)
    BY DEF BodyOf
  <2> HIDE DEF k, m
  <2> QED
    BY <1>0, <1>2, <2>1, Rebuilt DEF k
<1>4. ASSUME NEW q \in Leaf
      PROVE  Done(q) \in 0..(k - 1) /\ (Closes(q) => at[q] - 1 \in 0..(k - 1))
  <2>1. Releasing(q) = 2
    BY <1>0, RootOpens DEF Releasing
  <2>2. at[q] \in 0..n /\ (at[q] = 0 => todo[q] = <<>>)
    BY Numbers
  <2>3. ~Returned(q, k)
    <3>1. script[k] \in Synchronizes
      BY <1>0 DEF Synchronizes
    <3> HIDE DEF Releasing
    <3>2. Releasing(q) # 0
      BY <2>1
    <3> QED
      BY <1>0, <3>1, <3>2, ReleasedByRoot
  <2>4. at[q] <= k
    BY <1>0, <2>2, <2>3 DEF Returned
  <2>5. ASSUME at[q] = k PROVE ~Quiet(todo[q])
    <3>1. Opens(q) /\ OpenState(q)
      BY <1>0, <2>5 DEF Opens, OpenInv
    <3>2. ~(Receiving(q) <= 1)
      <4>1. ~(Releasing(q) <= 1)
        <5> HIDE DEF Releasing
        <5> QED
          BY <2>1
      <4> QED
        BY <2>5, <3>1, <4>1, LetIn
    <3>3. todo[q] \in Unloaded
      BY <1>0, <3>1, <3>2 DEF OpenState
    <3> QED
      BY <3>3, UnloadedRest
  <2>6. at[q] = 0 => Done(q) = 0
    <3>1. Quiet(<<>>)
      <4>1. Len(<<>>) = 0
        OBVIOUS
      <4> QED
        BY <4>1 DEF Quiet
    <3> QED
      BY <2>2, <3>1 DEF Done
  <2>7. Done(q) \in 0..(k - 1)
    BY <1>0, <2>2, <2>4, <2>5, <2>6 DEF Done
  <2>8. Closes(q) => at[q] - 1 \in 0..(k - 1)
    BY <1>0, <2>2, <2>4 DEF Closes
  <2> QED
    BY <2>7, <2>8
<1>5. DiskBody'
  <2>1. Ph(Done(0))' = "clean"
    BY <1>0, <1>1 DEF Ph
  <2> QED
    BY <2>1 DEF DiskBody
<1>6. RankBody(N, 0)'
  <2>1. Ready(N[k], FileOf(m), 0, "clean")
    BY <1>3, LoadedReady
  <2> QED
    BY <1>0, <1>1, <2>1 DEF RankBody, Ph
<1>7. ASSUME NEW q \in Leaf PROVE RankBody(N, q)' /\ LeafBody(N, q)'
  <2>0. q \in Rank /\ q # 0
    BY <1>0
  <2>1. RankBody(M, q) /\ LeafBody(M, q)
    BY <2>0 DEF BodyOf
  <2>2. N[Done(q)] = M[Done(q)] /\ (Closes(q) => N[at[q] - 1] = M[at[q] - 1])
    BY <1>3, <1>4
  <2>3. at'[q] = at[q] /\ todo'[q] = todo[q] /\ file'[q] = file[q]
    BY <1>0, <2>0
  <2>4. Done(q)' = Done(q) /\ (Closes(q)' <=> Closes(q))
    BY <1>0, <2>3 DEF Done, Closes
  <2>5. RankBody(N, q)'
    BY <1>0, <2>1, <2>2, <2>3, <2>4 DEF RankBody, Ph
  <2>6. LeafBody(N, q)'
    BY <1>0, <2>1, <2>2, <2>3, LeafStays
  <2> QED
    BY <2>5, <2>6
<1>8. \A r \in Rank : RankBody(N, r)'
  <2>1. \A r \in Rank : r = 0 \/ r \in Leaf
    BY CommAssumption DEF Rank, Leaf
  <2> QED
    BY <1>6, <1>7, <2>1
<1>9. RootBody(N)' /\ Chain(N)'
  <2>1. Chain(N)'
    BY <1>0, <1>3 DEF Chain, ChainTo, Ph
  <2> QED
    BY <1>1, <2>1 DEF RootBody
<1> QED
  BY <1>5, <1>7, <1>8, <1>9 DEF BodyOf

-----------------------------------------------------------------------------
(* The merge: each rank's row is as its last entry says.                   *)

LEMMA RowsApart ==
    ASSUME NEW dims, Sized(dims), NEW q \in Nat, NEW r \in Nat,
           NEW c \in Row(dims, q), c \in Row(dims, r)
    PROVE  q = r
<1> DEFINE C == dims[2]
<1>1. dims \in Seq(Nat) /\ Len(dims) = 2 /\ C \in {2, 3}
  <2>1. \E x \in {2, 3} : dims = <<Size, x>>
    BY DEF Sized, Shape, Wider, Columns
  <2> QED
    BY <2>1, CommAssumption
<1>2. ASSUME NEW a \in Nat, NEW x \in 0..(C - 1) PROVE Position(dims, <<a, x>>) = a * C + x + 1
  <2> DEFINE v == <<a, x>>
             P == Places(dims, v)
  <2>1. v \in [1..2 -> Nat] /\ v[1] = a /\ v[2] = x
    BY <1>1
  <2>2. Recurs(P, 2, 0, dims, v) /\ Position(dims, v) = P[2] + 1
    <3> HIDE DEF v
    <3>1. Recurs(Places(dims, v), Len(dims), 0, dims, v)
      BY <1>1, <2>1, PlacesAreNat
    <3> QED
      BY <1>1, <3>1, PositionIsPlace
  <2> HIDE DEF v, P
  <2>3. P[0] = 0 /\ P[1] = P[0] * dims[1] + a /\ P[2] = P[1] * C + x
    <3>1. 1 \in 1..2 /\ 2 \in 1..2 /\ 1 - 1 = 0 /\ 2 - 1 = 1
      OBVIOUS
    <3>2. P[0] = 0 /\ \A i \in 1..2 : P[i] = P[i - 1] * dims[i] + v[i]
      BY <2>2 DEF Recurs
    <3> QED
      BY <2>1, <3>1, <3>2
  <2>4. dims[1] \in Nat
    BY CommAssumption DEF Sized, Shape, Wider
  <2>5. P[1] = a
    BY <2>3, <2>4
  <2> QED
    BY <1>1, <2>2, <2>3, <2>5 DEF v
<1>3. PICK x \in 0..(C - 1) : c = q * C + x + 1
  BY <1>2 DEF Row
<1>4. PICK y \in 0..(C - 1) : c = r * C + y + 1
  BY <1>2 DEF Row
<1>5. CASE C = 2
  BY <1>3, <1>4, <1>5
<1>6. CASE C = 3
  BY <1>3, <1>4, <1>6
<1> QED
  BY <1>1, <1>5, <1>6

LEMMA FoldLast ==
    ASSUME NEW d, NEW s, IsSeq(s)
    PROVE  /\ Len(s) = 0 => Folded(d, s) = d
           /\ \A x \in 1..Len(s) : \A c \in DOMAIN d :
                c \in s[x].cells /\ (\A z \in (x + 1)..Len(s) : c \notin s[z].cells)
                  => Folded(d, s)[c] = s[x].value
<1> DEFINE n == Len(s)
<1>0. n \in Nat
  BY SeqFacts
<1>1. PICK R : /\ R[0] = d /\ \A j \in 1..Len(s) : R[j] = Apply(R[j - 1], s[j])
               /\ Folded(d, s) = R[Len(s)]
  BY FoldSteps
<1>2. \A j \in 1..n : /\ DOMAIN R[j] = DOMAIN R[j - 1]
                      /\ \A k \in DOMAIN R[j - 1] :
                           R[j][k] = IF k \in s[j].cells THEN s[j].value ELSE R[j - 1][k]
  BY <1>1 DEF Apply
<1> HIDE DEF n
<1>3. \A j \in Nat : j <= n => DOMAIN R[j] = DOMAIN d
  <2> DEFINE S == {j \in Nat : j <= n => DOMAIN R[j] = DOMAIN d}
  <2>1. 0 \in S
    BY <1>1
  <2>2. ASSUME NEW j \in Nat, j \in S PROVE j + 1 \in S
    <3>1. CASE j + 1 <= n
      <4>1. j + 1 \in 1..n /\ (j + 1) - 1 = j /\ j <= n
        BY <1>0, <3>1
      <4> QED
        BY <1>2, <2>2, <4>1
    <3> QED
      BY <3>1
  <2> HIDE DEF S
  <2>3. Nat \subseteq S
    BY <2>1, <2>2, Induction
  <2> QED
    BY <2>3 DEF S
<1>4. ASSUME NEW x \in 1..n, NEW c \in DOMAIN d, c \in s[x].cells,
             \A z \in (x + 1)..n : c \notin s[z].cells
      PROVE  R[n][c] = s[x].value
  <2> DEFINE S == {j \in Nat : x + j <= n => R[x + j][c] = s[x].value}
  <2>1. 0 \in S
    <3>1. x - 1 \in Nat /\ x - 1 <= n /\ x + 0 = x
      BY <1>0
    <3>2. R[x][c] = s[x].value
      BY <1>2, <1>3, <1>4, <3>1
    <3> QED
      BY <3>1, <3>2
  <2>2. ASSUME NEW j \in Nat, j \in S PROVE j + 1 \in S
    <3>1. CASE x + (j + 1) <= n
      <4> DEFINE y == x + j
      <4>1. /\ y \in Nat /\ y <= n /\ y + 1 \in 1..n /\ (y + 1) - 1 = y /\ x + (j + 1) = y + 1
            /\ y + 1 \in (x + 1)..n
        BY <1>0, <3>1
      <4>2. R[y][c] = s[x].value
        BY <2>2, <4>1
      <4> HIDE DEF y
      <4>3. R[y + 1][c] = s[x].value
        BY <1>2, <1>3, <1>4, <4>1, <4>2
      <4> QED
        BY <4>1, <4>3
    <3> QED
      BY <3>1
  <2>3. n - x \in S /\ x + (n - x) = n
    <3> HIDE DEF S
    <3>1. Nat \subseteq S
      BY <2>1, <2>2, Induction
    <3>2. n - x \in Nat /\ x + (n - x) = n
      BY <1>0
    <3> QED
      BY <3>1, <3>2
  <2> QED
    BY <1>0, <2>3
<1>5. n = 0 => R[n] = d
  BY <1>1
<1> QED
  BY <1>1, <1>4, <1>5 DEF n

LEMMA Merges ==
    ASSUME DOMAIN file = Rank, Fielded(file[0]), NEW m, Sized(m.dims), NEW p \in {"clean", "written"},
           Merge(0), Collecting(m, p, Others), \A q \in Leaf : Holds(m, file[q], p)
    PROVE  /\ file'[0].name = m.name /\ file'[0].dims = m.dims
           /\ \A q \in Leaf : \A c \in Row(m.dims, q) : file'[0].data[c] = file[q].data[c]
<1> DEFINE logs == got[0]
           n == Others
           s == FlattenSeq(logs)
           d == file[0].data
           l == Len(s)
<1>0. 0 \in Rank /\ n \in Nat /\ 1..n = Leaf
  BY CommAssumption DEF Rank, Others, Leaf
<1>1. /\ Holds(m, file[0], p) /\ IsSeq(logs) /\ Len(logs) = n
      /\ \A q \in Leaf : Logs(m, file[q], q, p, logs[q])
  BY <1>0 DEF Collecting
<1>2. /\ \A i \in DOMAIN s : Fits(s[i])
      /\ file' = [file EXCEPT ![0].data = Folded(d, s)]
  BY DEF Merge, Folded
<1>3. file'[0].data = Folded(d, s) /\ file'[0].name = m.name /\ file'[0].dims = m.dims
  BY <1>0, <1>1, <1>2 DEF Fielded, Modelled, Holds
<1>4. \A q \in 1..n : IsSeq(logs[q])
  <2>1. IsSeq(<<>>)
    <3>1. <<>> \in Seq({})
      OBVIOUS
    <3> QED
      BY <3>1 DEF IsSeq
  <2> QED
    BY <1>0, <1>1, <2>1 DEF Logs
<1> HIDE DEF logs
<1>5. Spread(s, logs, n)
  BY <1>1, <1>4, FlattenSteps
<1> HIDE DEF n
<1>6. IsSeq(s) /\ l \in Nat /\ \A x \in 1..l : From(s, logs, x, 1, n)
  <2>1. IsSeq(s)
    BY <1>5 DEF Spread
  <2> HIDE DEF s
  <2> QED
    BY <1>5, <2>1, SeqFacts DEF Spread
<1> HIDE DEF s
<1> SUFFICES ASSUME NEW q \in Leaf, NEW c \in Row(m.dims, q)
             PROVE  Folded(d, s)[c] = file[q].data[c]
  BY <1>3
<1>7. CASE p = "clean"
  <2>1. l = 0
    <3>1. \A r \in 1..n : logs[r] = <<>>
      BY <1>0, <1>1, <1>7 DEF Logs
    <3>2. \A x \in 1..l : FALSE
      <4>1. 1..Len(<<>>) = {}
        OBVIOUS
      <4> QED
        BY <1>6, <3>1, <4>1 DEF From
    <3> QED
      BY <1>6, <3>2
  <2>2. Folded(d, s) = d
    BY <1>6, <2>1, FoldLast
  <2>3. d = m.data /\ file[q].data = m.data
    BY <1>1, <1>7 DEF Holds
  <2> QED
    BY <2>2, <2>3
<1>8. CASE p = "written"
  <2>1. \A r \in 1..n : /\ Len(logs[r]) \in Nat /\ Len(logs[r]) > 0
                        /\ \A i \in 1..Len(logs[r]) : logs[r][i].cells = Row(m.dims, r)
    BY <1>0, <1>1, <1>4, <1>8, SeqFacts DEF Logs
  <2>2. q \in 1..n
    BY <1>0
  <2>3. PICK x \in 1..l : /\ s[x] = logs[q][Len(logs[q])]
                          /\ \A z \in (x + 1)..l : From(s, logs, z, q + 1, n)
    BY <1>5, <2>1, <2>2 DEF Spread
  <2>4. s[x].cells = Row(m.dims, q)
    <3>1. Len(logs[q]) \in 1..Len(logs[q])
      BY <2>1, <2>2
    <3> QED
      BY <2>1, <2>2, <2>3, <3>1
  <2>5. \A z \in (x + 1)..l : c \notin s[z].cells
    <3> SUFFICES ASSUME NEW z \in (x + 1)..l PROVE c \notin s[z].cells
      OBVIOUS
    <3>1. PICK r \in (q + 1)..n : \E y \in 1..Len(logs[r]) : s[z] = logs[r][y]
      BY <2>3 DEF From
    <3>2. r \in 1..n /\ r \in Nat /\ q \in Nat /\ r # q
      BY <1>0, <2>2
    <3>3. s[z].cells = Row(m.dims, r)
      BY <2>1, <3>1, <3>2
    <3> QED
      BY <3>2, <3>3, RowsApart
  <2>6. c \in DOMAIN d /\ c \in DOMAIN file[q].data
    <3>1. x \in DOMAIN s
      BY <1>6 DEF IsSeq
    <3>2. Row(m.dims, q) \subseteq DOMAIN d
      BY <1>2, <2>4, <3>1 DEF Fits, s
    <3> QED
      BY <1>1, <3>2 DEF Holds
  <2>7. Folded(d, s)[c] = s[x].value
    <3> HIDE DEF d
    <3> QED
      BY <1>6, <2>4, <2>5, <2>6, FoldLast
  <2>8. file[q].data[c] = logs[q][Len(logs[q])].value
    BY <1>1, <1>8, <2>6 DEF Logs
  <2> QED
    BY <2>3, <2>7, <2>8
<1> QED
  BY <1>7, <1>8

-----------------------------------------------------------------------------
(* Rank 0 collects the logs and merges them.                               *)

LEMMA RestMerged ==
    ASSUME NEW s, Rest(s, Others + 1)
    PROVE  LocalsIn(s, Merged)
<1> DEFINE n == Others
           C == Close(0)
<1>1. /\ n \in Nat /\ Len(C) \in Nat /\ Len(C) >= n + 5 + n
      /\ C[n + 2] \in Merged /\ C[n + 3] \in Merged /\ C[n + 4] \in Merged
      /\ \A i \in (n + 5)..Len(C) : C[i].do = "local" => C[i] \in Merged
  BY ClosePlan DEF Merged, Finishing
<1>2. IsSeq(s) /\ Len(s) = Len(C) - (n + 1) /\ \A i \in 1..Len(s) : s[i] = C[(n + 1) + i]
  BY DEF Rest
<1> HIDE DEF n, C
<1>3. \A i \in 1..Len(s) : LET x == (n + 1) + i
                           IN  x \in {n + 2, n + 3, n + 4} \/ x \in (n + 5)..Len(C)
  BY <1>1, <1>2
<1> QED
  BY <1>1, <1>2, <1>3 DEF LocalsIn

(* The next log to come is that of the next rank. *)
LEMMA NextLog ==
    ASSUME Typed, CountInv, Leaf # {}, Closes(0), NEW q \in Leaf, Rest(todo[0], q - 1),
           stream[<<q, 0>>] # <<>>, NEW M, LeafBody(M, q)
    PROVE  /\ at[q] = at[0]
           /\ \E L : /\ Head(stream[<<q, 0>>]) = <<L>>
                     /\ Logs(M[at[0] - 1], file[q], q, Ph(at[0] - 1), L)
<1> DEFINE k == at[0]
           n == Others
           S == stream[<<q, 0>>]
           C == Close(0)
           s == todo[0]
           X == {Recv(q)}
           U == UpTo(q)
<1>0. n \in Nat /\ q \in 1..n /\ q - 1 \in 0..n /\ q - 1 \in 0..(n + 3) /\ (q - 1) + 1 = q
  BY CommAssumption DEF Others, Leaf
<1>1. /\ k \in 1..Len(script) /\ at[q] \in 0..Len(script) /\ script[k] = "close"
      /\ script \in Scripts /\ Len(script) \in Nat
      /\ Gathering(q) \in Nat /\ Accepting \in Nat /\ Sending(q) \in Nat /\ Len(S) \in Nat
  <2>1. at[0] \in 0..Len(script) /\ at[0] > 0 /\ script[k] = "close"
    BY Numbers DEF Closes
  <2>2. /\ script \in Scripts /\ at[q] \in 0..Len(script)
        /\ Gathering(q) \in Nat /\ Accepting \in Nat /\ Sending(q) \in Nat /\ Len(S) \in Nat
    BY Numbers
  <2>3. Len(script) \in Nat
    BY <2>2, ScriptTotals
  <2>4. k \in 1..Len(script)
    BY <2>1, <2>3
  <2> QED
    BY <2>1, <2>2, <2>3, <2>4
<1>2. Accepting = 0
  <2>1. k # 1
    BY <1>1, ScriptTotals
  <2>2. ~(Accepting > 0)
    BY <2>1 DEF CountInv
  <2> HIDE DEF Accepting
  <2> QED
    BY <1>1, <2>2
<1>3. Gathering(q) = 2
  <2>1. /\ s # <<>> /\ Head(s) = C[q] /\ Rest(Tail(s), q)
    BY <1>0, RestFacts
  <2>2. C[q] = Recv(q) /\ C[n + 4 + q] = Recv(q) /\ Len(C) \in Nat /\ Len(C) >= n + 5 + n
    BY <1>0, ClosePlan
  <2>3. s \in Seq(RootItem) /\ Tail(s) \in Seq(RootItem)
    <3>1. s \in Seq(RootItem)
      BY DEF Typed
    <3> HIDE DEF s
    <3> QED
      BY <2>1, <3>1, CountRest
  <2>4. Count(s, X) = Count(Tail(s), X) + 1 /\ Count(Tail(s), X) \in Nat
    <3> HIDE DEF s
    <3> QED
      BY <2>1, <2>2, <2>3, CountRest
  <2>5. Count(Tail(s), X) # 0
    <3> DEFINE t == Tail(s)
    <3>1. t \in Seq(RootItem) /\ Len(t) = Len(C) - q /\ \A i \in 1..Len(t) : t[i] = C[q + i]
      BY <2>1, <2>3 DEF Rest
    <3> HIDE DEF t, C, n
    <3>2. n + 4 \in 1..Len(t) /\ q + (n + 4) = n + 4 + q
      BY <1>0, <2>2, <3>1
    <3>3. t[n + 4] \in X
      BY <2>2, <3>1, <3>2
    <3>4. Count(t, X) # 0
      BY <3>1, <3>2, <3>3, CountNat
    <3> QED
      BY <3>4 DEF t
  <2>6. Gathering(q) <= 2
    <3>1. NUp(q, script[k]) = 2
      BY <1>1 DEF NUp
    <3>2. k > 0
      BY <1>1
    <3>3. Gathering(q) <= NUp(q, script[at[0]])
      BY <3>2 DEF CountInv, Within
    <3> QED
      BY <3>1, <3>3
  <2>7. Gathering(q) = Count(s, X)
    BY DEF Gathering
  <2> HIDE DEF Gathering, s, X
  <2> QED
    BY <1>1, <2>4, <2>5, <2>6, <2>7
<1> DEFINE u == U[k - 1]
           v == U[at[q]]
           a == Taken(q)
           l == Len(S)
           g == Sending(q)
<1>4. u \in Nat /\ v \in Nat /\ U[k] = u + 2 /\ (at[q] <= k - 1 => v <= u)
  <2>1. U \in [0..Len(script) -> Nat] /\ U[k] = U[k - 1] + NUp(q, script[k])
        /\ \A i, j \in 0..Len(script) : i <= j => U[i] <= U[j]
    BY <1>1, ScriptTotals
  <2>2. script[k] = "close" => NUp(q, script[k]) = 2
    BY DEF NUp
  <2>3. k - 1 \in 0..Len(script)
    BY <1>1
  <2> QED
    BY <1>1, <2>1, <2>2, <2>3
<1>5. a = u
  <2>1. a = UpGot(q)
    BY <1>2 DEF CountInv, Balanced
  <2>2. UpGot(q) = U[k] - 2
    BY <1>3 DEF UpGot
  <2> HIDE DEF a, u
  <2> QED
    BY <1>4, <2>1, <2>2
<1>6. a = (v - g) - l
  BY DEF Taken, UpSent
<1>7. l > 0 /\ S[1] = Head(S) /\ 1 \in 1..l
  <2>1. IsSeq(S)
    BY LeafPlaces DEF Typed
  <2>2. l # 0 /\ S[1] = Head(S)
    BY <2>1, SeqFacts
  <2> QED
    BY <1>1, <2>2
<1>8. at[q] >= k
  <2> HIDE DEF a, u, v, l, g
  <2>1. g \in Nat /\ l \in Nat
    BY <1>1 DEF g, l
  <2>2. ~(at[q] <= k - 1)
    BY <1>4, <1>5, <1>6, <1>7, <2>1
  <2> QED
    BY <1>1, <2>2
<1>9. at[q] = k
  <2>1. at[q] <= k
    BY <1>0, Holding
  <2> QED
    BY <1>1, <1>8, <2>1
<1>10. Closes(q)
  BY <1>1, <1>9 DEF Closes
<1>11. Taken(q) + 1 = UpTo(q)[at[q] - 1] + 1
  BY <1>5, <1>9
<1>12. \E L : S[1] = <<L>> /\ Logs(M[at[q] - 1], file[q], q, Ph(at[q] - 1), L)
  BY <1>7, <1>10, <1>11 DEF LeafBody
<1> QED
  BY <1>7, <1>9, <1>12

LEMMA CollectsOne ==
    ASSUME Typed, CountInv, Leaf # {}, Closes(0), NEW j \in 0..(Others - 1),
           Communicate(0), NEW M, \A q \in Leaf : LeafBody(M, q),
           Collecting(M[at[0] - 1], Ph(at[0] - 1), j)
    PROVE  Collecting(M[at[0] - 1], Ph(at[0] - 1), j + 1)'
<1> DEFINE m == M[at[0] - 1]
           p == Ph(at[0] - 1)
           q == j + 1
           G == got[0]
<1>0. /\ Others \in Nat /\ q \in Leaf /\ q \in 1..Others /\ q - 1 = j /\ j \in 0..(Others + 3)
      /\ j \in Nat
  BY CommAssumption DEF Others, Leaf
<1>1. /\ Rest(todo[0], j) /\ Holds(m, file[0], p) /\ IsSeq(G) /\ Len(G) = j
      /\ \A x \in 1..j : at[x] = at[0] /\ Logs(m, file[x], x, p, G[x])
  BY DEF Collecting
<1>2. Head(todo[0]) = Recv(q) /\ todo[0] # <<>> /\ Rest(Tail(todo[0]), q)
  <2>1. Close(0)[q] = Recv(q)
    BY <1>0, ClosePlan
  <2> QED
    BY <1>0, <1>1, <2>1, RestFacts
<1>3. script' = script /\ Effect(0) /\ UNCHANGED <<file, disk, at>>
  <2>1. 0 \in Rank
    BY CommAssumption DEF Rank
  <2> QED
    BY <2>1, CommunicateEffect DEF Communicate
<1>4. RootTakes(q)
  <2>1. RootMove
    BY <1>3, RootEffect
  <2>2. Recv(q) \in Taking /\ \A x, w : Recv(q) # Send(x, w)
    BY <1>0, ItemKinds DEF Taking
  <2>3. \A x : RootTakes(x) => x = q
    BY <1>2, ItemKinds DEF RootTakes
  <2> QED
    BY <1>2, <2>1, <2>2, <2>3 DEF RootMove, RootEnters, RootPasses, RootSends
<1>5. /\ stream[<<q, 0>>] # <<>> /\ todo'[0] = Tail(todo[0])
      /\ got'[0] = G \o Head(stream[<<q, 0>>])
  BY <1>4 DEF RootTakes
<1>6. /\ at[q] = at[0]
      /\ \E L : Head(stream[<<q, 0>>]) = <<L>> /\ Logs(m, file[q], q, p, L)
  BY <1>0, <1>1, <1>5, NextLog
<1>7. PICK L : Head(stream[<<q, 0>>]) = <<L>> /\ Logs(m, file[q], q, p, L)
  BY <1>6
<1>8. /\ IsSeq(got'[0]) /\ Len(got'[0]) = q
      /\ \A x \in 1..q : got'[0][x] = IF x <= j THEN G[x] ELSE L
  <2> DEFINE t == <<L>>
  <2>1. IsSeq(t) /\ Len(t) = 1 /\ t[1] = L
    <3>1. t \in Seq({L})
      OBVIOUS
    <3> QED
      BY <3>1 DEF IsSeq
  <2> HIDE DEF t
  <2>2. /\ IsSeq(G \o t) /\ Len(G \o t) = Len(G) + Len(t)
        /\ \A x \in 1..Len(G) + Len(t) :
             (G \o t)[x] = IF x <= Len(G) THEN G[x] ELSE t[x - Len(G)]
    BY <1>1, <2>1, ConcatFacts
  <2>3. \A x \in 1..q : (x <= j) \/ (~(x <= j) /\ x - j = 1)
    BY <1>0
  <2>4. got'[0] = G \o t
    BY <1>5, <1>7 DEF t
  <2> QED
    BY <1>1, <2>1, <2>2, <2>3, <2>4
<1>9. ASSUME NEW x \in 1..q PROVE at[x] = at[0] /\ Logs(m, file[x], x, p, got'[0][x])
  <2>1. (x \in 1..j /\ x <= j) \/ (x = q /\ ~(x <= j))
    BY <1>0
  <2> QED
    BY <1>1, <1>6, <1>7, <1>8, <2>1
<1>10. m' = m /\ p' = p
  BY <1>3 DEF Ph
<1>11. Rest(Tail(todo[0]), q) /\ Holds(m, file[0], p)
  BY <1>1, <1>2
<1> HIDE DEF m, p, q, G
<1>12. Collecting(m, p, q)'
  BY <1>3, <1>5, <1>8, <1>9, <1>10, <1>11 DEF Collecting
<1> QED
  BY <1>12 DEF m, p, q

LEMMA Collects ==
    ASSUME Typed, CountInv, ShapeInv, Leaf # {}, Proper(script), Closes(0), Step(0) \/ Dies(0),
           ~Enter(0), ~Halts(0), NEW M, BodyOf(M), NEW j \in 0..Others,
           Collecting(M[at[0] - 1], Ph(at[0] - 1), j)
    PROVE  \/ \E i \in 0..Others : Collecting(M[at[0] - 1], Ph(at[0] - 1), i)'
           \/ Collected(M[at[0] - 1])'
<1> DEFINE m == M[at[0] - 1]
           p == Ph(at[0] - 1)
           n == Others
           s == todo[0]
<1>0. /\ 0 \in Rank /\ n \in Nat /\ DOMAIN todo = Rank /\ DOMAIN file = Rank /\ script' = script
      /\ at' = at /\ script \in Scripts
      /\ \A x \in Rank : x # 0 => todo'[x] = todo[x] /\ file'[x] = file[x]
      /\ \A x \in Leaf : x \in Rank /\ x # 0
  <2>1. 0 \in Rank /\ n \in Nat /\ \A x \in Leaf : x \in Rank /\ x # 0
    BY CommAssumption DEF Rank, Others, Leaf
  <2> QED
    BY <2>1, Aside, SameCall DEF Typed, RootInv
<1>1. Communicate(0) \/ \E w : Does(0, w)
  BY <1>0, OwnSteps
<1>2. Rest(s, j) /\ s # <<>> /\ Head(s) = Close(0)[j + 1] /\ Rest(Tail(s), j + 1)
  <2>1. j \in 0..(n + 3)
    BY <1>0
  <2> QED
    BY <2>1, RestFacts DEF Collecting
<1>3. CASE j < n
  <2>1. j \in 0..(n - 1) /\ j + 1 \in 1..n /\ j + 1 \in 0..n
    BY <1>0, <1>3
  <2>2. Head(s).do # "local"
    <3>1. Head(s) = Recv(j + 1)
      BY <1>2, <2>1, ClosePlan
    <3> QED
      BY <3>1 DEF Recv
  <2>3. Communicate(0)
    BY <1>0, <1>1, <2>2, DoesHead
  <2>4. \A q \in Leaf : LeafBody(M, q)
    BY DEF BodyOf
  <2>5. Collecting(M[at[0] - 1], Ph(at[0] - 1), j + 1)'
    BY <2>1, <2>3, <2>4, CollectsOne
  <2> QED
    BY <2>1, <2>5
<1>4. CASE j = n
  <2>1. Head(s) = Local("merge")
    BY <1>2, <1>4, ClosePlan
  <2>2. Merge(0) /\ todo'[0] = Tail(s)
    <3>1. ~Communicate(0)
      BY <1>0, <2>1, LocalNames, Talks
    <3>2. PICK w : Does(0, w)
      BY <1>1, <3>1
    <3>3. w = "merge" /\ todo'[0] = Tail(s)
      BY <1>0, <2>1, <3>2, LocalNames, DoesHead
    <3> QED
      BY <3>2, <3>3 DEF Does
  <2>3. at[0] \in 1..Len(script) /\ script[at[0]] = "close" /\ at[0] - 1 \in 0..Len(script)
    <3>1. at[0] \in Nat /\ at[0] <= Len(script) /\ Len(script) \in Nat /\ at[0] > 0
          /\ script[at[0]] = "close"
      BY <1>0, ScriptAssumption DEF Typed, RootInv, Closes
    <3> QED
      BY <3>1
  <2>4. p \in {"clean", "written"} /\ Sized(m.dims)
    <3>1. p \in {"clean", "written"}
      BY <1>0, <2>3, PhaseTable
    <3> QED
      BY <2>3, <3>1 DEF BodyOf, Chain, ChainTo
  <2>5. \A q \in Leaf : at[q] = at[0] /\ Holds(m, file[q], p)
    <3> SUFFICES ASSUME NEW q \in Leaf PROVE at[q] = at[0] /\ Holds(m, file[q], p)
      OBVIOUS
    <3>1. q \in 1..j
      BY <1>4, CommAssumption DEF Others, Leaf
    <3>2. at[q] = at[0]
      BY <3>1 DEF Collecting
    <3>3. Closes(q)
      BY <3>2 DEF Closes
    <3> QED
      BY <3>2, <3>3 DEF BodyOf, LeafBody
  <2>6. Fielded(file[0]) /\ Collecting(m, p, Others)
    BY <1>0, <1>4 DEF ShapeInv
  <2> HIDE DEF m, p
  <2>7. /\ file'[0].name = m.name /\ file'[0].dims = m.dims
        /\ \A q \in Leaf : \A c \in Row(m.dims, q) : file'[0].data[c] = file[q].data[c]
    BY <1>0, <2>2, <2>4, <2>5, <2>6, Merges
  <2>8. LocalsIn(todo'[0], Merged)
    BY <1>2, <1>4, <2>2, RestMerged
  <2>9. at[0] \in Int /\ at[0] >= at[0]
    BY <2>3
  <2>10. m' = m
    BY <1>0 DEF m
  <2>11. Collected(m)'
    BY <1>0, <2>5, <2>7, <2>8, <2>9, <2>10 DEF Collected
  <2> QED
    BY <2>11 DEF m
<1> QED
  BY <1>0, <1>3, <1>4

LEMMA KeepsCollected ==
    ASSUME Typed, ShapeInv, Leaf # {}, Closes(0), Step(0) \/ Dies(0), ~Enter(0),
           NEW m, Collected(m)
    PROVE  Collected(m)'
<1>0. /\ 0 \in Rank /\ DOMAIN todo = Rank /\ DOMAIN file = Rank /\ at' = at
      /\ \A x \in Rank : x # 0 => file'[x] = file[x]
      /\ \A x \in Leaf : x \in Rank /\ x # 0
  <2>1. 0 \in Rank /\ \A x \in Leaf : x \in Rank /\ x # 0
    BY CommAssumption DEF Rank, Leaf
  <2> QED
    BY <2>1, Aside, SameCall
<1>1. /\ LocalsIn(todo'[0], Merged)
      /\ \/ Communicate(0) /\ UNCHANGED <<file, disk, at>>
         \/ Halts(0)
         \/ \E w : Does(0, w) /\ Head(todo[0]) \in Merged /\ Head(todo[0]).what = w
  BY <1>0, LocalsStep DEF Collected
<1>2. Alters(file[0], file'[0])
  <2>1. file' = file => Alters(file[0], file'[0])
    BY DEF Alters
  <2>2. ASSUME NEW w, Does(0, w), Head(todo[0]) \in Merged, Head(todo[0]).what = w
        PROVE  Alters(file[0], file'[0])
    <3>1. w \in {"detach", "save", "seal", "drop"}
      BY <2>2, LocalNames DEF Merged
    <3>2. \/ file'[0] = [file[0] EXCEPT !.attached = FALSE, !.log = <<>>]
          \/ file'[0] = [file[0] EXCEPT !.readOnly = TRUE]
          \/ file'[0] = [file[0] EXCEPT !.open = FALSE]
          \/ file' = file
      BY <1>0, <2>2, <3>1 DEF Does, Detach, Save, Seal, Drop
    <3>3. Fielded(file[0])
      BY <1>0 DEF ShapeInv
    <3> QED
      BY <2>1, <3>2, <3>3 DEF Alters, Fielded, Modelled
  <2> QED
    BY <1>1, <2>1, <2>2 DEF Halts
<1> QED
  BY <1>0, <1>1, <1>2 DEF Collected, Alters

LEMMA RootBodyOwn ==
    ASSUME Typed, CountInv, ShapeInv, Leaf # {}, Proper(script), Step(0) \/ Dies(0),
           NEW M, BodyOf(M)
    PROVE  RootBody(M)'
<1> DEFINE k == at[0]
<1>0. /\ 0 \in Rank /\ script' = script /\ script \in Scripts /\ Others \in Nat /\ DOMAIN got = Rank
      /\ k \in Nat
  <2>1. 0 \in Rank /\ Others \in Nat
    BY CommAssumption DEF Rank, Others
  <2> QED
    BY <2>1, Aside DEF Typed, RootInv
<1>1. CASE Enter(0)
  <2>1. /\ k + 1 \in 1..Len(script) /\ at'[0] = k + 1 /\ todo'[0] = Plan(0, script[k + 1])
        /\ todo[0] = <<>> /\ file' = file /\ (k + 1) - 1 = k
    BY <1>0, <1>1, Entered
  <2> SUFFICES ASSUME script[k + 1] = "close" PROVE RootBody(M)'
    BY <1>0, <2>1 DEF RootBody, Closes
  <2>2. Ready(M[k], file[0], 0, Ph(k))
    BY <1>0, <2>1, ReturnedReady DEF BodyOf
  <2>3. Ph(k) # "closed"
    BY <1>0, <2>1, PhaseTable
  <2>4. Holds(M[k], file[0], Ph(k))
    BY <2>2, <2>3 DEF Ready
  <2>5. got'[0] = <<>>
    BY <1>0, <1>1 DEF Enter
  <2>6. Rest(todo'[0], 0)
    BY <2>1, ClosePlan, RestFacts
  <2>7. IsSeq(<<>>) /\ Len(<<>>) = 0 /\ 1..0 = {}
    <3>1. <<>> \in Seq({})
      OBVIOUS
    <3> QED
      BY <3>1 DEF IsSeq
  <2>8. Collecting(M[at[0] - 1], Ph(at[0] - 1), 0)'
    BY <1>0, <2>1, <2>4, <2>5, <2>6, <2>7 DEF Collecting, Ph
  <2>9. 0 \in 0..Others
    BY <1>0
  <2> QED
    BY <2>8, <2>9 DEF RootBody
<1>2. CASE ~Enter(0)
  <2>1. at' = at /\ (Closes(0)' <=> Closes(0))
    BY <1>0, <1>2, SameCall DEF Closes
  <2> SUFFICES ASSUME Closes(0) PROVE RootBody(M)'
    BY <2>1 DEF RootBody
  <2>2. CASE Halts(0)
    <3>1. todo' = todo /\ got' = got /\ file' = file /\ Ph(k - 1)' = Ph(k - 1)
      BY <1>0, <2>1, <2>2 DEF Halts, Ph
    <3>2. \A j : Collecting(M[k - 1], Ph(k - 1), j) => Collecting(M[k - 1], Ph(k - 1), j)'
      BY <2>1, <3>1 DEF Collecting
    <3>3. Collected(M[k - 1]) => Collected(M[k - 1])'
      BY <2>1, <3>1 DEF Collected
    <3> QED
      BY <3>2, <3>3 DEF BodyOf, RootBody
  <2>3. CASE ~Halts(0)
    <3>1. ASSUME NEW j \in 0..Others, Collecting(M[k - 1], Ph(k - 1), j)
          PROVE  RootBody(M)'
      BY <1>2, <2>3, <3>1, Collects DEF RootBody
    <3>2. ASSUME Collected(M[k - 1]) PROVE RootBody(M)'
      <4> DEFINE m == M[k - 1]
      <4>1. m' = m
        BY <2>1
      <4> HIDE DEF m
      <4>2. Collected(m)
        BY <3>2 DEF m
      <4>3. \A x : Collected(x) => Collected(x)'
        BY <1>2, KeepsCollected
      <4> QED
        BY <4>1, <4>2, <4>3 DEF RootBody, m
    <3> QED
      BY <3>1, <3>2 DEF BodyOf, RootBody
  <2> QED
    BY <2>2, <2>3
<1> QED
  BY <1>1, <1>2

LEMMA LeafBodyRoot ==
    ASSUME Typed, Leaf # {}, Step(0) \/ Dies(0), NEW q \in Leaf, NEW M, LeafBody(M, q)
    PROVE  LeafBody(M, q)'
<1> DEFINE S == stream[<<q, 0>>]
           k == at[q]
<1>0. /\ script' = script /\ at'[q] = at[q] /\ todo'[q] = todo[q] /\ file'[q] = file[q]
      /\ <<q, 0>> \in Streams /\ DOMAIN stream = Streams /\ IsSeq(S)
  <2>1. 0 \in Rank /\ q \in Rank /\ q # 0
    BY LeafPlaces
  <2>2. <<q, 0>> \in Streams /\ DOMAIN stream = Streams /\ IsSeq(S)
    BY LeafPlaces DEF Typed
  <2> QED
    BY <2>1, <2>2, Aside
<1>1. CASE stream'[<<q, 0>>] = S
  BY <1>0, <1>1, LeafStays
<1>2. CASE RootTakes(q)
  <2>1. stream'[<<q, 0>>] = Tail(S) /\ S # <<>>
    BY <1>0, <1>2 DEF RootTakes
  <2> DEFINE n == Len(S)
             S2 == stream'[<<q, 0>>]
             t == Taken(q)
             x == UpSent(q)
  <2>2. n \in Nat /\ Len(S2) = n - 1 /\ \A i \in 1..n - 1 : S2[i] = S[i + 1]
    BY <1>0, <2>1, SeqFacts
  <2>3. x \in Int
    <3>1. UpTo(q)[at[q]] \in Nat /\ Sending(q) \in Nat
      BY Numbers, ScriptTotals
    <3> QED
      BY <3>1 DEF UpSent
  <2>4. x' = x
    BY <1>0 DEF UpSent, UpTo, Sending
  <2>5. t = x - n /\ t' = x - Len(S2)
    BY <2>4 DEF Taken
  <2>6. (Closes(q)' <=> Closes(q)) /\ UpTo(q)' = UpTo(q) /\ Ph(k - 1)' = Ph(k - 1)
    BY <1>0 DEF Closes, UpTo, Ph
  <2>7. \A i \in 1..Len(S2) : i + 1 \in 1..n /\ t' + i = t + (i + 1)
    <3> HIDE DEF n, S2, t, x
    <3>1. \A i \in 1..(n - 1) : i + 1 \in 1..n /\ (x - (n - 1)) + i = (x - n) + (i + 1)
      BY <2>2, <2>3
    <3> QED
      BY <2>2, <2>5, <3>1
  <2>8. ASSUME Closes(q), NEW i \in 1..Len(S2), t' + i = UpTo(q)[k - 1] + 1
        PROVE  \E L : S2[i] = <<L>> /\ Logs(M[k - 1], file[q], q, Ph(k - 1), L)
    <3>1. i + 1 \in 1..n /\ t + (i + 1) = UpTo(q)[k - 1] + 1 /\ S2[i] = S[i + 1]
      BY <2>2, <2>7, <2>8
    <3> QED
      BY <2>8, <3>1 DEF LeafBody
  <2> QED
    BY <1>0, <2>6, <2>8 DEF LeafBody, Ph
<1>3. Resting \/ Effect(0)
  BY RankEffect, LeafPlaces
<1>4. CASE Effect(0)
  <2>1. RootMove
    BY <1>4, RootEffect
  <2>2. ASSUME NEW p, NEW w, RootSends(p, w) PROVE stream'[<<q, 0>>] = S
    <3>1. <<0, p>> # <<q, 0>>
      BY LeafPlaces
    <3> QED
      BY <1>0, <2>2, <3>1 DEF RootSends
  <2>3. ASSUME NEW p, RootTakes(p), p # q PROVE stream'[<<q, 0>>] = S
    <3>1. <<p, 0>> # <<q, 0>>
      BY <2>3
    <3> QED
      BY <1>0, <2>3, <3>1 DEF RootTakes
  <2> QED
    BY <1>1, <1>2, <2>1, <2>2, <2>3 DEF RootMove, RootEnters, RootPasses
<1> QED
  BY <1>1, <1>3, <1>4 DEF Resting

-----------------------------------------------------------------------------
(* The file on disk.                                                       *)

LEMMA HaltsDisk ==
    ASSUME DiskBody, Halts(0), script' = script
    PROVE  DiskBody'
<1>1. Ph(Done(0))' = Ph(Done(0)) /\ file' = file
  BY DEF Halts, Done, Ph
<1> SUFFICES ASSUME Ph(Done(0)) = "closed"
             PROVE  ~file[0].open /\ (disk'.st = "whole" => Sized(disk'.model.dims))
  BY <1>1 DEF DiskBody
<1>2. ~file[0].open /\ (disk.st = "whole" => Sized(disk.model.dims))
  BY DEF DiskBody
<1>3. disk' \in {disk, Torn}
  BY <1>2 DEF Halts, Dropped, Interrupted
<1>4. Torn.st # "whole"
  BY DEF Torn
<1> QED
  BY <1>2, <1>3, <1>4

LEMMA CloseDisk ==
    ASSUME Typed, ShapeInv, Leaf # {}, Proper(script), Closes(0), Step(0) \/ Dies(0), ~Enter(0),
           ~Halts(0), DiskBody, NEW M, BodyOf(M)
    PROVE  DiskBody'
<1> DEFINE k == at[0]
           s == todo[0]
           n == Others
<1>0. /\ 0 \in Rank /\ n \in Nat /\ DOMAIN todo = Rank /\ DOMAIN file = Rank /\ script' = script
      /\ at' = at /\ script \in Scripts /\ k \in 1..Len(script) /\ script[k] = "close"
      /\ Len(script) \in Nat
  <2>1. 0 \in Rank /\ n \in Nat
    BY CommAssumption DEF Rank, Others
  <2>2. /\ DOMAIN todo = Rank /\ DOMAIN file = Rank /\ script' = script /\ at' = at
        /\ script \in Scripts /\ k \in Nat /\ k > 0 /\ k <= Len(script) /\ script[k] = "close"
    BY <2>1, Aside, SameCall DEF Typed, RootInv, Closes
  <2>3. Len(script) \in Nat
    BY <2>2, ScriptAssumption
  <2>4. k \in 1..Len(script)
    BY <2>2, <2>3
  <2> QED
    BY <2>1, <2>2, <2>3, <2>4
<1>1. Ph(k - 1) \in {"clean", "written"} /\ k - 1 \in 0..Len(script)
  BY <1>0, PhaseTable
<1>2. file[0].dims = M[k - 1].dims /\ Sized(M[k - 1].dims)
  <2>1. Sized(M[k - 1].dims)
    BY <1>1 DEF BodyOf, Chain, ChainTo
  <2> QED
    BY <2>1 DEF BodyOf, RootBody, Collecting, Collected, Holds
<1>3. ASSUME ~Quiet(todo'[0]) PROVE DiskBody'
  <2>1. Done(0)' = k - 1
    BY <1>0, <1>3 DEF Done
  <2>2. Ph(Done(0))' = Ph(k - 1)
    BY <1>0, <2>1 DEF Ph
  <2> QED
    BY <1>1, <2>2 DEF DiskBody
<1>4. ASSUME NEW j \in 0..(n + 3), Rest(s, j) PROVE DiskBody'
  <2>1. s # <<>> /\ Head(s) = Close(0)[j + 1] /\ ~Quiet(Tail(s))
    BY <1>4, RestFacts
  <2>2. Head(s).do # "send"
    <3>1. j + 1 \in 1..n \/ j + 1 \in {n + 1, n + 2, n + 3, n + 4}
      BY <1>0
    <3>2. \A x : Recv(x).do # "send" /\ Local(x).do # "send"
      BY DEF Recv, Local
    <3> QED
      BY <2>1, <3>1, <3>2, ClosePlan
  <2>3. todo'[0] = Tail(s)
    <3>1. Communicate(0) \/ \E w : Does(0, w)
      BY <1>0, OwnSteps
    <3>2. Communicate(0) => todo'[0] = Tail(s)
      BY <1>0, <2>2, Talks
    <3> QED
      BY <1>0, <3>1, <3>2, DoesHead
  <2> QED
    BY <1>3, <2>1, <2>3
<1>5. ASSUME LocalsIn(s, Finishing), Saved, file[0].readOnly PROVE DiskBody'
  <2>1. \/ Communicate(0) /\ UNCHANGED <<file, disk, at>>
        \/ \E w : Does(0, w) /\ Head(s) \in Finishing /\ Head(s).what = w
    BY <1>0, <1>5, LocalsStep
  <2>2. CASE Communicate(0)
    <3>1. (Quiet(todo'[0]) <=> Quiet(s)) /\ UNCHANGED <<file, disk, at>>
      BY <1>0, <2>2, TalkQuiet
    <3>2. Done(0)' = Done(0)
      BY <3>1 DEF Done
    <3> QED
      BY <1>0, <3>1, <3>2 DEF DiskBody, Ph
  <2>3. ASSUME NEW w, Does(0, w), Head(s) \in Finishing, Head(s).what = w PROVE DiskBody'
    <3>1. w = "drop"
      BY <2>3, LocalNames DEF Finishing
    <3>2. disk' = Dropped(file[0]) /\ file'[0] = [file[0] EXCEPT !.open = FALSE]
      BY <1>0, <2>3, <3>1 DEF Does, Drop
    <3>3. disk' = Whole(Model(file[0]))
      BY <1>5, <3>2 DEF Dropped, Saved
    <3>4. disk'.model.dims = file[0].dims
      BY <3>3 DEF Whole, Model
    <3>5. ~file'[0].open
      BY <1>0, <3>2 DEF ShapeInv, Fielded, HasFlags
    <3> QED
      BY <1>2, <3>4, <3>5 DEF DiskBody
  <2> QED
    BY <2>1, <2>2, <2>3
<1> QED
  BY <1>4, <1>5 DEF ShapeInv, RootCloses

LEMMA DiskStep ==
    ASSUME Typed, OpenInv, ShapeInv, Leaf # {}, Proper(script), Step(0) \/ Dies(0),
           DiskBody, NEW M, BodyOf(M)
    PROVE  DiskBody'
<1> DEFINE k == at[0]
<1>0. 0 \in Rank /\ script' = script /\ script \in Scripts /\ k \in Nat /\ DOMAIN todo = Rank
  <2>1. 0 \in Rank
    BY CommAssumption DEF Rank
  <2> QED
    BY <2>1, Aside DEF Typed, RootInv
<1>1. CASE Enter(0)
  <2> DEFINE call == script[k + 1]
  <2>1. /\ k + 1 \in 1..Len(script) /\ call \in Call /\ at'[0] = k + 1 /\ todo'[0] = Plan(0, call)
        /\ todo[0] = <<>> /\ file' = file /\ disk' = disk /\ (k + 1) - 1 = k
    BY <1>0, <1>1, Entered
  <2>2. Done(0) = k
    <3>1. Quiet(<<>>)
      <4>1. Len(<<>>) = 0
        OBVIOUS
      <4> QED
        BY <4>1 DEF Quiet
    <3> QED
      BY <2>1, <3>1 DEF Done
  <2>3. CASE ~Quiet(todo'[0])
    <3>1. Done(0)' = k
      BY <2>1, <2>3 DEF Done
    <3> QED
      BY <1>0, <2>1, <2>2, <3>1 DEF DiskBody, Ph
  <2>4. CASE Quiet(todo'[0])
    <3>1. Done(0)' = k + 1
      BY <2>1, <2>4 DEF Done
    <3>2. call # "close"
      <4>1. ~Quiet(Close(0))
        BY RestFacts
      <4> QED
        BY <2>1, <2>4, <4>1, ClosePlan
    <3>3. call # "open"
      BY <1>0, <1>1, <2>1, <2>4, OpenEnters DEF Opened, Opens
    <3>4. call \notin Acting
      BY <1>0, <2>1, <2>4, ActingPlans
    <3>5. call \in Talking
      BY <2>1, <3>2, <3>3, <3>4 DEF Call, Talking, Acting
    <3>6. Ph(k + 1) = Ph(k)
      BY <1>0, <2>1, <3>5, PhaseTable
    <3> QED
      BY <1>0, <2>1, <2>2, <3>1, <3>6 DEF DiskBody, Ph
  <2> QED
    BY <2>3, <2>4
<1>2. CASE Halts(0)
  BY <1>0, <1>2, HaltsDisk
<1>3. CASE ~Enter(0) /\ ~Halts(0) /\ k = 0
  <2>1. todo[0] = <<>>
    BY <1>0, <1>3, TodoSeq
  <2>2. ~Communicate(0) /\ \A w : ~Does(0, w)
    BY <1>0, <2>1, Talks, DoesHead
  <2> QED
    BY <1>0, <1>3, <2>2, OwnSteps
<1>4. CASE ~Enter(0) /\ ~Halts(0) /\ k > 0 /\ Closes(0)
  BY <1>4, CloseDisk
<1>5. CASE ~Enter(0) /\ ~Halts(0) /\ k > 0 /\ ~Closes(0)
  <2>1. at' = at /\ (Stays(0) \/ Attaches(0) \/ Acts(0) \/ Loads(0))
    BY <1>0, <1>5, WithinCall
  <2>2. k \in 1..Len(script)
    <3>1. k <= Len(script) /\ Len(script) \in Nat
      BY <1>0, ScriptAssumption DEF Typed, RootInv
    <3> QED
      BY <1>0, <1>5, <3>1
  <2>3. CASE Stays(0)
    <3>1. Done(0)' = Done(0) /\ file' = file /\ disk' = disk
      BY <2>1, <2>3 DEF Done, Stays
    <3> QED
      BY <1>0, <3>1 DEF DiskBody, Ph
  <2>4. CASE Quiet(todo'[0]) /\ Ph(k) # "closed"
    <3>1. Ph(Done(0))' = Ph(k)
      BY <1>0, <2>1, <2>4 DEF Done, Ph
    <3> QED
      BY <2>4, <3>1 DEF DiskBody
  <2>5. CASE Attaches(0) \/ Loads(0)
    <3>1. script[k] \in {"create", "open"} /\ Quiet(todo'[0])
      BY <2>5 DEF Attaches, Loads, Opens
    <3>2. Ph(k) # "closed"
      BY <1>0, <2>2, <3>1, PhaseTable
    <3> QED
      BY <2>4, <3>1, <3>2
  <2>6. CASE Acts(0)
    <3>1. /\ ~Quiet(todo[0]) /\ Quiet(todo'[0]) /\ script[k] \in Acting
          /\ Does(0, script[k])
      BY <2>6 DEF Acts
    <3>2. CASE script[k] = "prepare"
      <4>1. Prepare(0) /\ Ph(k - 1) = "closed" /\ Done(0) = k - 1
        BY <1>0, <2>2, <3>1, <3>2, PhaseTable DEF Does, Done
      <4>2. disk' = Whole(Fresh("d", <<0, k>>)) /\ file' = file
        BY <4>1 DEF Prepare
      <4>3. disk'.model.dims = Shape
        BY <4>2 DEF Whole, Fresh
      <4>4. ~file[0].open
        BY <4>1 DEF DiskBody
      <4> QED
        BY <4>2, <4>3, <4>4 DEF DiskBody, Sized
    <3>3. CASE script[k] # "prepare"
      <4>1. Ph(k) # "closed"
        BY <1>0, <2>2, <3>1, <3>3, PhaseTable DEF Acting
      <4> QED
        BY <2>4, <3>1, <4>1
    <3> QED
      BY <3>2, <3>3
  <2> QED
    BY <2>1, <2>3, <2>5, <2>6
<1> QED
  BY <1>0, <1>1, <1>2, <1>3, <1>4, <1>5

-----------------------------------------------------------------------------
(* Every step.                                                             *)

LEMMA QuietNothing == Quiet(<<>>)
<1>1. Len(<<>>) = 0
  OBVIOUS
<1> QED
  BY <1>1 DEF Quiet

(* A rank that does nothing keeps its part. *)
LEMMA RankStays ==
    ASSUME NEW r \in Rank, script' = script, at'[r] = at[r], todo'[r] = todo[r],
           file'[r] = file[r], NEW M, RankBody(M, r)
    PROVE  RankBody(M, r)'
<1>1. (Closes(r)' <=> Closes(r)) /\ Done(r)' = Done(r)
  BY DEF Closes, Done
<1> QED
  BY <1>1 DEF RankBody, Ph

LEMMA LeafBodyStep ==
    ASSUME Typed, CountInv, OpenInv, ShapeInv, Leaf # {}, Proper(script), NEW q \in Leaf,
           Step(q) \/ Dies(q), DiskBody, NEW M, BodyOf(M)
    PROVE  DiskBody' /\ BodyOf(M)'
<1>0. /\ q \in Rank /\ 0 \in Rank /\ q # 0 /\ script' = script /\ disk' = disk
      /\ \A x \in Rank : x # q => at'[x] = at[x] /\ todo'[x] = todo[x] /\ file'[x] = file[x]
  BY LeafPlaces, Aside
<1>1. Chain(M) /\ RootBody(M) /\ \A r \in Rank : RankBody(M, r)
  BY DEF BodyOf
<1>2. \A x \in Leaf : x \in Rank /\ LeafBody(M, x)
  BY LeafPlaces DEF BodyOf
<1>3. Chain(M)'
  BY <1>0, <1>1 DEF Chain, ChainTo, Ph
<1>4. RootBody(M)'
  BY <1>1, RootBodyStays
<1>5. RankBody(M, q)'
  <2>1. CASE Loads(q)
    <3>1. ~Enter(q)
      <4>1. todo[q] # <<>>
        BY <1>0, <2>1, QuietNothing DEF Loads
      <4> QED
        BY <4>1 DEF Enter
    <3> QED
      BY <1>0, <1>1, <2>1, <3>1, LeafLoadRank
  <2>2. CASE ~Loads(q)
    BY <1>0, <1>1, <2>2, OwnRank
  <2> QED
    BY <2>1, <2>2
<1>6. ASSUME NEW r \in Rank PROVE RankBody(M, r)'
  <2>1. CASE r # q
    BY <1>0, <1>1, <2>1, RankStays
  <2> QED
    BY <1>5, <2>1
<1>7. ASSUME NEW x \in Leaf PROVE LeafBody(M, x)'
  <2>1. CASE x = q
    BY <1>0, <1>1, <1>2, <2>1, LeafBodyOwn
  <2>2. CASE x # q
    <3>1. Resting \/ Effect(q)
      BY <1>0, RankEffect
    <3>2. stream'[<<x, 0>>] = stream[<<x, 0>>]
      BY <2>2, <3>1, LeafEffect DEF Resting, KeptStreams
    <3>3. at'[x] = at[x] /\ todo'[x] = todo[x] /\ file'[x] = file[x]
      BY <1>0, <1>2, <2>2
    <3> QED
      BY <1>0, <1>2, <3>2, <3>3, LeafStays
  <2> QED
    BY <2>1, <2>2
<1>8. DiskBody'
  <2>1. Done(0)' = Done(0) /\ file'[0] = file[0]
    BY <1>0 DEF Done
  <2> QED
    BY <1>0, <2>1 DEF DiskBody, Ph
<1> QED
  BY <1>3, <1>4, <1>6, <1>7, <1>8 DEF BodyOf

LEMMA RootBodyStep ==
    ASSUME Typed, CountInv, OpenInv, ShapeInv, Leaf # {}, Proper(script),
           Step(0) \/ Dies(0), DiskBody, NEW M, BodyOf(M)
    PROVE  DiskBody' /\ \E N : BodyOf(N)'
<1>0. /\ 0 \in Rank /\ script' = script /\ \A x \in Leaf : x \in Rank /\ x # 0
      /\ \A x \in Rank : x # 0 => at'[x] = at[x] /\ todo'[x] = todo[x] /\ file'[x] = file[x]
  <2>1. 0 \in Rank /\ \A x \in Leaf : x \in Rank /\ x # 0
    BY CommAssumption DEF Rank, Leaf
  <2> QED
    BY <2>1, Aside
<1>1. Chain(M) /\ RootBody(M) /\ \A r \in Rank : RankBody(M, r)
  BY DEF BodyOf
<1>2. \A x \in Leaf : LeafBody(M, x)
  BY DEF BodyOf
<1>3. CASE Loads(0)
  <2>1. ~Enter(0)
    <3>1. todo[0] # <<>>
      BY <1>3, QuietNothing DEF Loads
    <3> QED
      BY <3>1 DEF Enter
  <2> QED
    BY <1>3, <2>1, RootLoads
<1>4. CASE ~Loads(0)
  <2>1. Chain(M)'
    BY <1>0, <1>1 DEF Chain, ChainTo, Ph
  <2>2. RootBody(M)'
    BY RootBodyOwn
  <2>3. RankBody(M, 0)'
    BY <1>0, <1>1, <1>4, OwnRank
  <2>4. ASSUME NEW r \in Rank PROVE RankBody(M, r)'
    <3>1. CASE r # 0
      BY <1>0, <1>1, <3>1, RankStays
    <3> QED
      BY <2>3, <3>1
  <2>5. \A x \in Leaf : LeafBody(M, x)'
    BY <1>2, LeafBodyRoot
  <2>6. DiskBody'
    BY DiskStep
  <2>7. BodyOf(M)'
    BY <2>1, <2>2, <2>4, <2>5 DEF BodyOf
  <2> QED
    BY <2>6, <2>7
<1> QED
  BY <1>3, <1>4

LEMMA BodyStep ==
    ASSUME Typed, CountInv, OpenInv, ShapeInv, BodyInv, [Next]_vars
    PROVE  BodyInv'
<1>1. script' = script
  BY StepEffect
<1> SUFFICES ASSUME Leaf # {}, Proper(script) PROVE DiskBody' /\ \E N : BodyOf(N)'
  BY <1>1 DEF BodyInv
<1>2. PICK M : BodyOf(M)
  BY DEF BodyInv
<1>3. DiskBody
  BY DEF BodyInv
<1>4. ASSUME NEW r \in Rank, Step(r) \/ Dies(r) PROVE DiskBody' /\ \E N : BodyOf(N)'
  <2>1. r = 0 \/ r \in Leaf
    BY CommAssumption DEF Rank, Leaf
  <2>2. CASE r = 0
    BY <1>2, <1>3, <1>4, <2>2, RootBodyStep
  <2>3. CASE r \in Leaf
    <3>1. DiskBody' /\ BodyOf(M)'
      BY <1>2, <1>3, <1>4, <2>3, LeafBodyStep
    <3> QED
      BY <3>1
  <2> QED
    BY <2>1, <2>2, <2>3
<1>5. CASE UNCHANGED vars
  <2>1. \A r \in Rank : (Closes(r)' <=> Closes(r)) /\ Done(r)' = Done(r)
    BY <1>5 DEF vars, commVars, Closes, Done
  <2>2. \A r \in Rank : RankBody(M, r)'
    BY <1>2, <1>5, <2>1 DEF BodyOf, RankBody, vars, commVars, Ph
  <2>3. \A q \in Leaf : LeafBody(M, q)'
    <3> TAKE q \in Leaf
    <3>1. LeafBody(M, q)
      BY <1>2 DEF BodyOf
    <3> QED
      BY <1>5, <3>1, LeafStays DEF vars, commVars
  <2>4. Chain(M)'
    BY <1>2, <1>5 DEF BodyOf, vars, Chain, ChainTo, Ph
  <2>5. RootBody(M)'
    BY <1>2, <1>5 DEF BodyOf, RootBody, Collecting, Collected, Closes, Ph, Rest, vars, commVars
  <2>6. DiskBody'
    BY <1>3, <1>5 DEF DiskBody, Done, Ph, vars, commVars
  <2>7. BodyOf(M)'
    BY <2>2, <2>3, <2>4, <2>5 DEF BodyOf
  <2> QED
    BY <2>6, <2>7
<1> QED
  BY <1>4, <1>5 DEF Next

LEMMA BodyInit ==
    ASSUME Init
    PROVE  BodyInv
<1> SUFFICES ASSUME Leaf # {}, Proper(script) PROVE DiskBody /\ \E M : BodyOf(M)
  BY DEF BodyInv
<1>0. /\ script \in Scripts /\ 0 \in Rank /\ \A q \in Leaf : q \in Rank
      /\ \A r \in Rank : at[r] = 0 /\ todo[r] = <<>> /\ file[r] = NoFile
  BY CommAssumption DEF Init, Rank, Leaf
<1>1. \A r \in Rank : Done(r) = 0 /\ ~Closes(r)
  BY <1>0, QuietNothing DEF Done, Closes
<1>2. Ph(0) = "closed"
  <2>1. script \in Seq(Call)
    BY <1>0, ScriptAssumption
  <2> QED
    BY <2>1, PhaseSteps DEF Ph
<1>3. PICK M : Chain(M)
  BY <1>0, FirstChain
<1>4. BodyOf(M)
  BY <1>0, <1>1, <1>2, <1>3 DEF BodyOf, RootBody, RankBody, LeafBody, Ready
<1>5. DiskBody
  <2>1. ~file[0].open
    BY <1>0 DEF NoFile
  <2>2. disk.st = "whole" => Sized(disk.model.dims)
    BY DEF Init, Absent, Whole, Fresh, Sized
  <2> QED
    BY <2>1, <2>2 DEF DiskBody
<1> QED
  BY <1>4, <1>5

(* The invariant of the proof holds in every behaviour: what a rank has    *)
(* left of a call, and what its file, its log and the frames under way     *)
(* hold of the model of the script (File::close, collective_merge).        *)
THEOREM CloseInvariance == Spec => [](Typed /\ CountInv /\ OpenInv /\ ShapeInv /\ BodyInv)
<1>1. Init => ShapeInv /\ BodyInv
  BY ShapeInit, BodyInit
<1>2. Typed /\ CountInv /\ OpenInv /\ ShapeInv /\ BodyInv /\ [Next]_vars => ShapeInv' /\ BodyInv'
  <2> SUFFICES ASSUME Typed, CountInv, OpenInv, ShapeInv, BodyInv, [Next]_vars
               PROVE  ShapeInv'
    BY BodyStep
  <2>1. CASE Next
    BY <2>1, ShapeStep DEF Next
  <2>2. CASE UNCHANGED vars
    <3>1. \A r \in Rank : Fielded(file'[r]) /\ Plain(r)'
      BY <2>2 DEF ShapeInv, Plain, Begins, Opens, Closes, vars, commVars
    <3>2. \A q \in Leaf : LeafCloses(q)'
      BY <2>2 DEF ShapeInv, LeafCloses, Closes, Sending, vars, commVars
    <3>3. RootCloses'
      BY <2>2 DEF ShapeInv, RootCloses, Closes, Saved, Rest, vars, commVars
    <3> QED
      BY <3>1, <3>2, <3>3 DEF ShapeInv
  <2> QED
    BY <2>1, <2>2
<1> QED
  BY <1>1, <1>2, OpenInvariance, PTL DEF Spec

-----------------------------------------------------------------------------
(* What a rank finds when its close returns.                               *)

LEMMA CompleteAlone ==
    ASSUME Typed, ShapeInv, Leaf = {}
    PROVE  FileComplete
<1>1. \A r \in Rank : r = 0
  BY CommAssumption DEF Rank, Leaf
<1> SUFFICES ASSUME 0 \in Rank, NEW k \in DOMAIN script, Closing(k), Returned(0, k)
             PROVE  /\ disk.st = "whole" /\ disk.model.name = file[0].name
                    /\ disk.model.dims = file[0].dims
                    /\ \A i \in Row(disk.model.dims, 0) : disk.model.data[i] = file[0].data[i]
  BY <1>1 DEF FileComplete
<1>2. at[0] = k /\ k > 0 /\ Closes(0) /\ todo[0] = <<>>
  BY ScriptAssumption DEF Closing, Returned, Closes, Typed, RootInv
<1>3. Saved
  <2>1. \A j : ~Rest(todo[0], j)
    BY <1>2, RestFacts, QuietNothing
  <2> QED
    BY <1>2, <2>1 DEF ShapeInv, RootCloses
<1> QED
  BY <1>3 DEF Saved, Whole, Model

LEMMA CompleteTogether ==
    ASSUME Typed, CountInv, ShapeInv, BodyInv, Proper(script), Leaf # {}
    PROVE  FileComplete
<1> SUFFICES ASSUME NEW r \in Rank, NEW k \in DOMAIN script, Closing(k), Returned(r, k)
             PROVE  /\ disk.st = "whole" /\ disk.model.name = file[r].name
                    /\ disk.model.dims = file[r].dims
                    /\ \A q \in Rank : \A i \in Row(disk.model.dims, q) :
                         disk.model.data[i] = file[q].data[i]
  BY DEF FileComplete
<1>0. /\ 0 \in Rank /\ \A x \in Leaf : x \in Rank /\ x # 0
      /\ \A x \in Rank : x = 0 \/ x \in Leaf
      /\ k \in Nat /\ k > 0 /\ \A x \in Rank : at[x] = k /\ Closes(x)
  <2>1. 0 \in Rank /\ (\A x \in Leaf : x \in Rank /\ x # 0) /\ \A x \in Rank : x = 0 \/ x \in Leaf
    BY CommAssumption DEF Rank, Leaf
  <2>2. k \in Nat /\ k > 0
    BY ScriptAssumption DEF Typed, RootInv
  <2> QED
    BY <2>1, <2>2 DEF Closing, Closes
<1>1. todo[r] = <<>>
  BY <1>0 DEF Returned
<1>2. \A j \in 0..(Others + 3) : ~Rest(todo[0], j)
  <2> SUFFICES ASSUME NEW j \in 0..(Others + 3), Rest(todo[0], j) PROVE FALSE
    OBVIOUS
  <2>1. CASE r = 0
    BY <1>1, <2>1, RestFacts, QuietNothing
  <2>2. CASE r \in Leaf
    BY <1>0, <1>1, <2>2, HoldingOn
  <2> QED
    BY <1>0, <2>1, <2>2
<1>3. Saved
  BY <1>0, <1>2 DEF ShapeInv, RootCloses
<1>4. PICK M : BodyOf(M)
  BY DEF BodyInv
<1>5. Collected(M[k - 1])
  <2>1. \A j \in 0..Others : j \in 0..(Others + 3)
    BY CommAssumption DEF Others
  <2>2. \A j \in 0..Others : ~Collecting(M[at[0] - 1], Ph(at[0] - 1), j)
    BY <1>2, <2>1 DEF Collecting
  <2>3. Collected(M[at[0] - 1])
    BY <1>0, <1>4, <2>2 DEF BodyOf, RootBody
  <2> QED
    BY <1>0, <2>3
<1>6. /\ disk.st = "whole" /\ disk.model.name = file[0].name /\ disk.model.dims = file[0].dims
      /\ disk.model.data = file[0].data
  BY <1>3 DEF Saved, Whole, Model
<1>7. /\ file[0].name = M[k - 1].name /\ file[0].dims = M[k - 1].dims
      /\ \A q \in Leaf : \A i \in Row(M[k - 1].dims, q) : file[0].data[i] = file[q].data[i]
  BY <1>0, <1>5 DEF Collected
<1>8. file[r].name = M[k - 1].name /\ file[r].dims = M[k - 1].dims
  <2>1. ASSUME r \in Leaf PROVE Holds(M[k - 1], file[r], Ph(k - 1))
    <3>1. LeafBody(M, r)
      BY <1>4, <2>1 DEF BodyOf
    <3> QED
      BY <1>0, <3>1 DEF LeafBody
  <2> QED
    BY <1>0, <1>7, <2>1 DEF Holds
<1>9. ASSUME NEW q \in Rank, NEW i \in Row(disk.model.dims, q)
      PROVE  disk.model.data[i] = file[q].data[i]
  BY <1>0, <1>6, <1>7, <1>9
<1> QED
  BY <1>6, <1>7, <1>8, <1>9

(* The file is complete when close returns, on whichever rank: rank 0 lets *)
(* nobody go before it has merged the logs of all and saved the file, and  *)
(* no rank's log has an entry for another's row (File::close, mpi_log).    *)
THEOREM CloseCompletes == Spec => [](Proper(script) => FileComplete)
<1>1. ASSUME Typed /\ CountInv /\ OpenInv /\ ShapeInv /\ BodyInv PROVE Proper(script) => FileComplete
  BY <1>1, CompleteAlone, CompleteTogether
<1> QED
  BY <1>1, CloseInvariance, PTL
=============================================================================
