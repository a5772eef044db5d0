----------------------------- MODULE BasicFacts -----------------------------
(***************************************************************************)
(* Facts that the proofs of several components need: induction over the    *)
(* naturals, stated with a set in the place of a predicate, functions that *)
(* are defined by iteration, sequences, and row-major buffers: how many    *)
(* elements a shape has, where a coordinate is and which coordinate is     *)
(* where, for shapes of any rank and size.                                 *)
(***************************************************************************)
EXTENDS Layout, Integers, SequencesExt, WellFoundedInduction, SequenceTheorems, TLAPS

-----------------------------------------------------------------------------
(* Naturals *)

(* A set of naturals that is not empty has a least member.                 *)
LEMMA LeastMember ==
    ASSUME NEW S \in SUBSET Nat, S # {}
    PROVE  \E m \in S : \A k \in S : m <= k
<1> DEFINE R == OpToRel(<, Nat)
<1>1. IsWellFoundedOn(R, Nat)
  BY NatLessThanWellFounded
<1>2. \A x, y \in Nat : x < y => <<x, y>> \in R
  BY DEF OpToRel
<1> HIDE DEF R
<1>3. PICK m \in S : \A k \in S : <<k, m>> \notin R
  BY <1>1, WFMin
<1>4. \A k \in S : ~(k < m)
  BY <1>2, <1>3
<1>5. \A k \in S : m <= k
  BY <1>4
<1> QED
  BY <1>5

(* Induction. *)
LEMMA Induction ==
    ASSUME NEW S, 0 \in S, \A n \in Nat : n \in S => n + 1 \in S
    PROVE  Nat \subseteq S
<1> SUFFICES ASSUME Nat \ S # {} PROVE FALSE
  OBVIOUS
<1>1. PICK m \in Nat \ S : \A k \in Nat \ S : m <= k
  BY LeastMember
<1>2. m # 0 /\ m - 1 \in Nat /\ m - 1 \notin Nat \ S
  BY <1>1
<1>3. (m - 1) + 1 \in S
  BY <1>2
<1> QED
  BY <1>1, <1>3

(* A function can be defined by iteration.                                 *)
Iterates(g, m, a, H) == g[0] = a /\ \A n \in 1..m : g[n] = H[g[n - 1]]

LEMMA IteratesOnce ==
    ASSUME NEW a, NEW H, NEW m \in Nat, NEW g, Iterates(g, m, a, H),
           NEW k \in Nat, NEW h, Iterates(h, k, a, H), NEW n \in Nat, n <= m, n <= k
    PROVE  g[n] = h[n]
<1> DEFINE S == {i \in Nat : i <= m /\ i <= k => g[i] = h[i]}
<1>1. 0 \in S
  BY DEF Iterates
<1>2. ASSUME NEW i \in Nat, i \in S PROVE i + 1 \in S
  <2> SUFFICES ASSUME i + 1 <= m, i + 1 <= k PROVE g[i + 1] = h[i + 1]
    OBVIOUS
  <2>1. g[i] = h[i]
    BY <1>2
  <2>2. i + 1 \in 1..m /\ i + 1 \in 1..k /\ (i + 1) - 1 = i
    OBVIOUS
  <2>3. g[i + 1] = H[g[i]] /\ h[i + 1] = H[h[i]]
    BY <2>2 DEF Iterates
  <2> QED
    BY <2>1, <2>3
<1> HIDE DEF S
<1>3. n \in S
  BY <1>1, <1>2, Induction
<1> QED
  BY <1>3 DEF S

LEMMA Iterated ==
    ASSUME NEW a, NEW H, NEW m \in Nat
    PROVE  \E g : Iterates(g, m, a, H)
<1> DEFINE S == {i \in Nat : \E g : Iterates(g, i, a, H)}
<1>1. 0 \in S
  <2>1. Iterates([i \in {0} |-> a], 0, a, H)
    BY DEF Iterates
  <2> QED
    BY <2>1
<1>2. ASSUME NEW i \in Nat, i \in S PROVE i + 1 \in S
  <2>1. PICK g : Iterates(g, i, a, H)
    BY <1>2
  <2> DEFINE h == [n \in 0..i + 1 |-> IF n = i + 1 THEN H[g[i]] ELSE g[n]]
  <2>2. h[0] = a
    BY <2>1 DEF Iterates
  <2>3. ASSUME NEW n \in 1..i + 1 PROVE h[n] = H[h[n - 1]]
    <3>1. n - 1 \in 0..i + 1 /\ n - 1 # i + 1 /\ h[n - 1] = g[n - 1]
      OBVIOUS
    <3>2. CASE n = i + 1
      <4>1. n \in 0..i + 1 /\ h[n] = H[g[i]] /\ n - 1 = i
        BY <3>2
      <4> QED
        BY <3>1, <4>1
    <3>3. CASE n # i + 1
      <4>1. n \in 1..i /\ h[n] = g[n]
        BY <3>3
      <4> QED
        BY <2>1, <3>1, <4>1 DEF Iterates
    <3> QED
      BY <3>2, <3>3
  <2> HIDE DEF h
  <2>4. Iterates(h, i + 1, a, H)
    BY <2>2, <2>3 DEF Iterates
  <2> QED
    BY <2>4
<1> HIDE DEF S
<1>3. m \in S
  BY <1>1, <1>2, Induction
<1> QED
  BY <1>3 DEF S

IterationOf(f, a, H) == f = [n \in Nat |-> IF n = 0 THEN a ELSE H[f[n - 1]]]

LEMMA Iteration == ASSUME NEW a, NEW H PROVE \E f : IterationOf(f, a, H)
<1> DEFINE G(m) == CHOOSE g : Iterates(g, m, a, H)
           f == [n \in Nat |-> G(n)[n]]
<1>1. \A m \in Nat : Iterates(G(m), m, a, H)
  BY Iterated
<1> HIDE DEF G
<1>2. ASSUME NEW n \in Nat, n # 0 PROVE f[n] = H[f[n - 1]]
  <2>1. n - 1 \in Nat /\ n - 1 <= n /\ n \in 1..n
    BY <1>2
  <2>2. G(n)[n] = H[G(n)[n - 1]]
    BY <1>1, <2>1 DEF Iterates
  <2>3. G(n)[n - 1] = G(n - 1)[n - 1]
    BY <1>1, <2>1, IteratesOnce
  <2> QED
    BY <2>1, <2>2, <2>3
<1>3. f[0] = a
  BY <1>1 DEF Iterates
<1>4. f = [n \in Nat |-> f[n]]
  OBVIOUS
<1> HIDE DEF f
<1>5. IterationOf(f, a, H)
  BY <1>2, <1>3, <1>4 DEF IterationOf
<1> QED
  BY <1>5

-----------------------------------------------------------------------------
(* Sequences *)

(* A sequence is one of its own elements.                                  *)
LEMMA OwnElements ==
    ASSUME NEW S, NEW s \in Seq(S)
    PROVE  s \in Seq(ToSet(s)) /\ DOMAIN s = 1..Len(s) /\ Len(s) \in Nat
<1>1. DOMAIN s = 1..Len(s) /\ Len(s) \in Nat /\ s = [i \in 1..Len(s) |-> s[i]]
  BY LenProperties
<1>2. \A i \in 1..Len(s) : s[i] \in ToSet(s)
  BY <1>1 DEF ToSet
<1>3. [i \in 1..Len(s) |-> s[i]] \in Seq(ToSet(s))
  BY <1>1, <1>2
<1> QED
  BY <1>1, <1>3

(* What is known of a sequence of its own elements.                        *)
LEMMA SequenceFacts ==
    ASSUME NEW s, s \in Seq(ToSet(s))
    PROVE  /\ DOMAIN s = 1..Len(s) /\ Len(s) \in Nat
           /\ ToSet(s) = {s[i] : i \in 1..Len(s)}
<1>1. DOMAIN s = 1..Len(s) /\ Len(s) \in Nat
  BY OwnElements
<1> QED
  BY <1>1 DEF ToSet

LEMMA AppendFacts ==
    ASSUME NEW s, s \in Seq(ToSet(s)), NEW e
    PROVE  /\ Append(s, e) \in Seq(ToSet(Append(s, e)))
           /\ Len(Append(s, e)) = Len(s) + 1
           /\ \A i \in 1..Len(s) : Append(s, e)[i] = s[i]
           /\ Append(s, e)[Len(s) + 1] = e
           /\ ToSet(Append(s, e)) = ToSet(s) \cup {e}
<1> DEFINE S == ToSet(s) \cup {e}
           a == Append(s, e)
<1>1. s \in Seq(S)
  BY SeqMonotonic
<1>2. e \in S
  OBVIOUS
<1>3. /\ a \in Seq(S) /\ Len(a) = Len(s) + 1
      /\ \A i \in 1..Len(s) : a[i] = s[i]
      /\ a[Len(s) + 1] = e
  BY <1>1, <1>2, AppendProperties
<1>4. a \in Seq(ToSet(a)) /\ DOMAIN a = 1..Len(a)
  BY <1>3, OwnElements
<1>5. DOMAIN s = 1..Len(s) /\ Len(s) \in Nat
  BY SequenceFacts
<1> HIDE DEF a
<1>6. ToSet(a) \subseteq ToSet(s) \cup {e}
  BY <1>3, <1>4, <1>5 DEF ToSet
<1>7. ToSet(s) \cup {e} \subseteq ToSet(a)
  BY <1>3, <1>4, <1>5 DEF ToSet
<1> QED
  BY <1>3, <1>4, <1>6, <1>7 DEF a

LEMMA FrontFacts ==
    ASSUME NEW s, s \in Seq(ToSet(s)), s # <<>>
    PROVE  /\ Len(s) \in Nat \ {0}
           /\ Front(s) \in Seq(ToSet(Front(s)))
           /\ Len(Front(s)) = Len(s) - 1
           /\ \A i \in 1..Len(s) - 1 : Front(s)[i] = s[i]
           /\ Last(s) = s[Len(s)]
<1>1. Len(s) \in Nat \ {0}
  BY EmptySeq, LenProperties
<1>2. /\ Front(s) \in Seq(ToSet(s)) /\ Len(Front(s)) = Len(s) - 1
      /\ \A i \in 1..Len(s) - 1 : Front(s)[i] = s[i]
  <2>1. \A i \in 1..Len(s) - 1 : s[i] \in ToSet(s)
    BY <1>1, SequenceFacts
  <2>2. /\ SubSeq(s, 1, Len(s) - 1) \in Seq(ToSet(s))
        /\ Len(SubSeq(s, 1, Len(s) - 1)) = IF 1 <= Len(s) - 1 THEN Len(s) - 1 - 1 + 1 ELSE 0
        /\ \A i \in 1..Len(s) - 1 - 1 + 1 : SubSeq(s, 1, Len(s) - 1)[i] = s[1 + i - 1]
    BY <1>1, <2>1, SubSeqProperties
  <2>3. Front(s) = SubSeq(s, 1, Len(s) - 1)
    BY DEF Front
  <2> DEFINE n == Len(s)
             f == Front(s)
  <2>4. n \in Nat \ {0} /\ Len(f) = (IF 1 <= n - 1 THEN n - 1 - 1 + 1 ELSE 0)
    BY <1>1, <2>2, <2>3
  <2>5. \A i \in 1..n - 1 - 1 + 1 : f[i] = s[1 + i - 1]
    BY <2>2, <2>3
  <2> HIDE DEF n, f
  <2>6. Len(f) = n - 1
    BY <2>4
  <2>7. ASSUME NEW i \in 1..n - 1 PROVE f[i] = s[i]
    <3>1. i \in 1..n - 1 - 1 + 1 /\ 1 + i - 1 = i
      BY <2>4
    <3>2. f[i] = s[1 + i - 1]
      BY <3>1, <2>5
    <3> QED
      BY <3>1, <3>2
  <2> QED
    BY <2>2, <2>3, <2>6, <2>7 DEF n, f
<1>3. Front(s) \in Seq(ToSet(Front(s)))
  BY <1>2, OwnElements
<1> QED
  BY <1>1, <1>2, <1>3 DEF Last

(* A change of an element, if there is one of that index.                  *)
LEMMA ExceptFacts ==
    ASSUME NEW s, s \in Seq(ToSet(s)), NEW e, NEW i \in DOMAIN s
    PROVE  /\ [s EXCEPT ![i] = e] \in Seq(ToSet([s EXCEPT ![i] = e]))
           /\ Len([s EXCEPT ![i] = e]) = Len(s)
           /\ [s EXCEPT ![i] = e][i] = e
           /\ \A k \in DOMAIN s : k # i => [s EXCEPT ![i] = e][k] = s[k]
<1> DEFINE S == ToSet(s) \cup {e}
           a == [s EXCEPT ![i] = e]
<1>1. s \in Seq(S)
  BY SeqMonotonic
<1>2. e \in S /\ i \in 1..Len(s)
  BY SequenceFacts
<1>3. a \in Seq(S) /\ Len(a) = Len(s) /\ a[i] = e /\ \A k \in 1..Len(s) : k # i => a[k] = s[k]
  BY <1>1, <1>2, ExceptSeq
<1>4. a \in Seq(ToSet(a))
  BY <1>3, OwnElements
<1> QED
  BY <1>3, <1>4, SequenceFacts

-----------------------------------------------------------------------------
(* Buffers.  The sums of products by which the functions of Layout are     *)
(* defined exist.                                                          *)

LEMMA TimesIsNat == \A a, b \in Nat : a * b \in Nat
  OBVIOUS

Recurs(f, n, first, a, b) ==
    /\ f \in [0..n -> Nat]
    /\ f[0] = first
    /\ \A i \in 1..n : f[i] = f[i - 1] * a[i] + b[i]

LEMMA Recurrence ==
    ASSUME NEW n \in Nat, NEW first \in Nat, NEW a \in [1..n -> Nat], NEW b \in [1..n -> Nat]
    PROVE  \E f : Recurs(f, n, first, a, b)
<1> DEFINE S == {m \in Nat : m <= n => \E f : Recurs(f, m, first, a, b)}
<1>1. 0 \in S
  <2>1. Recurs([i \in 0..0 |-> first], 0, first, a, b)
    BY DEF Recurs
  <2>2. \E f : Recurs(f, 0, first, a, b)
    BY <2>1
  <2> QED
    BY <2>2
<1>2. ASSUME NEW m \in Nat, m \in S PROVE m + 1 \in S
  <2> SUFFICES ASSUME m + 1 <= n PROVE \E f : Recurs(f, m + 1, first, a, b)
    OBVIOUS
  <2>1. \E f : Recurs(f, m, first, a, b)
    BY <1>2
  <2>2. PICK f : Recurs(f, m, first, a, b)
    BY <2>1
  <2> DEFINE last == f[m] * a[m + 1] + b[m + 1]
             g == [i \in 0..(m + 1) |-> IF i = m + 1 THEN last ELSE f[i]]
  <2>3. last \in Nat
    <3>1. f[m] \in Nat /\ a[m + 1] \in Nat /\ b[m + 1] \in Nat
      BY <2>2 DEF Recurs
    <3>2. f[m] * a[m + 1] \in Nat
      BY <3>1, TimesIsNat
    <3> QED
      BY <3>1, <3>2
  <2>4. g[m + 1] = last /\ \A i \in 0..m : g[i] = f[i]
    OBVIOUS
  <2>5. g \in [0..(m + 1) -> Nat]
    <3> HIDE DEF last
    <3>1. \A i \in 0..(m + 1) : (IF i = m + 1 THEN last ELSE f[i]) \in Nat
      <4> SUFFICES ASSUME NEW i \in 0..(m + 1), i # m + 1 PROVE f[i] \in Nat
        BY <2>3
      <4>1. i \in 0..m
        OBVIOUS
      <4> QED
        BY <2>2, <4>1 DEF Recurs
    <3> QED
      BY <3>1
  <2> HIDE DEF g
  <2>6. ASSUME NEW i \in 1..(m + 1) PROVE g[i] = g[i - 1] * a[i] + b[i]
    <3>1. CASE i = m + 1
      <4>1. i - 1 = m /\ m \in 0..m
        BY <3>1
      <4>2. g[i - 1] = f[m] /\ g[i] = last
        BY <2>4, <3>1, <4>1
      <4> QED
        BY <3>1, <4>2
    <3>2. CASE i # m + 1
      <4>1. i \in 1..m /\ i \in 0..m /\ i - 1 \in 0..m
        BY <3>2
      <4>2. f[i] = f[i - 1] * a[i] + b[i]
        BY <2>2, <4>1 DEF Recurs
      <4> QED
        BY <2>4, <4>1, <4>2
    <3> QED
      BY <3>1, <3>2
  <2>7. g[0] = first
    <3>1. 0 \in 0..m
      OBVIOUS
    <3> QED
      BY <2>2, <2>4, <3>1 DEF Recurs
  <2>8. Recurs(g, m + 1, first, a, b)
    BY <2>5, <2>6, <2>7 DEF Recurs
  <2> QED
    BY <2>8
<1> HIDE DEF S
<1>3. n \in S
  BY <1>1, <1>2, Induction
<1> QED
  BY <1>3 DEF S

-----------------------------------------------------------------------------
(* The number of elements *)

(* The partial products that Numel is computed by.                         *)
Products(d) == CHOOSE P : P = [i \in 0..Len(d) |-> IF i = 0 THEN 1 ELSE P[i - 1] * d[i]]

LEMMA ProductsExist ==
    ASSUME NEW d \in Seq(Nat)
    PROVE  Products(d) = [i \in 0..Len(d) |-> IF i = 0 THEN 1 ELSE Products(d)[i - 1] * d[i]]
<1> DEFINE zero == [i \in 1..Len(d) |-> 0]
           P(f) == f = [i \in 0..Len(d) |-> IF i = 0 THEN 1 ELSE f[i - 1] * d[i]]
<1>1. Len(d) \in Nat /\ d \in [1..Len(d) -> Nat] /\ zero \in [1..Len(d) -> Nat]
  <2>1. Len(d) \in Nat /\ d \in [1..Len(d) -> Nat]
    BY LenProperties, ElementOfSeq
  <2> QED
    BY <2>1
<1>2. \A i \in 1..Len(d) : zero[i] = 0
  OBVIOUS
<1> HIDE DEF zero
<1>3. \E f : Recurs(f, Len(d), 1, d, zero)
  BY <1>1, Recurrence
<1>4. PICK f : Recurs(f, Len(d), 1, d, zero)
  BY <1>3
<1>5. ASSUME NEW i \in 0..Len(d) PROVE f[i] = IF i = 0 THEN 1 ELSE f[i - 1] * d[i]
  <2>1. CASE i = 0
    BY <1>4, <2>1 DEF Recurs
  <2>2. CASE i # 0
    <3>1. i \in 1..Len(d) /\ i - 1 \in 0..Len(d)
      BY <1>1, <2>2
    <3>2. f[i] = f[i - 1] * d[i] + 0 /\ f[i - 1] \in Nat /\ d[i] \in Nat
      BY <1>1, <1>2, <1>4, <3>1 DEF Recurs
    <3>3. f[i - 1] * d[i] \in Nat
      BY <3>2, TimesIsNat
    <3> QED
      BY <2>2, <3>2, <3>3
  <2> QED
    BY <2>1, <2>2
<1>6. P(f)
  BY <1>4, <1>5 DEF Recurs
<1>7. \E g : P(g)
  BY <1>6
<1> QED
  BY <1>7 DEF Products

LEMMA ProductsAreNat ==
    ASSUME NEW d \in Seq(Nat)
    PROVE  /\ \A i \in 0..Len(d) : Products(d)[i] \in Nat
           /\ Products(d)[0] = 1
           /\ \A i \in 1..Len(d) : Products(d)[i] = Products(d)[i - 1] * d[i]
<1> DEFINE P == Products(d)
           S == {n \in Nat : n <= Len(d) => P[n] \in Nat}
<1>1. Len(d) \in Nat /\ \A i \in 1..Len(d) : d[i] \in Nat
  BY LenProperties, ElementOfSeq
<1>2. P = [i \in 0..Len(d) |-> IF i = 0 THEN 1 ELSE P[i - 1] * d[i]]
  BY ProductsExist
<1> HIDE DEF P
<1>3. P[0] = 1 /\ \A i \in 1..Len(d) : P[i] = P[i - 1] * d[i]
  <2>1. \A i \in 0..Len(d) : P[i] = IF i = 0 THEN 1 ELSE P[i - 1] * d[i]
    BY <1>2
  <2>2. 0 \in 0..Len(d) /\ \A i \in 1..Len(d) : i \in 0..Len(d) /\ i # 0
    BY <1>1
  <2> QED
    BY <2>1, <2>2
<1>4. ASSUME NEW n \in Nat, n \in S PROVE n + 1 \in S
  <2> SUFFICES ASSUME n + 1 <= Len(d) PROVE P[n + 1] \in Nat
    OBVIOUS
  <2>1. P[n] \in Nat /\ n + 1 \in 1..Len(d) /\ (n + 1) - 1 = n
    BY <1>1, <1>4
  <2>2. P[n + 1] = P[n] * d[n + 1] /\ d[n + 1] \in Nat
    BY <1>1, <1>3, <2>1
  <2> QED
    BY <2>1, <2>2, TimesIsNat
<1>5. 0 \in S
  BY <1>3
<1> HIDE DEF S
<1>6. Nat \subseteq S
  BY <1>4, <1>5, Induction
<1>7. ASSUME NEW i \in 0..Len(d) PROVE P[i] \in Nat
  <2>1. i \in Nat /\ i <= Len(d)
    BY <1>1
  <2>2. i \in S
    BY <1>6, <2>1
  <2> QED
    BY <2>1, <2>2 DEF S
<1> QED
  BY <1>3, <1>7 DEF P

LEMMA NumelIsProduct == ASSUME NEW d PROVE Numel(d) = Products(d)[Len(d)]
  BY DEF Numel, Products

LEMMA NumelIsNat == ASSUME NEW d \in Seq(Nat) PROVE Numel(d) \in Nat
<1>1. Len(d) \in 0..Len(d)
  BY LenProperties
<1> QED
  BY <1>1, NumelIsProduct, ProductsAreNat

(* A shape with an element has no dimension of size zero.                  *)
LEMMA NumelPositive ==
    ASSUME NEW d \in Seq(Nat), Numel(d) # 0, NEW i \in 1..Len(d)
    PROVE  d[i] > 0
<1> SUFFICES ASSUME d[i] = 0 PROVE FALSE
  BY ElementOfSeq
<1> DEFINE P == Products(d)
           S == {n \in Nat : i <= n /\ n <= Len(d) => P[n] = 0}
<1>1. Len(d) \in Nat /\ \A j \in 1..Len(d) : d[j] \in Nat
  BY LenProperties, ElementOfSeq
<1>2. /\ \A j \in 0..Len(d) : P[j] \in Nat
      /\ \A j \in 1..Len(d) : P[j] = P[j - 1] * d[j]
  BY ProductsAreNat
<1> HIDE DEF P
<1>3. 0 \in S
  BY <1>1
<1>4. ASSUME NEW n \in Nat, n \in S PROVE n + 1 \in S
  <2> SUFFICES ASSUME i <= n + 1, n + 1 <= Len(d) PROVE P[n + 1] = 0
    OBVIOUS
  <2>1. n + 1 \in 1..Len(d) /\ (n + 1) - 1 = n /\ n \in 0..Len(d)
    BY <1>1
  <2>2. P[n + 1] = P[n] * d[n + 1] /\ P[n] \in Nat /\ d[n + 1] \in Nat
    BY <1>1, <1>2, <2>1
  <2>3. CASE i = n + 1
    <3>1. P[n + 1] = P[n] * 0
      BY <2>2, <2>3
    <3> QED
      BY <2>2, <3>1
  <2>4. CASE i <= n
    <3>1. P[n] = 0
      BY <1>1, <1>4, <2>4
    <3>2. P[n + 1] = 0 * d[n + 1]
      BY <2>2, <3>1
    <3> QED
      BY <2>2, <3>2
  <2> QED
    BY <1>1, <2>3, <2>4
<1> HIDE DEF S
<1>5. Len(d) \in S
  BY <1>1, <1>3, <1>4, Induction
<1>6. P[Len(d)] = 0
  BY <1>1, <1>5 DEF S
<1> QED
  BY <1>6, NumelIsProduct DEF P

-----------------------------------------------------------------------------
(* Where a coordinate is *)

Places(d, c) ==
    CHOOSE P : P = [i \in 0..Len(d) |-> IF i = 0 THEN 0 ELSE P[i - 1] * d[i] + c[i]]

LEMMA PositionIsPlace == ASSUME NEW d, NEW c PROVE Position(d, c) = Places(d, c)[Len(d)] + 1
  BY DEF Position, Places

LEMMA PlacesAreNat ==
    ASSUME NEW d \in Seq(Nat), NEW c \in [1..Len(d) -> Nat]
    PROVE  Recurs(Places(d, c), Len(d), 0, d, c)
<1> DEFINE Q(f) == f = [i \in 0..Len(d) |-> IF i = 0 THEN 0 ELSE f[i - 1] * d[i] + c[i]]
           P == Places(d, c)
           S == {n \in Nat : n <= Len(d) => P[n] \in Nat}
<1>1. Len(d) \in Nat /\ d \in [1..Len(d) -> Nat]
  BY LenProperties, ElementOfSeq
<1>2. \E f : Recurs(f, Len(d), 0, d, c)
  BY <1>1, Recurrence
<1>3. PICK f : Recurs(f, Len(d), 0, d, c)
  BY <1>2
<1>4. Q(f)
  <2>1. ASSUME NEW i \in 0..Len(d) PROVE f[i] = IF i = 0 THEN 0 ELSE f[i - 1] * d[i] + c[i]
    <3>1. i # 0 => i \in 1..Len(d)
      BY <1>1
    <3> QED
      BY <1>3, <3>1 DEF Recurs
  <2> QED
    BY <1>3, <2>1 DEF Recurs
<1>5. \E g : Q(g)
  BY <1>4
<1>6. P = [i \in 0..Len(d) |-> IF i = 0 THEN 0 ELSE P[i - 1] * d[i] + c[i]]
  BY <1>5 DEF Places
<1> HIDE DEF P
<1>7. P[0] = 0 /\ \A i \in 1..Len(d) : P[i] = P[i - 1] * d[i] + c[i]
  <2>1. \A i \in 0..Len(d) : P[i] = IF i = 0 THEN 0 ELSE P[i - 1] * d[i] + c[i]
    BY <1>6
  <2>2. 0 \in 0..Len(d) /\ \A i \in 1..Len(d) : i \in 0..Len(d) /\ i # 0
    BY <1>1
  <2> QED
    BY <2>1, <2>2
<1>8. 0 \in S
  BY <1>7
<1>9. ASSUME NEW n \in Nat, n \in S PROVE n + 1 \in S
  <2> SUFFICES ASSUME n + 1 <= Len(d) PROVE P[n + 1] \in Nat
    OBVIOUS
  <2>1. P[n] \in Nat /\ n + 1 \in 1..Len(d) /\ (n + 1) - 1 = n
    BY <1>1, <1>9
  <2>2. P[n + 1] = P[n] * d[n + 1] + c[n + 1] /\ d[n + 1] \in Nat /\ c[n + 1] \in Nat
    BY <1>1, <1>7, <2>1
  <2>3. P[n] * d[n + 1] \in Nat
    BY <2>1, <2>2, TimesIsNat
  <2> QED
    BY <2>2, <2>3
<1> HIDE DEF S
<1>10. Nat \subseteq S
  BY <1>8, <1>9, Induction
<1>11. ASSUME NEW i \in 0..Len(d) PROVE P[i] \in Nat
  <2>1. i \in Nat /\ i <= Len(d)
    BY <1>1
  <2>2. i \in S
    BY <1>10, <2>1
  <2> QED
    BY <2>1, <2>2 DEF S
<1>12. P \in [0..Len(d) -> Nat]
  <2>1. DOMAIN P = 0..Len(d) /\ P = [i \in DOMAIN P |-> P[i]]
    BY <1>6
  <2> QED
    BY <1>11, <2>1
<1> QED
  BY <1>7, <1>12 DEF Recurs, P

LEMMA PositionIsNat ==
    ASSUME NEW d \in Seq(Nat), NEW c \in [1..Len(d) -> Nat]
    PROVE  Position(d, c) \in Nat \ {0}
<1>1. Len(d) \in 0..Len(d)
  BY LenProperties
<1>2. Places(d, c)[Len(d)] \in Nat
  BY <1>1, PlacesAreNat DEF Recurs
<1> QED
  BY <1>2, PositionIsPlace

-----------------------------------------------------------------------------
(* Which coordinate is where *)

(* The number of elements below one step in each dimension.                *)
Strides(d) ==
    CHOOSE B : B = [i \in 1..Len(d) + 1 |-> IF i = Len(d) + 1 THEN 1 ELSE B[i + 1] * d[i]]

LEMMA CoordAtStride ==
    ASSUME NEW d, NEW k
    PROVE  CoordAt(d, k) = [i \in 1..Len(d) |-> ((k - 1) \div Strides(d)[i + 1]) % d[i]]
  BY DEF CoordAt, Strides

LEMMA StridesExist ==
    ASSUME NEW d \in Seq(Nat)
    PROVE  LET B == Strides(d)
               n == Len(d)
           IN  /\ \A i \in 1..(n + 1) : B[i] \in Nat
               /\ B[n + 1] = 1
               /\ \A i \in 1..n : B[i] = B[i + 1] * d[i]
<1> DEFINE n == Len(d)
           zero == [i \in 1..n |-> 0]
           back == [i \in 1..n |-> d[n + 1 - i]]
           Q(f) == f = [i \in 1..n + 1 |-> IF i = n + 1 THEN 1 ELSE f[i + 1] * d[i]]
           B == Strides(d)
           S == {m \in Nat : m <= n => B[n + 1 - m] \in Nat}
<1>1. n \in Nat /\ \A i \in 1..n : d[i] \in Nat
  BY LenProperties, ElementOfSeq
<1> HIDE DEF n
<1>2. zero \in [1..n -> Nat] /\ \A i \in 1..n : zero[i] = 0
  OBVIOUS
<1>3. back \in [1..n -> Nat] /\ \A i \in 1..n : back[i] = d[n + 1 - i]
  <2>1. \A i \in 1..n : n + 1 - i \in 1..n
    BY <1>1
  <2> QED
    BY <1>1, <2>1
<1> HIDE DEF zero, back
<1>4. \E f : Recurs(f, n, 1, back, zero)
  BY <1>1, <1>2, <1>3, Recurrence
<1>5. PICK f : Recurs(f, n, 1, back, zero)
  BY <1>4
<1> DEFINE g == [i \in 1..n + 1 |-> f[n + 1 - i]]
<1>6. Q(g)
  <2>0. \A i \in 1..n + 1 : g[i] = f[n + 1 - i]
    OBVIOUS
  <2>1. g = [i \in 1..n + 1 |-> g[i]]
    OBVIOUS
  <2> HIDE DEF g
  <2>2. ASSUME NEW i \in 1..n + 1 PROVE g[i] = IF i = n + 1 THEN 1 ELSE g[i + 1] * d[i]
    <3>1. CASE i = n + 1
      <4>1. n + 1 - i = 0
        BY <1>1, <3>1
      <4>2. g[i] = f[0]
        BY <2>0, <4>1
      <4> QED
        BY <1>5, <3>1, <4>2 DEF Recurs
    <3>2. CASE i # n + 1
      <4> DEFINE j == n + 1 - i
      <4>1. /\ j \in 1..n /\ j \in Nat /\ n + 1 - j = i /\ i + 1 \in 1..n + 1
            /\ n + 1 - (i + 1) = j - 1 /\ i \in 1..n /\ j - 1 \in 0..n
        BY <1>1, <3>2
      <4>2. g[i] = f[j] /\ g[i + 1] = f[j - 1]
        BY <2>0, <4>1
      <4> HIDE DEF j
      <4>3. f[j] = f[j - 1] * d[i] + 0
        BY <1>2, <1>3, <1>5, <4>1 DEF Recurs
      <4>4. f[j - 1] * d[i] \in Nat
        BY <1>1, <1>5, <4>1, TimesIsNat DEF Recurs
      <4> QED
        BY <3>2, <4>2, <4>3, <4>4
    <3> QED
      BY <3>1, <3>2
  <2> QED
    BY <2>1, <2>2
<1>7. \E h : Q(h)
  BY <1>6
<1>8. B = [i \in 1..n + 1 |-> IF i = n + 1 THEN 1 ELSE B[i + 1] * d[i]]
  BY <1>7 DEF Strides, n
<1> HIDE DEF B
<1>9. B[n + 1] = 1 /\ \A i \in 1..n : B[i] = B[i + 1] * d[i]
  <2>1. \A i \in 1..n + 1 : B[i] = IF i = n + 1 THEN 1 ELSE B[i + 1] * d[i]
    BY <1>8
  <2>2. n + 1 \in 1..n + 1 /\ \A i \in 1..n : i \in 1..n + 1 /\ i # n + 1
    BY <1>1
  <2> QED
    BY <2>1, <2>2
<1>10. 0 \in S
  BY <1>1, <1>9
<1>11. ASSUME NEW m \in Nat, m \in S PROVE m + 1 \in S
  <2> SUFFICES ASSUME m + 1 <= n PROVE B[n + 1 - (m + 1)] \in Nat
    OBVIOUS
  <2> DEFINE i == n + 1 - (m + 1)
  <2>1. i \in 1..n /\ i + 1 = n + 1 - m /\ m <= n
    BY <1>1
  <2>2. B[i + 1] \in Nat
    BY <1>11, <2>1
  <2> HIDE DEF i
  <2>3. B[i] = B[i + 1] * d[i] /\ d[i] \in Nat
    BY <1>1, <1>9, <2>1
  <2>4. B[i] \in Nat
    BY <2>2, <2>3, TimesIsNat
  <2> QED
    BY <2>4 DEF i
<1> HIDE DEF S
<1>12. Nat \subseteq S
  BY <1>10, <1>11, Induction
<1>13. ASSUME NEW i \in 1..(n + 1) PROVE B[i] \in Nat
  <2>1. n + 1 - i \in Nat /\ n + 1 - i <= n /\ n + 1 - (n + 1 - i) = i
    BY <1>1
  <2>2. n + 1 - i \in S
    BY <1>12, <2>1
  <2> QED
    BY <2>1, <2>2 DEF S
<1> QED
  BY <1>9, <1>13 DEF B, n

LEMMA StridesPositive ==
    ASSUME NEW d \in Seq(Nat), Numel(d) # 0
    PROVE  \A i \in 1..(Len(d) + 1) : Strides(d)[i] \in Nat \ {0}
<1> DEFINE n == Len(d)
           B == Strides(d)
           S == {m \in Nat : m <= n => B[n + 1 - m] > 0}
<1>1. n \in Nat /\ \A i \in 1..n : d[i] \in Nat /\ d[i] > 0
  BY LenProperties, ElementOfSeq, NumelPositive
<1>2. /\ \A i \in 1..(n + 1) : B[i] \in Nat
      /\ B[n + 1] = 1
      /\ \A i \in 1..n : B[i] = B[i + 1] * d[i]
  BY StridesExist
<1> HIDE DEF n, B
<1>3. 0 \in S
  BY <1>1, <1>2
<1>4. ASSUME NEW m \in Nat, m \in S PROVE m + 1 \in S
  <2> SUFFICES ASSUME m + 1 <= n PROVE B[n + 1 - (m + 1)] > 0
    OBVIOUS
  <2> DEFINE i == n + 1 - (m + 1)
  <2>1. i \in 1..n /\ i + 1 = n + 1 - m /\ m <= n /\ i + 1 \in 1..(n + 1)
    BY <1>1
  <2>2. B[i + 1] > 0
    BY <1>4, <2>1
  <2> HIDE DEF i
  <2>3. B[i] = B[i + 1] * d[i] /\ d[i] \in Nat /\ d[i] > 0 /\ B[i + 1] \in Nat
    BY <1>1, <1>2, <2>1
  <2>4. \A a, b \in Nat : a > 0 /\ b > 0 => a * b > 0
    OBVIOUS
  <2>5. B[i] > 0
    BY <2>2, <2>3, <2>4
  <2> QED
    BY <2>5 DEF i
<1> HIDE DEF S
<1>5. Nat \subseteq S
  BY <1>3, <1>4, Induction
<1>6. ASSUME NEW i \in 1..(n + 1) PROVE B[i] > 0
  <2>1. n + 1 - i \in Nat /\ n + 1 - i <= n /\ n + 1 - (n + 1 - i) = i
    BY <1>1
  <2>2. n + 1 - i \in S
    BY <1>5, <2>1
  <2> QED
    BY <2>1, <2>2 DEF S
<1>7. \A i \in 1..(n + 1) : B[i] \in Nat \ {0}
  BY <1>2, <1>6
<1> QED
  BY <1>7 DEF B, n

(* Every position of a buffer has a coordinate within its shape.           *)
LEMMA CoordAtInside ==
    ASSUME NEW d \in Seq(Nat), NEW k \in 1..Numel(d)
    PROVE  CoordAt(d, k) \in [1..Len(d) -> Nat] /\ Inside(d, CoordAt(d, k))
<1> DEFINE c == CoordAt(d, k)
<1>1. Numel(d) \in Nat /\ Numel(d) # 0 /\ k \in Nat /\ k >= 1
  BY NumelIsNat
<1>2. /\ Len(d) \in Nat /\ DOMAIN d = 1..Len(d)
      /\ \A i \in 1..Len(d) : d[i] \in Nat \ {0}
  BY <1>1, LenProperties, ElementOfSeq, NumelPositive
<1>3. c = [i \in 1..Len(d) |-> ((k - 1) \div Strides(d)[i + 1]) % d[i]]
  BY CoordAtStride
<1> HIDE DEF c
<1>4. ASSUME NEW i \in 1..Len(d) PROVE c[i] \in Nat /\ c[i] < d[i]
  <2>1. Strides(d)[i + 1] \in Nat \ {0}
    <3>1. i + 1 \in 1..(Len(d) + 1)
      BY <1>2
    <3> QED
      BY <1>1, <3>1, StridesPositive
  <2>2. \A a \in Nat, b \in Nat \ {0} : a \div b \in Nat /\ a % b \in Nat /\ a % b < b
    OBVIOUS
  <2>3. k - 1 \in Nat
    BY <1>1
  <2>4. (k - 1) \div Strides(d)[i + 1] \in Nat
    BY <2>1, <2>2, <2>3
  <2> QED
    BY <1>2, <1>3, <2>2, <2>4
<1>5. c \in [1..Len(d) -> Nat] /\ Len(c) = Len(d)
  <2>1. c \in [1..Len(d) -> Nat]
    BY <1>3, <1>4
  <2>2. Len(c) = Len(d)
    BY <1>2, <1>3
  <2> QED
    BY <2>1, <2>2
<1>6. Inside(d, c)
  BY <1>2, <1>4, <1>5 DEF Inside
<1> QED
  BY <1>5, <1>6 DEF c

-----------------------------------------------------------------------------
(* Buffers *)

LEMMA FilledBuffer ==
    ASSUME NEW d \in Seq(Nat), NEW v
    PROVE  Filled(d, v) \in [1..Numel(d) -> {v}] /\ Len(Filled(d, v)) = Numel(d)
<1>1. Numel(d) \in Nat
  BY NumelIsNat
<1> QED
  BY <1>1 DEF Filled

LEMMA BufferLength ==
    ASSUME NEW n \in Nat, NEW S, NEW buf \in [1..n -> S]
    PROVE  Len(buf) = n
  OBVIOUS

LEMMA PaintedBuffer ==
    ASSUME NEW n \in Nat, NEW S, NEW buf \in [1..n -> S], NEW d, NEW region, NEW v \in S
    PROVE  Painted(d, buf, region, v) \in [1..n -> S]
<1>1. Len(buf) = n
  BY BufferLength
<1> QED
  BY <1>1 DEF Painted

LEMMA ReshapedBuffer ==
    ASSUME NEW n \in Nat, NEW S, NEW buf \in [1..n -> S], NEW zero \in S,
           NEW old \in Seq(Nat), NEW new \in Seq(Nat)
    PROVE  Reshaped(buf, old, new, zero) \in [1..Numel(new) -> S]
<1>1. Len(buf) = n
  BY BufferLength
<1>2. ASSUME NEW k \in 1..Numel(new)
      PROVE  LET c == CoordAt(new, k)
             IN  (IF Inside(old, c) /\ Position(old, c) <= Len(buf)
                  THEN buf[Position(old, c)] ELSE zero) \in S
  <2> DEFINE c == CoordAt(new, k)
  <2>1. c \in [1..Len(new) -> Nat]
    BY CoordAtInside
  <2> HIDE DEF c
  <2>2. ASSUME Inside(old, c), Position(old, c) <= Len(buf) PROVE buf[Position(old, c)] \in S
    <3>1. Len(new) \in Nat
      BY LenProperties
    <3>2. Len(c) = Len(new) /\ Len(c) = Len(old)
      BY <2>1, <2>2, <3>1, BufferLength DEF Inside
    <3>3. Position(old, c) \in Nat \ {0}
      BY <2>1, <3>2, PositionIsNat
    <3>4. Position(old, c) \in 1..n
      BY <1>1, <2>2, <3>3
    <3> QED
      BY <3>4
  <2> QED
    BY <2>2 DEF c
<1> QED
  BY <1>2 DEF Reshaped
=============================================================================
