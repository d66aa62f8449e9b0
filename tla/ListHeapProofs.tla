---------------------------- MODULE ListHeapProofs ----------------------------
(***************************************************************************)
(* Theorems about the linked lists of ListHeap, for any number of entries  *)
(* and of lists.                                                           *)
(***************************************************************************)
EXTENDS ListHeap, SequencesExt, SequenceTheorems, FiniteSetTheorems, WellFoundedInduction, TLAPS

-----------------------------------------------------------------------------
(* Sequences.                                                              *)

LEMMA LeastExists ==
    ASSUME NEW T \in SUBSET Nat, T # {}
    PROVE  \E m \in T : \A k \in T : m <= k
<1> DEFINE R == OpToRel(<, Nat)
<1>1. IsWellFoundedOn(R, Nat)
  BY NatLessThanWellFounded
<1>2. PICK m \in T : \A k \in T : ~ (<<k, m>> \in R)
  <2> HIDE DEF R
  <2> QED BY <1>1, WFMin
<1>3. \A k \in T : ~(k < m)
  <2> TAKE k \in T
  <2>1. ~ (<<k, m>> \in R)
    BY <1>2
  <2> QED BY <2>1 DEF OpToRel
<1> HIDE DEF R
<1> QED BY <1>2, <1>3

(* No entry is there twice.                                                *)
Single(s) == \A i, j \in 1..Len(s) : s[i] = s[j] => i = j

LEMMA NoLonger ==
    ASSUME NEW s \in Seq(Nodes), Single(s)
    PROVE  Len(s) \in Nat /\ Cardinality(Nodes) \in Nat /\ Len(s) <= Cardinality(Nodes)
<1>1. Len(s) \in Nat /\ IsFiniteSet(Nodes)
  BY LenProperties, ListAssumption
<1>2. Cardinality(Nodes) \in Nat
  BY <1>1, FS_CardinalityType
<1>3. s \in Injection(1..Len(s), Nodes)
  <2>1. s \in [1..Len(s) -> Nodes]
    BY LenProperties
  <2> QED BY <2>1 DEF Single, Injection, IsInjective
<1>4. Cardinality(1..Len(s)) <= Cardinality(Nodes)
  BY <1>1, <1>3, FS_Injection
<1>5. Cardinality(1..Len(s)) = Len(s)
  <2>1. 1 \in Int /\ Len(s) \in Int
    BY <1>1
  <2>2. Cardinality(1..Len(s)) = IF 1 > Len(s) THEN 0 ELSE Len(s) - 1 + 1
    BY <2>1, FS_Interval
  <2> QED BY <2>2, <1>1
<1> QED BY <1>1, <1>2, <1>4, <1>5

(* The function at of a walk along p from a on, of N steps.                *)
Walks(p, a, N, at) ==
    at = [i \in 0..N |-> IF i = 0 THEN a
                         ELSE IF at[i - 1] \in Nodes THEN p[at[i - 1]]
                         ELSE at[i - 1]]

LEMMA OneWalk ==
    ASSUME NEW p, NEW a, NEW N \in Nat, NEW f, NEW g, Walks(p, a, N, f), Walks(p, a, N, g)
    PROVE  f = g
<1> DEFINE T == {i \in 0..N : f[i] # g[i]}
<1>1. f = [i \in 0..N |-> f[i]] /\ g = [i \in 0..N |-> g[i]]
  BY DEF Walks
<1>2. \A i \in 0..N : f[i] = IF i = 0 THEN a ELSE IF f[i - 1] \in Nodes THEN p[f[i - 1]] ELSE f[i - 1]
  BY DEF Walks
<1>3. \A i \in 0..N : g[i] = IF i = 0 THEN a ELSE IF g[i - 1] \in Nodes THEN p[g[i - 1]] ELSE g[i - 1]
  BY DEF Walks
<1>4. T = {}
  <2> SUFFICES ASSUME T # {} PROVE FALSE
    OBVIOUS
  <2>1. PICK m \in T : \A k \in T : m <= k
    <3>1. T \in SUBSET Nat
      OBVIOUS
    <3> HIDE DEF T
    <3> QED BY <3>1, LeastExists
  <2>2. m # 0
    BY <1>2, <1>3
  <2>3. m - 1 \in 0..N /\ ~(m <= m - 1)
    BY <2>2
  <2>4. f[m - 1] = g[m - 1]
    BY <2>1, <2>3
  <2> QED BY <2>2, <2>4, <1>2, <1>3
<1>5. \A i \in 0..N : f[i] = g[i]
  BY <1>4
<1> HIDE DEF T
<1> QED BY <1>1, <1>5

(* A walk finds s if the pointers lead along s to something that is no     *)
(* node.                                                                   *)
LEMMA WalkIs ==
    ASSUME NEW p, NEW a, NEW e, e \notin Nodes, NEW s \in Seq(Nodes), Single(s),
           a = IF Len(s) = 0 THEN e ELSE s[1],
           \A i \in 1..Len(s) : p[s[i]] = IF i = Len(s) THEN e ELSE s[i + 1]
    PROVE  Walk(p, a) = s
<1> DEFINE N == Cardinality(Nodes)
           f == [i \in 0..N |-> IF i < Len(s) THEN s[i + 1] ELSE e]
           h == CHOOSE g : Walks(p, a, N, g)
<1>1. Len(s) \in Nat /\ N \in Nat /\ Len(s) <= N
  BY NoLonger
<1>2. \A i \in 1..Len(s) : s[i] \in Nodes
  BY ElementOfSeq
<1> HIDE DEF N
<1>3. Walks(p, a, N, f)
  <2>1. ASSUME NEW i \in 0..N
        PROVE  f[i] = IF i = 0 THEN a ELSE IF f[i - 1] \in Nodes THEN p[f[i - 1]] ELSE f[i - 1]
    <3>1. CASE i = 0
      BY <3>1, <1>1
    <3>2. CASE i # 0 /\ i - 1 < Len(s)
      <4>1. f[i - 1] = s[i] /\ i \in 1..Len(s)
        BY <3>2, <1>1
      <4>2. f[i] = IF i = Len(s) THEN e ELSE s[i + 1]
        BY <3>2, <1>1
      <4> QED BY <3>2, <4>1, <4>2, <1>2
    <3>3. CASE i # 0 /\ ~(i - 1 < Len(s))
      BY <3>3, <1>1
    <3> QED BY <3>1, <3>2, <3>3
  <2>2. f = [i \in 0..N |-> f[i]]
    OBVIOUS
  <2> HIDE DEF f
  <2>3. f = [i \in 0..N |-> IF i = 0 THEN a ELSE IF f[i - 1] \in Nodes THEN p[f[i - 1]] ELSE f[i - 1]]
    BY <2>1, <2>2
  <2> QED BY <2>3, Zenon DEF Walks
<1>4. h = f
  <2>1. Walks(p, a, N, h)
    BY <1>3
  <2> HIDE DEF h, f
  <2> QED BY <1>1, <1>3, <2>1, OneWalk
<1>5. Walk(p, a) = [i \in 1..Cardinality({j \in 0..N : h[j] \in Nodes}) |-> h[i - 1]]
  BY Zenon DEF Walk, Walks, N
<1> HIDE DEF h
<1>6. {j \in 0..N : f[j] \in Nodes} = 0..(Len(s) - 1)
  BY <1>1, <1>2
<1>7. Cardinality(0..(Len(s) - 1)) = Len(s)
  <2>1. 0 \in Int /\ Len(s) - 1 \in Int
    BY <1>1
  <2>2. Cardinality(0..(Len(s) - 1)) = IF 0 > Len(s) - 1 THEN 0 ELSE (Len(s) - 1) - 0 + 1
    BY <2>1, FS_Interval
  <2> QED BY <2>2, <1>1
<1>8. \A i \in 1..Len(s) : f[i - 1] = s[i]
  BY <1>1
<1>9. s = [i \in 1..Len(s) |-> s[i]]
  BY LenProperties, SeqDef
<1> HIDE DEF f
<1>10. Walk(p, a) = [i \in 1..Len(s) |-> f[i - 1]]
  <2>1. {j \in 0..N : h[j] \in Nodes} = 0..(Len(s) - 1)
    BY <1>4, <1>6
  <2>2. Walk(p, a) = [i \in 1..Len(s) |-> h[i - 1]]
    BY <1>5, <1>7, <2>1, Zenon
  <2> QED BY <1>4, <2>2
<1> QED BY <1>8, <1>9, <1>10

(* x behind the first k entries, and all but the k-th.                     *)
Inserted(s, k, x) ==
    [i \in 1..(Len(s) + 1) |-> IF i <= k THEN s[i] ELSE IF i = k + 1 THEN x ELSE s[i - 1]]

Removed(s, k) == [i \in 1..(Len(s) - 1) |-> IF i < k THEN s[i] ELSE s[i + 1]]

LEMMA AsSeq ==
    ASSUME NEW S, NEW n \in Nat, NEW f \in [1..n -> S]
    PROVE  f \in Seq(S) /\ Len(f) = n
<1>1. f \in Seq(S)
  BY SeqDef
<1>2. Len(f) \in Nat /\ DOMAIN f = 1..Len(f)
  BY <1>1, LenProperties
<1>3. 1..Len(f) = 1..n
  BY <1>2
<1> QED BY <1>1, <1>2, <1>3

LEMMA InsertedHas ==
    ASSUME NEW S, NEW s \in Seq(S), NEW x \in S, NEW k \in 0..Len(s)
    PROVE  /\ Inserted(s, k, x) \in Seq(S) /\ Len(Inserted(s, k, x)) = Len(s) + 1
           /\ \A i \in 1..(Len(s) + 1) : Inserted(s, k, x)[i] =
                 IF i <= k THEN s[i] ELSE IF i = k + 1 THEN x ELSE s[i - 1]
<1>1. Len(s) \in Nat /\ \A i \in 1..Len(s) : s[i] \in S
  BY LenProperties, ElementOfSeq
<1>2. \A i \in 1..(Len(s) + 1) : Inserted(s, k, x)[i] =
         IF i <= k THEN s[i] ELSE IF i = k + 1 THEN x ELSE s[i - 1]
  BY DEF Inserted
<1>3. \A i \in 1..(Len(s) + 1) : Inserted(s, k, x)[i] \in S
  BY <1>1, <1>2
<1>4. Inserted(s, k, x) \in [1..(Len(s) + 1) -> S] /\ Len(s) + 1 \in Nat
  BY <1>1, <1>3 DEF Inserted
<1> QED BY <1>2, <1>4, AsSeq

LEMMA RemovedHas ==
    ASSUME NEW S, NEW s \in Seq(S), NEW k \in 1..Len(s)
    PROVE  /\ Removed(s, k) \in Seq(S) /\ Len(Removed(s, k)) = Len(s) - 1
           /\ \A i \in 1..(Len(s) - 1) : Removed(s, k)[i] = IF i < k THEN s[i] ELSE s[i + 1]
<1>1. Len(s) \in Nat /\ \A i \in 1..Len(s) : s[i] \in S
  BY LenProperties, ElementOfSeq
<1>2. \A i \in 1..(Len(s) - 1) : Removed(s, k)[i] = IF i < k THEN s[i] ELSE s[i + 1]
  BY DEF Removed
<1>3. \A i \in 1..(Len(s) - 1) : Removed(s, k)[i] \in S
  BY <1>1, <1>2
<1>4. Removed(s, k) \in [1..(Len(s) - 1) -> S] /\ Len(s) - 1 \in Nat
  BY <1>1, <1>3 DEF Removed
<1> QED BY <1>2, <1>4, AsSeq

(* Sequences with the same entries are the same.                          *)
LEMMA Same ==
    ASSUME NEW S, NEW s \in Seq(S), NEW t \in Seq(S), Len(s) = Len(t),
           \A i \in 1..Len(s) : s[i] = t[i]
    PROVE  s = t
  BY SeqEqual

(* s and t, as entries.                                                   *)
LEMMA ConcatHas ==
    ASSUME NEW S, NEW a \in Seq(S), NEW b \in Seq(S)
    PROVE  /\ a \o b \in Seq(S) /\ Len(a \o b) = Len(a) + Len(b)
           /\ Len(a) \in Nat /\ Len(b) \in Nat
           /\ \A i \in 1..(Len(a) + Len(b)) :
                 (a \o b)[i] = IF i <= Len(a) THEN a[i] ELSE b[i - Len(a)]
<1>1. Len(a \o b) = Len(a) + Len(b)
  BY ConcatProperties
<1>2. \A i \in 1..Len(a \o b) : (a \o b)[i] = IF i <= Len(a) THEN a[i] ELSE b[i - Len(a)]
  BY ConcatProperties
<1> QED BY <1>1, <1>2, ConcatProperties, LenProperties

(* The first k entries, and the others.                                   *)
LEMMA FrontHas ==
    ASSUME NEW S, NEW s \in Seq(S), NEW k \in 0..Len(s)
    PROVE  /\ SubSeq(s, 1, k) \in Seq(S) /\ Len(SubSeq(s, 1, k)) = k
           /\ \A i \in 1..k : SubSeq(s, 1, k)[i] = s[i]
<1>1. Len(s) \in Nat /\ \A i \in 1..Len(s) : s[i] \in S
  BY LenProperties, ElementOfSeq
<1> DEFINE a == SubSeq(s, 1, k)
<1>2. \A i \in 1..k : s[i] \in S
  BY <1>1
<1>3. Len(a) = IF 1 <= k THEN k - 1 + 1 ELSE 0
  BY <1>1, <1>2, SubSeqProperties
<1>4. \A i \in 1..(k - 1 + 1) : a[i] = s[1 + i - 1]
  BY <1>1, <1>2, SubSeqProperties
<1>5. a \in Seq(S)
  BY <1>1, <1>2, SubSeqProperties
<1> QED BY <1>1, <1>3, <1>4, <1>5

LEMMA RestHas ==
    ASSUME NEW S, NEW s \in Seq(S), NEW k \in 0..Len(s)
    PROVE  /\ SubSeq(s, k + 1, Len(s)) \in Seq(S) /\ Len(SubSeq(s, k + 1, Len(s))) = Len(s) - k
           /\ \A i \in 1..(Len(s) - k) : SubSeq(s, k + 1, Len(s))[i] = s[k + i]
<1>1. Len(s) \in Nat /\ \A i \in 1..Len(s) : s[i] \in S
  BY LenProperties, ElementOfSeq
<1> DEFINE c == SubSeq(s, k + 1, Len(s))
<1>2. \A i \in (k + 1)..Len(s) : s[i] \in S
  BY <1>1
<1>3. Len(c) = IF k + 1 <= Len(s) THEN Len(s) - (k + 1) + 1 ELSE 0
  BY <1>1, <1>2, SubSeqProperties
<1>4. \A i \in 1..(Len(s) - (k + 1) + 1) : c[i] = s[(k + 1) + i - 1]
  BY <1>1, <1>2, SubSeqProperties
<1>5. c \in Seq(S)
  BY <1>1, <1>2, SubSeqProperties
<1> QED BY <1>1, <1>3, <1>4, <1>5

(* What the sequence operators of module Lists make of these.              *)
LEMMA InsertedIs ==
    ASSUME NEW S, NEW s \in Seq(S), NEW x \in S, NEW k \in 0..Len(s)
    PROVE  InsertAt(s, k + 1, x) = Inserted(s, k, x)
<1> DEFINE a == SubSeq(s, 1, k)
           c == SubSeq(s, k + 1, Len(s))
<1>1. Len(s) \in Nat /\ \A i \in 1..Len(s) : s[i] \in S
  BY LenProperties, ElementOfSeq
<1>2. a \in Seq(S) /\ Len(a) = k /\ \A i \in 1..k : a[i] = s[i]
  BY FrontHas
<1>3. c \in Seq(S) /\ Len(c) = Len(s) - k /\ \A i \in 1..(Len(s) - k) : c[i] = s[k + i]
  <2>1. k \in 0..Len(s)
    BY <1>1
  <2> QED BY <2>1, RestHas
<1>4. InsertAt(s, k + 1, x) = (a \o <<x>>) \o c
  <2>1. (k + 1) - 1 = k
    BY <1>1
  <2>2. InsertAt(s, k + 1, x) = (SubSeq(s, 1, (k + 1) - 1) \o <<x>>) \o SubSeq(s, k + 1, Len(s))
    BY Zenon DEF InsertAt
  <2>3. SubSeq(s, 1, (k + 1) - 1) = a
    BY <2>1
  <2> HIDE DEF a
  <2> QED BY <2>2, <2>3, Zenon
<1> HIDE DEF a, c
<1> DEFINE b == a \o <<x>>
<1>5. b \in Seq(S) /\ Len(b) = k + 1 /\ (\A i \in 1..k : b[i] = s[i]) /\ b[k + 1] = x
  <2>1. <<x>> \in Seq(S) /\ Len(<<x>>) = 1 /\ <<x>>[1] = x
    OBVIOUS
  <2>2. b \in Seq(S) /\ Len(b) = Len(a) + Len(<<x>>)
        /\ \A i \in 1..(Len(a) + Len(<<x>>)) : b[i] = IF i <= Len(a) THEN a[i] ELSE <<x>>[i - Len(a)]
    BY <2>1, <1>2, ConcatHas
  <2> QED BY <2>1, <2>2, <1>2
<1> HIDE DEF b
<1> DEFINE d == b \o c
<1>6. d \in Seq(S) /\ Len(d) = Len(b) + Len(c)
      /\ \A i \in 1..(Len(b) + Len(c)) : d[i] = IF i <= Len(b) THEN b[i] ELSE c[i - Len(b)]
  BY <1>3, <1>5, ConcatHas
<1> HIDE DEF d
<1>7. Len(d) = Len(s) + 1
  BY <1>1, <1>3, <1>5, <1>6
<1> DEFINE r == Inserted(s, k, x)
<1>9. r \in Seq(S) /\ Len(r) = Len(s) + 1
      /\ \A i \in 1..(Len(s) + 1) : r[i] = IF i <= k THEN s[i] ELSE IF i = k + 1 THEN x ELSE s[i - 1]
  BY InsertedHas
<1> HIDE DEF r
<1>8. ASSUME NEW i \in 1..(Len(s) + 1) PROVE d[i] = r[i]
  <2>1. d[i] = IF i <= k + 1 THEN b[i] ELSE c[i - (k + 1)]
    BY <1>1, <1>3, <1>5, <1>6
  <2>2. CASE i <= k
    <3>1. d[i] = s[i]
      BY <2>1, <2>2, <1>5, <1>1
    <3> QED BY <3>1, <2>2, <1>9
  <2>3. CASE i = k + 1
    <3>1. d[i] = x
      BY <2>1, <2>3, <1>5, <1>1
    <3>2. ~(i <= k)
      BY <2>3, <1>1
    <3> QED BY <3>1, <3>2, <2>3, <1>9
  <2>4. CASE ~(i <= k + 1)
    <3>1. i - (k + 1) \in 1..(Len(s) - k) /\ k + (i - (k + 1)) = i - 1
      BY <2>4, <1>1
    <3>2. d[i] = s[i - 1]
      BY <3>1, <2>1, <2>4, <1>3
    <3>3. ~(i <= k) /\ i # k + 1
      BY <2>4, <1>1
    <3> QED BY <3>2, <3>3, <1>9
  <2> QED BY <2>2, <2>3, <2>4, <1>1
<1>10. d = r
  BY <1>6, <1>7, <1>8, <1>9, Same
<1> QED BY <1>4, <1>10 DEF b, d, r

LEMMA AtEnds ==
    ASSUME NEW S, NEW s \in Seq(S), NEW x \in S
    PROVE  <<x>> \o s = Inserted(s, 0, x) /\ Append(s, x) = Inserted(s, Len(s), x)
<1>1. Len(s) \in Nat /\ 0 \in 0..Len(s) /\ Len(s) \in 0..Len(s)
  BY LenProperties
<1>2. <<x>> \in Seq(S) /\ Len(<<x>>) = 1 /\ <<x>>[1] = x
  OBVIOUS
<1>3. <<x>> \o s = Inserted(s, 0, x)
  <2> DEFINE d == <<x>> \o s
             r == Inserted(s, 0, x)
  <2>1. d \in Seq(S) /\ Len(d) = 1 + Len(s)
        /\ \A i \in 1..(1 + Len(s)) : d[i] = IF i <= 1 THEN <<x>>[i] ELSE s[i - 1]
    BY <1>2, ConcatHas
  <2>2. r \in Seq(S) /\ Len(r) = Len(s) + 1
        /\ \A i \in 1..(Len(s) + 1) : r[i] = IF i = 1 THEN x ELSE s[i - 1]
    <3>1. r \in Seq(S) /\ Len(r) = Len(s) + 1
      <4>1. \A k \in 0..Len(s) : Inserted(s, k, x) \in Seq(S) /\ Len(Inserted(s, k, x)) = Len(s) + 1
        BY InsertedHas
      <4> QED BY <1>1, <4>1, Zenon
    <3>2. \A i \in 1..(Len(s) + 1) : r[i] = IF i = 1 THEN x ELSE s[i - 1]
      BY <1>1 DEF Inserted
    <3> QED BY <3>1, <3>2
  <2> HIDE DEF d, r
  <2>3. \A i \in 1..Len(d) : d[i] = r[i]
    BY <1>1, <1>2, <2>1, <2>2
  <2>4. Len(d) = Len(r)
    BY <1>1, <2>1, <2>2
  <2>5. d = r
    BY <2>1, <2>2, <2>3, <2>4, Same
  <2> QED BY <2>5 DEF d, r
<1>4. Append(s, x) = Inserted(s, Len(s), x)
  <2> DEFINE d == Append(s, x)
             r == Inserted(s, Len(s), x)
  <2>1. d \in Seq(S) /\ Len(d) = Len(s) + 1 /\ (\A i \in 1..Len(s) : d[i] = s[i]) /\ d[Len(s) + 1] = x
    BY AppendProperties
  <2>2. r \in Seq(S) /\ Len(r) = Len(s) + 1
        /\ \A i \in 1..(Len(s) + 1) : r[i] = IF i <= Len(s) THEN s[i] ELSE IF i = Len(s) + 1 THEN x ELSE s[i - 1]
    <3>1. \A k \in 0..Len(s) : Inserted(s, k, x) \in Seq(S) /\ Len(Inserted(s, k, x)) = Len(s) + 1
      BY InsertedHas
    <3>2. r \in Seq(S) /\ Len(r) = Len(s) + 1
      BY <1>1, <3>1, Zenon
    <3> QED BY <3>2 DEF Inserted
  <2> HIDE DEF d, r
  <2>3. \A i \in 1..Len(d) : d[i] = r[i]
    BY <1>1, <2>1, <2>2
  <2>4. Len(d) = Len(r)
    BY <2>1, <2>2
  <2>5. d = r
    BY <2>1, <2>2, <2>3, <2>4, Same
  <2> QED BY <2>5 DEF d, r
<1> QED BY <1>3, <1>4

LEMMA RemovedIs ==
    ASSUME NEW S, NEW s \in Seq(S), NEW k \in 1..Len(s)
    PROVE  RemoveAt(s, k) = Removed(s, k)
<1> DEFINE a == SubSeq(s, 1, k - 1)
           c == SubSeq(s, k + 1, Len(s))
           d == a \o c
           r == Removed(s, k)
<1>1. Len(s) \in Nat /\ k - 1 \in Nat /\ \A i \in 1..Len(s) : s[i] \in S
  BY LenProperties, ElementOfSeq
<1>2. a \in Seq(S) /\ Len(a) = k - 1 /\ \A i \in 1..(k - 1) : a[i] = s[i]
  <2> DEFINE j == k - 1
  <2>1. j \in 0..Len(s)
    BY <1>1
  <2> HIDE DEF j
  <2>2. SubSeq(s, 1, j) \in Seq(S) /\ Len(SubSeq(s, 1, j)) = j /\ \A i \in 1..j : SubSeq(s, 1, j)[i] = s[i]
    BY <2>1, FrontHas
  <2> QED BY <2>2, Zenon DEF j
<1>3. c \in Seq(S) /\ Len(c) = Len(s) - k /\ \A i \in 1..(Len(s) - k) : c[i] = s[k + i]
  <2>1. k \in 0..Len(s)
    BY <1>1
  <2> QED BY <2>1, RestHas
<1>4. RemoveAt(s, k) = d
  BY DEF RemoveAt
<1> HIDE DEF a, c
<1>5. d \in Seq(S) /\ Len(d) = Len(s) - 1
      /\ \A i \in 1..(Len(s) - 1) : d[i] = IF i <= k - 1 THEN a[i] ELSE c[i - (k - 1)]
  <2>1. Len(a) + Len(c) = Len(s) - 1
    BY <1>1, <1>2, <1>3
  <2>2. \A i \in 1..(Len(a) + Len(c)) : d[i] = IF i <= Len(a) THEN a[i] ELSE c[i - Len(a)]
    BY <1>2, <1>3, ConcatHas
  <2>3. d \in Seq(S) /\ Len(d) = Len(a) + Len(c)
    BY <1>2, <1>3, ConcatHas
  <2>4. \A i \in 1..(Len(s) - 1) : d[i] = IF i <= Len(a) THEN a[i] ELSE c[i - Len(a)]
    BY <2>1, <2>2
  <2> HIDE DEF d
  <2> QED BY <2>1, <2>3, <2>4, <1>2
<1>6. r \in Seq(S) /\ Len(r) = Len(s) - 1
      /\ \A i \in 1..(Len(s) - 1) : r[i] = IF i < k THEN s[i] ELSE s[i + 1]
  BY RemovedHas
<1> HIDE DEF d, r
<1>7. Len(d) = Len(s) - 1
  BY <1>5
<1>8. ASSUME NEW i \in 1..Len(d) PROVE d[i] = r[i]
  <2>1. CASE i < k
    <3>1. d[i] = a[i]
      BY <2>1, <1>1, <1>2, <1>3, <1>5, <1>7
    <3>2. a[i] = s[i]
      BY <2>1, <1>1, <1>2, <1>7
    <3>3. r[i] = s[i]
      BY <2>1, <1>6, <1>7
    <3> QED BY <3>1, <3>2, <3>3
  <2>2. CASE ~(i < k)
    <3>1. i - (k - 1) \in 1..(Len(s) - k) /\ k + (i - (k - 1)) = i + 1
      BY <2>2, <1>1, <1>7
    <3>2. d[i] = c[i - (k - 1)]
      BY <2>2, <1>1, <1>2, <1>3, <1>5, <1>7
    <3>3. d[i] = s[i + 1]
      BY <3>1, <3>2, <1>3
    <3> QED BY <3>3, <2>2, <1>6, <1>7
  <2> QED BY <2>1, <2>2
<1>9. d = r
  BY <1>5, <1>6, <1>7, <1>8, Same
<1> QED BY <1>4, <1>9 DEF r

-----------------------------------------------------------------------------
(* Rings.                                                                  *)

(* What is i entries behind the head l of s; the head is behind the last.  *)
At(l, s, i) == IF i \in 1..Len(s) THEN s[i] ELSE l

Ring(h, l, s) ==
    \A i \in 0..Len(s) :
        /\ h.next[At(l, s, i)] = At(l, s, i + 1)
        /\ h.prev[At(l, s, i + 1)] = At(l, s, i)

Heaps == [next : [Addresses -> Addresses \cup {NULL}],
          prev : [Addresses -> Addresses \cup {NULL}]]

(* Lists with every entry once.                                            *)
Once(K, S) ==
    /\ S \in [K -> Seq(Nodes)]
    /\ \A l, m \in K : \A i \in 1..Len(S[l]), j \in 1..Len(S[m]) :
          S[l][i] = S[m][j] => l = m /\ i = j

(* The heads in D are those of the lists S, on the heap h.                 *)
Rings(h, D, S) ==
    /\ h \in Heaps /\ D \subseteq Heads /\ Once(Heads, S)
    /\ \A l \in Heads \ D : S[l] = <<>>
    /\ \A l \in D : Ring(h, l, S[l])

(* x is on no list.                                                        *)
Off(K, S, x) == \A l \in K : \A i \in 1..Len(S[l]) : S[l][i] # x

(* What kind of sequence a list is.                                        *)
LEMMA Lengths ==
    ASSUME NEW K, NEW S, Once(K, S), NEW l \in K
    PROVE  S[l] \in Seq(Nodes) /\ Len(S[l]) \in Nat /\ \A i \in 1..Len(S[l]) : S[l][i] \in Nodes
<1>1. S[l] \in Seq(Nodes)
  BY DEF Once
<1> QED BY <1>1, LenProperties, ElementOfSeq

LEMMA EmptyLength ==
    ASSUME NEW S, NEW s \in Seq(S)
    PROVE  s = <<>> <=> Len(s) = 0
  BY EmptySeq

(* No address is there twice, walking forwards or backwards.               *)
LEMMA Forwards ==
    ASSUME NEW S, Once(Heads, S), NEW l \in Heads, NEW m \in Heads,
           NEW i \in 0..Len(S[l]), NEW j \in 0..Len(S[m]), At(l, S[l], i) = At(m, S[m], j)
    PROVE  l = m /\ i = j
<1>1. Len(S[l]) \in Nat /\ Len(S[m]) \in Nat
  BY Lengths
<1>2. \A k \in 1..Len(S[l]) : S[l][k] \in Nodes
  BY Lengths
<1>3. \A k \in 1..Len(S[m]) : S[m][k] \in Nodes
  BY Lengths
<1>4. CASE i = 0 /\ j = 0
  BY <1>4, <1>1 DEF At
<1>5. CASE i = 0 /\ j # 0
  BY <1>5, <1>1, <1>3, ListAssumption DEF At
<1>6. CASE i # 0 /\ j = 0
  BY <1>6, <1>1, <1>2, ListAssumption DEF At
<1>7. CASE i # 0 /\ j # 0
  <2>1. i \in 1..Len(S[l]) /\ j \in 1..Len(S[m])
    BY <1>1, <1>7
  <2>2. S[l][i] = S[m][j]
    BY <2>1 DEF At
  <2> QED BY <2>1, <2>2 DEF Once
<1> QED BY <1>4, <1>5, <1>6, <1>7

LEMMA Backwards ==
    ASSUME NEW S, Once(Heads, S), NEW l \in Heads, NEW m \in Heads,
           NEW i \in 0..Len(S[l]), NEW j \in 0..Len(S[m]), At(l, S[l], i + 1) = At(m, S[m], j + 1)
    PROVE  l = m /\ i = j
<1>1. Len(S[l]) \in Nat /\ Len(S[m]) \in Nat
  BY Lengths
<1>2. \A k \in 1..Len(S[l]) : S[l][k] \in Nodes
  BY Lengths
<1>3. \A k \in 1..Len(S[m]) : S[m][k] \in Nodes
  BY Lengths
<1>4. CASE i = Len(S[l]) /\ j = Len(S[m])
  BY <1>4, <1>1 DEF At
<1>5. CASE i = Len(S[l]) /\ j # Len(S[m])
  BY <1>5, <1>1, <1>3, ListAssumption DEF At
<1>6. CASE i # Len(S[l]) /\ j = Len(S[m])
  BY <1>6, <1>1, <1>2, ListAssumption DEF At
<1>7. CASE i # Len(S[l]) /\ j # Len(S[m])
  <2>1. i + 1 \in 1..Len(S[l]) /\ j + 1 \in 1..Len(S[m])
    BY <1>1, <1>7
  <2>2. S[l][i + 1] = S[m][j + 1]
    BY <2>1 DEF At
  <2>3. l = m /\ i + 1 = j + 1
    BY <2>1, <2>2 DEF Once
  <2> QED BY <2>3, <1>1
<1> QED BY <1>4, <1>5, <1>6, <1>7

(* What is behind a head is an address, and one that is off every list is  *)
(* not there.                                                              *)
LEMMA There ==
    ASSUME NEW S, Once(Heads, S), NEW l \in Heads, NEW i
    PROVE  /\ At(l, S[l], i) \in Addresses
           /\ \A x \in Nodes : Off(Heads, S, x) => At(l, S[l], i) # x
<1>1. \A k \in 1..Len(S[l]) : S[l][k] \in Nodes
  BY Lengths
<1>2. CASE i \in 1..Len(S[l])
  BY <1>1, <1>2 DEF At, Addresses, Off
<1>3. CASE i \notin 1..Len(S[l])
  BY <1>3, ListAssumption DEF At, Addresses
<1> QED BY <1>2, <1>3

(* Writes to other addresses.                                              *)
LEMMA Elsewhere ==
    ASSUME NEW h, NEW g \in Heaps, NEW D, NEW S, Rings(h, D, S),
           \A l \in D : \A i \in 0..Len(S[l]) :
              LET a == At(l, S[l], i) IN g.next[a] = h.next[a] /\ g.prev[a] = h.prev[a]
    PROVE  Rings(g, D, S)
<1> SUFFICES ASSUME NEW l \in D PROVE Ring(g, l, S[l])
  BY DEF Rings
<1>1. Len(S[l]) \in Nat /\ Ring(h, l, S[l])
  BY Lengths DEF Rings
<1>2. ASSUME NEW i \in 0..Len(S[l])
      PROVE  /\ g.next[At(l, S[l], i)] = At(l, S[l], i + 1)
             /\ g.prev[At(l, S[l], i + 1)] = At(l, S[l], i)
  <2>1. PICK j \in 0..Len(S[l]) : At(l, S[l], i + 1) = At(l, S[l], j)
    <3>1. CASE i = Len(S[l])
      <4>1. 0 \in 0..Len(S[l]) /\ At(l, S[l], i + 1) = At(l, S[l], 0)
        BY <3>1, <1>1 DEF At
      <4> QED BY <4>1
    <3>2. CASE i # Len(S[l])
      <4>1. i + 1 \in 0..Len(S[l])
        BY <3>2, <1>1
      <4> QED BY <4>1
    <3> QED BY <3>1, <3>2
  <2>2. g.next[At(l, S[l], i)] = h.next[At(l, S[l], i)]
    OBVIOUS
  <2>3. g.prev[At(l, S[l], j)] = h.prev[At(l, S[l], j)]
    OBVIOUS
  <2> QED BY <1>1, <2>1, <2>2, <2>3 DEF Ring
<1> QED BY <1>2 DEF Ring

-----------------------------------------------------------------------------
(* What the functions write.                                               *)

LEMMA AddBetweenIs ==
    ASSUME NEW h \in Heaps, NEW x \in Addresses, NEW p \in Addresses, NEW n \in Addresses, x # p, x # n
    PROVE  /\ AddBetween(h, x, p, n) \in Heaps
           /\ \A a \in Addresses :
                 /\ AddBetween(h, x, p, n).next[a] =
                       IF a = p THEN x ELSE IF a = x THEN n ELSE h.next[a]
                 /\ AddBetween(h, x, p, n).prev[a] =
                       IF a = x THEN p ELSE IF a = n THEN x ELSE h.prev[a]
  BY DEF AddBetween, Heaps

LEMMA UnlinkIs ==
    ASSUME NEW h \in Heaps, NEW e \in Addresses, NEW p \in Addresses, NEW n \in Addresses,
           h.prev[e] = p, h.next[e] = n, e # n
    PROVE  /\ Unlink(h, e) \in Heaps
           /\ \A a \in Addresses :
                 /\ Unlink(h, e).next[a] = IF a = p THEN n ELSE h.next[a]
                 /\ Unlink(h, e).prev[a] = IF a = n THEN p ELSE h.prev[a]
  BY DEF Unlink, Heaps

LEMMA InitIs ==
    ASSUME NEW h \in Heaps, NEW l \in Addresses
    PROVE  /\ INIT_LIST_HEAD(h, l) \in Heaps
           /\ \A a \in Addresses :
                 /\ INIT_LIST_HEAD(h, l).next[a] = IF a = l THEN l ELSE h.next[a]
                 /\ INIT_LIST_HEAD(h, l).prev[a] = IF a = l THEN l ELSE h.prev[a]
  BY DEF INIT_LIST_HEAD, Heaps

-----------------------------------------------------------------------------
(* An entry more, an entry less.                                           *)

(* No entry is on two lists after one that was on none is put on one...    *)
LEMMA OnceMore ==
    ASSUME NEW K, NEW S, Once(K, S), NEW l \in K, NEW x \in Nodes, Off(K, S, x),
           NEW k \in 0..Len(S[l])
    PROVE  Once(K, [S EXCEPT ![l] = Inserted(@, k, x)])
<1> DEFINE t == Inserted(S[l], k, x)
           U == [S EXCEPT ![l] = Inserted(@, k, x)]
<1>1. S[l] \in Seq(Nodes) /\ Len(S[l]) \in Nat
  BY Lengths
<1>2. t \in Seq(Nodes) /\ Len(t) = Len(S[l]) + 1
      /\ \A i \in 1..(Len(S[l]) + 1) : t[i] =
            IF i <= k THEN S[l][i] ELSE IF i = k + 1 THEN x ELSE S[l][i - 1]
  <2>1. t \in Seq(Nodes) /\ Len(t) = Len(S[l]) + 1
    BY <1>1, InsertedHas
  <2> QED BY <2>1 DEF Inserted
<1>3. U = [S EXCEPT ![l] = t] /\ S \in [K -> Seq(Nodes)]
  BY DEF Once
<1> HIDE DEF t, U
<1>4. U \in [K -> Seq(Nodes)] /\ U[l] = t /\ \A m \in K \ {l} : U[m] = S[m]
  BY <1>2, <1>3
<1>5. \A i \in 1..Len(t) : t[i] = x <=> i = k + 1
  <2> TAKE i \in 1..Len(t)
  <2>1. CASE i <= k
    <3>1. i \in 1..Len(S[l]) /\ t[i] = S[l][i] /\ i # k + 1
      BY <2>1, <1>1, <1>2
    <3> QED BY <3>1 DEF Off
  <2>2. CASE i = k + 1
    BY <2>2, <1>1, <1>2
  <2>3. CASE i > k + 1
    <3>1. i - 1 \in 1..Len(S[l]) /\ t[i] = S[l][i - 1] /\ i # k + 1
      BY <2>3, <1>1, <1>2
    <3> QED BY <3>1 DEF Off
  <2> QED BY <2>1, <2>2, <2>3, <1>1, <1>2
<1>6. \A i \in 1..Len(t) : i # k + 1 =>
         \E j \in 1..Len(S[l]) : t[i] = S[l][j] /\ j = IF i <= k THEN i ELSE i - 1
  BY <1>1, <1>2
<1>7. ASSUME NEW i \in 1..Len(t), NEW j \in 1..Len(t), t[i] = t[j] PROVE i = j
  <2>1. CASE i = k + 1 \/ j = k + 1
    BY <2>1, <1>5, <1>7
  <2>2. CASE i # k + 1 /\ j # k + 1
    <3>1. PICK a \in 1..Len(S[l]) : t[i] = S[l][a] /\ a = IF i <= k THEN i ELSE i - 1
      BY <2>2, <1>6
    <3>2. PICK b \in 1..Len(S[l]) : t[j] = S[l][b] /\ b = IF j <= k THEN j ELSE j - 1
      BY <2>2, <1>6
    <3>3. a = b
      BY <3>1, <3>2, <1>7 DEF Once
    <3> QED BY <3>1, <3>2, <3>3, <2>2, <1>1, <1>2
  <2> QED BY <2>1, <2>2
<1>8. ASSUME NEW m \in K, m # l, NEW i \in 1..Len(t), NEW j \in 1..Len(S[m])
      PROVE  t[i] # S[m][j]
  <2>1. CASE i = k + 1
    BY <2>1, <1>5 DEF Off
  <2>2. CASE i # k + 1
    <3>1. PICK a \in 1..Len(S[l]) : t[i] = S[l][a]
      BY <2>2, <1>6
    <3> QED BY <3>1, <1>8 DEF Once
  <2> QED BY <2>1, <2>2
<1>9. \A m, r \in K : \A i \in 1..Len(U[m]), j \in 1..Len(U[r]) :
         U[m][i] = U[r][j] => m = r /\ i = j
  <2> SUFFICES ASSUME NEW m \in K, NEW r \in K, NEW i \in 1..Len(U[m]), NEW j \in 1..Len(U[r]),
                      U[m][i] = U[r][j]
               PROVE  m = r /\ i = j
    OBVIOUS
  <2>1. CASE m = l /\ r = l
    BY <2>1, <1>4, <1>7
  <2>2. CASE m = l /\ r # l
    BY <2>2, <1>4, <1>8
  <2>3. CASE m # l /\ r = l
    BY <2>3, <1>4, <1>8
  <2>4. CASE m # l /\ r # l
    BY <2>4, <1>4 DEF Once
  <2> QED BY <2>1, <2>2, <2>3, <2>4
<1>10. Once(K, U)
  BY <1>4, <1>9 DEF Once
<1> QED BY <1>10 DEF U

(* ... or one is taken off, which then is on none.                         *)
LEMMA OnceLess ==
    ASSUME NEW K, NEW S, Once(K, S), NEW l \in K, NEW k \in 1..Len(S[l])
    PROVE  /\ Once(K, [S EXCEPT ![l] = Removed(@, k)])
           /\ Off(K, [S EXCEPT ![l] = Removed(@, k)], S[l][k])
<1> DEFINE t == Removed(S[l], k)
           U == [S EXCEPT ![l] = Removed(@, k)]
<1>1. S[l] \in Seq(Nodes) /\ Len(S[l]) \in Nat
  BY Lengths
<1>2. t \in Seq(Nodes) /\ Len(t) = Len(S[l]) - 1
      /\ \A i \in 1..(Len(S[l]) - 1) : t[i] = IF i < k THEN S[l][i] ELSE S[l][i + 1]
  BY <1>1, RemovedHas
<1>3. U = [S EXCEPT ![l] = t] /\ S \in [K -> Seq(Nodes)]
  BY DEF Once
<1> HIDE DEF t, U
<1>4. U \in [K -> Seq(Nodes)] /\ U[l] = t /\ \A m \in K \ {l} : U[m] = S[m]
  BY <1>2, <1>3
<1>5. \A i \in 1..Len(t) :
         \E j \in 1..Len(S[l]) : t[i] = S[l][j] /\ j = (IF i < k THEN i ELSE i + 1) /\ j # k
  BY <1>1, <1>2
<1>6. \A m, r \in K : \A i \in 1..Len(U[m]), j \in 1..Len(U[r]) :
         U[m][i] = U[r][j] => m = r /\ i = j
  <2> SUFFICES ASSUME NEW m \in K, NEW r \in K, NEW i \in 1..Len(U[m]), NEW j \in 1..Len(U[r]),
                      U[m][i] = U[r][j]
               PROVE  m = r /\ i = j
    OBVIOUS
  <2>1. CASE m = l /\ r = l
    <3>1. PICK a \in 1..Len(S[l]) : t[i] = S[l][a] /\ a = IF i < k THEN i ELSE i + 1
      BY <2>1, <1>4, <1>5
    <3>2. PICK b \in 1..Len(S[l]) : t[j] = S[l][b] /\ b = IF j < k THEN j ELSE j + 1
      BY <2>1, <1>4, <1>5
    <3>3. a = b
      BY <3>1, <3>2, <2>1, <1>4 DEF Once
    <3> QED BY <3>1, <3>2, <3>3, <2>1, <1>1, <1>2, <1>4
  <2>2. CASE m = l /\ r # l
    <3>1. PICK a \in 1..Len(S[l]) : t[i] = S[l][a]
      BY <2>2, <1>4, <1>5
    <3> QED BY <3>1, <2>2, <1>4 DEF Once
  <2>3. CASE m # l /\ r = l
    <3>1. PICK a \in 1..Len(S[l]) : t[j] = S[l][a]
      BY <2>3, <1>4, <1>5
    <3> QED BY <3>1, <2>3, <1>4 DEF Once
  <2>4. CASE m # l /\ r # l
    BY <2>4, <1>4 DEF Once
  <2> QED BY <2>1, <2>2, <2>3, <2>4
<1>7. ASSUME NEW m \in K, NEW i \in 1..Len(U[m]) PROVE U[m][i] # S[l][k]
  <2>1. CASE m = l
    <3>1. PICK a \in 1..Len(S[l]) : t[i] = S[l][a] /\ a # k
      BY <2>1, <1>4, <1>5
    <3> QED BY <3>1, <2>1, <1>4 DEF Once
  <2>2. CASE m # l
    BY <2>2, <1>4 DEF Once
  <2> QED BY <2>1, <2>2
<1>8. Once(K, U) /\ Off(K, U, S[l][k])
  BY <1>4, <1>6, <1>7 DEF Once, Off
<1> QED BY <1>8 DEF U

(* __list_add between two entries that are neighbours.                     *)
LEMMA InsertRing ==
    ASSUME NEW h, NEW D, NEW S, Rings(h, D, S), NEW l \in D, NEW x \in Nodes, Off(Heads, S, x),
           NEW k \in 0..Len(S[l])
    PROVE  Rings(AddBetween(h, x, At(l, S[l], k), At(l, S[l], k + 1)), D,
                 [S EXCEPT ![l] = Inserted(@, k, x)])
<1> DEFINE p == At(l, S[l], k)
           n == At(l, S[l], k + 1)
           g == AddBetween(h, x, p, n)
           t == Inserted(S[l], k, x)
           U == [S EXCEPT ![l] = Inserted(@, k, x)]
<1>1. /\ h \in Heaps /\ D \subseteq Heads /\ Once(Heads, S) /\ S \in [Heads -> Seq(Nodes)]
      /\ S[l] \in Seq(Nodes) /\ Len(S[l]) \in Nat /\ \A m \in D : Ring(h, m, S[m])
  BY Lengths DEF Rings, Once
<1>2. p \in Addresses /\ n \in Addresses /\ x \in Addresses /\ x # p /\ x # n
  BY <1>1, There DEF Addresses
<1>3. g \in Heaps /\ \A a \in Addresses :
         /\ g.next[a] = IF a = p THEN x ELSE IF a = x THEN n ELSE h.next[a]
         /\ g.prev[a] = IF a = x THEN p ELSE IF a = n THEN x ELSE h.prev[a]
  <2> HIDE DEF p, n
  <2> QED BY <1>1, <1>2, AddBetweenIs
<1>4. Once(Heads, U)
  BY <1>1, OnceMore
<1>5. U[l] = t /\ \A m \in Heads \ {l} : U[m] = S[m]
  BY <1>1
<1>6. Len(t) = Len(S[l]) + 1
      /\ \A i \in 1..(Len(S[l]) + 1) : t[i] =
            IF i <= k THEN S[l][i] ELSE IF i = k + 1 THEN x ELSE S[l][i - 1]
  <2>1. \A j \in 0..Len(S[l]), y \in Nodes : Len(Inserted(S[l], j, y)) = Len(S[l]) + 1
    <3> DEFINE s == S[l]
    <3>1. s \in Seq(Nodes)
      BY <1>1
    <3> HIDE DEF s
    <3>2. \A j \in 0..Len(s), y \in Nodes : Len(Inserted(s, j, y)) = Len(s) + 1
      BY <3>1, InsertedHas
    <3> QED BY <3>2 DEF s
  <2>2. Len(t) = Len(S[l]) + 1
    BY <2>1
  <2> QED BY <2>2 DEF Inserted
<1> HIDE DEF g, t, U
<1>7. \A i \in 0..(Len(S[l]) + 2) : At(l, t, i) =
         IF i <= k THEN At(l, S[l], i) ELSE IF i = k + 1 THEN x ELSE At(l, S[l], i - 1)
  BY <1>1, <1>6 DEF At
<1>8. ASSUME NEW m \in D PROVE Ring(g, m, U[m])
  <2>1. CASE m = l
    <3> SUFFICES ASSUME NEW i \in 0..Len(t)
                 PROVE  /\ g.next[At(l, t, i)] = At(l, t, i + 1)
                        /\ g.prev[At(l, t, i + 1)] = At(l, t, i)
      BY <2>1, <1>5 DEF Ring
    <3>0. i \in 0..(Len(S[l]) + 1) /\ i \in 0..(Len(S[l]) + 2) /\ i + 1 \in 0..(Len(S[l]) + 2)
      BY <1>1, <1>6
    <3>1. CASE i < k
      <4>1. At(l, t, i) = At(l, S[l], i) /\ At(l, t, i + 1) = At(l, S[l], i + 1) /\ i \in 0..Len(S[l])
        BY <3>0, <3>1, <1>1, <1>7
      <4>2. At(l, S[l], i) # p /\ At(l, S[l], i + 1) # n
        BY <4>1, <3>1, <1>1, Forwards, Backwards
      <4>3. /\ At(l, S[l], i) \in Addresses /\ At(l, S[l], i) # x
            /\ At(l, S[l], i + 1) \in Addresses /\ At(l, S[l], i + 1) # x
        BY <1>1, There
      <4>4. h.next[At(l, S[l], i)] = At(l, S[l], i + 1) /\ h.prev[At(l, S[l], i + 1)] = At(l, S[l], i)
        BY <4>1, <1>1 DEF Ring
      <4> HIDE DEF p, n
      <4> QED BY <4>1, <4>2, <4>3, <4>4, <1>3
    <3>2. CASE i = k
      <4>1. At(l, t, i) = p /\ At(l, t, i + 1) = x
        BY <3>0, <3>2, <1>1, <1>7
      <4> HIDE DEF p, n
      <4> QED BY <4>1, <1>2, <1>3
    <3>3. CASE i = k + 1
      <4>1. At(l, t, i) = x /\ At(l, t, i + 1) = n
        BY <3>0, <3>3, <1>1, <1>7
      <4> HIDE DEF p, n
      <4> QED BY <4>1, <1>2, <1>3
    <3>4. CASE i > k + 1
      <4> DEFINE j == i - 1
      <4>1. At(l, t, i) = At(l, S[l], j) /\ At(l, t, i + 1) = At(l, S[l], j + 1) /\ j \in 0..Len(S[l]) /\ j # k
        BY <3>0, <3>4, <1>1, <1>7
      <4> HIDE DEF j
      <4>2. At(l, S[l], j) # p /\ At(l, S[l], j + 1) # n
        BY <4>1, <1>1, Forwards, Backwards
      <4>3. /\ At(l, S[l], j) \in Addresses /\ At(l, S[l], j) # x
            /\ At(l, S[l], j + 1) \in Addresses /\ At(l, S[l], j + 1) # x
        BY <1>1, There
      <4>4. h.next[At(l, S[l], j)] = At(l, S[l], j + 1) /\ h.prev[At(l, S[l], j + 1)] = At(l, S[l], j)
        BY <4>1, <1>1 DEF Ring
      <4> HIDE DEF p, n
      <4> QED BY <4>1, <4>2, <4>3, <4>4, <1>3
    <3> QED BY <3>0, <3>1, <3>2, <3>3, <3>4, <1>1
  <2>2. CASE m # l
    <3>1. U[m] = S[m]
      BY <2>2, <1>1, <1>5
    <3> SUFFICES ASSUME NEW i \in 0..Len(S[m])
                 PROVE  /\ g.next[At(m, S[m], i)] = At(m, S[m], i + 1)
                        /\ g.prev[At(m, S[m], i + 1)] = At(m, S[m], i)
      BY <3>1 DEF Ring
    <3>2. At(m, S[m], i) # p /\ At(m, S[m], i + 1) # n
      BY <2>2, <1>1, Forwards, Backwards
    <3>3. /\ At(m, S[m], i) \in Addresses /\ At(m, S[m], i) # x
          /\ At(m, S[m], i + 1) \in Addresses /\ At(m, S[m], i + 1) # x
      BY <1>1, There
    <3>4. h.next[At(m, S[m], i)] = At(m, S[m], i + 1) /\ h.prev[At(m, S[m], i + 1)] = At(m, S[m], i)
      BY <1>1 DEF Ring
    <3> HIDE DEF p, n
    <3> QED BY <3>2, <3>3, <3>4, <1>3
  <2> QED BY <2>1, <2>2
<1>9. \A m \in Heads \ D : U[m] = <<>>
  BY <1>5 DEF Rings
<1>10. Rings(g, D, U)
  BY <1>1, <1>3, <1>4, <1>8, <1>9 DEF Rings
<1> QED BY <1>10 DEF g, U, p, n

(* __list_del of the k-th entry.                                           *)
LEMMA RemoveRing ==
    ASSUME NEW h, NEW D, NEW S, Rings(h, D, S), NEW l \in D, NEW k \in 1..Len(S[l])
    PROVE  /\ Rings(Unlink(h, S[l][k]), D, [S EXCEPT ![l] = Removed(@, k)])
           /\ Off(Heads, [S EXCEPT ![l] = Removed(@, k)], S[l][k])
           /\ h.prev[S[l][k]] = At(l, S[l], k - 1) /\ h.next[S[l][k]] = At(l, S[l], k + 1)
<1> DEFINE e == S[l][k]
           p == At(l, S[l], k - 1)
           n == At(l, S[l], k + 1)
           g == Unlink(h, e)
           t == Removed(S[l], k)
           U == [S EXCEPT ![l] = Removed(@, k)]
<1>1. /\ h \in Heaps /\ D \subseteq Heads /\ Once(Heads, S) /\ S \in [Heads -> Seq(Nodes)]
      /\ S[l] \in Seq(Nodes) /\ Len(S[l]) \in Nat /\ \A m \in D : Ring(h, m, S[m])
  BY Lengths DEF Rings, Once
<1>2. k - 1 \in 0..Len(S[l]) /\ k \in 0..Len(S[l]) /\ (k - 1) + 1 = k /\ e = At(l, S[l], k)
  BY <1>1 DEF At
<1>3. h.prev[e] = p /\ h.next[e] = n
  <2>1. Ring(h, l, S[l])
    BY <1>1
  <2> HIDE DEF e
  <2> QED BY <1>2, <2>1 DEF Ring
<1>4. p \in Addresses /\ n \in Addresses /\ e \in Addresses
  BY <1>1, <1>2, There
<1>5. e # n
  <2> SUFFICES ASSUME e = n PROVE FALSE
    OBVIOUS
  <2> DEFINE j == k - 1
  <2>1. j \in 0..Len(S[l]) /\ j + 1 = k /\ j # k
    BY <1>2
  <2> HIDE DEF j
  <2>2. At(l, S[l], j + 1) = At(l, S[l], k + 1)
    BY <2>1, <1>2
  <2>3. j = k
    BY <1>1, <1>2, <2>1, <2>2, Backwards
  <2> QED BY <2>1, <2>3
<1>6. g \in Heaps /\ \A a \in Addresses :
         /\ g.next[a] = IF a = p THEN n ELSE h.next[a]
         /\ g.prev[a] = IF a = n THEN p ELSE h.prev[a]
  <2> HIDE DEF p, n, e
  <2> QED BY <1>1, <1>3, <1>4, <1>5, UnlinkIs
<1>7. Once(Heads, U) /\ Off(Heads, U, e)
  BY <1>1, OnceLess
<1>8. U[l] = t /\ \A m \in Heads \ {l} : U[m] = S[m]
  BY <1>1
<1>9. Len(t) = Len(S[l]) - 1
      /\ \A i \in 1..(Len(S[l]) - 1) : t[i] = IF i < k THEN S[l][i] ELSE S[l][i + 1]
  <2>1. Len(t) = Len(S[l]) - 1
    BY <1>1, RemovedHas
  <2> QED BY <2>1 DEF Removed
<1> HIDE DEF g, t, U, e
<1>10. \A i \in 0..Len(S[l]) : At(l, t, i) = IF i < k THEN At(l, S[l], i) ELSE At(l, S[l], i + 1)
  BY <1>1, <1>9 DEF At
<1>11. ASSUME NEW m \in D PROVE Ring(g, m, U[m])
  <2>1. CASE m = l
    <3> SUFFICES ASSUME NEW i \in 0..Len(t)
                 PROVE  /\ g.next[At(l, t, i)] = At(l, t, i + 1)
                        /\ g.prev[At(l, t, i + 1)] = At(l, t, i)
      BY <2>1, <1>8 DEF Ring
    <3>0. i \in 0..Len(S[l]) /\ i + 1 \in 0..Len(S[l])
      BY <1>1, <1>9
    <3>1. CASE i < k - 1
      <4>1. At(l, t, i) = At(l, S[l], i) /\ At(l, t, i + 1) = At(l, S[l], i + 1)
        BY <3>0, <3>1, <1>1, <1>10
      <4>2. At(l, S[l], i) # p /\ At(l, S[l], i + 1) # n
        BY <3>0, <3>1, <1>1, <1>2, Forwards, Backwards
      <4>3. At(l, S[l], i) \in Addresses /\ At(l, S[l], i + 1) \in Addresses
        BY <1>1, There
      <4>4. h.next[At(l, S[l], i)] = At(l, S[l], i + 1) /\ h.prev[At(l, S[l], i + 1)] = At(l, S[l], i)
        BY <3>0, <1>1 DEF Ring
      <4> HIDE DEF p, n
      <4> QED BY <4>1, <4>2, <4>3, <4>4, <1>6
    <3>2. CASE i = k - 1
      <4>1. At(l, t, i) = p /\ At(l, t, i + 1) = n
        BY <3>0, <3>2, <1>1, <1>10
      <4> HIDE DEF p, n
      <4> QED BY <4>1, <1>4, <1>6
    <3>3. CASE i > k - 1
      <4> DEFINE j == i + 1
      <4>1. At(l, t, i) = At(l, S[l], j) /\ At(l, t, i + 1) = At(l, S[l], j + 1) /\ j \in 0..Len(S[l]) /\ j > k
        BY <3>0, <3>3, <1>1, <1>10
      <4> HIDE DEF j
      <4>2. At(l, S[l], j) # p /\ At(l, S[l], j + 1) # n
        BY <4>1, <1>1, <1>2, Forwards, Backwards
      <4>3. At(l, S[l], j) \in Addresses /\ At(l, S[l], j + 1) \in Addresses
        BY <1>1, There
      <4>4. h.next[At(l, S[l], j)] = At(l, S[l], j + 1) /\ h.prev[At(l, S[l], j + 1)] = At(l, S[l], j)
        BY <4>1, <1>1 DEF Ring
      <4> HIDE DEF p, n
      <4> QED BY <4>1, <4>2, <4>3, <4>4, <1>6
    <3> QED BY <3>0, <3>1, <3>2, <3>3, <1>1
  <2>2. CASE m # l
    <3>1. U[m] = S[m]
      BY <2>2, <1>1, <1>8
    <3> SUFFICES ASSUME NEW i \in 0..Len(S[m])
                 PROVE  /\ g.next[At(m, S[m], i)] = At(m, S[m], i + 1)
                        /\ g.prev[At(m, S[m], i + 1)] = At(m, S[m], i)
      BY <3>1 DEF Ring
    <3>2. At(m, S[m], i) # p /\ At(m, S[m], i + 1) # n
      BY <2>2, <1>1, <1>2, Forwards, Backwards
    <3>3. At(m, S[m], i) \in Addresses /\ At(m, S[m], i + 1) \in Addresses
      BY <1>1, There
    <3>4. h.next[At(m, S[m], i)] = At(m, S[m], i + 1) /\ h.prev[At(m, S[m], i + 1)] = At(m, S[m], i)
      BY <1>1 DEF Ring
    <3> HIDE DEF p, n
    <3> QED BY <3>2, <3>3, <3>4, <1>6
  <2> QED BY <2>1, <2>2
<1>12. \A m \in Heads \ D : U[m] = <<>>
  BY <1>8 DEF Rings
<1>13. Rings(g, D, U)
  BY <1>1, <1>6, <1>7, <1>11, <1>12 DEF Rings
<1> QED BY <1>3, <1>7, <1>13 DEF g, U, p, n, e

-----------------------------------------------------------------------------
(* Heads come and go.                                                      *)

LEMMA Empty ==
    /\ <<>> \in Seq(Nodes) /\ Len(<<>>) = 0
    /\ \A S : <<>> \in Seq(S)
  OBVIOUS

(* INIT_LIST_HEAD of a head without entries.                               *)
LEMMA FreshRing ==
    ASSUME NEW h, NEW D, NEW S, Rings(h, D, S), NEW l \in Heads, S[l] = <<>>
    PROVE  Rings(INIT_LIST_HEAD(h, l), D \cup {l}, S)
<1> DEFINE g == INIT_LIST_HEAD(h, l)
<1>1. /\ h \in Heaps /\ D \subseteq Heads /\ Once(Heads, S) /\ S \in [Heads -> Seq(Nodes)]
      /\ \A m \in D : Ring(h, m, S[m])
  BY DEF Rings, Once
<1>2. l \in Addresses
  BY DEF Addresses
<1>3. g \in Heaps /\ \A a \in Addresses :
         /\ g.next[a] = IF a = l THEN l ELSE h.next[a]
         /\ g.prev[a] = IF a = l THEN l ELSE h.prev[a]
  BY <1>1, <1>2, InitIs
<1> HIDE DEF g
<1>4. Ring(g, l, S[l])
  <2>1. At(l, S[l], 0) = l /\ At(l, S[l], 0 + 1) = l /\ 0..Len(S[l]) = {0}
    BY Empty DEF At
  <2> QED BY <2>1, <1>2, <1>3 DEF Ring
<1>5. ASSUME NEW m \in D, m # l PROVE Ring(g, m, S[m])
  <2> SUFFICES ASSUME NEW i \in 0..Len(S[m])
               PROVE  /\ g.next[At(m, S[m], i)] = At(m, S[m], i + 1)
                      /\ g.prev[At(m, S[m], i + 1)] = At(m, S[m], i)
    BY DEF Ring
  <2>1. \A k \in 1..Len(S[m]) : S[m][k] \in Nodes
    BY <1>1, Lengths
  <2>2. At(m, S[m], i) # l /\ At(m, S[m], i + 1) # l
    BY <2>1, <1>5, ListAssumption DEF At
  <2>3. At(m, S[m], i) \in Addresses /\ At(m, S[m], i + 1) \in Addresses
    BY <1>1, There
  <2>4. h.next[At(m, S[m], i)] = At(m, S[m], i + 1) /\ h.prev[At(m, S[m], i + 1)] = At(m, S[m], i)
    BY <1>1 DEF Ring
  <2> QED BY <2>2, <2>3, <2>4, <1>3
<1>6. Rings(g, D \cup {l}, S)
  <2>1. \A m \in D \cup {l} : Ring(g, m, S[m])
    BY <1>4, <1>5
  <2>2. \A m \in Heads \ (D \cup {l}) : S[m] = <<>>
    BY DEF Rings
  <2> QED BY <1>1, <1>3, <2>1, <2>2 DEF Rings
<1> QED BY <1>6 DEF g

LEMMA OnceGone ==
    ASSUME NEW K, NEW S, Once(K, S), NEW l \in K
    PROVE  Once(K, [S EXCEPT ![l] = <<>>])
<1> DEFINE U == [S EXCEPT ![l] = <<>>]
<1>1. U \in [K -> Seq(Nodes)] /\ U[l] = <<>> /\ \A m \in K \ {l} : U[m] = S[m]
  BY Empty DEF Once
<1>2. 1..Len(<<>>) = {}
  BY Empty
<1> HIDE DEF U
<1>3. ASSUME NEW m \in K, NEW r \in K, NEW i \in 1..Len(U[m]), NEW j \in 1..Len(U[r]),
             U[m][i] = U[r][j]
      PROVE  m = r /\ i = j
  <2>1. m # l /\ r # l
    BY <1>1, <1>2
  <2>2. U[m] = S[m] /\ U[r] = S[r]
    BY <2>1, <1>1
  <2> QED BY <2>2, <1>3 DEF Once
<1>4. Once(K, U)
  BY <1>1, <1>3 DEF Once
<1> QED BY <1>4 DEF U

(* A list that is given up.                                                *)
LEMMA GoneRing ==
    ASSUME NEW h, NEW D, NEW S, Rings(h, D, S), NEW l \in Heads
    PROVE  Rings(h, D \ {l}, [S EXCEPT ![l] = <<>>])
<1> DEFINE U == [S EXCEPT ![l] = <<>>]
<1>1. S \in [Heads -> Seq(Nodes)]
  BY DEF Rings, Once
<1>2. U[l] = <<>> /\ \A m \in Heads \ {l} : U[m] = S[m]
  BY <1>1
<1>3. Once(Heads, U)
  BY OnceGone DEF Rings
<1> HIDE DEF U
<1>4. Rings(h, D \ {l}, U)
  <2>1. \A m \in D \ {l} : Ring(h, m, U[m])
    BY <1>2 DEF Rings
  <2> QED BY <1>2, <1>3, <2>1 DEF Rings
<1> QED BY <1>4 DEF U

(* Writes to an entry that is on no list.                                  *)
LEMMA Loose ==
    ASSUME NEW h, NEW g \in Heaps, NEW D, NEW S, Rings(h, D, S), NEW x \in Nodes, Off(Heads, S, x),
           \A a \in Addresses \ {x} : g.next[a] = h.next[a] /\ g.prev[a] = h.prev[a]
    PROVE  Rings(g, D, S)
<1>1. Once(Heads, S) /\ D \subseteq Heads
  BY DEF Rings
<1>2. ASSUME NEW l \in D, NEW i
      PROVE  At(l, S[l], i) \in Addresses \ {x}
  BY <1>1, There
<1>3. \A l \in D : \A i \in 0..Len(S[l]) :
         LET a == At(l, S[l], i) IN g.next[a] = h.next[a] /\ g.prev[a] = h.prev[a]
  BY <1>2
<1> QED BY <1>3, Elsewhere

-----------------------------------------------------------------------------
(* All of r behind the first k entries of s.                               *)
Joined(s, k, r) ==
    [i \in 1..(Len(s) + Len(r)) |->
        IF i <= k THEN s[i] ELSE IF i <= k + Len(r) THEN r[i - k] ELSE s[i - Len(r)]]

LEMMA JoinedHas ==
    ASSUME NEW S, NEW s \in Seq(S), NEW r \in Seq(S), NEW k \in 0..Len(s)
    PROVE  Joined(s, k, r) \in Seq(S) /\ Len(Joined(s, k, r)) = Len(s) + Len(r)
<1>1. Len(s) \in Nat /\ Len(r) \in Nat /\ Len(s) + Len(r) \in Nat
  BY LenProperties
<1>2. (\A i \in 1..Len(s) : s[i] \in S) /\ \A i \in 1..Len(r) : r[i] \in S
  BY ElementOfSeq
<1>3. ASSUME NEW i \in 1..(Len(s) + Len(r)) PROVE Joined(s, k, r)[i] \in S
  <2>1. Joined(s, k, r)[i] = IF i <= k THEN s[i] ELSE IF i <= k + Len(r) THEN r[i - k] ELSE s[i - Len(r)]
    BY DEF Joined
  <2>2. CASE i <= k
    <3>1. i \in 1..Len(s)
      BY <2>2, <1>1
    <3> QED BY <2>1, <2>2, <3>1, <1>2
  <2>3. CASE ~(i <= k) /\ i <= k + Len(r)
    <3>1. i - k \in 1..Len(r)
      BY <2>3, <1>1
    <3> QED BY <2>1, <2>3, <3>1, <1>2
  <2>4. CASE ~(i <= k + Len(r))
    <3>1. i - Len(r) \in 1..Len(s) /\ ~(i <= k)
      BY <2>4, <1>1
    <3> QED BY <2>1, <2>4, <3>1, <1>2
  <2> QED BY <2>2, <2>3, <2>4
<1>4. Joined(s, k, r) \in [1..(Len(s) + Len(r)) -> S]
  BY <1>3 DEF Joined
<1> QED BY <1>1, <1>4, AsSeq

LEMMA JoinedIs ==
    ASSUME NEW S, NEW s \in Seq(S), NEW r \in Seq(S)
    PROVE  r \o s = Joined(s, 0, r) /\ s \o r = Joined(s, Len(s), r)
<1>1. Len(s) \in Nat /\ Len(r) \in Nat /\ 0 \in 0..Len(s) /\ Len(s) \in 0..Len(s)
  BY LenProperties
<1>2. \A k \in 0..Len(s) : Joined(s, k, r) \in Seq(S) /\ Len(Joined(s, k, r)) = Len(s) + Len(r)
  BY JoinedHas
<1>3. r \o s = Joined(s, 0, r)
  <2> DEFINE d == r \o s
             u == Joined(s, 0, r)
  <2>1. d \in Seq(S) /\ Len(d) = Len(r) + Len(s)
        /\ \A i \in 1..(Len(r) + Len(s)) : d[i] = IF i <= Len(r) THEN r[i] ELSE s[i - Len(r)]
    BY ConcatHas
  <2>2. u \in Seq(S) /\ Len(u) = Len(s) + Len(r)
    BY <1>1, <1>2, Zenon
  <2>3. \A i \in 1..(Len(s) + Len(r)) : u[i] = IF i <= Len(r) THEN r[i] ELSE s[i - Len(r)]
    BY <1>1 DEF Joined
  <2> HIDE DEF d, u
  <2>4. \A i \in 1..Len(d) : d[i] = u[i]
    BY <1>1, <2>1, <2>2, <2>3
  <2>5. Len(d) = Len(u)
    BY <1>1, <2>1, <2>2
  <2>6. d = u
    BY <2>1, <2>2, <2>4, <2>5, Same
  <2> QED BY <2>6 DEF d, u
<1>4. s \o r = Joined(s, Len(s), r)
  <2> DEFINE d == s \o r
             u == Joined(s, Len(s), r)
  <2>1. d \in Seq(S) /\ Len(d) = Len(s) + Len(r)
        /\ \A i \in 1..(Len(s) + Len(r)) : d[i] = IF i <= Len(s) THEN s[i] ELSE r[i - Len(s)]
    BY ConcatHas
  <2>2. u \in Seq(S) /\ Len(u) = Len(s) + Len(r)
    BY <1>1, <1>2, Zenon
  <2>3. \A i \in 1..(Len(s) + Len(r)) : u[i] = IF i <= Len(s) THEN s[i] ELSE r[i - Len(s)]
    BY <1>1 DEF Joined
  <2> HIDE DEF d, u
  <2>4. \A i \in 1..Len(d) : d[i] = u[i]
    BY <1>1, <2>1, <2>2, <2>3
  <2>5. Len(d) = Len(u)
    BY <1>1, <2>1, <2>2
  <2>6. d = u
    BY <2>1, <2>2, <2>4, <2>5, Same
  <2> QED BY <2>6 DEF d, u
<1> QED BY <1>3, <1>4

(* All of one list moves to another.                                       *)
LEMMA OnceJoined ==
    ASSUME NEW K, NEW S, Once(K, S), NEW l \in K, NEW at \in K, l # at, NEW k \in 0..Len(S[at])
    PROVE  Once(K, [S EXCEPT ![at] = Joined(@, k, S[l]), ![l] = <<>>])
<1> DEFINE t == Joined(S[at], k, S[l])
           U == [S EXCEPT ![at] = Joined(@, k, S[l]), ![l] = <<>>]
           M == Len(S[l])
           N == Len(S[at])
<1>1. S[l] \in Seq(Nodes) /\ M \in Nat /\ S[at] \in Seq(Nodes) /\ N \in Nat
  BY Lengths
<1>2. t \in Seq(Nodes) /\ Len(t) = N + M
  BY <1>1, JoinedHas
<1>3. \A i \in 1..(N + M) : t[i] = IF i <= k THEN S[at][i] ELSE IF i <= k + M THEN S[l][i - k] ELSE S[at][i - M]
  BY DEF Joined
<1>4. U \in [K -> Seq(Nodes)] /\ U[at] = t /\ U[l] = <<>> /\ \A m \in K \ {l, at} : U[m] = S[m]
  <2>1. U = [S EXCEPT ![at] = t, ![l] = <<>>] /\ S \in [K -> Seq(Nodes)]
    BY DEF Once
  <2> HIDE DEF t, U
  <2> QED BY <2>1, <1>2, Empty
<1> HIDE DEF t, U
<1>5. ASSUME NEW i \in 1..Len(t)
      PROVE  \/ \E j \in 1..N : t[i] = S[at][j] /\ j = (IF i <= k THEN i ELSE i - M) /\ ~(i > k /\ i <= k + M)
             \/ \E j \in 1..M : t[i] = S[l][j] /\ j = i - k
  <2> HIDE DEF M, N
  <2>1. CASE i <= k
    BY <2>1, <1>1, <1>2, <1>3 DEF N
  <2>2. CASE i > k /\ i <= k + M
    <3>1. i - k \in 1..M
      BY <2>2, <1>1, <1>2 DEF N
    <3>2. t[i] = S[l][i - k]
      BY <2>2, <1>1, <1>2, <1>3 DEF N
    <3> QED BY <3>1, <3>2
  <2>3. CASE i > k + M
    <3>1. i - M \in 1..N /\ i > k
      BY <2>3, <1>1, <1>2 DEF N
    <3>2. t[i] = S[at][i - M]
      BY <2>3, <1>1, <1>2, <1>3 DEF N
    <3> QED BY <3>1, <3>2, <2>3, <1>1 DEF N
  <2> QED BY <2>1, <2>2, <2>3, <1>1, <1>2 DEF N
<1>6. ASSUME NEW i \in 1..Len(t), NEW j \in 1..Len(t), t[i] = t[j] PROVE i = j
  <2> HIDE DEF M, N
  <2>1. CASE \E a \in 1..N : t[i] = S[at][a] /\ a = (IF i <= k THEN i ELSE i - M) /\ ~(i > k /\ i <= k + M)
    <3>1. PICK a \in 1..N : t[i] = S[at][a] /\ a = (IF i <= k THEN i ELSE i - M) /\ ~(i > k /\ i <= k + M)
      BY <2>1
    <3>2. CASE \E b \in 1..N : t[j] = S[at][b] /\ b = (IF j <= k THEN j ELSE j - M) /\ ~(j > k /\ j <= k + M)
      <4>1. PICK b \in 1..N : t[j] = S[at][b] /\ b = (IF j <= k THEN j ELSE j - M) /\ ~(j > k /\ j <= k + M)
        BY <3>2
      <4>2. a = b
        BY <3>1, <4>1, <1>6 DEF Once, N
      <4> QED BY <3>1, <4>1, <4>2, <1>1, <1>2 DEF N
    <3>3. CASE \E b \in 1..M : t[j] = S[l][b] /\ b = j - k
      BY <3>1, <3>3, <1>6 DEF Once, N, M
    <3> QED BY <3>2, <3>3, <1>5
  <2>2. CASE \E a \in 1..M : t[i] = S[l][a] /\ a = i - k
    <3>1. PICK a \in 1..M : t[i] = S[l][a] /\ a = i - k
      BY <2>2
    <3>2. CASE \E b \in 1..N : t[j] = S[at][b]
      BY <3>1, <3>2, <1>6 DEF Once, N, M
    <3>3. CASE \E b \in 1..M : t[j] = S[l][b] /\ b = j - k
      <4>1. PICK b \in 1..M : t[j] = S[l][b] /\ b = j - k
        BY <3>3
      <4>2. a = b
        BY <3>1, <4>1, <1>6 DEF Once, M
      <4> QED BY <3>1, <4>1, <4>2, <1>1, <1>2 DEF N
    <3> QED BY <3>2, <3>3, <1>5
  <2> QED BY <2>1, <2>2, <1>5
<1>7. ASSUME NEW m \in K \ {l, at}, NEW i \in 1..Len(t), NEW j \in 1..Len(S[m])
      PROVE  t[i] # S[m][j]
  <2>1. (\E a \in 1..N : t[i] = S[at][a]) \/ (\E a \in 1..M : t[i] = S[l][a])
    BY <1>5
  <2> QED BY <2>1 DEF Once
<1>8. ASSUME NEW m \in K, NEW r \in K, NEW i \in 1..Len(U[m]), NEW j \in 1..Len(U[r]),
             U[m][i] = U[r][j]
      PROVE  m = r /\ i = j
  <2>1. m # l /\ r # l
    BY <1>4, Empty
  <2>2. CASE m = at /\ r = at
    BY <2>2, <1>4, <1>6, <1>8
  <2>3. CASE m = at /\ r # at
    BY <2>1, <2>3, <1>4, <1>7, <1>8
  <2>4. CASE m # at /\ r = at
    BY <2>1, <2>4, <1>4, <1>7, <1>8
  <2>5. CASE m # at /\ r # at
    <3>1. U[m] = S[m] /\ U[r] = S[r]
      BY <2>1, <2>5, <1>4
    <3> QED BY <3>1, <1>8 DEF Once
  <2> QED BY <2>2, <2>3, <2>4, <2>5
<1>9. Once(K, U)
  BY <1>4, <1>8 DEF Once
<1> QED BY <1>9 DEF U

LEMMA SpliceIs ==
    ASSUME NEW h \in Heaps, NEW l \in Addresses, NEW p \in Addresses, NEW n \in Addresses,
           NEW a1 \in Addresses, NEW z \in Addresses, h.next[l] = a1, h.prev[l] = z,
           a1 # l, a1 # n, z # p
    PROVE  /\ SpliceBetween(h, l, p, n) \in Heaps
           /\ \A a \in Addresses :
                 /\ SpliceBetween(h, l, p, n).next[a] =
                       IF a = p THEN a1 ELSE IF a = z THEN n ELSE h.next[a]
                 /\ SpliceBetween(h, l, p, n).prev[a] =
                       IF a = a1 THEN p ELSE IF a = n THEN z ELSE h.prev[a]
  BY DEF SpliceBetween, list_empty, Heaps

(* Splicing a list that is not empty behind the k-th entry of another.      *)
LEMMA JoinRing ==
    ASSUME NEW h, NEW D, NEW S, Rings(h, D, S), NEW l \in D, NEW at \in D, l # at,
           S[l] # <<>>, NEW k \in 0..Len(S[at])
    PROVE  Rings(SpliceBetween(h, l, At(at, S[at], k), At(at, S[at], k + 1)), D \ {l},
                 [S EXCEPT ![at] = Joined(@, k, S[l]), ![l] = <<>>])
<1> DEFINE p == At(at, S[at], k)
           n == At(at, S[at], k + 1)
           g == SpliceBetween(h, l, p, n)
           t == Joined(S[at], k, S[l])
           U == [S EXCEPT ![at] = Joined(@, k, S[l]), ![l] = <<>>]
           M == Len(S[l])
           N == Len(S[at])
           a1 == S[l][1]
           z == S[l][M]
<1>1. /\ h \in Heaps /\ D \subseteq Heads /\ Once(Heads, S) /\ S \in [Heads -> Seq(Nodes)]
      /\ \A m \in D : Ring(h, m, S[m])
  BY DEF Rings, Once
<1>2. S[l] \in Seq(Nodes) /\ M \in Nat /\ S[at] \in Seq(Nodes) /\ N \in Nat /\ M # 0 /\ l \in Heads /\ at \in Heads
  <2>1. S[l] \in Seq(Nodes) /\ M \in Nat /\ S[at] \in Seq(Nodes) /\ N \in Nat
    BY <1>1, Lengths
  <2>2. M # 0
    BY <2>1, EmptyLength
  <2> QED BY <2>1, <2>2, <1>1
<1>3. /\ 0 \in 0..M /\ M \in 0..M /\ 1 \in 0..M /\ M - 1 \in 0..M
      /\ a1 = At(l, S[l], 1) /\ z = At(l, S[l], M) /\ l = At(l, S[l], 0) /\ l = At(l, S[l], M + 1)
  BY <1>2 DEF At
<1>4. h.next[l] = a1 /\ h.prev[l] = z
  <2>1. Ring(h, l, S[l])
    BY <1>1
  <2>2. h.next[At(l, S[l], 0)] = At(l, S[l], 0 + 1) /\ h.prev[At(l, S[l], M + 1)] = At(l, S[l], M)
    BY <2>1, <1>3 DEF Ring
  <2>3. 0 + 1 = 1
    OBVIOUS
  <2> HIDE DEF a1, z
  <2> QED BY <2>2, <2>3, <1>3, Zenon
<1>5. p \in Addresses /\ n \in Addresses /\ a1 \in Addresses /\ z \in Addresses /\ l \in Addresses
  BY <1>1, <1>2, <1>3, There
<1>6. a1 # l /\ a1 # n /\ z # p
  <2>1. a1 # l
    BY <1>1, <1>2, <1>3, Forwards
  <2>2. a1 # n
    <3>1. 0 + 1 = 1
      OBVIOUS
    <3>2. At(l, S[l], 0 + 1) # At(at, S[at], k + 1)
      BY <1>1, <1>2, <1>3, Backwards
    <3> QED BY <3>1, <3>2, <1>3
  <2>3. z # p
    BY <1>1, <1>2, <1>3, Forwards
  <2> QED BY <2>1, <2>2, <2>3
<1>7. g \in Heaps /\ \A a \in Addresses :
         /\ g.next[a] = IF a = p THEN a1 ELSE IF a = z THEN n ELSE h.next[a]
         /\ g.prev[a] = IF a = a1 THEN p ELSE IF a = n THEN z ELSE h.prev[a]
  <2> HIDE DEF p, n, a1, z
  <2> QED BY <1>1, <1>4, <1>5, <1>6, SpliceIs
<1>8. Once(Heads, U)
  BY <1>1, <1>2, OnceJoined
<1>9. U[at] = t /\ U[l] = <<>> /\ \A m \in Heads \ {l, at} : U[m] = S[m]
  BY <1>1, <1>2
<1>10. Len(t) = N + M
  BY <1>2, JoinedHas
<1>11. \A i \in 1..(N + M) : t[i] = IF i <= k THEN S[at][i] ELSE IF i <= k + M THEN S[l][i - k] ELSE S[at][i - M]
  BY DEF Joined
<1> HIDE DEF g, t, U
<1>12. /\ \A i \in 0..k : At(at, t, i) = At(at, S[at], i)
       /\ \A i \in 1..M : At(at, t, k + i) = At(l, S[l], i)
       /\ \A i \in (k + 1)..(N + 1) : At(at, t, i + M) = At(at, S[at], i)
  <2>1. ASSUME NEW i \in 0..k PROVE At(at, t, i) = At(at, S[at], i)
    <3> HIDE DEF M, N
    <3>1. i \in 1..Len(t) <=> i \in 1..N
      BY <1>2, <1>10 DEF N
    <3> QED BY <3>1, <1>2, <1>10, <1>11 DEF At, N
  <2>2. ASSUME NEW i \in 1..M PROVE At(at, t, k + i) = At(l, S[l], i)
    <3> DEFINE j == k + i
    <3> HIDE DEF M, N
    <3>1. j \in 1..(N + M) /\ ~(j <= k) /\ j <= k + M /\ j - k = i
      BY <1>2 DEF N
    <3> HIDE DEF j
    <3>2. t[j] = S[l][i]
      BY <3>1, <1>11
    <3>3. At(at, t, j) = At(l, S[l], i)
      BY <3>1, <3>2, <1>10 DEF At, M
    <3> QED BY <3>3 DEF j
  <2>3. ASSUME NEW i \in (k + 1)..(N + 1) PROVE At(at, t, i + M) = At(at, S[at], i)
    <3> DEFINE j == i + M
    <3> HIDE DEF M, N
    <3>1. ~(j <= k) /\ ~(j <= k + M) /\ j - M = i /\ (j \in 1..(N + M) <=> i # N + 1) /\ (i \in 1..N <=> i # N + 1)
      BY <1>2 DEF N
    <3> HIDE DEF j
    <3>2. CASE i = N + 1
      BY <3>1, <3>2, <1>10 DEF At, j, N
    <3>3. CASE i # N + 1
      <4>1. t[j] = S[at][i]
        BY <3>1, <3>3, <1>11
      <4> QED BY <3>1, <3>3, <4>1, <1>10 DEF At, j, N
    <3> QED BY <3>2, <3>3
  <2> QED BY <2>1, <2>2, <2>3
<1>13. ASSUME NEW m \in D, m # l, NEW i \in 0..Len(S[m]),
              m = at => i # k
       PROVE  /\ g.next[At(m, S[m], i)] = At(m, S[m], i + 1)
              /\ g.prev[At(m, S[m], i + 1)] = At(m, S[m], i)
  <2>1. At(m, S[m], i) # p /\ At(m, S[m], i + 1) # n
    BY <1>1, <1>2, <1>13, Forwards, Backwards
  <2>2. At(m, S[m], i) # z
    BY <1>1, <1>2, <1>3, <1>13, Forwards
  <2>3. At(m, S[m], i + 1) # a1
    <3>1. 0 + 1 = 1
      OBVIOUS
    <3>2. At(m, S[m], i + 1) # At(l, S[l], 0 + 1)
      BY <1>1, <1>2, <1>3, <1>13, Backwards
    <3> QED BY <3>1, <3>2, <1>3
  <2>4. At(m, S[m], i) \in Addresses /\ At(m, S[m], i + 1) \in Addresses
    BY <1>1, There
  <2>5. h.next[At(m, S[m], i)] = At(m, S[m], i + 1) /\ h.prev[At(m, S[m], i + 1)] = At(m, S[m], i)
    BY <1>1 DEF Ring
  <2> HIDE DEF p, n, a1, z
  <2> QED BY <2>1, <2>2, <2>3, <2>4, <2>5, <1>7
<1>14. ASSUME NEW i \in 1..(M - 1)
       PROVE  /\ g.next[At(l, S[l], i)] = At(l, S[l], i + 1)
              /\ g.prev[At(l, S[l], i + 1)] = At(l, S[l], i)
  <2>0. i \in 0..M /\ i # 0 /\ i # M
    BY <1>2
  <2>1. At(l, S[l], i) # p /\ At(l, S[l], i + 1) # n
    BY <2>0, <1>1, <1>2, Forwards, Backwards
  <2>2. At(l, S[l], i) # z
    BY <2>0, <1>1, <1>2, <1>3, Forwards
  <2>3. At(l, S[l], i + 1) # a1
    <3>1. 0 + 1 = 1
      OBVIOUS
    <3>2. At(l, S[l], i + 1) # At(l, S[l], 0 + 1)
      BY <2>0, <1>1, <1>2, <1>3, Backwards
    <3> QED BY <3>1, <3>2, <1>3
  <2>4. At(l, S[l], i) \in Addresses /\ At(l, S[l], i + 1) \in Addresses
    BY <1>1, <1>2, There
  <2>5. h.next[At(l, S[l], i)] = At(l, S[l], i + 1) /\ h.prev[At(l, S[l], i + 1)] = At(l, S[l], i)
    BY <2>0, <1>1 DEF Ring
  <2> HIDE DEF p, n, a1, z
  <2> QED BY <2>1, <2>2, <2>3, <2>4, <2>5, <1>7
<1>15. ASSUME NEW i \in 0..Len(t)
       PROVE  /\ g.next[At(at, t, i)] = At(at, t, i + 1)
              /\ g.prev[At(at, t, i + 1)] = At(at, t, i)
  <2>0. i \in Int /\ 0 <= i /\ i <= N + M /\ M \in Nat /\ N \in Nat /\ M # 0 /\ k \in Int /\ 0 <= k /\ k <= N
    <3>1. M \in Nat /\ N \in Nat /\ M # 0
      BY <1>2
    <3>2. i \in 0..(N + M) /\ k \in 0..N
      BY <1>10
    <3> HIDE DEF M, N
    <3> QED BY <3>1, <3>2
  <2> HIDE DEF M, N
  <2>1. CASE i < k
    <3>1. At(at, t, i) = At(at, S[at], i) /\ At(at, t, i + 1) = At(at, S[at], i + 1) /\ i \in 0..N /\ i # k
      BY <2>0, <2>1, <1>12
    <3> QED BY <3>1, <1>13 DEF N
  <2>2. CASE i = k
    <3>1. At(at, t, i) = p
      BY <2>0, <2>2, <1>12
    <3>2. At(at, t, i + 1) = a1
      BY <2>0, <2>2, <1>12, <1>3
    <3> HIDE DEF p, n, a1, z
    <3> QED BY <3>1, <3>2, <1>5, <1>6, <1>7
  <2>3. CASE k < i /\ i < k + M
    <3> DEFINE j == i - k
    <3>1. j \in 1..M /\ j \in 1..(M - 1) /\ j + 1 \in 1..M /\ k + j = i /\ k + (j + 1) = i + 1
      BY <2>0, <2>3
    <3> HIDE DEF j
    <3>2. At(at, t, k + j) = At(l, S[l], j) /\ At(at, t, k + (j + 1)) = At(l, S[l], j + 1)
      BY <3>1, <1>12
    <3>3. At(at, t, i) = At(l, S[l], j) /\ At(at, t, i + 1) = At(l, S[l], j + 1)
      BY <3>1, <3>2, Zenon
    <3> QED BY <3>1, <3>3, <1>14
  <2>4. CASE i = k + M
    <3>1. At(at, t, i) = z
      <4>1. M \in 1..M
        BY <2>0
      <4> QED BY <4>1, <2>4, <1>12, <1>3
    <3>2. At(at, t, i + 1) = n
      <4>1. k + 1 \in (k + 1)..(N + 1) /\ (k + 1) + M = i + 1
        BY <2>0, <2>4
      <4>2. At(at, t, (k + 1) + M) = n
        BY <4>1, <1>12
      <4> HIDE DEF n
      <4> QED BY <4>1, <4>2, Zenon
    <3> HIDE DEF p, n, a1, z
    <3> QED BY <3>1, <3>2, <1>5, <1>6, <1>7
  <2>5. CASE k + M < i
    <3> DEFINE j == i - M
    <3>1. j \in (k + 1)..(N + 1) /\ j + 1 \in (k + 1)..(N + 1) /\ j + M = i /\ (j + 1) + M = i + 1 /\ j \in 0..N /\ j # k
      BY <2>0, <2>5
    <3> HIDE DEF j
    <3>2. At(at, t, j + M) = At(at, S[at], j) /\ At(at, t, (j + 1) + M) = At(at, S[at], j + 1)
      BY <3>1, <1>12
    <3>3. At(at, t, i) = At(at, S[at], j) /\ At(at, t, i + 1) = At(at, S[at], j + 1)
      BY <3>1, <3>2, Zenon
    <3> QED BY <3>1, <3>3, <1>13 DEF N
  <2> QED BY <2>0, <2>1, <2>2, <2>3, <2>4, <2>5
<1>16. ASSUME NEW m \in D \ {l} PROVE Ring(g, m, U[m])
  <2>1. CASE m = at
    BY <2>1, <1>9, <1>15 DEF Ring
  <2>2. CASE m # at
    <3>1. U[m] = S[m]
      BY <2>2, <1>1, <1>9
    <3> QED BY <2>2, <3>1, <1>13 DEF Ring
  <2> QED BY <2>1, <2>2
<1>17. \A m \in Heads \ (D \ {l}) : U[m] = <<>>
  BY <1>9 DEF Rings
<1>18. Rings(g, D \ {l}, U)
  BY <1>1, <1>7, <1>8, <1>16, <1>17 DEF Rings
<1> QED BY <1>18 DEF g, U, p, n

-----------------------------------------------------------------------------
(* A list in two.                                                          *)

LEMMA OnceCut ==
    ASSUME NEW K, NEW S, Once(K, S), NEW l \in K, NEW f \in K, l # f, S[l] = <<>>,
           NEW k \in 0..Len(S[f])
    PROVE  Once(K, [S EXCEPT ![l] = SubSeq(S[f], 1, k), ![f] = SubSeq(@, k + 1, Len(@))])
<1> DEFINE a == SubSeq(S[f], 1, k)
           b == SubSeq(S[f], k + 1, Len(S[f]))
           U == [S EXCEPT ![l] = SubSeq(S[f], 1, k), ![f] = SubSeq(@, k + 1, Len(@))]
           N == Len(S[f])
<1>1. S[f] \in Seq(Nodes) /\ N \in Nat
  BY Lengths
<1>2. a \in Seq(Nodes) /\ Len(a) = k /\ \A i \in 1..k : a[i] = S[f][i]
  BY <1>1, FrontHas
<1>3. b \in Seq(Nodes) /\ Len(b) = N - k /\ \A i \in 1..(N - k) : b[i] = S[f][k + i]
  BY <1>1, RestHas
<1>4. U \in [K -> Seq(Nodes)] /\ U[l] = a /\ U[f] = b /\ \A m \in K \ {l, f} : U[m] = S[m]
  <2>1. U = [S EXCEPT ![l] = a, ![f] = b] /\ S \in [K -> Seq(Nodes)]
    BY DEF Once
  <2> HIDE DEF a, b, U
  <2> QED BY <2>1, <1>2, <1>3
<1> HIDE DEF a, b, U
<1>5. \A i \in 1..Len(a) : \E j \in 1..N : a[i] = S[f][j] /\ j = i /\ j <= k
  BY <1>1, <1>2
<1>6. \A i \in 1..Len(b) : \E j \in 1..N : b[i] = S[f][j] /\ j = k + i /\ j > k
  <2> TAKE i \in 1..Len(b)
  <2>1. k + i \in 1..N /\ i \in 1..(N - k) /\ k + i > k
    BY <1>1, <1>3
  <2> QED BY <2>1, <1>3
<1>7. ASSUME NEW m \in K, NEW r \in K, NEW i \in 1..Len(U[m]), NEW j \in 1..Len(U[r]),
             U[m][i] = U[r][j]
      PROVE  m = r /\ i = j
  <2>1. CASE m \in {l, f} /\ r \in {l, f}
    <3>1. PICK x \in 1..N : U[m][i] = S[f][x] /\ (IF m = l THEN x = i /\ x <= k ELSE x = k + i /\ x > k)
      BY <2>1, <1>4, <1>5, <1>6
    <3>2. PICK y \in 1..N : U[r][j] = S[f][y] /\ (IF r = l THEN y = j /\ y <= k ELSE y = k + j /\ y > k)
      BY <2>1, <1>4, <1>5, <1>6
    <3>3. x = y
      <4>1. S[f][x] = S[f][y]
        BY <3>1, <3>2, <1>7
      <4> QED BY <4>1 DEF Once
    <3>4. i \in Int /\ j \in Int /\ k \in Int
      BY <2>1, <1>2, <1>3, <1>4
    <3>5. m = r
      BY <3>1, <3>2, <3>3, <2>1
    <3> QED BY <3>1, <3>2, <3>3, <3>4, <3>5
  <2>2. CASE m \in {l, f} /\ r \notin {l, f}
    <3>1. PICK x \in 1..N : U[m][i] = S[f][x]
      BY <2>2, <1>4, <1>5, <1>6
    <3>2. S[f][x] = S[r][j] /\ j \in 1..Len(S[r])
      BY <3>1, <2>2, <1>4, <1>7
    <3> QED BY <3>2, <2>2 DEF Once
  <2>3. CASE m \notin {l, f} /\ r \in {l, f}
    <3>1. PICK x \in 1..N : U[r][j] = S[f][x]
      BY <2>3, <1>4, <1>5, <1>6
    <3> QED BY <3>1, <2>3, <1>4, <1>7 DEF Once
  <2>4. CASE m \notin {l, f} /\ r \notin {l, f}
    BY <2>4, <1>4, <1>7 DEF Once
  <2> QED BY <2>1, <2>2, <2>3, <2>4
<1>8. Once(K, U)
  BY <1>4, <1>7 DEF Once
<1> QED BY <1>8 DEF U

LEMMA CutIs ==
    ASSUME NEW h \in Heaps, NEW l \in Addresses, NEW f \in Addresses, NEW e \in Addresses,
           NEW a1 \in Addresses, NEW n \in Addresses, h.next[f] = a1, h.next[e] = n,
           l # a1, l # n, a1 # n, l # e, l # f, f # e
    PROVE  /\ CutAfter(h, l, f, e) \in Heaps
           /\ \A a \in Addresses :
                 /\ CutAfter(h, l, f, e).next[a] =
                       IF a = l THEN a1 ELSE IF a = e THEN l ELSE IF a = f THEN n ELSE h.next[a]
                 /\ CutAfter(h, l, f, e).prev[a] =
                       IF a = a1 THEN l ELSE IF a = l THEN e ELSE IF a = n THEN f ELSE h.prev[a]
  BY DEF CutAfter, Heaps

(* The first k entries of f become the list of l.                          *)
LEMMA CutRing ==
    ASSUME NEW h, NEW D, NEW S, Rings(h, D, S), NEW l \in D, NEW f \in D, l # f,
           S[l] = <<>>, NEW k \in 1..Len(S[f])
    PROVE  Rings(CutAfter(h, l, f, S[f][k]), D,
                 [S EXCEPT ![l] = SubSeq(S[f], 1, k), ![f] = SubSeq(@, k + 1, Len(@))])
<1> DEFINE e == S[f][k]
           n == At(f, S[f], k + 1)
           a1 == S[f][1]
           a == SubSeq(S[f], 1, k)
           b == SubSeq(S[f], k + 1, Len(S[f]))
           g == CutAfter(h, l, f, e)
           U == [S EXCEPT ![l] = SubSeq(S[f], 1, k), ![f] = SubSeq(@, k + 1, Len(@))]
           N == Len(S[f])
<1>1. /\ h \in Heaps /\ D \subseteq Heads /\ Once(Heads, S) /\ S \in [Heads -> Seq(Nodes)]
      /\ \A m \in D : Ring(h, m, S[m])
  BY DEF Rings, Once
<1>2. S[f] \in Seq(Nodes) /\ N \in Nat /\ l \in Heads /\ f \in Heads /\ k \in 0..N
  <2>1. S[f] \in Seq(Nodes) /\ N \in Nat
    BY <1>1, Lengths
  <2> QED BY <1>1, <2>1
<1>3. /\ 0 \in 0..N /\ 1 \in 0..N /\ 0 # k
      /\ a1 = At(f, S[f], 1) /\ e = At(f, S[f], k) /\ f = At(f, S[f], 0)
  BY <1>2 DEF At
<1>4. h.next[f] = a1 /\ h.next[e] = n
  <2>1. Ring(h, f, S[f])
    BY <1>1
  <2>2. h.next[At(f, S[f], 0)] = At(f, S[f], 0 + 1) /\ h.next[At(f, S[f], k)] = At(f, S[f], k + 1)
    BY <2>1, <1>2, <1>3 DEF Ring
  <2>3. 0 + 1 = 1
    OBVIOUS
  <2> HIDE DEF a1, e
  <2> QED BY <2>2, <2>3, <1>3, Zenon
<1>5. n \in Addresses /\ a1 \in Addresses /\ e \in Addresses /\ l \in Addresses /\ f \in Addresses
  <2>1. n \in Addresses /\ a1 \in Addresses /\ e \in Addresses
    BY <1>1, <1>2, <1>3, There
  <2> QED BY <2>1, <1>2 DEF Addresses
<1>6. l # a1 /\ l # n /\ l # e /\ f # e /\ a1 # n
  <2>1. \A i \in 1..N : S[f][i] \in Nodes
    BY <1>1, <1>2, Lengths
  <2>2. l \notin Nodes /\ f \notin Nodes
    BY <1>2, ListAssumption
  <2>3. l # a1 /\ l # e /\ f # e
    BY <2>1, <2>2, <1>2
  <2>4. l # n
    BY <2>1, <2>2 DEF At
  <2>5. a1 # n
    <3>1. 0 + 1 = 1
      OBVIOUS
    <3>2. At(f, S[f], 0 + 1) # At(f, S[f], k + 1)
      BY <1>1, <1>2, <1>3, Backwards
    <3> QED BY <3>1, <3>2, <1>3
  <2> QED BY <2>3, <2>4, <2>5
<1>7. g \in Heaps /\ \A x \in Addresses :
         /\ g.next[x] = IF x = l THEN a1 ELSE IF x = e THEN l ELSE IF x = f THEN n ELSE h.next[x]
         /\ g.prev[x] = IF x = a1 THEN l ELSE IF x = l THEN e ELSE IF x = n THEN f ELSE h.prev[x]
  <2> HIDE DEF n, a1, e
  <2> QED BY <1>1, <1>4, <1>5, <1>6, CutIs
<1>8. Once(Heads, U)
  BY <1>1, <1>2, OnceCut
<1>9. U[l] = a /\ U[f] = b /\ \A m \in Heads \ {l, f} : U[m] = S[m]
  BY <1>1, <1>2
<1>10. Len(a) = k /\ \A i \in 1..k : a[i] = S[f][i]
  BY <1>2, FrontHas
<1>11. Len(b) = N - k /\ \A i \in 1..(N - k) : b[i] = S[f][k + i]
  BY <1>2, RestHas
<1> HIDE DEF g, a, b, U
<1>12. ASSUME NEW m \in D, m # l, NEW i \in 0..Len(S[m]), m = f => i # 0 /\ i # k
       PROVE  /\ g.next[At(m, S[m], i)] = At(m, S[m], i + 1)
              /\ g.prev[At(m, S[m], i + 1)] = At(m, S[m], i)
  <2>1. At(m, S[m], i) # f /\ At(m, S[m], i) # e
    BY <1>1, <1>2, <1>3, <1>12, Forwards
  <2>2. At(m, S[m], i + 1) # n
    BY <1>1, <1>2, <1>12, Backwards
  <2>3. At(m, S[m], i + 1) # a1
    <3>1. 0 + 1 = 1
      OBVIOUS
    <3>2. At(m, S[m], i + 1) # At(f, S[f], 0 + 1)
      BY <1>1, <1>2, <1>3, <1>12, Backwards
    <3> QED BY <3>1, <3>2, <1>3
  <2>4. At(m, S[m], i) # l /\ At(m, S[m], i + 1) # l
    <3>1. \A j \in 1..Len(S[m]) : S[m][j] \in Nodes
      BY <1>1, Lengths
    <3> QED BY <3>1, <1>1, <1>12, ListAssumption DEF At
  <2>5. At(m, S[m], i) \in Addresses /\ At(m, S[m], i + 1) \in Addresses
    BY <1>1, There
  <2>6. h.next[At(m, S[m], i)] = At(m, S[m], i + 1) /\ h.prev[At(m, S[m], i + 1)] = At(m, S[m], i)
    BY <1>1 DEF Ring
  <2> HIDE DEF n, a1, e
  <2> QED BY <2>1, <2>2, <2>3, <2>4, <2>5, <2>6, <1>7
<1>13. Ring(g, l, a)
  <2> SUFFICES ASSUME NEW i \in 0..k
               PROVE  g.next[At(l, a, i)] = At(l, a, i + 1) /\ g.prev[At(l, a, i + 1)] = At(l, a, i)
    BY <1>10 DEF Ring
  <2>1. \A j \in 1..k : At(l, a, j) = At(f, S[f], j)
    <3> TAKE j \in 1..k
    <3>1. j \in 1..N
      BY <1>2
    <3> QED BY <3>1, <1>10 DEF At
  <2>2. At(l, a, 0) = l /\ At(l, a, k + 1) = l
    BY <1>2, <1>10 DEF At
  <2>3. CASE i = 0
    <3>1. At(l, a, i) = l /\ At(l, a, i + 1) = a1
      BY <2>1, <2>2, <2>3, <1>2, <1>3
    <3> HIDE DEF n, a1, e
    <3> QED BY <3>1, <1>5, <1>7
  <2>4. CASE i = k
    <3>1. At(l, a, i) = e /\ At(l, a, i + 1) = l
      BY <2>1, <2>2, <2>4, <1>2, <1>3
    <3> HIDE DEF n, a1, e
    <3> QED BY <3>1, <1>5, <1>6, <1>7
  <2>5. CASE i # 0 /\ i # k
    <3>1. At(l, a, i) = At(f, S[f], i) /\ At(l, a, i + 1) = At(f, S[f], i + 1) /\ i \in 0..N
      BY <2>1, <2>5, <1>2
    <3> QED BY <3>1, <2>5, <1>12
  <2> QED BY <2>3, <2>4, <2>5
<1>14. Ring(g, f, b)
  <2> SUFFICES ASSUME NEW i \in 0..(N - k)
               PROVE  g.next[At(f, b, i)] = At(f, b, i + 1) /\ g.prev[At(f, b, i + 1)] = At(f, b, i)
    BY <1>11 DEF Ring
  <2>1. \A j \in 1..(N - k + 1) : At(f, b, j) = At(f, S[f], k + j)
    <3> TAKE j \in 1..(N - k + 1)
    <3>1. (j \in 1..(N - k) <=> k + j \in 1..N)
      BY <1>2
    <3> QED BY <3>1, <1>11 DEF At
  <2>2. At(f, b, 0) = f
    BY <1>2, <1>11 DEF At
  <2>3. CASE i = 0
    <3>1. At(f, b, i) = f /\ At(f, b, i + 1) = n
      BY <2>1, <2>2, <2>3, <1>2
    <3> HIDE DEF n, a1, e
    <3> QED BY <3>1, <1>5, <1>6, <1>7
  <2>4. CASE i # 0
    <3> DEFINE j == k + i
    <3>1. i \in 1..(N - k + 1) /\ i + 1 \in 1..(N - k + 1) /\ k + i = j /\ k + (i + 1) = j + 1
          /\ j \in 0..N /\ j # 0 /\ j # k
      BY <2>4, <1>2
    <3>2. At(f, b, i) = At(f, S[f], k + i) /\ At(f, b, i + 1) = At(f, S[f], k + (i + 1))
      BY <2>1, <3>1
    <3> HIDE DEF j
    <3>3. At(f, b, i) = At(f, S[f], j) /\ At(f, b, i + 1) = At(f, S[f], j + 1)
      BY <3>1, <3>2, Zenon
    <3> QED BY <3>1, <3>3, <1>12
  <2> QED BY <2>3, <2>4
<1>15. ASSUME NEW m \in D PROVE Ring(g, m, U[m])
  <2>1. CASE m \notin {l, f}
    <3>1. U[m] = S[m]
      BY <2>1, <1>1, <1>9
    <3> QED BY <2>1, <3>1, <1>12 DEF Ring
  <2> QED BY <2>1, <1>9, <1>13, <1>14
<1>16. \A m \in Heads \ D : U[m] = <<>>
  BY <1>9 DEF Rings
<1>17. Rings(g, D, U)
  BY <1>1, <1>7, <1>8, <1>15, <1>16 DEF Rings
<1> QED BY <1>17 DEF g, U, e

-----------------------------------------------------------------------------
(* Every function of struct list_head.                                     *)

(* The ends of a ring.                                                     *)
LEMMA Ends ==
    ASSUME NEW h, NEW D, NEW S, Rings(h, D, S), NEW l \in D
    PROVE  /\ S[l] \in Seq(Nodes) /\ Len(S[l]) \in Nat /\ l \in Heads /\ Once(Heads, S)
           /\ l = At(l, S[l], 0) /\ l = At(l, S[l], Len(S[l]) + 1)
           /\ h.next[l] = At(l, S[l], 1) /\ h.prev[l] = At(l, S[l], Len(S[l]))
           /\ list_empty(h, l) <=> S[l] = <<>>
           /\ S[l] = <<>> <=> Len(S[l]) = 0
<1>1. S[l] \in Seq(Nodes) /\ Len(S[l]) \in Nat /\ l \in Heads /\ Once(Heads, S) /\ Ring(h, l, S[l])
  BY Lengths DEF Rings
<1>2. l = At(l, S[l], 0) /\ l = At(l, S[l], Len(S[l]) + 1)
  BY <1>1 DEF At
<1>3. h.next[l] = At(l, S[l], 1) /\ h.prev[l] = At(l, S[l], Len(S[l]))
  <2>1. 0 \in 0..Len(S[l]) /\ Len(S[l]) \in 0..Len(S[l]) /\ 0 + 1 = 1
    BY <1>1
  <2>2. h.next[At(l, S[l], 0)] = At(l, S[l], 0 + 1)
    BY <1>1, <2>1 DEF Ring
  <2>3. h.prev[At(l, S[l], Len(S[l]) + 1)] = At(l, S[l], Len(S[l]))
    BY <1>1, <2>1 DEF Ring
  <2> QED BY <1>2, <2>1, <2>2, <2>3, Zenon
<1>4. S[l] = <<>> <=> Len(S[l]) = 0
  BY <1>1, EmptyLength
<1>5. At(l, S[l], 1) = l <=> Len(S[l]) = 0
  <2>1. \A i \in 1..Len(S[l]) : S[l][i] \in Nodes
    BY <1>1, Lengths
  <2> QED BY <2>1, <1>1, ListAssumption DEF At
<1> QED BY <1>1, <1>2, <1>3, <1>4, <1>5 DEF list_empty

LEMMA AddList ==
    ASSUME NEW h, NEW D, NEW S, Rings(h, D, S), NEW l \in D, NEW x \in Nodes, Off(Heads, S, x)
    PROVE  /\ Rings(list_add(h, x, l), D, [S EXCEPT ![l] = Inserted(@, 0, x)])
           /\ Rings(list_add_tail(h, x, l), D, [S EXCEPT ![l] = Inserted(@, Len(@), x)])
<1>1. 0 \in 0..Len(S[l]) /\ Len(S[l]) \in 0..Len(S[l]) /\ 0 + 1 = 1
  BY Ends
<1>2. list_add(h, x, l) = AddBetween(h, x, At(l, S[l], 0), At(l, S[l], 0 + 1))
  <2>1. l = At(l, S[l], 0) /\ h.next[l] = At(l, S[l], 1)
    BY Ends
  <2> QED BY <1>1, <2>1, Zenon DEF list_add
<1>3. list_add_tail(h, x, l) = AddBetween(h, x, At(l, S[l], Len(S[l])), At(l, S[l], Len(S[l]) + 1))
  <2>1. l = At(l, S[l], Len(S[l]) + 1) /\ h.prev[l] = At(l, S[l], Len(S[l]))
    BY Ends
  <2> QED BY <2>1, Zenon DEF list_add_tail
<1>4. \A k \in 0..Len(S[l]) : Rings(AddBetween(h, x, At(l, S[l], k), At(l, S[l], k + 1)), D,
                                   [S EXCEPT ![l] = Inserted(@, k, x)])
  BY InsertRing
<1>5. Rings(list_add(h, x, l), D, [S EXCEPT ![l] = Inserted(@, 0, x)])
  BY <1>1, <1>2, <1>4, Zenon
<1>6. Rings(list_add_tail(h, x, l), D, [S EXCEPT ![l] = Inserted(@, Len(S[l]), x)])
  BY <1>1, <1>3, <1>4, Zenon
<1> QED BY <1>5, <1>6

(* An entry has an address of its own.                                     *)
LEMMA EntryIs ==
    ASSUME NEW h, NEW D, NEW S, Rings(h, D, S), NEW l \in D, NEW k \in 1..Len(S[l])
    PROVE  S[l][k] \in Nodes /\ S[l][k] \in Addresses /\ l \in Heads
<1>1. l \in Heads /\ Once(Heads, S)
  BY DEF Rings
<1>2. S[l][k] \in Nodes
  BY <1>1, Lengths
<1> QED BY <1>1, <1>2 DEF Addresses

LEMMA DeleteList ==
    ASSUME NEW h, NEW D, NEW S, Rings(h, D, S), NEW l \in D, NEW k \in 1..Len(S[l])
    PROVE  /\ Rings(list_del(h, S[l][k]), D, [S EXCEPT ![l] = Removed(@, k)])
           /\ Rings(list_del_init(h, S[l][k]), D, [S EXCEPT ![l] = Removed(@, k)])
<1> DEFINE e == S[l][k]
           U == [S EXCEPT ![l] = Removed(@, k)]
           g == Unlink(h, e)
<1>1. Rings(g, D, U) /\ Off(Heads, U, e)
  BY RemoveRing
<1>2. e \in Nodes /\ e \in Addresses
  BY EntryIs
<1>3. g \in Heaps
  BY <1>1 DEF Rings
<1>4. list_del(h, e) = [g EXCEPT !.next[e] = NULL, !.prev[e] = NULL]
      /\ list_del_init(h, e) = INIT_LIST_HEAD(g, e)
  BY DEF list_del, list_del_init
<1> HIDE DEF e, U, g
<1>5. Rings(INIT_LIST_HEAD(g, e), D, U)
  <2>1. INIT_LIST_HEAD(g, e) \in Heaps /\ \A a \in Addresses \ {e} :
           INIT_LIST_HEAD(g, e).next[a] = g.next[a] /\ INIT_LIST_HEAD(g, e).prev[a] = g.prev[a]
    BY <1>2, <1>3, InitIs
  <2> QED BY <1>1, <1>2, <2>1, Loose
<1>6. Rings([g EXCEPT !.next[e] = NULL, !.prev[e] = NULL], D, U)
  <2> DEFINE f == [g EXCEPT !.next[e] = NULL, !.prev[e] = NULL]
  <2>1. f \in Heaps /\ \A a \in Addresses \ {e} : f.next[a] = g.next[a] /\ f.prev[a] = g.prev[a]
    BY <1>2, <1>3 DEF Heaps
  <2> HIDE DEF f
  <2>2. Rings(f, D, U)
    BY <1>1, <1>2, <2>1, Loose
  <2> QED BY <2>2 DEF f
<1> QED BY <1>4, <1>5, <1>6 DEF e, U

LEMMA MoveList ==
    ASSUME NEW h, NEW D, NEW S, Rings(h, D, S), NEW l \in D, NEW k \in 1..Len(S[l]), NEW m \in D
    PROVE  LET T == [S EXCEPT ![l] = Removed(@, k)]
           IN  /\ Rings(list_move(h, S[l][k], m), D, [T EXCEPT ![m] = Inserted(@, 0, S[l][k])])
               /\ Rings(list_move_tail(h, S[l][k], m), D, [T EXCEPT ![m] = Inserted(@, Len(@), S[l][k])])
<1> DEFINE e == S[l][k]
           T == [S EXCEPT ![l] = Removed(@, k)]
           g == Unlink(h, e)
<1>1. Rings(g, D, T) /\ Off(Heads, T, e)
  BY RemoveRing
<1>2. e \in Nodes
  BY EntryIs
<1>3. list_move(h, e, m) = list_add(g, e, m) /\ list_move_tail(h, e, m) = list_add_tail(g, e, m)
  BY DEF list_move, list_move_tail
<1> HIDE DEF e, T, g
<1>4. Rings(list_move(h, e, m), D, [T EXCEPT ![m] = Inserted(@, 0, e)])
      /\ Rings(list_move_tail(h, e, m), D, [T EXCEPT ![m] = Inserted(@, Len(@), e)])
  <2>1. Rings(list_add(g, e, m), D, [T EXCEPT ![m] = Inserted(@, 0, e)])
    BY <1>1, <1>2, AddList
  <2>2. Rings(list_add_tail(g, e, m), D, [T EXCEPT ![m] = Inserted(@, Len(@), e)])
    BY <1>1, <1>2, AddList
  <2> QED BY <2>1, <2>2, <1>3
<1> QED BY <1>4 DEF e, T

(* What list_replace writes.                                               *)
LEMMA ReplaceIs ==
    ASSUME NEW h \in Heaps, NEW o \in Addresses, NEW x \in Addresses, NEW p \in Addresses, NEW n \in Addresses,
           h.next[o] = n, h.prev[o] = p, o # n, o # x
    PROVE  /\ list_replace(h, o, x) \in Heaps
           /\ \A a \in Addresses :
                 /\ list_replace(h, o, x).next[a] = IF a = p THEN x ELSE IF a = x THEN n ELSE h.next[a]
                 /\ list_replace(h, o, x).prev[a] = IF a = x THEN p ELSE IF a = n THEN x ELSE h.prev[a]
  BY DEF list_replace, Heaps

LEMMA ReplaceList ==
    ASSUME NEW h, NEW D, NEW S, Rings(h, D, S), NEW l \in D, NEW k \in 1..Len(S[l]),
           NEW x \in Nodes, Off(Heads, S, x)
    PROVE  LET U == [[S EXCEPT ![l] = Removed(@, k)] EXCEPT ![l] = Inserted(@, k - 1, x)]
           IN  /\ Rings(list_replace(h, S[l][k], x), D, U)
               /\ Rings(list_replace_init(h, S[l][k], x), D, U)
<1> DEFINE o == S[l][k]
           T == [S EXCEPT ![l] = Removed(@, k)]
           U == [T EXCEPT ![l] = Inserted(@, k - 1, x)]
           p == At(l, S[l], k - 1)
           n == At(l, S[l], k + 1)
           f == Unlink(h, o)
           g == AddBetween(f, x, p, n)
           r == list_replace(h, o, x)
<1>1. /\ h \in Heaps /\ D \subseteq Heads /\ Once(Heads, S) /\ S \in [Heads -> Seq(Nodes)]
      /\ S[l] \in Seq(Nodes) /\ Len(S[l]) \in Nat /\ l \in Heads
  BY Lengths DEF Rings, Once
<1>2. Rings(f, D, T) /\ Off(Heads, T, o) /\ h.prev[o] = p /\ h.next[o] = n
  BY RemoveRing
<1>3. o \in Nodes /\ o \in Addresses /\ x \in Addresses /\ p \in Addresses /\ n \in Addresses
  <2>1. p \in Addresses /\ n \in Addresses
    BY <1>1, There
  <2> QED BY <2>1, EntryIs DEF Addresses
<1>4. o # x /\ p # x /\ n # x
  <2>1. p # x /\ n # x
    BY <1>1, There
  <2>2. o # x
    BY <1>1 DEF Off
  <2> QED BY <2>1, <2>2
<1>5. T[l] = Removed(S[l], k) /\ \A m \in Heads \ {l} : T[m] = S[m]
  BY <1>1
<1>6. T[l] \in Seq(Nodes) /\ Len(T[l]) = Len(S[l]) - 1
      /\ \A i \in 1..(Len(S[l]) - 1) : T[l][i] = IF i < k THEN S[l][i] ELSE S[l][i + 1]
  <2>1. T[l] \in Seq(Nodes) /\ Len(T[l]) = Len(S[l]) - 1
    BY <1>1, <1>5, RemovedHas
  <2> QED BY <2>1, <1>5 DEF Removed
<1> HIDE DEF T, f, o
<1>7. o # n
  <2>1. \A i \in 1..Len(T[l]) : T[l][i] # o
    BY <1>1, <1>2 DEF Off
  <2>2. o # l
    BY <1>1, <1>3, ListAssumption
  <2>3. CASE k = Len(S[l])
    BY <2>2, <2>3, <1>1 DEF At
  <2>4. CASE k # Len(S[l])
    <3>1. k \in 1..(Len(S[l]) - 1) /\ k + 1 \in 1..Len(S[l])
      BY <2>4, <1>1
    <3>2. T[l][k] = S[l][k + 1]
      BY <3>1, <1>6
    <3> QED BY <3>1, <3>2, <2>1, <1>6 DEF At
  <2> QED BY <2>3, <2>4
<1>8. Off(Heads, T, x)
  <2> SUFFICES ASSUME NEW m \in Heads, NEW i \in 1..Len(T[m]) PROVE T[m][i] # x
    BY DEF Off
  <2>1. CASE m = l
    <3>1. \E j \in 1..Len(S[l]) : T[l][i] = S[l][j]
      BY <2>1, <1>1, <1>6
    <3> QED BY <3>1, <2>1, <1>1 DEF Off
  <2>2. CASE m # l
    BY <2>2, <1>5 DEF Off
  <2> QED BY <2>1, <2>2
<1>9. At(l, T[l], k - 1) = p /\ At(l, T[l], (k - 1) + 1) = n /\ k - 1 \in 0..Len(T[l])
  BY <1>1, <1>6 DEF At
<1> DEFINE j == k - 1
<1>10. Rings(AddBetween(f, x, At(l, T[l], j), At(l, T[l], j + 1)), D, [T EXCEPT ![l] = Inserted(@, j, x)])
  <2>1. j \in 0..Len(T[l])
    BY <1>9
  <2> HIDE DEF j
  <2> QED BY <2>1, <1>2, <1>8, InsertRing
<1>11. Rings(g, D, U)
  BY <1>9, <1>10, Zenon DEF j
<1>12. r \in Heaps /\ \A a \in Addresses : r.next[a] = g.next[a] /\ r.prev[a] = g.prev[a]
  <2> HIDE DEF p, n, r, g
  <2>1. r \in Heaps /\ \A a \in Addresses :
                 /\ r.next[a] = IF a = p THEN x ELSE IF a = x THEN n ELSE h.next[a]
                 /\ r.prev[a] = IF a = x THEN p ELSE IF a = n THEN x ELSE h.prev[a]
    BY <1>1, <1>2, <1>3, <1>4, <1>7, ReplaceIs DEF r
  <2>2. f \in Heaps /\ \A a \in Addresses :
                 /\ f.next[a] = IF a = p THEN n ELSE h.next[a]
                 /\ f.prev[a] = IF a = n THEN p ELSE h.prev[a]
    BY <1>1, <1>2, <1>3, <1>7, UnlinkIs DEF f
  <2>3. \A a \in Addresses :
                 /\ g.next[a] = IF a = p THEN x ELSE IF a = x THEN n ELSE f.next[a]
                 /\ g.prev[a] = IF a = x THEN p ELSE IF a = n THEN x ELSE f.prev[a]
    BY <2>2, <1>3, <1>4, AddBetweenIs DEF g
  <2> QED BY <2>1, <2>2, <2>3
<1> HIDE DEF r, g, U, p, n, j
<1>13. Rings(r, D, U)
  <2>1. \A m \in D : \A i \in 0..Len(U[m]) : At(m, U[m], i) \in Addresses
    <3>1. Once(Heads, U)
      BY <1>11 DEF Rings
    <3> QED BY <3>1, <1>1, There
  <2>2. \A m \in D : \A i \in 0..Len(U[m]) :
          LET a == At(m, U[m], i) IN r.next[a] = g.next[a] /\ r.prev[a] = g.prev[a]
    BY <2>1, <1>12
  <2> QED BY <2>2, <1>11, <1>12, Elsewhere
<1>14. Off(Heads, U, o)
  <2> SUFFICES ASSUME NEW m \in Heads, NEW i \in 1..Len(U[m]) PROVE U[m][i] # o
    BY DEF Off
  <2>1. T \in [Heads -> Seq(Nodes)]
    BY <1>2 DEF Rings, Once
  <2>2. CASE m = l
    <3>1. U[l] = Inserted(T[l], k - 1, x)
      BY <2>1, <1>1 DEF U
    <3>2. Len(U[l]) = Len(S[l])
      <4>1. Len(U[l]) = Len(T[l]) + 1
        BY <3>1, <1>6, <1>9, InsertedHas
      <4> QED BY <4>1, <1>1, <1>6
    <3>3. U[l][i] = IF i <= k - 1 THEN T[l][i] ELSE IF i = (k - 1) + 1 THEN x ELSE T[l][i - 1]
      BY <2>2, <3>1, <3>2, <1>1, <1>6 DEF Inserted
    <3>4. U[l][i] = x \/ \E a \in 1..Len(T[l]) : U[l][i] = T[l][a]
      <4>1. i <= k - 1 => i \in 1..Len(T[l])
        BY <2>2, <3>2, <1>1, <1>6
      <4>2. ~(i <= k - 1) /\ i # (k - 1) + 1 => i - 1 \in 1..Len(T[l])
        BY <2>2, <3>2, <1>1, <1>6
      <4> QED BY <3>3, <4>1, <4>2
    <3> QED BY <2>2, <3>4, <1>1, <1>2, <1>4 DEF Off
  <2>3. CASE m # l
    <3>1. U[m] = T[m]
      BY <2>1, <2>3 DEF U
    <3> QED BY <3>1, <1>2 DEF Off
  <2> QED BY <2>2, <2>3
<1>15. Rings(INIT_LIST_HEAD(r, o), D, U)
  <2>1. INIT_LIST_HEAD(r, o) \in Heaps /\ \A a \in Addresses \ {o} :
           INIT_LIST_HEAD(r, o).next[a] = r.next[a] /\ INIT_LIST_HEAD(r, o).prev[a] = r.prev[a]
    BY <1>3, <1>12, InitIs
  <2> QED BY <1>3, <1>13, <1>14, <2>1, Loose
<1> QED BY <1>13, <1>15 DEF r, U, T, o, list_replace_init

(* The four list_splice functions.                                         *)
LEMMA SpliceRings ==
    ASSUME NEW h, NEW D, NEW S, Rings(h, D, S), NEW l \in D, NEW at \in D, l # at
    PROVE  LET Y == [S EXCEPT ![at] = Joined(@, 0, S[l]), ![l] = <<>>]
               Z == [S EXCEPT ![at] = Joined(@, Len(@), S[l]), ![l] = <<>>]
           IN  \/ /\ S[l] # <<>>
                  /\ Rings(list_splice(h, l, at), D \ {l}, Y) /\ Rings(list_splice_tail(h, l, at), D \ {l}, Z)
                  /\ Rings(list_splice_init(h, l, at), D, Y) /\ Rings(list_splice_tail_init(h, l, at), D, Z)
               \/ /\ S[l] = <<>>
                  /\ Rings(list_splice(h, l, at), D \ {l}, S) /\ Rings(list_splice_tail(h, l, at), D \ {l}, S)
                  /\ Rings(list_splice_init(h, l, at), D, S) /\ Rings(list_splice_tail_init(h, l, at), D, S)
<1> DEFINE Y == [S EXCEPT ![at] = Joined(@, 0, S[l]), ![l] = <<>>]
           Z == [S EXCEPT ![at] = Joined(@, Len(@), S[l]), ![l] = <<>>]
           a == list_splice(h, l, at)
           b == list_splice_tail(h, l, at)
<1>1. /\ l \in Heads /\ at \in Heads /\ (list_empty(h, l) <=> S[l] = <<>>) /\ S \in [Heads -> Seq(Nodes)]
  <2>1. l \in Heads /\ at \in Heads /\ (list_empty(h, l) <=> S[l] = <<>>)
    BY Ends
  <2> QED BY <2>1 DEF Rings, Once
<1>2. (D \ {l}) \cup {l} = D
  OBVIOUS
<1>3. list_splice_init(h, l, at) = INIT_LIST_HEAD(a, l) /\ list_splice_tail_init(h, l, at) = INIT_LIST_HEAD(b, l)
  BY DEF list_splice_init, list_splice_tail_init
<1>4. CASE S[l] # <<>>
  <2>1. 0 \in 0..Len(S[at]) /\ Len(S[at]) \in 0..Len(S[at]) /\ 0 + 1 = 1
    BY Ends
  <2>2. \A k \in 0..Len(S[at]) :
           Rings(SpliceBetween(h, l, At(at, S[at], k), At(at, S[at], k + 1)), D \ {l},
                 [S EXCEPT ![at] = Joined(@, k, S[l]), ![l] = <<>>])
    BY <1>4, JoinRing
  <2>3. a = SpliceBetween(h, l, At(at, S[at], 0), At(at, S[at], 0 + 1))
    <3>1. at = At(at, S[at], 0) /\ h.next[at] = At(at, S[at], 1)
      BY Ends
    <3> QED BY <2>1, <3>1, Zenon DEF list_splice
  <2>4. b = SpliceBetween(h, l, At(at, S[at], Len(S[at])), At(at, S[at], Len(S[at]) + 1))
    <3>1. at = At(at, S[at], Len(S[at]) + 1) /\ h.prev[at] = At(at, S[at], Len(S[at]))
      BY Ends
    <3> QED BY <3>1, Zenon DEF list_splice_tail
  <2>5. Rings(a, D \ {l}, Y)
    BY <2>1, <2>2, <2>3, Zenon
  <2>6. Rings(b, D \ {l}, Z)
    BY <2>1, <2>2, <2>4, Zenon
  <2>7. Y[l] = <<>> /\ Z[l] = <<>>
    BY <1>1
  <2> HIDE DEF Y, Z, a, b
  <2>8. Rings(INIT_LIST_HEAD(a, l), D, Y) /\ Rings(INIT_LIST_HEAD(b, l), D, Z)
    BY <1>1, <1>2, <2>5, <2>6, <2>7, FreshRing
  <2> QED BY <1>3, <1>4, <2>5, <2>6, <2>8 DEF Y, Z, a, b
<1>5. CASE S[l] = <<>>
  <2>1. a = h /\ b = h
    BY <1>1, <1>5 DEF list_splice, list_splice_tail, SpliceBetween
  <2>2. [S EXCEPT ![l] = <<>>] = S
    BY <1>1, <1>5
  <2>3. Rings(h, D \ {l}, S)
    BY <1>1, <2>2, GoneRing
  <2> HIDE DEF a, b
  <2>4. Rings(INIT_LIST_HEAD(h, l), D, S)
    BY <1>1, <1>2, <1>5, <2>3, FreshRing
  <2> QED BY <1>3, <1>5, <2>1, <2>3, <2>4 DEF a, b
<1> QED BY <1>4, <1>5

(* list_replace of a head.                                                 *)
LEMMA ReplaceHeadRings ==
    ASSUME NEW h, NEW D, NEW S, Rings(h, D, S), NEW l \in D, NEW x \in Heads, l # x, S[x] = <<>>
    PROVE  LET U == [S EXCEPT ![x] = S[l], ![l] = <<>>]
           IN  /\ Rings(list_replace(h, l, x), (D \ {l}) \cup {x}, U)
               /\ Rings(list_replace_init(h, l, x), D \cup {x}, U)
<1> DEFINE U == [S EXCEPT ![x] = S[l], ![l] = <<>>]
           r == list_replace(h, l, x)
           f == INIT_LIST_HEAD(h, x)
           n == At(l, S[l], 1)
           p == At(l, S[l], Len(S[l]))
<1>1. /\ h \in Heaps /\ D \subseteq Heads /\ S \in [Heads -> Seq(Nodes)] /\ l \in Heads /\ Once(Heads, S)
      /\ S[l] \in Seq(Nodes) /\ Len(S[l]) \in Nat /\ h.next[l] = n /\ h.prev[l] = p
      /\ (list_empty(h, l) <=> S[l] = <<>>) /\ (S[l] = <<>> <=> Len(S[l]) = 0)
  <2>1. l \in Heads /\ Once(Heads, S)
        /\ S[l] \in Seq(Nodes) /\ Len(S[l]) \in Nat /\ h.next[l] = n /\ h.prev[l] = p
        /\ (list_empty(h, l) <=> S[l] = <<>>) /\ (S[l] = <<>> <=> Len(S[l]) = 0)
    BY Ends
  <2> QED BY <2>1 DEF Rings, Once
<1>2. l \in Addresses /\ x \in Addresses /\ n \in Addresses /\ p \in Addresses
  <2>1. n \in Addresses /\ p \in Addresses
    BY <1>1, There
  <2> QED BY <2>1, <1>1 DEF Addresses
<1>3. \A i \in 1..Len(S[l]) : S[l][i] \in Nodes
  BY <1>1, Lengths
<1>4. U[l] = <<>> /\ U[x] = S[l] /\ U \in [Heads -> Seq(Nodes)]
  BY <1>1, Empty
<1>5. Rings(f, D \cup {x}, S)
  BY FreshRing
<1>6. f \in Heaps /\ \A a \in Addresses :
         /\ f.next[a] = IF a = x THEN x ELSE h.next[a]
         /\ f.prev[a] = IF a = x THEN x ELSE h.prev[a]
  BY <1>1, <1>2, InitIs
<1> HIDE DEF f, r
<1>7. Rings(r, (D \ {l}) \cup {x}, U)
  <2>1. CASE S[l] = <<>>
    <3>1. n = l /\ p = l
      BY <1>1, <2>1 DEF At
    <3>2. r \in Heaps /\ \A a \in Addresses \ {l} : r.next[a] = f.next[a] /\ r.prev[a] = f.prev[a]
      <4> HIDE DEF n, p
      <4>1. h.next[l] = l /\ h.prev[l] = l
        BY <1>1, <3>1
      <4> QED BY <4>1, <1>1, <1>2, <1>6 DEF r, list_replace, Heaps
    <3>3. U = S
      BY <2>1, <1>1
    <3>4. Rings(f, (D \ {l}) \cup {x}, S)
      <4>1. [S EXCEPT ![l] = <<>>] = S
        BY <1>1, <2>1
      <4>2. Rings(f, (D \cup {x}) \ {l}, S)
        BY <4>1, <1>1, <1>5, GoneRing
      <4>3. (D \cup {x}) \ {l} = (D \ {l}) \cup {x}
        OBVIOUS
      <4> QED BY <4>2, <4>3
    <3>5. ASSUME NEW m \in (D \ {l}) \cup {x}, NEW i \in 0..Len(S[m])
          PROVE  At(m, S[m], i) \in Addresses \ {l}
      <4>1. m \in Heads /\ m # l
        BY <1>1
      <4>2. At(m, S[m], i) \in Addresses
        BY <4>1, <1>1, There
      <4>3. \A j \in 1..Len(S[m]) : S[m][j] \in Nodes
        BY <4>1, <1>1, Lengths
      <4>4. At(m, S[m], i) # l
        BY <4>1, <4>3, <1>1, ListAssumption DEF At
      <4> QED BY <4>2, <4>4
    <3>6. \A m \in (D \ {l}) \cup {x} : \A i \in 0..Len(S[m]) :
             LET a == At(m, S[m], i) IN r.next[a] = f.next[a] /\ r.prev[a] = f.prev[a]
      BY <3>2, <3>5
    <3> QED BY <3>2, <3>3, <3>4, <3>6, Elsewhere
  <2>2. CASE S[l] # <<>>
    <3>1. 0 \in 0..Len(S[x]) /\ 0 + 1 = 1
      BY Empty
    <3>2. At(x, S[x], 0) = x /\ At(x, S[x], 1) = x
      BY Empty DEF At
    <3>3. Rings(SpliceBetween(f, l, At(x, S[x], 0), At(x, S[x], 0 + 1)), (D \cup {x}) \ {l},
                [S EXCEPT ![x] = Joined(@, 0, S[l]), ![l] = <<>>])
      BY <1>5, <2>2, <3>1, JoinRing
    <3> DEFINE g == SpliceBetween(f, l, x, x)
    <3>4. Joined(S[x], 0, S[l]) = S[l]
      <4>1. S[l] \o <<>> = Joined(<<>>, 0, S[l])
        BY <1>1, Empty, JoinedIs
      <4>2. S[l] \o <<>> = S[l]
        BY <1>1, ConcatEmptySeq
      <4> QED BY <4>1, <4>2
    <3>5. [S EXCEPT ![x] = Joined(@, 0, S[l]), ![l] = <<>>] = U
      BY <3>4
    <3>6. (D \cup {x}) \ {l} = (D \ {l}) \cup {x}
      OBVIOUS
    <3>7. Rings(g, (D \ {l}) \cup {x}, U)
      BY <3>1, <3>2, <3>3, <3>5, <3>6, Zenon
    <3>8. n \in Nodes /\ p \in Nodes
      <4>1. 1 \in 1..Len(S[l]) /\ Len(S[l]) \in 1..Len(S[l])
        BY <1>1, <2>2
      <4> QED BY <4>1, <1>3 DEF At
    <3>9. n # l /\ p # l /\ n # x /\ p # x
      BY <3>8, <1>1, ListAssumption
    <3> HIDE DEF n, p, U, g
    <3>10. g \in Heaps /\ \A a \in Addresses :
              /\ g.next[a] = IF a = x THEN n ELSE IF a = p THEN x ELSE f.next[a]
              /\ g.prev[a] = IF a = n THEN x ELSE IF a = x THEN p ELSE f.prev[a]
      <4>1. f.next[l] = n /\ f.prev[l] = p
        BY <1>1, <1>2, <1>6
      <4> QED BY <4>1, <1>2, <1>6, <3>9, SpliceIs DEF g
    <3>11. r \in Heaps /\ \A a \in Addresses :
                 /\ r.next[a] = IF a = p THEN x ELSE IF a = x THEN n ELSE h.next[a]
                 /\ r.prev[a] = IF a = x THEN p ELSE IF a = n THEN x ELSE h.prev[a]
      BY <1>1, <1>2, <3>9, ReplaceIs DEF r
    <3>12. \A a \in Addresses : r.next[a] = g.next[a] /\ r.prev[a] = g.prev[a]
      BY <1>6, <3>9, <3>10, <3>11
    <3>13. \A m \in (D \ {l}) \cup {x} : \A i \in 0..Len(U[m]) : At(m, U[m], i) \in Addresses
      <4>1. Once(Heads, U)
        BY <3>7 DEF Rings
      <4> QED BY <4>1, <1>1, There
    <3>14. \A m \in (D \ {l}) \cup {x} : \A i \in 0..Len(U[m]) :
             LET a == At(m, U[m], i) IN r.next[a] = g.next[a] /\ r.prev[a] = g.prev[a]
      BY <3>12, <3>13
    <3> QED BY <3>7, <3>11, <3>14, Elsewhere
  <2> QED BY <2>1, <2>2
<1> HIDE DEF U
<1>8. Rings(INIT_LIST_HEAD(r, l), D \cup {x}, U)
  <2>1. ((D \ {l}) \cup {x}) \cup {l} = D \cup {x}
    OBVIOUS
  <2> QED BY <1>1, <1>4, <1>7, <2>1, FreshRing
<1> QED BY <1>7, <1>8 DEF r, U, list_replace_init

LEMMA RotateRings ==
    ASSUME NEW h, NEW D, NEW S, Rings(h, D, S), NEW l \in D
    PROVE  \/ S[l] = <<>> /\ list_rotate_left(h, l) = h
           \/ S[l] # <<>> /\ Rings(list_rotate_left(h, l), D, [S EXCEPT ![l] = Append(Tail(@), Head(@))])
<1>1. /\ S[l] \in Seq(Nodes) /\ Len(S[l]) \in Nat /\ l \in Heads /\ h.next[l] = At(l, S[l], 1)
      /\ (list_empty(h, l) <=> S[l] = <<>>) /\ (S[l] = <<>> <=> Len(S[l]) = 0) /\ S \in [Heads -> Seq(Nodes)]
  <2>1. /\ S[l] \in Seq(Nodes) /\ Len(S[l]) \in Nat /\ l \in Heads /\ h.next[l] = At(l, S[l], 1)
        /\ (list_empty(h, l) <=> S[l] = <<>>) /\ (S[l] = <<>> <=> Len(S[l]) = 0)
    BY Ends
  <2> QED BY <2>1 DEF Rings, Once
<1>2. CASE S[l] = <<>>
  BY <1>1, <1>2 DEF list_rotate_left
<1>3. CASE S[l] # <<>>
  <2> DEFINE e == S[l][1]
             T == [S EXCEPT ![l] = Removed(@, 1)]
             t == Removed(S[l], 1)
  <2>1. 1 \in 1..Len(S[l])
    BY <1>1, <1>3
  <2>2. list_rotate_left(h, l) = list_move_tail(h, e, l)
    BY <1>1, <1>3, <2>1 DEF list_rotate_left, At
  <2>3. Rings(list_move_tail(h, e, l), D, [T EXCEPT ![l] = Inserted(@, Len(@), e)])
    BY <2>1, MoveList
  <2>4. e \in Nodes
    BY <2>1, EntryIs
  <2>5. Head(S[l]) = e /\ Tail(S[l]) \in Seq(Nodes) /\ Len(Tail(S[l])) = Len(S[l]) - 1
        /\ \A i \in 1..(Len(S[l]) - 1) : Tail(S[l])[i] = S[l][i + 1]
    BY <1>1, <1>3, <2>1, HeadTailProperties
  <2>6. t \in Seq(Nodes) /\ Len(t) = Len(S[l]) - 1
    BY <1>1, <2>1, RemovedHas
  <2>7. \A i \in 1..(Len(S[l]) - 1) : t[i] = S[l][i + 1]
    BY <1>1 DEF Removed
  <2> HIDE DEF t, e
  <2>8. t = Tail(S[l])
    BY <2>5, <2>6, <2>7, Same
  <2>9. Append(t, e) = Inserted(t, Len(t), e)
    BY <2>4, <2>6, AtEnds
  <2>10. [T EXCEPT ![l] = Inserted(@, Len(@), e)] = [S EXCEPT ![l] = Inserted(t, Len(t), e)]
    BY <1>1 DEF t
  <2>11. [S EXCEPT ![l] = Append(Tail(@), Head(@))] = [S EXCEPT ![l] = Inserted(t, Len(t), e)]
    BY <2>5, <2>8, <2>9
  <2> QED BY <1>3, <2>2, <2>3, <2>10, <2>11
<1> QED BY <1>2, <1>3

LEMMA CutRings ==
    ASSUME NEW h, NEW D, NEW S, Rings(h, D, S), NEW l \in D, NEW f \in D, l # f, S[l] = <<>>,
           NEW e, e = f \/ Has(S[f], e)
    PROVE  \/ Rings(list_cut_position(h, l, f, e), D, S)
           \/ \E k \in 0..Len(S[f]) :
                 Rings(list_cut_position(h, l, f, e), D,
                       [S EXCEPT ![l] = SubSeq(S[f], 1, k), ![f] = SubSeq(@, k + 1, Len(@))])
<1>1. /\ S[f] \in Seq(Nodes) /\ Len(S[f]) \in Nat /\ l \in Heads /\ f \in Heads
      /\ h.next[f] = At(f, S[f], 1) /\ h.prev[f] = At(f, S[f], Len(S[f])) /\ Once(Heads, S)
      /\ (list_empty(h, f) <=> S[f] = <<>>) /\ (S[f] = <<>> <=> Len(S[f]) = 0)
  BY Ends
<1>2. CASE S[f] = <<>>
  <2>1. list_cut_position(h, l, f, e) = h
    BY <1>1, <1>2 DEF list_cut_position
  <2> QED BY <2>1
<1>3. CASE S[f] # <<>>
  <2>1. 1 \in 1..Len(S[f]) /\ Len(S[f]) \in 1..Len(S[f])
    BY <1>1, <1>3
  <2>2. ~(list_is_singular(h, f) /\ e \notin {f, h.next[f]})
    <3> SUFFICES ASSUME h.next[f] = h.prev[f], e # f PROVE e = h.next[f]
      BY DEF list_is_singular
    <3>1. S[f][1] = S[f][Len(S[f])] /\ h.next[f] = S[f][1]
      BY <1>1, <2>1 DEF At
    <3>2. 1 = Len(S[f])
      BY <1>1, <2>1, <3>1 DEF Once
    <3>3. PICK i \in 1..Len(S[f]) : S[f][i] = e
      BY DEF Has
    <3>4. i = 1
      <4>1. i \in 1..1
        BY <3>2
      <4> QED BY <4>1
    <3> QED BY <3>1, <3>3, <3>4
  <2>3. list_cut_position(h, l, f, e) = IF e = f THEN INIT_LIST_HEAD(h, l) ELSE CutAfter(h, l, f, e)
    BY <1>1, <1>3, <2>2 DEF list_cut_position
  <2>4. CASE e = f
    <3>1. D \cup {l} = D
      OBVIOUS
    <3>2. Rings(INIT_LIST_HEAD(h, l), D, S)
      BY <1>1, <3>1, FreshRing
    <3> QED BY <2>3, <2>4, <3>2
  <2>5. CASE e # f
    <3>1. PICK k \in 1..Len(S[f]) : S[f][k] = e
      BY <2>5 DEF Has
    <3>2. Rings(CutAfter(h, l, f, S[f][k]), D,
                [S EXCEPT ![l] = SubSeq(S[f], 1, k), ![f] = SubSeq(@, k + 1, Len(@))])
      BY CutRing
    <3>3. k \in 0..Len(S[f])
      BY <1>1
    <3> QED BY <2>3, <2>5, <3>1, <3>2, <3>3
  <2> QED BY <2>4, <2>5
<1> QED BY <1>2, <1>3

-----------------------------------------------------------------------------
(* The lists a walk finds are those of the rings.                          *)

Backward(s) == [i \in 1..Len(s) |-> s[Len(s) + 1 - i]]

LEMMA RingWalk ==
    ASSUME NEW h, NEW D, NEW S, Rings(h, D, S), NEW l \in D
    PROVE  Walk(h.next, h.next[l]) = S[l] /\ Walk(h.prev, h.prev[l]) = Backward(S[l])
<1> DEFINE s == S[l]
           N == Len(s)
           t == Backward(s)
<1>1. /\ s \in Seq(Nodes) /\ N \in Nat /\ l \in Heads /\ h.next[l] = At(l, s, 1) /\ h.prev[l] = At(l, s, N)
      /\ Once(Heads, S)
  BY Ends
<1>2. Ring(h, l, s) /\ l \notin Nodes /\ \A i \in 1..N : s[i] \in Nodes
  <2>1. \A i \in 1..N : s[i] \in Nodes
    BY <1>1, Lengths
  <2> QED BY <1>1, <2>1, ListAssumption DEF Rings
<1>3. Single(s)
  BY <1>1 DEF Once, Single
<1>4. \A i \in 1..N : t[i] = s[N + 1 - i] /\ N + 1 - i \in 1..N
  BY <1>1 DEF Backward
<1>5. t \in Seq(Nodes) /\ Len(t) = N
  <2>1. t \in [1..N -> Nodes]
    BY <1>2, <1>4 DEF Backward
  <2> HIDE DEF t
  <2> QED BY <1>1, <2>1, AsSeq
<1>6. Single(t)
  <2> SUFFICES ASSUME NEW i \in 1..N, NEW j \in 1..N, t[i] = t[j] PROVE i = j
    BY <1>5 DEF Single
  <2>1. N + 1 - i = N + 1 - j
    BY <1>3, <1>4 DEF Single
  <2> QED BY <2>1, <1>1
<1> HIDE DEF s, t, N
<1>7. Walk(h.next, h.next[l]) = s
  <2>1. h.next[l] = IF Len(s) = 0 THEN l ELSE s[1]
    BY <1>1 DEF At, N
  <2>2. ASSUME NEW i \in 1..Len(s) PROVE h.next[s[i]] = IF i = Len(s) THEN l ELSE s[i + 1]
    <3>1. i \in 0..Len(s) /\ At(l, s, i) = s[i]
      BY <1>1 DEF At, N
    <3>2. At(l, s, i + 1) = IF i = Len(s) THEN l ELSE s[i + 1]
      BY <1>1 DEF At, N
    <3>3. h.next[At(l, s, i)] = At(l, s, i + 1)
      BY <3>1, <1>2 DEF Ring
    <3> QED BY <3>1, <3>2, <3>3
  <2> QED BY <2>1, <2>2, <1>1, <1>2, <1>3, WalkIs
<1>8. Walk(h.prev, h.prev[l]) = t
  <2>1. h.prev[l] = IF Len(t) = 0 THEN l ELSE t[1]
    <3>1. CASE N = 0
      BY <3>1, <1>1, <1>5 DEF At, N
    <3>2. CASE N # 0
      <4>1. 1 \in 1..N /\ N + 1 - 1 = N /\ N \in 1..N
        BY <3>2, <1>1
      <4>2. t[1] = s[N]
        BY <4>1, <1>4
      <4> QED BY <3>2, <4>1, <4>2, <1>1, <1>5 DEF At, N
    <3> QED BY <3>1, <3>2
  <2>2. ASSUME NEW i \in 1..Len(t) PROVE h.prev[t[i]] = IF i = Len(t) THEN l ELSE t[i + 1]
    <3> DEFINE j == N - i
    <3>1. i \in 1..N /\ j \in 0..N /\ j + 1 = N + 1 - i /\ j + 1 \in 1..N
      BY <1>1, <1>5
    <3>2. i # N => i + 1 \in 1..N /\ N + 1 - (i + 1) = j /\ j \in 1..N
      BY <3>1, <1>1
    <3>3. i = N => j = 0
      BY <3>1, <1>1
    <3> HIDE DEF j
    <3>4. h.prev[At(l, s, j + 1)] = At(l, s, j)
      BY <3>1, <1>2 DEF Ring, N
    <3>5. At(l, s, j + 1) = t[i]
      BY <3>1, <1>4 DEF At, N
    <3>6. At(l, s, j) = IF i = N THEN l ELSE t[i + 1]
      BY <3>2, <3>3, <1>4 DEF At, N
    <3> QED BY <3>4, <3>5, <3>6, <1>5
  <2> QED BY <2>1, <2>2, <1>2, <1>5, <1>6, WalkIs
<1> QED BY <1>7, <1>8 DEF s, t

(* The lists in heap h of the heads in D.                                  *)
ListsIn(h, D) == [l \in Heads |-> IF l \in D THEN Walk(h.next, h.next[l]) ELSE <<>>]

RingInv == Rings(heap, inited, ListsIn(heap, inited))

(* Rings have the lists a walk finds, and no other.                        *)
LEMMA TheLists ==
    ASSUME NEW h, NEW D, NEW S, Rings(h, D, S)
    PROVE  ListsIn(h, D) = S /\ Rings(h, D, ListsIn(h, D))
<1>1. S \in [Heads -> Seq(Nodes)]
  BY DEF Rings, Once
<1>2. ASSUME NEW l \in Heads PROVE ListsIn(h, D)[l] = S[l]
  <2>1. CASE l \in D
    <3>1. Walk(h.next, h.next[l]) = S[l]
      BY <2>1, RingWalk
    <3> QED BY <2>1, <3>1 DEF ListsIn
  <2>2. CASE l \notin D
    BY <2>2 DEF ListsIn, Rings
  <2> QED BY <2>1, <2>2
<1>3. ListsIn(h, D) = [l \in Heads |-> ListsIn(h, D)[l]]
  BY DEF ListsIn
<1>4. ListsIn(h, D) = S
  BY <1>1, <1>2, <1>3
<1> QED BY <1>4

LEMMA ListIs ==
    /\ \A l \in Heads : List(l) = ListsIn(heap, inited)[l]
    /\ \A n : Listed(n) <=> ~Off(Heads, ListsIn(heap, inited), n)
    /\ [l \in Heads |-> List(l)] = ListsIn(heap, inited)
<1>1. \A l \in Heads : List(l) = ListsIn(heap, inited)[l]
  BY DEF List, ListsIn
<1>2. \A n : Listed(n) <=> ~Off(Heads, ListsIn(heap, inited), n)
  BY <1>1 DEF Listed, Has, Off
<1>3. [l \in Heads |-> List(l)] = ListsIn(heap, inited)
  BY DEF List, ListsIn
<1> QED BY <1>1, <1>2, <1>3

LEMMA InitRings == Init => RingInv
<1> SUFFICES ASSUME Init PROVE RingInv
  OBVIOUS
<1> DEFINE S == [l \in Heads |-> <<>>]
<1>1. Once(Heads, S)
  <2>1. S \in [Heads -> Seq(Nodes)]
    BY Empty
  <2>2. \A l \in Heads : 1..Len(S[l]) = {}
    BY Empty
  <2> HIDE DEF S
  <2> QED BY <2>1, <2>2 DEF Once
<1>2. heap \in Heaps
  BY DEF Init, Heaps
<1>3. Rings(heap, inited, S)
  BY <1>1, <1>2 DEF Init, Rings
<1> HIDE DEF S
<1> QED BY <1>3, TheLists DEF RingInv

(* Every ring closes and is the same ring backwards.                       *)
LEMMA RingsAreClosed == RingInv => RingsClose
<1> SUFFICES ASSUME RingInv, NEW l \in inited
             PROVE  LET s == List(l)
                        N == Len(s)
                    IN  /\ heap.next[IF N = 0 THEN l ELSE s[N]] = l
                        /\ Walk(heap.prev, heap.prev[l]) = [i \in 1..N |-> s[N + 1 - i]]
  BY DEF RingsClose
<1> DEFINE S == ListsIn(heap, inited)
           s == S[l]
           N == Len(s)
<1>1. Rings(heap, inited, S)
  BY DEF RingInv
<1>2. l \in Heads /\ List(l) = s
  BY <1>1, ListIs DEF Rings
<1> HIDE DEF S
<1>3. s \in Seq(Nodes) /\ N \in Nat /\ l = At(l, s, N + 1) /\ Ring(heap, l, s)
  <2>1. s \in Seq(Nodes) /\ N \in Nat /\ l = At(l, s, N + 1)
    BY <1>1, Ends
  <2> QED BY <1>1, <2>1 DEF Rings
<1>4. heap.next[At(l, s, N)] = l
  <2>1. N \in 0..N
    BY <1>3
  <2>2. heap.next[At(l, s, N)] = At(l, s, N + 1)
    BY <1>3, <2>1 DEF Ring
  <2> QED BY <1>3, <2>2
<1>5. At(l, s, N) = IF N = 0 THEN l ELSE s[N]
  BY <1>3 DEF At
<1>6. Walk(heap.prev, heap.prev[l]) = [i \in 1..N |-> s[N + 1 - i]]
  <2>1. Walk(heap.prev, heap.prev[l]) = Backward(s)
    BY <1>1, RingWalk
  <2> QED BY <2>1 DEF Backward
<1> HIDE DEF s, N
<1> QED BY <1>2, <1>4, <1>5, <1>6 DEF N

(* The lists of a state, as module Lists sees them.                        *)
Now == [l \in Heads |-> List(l)]

LEMMA NowIs ==
    /\ Now = ListsIn(heap, inited)
    /\ Now' = ListsIn(heap', inited')
<1>1. Now = ListsIn(heap, inited)
  BY DEF Now, List, ListsIn
<1>2. Now' = ListsIn(heap', inited')
  BY DEF Now, List, ListsIn
<1> QED BY <1>1, <1>2

(* What the invariant says of the lists of a state.                        *)
LEMMA Listing ==
    ASSUME RingInv
    PROVE  /\ Rings(heap, inited, Now) /\ Once(Heads, Now) /\ inited \subseteq Heads
           /\ Now \in [Heads -> Seq(Nodes)]
           /\ \A n : ~Listed(n) <=> Off(Heads, Now, n)
           /\ \A n : ~Listed(n) <=> n \notin L!Busy(Now)
           /\ \A l \in Heads : List(l) = Now[l] /\ Len(Now[l]) \in Nat
<1>1. Rings(heap, inited, Now)
  BY NowIs DEF RingInv
<1>2. Once(Heads, Now) /\ inited \subseteq Heads /\ Now \in [Heads -> Seq(Nodes)]
  BY <1>1 DEF Rings, Once
<1>3. \A l \in Heads : List(l) = Now[l] /\ Len(Now[l]) \in Nat /\ DOMAIN Now[l] = 1..Len(Now[l])
  <2> TAKE l \in Heads
  <2>1. Now[l] \in Seq(Nodes)
    BY <1>2
  <2> QED BY <2>1, LenProperties DEF Now
<1>4. \A n : ~Listed(n) <=> Off(Heads, Now, n)
  BY <1>3 DEF Listed, Has, Off
<1>5. \A n : ~Listed(n) <=> n \notin L!Busy(Now)
  <2> TAKE n
  <2>1. DOMAIN Now = Heads
    BY <1>2
  <2>2. n \in L!Busy(Now) <=> \E l \in Heads : \E i \in 1..Len(Now[l]) : Now[l][i] = n
    BY <1>3, <2>1 DEF L!Busy, L!On, L!ToSet
  <2> QED BY <1>4, <2>2 DEF Off
<1> QED BY <1>1, <1>2, <1>3, <1>4, <1>5

(* Each call keeps the rings and does what module Lists promises.          *)
LEMMA AddStep ==
    ASSUME RingInv, NEW n \in Nodes, AddEntry(n)
    PROVE  RingInv' /\ \E l \in Heads : L!Add(n, l)
<1>1. PICK l \in inited : heap' \in {list_add(heap, n, l), list_add_tail(heap, n, l)}
  BY DEF AddEntry
<1>2. l \in Heads /\ Off(Heads, Now, n) /\ n \notin L!Busy(Now) /\ Now[l] \in Seq(Nodes)
  BY Listing DEF AddEntry
<1> DEFINE F == [Now EXCEPT ![l] = Inserted(@, 0, n)]
           G == [Now EXCEPT ![l] = Inserted(@, Len(@), n)]
<1>3. Rings(list_add(heap, n, l), inited, F) /\ Rings(list_add_tail(heap, n, l), inited, G)
  BY <1>2, Listing, AddList
<1>4. F = [Now EXCEPT ![l] = <<n>> \o Now[l], ![l] = <<n>> \o Now[l]]
      /\ G = [Now EXCEPT ![l] = Append(Now[l], n), ![l] = Append(Now[l], n)]
  <2>1. <<n>> \o Now[l] = Inserted(Now[l], 0, n) /\ Append(Now[l], n) = Inserted(Now[l], Len(Now[l]), n)
    BY <1>2, AtEnds
  <2>2. Now \in [Heads -> Seq(Nodes)]
    BY Listing
  <2> QED BY <1>2, <2>1, <2>2
<1> HIDE DEF F, G
<1>5. PICK s \in {<<n>> \o Now[l], Append(Now[l], n)} :
         Rings(heap', inited', [Now EXCEPT ![l] = s, ![l] = s])
  BY <1>1, <1>3, <1>4 DEF AddEntry
<1>6. Now' = [Now EXCEPT ![l] = s, ![l] = s] /\ RingInv'
  BY <1>5, NowIs, TheLists DEF RingInv
<1>7. L!Add(n, l)
  BY <1>2, <1>6 DEF L!Add, L!Become, Now
<1> QED BY <1>2, <1>6, <1>7

(* An entry that is listed has a place.                                    *)
LEMMA Place ==
    ASSUME RingInv, NEW n, Listed(n)
    PROVE  \E l \in inited : \E i \in 1..Len(Now[l]) : Now[l][i] = n
<1>1. PICK l \in Heads : \E i \in 1..Len(Now[l]) : Now[l][i] = n
  BY Listing DEF Off
<1>2. l \in inited
  <2>1. 1..Len(<<>>) = {}
    BY Empty
  <2> QED BY <1>1, <2>1, Listing DEF Rings
<1> QED BY <1>1, <1>2

LEMMA TakenOutIs ==
    ASSUME NEW K, NEW S \in [K -> Seq(Nodes)], NEW l \in K, NEW i \in 1..Len(S[l])
    PROVE  L!TakenOut(S, l, i) = [S EXCEPT ![l] = Removed(@, i)]
<1>1. S[l] \in Seq(Nodes)
  OBVIOUS
<1>2. RemoveAt(S[l], i) = Removed(S[l], i)
  BY <1>1, RemovedIs
<1>3. L!RemoveAt(S[l], i) = RemoveAt(S[l], i)
  BY DEF L!RemoveAt, RemoveAt
<1> QED BY <1>2, <1>3 DEF L!TakenOut

LEMMA DeleteStep ==
    ASSUME RingInv, NEW n \in Nodes, DeleteEntry(n)
    PROVE  RingInv' /\ L!Delete(n)
<1>1. PICK l \in inited : \E i \in 1..Len(Now[l]) : Now[l][i] = n
  BY Place DEF DeleteEntry
<1>2. PICK i \in 1..Len(Now[l]) : Now[l][i] = n
  BY <1>1
<1>3. l \in Heads /\ Now \in [Heads -> Seq(Nodes)] /\ Rings(heap, inited, Now)
  BY Listing
<1> DEFINE U == [Now EXCEPT ![l] = Removed(@, i)]
<1>4. Rings(list_del(heap, n), inited, U) /\ Rings(list_del_init(heap, n), inited, U)
  BY <1>2, <1>3, DeleteList
<1>5. U = L!TakenOut(Now, l, i)
  BY <1>3, TakenOutIs
<1> HIDE DEF U
<1>6. Rings(heap', inited', U)
  BY <1>4 DEF DeleteEntry
<1>7. Now' = L!TakenOut(Now, l, i) /\ RingInv'
  BY <1>5, <1>6, NowIs, TheLists DEF RingInv
<1>8. L!Delete(n)
  BY <1>2, <1>3, <1>7 DEF L!Delete, Now
<1> QED BY <1>7, <1>8

LEMMA ReplaceStep ==
    ASSUME RingInv, NEW n \in Nodes, ReplaceEntry(n)
    PROVE  RingInv' /\ \E x \in Nodes : L!Replace(n, x)
<1>1. PICK x \in Nodes : ~Listed(x) /\ heap' \in {list_replace(heap, n, x), list_replace_init(heap, n, x)}
  BY DEF ReplaceEntry
<1>2. PICK l \in inited : \E i \in 1..Len(Now[l]) : Now[l][i] = n
  BY Place DEF ReplaceEntry
<1>3. PICK i \in 1..Len(Now[l]) : Now[l][i] = n
  BY <1>2
<1>4. /\ l \in Heads /\ Now \in [Heads -> Seq(Nodes)] /\ Rings(heap, inited, Now) /\ Once(Heads, Now)
      /\ Off(Heads, Now, x) /\ x \notin L!Busy(Now) /\ n \in L!Busy(Now) /\ Len(Now[l]) \in Nat
  BY <1>1, Listing DEF ReplaceEntry
<1> DEFINE U == [[Now EXCEPT ![l] = Removed(@, i)] EXCEPT ![l] = Inserted(@, i - 1, x)]
           W == [m \in Heads |-> [j \in DOMAIN Now[m] |-> IF Now[m][j] = n THEN x ELSE Now[m][j]]]
           r == Removed(Now[l], i)
           t == Inserted(r, i - 1, x)
<1>5. Rings(list_replace(heap, n, x), inited, U) /\ Rings(list_replace_init(heap, n, x), inited, U)
  BY <1>3, <1>4, ReplaceList
<1>6. U = W
  <2>1. r \in Seq(Nodes) /\ Len(r) = Len(Now[l]) - 1
    BY <1>4, RemovedHas
  <2>2. \A j \in 1..(Len(Now[l]) - 1) : r[j] = IF j < i THEN Now[l][j] ELSE Now[l][j + 1]
    BY DEF Removed
  <2> HIDE DEF r
  <2>3. i - 1 \in 0..Len(r)
    BY <1>4, <2>1
  <2>4. t \in Seq(Nodes) /\ Len(t) = Len(r) + 1
    BY <2>1, <2>3, InsertedHas
  <2>5. \A j \in 1..Len(Now[l]) : t[j] = IF j <= i - 1 THEN r[j] ELSE IF j = (i - 1) + 1 THEN x ELSE r[j - 1]
    BY <1>4, <2>1 DEF Inserted
  <2> HIDE DEF t
  <2>6. \A j \in 1..Len(Now[l]) : t[j] = IF j = i THEN x ELSE Now[l][j]
    <3> TAKE j \in 1..Len(Now[l])
    <3>1. CASE j < i
      BY <3>1, <1>4, <2>2, <2>5
    <3>2. CASE j = i
      BY <3>2, <1>4, <2>5
    <3>3. CASE j > i
      <4>1. j - 1 \in 1..(Len(Now[l]) - 1) /\ ~(j - 1 < i) /\ (j - 1) + 1 = j
        BY <3>3, <1>4
      <4>2. r[j - 1] = Now[l][j]
        BY <4>1, <2>2
      <4> QED BY <3>3, <4>2, <1>4, <2>5
    <3> QED BY <3>1, <3>2, <3>3, <1>4
  <2>7. \A m \in Heads : Now[m] \in Seq(Nodes) /\ DOMAIN Now[m] = 1..Len(Now[m])
                         /\ Now[m] = [j \in DOMAIN Now[m] |-> Now[m][j]]
    <3> TAKE m \in Heads
    <3>1. Now[m] \in Seq(Nodes)
      BY <1>4
    <3> QED BY <3>1, LenProperties
  <2>8. ASSUME NEW m \in Heads PROVE U[m] = W[m]
    <3>1. CASE m = l
      <4>1. U[l] = t
        BY <1>4 DEF t, r
      <4>2. \A j \in 1..Len(Now[l]) : Now[l][j] = n <=> j = i
        BY <1>3, <1>4 DEF Once
      <4>3. W[l] = [j \in 1..Len(Now[l]) |-> IF j = i THEN x ELSE Now[l][j]]
        BY <1>4, <2>7, <4>2
      <4>4. t = [j \in 1..Len(Now[l]) |-> t[j]]
        <5>1. DOMAIN t = 1..Len(t) /\ Len(t) = Len(Now[l]) /\ t = [j \in DOMAIN t |-> t[j]]
          BY <1>4, <2>1, <2>4, LenProperties
        <5> QED BY <5>1
      <4> QED BY <3>1, <4>1, <4>3, <4>4, <2>6
    <3>2. CASE m # l
      <4>1. U[m] = Now[m]
        BY <3>2, <1>4
      <4>2. \A j \in 1..Len(Now[m]) : Now[m][j] # n
        BY <3>2, <1>3, <1>4 DEF Once
      <4>3. W[m] = [j \in DOMAIN Now[m] |-> Now[m][j]]
        BY <2>7, <4>2
      <4> QED BY <4>1, <4>3, <2>7
    <3> QED BY <3>1, <3>2
  <2>9. U = [m \in Heads |-> U[m]] /\ W = [m \in Heads |-> W[m]]
    BY <1>4
  <2> HIDE DEF U, W
  <2> QED BY <2>8, <2>9
<1> HIDE DEF U
<1>7. Rings(heap', inited', U)
  BY <1>1, <1>5 DEF ReplaceEntry
<1>8. Now' = W /\ RingInv'
  BY <1>6, <1>7, NowIs, TheLists DEF RingInv
<1>9. L!Replace(n, x)
  BY <1>4, <1>8 DEF L!Replace, Now
<1> QED BY <1>8, <1>9

LEMMA MoveStep ==
    ASSUME RingInv, NEW n \in Nodes, MoveEntry(n)
    PROVE  RingInv' /\ \E l \in Heads : L!Move(n, l)
<1>1. PICK m \in inited : heap' \in {list_move(heap, n, m), list_move_tail(heap, n, m)}
  BY DEF MoveEntry
<1>2. PICK l \in inited : \E i \in 1..Len(Now[l]) : Now[l][i] = n
  BY Place DEF MoveEntry
<1>3. PICK i \in 1..Len(Now[l]) : Now[l][i] = n
  BY <1>2
<1>4. l \in Heads /\ m \in Heads /\ Now \in [Heads -> Seq(Nodes)] /\ Rings(heap, inited, Now)
  BY Listing
<1> DEFINE T == [Now EXCEPT ![l] = Removed(@, i)]
<1>5. /\ Rings(list_move(heap, n, m), inited, [T EXCEPT ![m] = Inserted(@, 0, n)])
      /\ Rings(list_move_tail(heap, n, m), inited, [T EXCEPT ![m] = Inserted(@, Len(@), n)])
  BY <1>3, <1>4, MoveList
<1>6. T \in [Heads -> Seq(Nodes)] /\ T = L!TakenOut(Now, l, i)
  <2>1. Removed(Now[l], i) \in Seq(Nodes)
    BY <1>4, RemovedHas
  <2> QED BY <2>1, <1>4, TakenOutIs
<1> HIDE DEF T
<1>7. <<n>> \o T[m] = Inserted(T[m], 0, n) /\ Append(T[m], n) = Inserted(T[m], Len(T[m]), n)
  <2>1. T[m] \in Seq(Nodes)
    BY <1>4, <1>6
  <2> QED BY <2>1, AtEnds
<1>8. PICK s \in {<<n>> \o T[m], Append(T[m], n)} : Rings(heap', inited', [T EXCEPT ![m] = s])
  BY <1>1, <1>5, <1>7 DEF MoveEntry
<1>9. Now' = [T EXCEPT ![m] = s] /\ RingInv'
  BY <1>8, NowIs, TheLists DEF RingInv
<1>10. L!Move(n, m)
  <2>1. T = L!TakenOut(Now, l, i)
    BY <1>6
  <2>2. \E z \in {<<n>> \o T[m], Append(T[m], n)} : Now' = [T EXCEPT ![m] = z]
    BY <1>8, <1>9
  <2>3. \E z \in {<<n>> \o L!TakenOut(Now, l, i)[m], Append(L!TakenOut(Now, l, i)[m], n)} :
           Now' = [L!TakenOut(Now, l, i) EXCEPT ![m] = z]
    BY <2>1, <2>2
  <2> QED BY <1>3, <1>4, <2>3, Zenon DEF L!Move, Now
<1> QED BY <1>4, <1>9, <1>10

LEMMA RotateStep ==
    ASSUME RingInv, NEW l \in Heads, RotateList(l)
    PROVE  RingInv' /\ (Now' = Now \/ L!Rotate(l))
<1>1. l \in inited /\ Rings(heap, inited, Now) /\ heap' = list_rotate_left(heap, l) /\ inited' = inited
  BY Listing DEF RotateList
<1>2. CASE Now[l] = <<>> /\ list_rotate_left(heap, l) = heap
  <2>1. Rings(heap', inited', Now)
    BY <1>1, <1>2
  <2> QED BY <2>1, NowIs, TheLists DEF RingInv
<1>3. CASE Now[l] # <<>> /\ Rings(list_rotate_left(heap, l), inited, [Now EXCEPT ![l] = Append(Tail(@), Head(@))])
  <2>1. Now' = [Now EXCEPT ![l] = Append(Tail(@), Head(@))] /\ RingInv'
    BY <1>1, <1>3, NowIs, TheLists DEF RingInv
  <2>2. L!Rotate(l)
    BY <1>3, <2>1, Zenon DEF L!Rotate, Now
  <2> QED BY <2>1, <2>2
<1> QED BY <1>1, <1>2, <1>3, RotateRings

LEMMA InitHeadStep ==
    ASSUME RingInv, NEW l \in Heads, InitHead(l)
    PROVE  RingInv' /\ Now' = Now
<1>1. Rings(heap, inited, Now) /\ l \notin inited
  BY Listing DEF InitHead
<1>2. Now[l] = <<>>
  BY <1>1 DEF Rings
<1>3. Rings(heap', inited', Now)
  BY <1>1, <1>2, FreshRing DEF InitHead
<1> QED BY <1>3, NowIs, TheLists DEF RingInv

LEMMA ReplaceHeadStep ==
    ASSUME RingInv, NEW l \in Heads, NEW x \in Heads, ReplaceHead(l, x)
    PROVE  RingInv' /\ L!Join(l, x)
<1> DEFINE U == [Now EXCEPT ![x] = Now[l], ![l] = <<>>]
<1>1. l \in inited /\ l # x /\ Now[x] = <<>> /\ Rings(heap, inited, Now) /\ Now \in [Heads -> Seq(Nodes)]
  BY Listing DEF ReplaceHead
<1>2. /\ Rings(list_replace(heap, l, x), (inited \ {l}) \cup {x}, U)
      /\ Rings(list_replace_init(heap, l, x), inited \cup {x}, U)
  BY <1>1, ReplaceHeadRings
<1> HIDE DEF U
<1>3. Rings(heap', inited', U)
  BY <1>2 DEF ReplaceHead
<1>4. Now' = U /\ RingInv'
  BY <1>3, NowIs, TheLists DEF RingInv
<1>5. Now[l] \o Now[x] = Now[l]
  <2>1. Now[l] \in Seq(Nodes)
    BY <1>1
  <2> QED BY <1>1, <2>1, ConcatEmptySeq
<1>6. L!Become(l, <<>>, x, Now[l])
  BY <1>4 DEF L!Become, Now, U
<1>7. L!Join(l, x)
  BY <1>1, <1>5, <1>6 DEF L!Join, Now
<1> QED BY <1>4, <1>7

LEMMA CutStep ==
    ASSUME RingInv, NEW l \in Heads, NEW f \in Heads, CutList(l, f)
    PROVE  RingInv' /\ (Now' = Now \/ L!Cut(l, f))
<1>1. l \in inited /\ f \in inited /\ l # f /\ Now[l] = <<>> /\ Rings(heap, inited, Now)
  BY Listing DEF CutList
<1>2. PICK e : (e = f \/ Has(Now[f], e)) /\ heap' = list_cut_position(heap, l, f, e)
  BY Listing DEF CutList
<1>3. inited' = inited
  BY DEF CutList
<1>4. CASE Rings(heap', inited', Now)
  BY <1>4, NowIs, TheLists DEF RingInv
<1>5. CASE \E k \in 0..Len(Now[f]) :
             Rings(heap', inited', [Now EXCEPT ![l] = SubSeq(Now[f], 1, k), ![f] = SubSeq(@, k + 1, Len(@))])
  <2>1. PICK k \in 0..Len(Now[f]) :
             Rings(heap', inited', [Now EXCEPT ![l] = SubSeq(Now[f], 1, k), ![f] = SubSeq(@, k + 1, Len(@))])
    BY <1>5
  <2>2. Now' = [Now EXCEPT ![l] = SubSeq(Now[f], 1, k), ![f] = SubSeq(@, k + 1, Len(@))] /\ RingInv'
    BY <2>1, NowIs, TheLists DEF RingInv
  <2>3. Now' = [Now EXCEPT ![f] = SubSeq(Now[f], k + 1, Len(Now[f])), ![l] = SubSeq(Now[f], 1, k)]
    BY <1>1, <2>2
  <2>4. L!Become(l, SubSeq(Now[f], 1, k), f, SubSeq(Now[f], k + 1, Len(Now[f])))
    BY <2>3 DEF L!Become, Now
  <2>5. L!Cut(l, f)
    BY <1>1, <2>4 DEF L!Cut, Now
  <2> QED BY <2>2, <2>5
<1> QED BY <1>1, <1>2, <1>3, <1>4, <1>5, CutRings

LEMMA SpliceStep ==
    ASSUME RingInv, NEW l \in Heads, NEW a \in Heads, SpliceList(l, a)
    PROVE  RingInv' /\ (Now' = Now \/ L!Join(l, a))
<1> DEFINE Y == [Now EXCEPT ![a] = Joined(@, 0, Now[l]), ![l] = <<>>]
           Z == [Now EXCEPT ![a] = Joined(@, Len(@), Now[l]), ![l] = <<>>]
<1>1. l \in inited /\ a \in inited /\ l # a /\ Rings(heap, inited, Now) /\ Now \in [Heads -> Seq(Nodes)]
  BY Listing DEF SpliceList
<1>2. Now[a] \in Seq(Nodes) /\ Now[l] \in Seq(Nodes)
  BY <1>1
<1>3. Y = [Now EXCEPT ![a] = Now[l] \o Now[a], ![l] = <<>>] /\ Z = [Now EXCEPT ![a] = Now[a] \o Now[l], ![l] = <<>>]
  <2>1. Now[l] \o Now[a] = Joined(Now[a], 0, Now[l]) /\ Now[a] \o Now[l] = Joined(Now[a], Len(Now[a]), Now[l])
    BY <1>2, JoinedIs
  <2> QED BY <2>1
<1>4. \E S \in {Y, Z, Now} : Rings(heap', inited', S)
  <2>1. \/ /\ Rings(list_splice(heap, l, a), inited \ {l}, Y) /\ Rings(list_splice_tail(heap, l, a), inited \ {l}, Z)
           /\ Rings(list_splice_init(heap, l, a), inited, Y) /\ Rings(list_splice_tail_init(heap, l, a), inited, Z)
        \/ /\ Rings(list_splice(heap, l, a), inited \ {l}, Now) /\ Rings(list_splice_tail(heap, l, a), inited \ {l}, Now)
           /\ Rings(list_splice_init(heap, l, a), inited, Now) /\ Rings(list_splice_tail_init(heap, l, a), inited, Now)
    BY <1>1, SpliceRings
  <2> HIDE DEF Y, Z
  <2>2. \/ inited' = inited \ {l} /\ heap' \in {list_splice(heap, l, a), list_splice_tail(heap, l, a)}
        \/ inited' = inited /\ heap' \in {list_splice_init(heap, l, a), list_splice_tail_init(heap, l, a)}
    BY DEF SpliceList
  <2> QED BY <2>1, <2>2
<1> HIDE DEF Y, Z
<1>5. PICK S \in {Y, Z, Now} : Rings(heap', inited', S)
  BY <1>4
<1>6. Now' = S /\ RingInv'
  BY <1>5, NowIs, TheLists DEF RingInv
<1>7. ASSUME S \in {Y, Z} PROVE L!Join(l, a)
  <2>1. PICK s \in {Now[l] \o Now[a], Now[a] \o Now[l]} : Now' = [Now EXCEPT ![a] = s, ![l] = <<>>]
    BY <1>3, <1>6, <1>7
  <2>2. L!Become(l, <<>>, a, s)
    BY <2>1 DEF L!Become, Now
  <2> QED BY <1>1, <2>1, <2>2 DEF L!Join, Now
<1> QED BY <1>5, <1>6, <1>7

-----------------------------------------------------------------------------
(* Chains.                                                                 *)

(* What the pointer of the i-th entry of s points at.                      *)
Behind(s, i) == IF i + 1 \in 1..Len(s) THEN s[i + 1] ELSE NULL

Chain(g, l, s) ==
    /\ \A i \in 0..Len(s) : g.to[At(l, s, i)] = Behind(s, i)
    /\ \A i \in 1..Len(s) : g.pprev[s[i]] = At(l, s, i - 1)

HHeaps == [to : [Fields -> Nodes \cup {NULL}], pprev : [Nodes -> Fields \cup {NULL}]]

(* The heads are those of the lists S, on the heap g.                      *)
Chains(g, S) ==
    /\ g \in HHeaps /\ Once(HHeads, S)
    /\ \A l \in HHeads : Chain(g, l, S[l])
    /\ \A n \in Nodes : Off(HHeads, S, n) => g.pprev[n] = NULL

LEMMA HForwards ==
    ASSUME NEW S, Once(HHeads, S), NEW l \in HHeads, NEW m \in HHeads,
           NEW i \in 0..Len(S[l]), NEW j \in 0..Len(S[m]), At(l, S[l], i) = At(m, S[m], j)
    PROVE  l = m /\ i = j
<1>1. Len(S[l]) \in Nat /\ Len(S[m]) \in Nat
  BY Lengths
<1>2. \A k \in 1..Len(S[l]) : S[l][k] \in Nodes
  BY Lengths
<1>3. \A k \in 1..Len(S[m]) : S[m][k] \in Nodes
  BY Lengths
<1>4. CASE i = 0 /\ j = 0
  BY <1>4, <1>1 DEF At
<1>5. CASE i = 0 /\ j # 0
  BY <1>5, <1>1, <1>3, ListAssumption DEF At
<1>6. CASE i # 0 /\ j = 0
  BY <1>6, <1>1, <1>2, ListAssumption DEF At
<1>7. CASE i # 0 /\ j # 0
  <2>1. i \in 1..Len(S[l]) /\ j \in 1..Len(S[m])
    BY <1>1, <1>7
  <2>2. S[l][i] = S[m][j]
    BY <2>1 DEF At
  <2> QED BY <2>1, <2>2 DEF Once
<1> QED BY <1>4, <1>5, <1>6, <1>7

LEMMA HThere ==
    ASSUME NEW S, Once(HHeads, S), NEW l \in HHeads, NEW i
    PROVE  /\ At(l, S[l], i) \in Fields /\ At(l, S[l], i) # NULL
           /\ \A x \in Nodes : Off(HHeads, S, x) => At(l, S[l], i) # x
           /\ Behind(S[l], i) \in Nodes \cup {NULL}
<1>1. \A k \in 1..Len(S[l]) : S[l][k] \in Nodes
  BY Lengths
<1>2. At(l, S[l], i) \in Fields /\ At(l, S[l], i) # NULL
      /\ \A x \in Nodes : Off(HHeads, S, x) => At(l, S[l], i) # x
  <2>1. CASE i \in 1..Len(S[l])
    BY <1>1, <2>1, ListAssumption DEF At, Fields, Off
  <2>2. CASE i \notin 1..Len(S[l])
    BY <2>2, ListAssumption DEF At, Fields
  <2> QED BY <2>1, <2>2
<1>3. Behind(S[l], i) \in Nodes \cup {NULL}
  BY <1>1 DEF Behind
<1> QED BY <1>2, <1>3

LEMMA HNot ==
    ASSUME NEW S, Once(HHeads, S), NEW l \in HHeads, NEW x \in Nodes, Off(HHeads, S, x), NEW i
    PROVE  At(l, S[l], i) \in Fields /\ At(l, S[l], i) # x
  BY HThere

(* The two pointers that change, and the two that lead back, when x comes  *)
(* behind the k-th entry...                                                *)
LEMMA InsertChain ==
    ASSUME NEW g, NEW f \in HHeaps, NEW S, Chains(g, S), NEW l \in HHeads, NEW x \in Nodes, Off(HHeads, S, x),
           NEW k \in 0..Len(S[l]),
           \A a \in Fields : f.to[a] = IF a = At(l, S[l], k) THEN x ELSE IF a = x THEN Behind(S[l], k) ELSE g.to[a],
           \A n \in Nodes : f.pprev[n] = IF n = x THEN At(l, S[l], k) ELSE IF n = Behind(S[l], k) THEN x ELSE g.pprev[n]
    PROVE  Chains(f, [S EXCEPT ![l] = Inserted(@, k, x)])
<1> DEFINE p == At(l, S[l], k)
           z == Behind(S[l], k)
           t == Inserted(S[l], k, x)
           U == [S EXCEPT ![l] = Inserted(@, k, x)]
           N == Len(S[l])
<1>1. /\ Once(HHeads, S) /\ S \in [HHeads -> Seq(Nodes)] /\ S[l] \in Seq(Nodes) /\ N \in Nat
      /\ \A m \in HHeads : Chain(g, m, S[m])
  BY Lengths DEF Chains, Once
<1>2. p \in Fields /\ p # x /\ x \in Fields /\ x # NULL
  <2>1. p \in Fields /\ p # x
    BY <1>1, HNot
  <2> QED BY <2>1, ListAssumption DEF Fields
<1>3. Once(HHeads, U)
  BY <1>1, OnceMore
<1>4. U[l] = t /\ \A m \in HHeads \ {l} : U[m] = S[m]
  BY <1>1
<1>5. Len(t) = N + 1
  BY <1>1, InsertedHas
<1>6. \A i \in 1..(N + 1) : t[i] = IF i <= k THEN S[l][i] ELSE IF i = k + 1 THEN x ELSE S[l][i - 1]
  BY DEF Inserted
<1> HIDE DEF t, U
<1>7. \A i \in 0..(N + 1) : At(l, t, i) = IF i <= k THEN At(l, S[l], i) ELSE IF i = k + 1 THEN x ELSE At(l, S[l], i - 1)
  BY <1>1, <1>5, <1>6 DEF At
<1>8. \A i \in 0..(N + 1) : Behind(t, i) = IF i < k THEN Behind(S[l], i) ELSE IF i = k THEN x ELSE Behind(S[l], i - 1)
  <2> TAKE i \in 0..(N + 1)
  <2>1. CASE i < k
    <3>1. i + 1 \in 1..(N + 1) /\ i + 1 \in 1..N /\ i + 1 <= k
      BY <2>1, <1>1
    <3> QED BY <2>1, <3>1, <1>5, <1>6 DEF Behind
  <2>2. CASE i = k
    <3>1. i + 1 \in 1..(N + 1) /\ ~(i + 1 <= k)
      BY <2>2, <1>1
    <3> QED BY <2>2, <3>1, <1>5, <1>6 DEF Behind
  <2>3. CASE i > k
    <3>1. (i + 1 \in 1..(N + 1) <=> i # N + 1) /\ ((i - 1) + 1 \in 1..N <=> i # N + 1) /\ (i - 1) + 1 = i
          /\ ~(i + 1 <= k) /\ i + 1 # k + 1 /\ (i + 1) - 1 = i
      BY <2>3, <1>1
    <3>2. Behind(S[l], i - 1) = IF i # N + 1 THEN S[l][i] ELSE NULL
      BY <3>1 DEF Behind
    <3>3. Behind(t, i) = IF i # N + 1 THEN t[i + 1] ELSE NULL
      BY <3>1, <1>5 DEF Behind
    <3>4. i # N + 1 => t[i + 1] = S[l][i]
      BY <3>1, <1>6
    <3> QED BY <2>3, <3>2, <3>3, <3>4
  <2> QED BY <2>1, <2>2, <2>3, <1>1
(* The entries there were point as they did, but for the two at the gap.   *)
<1>9. ASSUME NEW m \in HHeads, NEW i \in 0..Len(S[m]), m = l => i # k
      PROVE  f.to[At(m, S[m], i)] = Behind(S[m], i)
  <2>1. At(m, S[m], i) # p /\ At(m, S[m], i) # x /\ At(m, S[m], i) \in Fields
    <3>1. At(m, S[m], i) # p
      BY <1>1, <1>9, HForwards
    <3> QED BY <3>1, <1>1, HNot
  <2>2. g.to[At(m, S[m], i)] = Behind(S[m], i)
    BY <1>1 DEF Chain
  <2> HIDE DEF p
  <2> QED BY <2>1, <2>2 DEF p
<1>10. ASSUME NEW m \in HHeads, NEW i \in 1..Len(S[m]), m = l => i # k + 1
       PROVE  f.pprev[S[m][i]] = At(m, S[m], i - 1)
  <2>1. S[m][i] \in Nodes /\ S[m][i] # x /\ S[m][i] # NULL
    <3>1. S[m][i] \in Nodes
      BY <1>1, Lengths
    <3> QED BY <3>1, ListAssumption DEF Off
  <2>2. S[m][i] # z
    BY <2>1, <1>1, <1>10 DEF Behind, Once
  <2>3. g.pprev[S[m][i]] = At(m, S[m], i - 1)
    BY <1>1 DEF Chain
  <2> QED BY <2>1, <2>2, <2>3
<1>11. Chain(f, l, t)
  <2>1. ASSUME NEW i \in 0..(N + 1) PROVE f.to[At(l, t, i)] = Behind(t, i)
    <3>1. CASE i < k
      <4>1. At(l, t, i) = At(l, S[l], i) /\ Behind(t, i) = Behind(S[l], i) /\ i \in 0..N
        BY <3>1, <1>1, <1>7, <1>8
      <4> QED BY <3>1, <4>1, <1>9
    <3>2. CASE i = k
      <4>1. At(l, t, i) = p /\ Behind(t, i) = x
        BY <3>2, <1>1, <1>7, <1>8
      <4> QED BY <4>1, <1>2
    <3>3. CASE i = k + 1
      <4>1. At(l, t, i) = x /\ Behind(t, i) = z
        <5>1. ~(i <= k) /\ ~(i < k) /\ i # k /\ i - 1 = k
          BY <3>3, <1>1
        <5>2. At(l, t, i) = x
          BY <3>3, <5>1, <1>7
        <5>3. Behind(t, i) = Behind(S[l], i - 1)
          BY <5>1, <1>8
        <5> QED BY <5>1, <5>2, <5>3
      <4> QED BY <4>1, <1>2
    <3>4. CASE i > k + 1
      <4> DEFINE j == i - 1
      <4>1. At(l, t, i) = At(l, S[l], j) /\ Behind(t, i) = Behind(S[l], j) /\ j \in 0..N /\ j # k
        BY <3>4, <1>1, <1>7, <1>8
      <4> HIDE DEF j
      <4> QED BY <4>1, <1>9
    <3> QED BY <3>1, <3>2, <3>3, <3>4, <1>1
  <2>2. ASSUME NEW i \in 1..(N + 1) PROVE f.pprev[t[i]] = At(l, t, i - 1)
    <3>1. CASE i <= k
      <4>1. t[i] = S[l][i] /\ At(l, t, i - 1) = At(l, S[l], i - 1) /\ i \in 1..N /\ i # k + 1
        BY <3>1, <1>1, <1>6, <1>7
      <4> QED BY <4>1, <1>10
    <3>2. CASE i = k + 1
      <4>1. t[i] = x /\ At(l, t, i - 1) = p
        BY <3>2, <1>1, <1>6, <1>7
      <4> QED BY <4>1
    <3>3. CASE i = k + 2
      <4>1. t[i] = S[l][k + 1] /\ At(l, t, i - 1) = x /\ k + 1 \in 1..N
        BY <3>3, <1>1, <1>6, <1>7
      <4>2. t[i] = z /\ z \in Nodes /\ z # x
        <5>1. z = S[l][k + 1]
          BY <4>1 DEF Behind
        <5>2. S[l][k + 1] \in Nodes /\ S[l][k + 1] # x
          <6>1. \A j \in 1..N : S[l][j] \in Nodes
            BY <1>1, Lengths
          <6> QED BY <4>1, <6>1 DEF Off
        <5> QED BY <4>1, <5>1, <5>2
      <4> QED BY <4>1, <4>2
    <3>4. CASE i > k + 2
      <4> DEFINE j == i - 1
      <4>1. t[i] = S[l][j] /\ At(l, t, i - 1) = At(l, S[l], j - 1) /\ j \in 1..N /\ j # k + 1
        BY <3>4, <1>1, <1>6, <1>7
      <4> HIDE DEF j
      <4> QED BY <4>1, <1>10
    <3> QED BY <3>1, <3>2, <3>3, <3>4, <1>1
  <2> QED BY <2>1, <2>2, <1>5 DEF Chain
<1>12. ASSUME NEW m \in HHeads PROVE Chain(f, m, U[m])
  <2>1. CASE m = l
    BY <2>1, <1>4, <1>11
  <2>2. CASE m # l
    BY <2>2, <1>4, <1>9, <1>10 DEF Chain
  <2> QED BY <2>1, <2>2
<1>13. ASSUME NEW n \in Nodes, Off(HHeads, U, n) PROVE f.pprev[n] = NULL
  <2>1. \A i \in 1..(N + 1) : t[i] # n
    BY <1>4, <1>5, <1>13 DEF Off
  <2>2. n # x
    <3>1. k + 1 \in 1..(N + 1) /\ ~(k + 1 <= k)
      BY <1>1
    <3>2. t[k + 1] = x
      BY <3>1, <1>6
    <3> QED BY <2>1, <3>1, <3>2
  <2>3. \A i \in 1..N : S[l][i] # n
    <3> TAKE i \in 1..N
    <3>1. CASE i <= k
      BY <3>1, <2>1, <1>1, <1>6
    <3>2. CASE i > k
      <4>1. i + 1 \in 1..(N + 1) /\ ~(i + 1 <= k) /\ i + 1 # k + 1 /\ (i + 1) - 1 = i
        BY <3>2, <1>1
      <4>2. t[i + 1] = S[l][i]
        BY <4>1, <1>6
      <4> QED BY <4>1, <4>2, <2>1
    <3> QED BY <3>1, <3>2, <1>1
  <2>4. Off(HHeads, S, n)
    BY <2>3, <1>4, <1>13 DEF Off
  <2>5. n # z
    BY <2>3, ListAssumption DEF Behind
  <2> QED BY <2>2, <2>4, <2>5 DEF Chains
<1>14. Chains(f, U)
  BY <1>3, <1>12, <1>13 DEF Chains
<1> QED BY <1>14 DEF U

(* ... and when the k-th entry goes.                                       *)
LEMMA RemoveChain ==
    ASSUME NEW g, NEW f \in HHeaps, NEW S, Chains(g, S), NEW l \in HHeads, NEW k \in 1..Len(S[l]),
           \A a \in Fields : f.to[a] = IF a = At(l, S[l], k - 1) THEN Behind(S[l], k)
                                       ELSE IF a = S[l][k] THEN NULL ELSE g.to[a],
           \A n \in Nodes : f.pprev[n] = IF n = S[l][k] THEN NULL
                                         ELSE IF n = Behind(S[l], k) THEN At(l, S[l], k - 1) ELSE g.pprev[n]
    PROVE  Chains(f, [S EXCEPT ![l] = Removed(@, k)])
<1> DEFINE p == At(l, S[l], k - 1)
           z == Behind(S[l], k)
           e == S[l][k]
           t == Removed(S[l], k)
           U == [S EXCEPT ![l] = Removed(@, k)]
           N == Len(S[l])
<1>1. /\ Once(HHeads, S) /\ S \in [HHeads -> Seq(Nodes)] /\ S[l] \in Seq(Nodes) /\ N \in Nat
      /\ \A m \in HHeads : Chain(g, m, S[m])
  BY Lengths DEF Chains, Once
<1>2. \A m \in HHeads : \A i \in 1..Len(S[m]) : S[m][i] \in Nodes /\ S[m][i] # NULL
  <2> TAKE m \in HHeads
  <2>1. \A i \in 1..Len(S[m]) : S[m][i] \in Nodes
    BY <1>1, Lengths
  <2> QED BY <2>1, ListAssumption
<1>3. k - 1 \in 0..N /\ k \in 0..N /\ e = At(l, S[l], k) /\ p \in Fields /\ e \in Nodes
  <2>1. p \in Fields
    BY <1>1, HThere
  <2>2. k - 1 \in 0..N /\ k \in 0..N /\ e = At(l, S[l], k)
    BY <1>1 DEF At
  <2> QED BY <2>1, <2>2, <1>2
<1>4. Once(HHeads, U)
  BY <1>1, OnceLess
<1>5. U[l] = t /\ \A m \in HHeads \ {l} : U[m] = S[m]
  BY <1>1
<1>6. Len(t) = N - 1
  BY <1>1, RemovedHas
<1>7. \A i \in 1..(N - 1) : t[i] = IF i < k THEN S[l][i] ELSE S[l][i + 1]
  BY DEF Removed
<1> HIDE DEF t, U
<1>8. \A i \in 0..(N - 1) : At(l, t, i) = IF i < k THEN At(l, S[l], i) ELSE At(l, S[l], i + 1)
  BY <1>1, <1>6, <1>7 DEF At
<1>9. \A i \in 0..(N - 1) : Behind(t, i) = IF i < k - 1 THEN Behind(S[l], i) ELSE Behind(S[l], i + 1)
  <2> TAKE i \in 0..(N - 1)
  <2>1. CASE i < k - 1
    <3>1. i + 1 \in 1..(N - 1) /\ i + 1 \in 1..N /\ i + 1 < k
      BY <2>1, <1>1
    <3> QED BY <2>1, <3>1, <1>6, <1>7 DEF Behind
  <2>2. CASE i >= k - 1
    <3> DEFINE j == i + 1
    <3>1. (j \in 1..(N - 1) <=> i # N - 1) /\ (j + 1 \in 1..N <=> i # N - 1) /\ ~(j < k)
      BY <2>2, <1>1
    <3> HIDE DEF j
    <3>2. Behind(S[l], j) = IF i # N - 1 THEN S[l][j + 1] ELSE NULL
      BY <3>1 DEF Behind
    <3>3. Behind(t, i) = IF i # N - 1 THEN t[j] ELSE NULL
      BY <3>1, <1>6 DEF Behind, j
    <3>4. i # N - 1 => t[j] = S[l][j + 1]
      BY <3>1, <1>7
    <3> QED BY <2>2, <3>2, <3>3, <3>4 DEF j
  <2> QED BY <2>1, <2>2, <1>1
<1>10. ASSUME NEW m \in HHeads, NEW i \in 0..Len(S[m]), m = l => i # k - 1 /\ i # k
       PROVE  f.to[At(m, S[m], i)] = Behind(S[m], i)
  <2>1. At(m, S[m], i) # p
    BY <1>1, <1>3, <1>10, HForwards
  <2>2. At(m, S[m], i) # e
    BY <1>1, <1>3, <1>10, HForwards
  <2>3. At(m, S[m], i) \in Fields
    BY <1>1, HThere
  <2>4. g.to[At(m, S[m], i)] = Behind(S[m], i)
    BY <1>1 DEF Chain
  <2> QED BY <2>1, <2>2, <2>3, <2>4
<1>11. ASSUME NEW m \in HHeads, NEW i \in 1..Len(S[m]), m = l => i # k /\ i # k + 1
       PROVE  f.pprev[S[m][i]] = At(m, S[m], i - 1)
  <2>1. S[m][i] # e
    BY <1>1, <1>11 DEF Once
  <2>2. S[m][i] # z
    BY <1>1, <1>2, <1>11 DEF Behind, Once
  <2>3. g.pprev[S[m][i]] = At(m, S[m], i - 1)
    BY <1>1 DEF Chain
  <2> QED BY <2>1, <2>2, <2>3, <1>2
<1>12. p # e
  BY <1>1, <1>3, HForwards
<1>13. Chain(f, l, t)
  <2>1. ASSUME NEW i \in 0..(N - 1) PROVE f.to[At(l, t, i)] = Behind(t, i)
    <3>1. CASE i < k - 1
      <4>1. At(l, t, i) = At(l, S[l], i) /\ Behind(t, i) = Behind(S[l], i) /\ i \in 0..N /\ i # k
        <5>1. i < k /\ i \in 0..N /\ i # k
          BY <3>1, <1>1
        <5>2. At(l, t, i) = At(l, S[l], i)
          BY <5>1, <1>8
        <5>3. Behind(t, i) = Behind(S[l], i)
          BY <3>1, <1>9
        <5> QED BY <5>1, <5>2, <5>3
      <4> QED BY <3>1, <4>1, <1>10
    <3>2. CASE i = k - 1
      <4>1. At(l, t, i) = p /\ Behind(t, i) = z
        <5>1. i < k /\ ~(i < k - 1) /\ i + 1 = k
          BY <3>2, <1>1
        <5>2. At(l, t, i) = At(l, S[l], i)
          BY <5>1, <1>8
        <5>3. Behind(t, i) = Behind(S[l], i + 1)
          BY <5>1, <1>9
        <5> QED BY <3>2, <5>1, <5>2, <5>3
      <4> QED BY <4>1, <1>3
    <3>3. CASE i > k - 1
      <4> DEFINE j == i + 1
      <4>1. At(l, t, i) = At(l, S[l], j) /\ Behind(t, i) = Behind(S[l], j) /\ j \in 0..N /\ j # k /\ j # k - 1
        BY <3>3, <1>1, <1>8, <1>9
      <4> HIDE DEF j
      <4> QED BY <4>1, <1>10
    <3> QED BY <3>1, <3>2, <3>3, <1>1
  <2>2. ASSUME NEW i \in 1..(N - 1) PROVE f.pprev[t[i]] = At(l, t, i - 1)
    <3>1. CASE i < k
      <4>1. t[i] = S[l][i] /\ At(l, t, i - 1) = At(l, S[l], i - 1) /\ i \in 1..N /\ i # k /\ i # k + 1
        BY <3>1, <1>1, <1>7, <1>8
      <4> QED BY <4>1, <1>11
    <3>2. CASE i = k
      <4>1. t[i] = S[l][k + 1] /\ At(l, t, i - 1) = p /\ k + 1 \in 1..N
        BY <3>2, <1>1, <1>7, <1>8
      <4>2. t[i] = z /\ z \in Nodes
        BY <4>1, <1>2 DEF Behind
      <4>3. S[l][k + 1] # e
        <5>1. k # k + 1
          BY <1>1
        <5> QED BY <4>1, <5>1, <1>1 DEF Once
      <4>4. z # e
        BY <4>1, <4>2, <4>3
      <4> QED BY <4>1, <4>2, <4>4
    <3>3. CASE i > k
      <4> DEFINE j == i + 1
      <4>1. t[i] = S[l][j] /\ At(l, t, i - 1) = At(l, S[l], j - 1) /\ j \in 1..N /\ j # k + 1 /\ j # k
        BY <3>3, <1>1, <1>7, <1>8
      <4> HIDE DEF j
      <4> QED BY <4>1, <1>11
    <3> QED BY <3>1, <3>2, <3>3, <1>1
  <2>3. Len(t) = N - 1
    BY <1>6
  <2> QED BY <2>1, <2>2, <2>3 DEF Chain
<1>14. ASSUME NEW m \in HHeads PROVE Chain(f, m, U[m])
  <2>1. CASE m = l
    BY <2>1, <1>5, <1>13
  <2>2. CASE m # l
    BY <2>2, <1>5, <1>10, <1>11 DEF Chain
  <2> QED BY <2>1, <2>2
<1>15. ASSUME NEW n \in Nodes, Off(HHeads, U, n) PROVE f.pprev[n] = NULL
  <2>1. \A i \in 1..(N - 1) : t[i] # n
    BY <1>5, <1>6, <1>15 DEF Off
  <2>2. \A i \in 1..N : i # k => S[l][i] # n
    <3> TAKE i \in 1..N
    <3>1. CASE i < k
      <4>1. i \in 1..(N - 1) /\ t[i] = S[l][i]
        BY <3>1, <1>1, <1>7
      <4> QED BY <4>1, <2>1
    <3>2. CASE i > k
      <4>1. i - 1 \in 1..(N - 1) /\ ~(i - 1 < k) /\ (i - 1) + 1 = i
        BY <3>2, <1>1
      <4>2. t[i - 1] = S[l][i]
        BY <4>1, <1>7
      <4> QED BY <4>1, <4>2, <2>1
    <3> QED BY <3>1, <3>2, <1>1
  <2>3. CASE n = e
    BY <2>3
  <2>4. CASE n # e
    <3>1. Off(HHeads, S, n)
      BY <2>2, <2>4, <1>5, <1>15 DEF Off
    <3>2. n # z
      BY <2>2, ListAssumption, <1>1 DEF Behind
    <3> QED BY <2>4, <3>1, <3>2 DEF Chains
  <2> QED BY <2>3, <2>4
<1>16. Chains(f, U)
  BY <1>4, <1>14, <1>15 DEF Chains
<1> QED BY <1>16 DEF U

LEMMA OnceMoved ==
    ASSUME NEW K, NEW S, Once(K, S), NEW l \in K, NEW x \in K, l # x, S[x] = <<>>
    PROVE  Once(K, [S EXCEPT ![l] = <<>>, ![x] = S[l]])
<1> DEFINE U == [S EXCEPT ![l] = <<>>, ![x] = S[l]]
<1>1. U \in [K -> Seq(Nodes)] /\ U[l] = <<>> /\ U[x] = S[l] /\ \A m \in K \ {l, x} : U[m] = S[m]
  BY Empty DEF Once
<1>2. 1..Len(<<>>) = {}
  BY Empty
<1> HIDE DEF U
<1>3. ASSUME NEW m \in K, NEW r \in K, NEW i \in 1..Len(U[m]), NEW j \in 1..Len(U[r]),
             U[m][i] = U[r][j]
      PROVE  m = r /\ i = j
  <2>1. m # l /\ r # l
    BY <1>1, <1>2
  <2>2. U[m] = S[IF m = x THEN l ELSE m] /\ U[r] = S[IF r = x THEN l ELSE r]
    BY <2>1, <1>1
  <2> DEFINE a == IF m = x THEN l ELSE m
             b == IF r = x THEN l ELSE r
  <2>3. a \in K /\ b \in K /\ (a = b => m = r)
    BY <2>1
  <2>4. U[m] = S[a] /\ U[r] = S[b]
    BY <2>2
  <2> HIDE DEF a, b
  <2>5. a = b /\ i = j
    BY <2>3, <2>4, <1>3 DEF Once
  <2> QED BY <2>3, <2>5
<1>4. Once(K, U)
  BY <1>1, <1>3 DEF Once
<1> QED BY <1>4 DEF U

(* hlist_move_list: the entries get a new head.                            *)
LEMMA MoveChain ==
    ASSUME NEW g, NEW S, Chains(g, S), NEW l \in HHeads, NEW x \in HHeads, l # x, S[x] = <<>>
    PROVE  Chains(hlist_move_list(g, l, x), [S EXCEPT ![l] = <<>>, ![x] = S[l]])
<1> DEFINE f == hlist_move_list(g, l, x)
           z == Behind(S[l], 0)
           U == [S EXCEPT ![l] = <<>>, ![x] = S[l]]
           N == Len(S[l])
<1>1. /\ Once(HHeads, S) /\ S \in [HHeads -> Seq(Nodes)] /\ S[l] \in Seq(Nodes) /\ N \in Nat
      /\ (\A m \in HHeads : Chain(g, m, S[m])) /\ g \in HHeaps
  BY Lengths DEF Chains, Once
<1>2. \A m \in HHeads : \A i \in 1..Len(S[m]) : S[m][i] \in Nodes /\ S[m][i] \in Fields /\ S[m][i] \notin HHeads /\ S[m][i] # NULL
  <2> TAKE m \in HHeads
  <2>1. \A i \in 1..Len(S[m]) : S[m][i] \in Nodes
    BY <1>1, Lengths
  <2> QED BY <2>1, ListAssumption DEF Fields
<1>3. g.to[l] = z /\ z \in Nodes \cup {NULL}
  <2>1. g.to[At(l, S[l], 0)] = Behind(S[l], 0) /\ At(l, S[l], 0) = l
    BY <1>1 DEF Chain, At
  <2> QED BY <2>1, <1>1, HThere
<1> HIDE DEF z
<1>4. f \in HHeaps /\ (\A a \in Fields : f.to[a] = IF a = l THEN NULL ELSE IF a = x THEN z ELSE g.to[a])
      /\ \A n \in Nodes : f.pprev[n] = IF n = z THEN x ELSE g.pprev[n]
  BY <1>1, <1>3, ListAssumption DEF hlist_move_list, PointBack, HHeaps, Fields
<1>5. Once(HHeads, U) /\ U[l] = <<>> /\ U[x] = S[l] /\ \A m \in HHeads \ {l, x} : U[m] = S[m]
  BY <1>1, OnceMoved
<1> HIDE DEF f, U
<1>6. Chain(f, l, U[l])
  <2>1. 0..Len(<<>>) = {0} /\ 1..Len(<<>>) = {}
    BY Empty
  <2>2. At(l, <<>>, 0) = l /\ Behind(<<>>, 0) = NULL /\ l \in Fields
    BY Empty DEF At, Behind, Fields
  <2> QED BY <2>1, <2>2, <1>4, <1>5 DEF Chain
<1>7. Chain(f, x, S[l])
  <2>1. ASSUME NEW i \in 0..N PROVE f.to[At(x, S[l], i)] = Behind(S[l], i)
    <3>1. CASE i = 0
      <4>1. At(x, S[l], i) = x /\ x \in Fields
        BY <3>1 DEF At, Fields
      <4> QED BY <3>1, <4>1, <1>4 DEF z
    <3>2. CASE i # 0
      <4>1. i \in 1..N /\ At(x, S[l], i) = S[l][i] /\ At(l, S[l], i) = S[l][i]
        BY <3>2 DEF At
      <4>2. g.to[At(l, S[l], i)] = Behind(S[l], i)
        BY <1>1 DEF Chain
      <4> QED BY <4>1, <4>2, <1>2, <1>4
    <3> QED BY <3>1, <3>2
  <2>2. ASSUME NEW i \in 1..N PROVE f.pprev[S[l][i]] = At(x, S[l], i - 1)
    <3>1. CASE i = 1
      <4>1. S[l][i] = z /\ At(x, S[l], i - 1) = x
        BY <3>1 DEF At, Behind, z
      <4> QED BY <4>1, <1>2, <1>4
    <3>2. CASE i # 1
      <4>1. i - 1 \in 1..N /\ 1 \in 1..N
        BY <3>2, <1>1
      <4>2. At(x, S[l], i - 1) = At(l, S[l], i - 1)
        BY <4>1 DEF At
      <4>3. S[l][i] # z
        <5>1. z = S[l][1]
          BY <4>1 DEF Behind, z
        <5> QED BY <3>2, <4>1, <5>1, <1>1 DEF Once
      <4>4. g.pprev[S[l][i]] = At(l, S[l], i - 1)
        BY <1>1 DEF Chain
      <4> QED BY <4>2, <4>3, <4>4, <1>2, <1>4
    <3> QED BY <3>1, <3>2
  <2> QED BY <2>1, <2>2 DEF Chain
<1>8. ASSUME NEW m \in HHeads \ {l, x} PROVE Chain(f, m, S[m])
  <2>1. ASSUME NEW i \in 0..Len(S[m]) PROVE f.to[At(m, S[m], i)] = Behind(S[m], i)
    <3>1. At(m, S[m], i) \in Fields \ {l, x}
      BY <1>2 DEF At, Fields
    <3>2. g.to[At(m, S[m], i)] = Behind(S[m], i)
      BY <1>1 DEF Chain
    <3> QED BY <3>1, <3>2, <1>4
  <2>2. ASSUME NEW i \in 1..Len(S[m]) PROVE f.pprev[S[m][i]] = At(m, S[m], i - 1)
    <3>1. S[m][i] # z
      BY <1>1, <1>2 DEF Behind, Once, z
    <3>2. g.pprev[S[m][i]] = At(m, S[m], i - 1)
      BY <1>1 DEF Chain
    <3> QED BY <3>1, <3>2, <1>2, <1>4
  <2> QED BY <2>1, <2>2 DEF Chain
<1>9. \A m \in HHeads : Chain(f, m, U[m])
  BY <1>5, <1>6, <1>7, <1>8
<1>10. ASSUME NEW n \in Nodes, Off(HHeads, U, n) PROVE f.pprev[n] = NULL
  <2>1. Off(HHeads, S, n)
    <3> SUFFICES ASSUME NEW m \in HHeads, NEW i \in 1..Len(S[m]) PROVE S[m][i] # n
      BY DEF Off
    <3>1. CASE m = x
      BY <3>1, Empty
    <3>2. CASE m = l
      BY <3>2, <1>5, <1>10 DEF Off
    <3>3. CASE m # x /\ m # l
      BY <3>3, <1>5, <1>10 DEF Off
    <3> QED BY <3>1, <3>2, <3>3
  <2>2. n # z
    BY <2>1, ListAssumption DEF Behind, Off, z
  <2> QED BY <2>1, <2>2, <1>4 DEF Chains
<1>11. Chains(f, U)
  BY <1>4, <1>5, <1>9, <1>10 DEF Chains
<1> QED BY <1>11 DEF f, U

-----------------------------------------------------------------------------
(* Every function of struct hlist_head.                                    *)

LEMMA HAddHead ==
    ASSUME NEW g, NEW S, Chains(g, S), NEW l \in HHeads, NEW x \in Nodes, Off(HHeads, S, x)
    PROVE  Chains(hlist_add_head(g, x, l), [S EXCEPT ![l] = Inserted(@, 0, x)])
<1> DEFINE f == hlist_add_head(g, x, l)
           p == At(l, S[l], 0)
           z == Behind(S[l], 0)
<1>1. g \in HHeaps /\ Once(HHeads, S) /\ Len(S[l]) \in Nat /\ Chain(g, l, S[l])
  BY Lengths DEF Chains
<1>2. 0 \in 0..Len(S[l]) /\ p = l /\ g.to[l] = z
  BY <1>1 DEF Chain, At
<1>3. z \in Nodes \cup {NULL} /\ l \in Fields /\ l \notin Nodes /\ x \in Fields
  <2>1. z \in Nodes \cup {NULL}
    BY <1>1, HThere
  <2> QED BY <2>1, ListAssumption DEF Fields
<1>4. z # x
  BY ListAssumption DEF Behind, Off
<1> HIDE DEF z, p
<1>5. f \in HHeaps
      /\ (\A a \in Fields : f.to[a] = IF a = p THEN x ELSE IF a = x THEN z ELSE g.to[a])
      /\ \A n \in Nodes : f.pprev[n] = IF n = x THEN p ELSE IF n = z THEN x ELSE g.pprev[n]
  BY <1>1, <1>2, <1>3, <1>4, ListAssumption DEF hlist_add_head, PointBack, HHeaps
<1> HIDE DEF f
<1>6. Chains(f, [S EXCEPT ![l] = Inserted(@, 0, x)])
  BY <1>2, <1>5, InsertChain DEF p, z
<1> QED BY <1>6 DEF f

(* An entry, its neighbours, and what points where.                        *)
LEMMA HEntry ==
    ASSUME NEW g, NEW S, Chains(g, S), NEW l \in HHeads, NEW k \in 1..Len(S[l])
    PROVE  /\ g \in HHeaps /\ S[l][k] \in Nodes /\ S[l][k] \in Fields /\ S[l][k] = At(l, S[l], k)
           /\ k - 1 \in 0..Len(S[l]) /\ k \in 0..Len(S[l])
           /\ g.pprev[S[l][k]] = At(l, S[l], k - 1) /\ At(l, S[l], k - 1) \in Fields
           /\ At(l, S[l], k - 1) # NULL /\ At(l, S[l], k - 1) # S[l][k]
           /\ g.to[S[l][k]] = Behind(S[l], k) /\ Behind(S[l], k) \in Nodes \cup {NULL}
           /\ Behind(S[l], k) # S[l][k] /\ S[l][k] = Behind(S[l], k - 1)
<1> DEFINE e == S[l][k]
           p == At(l, S[l], k - 1)
           z == Behind(S[l], k)
<1>1. g \in HHeaps /\ Once(HHeads, S) /\ Len(S[l]) \in Nat /\ Chain(g, l, S[l]) /\ \A i \in 1..Len(S[l]) : S[l][i] \in Nodes
  BY Lengths DEF Chains
<1>2. k - 1 \in 0..Len(S[l]) /\ k \in 0..Len(S[l]) /\ e = At(l, S[l], k) /\ e = Behind(S[l], k - 1)
  BY <1>1 DEF At, Behind
<1>3. g.pprev[e] = p /\ g.to[e] = z
  <2> HIDE DEF e
  <2>1. g.to[At(l, S[l], k)] = z
    BY <1>1, <1>2 DEF Chain
  <2> QED BY <2>1, <1>1, <1>2 DEF Chain, e
<1>4. p \in Fields /\ p # NULL /\ z \in Nodes \cup {NULL}
  BY <1>1, HThere
<1>5. p # e
  <2> DEFINE j == k - 1
  <2>1. j \in 0..Len(S[l]) /\ j # k
    BY <1>1, <1>2
  <2> HIDE DEF j
  <2>2. At(l, S[l], j) # At(l, S[l], k)
    BY <1>1, <1>2, <2>1, HForwards
  <2> QED BY <2>2, <1>2 DEF j
<1>6. z # e
  <2>1. k # k + 1
    BY <1>1
  <2> QED BY <2>1, <1>1, ListAssumption DEF Behind, Once
<1>7. e \in Nodes /\ e \in Fields
  BY <1>1 DEF Fields
<1> QED BY <1>1, <1>2, <1>3, <1>4, <1>5, <1>6, <1>7

LEMMA HAddBefore ==
    ASSUME NEW g, NEW S, Chains(g, S), NEW l \in HHeads, NEW k \in 1..Len(S[l]),
           NEW x \in Nodes, Off(HHeads, S, x)
    PROVE  Chains(hlist_add_before(g, x, S[l][k]), [S EXCEPT ![l] = Inserted(@, k - 1, x)])
<1> DEFINE e == S[l][k]
           j == k - 1
           p == At(l, S[l], k - 1)
           f == hlist_add_before(g, x, e)
<1>1. /\ g \in HHeaps /\ e \in Nodes /\ p \in Fields /\ g.pprev[e] = p /\ j \in 0..Len(S[l])
      /\ e = Behind(S[l], j)
  BY HEntry
<1>2. e # x /\ p # x /\ x \in Fields
  <2>1. Once(HHeads, S)
    BY DEF Chains
  <2> QED BY <2>1, HNot DEF Off, Fields
<1> HIDE DEF e, p
<1>3. f \in HHeaps
      /\ (\A a \in Fields : f.to[a] = IF a = p THEN x ELSE IF a = x THEN e ELSE g.to[a])
      /\ \A n \in Nodes : f.pprev[n] = IF n = x THEN p ELSE IF n = e THEN x ELSE g.pprev[n]
  BY <1>1, <1>2 DEF hlist_add_before, HHeaps
<1> HIDE DEF f
<1>4. p = At(l, S[l], j)
  BY DEF p
<1> HIDE DEF j
<1>5. Chains(f, [S EXCEPT ![l] = Inserted(@, j, x)])
  BY <1>1, <1>3, <1>4, InsertChain
<1> QED BY <1>5 DEF f, j, e

LEMMA HAddAfter ==
    ASSUME NEW g, NEW S, Chains(g, S), NEW l \in HHeads, NEW k \in 1..Len(S[l]),
           NEW x \in Nodes, Off(HHeads, S, x)
    PROVE  Chains(hlist_add_after(g, S[l][k], x), [S EXCEPT ![l] = Inserted(@, k, x)])
<1> DEFINE e == S[l][k]
           z == Behind(S[l], k)
           f == hlist_add_after(g, e, x)
<1>1. /\ g \in HHeaps /\ e \in Nodes /\ e \in Fields /\ z \in Nodes \cup {NULL} /\ g.to[e] = z
      /\ k \in 0..Len(S[l]) /\ e = At(l, S[l], k) /\ z # e
  BY HEntry
<1>2. e # x /\ z # x /\ x \in Fields
  BY ListAssumption DEF Off, Fields, Behind
<1> HIDE DEF e, z
<1>3. f \in HHeaps
      /\ (\A a \in Fields : f.to[a] = IF a = e THEN x ELSE IF a = x THEN z ELSE g.to[a])
      /\ \A n \in Nodes : f.pprev[n] = IF n = x THEN e ELSE IF n = z THEN x ELSE g.pprev[n]
  BY <1>1, <1>2, ListAssumption DEF hlist_add_after, PointBack, HHeaps
<1> HIDE DEF f
<1>4. Chains(f, [S EXCEPT ![l] = Inserted(@, k, x)])
  <2>1. (\A a \in Fields : f.to[a] = IF a = At(l, S[l], k) THEN x ELSE IF a = x THEN Behind(S[l], k) ELSE g.to[a])
        /\ \A n \in Nodes : f.pprev[n] = IF n = x THEN At(l, S[l], k) ELSE IF n = Behind(S[l], k) THEN x ELSE g.pprev[n]
    BY <1>1, <1>3, Zenon DEF z
  <2>2. f \in HHeaps /\ k \in 0..Len(S[l])
    BY <1>1, <1>3
  <2> QED BY <2>1, <2>2, InsertChain
<1> QED BY <1>4 DEF f, e

LEMMA HDelete ==
    ASSUME NEW g, NEW S, Chains(g, S), NEW l \in HHeads, NEW k \in 1..Len(S[l])
    PROVE  /\ Chains(hlist_del(g, S[l][k]), [S EXCEPT ![l] = Removed(@, k)])
           /\ Chains(hlist_del_init(g, S[l][k]), [S EXCEPT ![l] = Removed(@, k)])
<1> DEFINE e == S[l][k]
           p == At(l, S[l], k - 1)
           z == Behind(S[l], k)
           f == hlist_del(g, e)
<1>1. /\ g \in HHeaps /\ e \in Nodes /\ e \in Fields /\ g.pprev[e] = p /\ p \in Fields /\ p # NULL /\ p # e
      /\ g.to[e] = z /\ z \in Nodes \cup {NULL} /\ z # e
  BY HEntry
<1>2. hlist_del_init(g, e) = f
  <2> HIDE DEF e, p
  <2> QED BY <1>1 DEF hlist_del_init, hlist_unhashed, hlist_del
<1> HIDE DEF e, p, z
<1>3. f \in HHeaps
      /\ (\A a \in Fields : f.to[a] = IF a = p THEN z ELSE IF a = e THEN NULL ELSE g.to[a])
      /\ \A n \in Nodes : f.pprev[n] = IF n = e THEN NULL ELSE IF n = z THEN p ELSE g.pprev[n]
  BY <1>1, ListAssumption DEF hlist_del, HNode, HUnlink, PointBack, HHeaps
<1> HIDE DEF f
<1>4. Chains(f, [S EXCEPT ![l] = Removed(@, k)])
  <2>1. (\A a \in Fields : f.to[a] = IF a = At(l, S[l], k - 1) THEN Behind(S[l], k)
                                       ELSE IF a = S[l][k] THEN NULL ELSE g.to[a])
        /\ \A n \in Nodes : f.pprev[n] = IF n = S[l][k] THEN NULL
                                         ELSE IF n = Behind(S[l], k) THEN At(l, S[l], k - 1) ELSE g.pprev[n]
    BY <1>3, Zenon DEF e, p, z
  <2>2. f \in HHeaps
    BY <1>3
  <2> QED BY <2>1, <2>2, RemoveChain
<1> QED BY <1>2, <1>4 DEF f, e

-----------------------------------------------------------------------------
(* The chains of a state.                                                  *)

HListsIn(g) == [l \in HHeads |-> Walk(g.to, g.to[l])]

(* The hlists of a state, as module Lists sees them.                       *)
HNow == [l \in HHeads |-> HList(l)]

ChainInv == Chains(hheap, HListsIn(hheap))

LEMMA TheHLists ==
    ASSUME NEW g, NEW S, Chains(g, S)
    PROVE  HListsIn(g) = S /\ Chains(g, HListsIn(g))
<1>1. S \in [HHeads -> Seq(Nodes)]
  BY DEF Chains, Once
<1>2. ASSUME NEW l \in HHeads PROVE Walk(g.to, g.to[l]) = S[l]
  <2> DEFINE s == S[l]
             N == Len(s)
  <2>1. s \in Seq(Nodes) /\ N \in Nat /\ Chain(g, l, s) /\ (\A i \in 1..N : s[i] \in Nodes) /\ Once(HHeads, S)
    BY <1>1, Lengths DEF Chains
  <2>2. Single(s)
    BY <2>1 DEF Once, Single
  <2> HIDE DEF s, N
  <2>3. \A i \in 0..N : g.to[At(l, s, i)] = Behind(s, i)
    BY <2>1 DEF Chain, N
  <2>4. g.to[l] = IF Len(s) = 0 THEN NULL ELSE s[1]
    <3>1. 0 \in 0..N /\ At(l, s, 0) = l
      BY <2>1 DEF At
    <3>2. Behind(s, 0) = IF Len(s) = 0 THEN NULL ELSE s[1]
      BY <2>1 DEF Behind, N
    <3> QED BY <3>1, <3>2, <2>3
  <2>5. ASSUME NEW i \in 1..Len(s) PROVE g.to[s[i]] = IF i = Len(s) THEN NULL ELSE s[i + 1]
    <3>1. i \in 0..N /\ At(l, s, i) = s[i]
      BY <2>1 DEF At, N
    <3>2. Behind(s, i) = IF i = Len(s) THEN NULL ELSE s[i + 1]
      BY <2>1 DEF Behind, N
    <3> QED BY <3>1, <3>2, <2>3
  <2>6. NULL \notin Nodes
    BY ListAssumption
  <2>7. Walk(g.to, g.to[l]) = s
    BY <2>1, <2>2, <2>4, <2>5, <2>6, WalkIs
  <2> QED BY <2>7 DEF s
<1>3. HListsIn(g) = S
  BY <1>1, <1>2 DEF HListsIn
<1> QED BY <1>3

LEMMA HNowIs ==
    /\ HNow = HListsIn(hheap)
    /\ HNow' = HListsIn(hheap')
<1>1. HNow = HListsIn(hheap)
  BY DEF HNow, HList, HListsIn
<1>2. HNow' = HListsIn(hheap')
  BY DEF HNow, HList, HListsIn
<1> QED BY <1>1, <1>2

LEMMA HListing ==
    ASSUME ChainInv
    PROVE  /\ Chains(hheap, HNow) /\ Once(HHeads, HNow) /\ HNow \in [HHeads -> Seq(Nodes)]
           /\ \A n : ~HListed(n) <=> Off(HHeads, HNow, n)
           /\ \A n : ~HListed(n) <=> n \notin L!Busy(HNow)
           /\ \A l \in HHeads : HList(l) = HNow[l] /\ Len(HNow[l]) \in Nat
<1>1. Chains(hheap, HNow)
  BY HNowIs DEF ChainInv
<1>2. Once(HHeads, HNow) /\ HNow \in [HHeads -> Seq(Nodes)]
  BY <1>1 DEF Chains, Once
<1>3. \A l \in HHeads : HList(l) = HNow[l] /\ Len(HNow[l]) \in Nat /\ DOMAIN HNow[l] = 1..Len(HNow[l])
  <2> TAKE l \in HHeads
  <2>1. HNow[l] \in Seq(Nodes)
    BY <1>2
  <2> QED BY <2>1, LenProperties DEF HNow
<1>4. \A n : ~HListed(n) <=> Off(HHeads, HNow, n)
  BY <1>3 DEF HListed, Has, Off
<1>5. \A n : ~HListed(n) <=> n \notin L!Busy(HNow)
  <2> TAKE n
  <2>1. DOMAIN HNow = HHeads
    BY <1>2
  <2>2. n \in L!Busy(HNow) <=> \E l \in HHeads : \E i \in 1..Len(HNow[l]) : HNow[l][i] = n
    BY <1>3, <2>1 DEF L!Busy, L!On, L!ToSet
  <2> QED BY <1>4, <2>2 DEF Off
<1> QED BY <1>1, <1>2, <1>3, <1>4, <1>5

LEMMA InitChains == Init => ChainInv
<1> SUFFICES ASSUME Init PROVE ChainInv
  OBVIOUS
<1> DEFINE S == [l \in HHeads |-> <<>>]
<1>1. \A l \in HHeads : S[l] = <<>>
  OBVIOUS
<1>2. Once(HHeads, S)
  <2>1. S \in [HHeads -> Seq(Nodes)]
    BY Empty
  <2>2. \A l \in HHeads : 1..Len(S[l]) = {}
    BY Empty
  <2> HIDE DEF S
  <2> QED BY <2>1, <2>2 DEF Once
<1> HIDE DEF S
<1>3. hheap \in HHeaps /\ (\A n \in Nodes : hheap.pprev[n] = NULL) /\ \A a \in Fields : hheap.to[a] = NULL
  BY DEF Init, HHeaps
<1>4. ASSUME NEW l \in HHeads PROVE Chain(hheap, l, <<>>)
  <2>1. 0..Len(<<>>) = {0} /\ 1..Len(<<>>) = {}
    BY Empty
  <2>2. At(l, <<>>, 0) = l /\ Behind(<<>>, 0) = NULL /\ l \in Fields
    BY Empty DEF At, Behind, Fields
  <2> QED BY <2>1, <2>2, <1>3 DEF Chain
<1>5. Chains(hheap, S)
  BY <1>1, <1>2, <1>3, <1>4 DEF Chains
<1> QED BY <1>5, TheHLists DEF ChainInv

LEMMA ChainsPointBack == ChainInv => PointedBack
<1> SUFFICES ASSUME ChainInv PROVE PointedBack
  OBVIOUS
<1>1. Chains(hheap, HNow) /\ Once(HHeads, HNow)
  BY HListing
<1>2. ASSUME NEW f \in Fields, f \in Nodes => HListed(f), hheap.to[f] # NULL
      PROVE  hheap.pprev[hheap.to[f]] = f
  <2>1. \E l \in HHeads : \E i \in 0..Len(HNow[l]) : f = At(l, HNow[l], i)
    <3>1. CASE f \in Nodes
      <4>1. PICK l \in HHeads : \E i \in 1..Len(HNow[l]) : HNow[l][i] = f
        BY <1>2, <3>1, HListing DEF Off
      <4>2. PICK i \in 1..Len(HNow[l]) : HNow[l][i] = f
        BY <4>1
      <4>3. i \in 0..Len(HNow[l]) /\ f = At(l, HNow[l], i)
        BY <4>2, HListing DEF At
      <4> QED BY <4>3
    <3>2. CASE f \notin Nodes
      <4>1. f \in HHeads
        BY <3>2 DEF Fields
      <4>2. 0 \in 0..Len(HNow[f]) /\ f = At(f, HNow[f], 0)
        BY <4>1, HListing DEF At
      <4> QED BY <4>1, <4>2
    <3> QED BY <3>1, <3>2
  <2>2. PICK l \in HHeads : \E i \in 0..Len(HNow[l]) : f = At(l, HNow[l], i)
    BY <2>1
  <2>3. PICK i \in 0..Len(HNow[l]) : f = At(l, HNow[l], i)
    BY <2>2
  <2>4. Chain(hheap, l, HNow[l])
    BY <1>1 DEF Chains
  <2>5. hheap.to[f] = Behind(HNow[l], i)
    BY <2>3, <2>4 DEF Chain
  <2>6. i + 1 \in 1..Len(HNow[l]) /\ hheap.to[f] = HNow[l][i + 1]
    BY <1>2, <2>5 DEF Behind
  <2>7. hheap.pprev[HNow[l][i + 1]] = At(l, HNow[l], (i + 1) - 1)
    BY <2>4, <2>6 DEF Chain
  <2>8. (i + 1) - 1 = i
    OBVIOUS
  <2> QED BY <2>3, <2>6, <2>7, <2>8
<1>3. ASSUME NEW n \in Nodes PROVE HListed(n) <=> ~hlist_unhashed(hheap, n)
  <2>1. ASSUME HListed(n) PROVE hheap.pprev[n] # NULL
    <3>1. PICK l \in HHeads : \E i \in 1..Len(HNow[l]) : HNow[l][i] = n
      BY <2>1, HListing DEF Off
    <3>2. PICK i \in 1..Len(HNow[l]) : HNow[l][i] = n
      BY <3>1
    <3> QED BY <3>2, <1>1, HEntry
  <2>2. ASSUME ~HListed(n) PROVE hheap.pprev[n] = NULL
    BY <2>2, <1>1, HListing DEF Chains
  <2> QED BY <2>1, <2>2 DEF hlist_unhashed
<1> QED BY <1>2, <1>3 DEF PointedBack

(* Each call keeps the chains and does what module Lists promises.         *)
LEMMA HInsertIs ==
    ASSUME ChainInv, NEW l \in HHeads, NEW n \in Nodes, ~HListed(n), NEW k \in 0..Len(HNow[l]),
           Chains(hheap', [HNow EXCEPT ![l] = Inserted(@, k, n)])
    PROVE  ChainInv' /\ L!HAdd(n, l)
<1>1. HNow' = [HNow EXCEPT ![l] = Inserted(@, k, n)] /\ ChainInv'
  BY HNowIs, TheHLists DEF ChainInv
<1>2. HNow[l] \in Seq(Nodes) /\ n \notin L!Busy(HNow) /\ k + 1 \in 1..(Len(HNow[l]) + 1)
  BY HListing
<1>3. L!InsertAt(HNow[l], k + 1, n) = Inserted(HNow[l], k, n)
  <2>1. L!InsertAt(HNow[l], k + 1, n) = InsertAt(HNow[l], k + 1, n)
    BY DEF L!InsertAt, InsertAt
  <2>2. InsertAt(HNow[l], k + 1, n) = Inserted(HNow[l], k, n)
    BY <1>2, InsertedIs
  <2> QED BY <2>1, <2>2
<1>4. HNow' = [HNow EXCEPT ![l] = L!InsertAt(@, k + 1, n)]
  BY <1>1, <1>3
<1>5. L!HAdd(n, l)
  BY <1>2, <1>4, Zenon DEF L!HAdd, HNow
<1> QED BY <1>1, <1>5

LEMMA HAddStep ==
    ASSUME ChainInv, NEW n \in Nodes, HAddEntry(n)
    PROVE  ChainInv' /\ \E l \in HHeads : L!HAdd(n, l)
<1>1. ~HListed(n) /\ Off(HHeads, HNow, n) /\ Chains(hheap, HNow)
  BY HListing DEF HAddEntry
<1>2. ASSUME NEW l \in HHeads, hheap' = hlist_add_head(hheap, n, l)
      PROVE  ChainInv' /\ L!HAdd(n, l)
  <2>1. Chains(hheap', [HNow EXCEPT ![l] = Inserted(@, 0, n)])
    BY <1>1, <1>2, HAddHead
  <2>2. 0 \in 0..Len(HNow[l])
    BY HListing
  <2> QED BY <1>1, <2>1, <2>2, HInsertIs
<1>3. ASSUME NEW m \in Nodes, HListed(m), hheap' = hlist_add_before(hheap, n, m)
      PROVE  ChainInv' /\ \E l \in HHeads : L!HAdd(n, l)
  <2>1. PICK l \in HHeads : \E k \in 1..Len(HNow[l]) : HNow[l][k] = m
    BY <1>3, HListing DEF Off
  <2>2. PICK k \in 1..Len(HNow[l]) : HNow[l][k] = m
    BY <2>1
  <2> DEFINE j == k - 1
  <2>3. Chains(hheap', [HNow EXCEPT ![l] = Inserted(@, j, n)])
    BY <1>1, <1>3, <2>2, HAddBefore
  <2>4. j \in 0..Len(HNow[l])
    BY HListing
  <2> HIDE DEF j
  <2>5. ChainInv' /\ L!HAdd(n, l)
    BY <1>1, <2>3, <2>4, HInsertIs
  <2> QED BY <2>5
<1>4. ASSUME NEW m \in Nodes, HListed(m), hheap' = hlist_add_after(hheap, m, n)
      PROVE  ChainInv' /\ \E l \in HHeads : L!HAdd(n, l)
  <2>1. PICK l \in HHeads : \E k \in 1..Len(HNow[l]) : HNow[l][k] = m
    BY <1>4, HListing DEF Off
  <2>2. PICK k \in 1..Len(HNow[l]) : HNow[l][k] = m
    BY <2>1
  <2>3. Chains(hheap', [HNow EXCEPT ![l] = Inserted(@, k, n)])
    BY <1>1, <1>4, <2>2, HAddAfter
  <2>4. k \in 0..Len(HNow[l])
    BY HListing
  <2>5. ChainInv' /\ L!HAdd(n, l)
    BY <1>1, <2>3, <2>4, HInsertIs
  <2> QED BY <2>5
<1> QED BY <1>2, <1>3, <1>4 DEF HAddEntry

LEMMA HDeleteStep ==
    ASSUME ChainInv, NEW n \in Nodes, HDeleteEntry(n)
    PROVE  ChainInv' /\ (HNow' = HNow \/ L!HDelete(n))
<1>1. Chains(hheap, HNow) /\ HNow \in [HHeads -> Seq(Nodes)]
  BY HListing
<1>2. CASE HListed(n)
  <2>1. PICK l \in HHeads : \E k \in 1..Len(HNow[l]) : HNow[l][k] = n
    BY <1>2, HListing DEF Off
  <2>2. PICK k \in 1..Len(HNow[l]) : HNow[l][k] = n
    BY <2>1
  <2> DEFINE U == [HNow EXCEPT ![l] = Removed(@, k)]
  <2>3. Chains(hlist_del(hheap, n), U) /\ Chains(hlist_del_init(hheap, n), U)
    BY <1>1, <2>2, HDelete
  <2>4. U = L!TakenOut(HNow, l, k)
    BY <1>1, TakenOutIs
  <2> HIDE DEF U
  <2>5. Chains(hheap', U)
    BY <2>3 DEF HDeleteEntry
  <2>6. HNow' = L!TakenOut(HNow, l, k) /\ ChainInv'
    BY <2>4, <2>5, HNowIs, TheHLists DEF ChainInv
  <2>7. L!HDelete(n)
    BY <2>2, <2>6 DEF L!HDelete, HNow
  <2> QED BY <2>6, <2>7
<1>3. CASE ~HListed(n)
  <2>1. hheap.pprev[n] = NULL
    BY <1>1, <1>3, HListing DEF Chains
  <2>2. hheap' = hheap
    BY <1>3, <2>1 DEF HDeleteEntry, hlist_del_init, hlist_unhashed
  <2> QED BY <2>2, <1>1, HNowIs, TheHLists DEF ChainInv
<1> QED BY <1>2, <1>3

LEMMA HMoveStep ==
    ASSUME ChainInv, NEW l \in HHeads, NEW x \in HHeads, HMoveList(l, x)
    PROVE  ChainInv' /\ L!HMove(l, x)
<1>1. Chains(hheap, HNow) /\ l # x /\ HNow[x] = <<>>
  BY HListing DEF HMoveList
<1>2. Chains(hheap', [HNow EXCEPT ![l] = <<>>, ![x] = HNow[l]])
  BY <1>1, MoveChain DEF HMoveList
<1>3. HNow' = [HNow EXCEPT ![l] = <<>>, ![x] = HNow[l]] /\ ChainInv'
  BY <1>2, HNowIs, TheHLists DEF ChainInv
<1>4. L!HMove(l, x)
  BY <1>1, <1>3 DEF L!HMove, HNow
<1> QED BY <1>3, <1>4

-----------------------------------------------------------------------------
(* Every step of a specification.                                          *)

ListInv == RingInv /\ ChainInv

LEMMA ListSteps ==
    ASSUME ListInv, [Next]_vars
    PROVE  ListInv' /\ [L!Next]_<<Now, HNow>>
<1>1. CASE UNCHANGED vars
  <2>1. heap' = heap /\ hheap' = hheap /\ inited' = inited
    BY <1>1 DEF vars
  <2>2. Now' = Now /\ HNow' = HNow
    BY <2>1, NowIs, HNowIs
  <2>3. ListInv'
    BY <2>1 DEF ListInv, RingInv, ChainInv
  <2> QED BY <2>2, <2>3
<1>2. ASSUME UNCHANGED hheap,
             \/ \E l \in Heads : InitHead(l) \/ RotateList(l)
             \/ \E n \in Nodes :
                   AddEntry(n) \/ DeleteEntry(n) \/ ReplaceEntry(n) \/ MoveEntry(n)
             \/ \E l, k \in Heads : ReplaceHead(l, k) \/ CutList(l, k) \/ SpliceList(l, k)
      PROVE  ListInv' /\ [L!Next]_<<Now, HNow>>
  <2>1. HNow' = HNow /\ ChainInv'
    BY <1>2, HNowIs DEF ListInv, ChainInv
  <2>2. ASSUME RingInv', Now' = Now
        PROVE  ListInv' /\ [L!Next]_<<Now, HNow>>
    BY <2>1, <2>2 DEF ListInv
  <2>3. ASSUME RingInv',
               \/ \E n \in Nodes, l \in Heads : L!Add(n, l) \/ L!Move(n, l)
               \/ \E n \in Nodes : L!Delete(n)
               \/ \E n, m \in Nodes : L!Replace(n, m)
               \/ \E l \in Heads : L!Rotate(l)
               \/ \E l, h \in Heads : L!Cut(l, h) \/ L!Join(l, h)
        PROVE  ListInv' /\ [L!Next]_<<Now, HNow>>
    <3>1. L!Next
      BY <2>1, <2>3, Zenon DEF L!Next, HNow
    <3> QED BY <2>1, <2>3, <3>1 DEF ListInv
  <2>4. ASSUME NEW l \in Heads, InitHead(l) PROVE ListInv' /\ [L!Next]_<<Now, HNow>>
    BY <2>2, <2>4, InitHeadStep DEF ListInv
  <2>5. ASSUME NEW l \in Heads, RotateList(l) PROVE ListInv' /\ [L!Next]_<<Now, HNow>>
    BY <2>2, <2>3, <2>5, RotateStep DEF ListInv
  <2>6. ASSUME NEW n \in Nodes, AddEntry(n) PROVE ListInv' /\ [L!Next]_<<Now, HNow>>
    BY <2>3, <2>6, AddStep DEF ListInv
  <2>7. ASSUME NEW n \in Nodes, DeleteEntry(n) PROVE ListInv' /\ [L!Next]_<<Now, HNow>>
    BY <2>3, <2>7, DeleteStep DEF ListInv
  <2>8. ASSUME NEW n \in Nodes, ReplaceEntry(n) PROVE ListInv' /\ [L!Next]_<<Now, HNow>>
    BY <2>3, <2>8, ReplaceStep DEF ListInv
  <2>9. ASSUME NEW n \in Nodes, MoveEntry(n) PROVE ListInv' /\ [L!Next]_<<Now, HNow>>
    BY <2>3, <2>9, MoveStep DEF ListInv
  <2>10. ASSUME NEW l \in Heads, NEW k \in Heads, ReplaceHead(l, k)
         PROVE  ListInv' /\ [L!Next]_<<Now, HNow>>
    BY <2>3, <2>10, ReplaceHeadStep DEF ListInv
  <2>11. ASSUME NEW l \in Heads, NEW k \in Heads, CutList(l, k)
         PROVE  ListInv' /\ [L!Next]_<<Now, HNow>>
    BY <2>2, <2>3, <2>11, CutStep DEF ListInv
  <2>12. ASSUME NEW l \in Heads, NEW k \in Heads, SpliceList(l, k)
         PROVE  ListInv' /\ [L!Next]_<<Now, HNow>>
    BY <2>2, <2>3, <2>12, SpliceStep DEF ListInv
  <2> QED BY <1>2, <2>4, <2>5, <2>6, <2>7, <2>8, <2>9, <2>10, <2>11, <2>12
<1>3. ASSUME UNCHANGED <<heap, inited>>,
             \/ \E n \in Nodes : HAddEntry(n) \/ HDeleteEntry(n)
             \/ \E l, k \in HHeads : HMoveList(l, k)
      PROVE  ListInv' /\ [L!Next]_<<Now, HNow>>
  <2>1. Now' = Now /\ RingInv'
    BY <1>3, NowIs DEF ListInv, RingInv
  <2>2. ASSUME ChainInv', HNow' = HNow
        PROVE  ListInv' /\ [L!Next]_<<Now, HNow>>
    BY <2>1, <2>2 DEF ListInv
  <2>3. ASSUME ChainInv',
               \/ \E n \in Nodes, l \in HHeads : L!HAdd(n, l)
               \/ \E n \in Nodes : L!HDelete(n)
               \/ \E l, h \in HHeads : L!HMove(l, h)
        PROVE  ListInv' /\ [L!Next]_<<Now, HNow>>
    <3>1. L!Next
      BY <2>1, <2>3, Zenon DEF L!Next, Now
    <3> QED BY <2>1, <2>3, <3>1 DEF ListInv
  <2>4. ASSUME NEW n \in Nodes, HAddEntry(n) PROVE ListInv' /\ [L!Next]_<<Now, HNow>>
    BY <2>3, <2>4, HAddStep DEF ListInv
  <2>5. ASSUME NEW n \in Nodes, HDeleteEntry(n) PROVE ListInv' /\ [L!Next]_<<Now, HNow>>
    BY <2>2, <2>3, <2>5, HDeleteStep DEF ListInv
  <2>6. ASSUME NEW l \in HHeads, NEW k \in HHeads, HMoveList(l, k)
        PROVE  ListInv' /\ [L!Next]_<<Now, HNow>>
    BY <2>3, <2>6, HMoveStep DEF ListInv
  <2> QED BY <1>3, <2>4, <2>5, <2>6
<1> QED BY <1>1, <1>2, <1>3 DEF Next

(* The pointers always make rings and chains of entries that are on one    *)
(* list at most, whatever calls a program makes in whatever order: the     *)
(* inductive invariant of include/list.h.                                  *)
THEOREM ListInvariance == Spec => []ListInv
<1>1. Init => ListInv
  BY InitRings, InitChains DEF ListInv
<1>2. ListInv /\ [Next]_vars => ListInv'
  BY ListSteps
<1> QED BY <1>1, <1>2, PTL DEF Spec

(* Every list is a ring that closes, and is the same ring backwards, so    *)
(* that list_add_tail and list_del follow a prev to the right neighbour.   *)
THEOREM RingsCorrect == Spec => []RingsClose
<1>1. ListInv => RingsClose
  BY RingsAreClosed DEF ListInv
<1> QED BY <1>1, ListInvariance, PTL

(* The pprev of an entry is the one field that points at it, and it has    *)
(* one exactly while it is on a list.                                      *)
THEOREM PointedBackCorrect == Spec => []PointedBack
<1>1. ListInv => PointedBack
  BY ChainsPointBack DEF ListInv
<1> QED BY <1>1, ListInvariance, PTL

(* The functions of include/list.h, pointer by pointer, do what module     *)
(* Lists promises of them: add, delete, replace, move, rotate, cut and     *)
(* join sequences of entries.                                              *)
THEOREM ListsRefine == Spec => ListSpec
<1>1. Init => L!Init
  <2> SUFFICES ASSUME Init PROVE L!Init
    OBVIOUS
  <2>1. Now = [l \in Heads |-> <<>>]
    BY DEF Now, List, Init
  <2>2. HNow = [l \in HHeads |-> <<>>]
    <3>1. ChainInv
      BY InitChains
    <3>2. \A l \in HHeads : HNow[l] = <<>>
      <4> TAKE l \in HHeads
      <4>1. HNow[l] \in Seq(Nodes) /\ Len(HNow[l]) \in Nat /\ Chain(hheap, l, HNow[l])
        BY <3>1, HListing DEF Chains
      <4>2. hheap.to[l] = NULL
        BY DEF Init, Fields
      <4>3. Len(HNow[l]) = 0
        <5> SUFFICES ASSUME Len(HNow[l]) # 0 PROVE FALSE
          OBVIOUS
        <5>1. 0 \in 0..Len(HNow[l]) /\ At(l, HNow[l], 0) = l /\ 0 + 1 \in 1..Len(HNow[l]) /\ 1 \in 1..Len(HNow[l])
          BY <4>1 DEF At
        <5>2. hheap.to[l] = HNow[l][1]
          BY <4>1, <5>1 DEF Chain, Behind
        <5>3. HNow[l][1] \in Nodes
          BY <4>1, <5>1, ElementOfSeq
        <5> QED BY <4>2, <5>2, <5>3, ListAssumption
      <4> QED BY <4>1, <4>3, EmptyLength
    <3>3. HNow = [l \in HHeads |-> HNow[l]]
      BY DEF HNow
    <3> QED BY <3>2, <3>3
  <2> QED BY <2>1, <2>2 DEF L!Init, Now, HNow
<1>2. ListInv /\ [Next]_vars => [L!Next]_<<Now, HNow>>
  BY ListSteps
<1>3. [L!Next]_<<Now, HNow>> => [L!Next]_<<[l \in Heads |-> List(l)], [l \in HHeads |-> HList(l)]>>
  BY DEF Now, HNow
<1> QED BY <1>1, <1>2, <1>3, ListInvariance, PTL DEF Spec, ListSpec, L!Spec
=============================================================================
