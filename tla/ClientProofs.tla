----------------------------- MODULE ClientProofs -----------------------------
(***************************************************************************)
(* Theorems about what the client of Client sends, what it receives and    *)
(* how its panels follow, for any number of threads, packets, names and    *)
(* members.                                                                *)
(***************************************************************************)
EXTENDS Client, SequenceTheorems, WellFoundedInduction, TLAPS

-----------------------------------------------------------------------------
(* Sequences, of numbers most of them.                                     *)

(* A set of numbers has a least one: it stands for induction.              *)
LEMMA LeastExists ==
    ASSUME NEW T \in SUBSET Nat, T # {}
    PROVE  \E m \in T : \A k \in T : m <= k
<1> DEFINE R == OpToRel(<, Nat)
<1>1. IsWellFoundedOn(R, Nat)
  BY NatLessThanWellFounded
<1>2. PICK m \in T : \A k \in T : ~ (<<k, m>> \in R)
  <2> HIDE DEF R
  <2> QED BY <1>1, WFMin
<1>3. \A k \in T : ~(k < m)
  <2> TAKE k \in T
  <2>1. ~ (<<k, m>> \in R)
    BY <1>2
  <2> QED BY <2>1 DEF OpToRel
<1> HIDE DEF R
<1> QED BY <1>2, <1>3

LEMMA ElementsOfBoth ==
    ASSUME NEW S, NEW a \in Seq(S), NEW b \in Seq(S)
    PROVE  /\ a \o b \in Seq(S)
           /\ Elements(a \o b) = Elements(a) \cup Elements(b)
<1> DEFINE s == a \o b
<1>1. s \in Seq(S) /\ Len(s) = Len(a) + Len(b)
      /\ Len(a) \in Nat /\ Len(b) \in Nat
      /\ \A i \in 1..Len(s) : s[i] = IF i <= Len(a) THEN a[i] ELSE b[i - Len(a)]
  BY ConcatProperties, LenProperties
<1>0. \A i \in 1..Len(b) : s[Len(a) + i] = b[i]
  <2>1. \A i \in 1..Len(s) : s[i] = IF i <= Len(a) THEN a[i] ELSE b[i - Len(a)]
    BY <1>1
  <2> QED BY <2>1, <1>1
<1> HIDE DEF s
<1>2. Elements(s) \subseteq Elements(a) \cup Elements(b)
  <2> SUFFICES ASSUME NEW i \in 1..Len(s)
               PROVE  s[i] \in Elements(a) \cup Elements(b)
    BY DEF Elements
  <2>1. CASE i <= Len(a)
    BY <2>1, <1>1, LenProperties DEF Elements
  <2>2. CASE ~(i <= Len(a))
    <3>1. i - Len(a) \in 1..Len(b) /\ s[i] = b[i - Len(a)]
      BY <2>2, <1>1, LenProperties
    <3> QED BY <3>1 DEF Elements
  <2> QED BY <2>1, <2>2
<1>3. ASSUME NEW i \in 1..Len(a) PROVE a[i] \in Elements(s)
  <2>1. i \in 1..Len(s) /\ s[i] = a[i]
    BY <1>1, LenProperties
  <2> QED BY <2>1 DEF Elements
<1>4. ASSUME NEW i \in 1..Len(b) PROVE b[i] \in Elements(s)
  <2>1. Len(a) + i \in 1..Len(s)
    BY <1>1
  <2> QED BY <2>1, <1>0 DEF Elements
<1>5. Elements(a) \cup Elements(b) \subseteq Elements(s)
  BY <1>3, <1>4 DEF Elements
<1> QED BY <1>1, <1>2, <1>5 DEF s

LEMMA ElementsOfConcat ==
    ASSUME NEW a \in Seq(Nat), NEW b \in Seq(Nat)
    PROVE  /\ a \o b \in Seq(Nat)
           /\ Elements(a \o b) = Elements(a) \cup Elements(b)
  BY ElementsOfBoth

LEMMA IncreasingConcat ==
    ASSUME NEW a \in Seq(Nat), NEW b \in Seq(Nat)
    PROVE  Increasing(a \o b) <=>
              /\ Increasing(a) /\ Increasing(b)
              /\ \A x \in Elements(a), y \in Elements(b) : x < y
<1> DEFINE s == a \o b
<1>0. Len(s) = Len(a) + Len(b) /\ Len(a) \in Nat /\ Len(b) \in Nat
  BY ConcatProperties, LenProperties
<1>1. s \in Seq(Nat) /\ Len(s) = Len(a) + Len(b)
      /\ Len(a) \in Nat /\ Len(b) \in Nat
      /\ (\A i \in 1..Len(a) : s[i] = a[i])
      /\ (\A i \in 1..Len(b) : s[Len(a) + i] = b[i])
  <2>1. \A i \in 1..Len(s) : s[i] = IF i <= Len(a) THEN a[i] ELSE b[i - Len(a)]
    BY ConcatProperties
  <2>2. s \in Seq(Nat) /\ Len(s) = Len(a) + Len(b) /\ Len(a) \in Nat /\ Len(b) \in Nat
    BY ConcatProperties, LenProperties
  <2> QED BY <2>1, <2>2
<1> HIDE DEF s
<1>2. ASSUME Increasing(s)
      PROVE  Increasing(a) /\ Increasing(b)
             /\ \A x \in Elements(a), y \in Elements(b) : x < y
  <2>1. Increasing(a)
    BY <1>1, <1>2 DEF Increasing
  <2>2. ASSUME NEW i \in 1..Len(b), NEW j \in 1..Len(b), i < j PROVE b[i] < b[j]
    <3>0. Len(s) = Len(a) + Len(b) /\ Len(a) \in Nat /\ Len(b) \in Nat
      BY <1>1
    <3>1. Len(a) + i \in 1..Len(s) /\ Len(a) + j \in 1..Len(s)
          /\ Len(a) + i < Len(a) + j
      BY <3>0, <2>2
    <3>2. s[Len(a) + i] < s[Len(a) + j]
      BY <3>1, <1>2 DEF Increasing
    <3> QED BY <3>2, <1>1
  <2>3. ASSUME NEW i \in 1..Len(a), NEW j \in 1..Len(b) PROVE a[i] < b[j]
    <3>1. i \in 1..Len(s) /\ Len(a) + j \in 1..Len(s) /\ i < Len(a) + j
      BY <1>0
    <3>2. s[i] < s[Len(a) + j]
      BY <3>1, <1>2 DEF Increasing
    <3> QED BY <3>2, <1>1
  <2> QED BY <2>1, <2>2, <2>3 DEF Increasing, Elements
<1>3. ASSUME Increasing(a), Increasing(b),
             \A x \in Elements(a), y \in Elements(b) : x < y
      PROVE  Increasing(s)
  <2> SUFFICES ASSUME NEW i \in 1..Len(s), NEW j \in 1..Len(s), i < j PROVE s[i] < s[j]
    BY DEF Increasing
  <2>1. CASE j <= Len(a)
    <3>1. i \in 1..Len(a) /\ j \in 1..Len(a)
      BY <2>1, <1>0
    <3>2. a[i] < a[j]
      BY <3>1, <1>3 DEF Increasing
    <3> QED BY <3>1, <3>2, <1>1
  <2>2. CASE i <= Len(a) /\ ~(j <= Len(a))
    <3> DEFINE y == j - Len(a)
    <3>1. i \in 1..Len(a) /\ y \in 1..Len(b) /\ Len(a) + y = j
      BY <2>2, <1>1
    <3> HIDE DEF y
    <3>2. s[i] = a[i] /\ s[j] = b[y]
      BY <3>1, <1>1
    <3>3. a[i] \in Elements(a) /\ b[y] \in Elements(b)
      BY <3>1 DEF Elements
    <3> QED BY <3>2, <3>3, <1>3
  <2>3. CASE ~(i <= Len(a))
    <3> DEFINE x == i - Len(a)
               y == j - Len(a)
    <3>1. x \in 1..Len(b) /\ y \in 1..Len(b) /\ x < y
          /\ Len(a) + x = i /\ Len(a) + y = j
      BY <2>3, <1>1
    <3> HIDE DEF x, y
    <3>2. s[i] = b[x] /\ s[j] = b[y]
      BY <3>1, <1>1
    <3> QED BY <3>1, <3>2, <1>3 DEF Increasing
  <2> QED BY <2>1, <2>2, <2>3, <1>1
<1> QED BY <1>2, <1>3 DEF s

(* What goes out and what stays behind are what there was.                 *)
LEMMA CutParts ==
    ASSUME NEW T, NEW q \in Seq(T), NEW k \in 0..Len(q)
    PROVE  /\ SubSeq(q, 1, k) \in Seq(T) /\ SubSeq(q, k + 1, Len(q)) \in Seq(T)
           /\ SubSeq(q, 1, k) \o SubSeq(q, k + 1, Len(q)) = q
<1>1. \A i \in 1..k : q[i] \in T
  BY ElementOfSeq, LenProperties
<1>2. \A i \in (k + 1)..Len(q) : q[i] \in T
  BY ElementOfSeq, LenProperties
<1>3. k \in Nat /\ Len(q) \in Nat
  BY LenProperties
<1>4. SubSeq(q, 1, k) \in Seq(T) /\ SubSeq(q, k + 1, Len(q)) \in Seq(T)
  BY <1>1, <1>2, <1>3, SubSeqProperties
<1>5. 1 \in 1..(Len(q) + 1) /\ k \in (1 - 1)..Len(q) /\ Len(q) \in k..Len(q)
  BY LenProperties
<1>6. SubSeq(q, 1, k) \o SubSeq(q, k + 1, Len(q)) = SubSeq(q, 1, Len(q))
  BY <1>5, ConcatAdjacentSubSeq, Zenon
<1>7. SubSeq(q, 1, Len(q)) = q
  BY SubSeqFull, Zenon
<1> QED BY <1>4, <1>6, <1>7

LEMMA Associative ==
    ASSUME NEW w \in Seq(Nat), NEW a \in Seq(Nat), NEW b \in Seq(Nat)
    PROVE  (w \o a) \o b = w \o (a \o b)
BY ConcatAssociative, SMTT(60)

LEMMA CutInTwo ==
    ASSUME NEW w \in Seq(Nat), NEW q \in Seq(Nat), NEW k \in 0..Len(q)
    PROVE  /\ w \o SubSeq(q, 1, k) \in Seq(Nat) /\ SubSeq(q, k + 1, Len(q)) \in Seq(Nat)
           /\ (w \o SubSeq(q, 1, k)) \o SubSeq(q, k + 1, Len(q)) = w \o q
<1>1. SubSeq(q, 1, k) \in Seq(Nat) /\ SubSeq(q, k + 1, Len(q)) \in Seq(Nat)
      /\ SubSeq(q, 1, k) \o SubSeq(q, k + 1, Len(q)) = q
  BY CutParts, ZenonT(30)
<1>2. ASSUME NEW a \in Seq(Nat), NEW b \in Seq(Nat)
      PROVE  w \o a \in Seq(Nat) /\ (w \o a) \o b = w \o (a \o b)
  <2>1. w \o a \in Seq(Nat)
    BY ConcatProperties
  <2>2. (w \o a) \o b = w \o (a \o b)
    BY Associative, ZenonT(30)
  <2> QED BY <2>1, <2>2
<1> DEFINE l == SubSeq(q, 1, k)
           r == SubSeq(q, k + 1, Len(q))
<1>3. l \in Seq(Nat) /\ r \in Seq(Nat) /\ l \o r = q
  BY <1>1
<1> HIDE DEF l, r
<1>4. w \o l \in Seq(Nat) /\ (w \o l) \o r = w \o q
  BY <1>2, <1>3
<1> QED BY <1>3, <1>4 DEF l, r

LEMMA ConcatAgain ==
    ASSUME NEW a \in Seq(Nat), NEW b \in Seq(Nat), NEW c \in Seq(Nat)
    PROVE  (a \o b) \o c = a \o (b \o c)
BY Associative, ZenonT(30)

LEMMA AppendOf ==
    ASSUME NEW S, NEW s \in Seq(S), NEW m
    PROVE  /\ Append(s, m) \in Seq(S \cup {m})
           /\ Len(Append(s, m)) = Len(s) + 1
           /\ \A k \in 1..Len(s) : Append(s, m)[k] = s[k]
           /\ Append(s, m)[Len(s) + 1] = m
<1>1. s \in Seq(S \cup {m})
  BY SeqMonotonic
<1> QED BY <1>1, AppendProperties

-----------------------------------------------------------------------------
(* What is on its way out.                                                 *)

(* All that thread t has taken, sent or not.                               *)
Lane(t) == wire[t] \o outq[t]

OutType ==
    /\ need \in Seq(Nat)
    /\ wire \in [Threads -> Seq(Nat)]
    /\ outq \in [Threads -> Seq(Nat)]
    /\ \E S : asked \in Seq(S)

(* OutOnceInOrder, in parts.                                               *)
OutInv ==
    /\ Increasing(need)
    /\ \A t \in Threads : Increasing(Lane(t))
    /\ \A t \in Threads : \A x \in Elements(Lane(t)), y \in Elements(need) : x < y
    /\ \A t, u \in Threads : t # u => Elements(Lane(t)) \cap Elements(Lane(u)) = {}
    /\ Elements(need) \cup UNION {Elements(Lane(t)) : t \in Threads} = 1..Len(asked)

IInv == OutType /\ OutInv

LEMMA LaneType == ASSUME OutType, NEW t \in Threads PROVE Lane(t) \in Seq(Nat)
  BY ConcatProperties DEF OutType, Lane

LEMMA OutIs == ASSUME IInv PROVE OutOnceInOrder
<1>1. ASSUME NEW t \in Threads PROVE Increasing(Lane(t) \o need)
  BY LaneType, IncreasingConcat DEF IInv, OutType, OutInv
<1>2. ASSUME NEW t \in Threads PROVE wire[t] \o outq[t] \o need = Lane(t) \o need
  BY DEF Lane
<1> QED BY <1>1, <1>2 DEF OutOnceInOrder, IInv, OutInv, Lane

-----------------------------------------------------------------------------
(* A step queues a packet, or moves what waits to one lane, or neither.    *)

SameLanes == \A t \in Threads : Lane(t)' = Lane(t)

Rest == asked' = asked /\ need' = need /\ SameLanes

Queued == SameLanes /\ \E m : Queue(m)

Taken(t) ==
    /\ asked' = asked /\ need' = <<>>
    /\ Lane(t)' = Lane(t) \o need
    /\ \A u \in Threads \ {t} : Lane(u)' = Lane(u)

LEMMA RestKeeps == ASSUME IInv, OutType', Rest PROVE IInv'
  BY DEF IInv, OutInv, Rest, SameLanes

LEMMA QueuedKeeps == ASSUME IInv, OutType', Queued PROVE IInv'
<1>1. PICK m : Queue(m)
  BY DEF Queued
<1> DEFINE n == Len(asked) + 1
<1>2. n \in Nat /\ Len(asked) \in Nat /\ Len(asked)' = n
  BY <1>1, AppendOf, LenProperties DEF IInv, OutType, Queue
<1>3. need \in Seq(Nat) /\ need' = need \o <<n>> /\ <<n>> \in Seq(Nat)
  BY <1>1, <1>2, AppendIsConcat DEF IInv, OutType, Queue
<1> HIDE DEF n
<1>4. Elements(<<n>>) = {n} /\ Increasing(<<n>>)
  BY DEF Elements, Increasing
<1>5. \A t \in Threads : Lane(t)' = Lane(t)
  BY DEF Queued, SameLanes
<1>6. Elements(need') = Elements(need) \cup {n}
  BY <1>3, <1>4, ElementsOfConcat
<1>7. \A x \in Elements(need) \cup UNION {Elements(Lane(t)) : t \in Threads} : x < n
  BY <1>2 DEF IInv, OutInv, n
<1>8. Increasing(need')
  <2> DEFINE e == <<n>>
  <2>1. /\ need \in Seq(Nat) /\ e \in Seq(Nat) /\ Increasing(need) /\ Increasing(e)
        /\ \A x \in Elements(need), y \in Elements(e) : x < y
    BY <1>3, <1>4, <1>7 DEF IInv, OutInv
  <2> HIDE DEF e
  <2>2. Increasing(need \o e)
    BY <2>1, IncreasingConcat
  <2> QED BY <2>2, <1>3 DEF e
<1>9. ASSUME NEW t \in Threads PROVE \A x \in Elements(Lane(t)), y \in Elements(need') : x < y
  BY <1>6, <1>7 DEF IInv, OutInv
<1>10. Elements(need') \cup UNION {Elements(Lane(t)) : t \in Threads} = 1..Len(asked)'
  <2>1. Elements(need) \cup UNION {Elements(Lane(t)) : t \in Threads} = 1..Len(asked)
    BY DEF IInv, OutInv
  <2>2. 1..Len(asked)' = (1..Len(asked)) \cup {n}
    BY <1>2 DEF n
  <2> QED BY <2>1, <2>2, <1>6
<1>11. OutInv'
  BY <1>5, <1>8, <1>9, <1>10 DEF IInv, OutInv
<1> QED BY <1>11 DEF IInv

LEMMA TakenKeeps == ASSUME IInv, OutType', NEW t \in Threads, Taken(t) PROVE IInv'
<1>1. need \in Seq(Nat) /\ Lane(t) \in Seq(Nat)
  BY LaneType DEF IInv, OutType
<1>2. Elements(Lane(t)') = Elements(Lane(t)) \cup Elements(need)
  BY <1>1, ElementsOfConcat DEF Taken
<1>3. need' = <<>> /\ Increasing(need') /\ Elements(need') = {}
  BY DEF Taken, Increasing, Elements
<1>4. Increasing(Lane(t)')
  BY <1>1, IncreasingConcat DEF Taken, IInv, OutInv
<1>5. ASSUME NEW u \in Threads, u # t
      PROVE  Lane(u)' = Lane(u) /\ Elements(Lane(u)) \cap Elements(Lane(t)') = {}
  <2>1. Lane(u)' = Lane(u)
    BY <1>5 DEF Taken
  <2>2. Elements(Lane(u)) \cap Elements(Lane(t)) = {}
    BY <1>5 DEF IInv, OutInv
  <2>3. Elements(Lane(u)) \cap Elements(need) = {}
    <3>1. \A x \in Elements(need) : x \in Nat
      BY <1>1, ElementOfSeq DEF Elements
    <3>2. \A x \in Elements(Lane(u)), y \in Elements(need) : x < y
      BY DEF IInv, OutInv
    <3> QED BY <3>1, <3>2
  <2> QED BY <2>1, <2>2, <2>3, <1>2
<1>6. \A u, v \in Threads : u # v => Elements(Lane(u)') \cap Elements(Lane(v)') = {}
  <2> SUFFICES ASSUME NEW u \in Threads, NEW v \in Threads, u # v
               PROVE  Elements(Lane(u)') \cap Elements(Lane(v)') = {}
    OBVIOUS
  <2>1. CASE u = t
    BY <2>1, <1>5
  <2>2. CASE v = t
    BY <2>2, <1>5
  <2>3. CASE u # t /\ v # t
    BY <2>3, <1>5 DEF IInv, OutInv
  <2> QED BY <2>1, <2>2, <2>3
<1>7. UNION {Elements(Lane(u)') : u \in Threads}
        = Elements(need) \cup UNION {Elements(Lane(u)) : u \in Threads}
  <2>1. \A u \in Threads : Elements(Lane(u)')
           = IF u = t THEN Elements(Lane(t)) \cup Elements(need) ELSE Elements(Lane(u))
    BY <1>2, <1>5
  <2> QED BY <2>1
<1>8. asked' = asked
  BY DEF Taken
<1>9. \A u \in Threads : Increasing(Lane(u)')
  BY <1>4, <1>5 DEF IInv, OutInv
<1>10. Elements(need') \cup UNION {Elements(Lane(u)') : u \in Threads} = 1..Len(asked')
  BY <1>3, <1>7, <1>8 DEF IInv, OutInv
<1>11. OutInv'
  BY <1>3, <1>6, <1>9, <1>10 DEF OutInv
<1> QED BY <1>11 DEF IInv

(* Steps that write none of the lists of what goes out.                    *)
LEMMA OutKept == ASSUME OutType, UNCHANGED <<asked, need, wire, outq>> PROVE OutType' /\ Rest
  BY DEF OutType, Rest, SameLanes, Lane

LEMMA QueueStep == ASSUME OutType, NEW m, Queue(m), UNCHANGED outVars PROVE OutType' /\ Queued
<1>1. PICK S : asked \in Seq(S)
  BY DEF OutType
<1>2. asked' \in Seq(S \cup {m}) /\ Len(asked) + 1 \in Nat
  BY <1>1, AppendOf, LenProperties DEF Queue
<1>3. need' \in Seq(Nat)
  BY <1>2, AppendProperties DEF Queue, OutType
<1>4. OutType'
  BY <1>2, <1>3 DEF OutType, outVars
<1> QED BY <1>4 DEF Queued, SameLanes, Lane, outVars

(* send_message moves packets from the queue to the wire.                  *)
LEMMA SendStep ==
    ASSUME OutType, NEW t \in Threads, NEW q \in Seq(Nat),
           SendQueue(t, q) \/ WriteFails(t, q)
    PROVE  /\ wire' \in [Threads -> Seq(Nat)] /\ outq' \in [Threads -> Seq(Nat)]
           /\ Lane(t)' = wire[t] \o q
           /\ \A u \in Threads \ {t} : Lane(u)' = Lane(u)
<1>1. PICK k \in 0..Len(q) :
          /\ wire' = [wire EXCEPT ![t] = @ \o SubSeq(q, 1, k)]
          /\ outq' = [outq EXCEPT ![t] = SubSeq(q, k + 1, Len(q))]
  <2>1. Len(q) \in Nat /\ \A k \in 0..(Len(q) - 1) : k \in 0..Len(q)
    BY LenProperties
  <2> QED BY <2>1 DEF SendQueue, WriteFails
<1> DEFINE w == wire[t] \o SubSeq(q, 1, k)
           r == SubSeq(q, k + 1, Len(q))
<1>2. w \in Seq(Nat) /\ r \in Seq(Nat) /\ w \o r = wire[t] \o q
  BY CutInTwo DEF OutType
<1>3. wire' = [wire EXCEPT ![t] = w] /\ outq' = [outq EXCEPT ![t] = r]
  BY <1>1
<1> HIDE DEF w, r
<1> QED BY <1>2, <1>3 DEF OutType, Lane

LEMMA SpliceStep ==
    ASSUME OutType, NEW t \in Threads, Splice(t) PROVE OutType' /\ Taken(t)
<1> DEFINE q == Joined(need, outq[t])
<1>1. q \in Seq(Nat) /\ q = outq[t] \o need
  BY ConcatProperties DEF OutType, Joined
<1>2. need' = <<>> /\ asked' = asked /\ (SendQueue(t, q) \/ WriteFails(t, q))
  BY DEF Splice
<1> HIDE DEF q
<1>3. wire' \in [Threads -> Seq(Nat)] /\ outq' \in [Threads -> Seq(Nat)]
      /\ Lane(t)' = wire[t] \o q /\ \A u \in Threads \ {t} : Lane(u)' = Lane(u)
  BY <1>1, <1>2, SendStep
<1>4. wire[t] \o q = Lane(t) \o need
  <2>1. wire[t] \in Seq(Nat) /\ outq[t] \in Seq(Nat) /\ need \in Seq(Nat)
    BY DEF OutType
  <2>2. (wire[t] \o outq[t]) \o need = wire[t] \o (outq[t] \o need)
    BY <2>1, ConcatAgain, Zenon
  <2> QED BY <2>2, <1>1, Zenon DEF Lane
<1>5. OutType'
  BY <1>2, <1>3, EmptySeq DEF OutType
<1> QED BY <1>2, <1>3, <1>4, <1>5 DEF Taken

LEMMA OutputStep ==
    ASSUME OutType, NEW t \in Threads, Output(t) PROVE OutType' /\ Rest
<1>1. need' = need /\ asked' = asked
  BY DEF Output
<1>2. CASE UNCHANGED outVars
  BY <1>1, <1>2, OutKept DEF outVars
<1>3. CASE SendQueue(t, outq[t]) \/ WriteFails(t, outq[t])
  <2>1. outq[t] \in Seq(Nat)
    BY DEF OutType
  <2>2. wire' \in [Threads -> Seq(Nat)] /\ outq' \in [Threads -> Seq(Nat)]
        /\ Lane(t)' = Lane(t) /\ \A u \in Threads \ {t} : Lane(u)' = Lane(u)
    BY <1>3, <2>1, SendStep DEF Lane
  <2> QED BY <1>1, <2>2 DEF OutType, Rest, SameLanes
<1> QED BY <1>2, <1>3 DEF Output

LEMMA GuiOut == ASSUME OutType, Gui PROVE OutType' /\ (Rest \/ Queued)
<1>1. CASE User \/ StatusTimer \/ Messages \/ Quit
  <2>1. CASE SendChat
    <3>1. Queue([type |-> "CHART", from |-> loginName]) /\ UNCHANGED outVars
      BY <2>1 DEF SendChat
    <3> QED BY <3>1, QueueStep
  <2>2. CASE ~SendChat
    <3>1. UNCHANGED <<asked, need, wire, outq>>
      BY <1>1, <2>2
      DEF User, LoginClick, Disconnect, Reconnect, StatusTimer, Messages, Process,
          MessageTimer, ProcessDone, Quit, outVars
    <3> QED BY <3>1, OutKept
  <2> QED BY <2>1, <2>2
<1>2. CASE Relogin
  <2>1. Queue([type |-> "LOGIN", name |-> loginName, thread |-> LastThread])
        /\ UNCHANGED outVars
    BY <1>2 DEF Relogin
  <2> QED BY <2>1, QueueStep
<1> QED BY <1>1, <1>2 DEF Gui

LEMMA TransferOut ==
    ASSUME OutType, NEW t \in Threads, Transfer(t)
    PROVE  OutType' /\ (Rest \/ (tpc[t] = "splice" /\ Taken(t)))
<1>1. CASE Splice(t)
  BY <1>1, SpliceStep DEF Splice
<1>2. CASE Output(t)
  BY <1>2, OutputStep
<1>3. CASE ~Splice(t) /\ ~Output(t)
  <2>1. UNCHANGED <<asked, need, wire, outq>>
    BY <1>3
    DEF Transfer, Connected, ConnectFailed, Loop, LoopTop, Exit, CheckNeed, WaitEvent,
        WaitTimeout, GetFinish, GetDone, Collect, outVars
  <2> QED BY <2>1, OutKept
<1> QED BY <1>1, <1>2, <1>3

LEMMA StepOut ==
    ASSUME OutType, [Next]_vars
    PROVE  OutType' /\ \/ Rest \/ Queued
                       \/ \E t \in Threads : tpc[t] = "splice" /\ Taken(t)
<1>1. CASE UNCHANGED vars
  <2>1. UNCHANGED <<asked, need, wire, outq>>
    BY <1>1 DEF vars
  <2> QED BY <2>1, OutKept
<1>2. CASE Gui
  BY <1>2, GuiOut
<1>3. CASE \E t \in Threads : Transfer(t)
  BY <1>3, TransferOut
<1>4. CASE \E t \in Threads : Outside(t)
  <2>1. UNCHANGED <<asked, need, wire, outq>>
    BY <1>4 DEF Outside, outVars
  <2> QED BY <2>1, OutKept
<1> QED BY <1>1, <1>2, <1>3, <1>4 DEF Next

LEMMA InitOut == Init => IInv
<1> SUFFICES ASSUME Init PROVE IInv
  OBVIOUS
<1>1. need = <<>> /\ asked = <<>> /\ Len(asked) = 0
      /\ wire = [t \in Threads |-> <<>>] /\ outq = [t \in Threads |-> <<>>]
  BY DEF Init
<1>2. OutType
  BY <1>1, EmptySeq DEF OutType
<1>3. \A t \in Threads : Lane(t) = <<>>
  BY <1>1, ConcatEmptySeq, EmptySeq DEF Lane
<1>4. Elements(<<>>) = {} /\ Increasing(<<>>)
  BY DEF Elements, Increasing
<1>5. OutInv
  BY <1>1, <1>3, <1>4 DEF OutInv
<1> QED BY <1>2, <1>5 DEF IInv

LEMMA StepKeeps == IInv /\ [Next]_vars => IInv'
<1> SUFFICES ASSUME IInv, [Next]_vars PROVE IInv'
  OBVIOUS
<1> QED BY StepOut, RestKeeps, QueuedKeeps, TakenKeeps DEF IInv

-----------------------------------------------------------------------------
(* For every user.                                                         *)

(* The lists of what goes out, whoever splices them.                       *)
THEOREM Invariance == Spec => []IInv
  BY InitOut, StepKeeps, PTL DEF Spec

(* What the GTK thread queues goes out in order, on one connection at      *)
(* most, and is nowhere lost, however many threads splice the list         *)
(* (gui_client.c:117).                                                     *)
THEOREM OutCorrect == Spec => []OutOnceInOrder
<1>1. IInv => OutOnceInOrder
  BY OutIs
<1> QED BY <1>1, Invariance, PTL

-----------------------------------------------------------------------------
(* For a user who waits: the threads run one after another.                *)

Places == {"none", "connect", "top", "take", "splice", "wait", "in", "out", "collect", "dead"}

(* One thread runs at most, the last one started, and one that has not     *)
(* been started has taken nothing.                                         *)
TurnInv ==
    /\ tpc \in [Threads -> Places]
    /\ \A t, u \in Threads : Live(t) /\ Live(u) => t = u
    /\ \A t, u \in Threads : t < u /\ tpc[u] # "none" => tpc[t] # "none"
    /\ \A t, u \in Threads : Live(t) /\ tpc[u] # "none" => u <= t
    /\ \A t \in Threads : tpc[t] = "none" => Lane(t) = <<>>

(* What a thread takes follows all that others took, without a gap.        *)
BlockInv ==
    /\ \A t, u \in Threads : Live(t) /\ u # t =>
          \A x \in Elements(Lane(u)), y \in Elements(Lane(t)) : x < y
    /\ \A t \in Threads : \A x, z \in Elements(Lane(t)) : \A y \in Nat :
          x < y /\ y < z => y \in Elements(Lane(t))

(* Thread t, just created, is to connect.                                  *)
Launch(t) ==
    /\ tpc[t] = "none" /\ \A u \in 1..(t - 1) : tpc[u] # "none"
    /\ tpc' = [tpc EXCEPT ![t] = "connect"]
    /\ gpc' = "starting"
    /\ \A u \in Threads : ~Live(u)

Moved(t) ==
    /\ Live(t) /\ tpc' \in [Threads -> Places] /\ tpc'[t] # "none"
    /\ \A u \in Threads \ {t} : tpc'[u] = tpc[u]

Turn ==
    \/ tpc' = tpc
    \/ \E t \in Threads : Moved(t)
    \/ \E t \in Threads : Launch(t)

(* Out of "starting" there is one way.                                     *)
Waits == gpc = "starting" => gpc' = "starting" \/ Relogin

LEMMA TransferTurn ==
    ASSUME tpc \in [Threads -> Places], NEW t \in Threads, Transfer(t)
    PROVE  /\ Moved(t) /\ UNCHANGED guiVars
           /\ flag' = "INACTIVE" \/ (flag' = flag /\ Live(t)')
<1>1. CASE Connected(t) \/ LoopTop(t) \/ CheckNeed(t) \/ Splice(t) \/ WaitEvent(t)
           \/ WaitTimeout(t) \/ Collect(t)
  <2>1. flag' = flag /\ UNCHANGED guiVars
    BY <1>1 DEF Connected, LoopTop, CheckNeed, Splice, WaitEvent, WaitTimeout, Collect
  <2>2. Moved(t) /\ Live(t)'
    BY <1>1
    DEF Connected, LoopTop, CheckNeed, Splice, WaitEvent, WaitTimeout, Collect, Goes,
        Moved, Live, Places
  <2> QED BY <2>1, <2>2
<1>2. CASE ConnectFailed(t) \/ Exit(t)
  BY <1>2 DEF ConnectFailed, Exit, Goes, Moved, Live, Places
<1>3. CASE GetFinish(t)
  BY <1>3 DEF GetFinish, Moved, Live, Places
<1>4. CASE GetDone(t)
  BY <1>4 DEF GetDone, Goes, Moved, Live, Places
<1>5. CASE Output(t)
  BY <1>5 DEF Output, Goes, Moved, Live, Places
<1> QED BY <1>1, <1>2, <1>3, <1>4, <1>5 DEF Transfer, Loop

LEMMA GuiTurn ==
    ASSUME ~Hasty, tpc \in [Threads -> Places], Gui
    PROVE  Turn /\ Waits
<1>1. CASE Relogin
  BY <1>1 DEF Relogin, Turn, Waits
<1>2. CASE Disconnect \/ SendChat \/ StatusTimer \/ Messages \/ Quit
  BY <1>2
  DEF Disconnect, SendChat, StatusTimer, Messages, Process, MessageTimer, ProcessDone,
      Quit, Turn, Waits, guiVars
<1>3. CASE Reconnect \/ \E n \in Names : LoginClick(n)
  <2>1. gpc = "idle" /\ (\A t \in Threads : ~Live(t)) /\ Start
    BY <1>3 DEF Reconnect, LoginClick, MayClick
  <2>2. Turn
    BY <2>1 DEF Start, Turn, Launch
  <2> QED BY <2>1, <2>2 DEF Waits
<1> QED BY <1>1, <1>2, <1>3 DEF Gui, User

LEMMA StepTurn ==
    ASSUME ~Hasty, tpc \in [Threads -> Places], [Next]_vars
    PROVE  Turn /\ Waits
<1>1. CASE UNCHANGED vars
  BY <1>1 DEF vars, Turn, Waits
<1>2. CASE Gui
  BY <1>2, GuiTurn
<1>3. CASE \E t \in Threads : Transfer(t)
  BY <1>3, TransferTurn DEF Turn, Waits, guiVars
<1>4. CASE \E t \in Threads : Outside(t)
  BY <1>4 DEF Outside, Turn, Waits, guiVars
<1> QED BY <1>1, <1>2, <1>3, <1>4 DEF Next

(* What the three kinds of Turn do to the threads.                         *)
LEMMA TurnKeeps ==
    ASSUME TurnInv, Turn,
           \A t \in Threads : tpc[t] = "none" => Lane(t)' = Lane(t)
    PROVE  TurnInv'
<1>1. CASE tpc' = tpc
  BY <1>1 DEF TurnInv, Live
<1>2. CASE \E t \in Threads : Moved(t)
  <2>1. PICK t \in Threads : Moved(t)
    BY <1>2
  <2>2. \A u \in Threads : Live(u)' => Live(u)
    BY <2>1 DEF Moved, Live
  <2>3. \A u \in Threads : tpc'[u] = "none" <=> tpc[u] = "none"
    BY <2>1 DEF Moved, Live
  <2>4. tpc' \in [Threads -> Places]
    BY <2>1 DEF Moved
  <2> QED BY <2>2, <2>3, <2>4 DEF TurnInv
<1>3. CASE \E t \in Threads : Launch(t)
  <2>1. PICK t \in Threads : Launch(t)
    BY <1>3
  <2>2. tpc' \in [Threads -> Places] /\ tpc'[t] = "connect"
        /\ \A u \in Threads \ {t} : tpc'[u] = tpc[u]
    BY <2>1 DEF Launch, TurnInv, Places
  <2>3. \A u \in Threads : Live(u)' <=> u = t
    BY <2>1, <2>2 DEF Launch, Live
  <2>4. \A u \in Threads : tpc[u] # "none" => u < t
    <3>1. Threads \subseteq Nat /\ t \in Nat
      BY ClientAssumption DEF Threads
    <3> QED BY <3>1, <2>1 DEF Launch, TurnInv
  <2>5. Threads = 1..MaxThreads /\ MaxThreads \in Nat
    BY ClientAssumption DEF Threads
  <2>6. ASSUME NEW a \in Threads, NEW b \in Threads, a < b, tpc'[b] # "none"
        PROVE  tpc'[a] # "none"
    <3>1. CASE b = t
      BY <3>1, <2>1, <2>2, <2>5, <2>6 DEF Launch
    <3>2. CASE b # t
      BY <3>2, <2>2, <2>6 DEF TurnInv
    <3> QED BY <3>1, <3>2
  <2>7. ASSUME NEW a \in Threads, tpc'[a] # "none" PROVE a <= t
    BY <2>2, <2>4, <2>5, <2>7
  <2>8. ASSUME NEW a \in Threads, tpc'[a] = "none" PROVE Lane(a)' = <<>>
    BY <2>2, <2>8 DEF TurnInv
  <2> QED BY <2>2, <2>3, <2>6, <2>7, <2>8 DEF TurnInv
<1> QED BY <1>1, <1>2, <1>3 DEF Turn

(* A step of what goes out, when one thread runs.                          *)
Out == \/ Rest \/ Queued
       \/ \E t \in Threads : tpc[t] = "splice" /\ Taken(t)

LEMMA SpliceLive == ASSUME NEW t \in Threads, tpc[t] = "splice" PROVE Live(t)
  BY DEF Live

LEMMA IdleLanes ==
    ASSUME Out, NEW t \in Threads, tpc[t] # "splice" PROVE Lane(t)' = Lane(t)
<1>1. CASE Rest \/ Queued
  BY <1>1 DEF Rest, Queued, SameLanes
<1>2. CASE \E u \in Threads : tpc[u] = "splice" /\ Taken(u)
  BY <1>2 DEF Taken
<1> QED BY <1>1, <1>2 DEF Out

LEMMA Numbers ==
    ASSUME IInv
    PROVE  /\ Elements(need) \subseteq Nat
           /\ \A t \in Threads : Elements(Lane(t)) \subseteq Nat
<1>1. \A s \in Seq(Nat) : Elements(s) \subseteq Nat
  BY ElementOfSeq DEF Elements
<1> QED BY <1>1, LaneType DEF IInv, OutType

LEMMA TakenElements ==
    ASSUME IInv, NEW t \in Threads, Taken(t)
    PROVE  Elements(Lane(t)') = Elements(Lane(t)) \cup Elements(need)
  BY LaneType, ElementsOfConcat DEF Taken, IInv, OutType

(* Two threads run in a step only if it creates one of them, and that one  *)
(* has taken nothing.                                                      *)
LEMMA LiveBefore ==
    ASSUME TurnInv, Turn, NEW t \in Threads, Live(t)'
    PROVE  Live(t) \/ (Launch(t) /\ tpc[t] = "none" /\ Lane(t) = <<>>)
<1>1. CASE tpc' = tpc
  BY <1>1 DEF Live
<1>2. CASE \E u \in Threads : Moved(u)
  BY <1>2 DEF Moved, Live
<1>3. CASE \E u \in Threads : Launch(u)
  <2>1. PICK u \in Threads : Launch(u)
    BY <1>3
  <2>2. CASE u = t
    BY <2>1, <2>2 DEF Launch, TurnInv
  <2>3. CASE u # t
    BY <2>1, <2>3 DEF Launch, Live, TurnInv
  <2> QED BY <2>2, <2>3
<1> QED BY <1>1, <1>2, <1>3 DEF Turn

LEMMA BlockKeeps ==
    ASSUME IInv, TurnInv, BlockInv, Turn, Out
    PROVE  BlockInv'
<1>1. ASSUME NEW t \in Threads, NEW u \in Threads, Live(t)', u # t,
             NEW x \in Elements(Lane(u)'), NEW y \in Elements(Lane(t)')
      PROVE  x < y
  <2>1. CASE Live(t)
    <3>1. tpc[u] # "splice"
      BY <2>1, <1>1, SpliceLive DEF TurnInv
    <3>2. Lane(u)' = Lane(u)
      BY <3>1, IdleLanes
    <3>3. CASE Lane(t)' = Lane(t)
      BY <2>1, <1>1, <3>2, <3>3 DEF BlockInv
    <3>4. CASE Lane(t)' # Lane(t)
      <4>1. Taken(t)
        BY <3>4 DEF Out, Rest, Queued, SameLanes, Taken
      <4>2. y \in Elements(Lane(t)) \cup Elements(need)
        BY <4>1, <1>1, TakenElements
      <4>3. x \in Elements(Lane(u))
        BY <3>2, <1>1
      <4> QED BY <4>2, <4>3, <2>1, <1>1 DEF BlockInv, IInv, OutInv
    <3> QED BY <3>3, <3>4
  <2>2. CASE Launch(t) /\ tpc[t] = "none" /\ Lane(t) = <<>>
    <3>1. Lane(t)' = <<>>
      BY <2>2, IdleLanes
    <3> QED BY <3>1, <1>1 DEF Elements
  <2> QED BY <2>1, <2>2, <1>1, LiveBefore
<1>2. ASSUME NEW t \in Threads, NEW x \in Elements(Lane(t)'), NEW z \in Elements(Lane(t)'),
             NEW y \in Nat, x < y, y < z
      PROVE  y \in Elements(Lane(t)')
  <2>1. CASE Lane(t)' = Lane(t)
    BY <2>1, <1>2 DEF BlockInv
  <2>2. CASE Lane(t)' # Lane(t)
    <3>1. Taken(t) /\ tpc[t] = "splice"
      BY <2>2 DEF Out, Rest, Queued, SameLanes, Taken
    <3>2. Live(t)
      BY <3>1, SpliceLive
    <3>3. Elements(Lane(t)') = Elements(Lane(t)) \cup Elements(need)
      BY <3>1, TakenElements
    <3>4. x \in Nat /\ z \in Nat
      BY <1>2, <3>3, Numbers
    <3>5. y \in Elements(need) \cup UNION {Elements(Lane(u)) : u \in Threads}
      <4>1. Elements(need) \cup UNION {Elements(Lane(u)) : u \in Threads} = 1..Len(asked)
        BY DEF IInv, OutInv
      <4>2. x \in 1..Len(asked) /\ z \in 1..Len(asked)
        BY <4>1, <1>2, <3>3
      <4>3. Len(asked) \in Nat
        BY LenProperties DEF IInv, OutType
      <4> QED BY <4>1, <4>2, <4>3, <1>2, <3>4
    <3>6. ASSUME NEW u \in Threads, u # t, y \in Elements(Lane(u)) PROVE FALSE
      <4>1. y < x
        BY <3>2, <3>3, <3>6, <1>2 DEF BlockInv, IInv, OutInv
      <4> QED BY <4>1, <3>4, <1>2
    <3> QED BY <3>3, <3>5, <3>6
  <2> QED BY <2>1, <2>2
<1> QED BY <1>1, <1>2 DEF BlockInv

-----------------------------------------------------------------------------
(* Every thread gets its LOGIN.                                            *)

LoginInv ==
    \A t \in Threads : Live(t) /\ gpc # "starting" =>
        \E k \in Elements(Lane(t)) \cup Elements(need) :
            asked[k].type = "LOGIN" /\ asked[k].thread = t

(* What a running thread has, or is to take, it keeps.                     *)
LEMMA LiveKeeps ==
    ASSUME IInv, TurnInv, Out, NEW t \in Threads, Live(t)
    PROVE  /\ Elements(Lane(t)) \cup Elements(need)
                 \subseteq Elements(Lane(t)') \cup Elements(need')
           /\ \A k \in Elements(Lane(t)) \cup Elements(need) : asked'[k] = asked[k]
<1>1. CASE Rest
  BY <1>1 DEF Rest, SameLanes
<1>2. CASE Queued
  <2>1. PICK m : Queue(m)
    BY <1>2 DEF Queued
  <2>2. need' = Append(need, Len(asked) + 1) /\ need \in Seq(Nat) /\ Len(asked) + 1 \in Nat
    BY <2>1, LenProperties DEF Queue, IInv, OutType
  <2>3. Elements(need) \subseteq Elements(need')
    BY <2>2, AppendProperties, LenProperties DEF Elements
  <2>4. \A k \in 1..Len(asked) : asked'[k] = asked[k]
    BY <2>1, AppendOf DEF Queue, IInv, OutType
  <2>5. Elements(Lane(t)) \cup Elements(need) \subseteq 1..Len(asked)
    BY DEF IInv, OutInv
  <2> QED BY <2>3, <2>4, <2>5, <1>2 DEF Queued, SameLanes
<1>3. CASE \E u \in Threads : tpc[u] = "splice" /\ Taken(u)
  <2>1. Taken(t)
    BY <1>3, SpliceLive DEF TurnInv
  <2> QED BY <2>1, TakenElements DEF Taken
<1> QED BY <1>1, <1>2, <1>3 DEF Out

LEMMA LoginKeeps ==
    ASSUME IInv, TurnInv, LoginInv, Turn, Waits, Out PROVE LoginInv'
<1> SUFFICES ASSUME NEW t \in Threads, Live(t)', gpc' # "starting"
             PROVE  \E k \in Elements(Lane(t)') \cup Elements(need') :
                        asked'[k].type = "LOGIN" /\ asked'[k].thread = t
  BY DEF LoginInv
<1>1. Live(t)
  BY LiveBefore DEF Launch
<1>2. CASE gpc # "starting"
  BY <1>1, <1>2, LiveKeeps DEF LoginInv
<1>3. CASE gpc = "starting"
  <2>1. Relogin
    BY <1>3 DEF Waits
  <2> DEFINE m == [type |-> "LOGIN", name |-> loginName, thread |-> LastThread]
             n == Len(asked) + 1
  <2>2. Queue(m)
    BY <2>1 DEF Relogin
  <2>3. LastThread = t
    <3>1. t \in Started /\ \A u \in Started : u <= t
      BY <1>1 DEF Started, Live, TurnInv
    <3>2. LastThread \in Started /\ \A u \in Started : u <= LastThread
      BY <3>1 DEF LastThread
    <3>3. Started \subseteq Nat
      BY ClientAssumption DEF Started, Threads
    <3> QED BY <3>1, <3>2, <3>3
  <2>4. m.type = "LOGIN" /\ m.thread = t
    BY <2>3
  <2>5. asked'[n] = m
    <3>1. PICK S : asked \in Seq(S)
      BY DEF IInv, OutType
    <3> HIDE DEF m
    <3> QED BY <2>2, <3>1, AppendOf DEF Queue
  <2>6. n \in Elements(need')
    <3>1. need \in Seq(Nat) /\ need' = Append(need, n) /\ n \in Nat
      BY <2>2, LenProperties DEF Queue, IInv, OutType
    <3> HIDE DEF n
    <3>2. Len(need') = Len(need) + 1 /\ need'[Len(need) + 1] = n /\ Len(need) \in Nat
      BY <3>1, AppendProperties, LenProperties
    <3> QED BY <3>2 DEF Elements
  <2> QED BY <2>4, <2>5, <2>6
<1> QED BY <1>2, <1>3

-----------------------------------------------------------------------------
(* The name of the user, and those in the packets.                         *)

(* j is the last LOGIN among the first n packets.                          *)
LastLogin(j, n) ==
    /\ j \in 1..n /\ asked[j].type = "LOGIN"
    /\ \A i \in (j + 1)..n : asked[i].type # "LOGIN"

(* There are chats and members in a main panel only, from which on the     *)
(* name stays; and until there is one, a flag that is up has its thread,   *)
(* so that a new name never does without a LOGIN.                          *)
NameInv ==
    /\ \A k \in 1..Len(asked) : asked[k].type = "CHART" =>
          /\ mainPanel
          /\ asked[k].from = loginName
          /\ \A j \in Nat : LastLogin(j, k - 1) => asked[j].name = loginName
    /\ gpc # "starting" =>
          \A j \in Nat : LastLogin(j, Len(asked)) => asked[j].name = loginName
    /\ peers # {} => mainPanel
    /\ ~mainPanel /\ flag # "INACTIVE" => \E t \in Threads : Live(t)

(* The kinds of steps of the GTK thread, as far as names go.               *)
NameKept ==
    /\ asked' = asked /\ loginName' = loginName
    /\ mainPanel => mainPanel'
    /\ peers' # {} => peers # {} \/ mainPanel
    /\ gpc = "starting" => gpc' = "starting"

NameSet ==
    /\ asked' = asked /\ gpc' = "starting" /\ ~mainPanel
    /\ mainPanel' = mainPanel /\ peers' = peers

LoginQueued ==
    /\ Queue([type |-> "LOGIN", name |-> loginName, thread |-> LastThread])
    /\ loginName' = loginName /\ mainPanel' = mainPanel /\ peers' = peers

ChatQueued ==
    /\ gpc = "idle" /\ peers # {}
    /\ Queue([type |-> "CHART", from |-> loginName])
    /\ loginName' = loginName /\ mainPanel' = mainPanel /\ peers' = peers /\ gpc' = gpc

Name == NameKept \/ NameSet \/ LoginQueued \/ ChatQueued

(* The flag goes up with a thread, or with a main panel.                   *)
Flag ==
    \/ flag' = "INACTIVE"
    \/ mainPanel'
    \/ \E t \in Threads : Live(t)'
    \/ flag' = flag /\ tpc' = tpc

LEMMA ProcessName ==
    ASSUME Process PROVE NameKept /\ (tpc' = tpc /\ Flag)
<1> DEFINE m == said[Head(wait).thread][Head(wait).pos]
<1>1. asked' = asked /\ loginName' = loginName /\ gpc' = gpc /\ tpc' = tpc
  BY DEF Process
<1>2. LoginRespond(m) \/ PeerList(m) \/ UNCHANGED <<alive, flag, mainPanel, connStatus, peers>>
  BY DEF Process
<1> HIDE DEF m
<1>3. CASE LoginRespond(m)
  <2>1. peers' = peers /\ (mainPanel => mainPanel')
    BY <1>3 DEF LoginRespond
  <2>2. flag' = "INACTIVE" \/ mainPanel'
    BY <1>3 DEF LoginRespond
  <2> QED BY <2>1, <2>2, <1>1 DEF NameKept, Flag
<1>4. CASE PeerList(m)
  <2>1. flag' = flag /\ mainPanel' = mainPanel
    BY <1>4 DEF PeerList
  <2>2. peers' # {} => peers # {} \/ mainPanel
    BY <1>4 DEF PeerList
  <2> QED BY <2>1, <2>2, <1>1 DEF NameKept, Flag
<1>5. CASE UNCHANGED <<alive, flag, mainPanel, connStatus, peers>>
  BY <1>5, <1>1 DEF NameKept, Flag
<1> QED BY <1>2, <1>3, <1>4, <1>5

LEMMA StartFlag ==
    ASSUME tpc \in [Threads -> Places], Start
    PROVE  \/ flag # "INACTIVE" /\ UNCHANGED <<flag, tpc, gpc>>
           \/ gpc' = "starting" /\ \E t \in Threads : Live(t)'
  BY DEF Start, Places, Live

LEMMA GuiName ==
    ASSUME ~Hasty, TurnInv, NameInv, Gui PROVE Name /\ Flag
<1>0. tpc \in [Threads -> Places]
  BY DEF TurnInv
<1>1. CASE Process
  BY <1>1, ProcessName DEF Name
<1>2. CASE Relogin
  BY <1>2 DEF Relogin, Name, LoginQueued, Flag
<1>3. CASE SendChat
  BY <1>3 DEF SendChat, Name, ChatQueued, Flag, guiVars, panelVars
<1>4. CASE Disconnect \/ StatusTimer \/ MessageTimer \/ ProcessDone \/ Quit
  <2>1. NameKept
    BY <1>4
    DEF Disconnect, StatusTimer, MessageTimer, ProcessDone, Quit, NameKept, guiVars, panelVars
  <2>2. Flag
    BY <1>4 DEF Disconnect, StatusTimer, MessageTimer, ProcessDone, Quit, Flag
  <2> QED BY <2>1, <2>2 DEF Name
<1>5. CASE Reconnect
  <2>1. flag = "INACTIVE" /\ Start /\ gpc = "idle" /\ UNCHANGED <<asked, panelVars>>
    BY <1>5 DEF Reconnect, MayClick
  <2>2. Flag
    BY <2>1, <1>0, StartFlag DEF Flag
  <2> QED BY <2>1, <2>2 DEF Name, NameKept, panelVars
<1>6. ASSUME NEW n \in Names, LoginClick(n) PROVE Name /\ Flag
  <2>1. ~mainPanel /\ Start /\ UNCHANGED <<asked, mainPanel, peers>>
        /\ \A t \in Threads : ~Live(t)
    BY <1>6 DEF LoginClick, MayClick
  <2>2. flag = "INACTIVE"
    BY <2>1 DEF NameInv
  <2>3. gpc' = "starting" /\ \E t \in Threads : Live(t)'
    BY <2>1, <2>2, <1>0, StartFlag
  <2> QED BY <2>1, <2>3 DEF Name, NameSet, Flag
<1> QED BY <1>1, <1>2, <1>3, <1>4, <1>5, <1>6 DEF Gui, User, Messages

LEMMA StepName ==
    ASSUME ~Hasty, TurnInv, NameInv, [Next]_vars
    PROVE  Name /\ Flag
<1>0. tpc \in [Threads -> Places]
  BY DEF TurnInv
<1>1. CASE UNCHANGED vars
  BY <1>1 DEF vars, Name, NameKept, Flag
<1>2. CASE Gui
  BY <1>2, GuiName
<1>3. CASE \E t \in Threads : Transfer(t)
  <2>1. PICK t \in Threads : Transfer(t)
    BY <1>3
  <2>2. UNCHANGED guiVars /\ (flag' = "INACTIVE" \/ (flag' = flag /\ Live(t)'))
    BY <2>1, <1>0, TransferTurn
  <2>3. asked' = asked
    BY <2>1
    DEF Transfer, Connected, ConnectFailed, Loop, LoopTop, Exit, CheckNeed, Splice, WaitEvent,
        WaitTimeout, GetFinish, GetDone, Output, Collect
  <2> QED BY <2>2, <2>3 DEF Name, NameKept, Flag, guiVars, panelVars
<1>4. CASE \E t \in Threads : Outside(t)
  BY <1>4 DEF Outside, Name, NameKept, Flag, guiVars, panelVars
<1> QED BY <1>1, <1>2, <1>3, <1>4 DEF Next

(* One more packet, that is a chat or a LOGIN under the name of the user.  *)
LEMMA QueueName ==
    ASSUME NameInv, OutType, NEW m, Queue(m), loginName' = loginName, mainPanel' = mainPanel,
           \/ m.type = "LOGIN" /\ m.name = loginName
           \/ m.type = "CHART" /\ m.from = loginName /\ mainPanel /\ gpc # "starting"
    PROVE  /\ (\A k \in 1..Len(asked') : asked'[k].type = "CHART" =>
                  /\ mainPanel'
                  /\ asked'[k].from = loginName'
                  /\ \A j \in Nat : LastLogin(j, k - 1)' => asked'[j].name = loginName')
           /\ \A j \in Nat : LastLogin(j, Len(asked))' => asked'[j].name = loginName'
<1>0. PICK n \in Nat : n = Len(asked)
  BY LenProperties DEF OutType
<1>1. n \in Nat /\ Len(asked') = n + 1
      /\ (\A k \in 1..n : asked'[k] = asked[k]) /\ asked'[n + 1] = m
  <2>1. PICK S : asked \in Seq(S)
    BY DEF OutType
  <2> QED BY <1>0, <2>1, AppendOf DEF Queue
<1>2. ASSUME NEW j \in Nat, NEW k \in 0..n, LastLogin(j, k)' PROVE LastLogin(j, k)
  BY <1>1, <1>2 DEF LastLogin
<1>3. ASSUME NEW k \in 1..n, asked'[k].type = "CHART"
      PROVE  /\ mainPanel' /\ asked'[k].from = loginName'
             /\ \A j \in Nat : LastLogin(j, k - 1)' => asked'[j].name = loginName'
  <2>1. asked[k].type = "CHART" /\ mainPanel /\ asked[k].from = loginName
        /\ \A j \in Nat : LastLogin(j, k - 1) => asked[j].name = loginName
    BY <1>0, <1>1, <1>3 DEF NameInv
  <2>2. ASSUME NEW j \in Nat, LastLogin(j, k - 1)' PROVE asked'[j].name = loginName'
    <3>1. k - 1 \in 0..n /\ j \in 1..n
      BY <2>2, <1>1 DEF LastLogin
    <3>2. LastLogin(j, k - 1)
      BY <3>1, <2>2, <1>2
    <3> QED BY <3>1, <3>2, <2>1, <1>1
  <2> QED BY <2>1, <2>2, <1>1
<1>4. ASSUME m.type = "CHART", NEW j \in Nat, LastLogin(j, n)' PROVE asked'[j].name = loginName'
  <2>1. j \in 1..n /\ n \in 0..n
    BY <1>4, <1>1 DEF LastLogin
  <2>2. LastLogin(j, n)
    BY <2>1, <1>4, <1>2
  <2>3. gpc # "starting"
    BY <1>4
  <2> QED BY <2>1, <2>2, <2>3, <1>0, <1>1 DEF NameInv
<1>5. ASSUME asked'[n + 1].type = "CHART"
      PROVE  /\ mainPanel' /\ asked'[n + 1].from = loginName'
             /\ \A j \in Nat : LastLogin(j, n)' => asked'[j].name = loginName'
  BY <1>1, <1>4, <1>5
<1>6. ASSUME NEW k \in 1..(n + 1), asked'[k].type = "CHART"
      PROVE  /\ mainPanel' /\ asked'[k].from = loginName'
             /\ \A j \in Nat : LastLogin(j, k - 1)' => asked'[j].name = loginName'
  <2>1. CASE k \in 1..n
    BY <2>1, <1>3, <1>6
  <2>2. CASE k = n + 1
    <3>1. k - 1 = n
      BY <2>2, <1>1
    <3> QED BY <3>1, <2>2, <1>5, <1>6
  <2> QED BY <2>1, <2>2, <1>1
<1>7. ASSUME NEW j \in Nat, LastLogin(j, n + 1)' PROVE asked'[j].name = loginName'
  <2>1. j \in 1..(n + 1) /\ asked'[j].type = "LOGIN"
        /\ \A i \in (j + 1)..(n + 1) : asked'[i].type # "LOGIN"
    BY <1>7 DEF LastLogin
  <2>2. CASE j = n + 1
    BY <2>2, <2>1, <1>1
  <2>3. CASE j \in 1..n
    <3>1. asked'[n + 1].type # "LOGIN"
      BY <2>1, <2>3, <1>1
    <3>2. LastLogin(j, n)'
      BY <2>1, <2>3, <1>1 DEF LastLogin
    <3> QED BY <3>1, <3>2, <1>4, <1>1
  <2> QED BY <2>1, <2>2, <2>3, <1>1
<1>8. Len(asked)' = n + 1
  BY <1>1
<1> QED BY <1>1, <1>6, <1>7, <1>8

LEMMA NameKeeps ==
    ASSUME OutType, NameInv, Name, Flag, Waits PROVE NameInv'
<1>1. ~mainPanel' /\ flag' # "INACTIVE" => \E t \in Threads : Live(t)'
  <2>1. mainPanel => mainPanel'
    BY DEF Name, NameKept, NameSet, LoginQueued, ChatQueued
  <2>2. CASE flag' = flag /\ tpc' = tpc
    BY <2>1, <2>2 DEF NameInv, Live
  <2> QED BY <2>2 DEF Flag
<1>2. peers' # {} => mainPanel'
  BY DEF NameInv, Name, NameKept, NameSet, LoginQueued, ChatQueued
<1> DEFINE Chats1 == \A k \in 1..Len(asked) : asked[k].type = "CHART" =>
                        /\ mainPanel
                        /\ asked[k].from = loginName
                        /\ \A j \in Nat : LastLogin(j, k - 1) => asked[j].name = loginName
           Last1 == gpc # "starting" =>
                        \A j \in Nat : LastLogin(j, Len(asked)) => asked[j].name = loginName
<1>3. Chats1' /\ Last1'
  <2>1. CASE NameKept
    <3>1. \A j, k \in Nat : LastLogin(j, k)' <=> LastLogin(j, k)
      BY <2>1 DEF NameKept, LastLogin
    <3>2. Len(asked) \in Nat /\ \A k \in 1..Len(asked) : k - 1 \in Nat
      BY LenProperties DEF OutType
    <3> QED BY <2>1, <3>1, <3>2 DEF NameKept, NameInv
  <2>2. CASE NameSet
    BY <2>2 DEF NameSet, NameInv
  <2>3. CASE LoginQueued
    <3> DEFINE m == [type |-> "LOGIN", name |-> loginName, thread |-> LastThread]
    <3>1. m.type = "LOGIN" /\ m.name = loginName
      OBVIOUS
    <3>2. Queue(m) /\ loginName' = loginName /\ mainPanel' = mainPanel
      BY <2>3 DEF LoginQueued
    <3> HIDE DEF m
    <3> QED BY <3>1, <3>2, QueueName
  <2>4. CASE ChatQueued
    <3> DEFINE m == [type |-> "CHART", from |-> loginName]
    <3>1. m.type = "CHART" /\ m.from = loginName
      OBVIOUS
    <3>2. Queue(m) /\ loginName' = loginName /\ mainPanel' = mainPanel
          /\ mainPanel /\ gpc # "starting"
      BY <2>4 DEF ChatQueued, NameInv
    <3> HIDE DEF m
    <3> QED BY <3>1, <3>2, QueueName
  <2> QED BY <2>1, <2>2, <2>3, <2>4 DEF Name
<1> QED BY <1>1, <1>2, <1>3 DEF NameInv

-----------------------------------------------------------------------------
(* The theorems about a user who waits.                                    *)

PatientInv == IInv /\ TurnInv /\ BlockInv /\ LoginInv /\ NameInv

LEMMA PatientStep ==
    ASSUME ~Hasty, PatientInv, [Next]_vars PROVE PatientInv'
<1>1. IInv'
  BY StepKeeps DEF PatientInv
<1>2. Turn /\ Waits
  BY StepTurn DEF PatientInv, TurnInv
<1>3. Out
  BY StepOut DEF PatientInv, IInv, Out
<1>4. TurnInv'
  BY <1>2, <1>3, IdleLanes, TurnKeeps DEF PatientInv
<1>5. BlockInv'
  BY <1>2, <1>3, BlockKeeps DEF PatientInv
<1>6. LoginInv'
  BY <1>2, <1>3, LoginKeeps DEF PatientInv
<1>7. NameInv'
  BY <1>2, StepName, NameKeeps DEF PatientInv, IInv
<1> QED BY <1>1, <1>4, <1>5, <1>6, <1>7 DEF PatientInv

LEMMA PatientInit == Init => PatientInv
<1> SUFFICES ASSUME Init PROVE PatientInv
  OBVIOUS
<1>1. IInv
  BY InitOut
<1>2. \A t \in Threads : tpc[t] = "none" /\ ~Live(t) /\ Lane(t) = <<>>
  BY ConcatEmptySeq, EmptySeq DEF Init, Live, Lane
<1>3. TurnInv
  <2>1. tpc \in [Threads -> Places]
    BY DEF Init, Places
  <2> QED BY <2>1, <1>2 DEF TurnInv
<1>4. BlockInv
  BY <1>2 DEF BlockInv, Elements
<1>5. LoginInv
  BY <1>2 DEF LoginInv
<1>6. NameInv
  <2>1. Len(asked) = 0 /\ peers = {} /\ flag = "INACTIVE"
    BY DEF Init
  <2> QED BY <2>1 DEF NameInv, LastLogin
<1> QED BY <1>1, <1>3, <1>4, <1>5, <1>6 DEF PatientInv

(* If the user never clicks while a thread runs (~Hasty), the threads run  *)
(* in turn, and each login is over before the next begins.                 *)
THEOREM PatientInvariance == ASSUME ~Hasty PROVE Spec => []PatientInv
<1>1. PatientInv /\ [Next]_vars => PatientInv'
  BY PatientStep
<1> QED BY <1>1, PatientInit, PTL DEF Spec

(* A thread that waits for events, with nothing more to take, has sent or  *)
(* is sending a LOGIN of its own (gui_client.c:207).                       *)
THEOREM LoggedInCorrect == ASSUME ~Hasty PROVE Spec => []LoggedIn
<1>1. PatientInv => LoggedIn
  <2> SUFFICES ASSUME PatientInv, NEW t \in Threads, tpc[t] = "wait", need = <<>>,
                      gpc # "starting"
               PROVE  \E k \in Elements(wire[t] \o outq[t]) :
                          asked[k].type = "LOGIN" /\ asked[k].thread = t
    BY DEF LoggedIn
  <2>1. Live(t) /\ Elements(need) = {}
    BY DEF Live, Elements
  <2>2. PICK k \in Elements(Lane(t)) : asked[k].type = "LOGIN" /\ asked[k].thread = t
    BY <2>1 DEF PatientInv, LoginInv
  <2> QED BY <2>2 DEF Lane
<1> QED BY <1>1, PatientInvariance, PTL

(* A chat names as its sender what the last LOGIN before it names, granted *)
(* or not (login_panel.c:27).                                              *)
SenderIsLogin ==
    \A t \in Threads :
        LET lane == wire[t] \o outq[t]
        IN  \A j \in 1..Len(lane) : \A i \in 1..(j - 1) :
                /\ asked[lane[i]].type = "LOGIN" /\ asked[lane[j]].type = "CHART"
                /\ \A k \in (i + 1)..(j - 1) : asked[lane[k]].type # "LOGIN"
                => asked[lane[i]].name = asked[lane[j]].from

(* Between the two no other LOGIN was queued, as a connection carries a    *)
(* block of what was queued; and the name has not changed since.           *)
LEMMA SenderIs == ASSUME PatientInv PROVE SenderIsLogin
<1> SUFFICES ASSUME NEW t \in Threads,
                    NEW j \in 1..Len(Lane(t)), NEW i \in 1..(j - 1),
                    asked[Lane(t)[i]].type = "LOGIN", asked[Lane(t)[j]].type = "CHART",
                    \A k \in (i + 1)..(j - 1) : asked[Lane(t)[k]].type # "LOGIN"
             PROVE  asked[Lane(t)[i]].name = asked[Lane(t)[j]].from
  BY DEF SenderIsLogin, Lane
<1> DEFINE lane == Lane(t)
           a == lane[i]
           b == lane[j]
<1>1. lane \in Seq(Nat) /\ Len(lane) \in Nat /\ i \in 1..Len(lane) /\ j \in 1..Len(lane) /\ i < j
  BY LaneType, LenProperties DEF PatientInv, IInv
<1>2. Increasing(lane) /\ Elements(lane) \subseteq 1..Len(asked)
  BY DEF PatientInv, IInv, OutInv
<1>3. a \in Elements(lane) /\ b \in Elements(lane) /\ a < b
  BY <1>1, <1>2 DEF Elements, Increasing
<1>4. a \in 1..Len(asked) /\ b \in 1..Len(asked) /\ Len(asked) \in Nat
  BY <1>2, <1>3, LenProperties DEF PatientInv, IInv, OutType
<1>5. ASSUME NEW y \in (a + 1)..(b - 1) PROVE asked[y].type # "LOGIN"
  <2>1. y \in Nat /\ a < y /\ y < b
    BY <1>4
  <2>2. y \in Elements(lane)
    BY <2>1, <1>3 DEF PatientInv, BlockInv
  <2>3. PICK k \in 1..Len(lane) : lane[k] = y
    BY <2>2 DEF Elements
  <2>4. ~(k <= i)
    <3>1. k <= i => lane[k] <= lane[i]
      <4>1. CASE k = i
        BY <4>1, <1>4
      <4>2. CASE k < i
        <5>1. lane[k] < lane[i]
          BY <4>2, <1>1, <1>2 DEF Increasing
        <5> HIDE DEF lane
        <5> QED BY <5>1, <2>1, <2>3, <1>4
      <4> QED BY <4>1, <4>2, <1>1
    <3> QED BY <3>1, <2>1, <2>3, <1>4
  <2>5. ~(j <= k)
    <3>1. j <= k => lane[j] <= lane[k]
      <4>1. CASE k = j
        BY <4>1, <1>4
      <4>2. CASE j < k
        <5>1. lane[j] < lane[k]
          BY <4>2, <1>1, <1>2 DEF Increasing
        <5> HIDE DEF lane
        <5> QED BY <5>1, <2>1, <2>3, <1>4
      <4> QED BY <4>1, <4>2, <1>1
    <3> QED BY <3>1, <2>1, <2>3, <1>4
  <2>6. k \in (i + 1)..(j - 1)
    BY <2>4, <2>5, <1>1
  <2> QED BY <2>3, <2>6
<1>6. LastLogin(a, b - 1)
  BY <1>4, <1>3, <1>5 DEF LastLogin
<1>7. a \in Nat
  BY <1>4
<1> HIDE DEF a, b
<1>8. asked[b].type = "CHART" /\ asked[b].from = loginName /\ asked[a].name = loginName
  <2>1. asked[b].type = "CHART"
    BY DEF b
  <2> QED BY <2>1, <1>4, <1>6, <1>7 DEF PatientInv, NameInv
<1> QED BY <1>8 DEF a, b

LEMMA GreatestExists ==
    ASSUME NEW n \in Nat, NEW T \in SUBSET (0..n), T # {}
    PROVE  \E m \in T : \A k \in T : k <= m
<1> DEFINE U == {n - k : k \in T}
<1>1. U \in SUBSET Nat /\ U # {}
  <2>1. \A k \in T : k \in Nat /\ n - k \in Nat
    OBVIOUS
  <2>2. U \in SUBSET Nat
    BY <2>1
  <2>3. PICK k \in T : TRUE
    OBVIOUS
  <2>4. n - k \in U
    BY <2>3
  <2> QED BY <2>2, <2>4
<1>2. PICK l \in U : \A k \in U : l <= k
  <2> HIDE DEF U
  <2> QED BY <1>1, LeastExists
<1>3. PICK m \in T : l = n - m
  BY <1>2
<1>4. ASSUME NEW k \in T PROVE k <= m
  <2>1. n - k \in U
    OBVIOUS
  <2>2. l <= n - k
    BY <2>1, <1>2
  <2> QED BY <2>2, <1>3
<1> QED BY <1>4

(* Of the LOGINs before a chat, from the granted one on, the last names    *)
(* the sender; if that is not the granted one, it is the exception.        *)
LEMMA AccountIs == ASSUME PatientInv PROVE SenderIsAccount
<1> SUFFICES ASSUME NEW t \in Threads, NEW j \in 1..Len(wire[t] \o outq[t]),
                    NEW i \in 1..(j - 1),
                    asked[(wire[t] \o outq[t])[j]].type = "CHART", Granted(t, i)
             PROVE  LET lane == wire[t] \o outq[t] IN
                    \/ asked[lane[i]].name = asked[lane[j]].from
                    \/ \E k \in (i + 1)..(j - 1) :
                          /\ asked[lane[k]].type = "LOGIN"
                          /\ asked[lane[k]].name = asked[lane[j]].from
  BY DEF SenderIsAccount
<1> DEFINE lane == wire[t] \o outq[t]
           T == {k \in i..(j - 1) : asked[lane[k]].type = "LOGIN"}
<1>0. lane = Lane(t) /\ asked[lane[i]].type = "LOGIN"
  BY DEF Granted, Lane
<1> HIDE DEF lane
<1>1. lane \in Seq(Nat) /\ Len(lane) \in Nat /\ i \in 1..Len(lane) /\ j \in 1..Len(lane) /\ i < j
  <2>1. lane \in Seq(Nat)
    BY <1>0, LaneType DEF PatientInv, IInv
  <2>2. Len(lane) \in Nat /\ j \in 1..Len(lane)
    BY <2>1, LenProperties DEF lane
  <2> QED BY <2>1, <2>2
<1>2. i \in T /\ T \in SUBSET (0..j) /\ j \in Nat
  <2>1. j \in Nat /\ i \in i..(j - 1)
    BY <1>1
  <2>2. \A k \in i..(j - 1) : k \in 0..j
    BY <1>1
  <2> QED BY <2>1, <2>2, <1>0
<1>3. PICK m \in T : \A k \in T : k <= m
  <2> HIDE DEF T
  <2> QED BY <1>2, GreatestExists
<1>4. m \in i..(j - 1) /\ m \in 1..(j - 1) /\ asked[lane[m]].type = "LOGIN"
  BY <1>1, <1>3
<1>5. ASSUME NEW k \in (m + 1)..(j - 1) PROVE asked[lane[k]].type # "LOGIN"
  <2>1. k \in i..(j - 1) /\ ~(k <= m)
    BY <1>1, <1>4
  <2> QED BY <2>1, <1>3
<1>6. asked[lane[m]].name = asked[lane[j]].from
  <2>1. asked[lane[j]].type = "CHART"
    BY DEF lane
  <2> QED BY <2>1, <1>0, <1>1, <1>4, <1>5, SenderIs DEF SenderIsLogin, Lane
<1>7. CASE m = i
  BY <1>7, <1>6 DEF lane
<1>8. CASE m # i
  <2>1. m \in (i + 1)..(j - 1)
    BY <1>8, <1>4, <1>1
  <2> QED BY <2>1, <1>4, <1>6 DEF lane
<1> QED BY <1>7, <1>8

(* A chat names the account its connection is logged in with as its sender *)
(* (login_panel.c:27, server.c:302), but for a LOGIN of the sender between *)
(* that was refused or is not answered (server.c:292).                     *)
THEOREM SenderCorrect == ASSUME ~Hasty PROVE Spec => []SenderIsAccount
<1>1. PatientInv => SenderIsAccount
  BY AccountIs
<1> QED BY <1>1, PatientInvariance, PTL

-----------------------------------------------------------------------------
(* What the server may write next.                                         *)

Responses ==
    [type : {"LOGIN_RESPOND"}, ok : BOOLEAN]
        \cup [type : {"PEER_LIST"}, name : Names]
        \cup [type : {"CHART"}]

LEMMA RepliesAre == Replies \subseteq Responses
<1>1. \A i \in 1..Len(MemberList) : MemberList[i] \in Names
  BY ClientAssumption, ElementOfSeq
<1>2. Len(MemberList) \in Nat
  BY ClientAssumption, LenProperties
<1>3. Len(Rows) = Len(MemberList)
  BY <1>2 DEF Rows
<1>4. \A i \in 1..Len(Rows) : Rows[i] = [type |-> "PEER_LIST", name |-> MemberList[i]]
  BY <1>3 DEF Rows
<1>5. ASSUME NEW i \in 1..Len(Rows) PROVE Rows[i] \in Responses
  <2>1. Rows[i] = [type |-> "PEER_LIST", name |-> MemberList[i]] /\ MemberList[i] \in Names
    BY <1>1, <1>3, <1>4
  <2> QED BY <2>1 DEF Responses
<1>6. Ok \in Responses /\ Failed \in Responses /\ Chat \in Responses
  BY DEF Ok, Failed, Chat, Responses
<1> QED BY <1>5, <1>6 DEF Replies

(* One packet more.                                                        *)
OneMore(t, s) ==
    {w \in {Append(s, r) : r \in Replies} :
        Promise(t, w) /\ Count(w, "CHART") <= MaxIn}

(* f is the function longer of Longer(t), as far as n.                     *)
Grows(t, n, f) ==
    f = [k \in 1..n |->
            IF k = 1 THEN OneMore(t, said[t])
            ELSE LET shorter == f[k - 1]
                 IN  shorter \cup UNION {OneMore(t, s) : s \in shorter}]

LEMMA GrowsOn ==
    ASSUME NEW t, NEW n \in Nat \ {0}, NEW f, Grows(t, n, f)
    PROVE  \E g : Grows(t, n + 1, g)
<1> DEFINE more == f[n] \cup UNION {OneMore(t, s) : s \in f[n]}
           g == [k \in 1..(n + 1) |-> IF k <= n THEN f[k] ELSE more]
           step(h, k) == IF k = 1 THEN OneMore(t, said[t])
                         ELSE LET shorter == h[k - 1]
                              IN  shorter \cup UNION {OneMore(t, s) : s \in shorter}
<1>1. \A k \in 1..n : f[k] = step(f, k)
  BY DEF Grows
<1>2. ASSUME NEW k \in 1..(n + 1) PROVE g[k] = step(g, k)
  <2>1. CASE k <= n
    <3>0. k \in 1..n
      BY <2>1
    <3>1. g[k] = f[k] /\ f[k] = step(f, k)
      <4>1. f[k] = step(f, k)
        BY <3>0, <1>1
      <4>2. g[k] = f[k]
        BY <2>1
      <4> QED BY <4>1, <4>2
    <3>2. k # 1 => k - 1 \in 1..(n + 1) /\ k - 1 <= n
      BY <2>1
    <3>3. k # 1 => g[k - 1] = f[k - 1]
      BY <3>2
    <3> HIDE DEF g, more
    <3> QED BY <3>1, <3>3
  <2>2. CASE k = n + 1
    <3>1. g[k] = more
      BY <2>2
    <3>2. k # 1 /\ k - 1 = n /\ g[n] = f[n]
      BY <2>2
    <3> HIDE DEF g
    <3> QED BY <3>1, <3>2
  <2> QED BY <2>1, <2>2
<1>3. g = [k \in 1..(n + 1) |-> step(g, k)]
  <2>1. g = [k \in 1..(n + 1) |-> g[k]]
    OBVIOUS
  <2> HIDE DEF g
  <2> QED BY <2>1, <1>2
<1> QED BY <1>3 DEF Grows

LEMMA GrowsAll == ASSUME NEW t, NEW n \in Nat \ {0} PROVE \E f : Grows(t, n, f)
<1> DEFINE T == {k \in Nat \ {0} : ~ \E f : Grows(t, k, f)}
<1> SUFFICES ASSUME T # {} PROVE FALSE
  OBVIOUS
<1>1. PICK m \in T : \A k \in T : m <= k
  <2>1. T \in SUBSET Nat
    OBVIOUS
  <2> HIDE DEF T
  <2> QED BY <2>1, LeastExists
<1>2. CASE m = 1
  <2> DEFINE f == [k \in 1..1 |-> OneMore(t, said[t])]
  <2>1. Grows(t, 1, f)
    BY DEF Grows
  <2> QED BY <2>1, <1>2
<1>3. CASE m # 1
  <2>1. m - 1 \in Nat \ {0} /\ (m - 1) + 1 = m /\ ~(m <= m - 1)
    BY <1>3
  <2>2. m - 1 \notin T
    BY <2>1, <1>1
  <2>3. PICK f : Grows(t, m - 1, f)
    BY <2>1, <2>2
  <2>4. \E g : Grows(t, m, g)
    BY <2>1, <2>3, GrowsOn
  <2> QED BY <2>4
<1> QED BY <1>2, <1>3

LEMMA LongerIs == ASSUME NEW t PROVE \E f : Grows(t, Burst, f) /\ Longer(t) = f[Burst]
<1> DEFINE h == CHOOSE f : Grows(t, Burst, f)
<1>1. Burst \in Nat \ {0}
  BY ClientAssumption
<1>2. Grows(t, Burst, h)
  BY <1>1, GrowsAll
<1>3. Longer(t) = h[Burst]
  BY Zenon DEF Longer, Grows, OneMore
<1> QED BY <1>2, <1>3

(* Packets are added to what was said, and the promise is kept.            *)
LEMMA LongerHas ==
    ASSUME NEW t \in Threads, said[t] \in Seq(Responses), NEW s \in Longer(t)
    PROVE  /\ s \in Seq(Responses) /\ Promise(t, s)
           /\ Len(said[t]) < Len(s)
           /\ \A i \in 1..Len(said[t]) : s[i] = said[t][i]
<1> DEFINE Good(w) == /\ w \in Seq(Responses) /\ Promise(t, w)
                      /\ Len(said[t]) < Len(w)
                      /\ \A i \in 1..Len(said[t]) : w[i] = said[t][i]
<1>1. PICK f : Grows(t, Burst, f) /\ Longer(t) = f[Burst]
  BY LongerIs
<1>2. Burst \in Nat \ {0} /\ Len(said[t]) \in Nat
  BY ClientAssumption, LenProperties
<1>3. /\ f[1] = OneMore(t, said[t])
      /\ \A k \in 2..Burst : f[k] = f[k - 1] \cup UNION {OneMore(t, w) : w \in f[k - 1]}
  <2>1. \A k \in 1..Burst :
           f[k] = IF k = 1 THEN OneMore(t, said[t])
                  ELSE f[k - 1] \cup UNION {OneMore(t, w) : w \in f[k - 1]}
    BY <1>1 DEF Grows
  <2>2. 1 \in 1..Burst /\ \A k \in 2..Burst : k \in 1..Burst /\ k # 1
    BY <1>2
  <2> QED BY <2>1, <2>2
<1>4. ASSUME NEW w \in Seq(Responses), NEW v \in OneMore(t, w)
      PROVE  /\ v \in Seq(Responses) /\ Promise(t, v) /\ Len(v) = Len(w) + 1
             /\ \A i \in 1..Len(w) : v[i] = w[i]
  <2>1. PICK r \in Replies : v = Append(w, r)
    BY <1>4 DEF OneMore
  <2>2. Promise(t, v)
    BY <1>4 DEF OneMore
  <2>3. r \in Responses
    BY RepliesAre
  <2> QED BY <2>1, <2>2, <2>3, AppendProperties
<1>5. ASSUME NEW v \in OneMore(t, said[t]) PROVE Good(v)
  BY <1>2, <1>4
<1>6. ASSUME NEW w, Good(w), NEW v \in OneMore(t, w) PROVE Good(v)
  <2>1. Len(w) \in Nat /\ 1..Len(said[t]) \subseteq 1..Len(w)
    BY <1>2, <1>6, LenProperties
  <2>2. /\ v \in Seq(Responses) /\ Promise(t, v) /\ Len(v) = Len(w) + 1
        /\ \A i \in 1..Len(w) : v[i] = w[i]
    BY <1>4, <1>6
  <2> QED BY <2>1, <2>2, <1>2, <1>6
<1> DEFINE T == {k \in 1..Burst : \E w \in f[k] : ~Good(w)}
<1>7. T = {}
  <2> SUFFICES ASSUME T # {} PROVE FALSE
    OBVIOUS
  <2>1. PICK m \in T : \A k \in T : m <= k
    <3>1. T \in SUBSET Nat
      BY <1>2
    <3> HIDE DEF T
    <3> QED BY <3>1, LeastExists
  <2>2. PICK w \in f[m] : ~Good(w)
    OBVIOUS
  <2>3. m # 1
    BY <2>2, <1>3, <1>5
  <2>4. m \in 2..Burst /\ m - 1 \in 1..Burst /\ ~(m <= m - 1)
    BY <2>3, <1>2
  <2>5. \A v \in f[m - 1] : Good(v)
    BY <2>1, <2>4
  <2>6. w \in f[m - 1] \/ \E v \in f[m - 1] : w \in OneMore(t, v)
    BY <2>2, <2>4, <1>3
  <2> HIDE DEF Good
  <2> QED BY <2>2, <2>5, <2>6, <1>6
<1>8. Burst \in 1..Burst
  BY <1>2
<1>9. Good(s)
  BY <1>1, <1>7, <1>8
<1> QED BY <1>9

-----------------------------------------------------------------------------
(* What comes in, through all the lists.                                   *)

Entries == [thread : Threads, pos : Nat \ {0}]

(* All that was collected from transfer threads.                           *)
Way == handled \o wait \o coming

InType ==
    /\ handled \in Seq(Entries) /\ wait \in Seq(Entries) /\ coming \in Seq(Entries)
    /\ inlist \in [Threads -> Seq(Entries)]
    /\ nin \in [Threads -> Nat]

Ordered(s) ==
    \A i, j \in 1..Len(s) : i < j /\ s[i].thread = s[j].thread => s[i].pos < s[j].pos

Precedes(a, b) ==
    \A x \in Elements(a), y \in Elements(b) : x.thread = y.thread => x.pos < y.pos

From(t, S) == {x.pos : x \in {y \in S : y.thread = t}}

(* InOnceInOrder, in parts.                                                *)
InInv ==
    /\ Ordered(Way)
    /\ \A t \in Threads :
          /\ Ordered(inlist[t])
          /\ \A x \in Elements(inlist[t]) : x.thread = t
          /\ Precedes(Way, inlist[t])
          /\ From(t, Elements(Way) \cup Elements(inlist[t])) = 1..nin[t]

LEMMA OrderedConcat ==
    ASSUME NEW a \in Seq(Entries), NEW b \in Seq(Entries)
    PROVE  Ordered(a \o b) <=> Ordered(a) /\ Ordered(b) /\ Precedes(a, b)
<1> DEFINE s == a \o b
<1>0. Len(s) = Len(a) + Len(b) /\ Len(a) \in Nat /\ Len(b) \in Nat
  BY ConcatProperties, LenProperties
<1>1. (\A i \in 1..Len(a) : s[i] = a[i]) /\ (\A i \in 1..Len(b) : s[Len(a) + i] = b[i])
  <2>1. \A i \in 1..Len(s) : s[i] = IF i <= Len(a) THEN a[i] ELSE b[i - Len(a)]
    BY <1>0, ConcatProperties
  <2> QED BY <2>1, <1>0
<1> HIDE DEF s
<1>2. \A i \in 1..Len(a) : i \in 1..Len(s)
  BY <1>0
<1>3. \A i \in 1..Len(b) : Len(a) + i \in 1..Len(s)
  BY <1>0
<1>4. \A i \in 1..Len(a), j \in 1..Len(b) : i < Len(a) + j
  BY <1>0
<1>5. \A i, j \in 1..Len(b) : i < j <=> Len(a) + i < Len(a) + j
  BY <1>0
<1>6. \A j \in 1..Len(s) : j \in 1..Len(a) \/ \E k \in 1..Len(b) : j = Len(a) + k
  <2> TAKE j \in 1..Len(s)
  <2>1. CASE j <= Len(a)
    BY <2>1
  <2>2. CASE ~(j <= Len(a))
    <3>1. j - Len(a) \in 1..Len(b) /\ j = Len(a) + (j - Len(a))
      BY <2>2, <1>0
    <3> QED BY <3>1
  <2> QED BY <2>1, <2>2
<1>7. ASSUME Ordered(s) PROVE Ordered(a) /\ Ordered(b) /\ Precedes(a, b)
  <2>1. Ordered(a)
    BY <1>1, <1>2, <1>7 DEF Ordered
  <2>2. Ordered(b)
    <3> SUFFICES ASSUME NEW i \in 1..Len(b), NEW j \in 1..Len(b), i < j,
                        b[i].thread = b[j].thread
                 PROVE  b[i].pos < b[j].pos
      BY DEF Ordered
    <3>1. Len(a) + i \in 1..Len(s) /\ Len(a) + j \in 1..Len(s) /\ Len(a) + i < Len(a) + j
      BY <1>3, <1>5
    <3>2. s[Len(a) + i] = b[i] /\ s[Len(a) + j] = b[j]
      BY <1>1
    <3> QED BY <3>1, <3>2, <1>7 DEF Ordered
  <2>3. Precedes(a, b)
    <3> SUFFICES ASSUME NEW i \in 1..Len(a), NEW j \in 1..Len(b),
                        a[i].thread = b[j].thread
                 PROVE  a[i].pos < b[j].pos
      BY DEF Precedes, Elements
    <3>1. i \in 1..Len(s) /\ Len(a) + j \in 1..Len(s) /\ i < Len(a) + j
      BY <1>2, <1>3, <1>4
    <3>2. s[i] = a[i] /\ s[Len(a) + j] = b[j]
      BY <1>1
    <3> QED BY <3>1, <3>2, <1>7 DEF Ordered
  <2> QED BY <2>1, <2>2, <2>3
<1>8. ASSUME Ordered(a), Ordered(b), Precedes(a, b) PROVE Ordered(s)
  <2> SUFFICES ASSUME NEW i \in 1..Len(s), NEW j \in 1..Len(s), i < j,
                      s[i].thread = s[j].thread
               PROVE  s[i].pos < s[j].pos
    BY DEF Ordered
  <2>1. CASE j \in 1..Len(a)
    <3>1. i \in 1..Len(a)
      BY <2>1, <1>0
    <3> QED BY <2>1, <3>1, <1>1, <1>8 DEF Ordered
  <2>2. CASE ~(j \in 1..Len(a))
    <3>1. PICK k \in 1..Len(b) : j = Len(a) + k
      BY <2>2, <1>6
    <3>2. s[j] = b[k]
      BY <3>1, <1>1
    <3>3. CASE i \in 1..Len(a)
      <4>1. s[i] = a[i] /\ a[i] \in Elements(a) /\ b[k] \in Elements(b)
        BY <3>3, <1>1 DEF Elements
      <4> QED BY <4>1, <3>2, <1>8 DEF Precedes
    <3>4. CASE ~(i \in 1..Len(a))
      <4>1. PICK h \in 1..Len(b) : i = Len(a) + h
        BY <3>4, <1>6
      <4>2. s[i] = b[h] /\ h < k
        BY <4>1, <3>1, <1>1, <1>5
      <4> QED BY <4>2, <3>2, <1>8 DEF Ordered
    <3> QED BY <3>3, <3>4
  <2> QED BY <2>1, <2>2
<1> QED BY <1>7, <1>8 DEF s

LEMMA WayType == ASSUME InType PROVE Way \in Seq(Entries)
  BY ConcatProperties DEF InType, Way

LEMMA InIs == ASSUME InType, InInv PROVE InOnceInOrder
<1> SUFFICES ASSUME NEW t \in Threads
             PROVE  LET path == handled \o wait \o coming \o inlist[t]
                        mine == {i \in 1..Len(path) : path[i].thread = t}
                    IN  /\ \A i, j \in mine : i < j => path[i].pos < path[j].pos
                        /\ {path[i].pos : i \in mine} = 1..nin[t]
                        /\ \A i \in 1..Len(inlist[t]) : inlist[t][i].thread = t
  BY Zenon DEF InOnceInOrder
<1> DEFINE path == Way \o inlist[t]
           mine == {i \in 1..Len(path) : path[i].thread = t}
<1>1. Way \in Seq(Entries) /\ inlist[t] \in Seq(Entries)
  BY WayType DEF InType
<1>2. path \in Seq(Entries) /\ Elements(path) = Elements(Way) \cup Elements(inlist[t])
  BY <1>1, ElementsOfBoth
<1>3. Ordered(path)
  BY <1>1, OrderedConcat DEF InInv
<1> HIDE DEF path
<1>4. \A i, j \in mine : i < j => path[i].pos < path[j].pos
  BY <1>3 DEF Ordered
<1>5. {path[i].pos : i \in mine} = From(t, Elements(path))
  BY DEF From, Elements
<1>6. {path[i].pos : i \in mine} = 1..nin[t]
  BY <1>2, <1>5 DEF InInv
<1>7. \A i \in 1..Len(inlist[t]) : inlist[t][i].thread = t
  BY DEF InInv, Elements
<1> HIDE DEF mine
<1>8. path = handled \o wait \o coming \o inlist[t]
  BY DEF path, Way
<1> QED BY <1>4, <1>6, <1>7, <1>8 DEF mine

(* A step leaves the lists alone, or moves packets from one to the next,   *)
(* or reads a packet, or collects what a thread has read.                  *)
Passed == Way' = Way /\ UNCHANGED inVars

Received(t) ==
    /\ Way' = Way
    /\ nin' = [nin EXCEPT ![t] = @ + 1]
    /\ inlist' = [inlist EXCEPT ![t] = Append(@, [thread |-> t, pos |-> nin[t] + 1])]

Collected(t) ==
    /\ Way' = Way \o inlist[t]
    /\ nin' = nin
    /\ inlist' = [inlist EXCEPT ![t] = <<>>]

LEMMA PassedKeeps == ASSUME InInv, Passed PROVE InInv'
  BY DEF InInv, Passed, inVars

LEMMA ReceivedKeeps ==
    ASSUME InType, InInv, NEW t \in Threads, Received(t) PROVE InInv'
<1> DEFINE n == nin[t] + 1
           e == [thread |-> t, pos |-> n]
           new == Append(inlist[t], e)
<1>1. e \in Entries /\ e.thread = t /\ e.pos = n /\ n \in Nat /\ nin[t] \in Nat
  BY DEF InType, Entries
<1>2. inlist[t] \in Seq(Entries) /\ <<e>> \in Seq(Entries)
  BY <1>1 DEF InType
<1>3. new = inlist[t] \o <<e>>
  <2> DEFINE l == inlist[t]
  <2> HIDE DEF e, l
  <2>1. l \in Seq(Entries)
    BY <1>2 DEF l
  <2>2. Append(l, e) = l \o <<e>>
    BY <1>1, <2>1, AppendIsConcat
  <2> QED BY <2>2 DEF l
<1>4. Elements(<<e>>) = {e} /\ Ordered(<<e>>)
  BY DEF Elements, Ordered
<1>5. inlist'[t] = new /\ nin'[t] = n /\ Way' = Way
      /\ \A u \in Threads \ {t} : inlist'[u] = inlist[u] /\ nin'[u] = nin[u]
  BY DEF Received, InType
<1> HIDE DEF e, new
<1>6. Elements(new) = Elements(inlist[t]) \cup {e}
  <2>1. Elements(inlist[t] \o <<e>>) = Elements(inlist[t]) \cup Elements(<<e>>)
    BY <1>2, ElementsOfBoth, ZenonT(30)
  <2> QED BY <2>1, <1>3, <1>4
<1>7. \A x \in Elements(Way) \cup Elements(inlist[t]) : x.thread = t => x.pos < n
  <2> TAKE x \in Elements(Way) \cup Elements(inlist[t])
  <2>1. x.thread = t => x.pos \in 1..nin[t]
    BY DEF InInv, From
  <2> QED BY <2>1, <1>1 DEF n
<1>8. Ordered(new)
  <2>1. Precedes(inlist[t], <<e>>)
    BY <1>1, <1>4, <1>7 DEF Precedes
  <2>2. Ordered(inlist[t])
    BY DEF InInv
  <2>3. Ordered(inlist[t] \o <<e>>)
    BY <2>1, <2>2, <1>2, <1>4, OrderedConcat
  <2> QED BY <2>3, <1>3
<1>9. Precedes(Way, new)
  BY <1>1, <1>6, <1>7 DEF InInv, Precedes
<1>10. From(t, Elements(Way) \cup Elements(new)) = 1..n
  <2>1. From(t, Elements(Way) \cup Elements(new))
           = From(t, Elements(Way) \cup Elements(inlist[t])) \cup {n}
    BY <1>1, <1>6 DEF From
  <2>2. 1..n = (1..nin[t]) \cup {n}
    BY <1>1 DEF n
  <2> QED BY <2>1, <2>2 DEF InInv
<1>11. \A x \in Elements(new) : x.thread = t
  BY <1>1, <1>6 DEF InInv
<1> HIDE DEF n
<1>12. ASSUME NEW u \in Threads
       PROVE  /\ Ordered(inlist'[u])
              /\ \A x \in Elements(inlist'[u]) : x.thread = u
              /\ Precedes(Way', inlist'[u])
              /\ From(u, Elements(Way') \cup Elements(inlist'[u])) = 1..nin'[u]
  <2>1. CASE u = t
    BY <2>1, <1>5, <1>8, <1>9, <1>10, <1>11
  <2>2. CASE u # t
    BY <2>2, <1>5 DEF InInv
  <2> QED BY <2>1, <2>2
<1>13. Ordered(Way')
  BY <1>5 DEF InInv
<1> QED BY <1>12, <1>13 DEF InInv

LEMMA CollectedKeeps ==
    ASSUME InType, InInv, NEW t \in Threads, Collected(t) PROVE InInv'
<1>1. Way \in Seq(Entries) /\ inlist[t] \in Seq(Entries)
  BY WayType DEF InType
<1>2. Way' = Way \o inlist[t] /\ inlist'[t] = <<>> /\ nin' = nin
      /\ \A u \in Threads \ {t} : inlist'[u] = inlist[u]
  BY DEF Collected, InType
<1>3. Elements(Way') = Elements(Way) \cup Elements(inlist[t])
  BY <1>1, <1>2, ElementsOfBoth
<1>4. Ordered(Way')
  BY <1>1, <1>2, OrderedConcat DEF InInv
<1>5. Elements(<<>>) = {} /\ Ordered(<<>>)
  BY DEF Elements, Ordered
<1>6. \A x \in Elements(inlist[t]) : x.thread = t
  BY DEF InInv
<1>7. ASSUME NEW u \in Threads
      PROVE  /\ Ordered(inlist'[u])
             /\ \A x \in Elements(inlist'[u]) : x.thread = u
             /\ Precedes(Way', inlist'[u])
             /\ From(u, Elements(Way') \cup Elements(inlist'[u])) = 1..nin'[u]
  <2>1. CASE u = t
    BY <2>1, <1>2, <1>3, <1>5 DEF InInv, Precedes
  <2>2. CASE u # t
    <3>1. inlist'[u] = inlist[u] /\ nin'[u] = nin[u]
      BY <2>2, <1>2
    <3>2. Precedes(Way', inlist[u])
      BY <2>2, <1>3, <1>6 DEF InInv, Precedes
    <3>3. From(u, Elements(Way') \cup Elements(inlist[u]))
            = From(u, Elements(Way) \cup Elements(inlist[u]))
      BY <2>2, <1>3, <1>6 DEF From
    <3> QED BY <3>1, <3>2, <3>3 DEF InInv
  <2> QED BY <2>1, <2>2
<1> QED BY <1>4, <1>7 DEF InInv

LEMMA MessageTimerIn == ASSUME InType, MessageTimer PROVE InType' /\ Passed
<1>1. handled \in Seq(Entries) /\ wait \in Seq(Entries) /\ coming \in Seq(Entries)
  BY DEF InType
<1>2. wait' = wait \o coming /\ coming' = <<>> /\ handled' = handled /\ UNCHANGED inVars
  BY DEF MessageTimer, Joined
<1>3. wait \o coming \in Seq(Entries)
  BY <1>1, ConcatProperties
<1>4. Way' = handled \o (wait \o coming)
  <2>1. handled \o (wait \o coming) \in Seq(Entries)
    BY <1>1, <1>3, ConcatProperties
  <2>2. (handled \o (wait \o coming)) \o <<>> = handled \o (wait \o coming)
    BY <2>1, ConcatEmptySeq
  <2> QED BY <2>2, <1>2 DEF Way
<1>5. Way = handled \o (wait \o coming)
  BY <1>1, ConcatAssociative DEF Way
<1>6. InType'
  BY <1>2, <1>3, EmptySeq DEF InType, inVars
<1> QED BY <1>2, <1>4, <1>5, <1>6 DEF Passed

LEMMA ProcessIn == ASSUME InType, Process PROVE InType' /\ Passed
<1> DEFINE e == Head(wait)
<1>1. handled \in Seq(Entries) /\ wait \in Seq(Entries) /\ coming \in Seq(Entries)
      /\ wait # <<>>
  BY DEF InType, Process
<1>2. handled' = Append(handled, e) /\ wait' = Tail(wait) /\ coming' = coming
      /\ UNCHANGED inVars
  BY DEF Process
<1>3. e \in Entries /\ Tail(wait) \in Seq(Entries) /\ Append(handled, e) \in Seq(Entries)
  BY <1>1, HeadTailProperties, AppendProperties
<1>4. Append(handled, e) = handled \o <<e>> /\ wait = <<e>> \o Tail(wait)
      /\ <<e>> \in Seq(Entries)
  <2>1. wait = <<e>> \o Tail(wait)
    BY <1>1
  <2> QED BY <2>1, <1>1, <1>3, AppendIsConcat
<1> HIDE DEF e
<1>5. (handled \o <<e>>) \o Tail(wait) = handled \o (<<e>> \o Tail(wait))
  BY <1>1, <1>3, <1>4, ConcatAssociative
<1>6. Way' = Way
  BY <1>2, <1>4, <1>5 DEF Way
<1>7. InType'
  BY <1>1, <1>2, <1>3 DEF InType, inVars
<1> QED BY <1>2, <1>6, <1>7 DEF Passed

LEMMA GetFinishIn ==
    ASSUME InType, NEW t \in Threads, GetFinish(t) PROVE InType' /\ Received(t)
<1> DEFINE e == [thread |-> t, pos |-> nin[t] + 1]
<1>1. e \in Entries /\ nin[t] + 1 \in Nat
  BY DEF InType, Entries
<1>2. nin' = [nin EXCEPT ![t] = nin[t] + 1]
      /\ inlist' = [inlist EXCEPT ![t] = Append(inlist[t], e)]
      /\ UNCHANGED <<handled, wait, coming>>
  BY DEF GetFinish, guiVars
<1>3. Append(inlist[t], e) \in Seq(Entries)
  BY <1>1, AppendProperties DEF InType
<1>4. Received(t)
  BY <1>2 DEF Received, Way
<1> HIDE DEF e
<1>5. InType'
  BY <1>1, <1>2, <1>3 DEF InType
<1> QED BY <1>4, <1>5

LEMMA CollectIn ==
    ASSUME InType, NEW t \in Threads, Collect(t) PROVE InType' /\ Collected(t)
<1>1. coming' = coming \o inlist[t] /\ inlist' = [inlist EXCEPT ![t] = <<>>]
      /\ UNCHANGED <<handled, wait, nin>>
  BY DEF Collect, Joined, guiVars
<1>2. handled \in Seq(Entries) /\ wait \in Seq(Entries) /\ coming \in Seq(Entries)
      /\ inlist[t] \in Seq(Entries)
  BY DEF InType
<1>3. coming \o inlist[t] \in Seq(Entries) /\ handled \o wait \in Seq(Entries)
  BY <1>2, ConcatProperties
<1>4. (handled \o wait) \o (coming \o inlist[t]) = ((handled \o wait) \o coming) \o inlist[t]
  <2> DEFINE a == handled \o wait
             b == inlist[t]
  <2>1. a \in Seq(Entries) /\ b \in Seq(Entries) /\ coming \in Seq(Entries)
    BY <1>2, <1>3
  <2> HIDE DEF a, b
  <2>2. (a \o coming) \o b = a \o (coming \o b)
    BY <2>1, ConcatAssociative
  <2> QED BY <2>2 DEF a, b
<1>5. Collected(t)
  BY <1>1, <1>4 DEF Collected, Way
<1>6. InType'
  BY <1>1, <1>2, <1>3, EmptySeq DEF InType
<1> QED BY <1>5, <1>6

LEMMA KeptIn ==
    ASSUME InType, UNCHANGED <<handled, wait, coming, inlist, nin>> PROVE InType' /\ Passed
  BY DEF InType, Passed, Way, inVars

LEMMA StepIn ==
    ASSUME InType, [Next]_vars
    PROVE  InType' /\ \/ Passed
                      \/ \E t \in Threads : nin[t] < Len(said[t]) /\ Received(t)
                      \/ \E t \in Threads : Live(t) /\ Collected(t)
<1>1. CASE UNCHANGED vars
  <2>1. UNCHANGED <<handled, wait, coming, inlist, nin>>
    BY <1>1 DEF vars
  <2> QED BY <2>1, KeptIn
<1>2. CASE Gui
  <2>1. CASE MessageTimer \/ Process
    BY <2>1, MessageTimerIn, ProcessIn
  <2>2. CASE ~MessageTimer /\ ~Process
    <3>1. UNCHANGED <<handled, wait, coming, inlist, nin>>
      BY <1>2, <2>2
      DEF Gui, User, LoginClick, Disconnect, Reconnect, SendChat, Relogin, StatusTimer, Messages,
          ProcessDone, Quit, guiVars, inVars
    <3> QED BY <3>1, KeptIn
  <2> QED BY <2>1, <2>2
<1>3. CASE \E t \in Threads : Transfer(t)
  <2>1. PICK t \in Threads : Transfer(t)
    BY <1>3
  <2>2. CASE GetFinish(t)
    BY <2>2, GetFinishIn DEF GetFinish
  <2>3. CASE Collect(t)
    BY <2>3, CollectIn DEF Collect, Live
  <2>4. CASE ~GetFinish(t) /\ ~Collect(t)
    <3>1. UNCHANGED <<handled, wait, coming, inlist, nin>>
      BY <2>1, <2>4
      DEF Transfer, Connected, ConnectFailed, Loop, LoopTop, Exit, CheckNeed, Splice, WaitEvent,
          WaitTimeout, GetDone, Output, guiVars, inVars
    <3> QED BY <3>1, KeptIn
  <2> QED BY <2>2, <2>3, <2>4
<1>4. CASE \E t \in Threads : Outside(t)
  <2>1. UNCHANGED <<handled, wait, coming, inlist, nin>>
    BY <1>4 DEF Outside, guiVars, inVars
  <2> QED BY <2>1, KeptIn
<1> QED BY <1>1, <1>2, <1>3, <1>4 DEF Next

LEMMA InKeeps == ASSUME InType, InInv, [Next]_vars PROVE InType' /\ InInv'
  BY StepIn, PassedKeeps, ReceivedKeeps, CollectedKeeps

LEMMA InInit == ASSUME Init PROVE InType /\ InInv
<1>1. /\ handled = <<>> /\ wait = <<>> /\ coming = <<>>
      /\ inlist = [t \in Threads |-> <<>>] /\ nin = [t \in Threads |-> 0]
  BY DEF Init
<1>2. InType
  BY <1>1, EmptySeq DEF InType
<1>3. Way = <<>>
  BY <1>1, ConcatEmptySeq, EmptySeq DEF Way
<1>4. Elements(<<>>) = {} /\ Ordered(<<>>) /\ Precedes(<<>>, <<>>)
  BY DEF Elements, Ordered, Precedes
<1>5. \A t \in Threads : inlist[t] = <<>> /\ 1..nin[t] = {}
  BY <1>1
<1>6. \A t \in Threads : From(t, {}) = {}
  BY DEF From
<1>7. \A t \in Threads : From(t, Elements(<<>>) \cup Elements(<<>>)) = {}
  BY <1>4, <1>6
<1>8. ASSUME NEW t \in Threads
      PROVE  /\ Ordered(inlist[t])
             /\ \A x \in Elements(inlist[t]) : x.thread = t
             /\ Precedes(Way, inlist[t])
             /\ From(t, Elements(Way) \cup Elements(inlist[t])) = 1..nin[t]
  BY <1>3, <1>4, <1>5, <1>7
<1> QED BY <1>2, <1>3, <1>4, <1>8 DEF InInv

(* What was read from a connection is processed in order, each packet      *)
(* once, through msg_input_list, message_comming and message_wait_proc     *)
(* (gui_client.c:181, gui_client.c:492).                                   *)
THEOREM InCorrect == Spec => []InOnceInOrder
<1>1. InType /\ InInv /\ [Next]_vars => (InType /\ InInv)'
  BY InKeeps
<1>2. Init => InType /\ InInv
  BY InInit
<1>3. InType /\ InInv => InOnceInOrder
  BY InIs
<1> QED BY <1>1, <1>2, <1>3, PTL DEF Spec

-----------------------------------------------------------------------------
(* The variables of few values.                                            *)

Kinds ==
    /\ alive \in BOOLEAN /\ mainPanel \in BOOLEAN /\ connStatus \in BOOLEAN
    /\ flag \in {"INACTIVE", "INIT", "LOGIN"}
    /\ gpc \in {"idle", "starting", "proc"}
    /\ tpc \in [Threads -> Places]
    /\ ev \in [Threads -> SUBSET {"IN", "OUT"}]
    /\ inEvent \in [Threads -> BOOLEAN] /\ outEvent \in [Threads -> BOOLEAN]
    /\ full \in [Threads -> BOOLEAN] /\ closed \in [Threads -> BOOLEAN]

(* A thread that has been started stays so.                                *)
Onward == \A t \in Threads : tpc[t] # "none" => tpc'[t] # "none"

LEMMA ProcessKinds == ASSUME Kinds, Process PROVE Kinds'
<1> DEFINE m == said[Head(wait).thread][Head(wait).pos]
<1>1. UNCHANGED <<gpc, tpc, ev, inEvent, outEvent, full, closed>>
  BY DEF Process, edges, serverVars
<1>2. LoginRespond(m) \/ PeerList(m) \/ UNCHANGED <<alive, flag, mainPanel, connStatus, peers>>
  BY DEF Process
<1> HIDE DEF m
<1>3. /\ alive' \in BOOLEAN /\ mainPanel' \in BOOLEAN /\ connStatus' \in BOOLEAN
      /\ flag' \in {"INACTIVE", "INIT", "LOGIN"}
  <2>1. CASE LoginRespond(m)
    <3>1. mainPanel' \in BOOLEAN
      BY <2>1, Zenon DEF LoginRespond
    <3>2. flag' \in {"INACTIVE", "INIT", "LOGIN"} /\ alive' \in BOOLEAN /\ connStatus' \in BOOLEAN
      BY <2>1 DEF LoginRespond, Kinds
    <3> QED BY <3>1, <3>2
  <2>2. CASE PeerList(m)
    BY <2>2 DEF PeerList, Kinds
  <2> QED BY <1>2, <2>1, <2>2 DEF Kinds
<1> QED BY <1>1, <1>3 DEF Kinds

LEMMA GuiKinds == ASSUME Kinds, Gui PROVE Kinds' /\ Onward
<1>1. CASE Process
  <2>1. Onward
    BY <1>1 DEF Process, Onward
  <2> QED BY <2>1, <1>1, ProcessKinds
<1>2. CASE MessageTimer /\ UNCHANGED alive
  BY <1>2 DEF MessageTimer, Kinds, Onward, panelVars, edges, serverVars
<1>3. CASE ProcessDone /\ UNCHANGED alive
  BY <1>3 DEF ProcessDone, Kinds, Onward, panelVars, edges, serverVars
<1>4. CASE SendChat /\ UNCHANGED alive
  BY <1>4 DEF SendChat, Kinds, Onward, guiVars, panelVars, edges, serverVars
<1>5. CASE Disconnect /\ UNCHANGED alive
  BY <1>5 DEF Disconnect, Kinds, Onward, edges, serverVars
<1>6. CASE StatusTimer /\ UNCHANGED alive
  BY <1>6 DEF StatusTimer, Kinds, Onward, edges, serverVars
<1>7. CASE Relogin /\ UNCHANGED alive
  BY <1>7 DEF Relogin, Kinds, Onward, edges, serverVars
<1>8. CASE Quit
  BY <1>8 DEF Quit, Kinds, Onward, guiVars, panelVars, edges, serverVars
<1>9. CASE (Reconnect \/ \E n \in Names : LoginClick(n)) /\ UNCHANGED alive
  <2>1. Start /\ UNCHANGED <<alive, mainPanel, connStatus, ev, inEvent, outEvent, full, closed>>
    BY <1>9 DEF Reconnect, LoginClick, panelVars, edges, serverVars
  <2> QED BY <2>1 DEF Start, Kinds, Onward, Places
<1> QED BY <1>1, <1>2, <1>3, <1>4, <1>5, <1>6, <1>7, <1>8, <1>9 DEF Gui, User, Messages

LEMMA TransferKinds ==
    ASSUME Kinds, alive, NEW t \in Threads, Transfer(t) PROVE Kinds' /\ Onward
<1>0. Moved(t) /\ UNCHANGED guiVars
  <2>1. tpc \in [Threads -> Places]
    BY DEF Kinds
  <2> QED BY <2>1, TransferTurn
<1>1. Onward /\ tpc' \in [Threads -> Places]
  BY <1>0 DEF Moved, Onward
<1>2. UNCHANGED <<gpc, mainPanel, connStatus>>
  BY <1>0 DEF guiVars, panelVars
<1>3. CASE Connected(t)
  BY <1>1, <1>2, <1>3 DEF Connected, Kinds, edges, serverVars
<1>4. CASE ConnectFailed(t)
  BY <1>1, <1>2, <1>4 DEF ConnectFailed, Kinds, edges, serverVars
<1>5. CASE LoopTop(t) \/ CheckNeed(t) \/ WaitTimeout(t) \/ GetFinish(t) \/ GetDone(t)
  BY <1>1, <1>2, <1>5
  DEF LoopTop, CheckNeed, WaitTimeout, GetFinish, GetDone, Kinds, edges, serverVars
<1>6. CASE Exit(t)
  BY <1>1, <1>2, <1>6 DEF Exit, Kinds
<1>7. CASE WaitEvent(t)
  <2>1. ev' \in [Threads -> SUBSET {"IN", "OUT"}]
    BY <1>7 DEF WaitEvent, Kinds
  <2> QED BY <2>1, <1>1, <1>2, <1>7 DEF WaitEvent, Kinds, serverVars
<1>8. CASE Collect(t)
  BY <1>1, <1>2, <1>8 DEF Collect, Kinds, edges, serverVars
<1>9. ASSUME NEW q, SendQueue(t, q) \/ WriteFails(t, q) PROVE full' \in [Threads -> BOOLEAN]
  <2>1. CASE SendQueue(t, q)
    <3>1. PICK k \in 0..Len(q) : full' = [full EXCEPT ![t] = k < Len(q)]
      BY <2>1, Zenon DEF SendQueue
    <3>2. (k < Len(q)) = TRUE \/ (k < Len(q)) = FALSE
      OBVIOUS
    <3>3. (k < Len(q)) \in BOOLEAN
      BY <3>2
    <3> QED BY <3>1, <3>3 DEF Kinds
  <2>2. CASE WriteFails(t, q)
    BY <2>2 DEF WriteFails, Kinds
  <2> QED BY <1>9, <2>1, <2>2
<1>10. CASE Splice(t)
  <2>1. full' \in [Threads -> BOOLEAN]
    BY <1>9, <1>10 DEF Splice
  <2>2. alive' \in BOOLEAN
    BY <1>10 DEF Splice, WriteFails, Kinds
  <2> QED BY <2>1, <2>2, <1>1, <1>2, <1>10 DEF Splice, Kinds, serverVars
<1>11. CASE Output(t)
  <2>1. full' \in [Threads -> BOOLEAN]
    BY <1>9, <1>11 DEF Output, Kinds
  <2>2. alive' \in BOOLEAN /\ flag' \in {"INACTIVE", "INIT", "LOGIN"}
    BY <1>11 DEF Output, WriteFails, Kinds
  <2> QED BY <2>1, <2>2, <1>1, <1>2, <1>11 DEF Output, Kinds, serverVars
<1> QED BY <1>3, <1>4, <1>5, <1>6, <1>7, <1>8, <1>10, <1>11 DEF Transfer, Loop

LEMMA StepKinds == ASSUME Kinds, [Next]_vars PROVE Kinds' /\ Onward
<1>1. CASE UNCHANGED vars
  BY <1>1 DEF vars, Kinds, Onward
<1>2. CASE Gui
  BY <1>2, GuiKinds
<1>3. CASE alive /\ \E t \in Threads : Transfer(t)
  BY <1>3, TransferKinds
<1>4. CASE \E t \in Threads : Outside(t) /\ UNCHANGED alive
  BY <1>4
  DEF Outside, ServerWrites, ServerClose, Drain, Kinds, Onward, guiVars, panelVars
<1> QED BY <1>1, <1>2, <1>3, <1>4 DEF Next

-----------------------------------------------------------------------------
(* What the server has said.                                               *)

(* Members come behind the answer to a login.                              *)
SaidInv ==
    /\ said \in [Threads -> Seq(Responses)]
    /\ \A t \in Threads :
          /\ nin[t] <= Len(said[t])
          /\ tpc[t] = "none" => said[t] = <<>>
          /\ \A i \in 1..Len(said[t]) : said[t][i].type = "PEER_LIST" =>
                \E j \in 1..(i - 1) : said[t][j] = Ok

(* What was said is not taken back.                                        *)
Grown ==
    \A t \in Threads : \A i \in 1..Len(said[t]) :
        i \in 1..Len(said'[t]) /\ said'[t][i] = said[t][i]

LEMMA AnswerFirst ==
    ASSUME NEW t \in Threads, NEW s \in Seq(Responses), Promise(t, s)
    PROVE  \A i \in 1..Len(s) : s[i].type = "PEER_LIST" => \E j \in 1..(i - 1) : s[j] = Ok
<1> DEFINE T == {i \in 1..Len(s) : s[i].type = "PEER_LIST" /\ ~ \E j \in 1..(i - 1) : s[j] = Ok}
<1> SUFFICES ASSUME T # {} PROVE FALSE
  OBVIOUS
<1>1. Len(s) \in Nat /\ T \in SUBSET Nat
  BY LenProperties
<1>2. PICK m \in T : \A k \in T : m <= k
  <2> HIDE DEF T
  <2> QED BY <1>1, LeastExists
<1>3. m \in 1..Len(s) /\ s[m].type = "PEER_LIST" /\ ~ \E j \in 1..(m - 1) : s[j] = Ok
  OBVIOUS
<1>4. PICK j \in 1..Len(Rows) :
          m > 1 /\ s[m - 1] = IF j = 1 THEN Ok ELSE Rows[j - 1]
  BY <1>3 DEF Promise
<1>5. m - 1 \in 1..(m - 1) /\ m - 1 \in 1..Len(s) /\ ~(m <= m - 1)
  BY <1>1, <1>3, <1>4
<1>6. s[m - 1] = Rows[j - 1] /\ j # 1
  BY <1>3, <1>4, <1>5
<1>7. Rows[j - 1].type = "PEER_LIST"
  <2>1. Len(MemberList) \in Nat
    BY ClientAssumption, LenProperties
  <2>2. j - 1 \in 1..Len(MemberList)
    BY <1>6, <2>1 DEF Rows
  <2> QED BY <2>2 DEF Rows
<1>8. m - 1 \notin T
  BY <1>2, <1>5
<1>9. PICK k \in 1..((m - 1) - 1) : s[k] = Ok
  BY <1>5, <1>6, <1>7, <1>8
<1>10. k \in 1..(m - 1)
  BY <1>1, <1>3
<1> QED BY <1>3, <1>9, <1>10

LEMMA SaidWritten ==
    ASSUME InType, SaidInv, NEW t \in Threads, ServerWrites(t), nin' = nin, Onward
    PROVE  SaidInv' /\ Grown
<1>1. PICK s \in Longer(t) : said' = [said EXCEPT ![t] = s]
  BY DEF ServerWrites
<1>2. tpc[t] # "none"
  BY DEF ServerWrites, Served, Live
<1>3. /\ s \in Seq(Responses) /\ Promise(t, s)
      /\ Len(said[t]) < Len(s)
      /\ \A i \in 1..Len(said[t]) : s[i] = said[t][i]
  BY LongerHas DEF SaidInv
<1>4. said' \in [Threads -> Seq(Responses)] /\ said'[t] = s
      /\ \A u \in Threads \ {t} : said'[u] = said[u]
  BY <1>1, <1>3 DEF SaidInv
<1>5. Len(said[t]) \in Nat /\ Len(s) \in Nat
  BY <1>3, LenProperties DEF SaidInv
<1>6. \A i \in 1..Len(s) : s[i].type = "PEER_LIST" => \E j \in 1..(i - 1) : s[j] = Ok
  BY <1>3, AnswerFirst
<1>7. ASSUME NEW u \in Threads
      PROVE  /\ nin[u] <= Len(said'[u])
             /\ tpc'[u] = "none" => said'[u] = <<>>
             /\ \A i \in 1..Len(said'[u]) : said'[u][i].type = "PEER_LIST" =>
                   \E j \in 1..(i - 1) : said'[u][j] = Ok
             /\ \A i \in 1..Len(said[u]) : i \in 1..Len(said'[u]) /\ said'[u][i] = said[u][i]
  <2>1. CASE u = t
    <3>1. nin[u] <= Len(said'[u])
      <4>1. nin[t] \in Nat /\ nin[t] <= Len(said[t])
        BY DEF InType, SaidInv
      <4> QED BY <4>1, <2>1, <1>3, <1>4, <1>5
    <3>2. \A i \in 1..Len(said[u]) : i \in 1..Len(said'[u]) /\ said'[u][i] = said[u][i]
      BY <2>1, <1>3, <1>4, <1>5
    <3>3. tpc'[u] # "none"
      BY <2>1, <1>2 DEF Onward
    <3> QED BY <2>1, <3>1, <3>2, <3>3, <1>4, <1>6
  <2>2. CASE u # t
    <3>1. said'[u] = said[u]
      BY <2>2, <1>4
    <3>2. tpc'[u] = "none" => tpc[u] = "none"
      BY DEF Onward
    <3> QED BY <3>1, <3>2 DEF SaidInv
  <2> QED BY <2>1, <2>2
<1> QED BY <1>4, <1>7 DEF SaidInv, Grown

LEMMA SaidKept ==
    ASSUME SaidInv, said' = said, Onward,
           \A t \in Threads : nin'[t] <= Len(said[t])
    PROVE  SaidInv' /\ Grown
  BY DEF SaidInv, Grown, Onward

LEMMA StepSaid ==
    ASSUME InType, Kinds, SaidInv, [Next]_vars PROVE SaidInv' /\ Grown
<1>1. Kinds' /\ Onward
  BY StepKinds
<1>2. CASE \E t \in Threads : ServerWrites(t) /\ nin' = nin
  BY <1>2, <1>1, SaidWritten
<1>3. CASE said' = said
  <2>1. ASSUME NEW t \in Threads PROVE nin'[t] <= Len(said[t])
    <3>1. CASE nin' = nin
      BY <3>1 DEF SaidInv
    <3>2. CASE nin' # nin
      <4>1. PICK u \in Threads : nin[u] < Len(said[u]) /\ Received(u)
        BY <3>2, StepIn DEF Passed, inVars, Collected
      <4>2. nin[u] \in Nat /\ Len(said[u]) \in Nat
        BY LenProperties DEF InType, SaidInv
      <4>3. nin'[t] = IF t = u THEN nin[u] + 1 ELSE nin[t]
        BY <4>1 DEF Received, InType
      <4>4. nin[t] <= Len(said[t])
        BY DEF SaidInv
      <4> QED BY <4>1, <4>2, <4>3, <4>4
    <3> QED BY <3>1, <3>2
  <2> QED BY <1>1, <1>3, <2>1, SaidKept
<1>4. CASE ~(said' = said)
  <2>1. PICK t \in Threads : Outside(t)
    <3>1. ASSUME UNCHANGED vars PROVE FALSE
      BY <3>1, <1>4 DEF vars
    <3>2. ASSUME Gui PROVE FALSE
      BY <3>2, <1>4
      DEF Gui, User, LoginClick, Disconnect, Reconnect, SendChat, Relogin, StatusTimer, Messages,
          Process, MessageTimer, ProcessDone, Quit, serverVars
    <3>3. ASSUME NEW t \in Threads, Transfer(t) PROVE FALSE
      BY <3>3, <1>4
      DEF Transfer, Connected, ConnectFailed, Loop, LoopTop, Exit, CheckNeed, Splice, WaitEvent,
          WaitTimeout, GetFinish, GetDone, Output, Collect, serverVars
    <3> QED BY <3>1, <3>2, <3>3 DEF Next
  <2>2. ServerWrites(t) /\ nin' = nin
    BY <2>1, <1>4 DEF Outside, ServerClose, Drain, inVars
  <2> QED BY <2>2, <1>2
<1> QED BY <1>3, <1>4

(* What has been read had been said.                                       *)
LEMMA Heard ==
    ASSUME InType, InInv, SaidInv, NEW x \in Elements(Way)
    PROVE  /\ x \in Entries /\ x.thread \in Threads
           /\ x.pos \in 1..nin[x.thread] /\ x.pos \in 1..Len(said[x.thread])
           /\ said[x.thread][x.pos] \in Responses
<1>1. Way \in Seq(Entries)
  BY WayType
<1>2. x \in Entries
  BY <1>1, ElementOfSeq DEF Elements
<1>3. x.thread \in Threads
  BY <1>2 DEF Entries
<1>4. x.pos \in 1..nin[x.thread]
  <2>1. x.pos \in From(x.thread, Elements(Way) \cup Elements(inlist[x.thread]))
    BY DEF From
  <2> QED BY <2>1, <1>3 DEF InInv
<1>5. nin[x.thread] \in Nat /\ said[x.thread] \in Seq(Responses)
      /\ nin[x.thread] <= Len(said[x.thread])
  BY <1>3 DEF InType, SaidInv
<1>6. Len(said[x.thread]) \in Nat
  BY <1>5, LenProperties
<1>7. x.pos \in 1..Len(said[x.thread])
  BY <1>4, <1>5, <1>6
<1>8. said[x.thread][x.pos] \in Responses
  BY <1>5, <1>7, ElementOfSeq
<1> QED BY <1>2, <1>3, <1>4, <1>7, <1>8

LEMMA ElementsOfWay ==
    ASSUME InType
    PROVE  Elements(Way) = Elements(handled) \cup Elements(wait) \cup Elements(coming)
<1>1. handled \in Seq(Entries) /\ wait \in Seq(Entries) /\ coming \in Seq(Entries)
  BY DEF InType
<1>2. handled \o wait \in Seq(Entries)
      /\ Elements(handled \o wait) = Elements(handled) \cup Elements(wait)
  BY <1>1, ElementsOfBoth
<1>3. Elements((handled \o wait) \o coming) = Elements(handled \o wait) \cup Elements(coming)
  <2> DEFINE a == handled \o wait
  <2>1. a \in Seq(Entries)
    BY <1>2
  <2> HIDE DEF a
  <2>2. Elements(a \o coming) = Elements(a) \cup Elements(coming)
    BY <1>1, <2>1, ElementsOfBoth, ZenonT(30)
  <2> QED BY <2>2 DEF a
<1> QED BY <1>2, <1>3 DEF Way

-----------------------------------------------------------------------------
(* The user, the panels and the members.                                   *)

Requests == [type : {"LOGIN"}, name : Names, thread : Threads] \cup [type : {"CHART"}, from : Names]

(* There is no member without a main panel, no main panel without an       *)
(* answer to a login, and no answer before a thread was started and so the *)
(* name was known.                                                         *)
UserInv ==
    /\ loginName \in Names \cup {NoName}
    /\ peers \subseteq Names
    /\ asked \in Seq(Requests)
    /\ gpc = "starting" => Started # {}
    /\ Started # {} => loginName \in Names
    /\ mainPanel => Started # {}
    /\ peers # {} => mainPanel
    /\ \A x \in Elements(handled) : said[x.thread][x.pos] = Ok => mainPanel

LEMMA LastIs == ASSUME Started # {} PROVE LastThread \in Threads
<1> DEFINE T == {MaxThreads - t : t \in Started}
<1>1. MaxThreads \in Nat /\ \A t \in Started : t \in 1..MaxThreads
  BY ClientAssumption DEF Started, Threads
<1>2. T \in SUBSET Nat /\ T # {}
  BY <1>1
<1>3. PICK m \in T : \A k \in T : m <= k
  <2> HIDE DEF T
  <2> QED BY <1>2, LeastExists
<1>4. PICK t \in Started : m = MaxThreads - t
  OBVIOUS
<1>5. ASSUME NEW u \in Started PROVE u <= t
  <2>1. MaxThreads - t <= MaxThreads - u
    BY <1>3, <1>4
  <2>2. t \in Int /\ u \in Int
    BY <1>1
  <2> QED BY <2>1, <2>2, <1>1
<1>6. LastThread \in Started
  BY <1>5 DEF LastThread
<1> QED BY <1>6 DEF Started

(* Nothing of it is touched.                                               *)
UserKept ==
    /\ UNCHANGED <<loginName, peers, mainPanel, handled, asked>>
    /\ gpc' = "starting" => gpc = "starting"
    /\ Started' = Started

LEMMA HandledKept ==
    ASSUME InType, InInv, SaidInv, UserInv, Grown, handled' = handled, mainPanel => mainPanel'
    PROVE  \A x \in Elements(handled)' : said'[x.thread][x.pos] = Ok => mainPanel'
<1> SUFFICES ASSUME NEW x \in Elements(handled), said'[x.thread][x.pos] = Ok PROVE mainPanel'
  BY DEF Elements
<1>1. x.thread \in Threads /\ x.pos \in 1..Len(said[x.thread])
  BY ElementsOfWay, Heard
<1>2. said[x.thread][x.pos] = Ok
  BY <1>1 DEF Grown
<1> QED BY <1>2 DEF UserInv

LEMMA UserKeeps ==
    ASSUME InType, InInv, SaidInv, UserInv, Grown, UserKept PROVE UserInv'
<1>1. \A x \in Elements(handled)' : said'[x.thread][x.pos] = Ok => mainPanel'
  BY HandledKept DEF UserKept
<1> QED BY <1>1 DEF UserInv, UserKept

LEMMA StartUser ==
    ASSUME Kinds, Start PROVE (gpc' = "starting" => gpc = "starting" \/ Started' # {})
<1>1. CASE UNCHANGED <<flag, tpc, gpc>>
  BY <1>1
<1>2. CASE \E t \in Threads : tpc' = [tpc EXCEPT ![t] = "connect"]
  <2>1. PICK t \in Threads : tpc' = [tpc EXCEPT ![t] = "connect"]
    BY <1>2
  <2>2. tpc'[t] # "none"
    BY <2>1 DEF Kinds
  <2> QED BY <2>2 DEF Started
<1> QED BY <1>1, <1>2 DEF Start

LEMMA QueueUser ==
    ASSUME asked \in Seq(Requests), NEW m \in Requests, Queue(m) PROVE asked' \in Seq(Requests)
  BY AppendProperties DEF Queue

LEMMA ProcessUser ==
    ASSUME Kinds, InType, InInv, SaidInv, UserInv, Grown, Process PROVE UserInv'
<1> DEFINE e == Head(wait)
           m == said[e.thread][e.pos]
<1>1. wait \in Seq(Entries) /\ wait # <<>> /\ handled \in Seq(Entries)
  BY DEF Process, InType
<1>2. e \in Entries /\ e \in Elements(wait)
  <2>1. e = wait[1] /\ 1 \in 1..Len(wait) /\ e \in Entries
    BY <1>1, HeadTailProperties, EmptySeq, LenProperties
  <2> QED BY <2>1 DEF Elements
<1>3. UNCHANGED <<loginName, gpc, tpc, said, asked>> /\ handled' = Append(handled, e)
  BY DEF Process, serverVars
<1>4. Elements(handled') = Elements(handled) \cup {e}
  <2>1. handled' = handled \o <<e>> /\ <<e>> \in Seq(Entries)
    BY <1>1, <1>2, <1>3, AppendIsConcat
  <2>2. Elements(<<e>>) = {e}
    BY DEF Elements
  <2> HIDE DEF e
  <2>3. Elements(handled \o <<e>>) = Elements(handled) \cup Elements(<<e>>)
    BY <1>1, <2>1, ElementsOfBoth, ZenonT(30)
  <2> QED BY <2>1, <2>2, <2>3
<1>5. m \in Responses /\ e.thread \in Threads /\ said[e.thread] # <<>>
  <2>1. e \in Elements(Way)
    BY <1>2, ElementsOfWay
  <2>2. m \in Responses /\ e.thread \in Threads /\ e.pos \in 1..Len(said[e.thread])
    <3> HIDE DEF e
    <3> QED BY <2>1, Heard
  <2> QED BY <2>2
<1>6. Started # {} /\ Started' = Started
  <2>1. tpc[e.thread] # "none"
    BY <1>5 DEF SaidInv
  <2> QED BY <2>1, <1>3, <1>5 DEF Started
<1>7. \/ m.type = "LOGIN_RESPOND" /\ LoginRespond(m)
      \/ m.type = "PEER_LIST" /\ PeerList(m)
      \/ m.type = "CHART" /\ UNCHANGED <<alive, flag, mainPanel, connStatus, peers>>
  BY DEF Process
<1>8. m = Ok => mainPanel'
  <2>1. Ok.type = "LOGIN_RESPOND" /\ Ok.ok = TRUE
    BY DEF Ok
  <2> HIDE DEF m
  <2>2. m = Ok => m.ok = TRUE /\ LoginRespond(m)
    BY <2>1, <1>7
  <2> QED BY <2>2 DEF LoginRespond
<1>9. /\ mainPanel => mainPanel'
      /\ peers' \subseteq Names
      /\ peers' # {} => mainPanel'
  <2> HIDE DEF m
  <2>1. CASE m.type = "LOGIN_RESPOND" /\ LoginRespond(m)
    BY <2>1 DEF LoginRespond, UserInv
  <2>2. CASE m.type = "PEER_LIST" /\ PeerList(m)
    <3>1. m.name \in Names
      BY <2>2, <1>5 DEF Responses
    <3> QED BY <2>2, <3>1 DEF PeerList, UserInv
  <2>3. CASE UNCHANGED <<alive, flag, mainPanel, connStatus, peers>>
    BY <2>3 DEF UserInv
  <2> QED BY <2>1, <2>2, <2>3, <1>7
<1>10. ASSUME NEW x \in Elements(handled'), said'[x.thread][x.pos] = Ok PROVE mainPanel'
  <2>1. CASE x \in Elements(handled)
    BY <2>1, <1>3, <1>9, <1>10 DEF UserInv
  <2>2. CASE x = e
    BY <2>2, <1>3, <1>8, <1>10
  <2> QED BY <2>1, <2>2, <1>4
<1> HIDE DEF e, m
<1> QED BY <1>3, <1>6, <1>9, <1>10 DEF UserInv, Elements

LEMMA GuiUser ==
    ASSUME Kinds, InType, InInv, SaidInv, UserInv, Grown, Onward, Gui PROVE UserInv'
<1>0. Started \subseteq Started'
  BY DEF Onward, Started
<1>1. CASE Process
  BY <1>1, ProcessUser
<1>2. CASE MessageTimer \/ ProcessDone \/ Disconnect \/ StatusTimer \/ Quit
  <2>1. UNCHANGED <<loginName, peers, mainPanel, handled, asked, tpc>>
        /\ (gpc' = "starting" => gpc = "starting")
    BY <1>2 DEF MessageTimer, ProcessDone, Disconnect, StatusTimer, Quit, guiVars, panelVars
  <2> QED BY <2>1, UserKeeps DEF UserKept, Started
<1>3. CASE SendChat
  <2>1. UNCHANGED <<loginName, peers, mainPanel, handled, gpc, tpc>> /\ peers # {}
        /\ Queue([type |-> "CHART", from |-> loginName])
    BY <1>3 DEF SendChat, guiVars, panelVars
  <2>2. loginName \in Names
    BY <2>1 DEF UserInv
  <2>3. asked' \in Seq(Requests)
    <3>1. [type |-> "CHART", from |-> loginName] \in Requests
      BY <2>2 DEF Requests
    <3> QED BY <2>1, <3>1, QueueUser DEF UserInv
  <2>4. \A x \in Elements(handled)' : said'[x.thread][x.pos] = Ok => mainPanel'
    BY <2>1, HandledKept
  <2> QED BY <2>1, <2>3, <2>4 DEF UserInv, Started
<1>4. CASE Relogin
  <2>1. UNCHANGED <<loginName, peers, mainPanel, handled, tpc>> /\ gpc = "starting" /\ gpc' = "idle"
        /\ Queue([type |-> "LOGIN", name |-> loginName, thread |-> LastThread])
    BY <1>4 DEF Relogin
  <2>2. loginName \in Names /\ LastThread \in Threads
    BY <2>1, LastIs DEF UserInv
  <2>3. asked' \in Seq(Requests)
    <3>1. [type |-> "LOGIN", name |-> loginName, thread |-> LastThread] \in Requests
      BY <2>2 DEF Requests
    <3> QED BY <2>1, <3>1, QueueUser DEF UserInv
  <2>4. \A x \in Elements(handled)' : said'[x.thread][x.pos] = Ok => mainPanel'
    BY <2>1, HandledKept
  <2> QED BY <2>1, <2>3, <2>4 DEF UserInv, Started
<1>5. CASE Reconnect \/ \E n \in Names : LoginClick(n)
  <2>1. Start /\ UNCHANGED <<peers, mainPanel, handled, asked>> /\ gpc = "idle"
        /\ ((mainPanel /\ loginName' = loginName) \/ loginName' \in Names)
    BY <1>5 DEF Reconnect, LoginClick, MayClick, SetName, panelVars
  <2>2. loginName' \in Names
    BY <2>1 DEF UserInv
  <2>3. gpc' = "starting" => Started' # {}
    BY <2>1, StartUser
  <2>4. \A x \in Elements(handled)' : said'[x.thread][x.pos] = Ok => mainPanel'
    BY <2>1, HandledKept
  <2> QED BY <1>0, <2>1, <2>2, <2>3, <2>4 DEF UserInv
<1> QED BY <1>1, <1>2, <1>3, <1>4, <1>5 DEF Gui, User, Messages

LEMMA StepUser ==
    ASSUME Kinds, InType, InInv, SaidInv, UserInv, [Next]_vars PROVE UserInv'
<1>0. Onward /\ Grown
  BY StepKinds, StepSaid
<1>1. CASE UNCHANGED vars
  <2>1. UserKept
    BY <1>1 DEF vars, UserKept, Started
  <2> QED BY <2>1, <1>0, UserKeeps
<1>2. CASE Gui
  BY <1>0, <1>2, GuiUser
<1>3. CASE \E t \in Threads : Transfer(t)
  <2>1. PICK t \in Threads : Transfer(t)
    BY <1>3
  <2>2. Moved(t) /\ UNCHANGED guiVars
    BY <2>1, TransferTurn DEF Kinds
  <2>3. asked' = asked
    BY <2>1
    DEF Transfer, Connected, ConnectFailed, Loop, LoopTop, Exit, CheckNeed, Splice, WaitEvent,
        WaitTimeout, GetFinish, GetDone, Output, Collect
  <2>4. Started' = Started
    BY <2>2 DEF Moved, Started, Live
  <2>5. UserKept
    BY <2>2, <2>3, <2>4 DEF UserKept, guiVars, panelVars
  <2> QED BY <2>5, <1>0, UserKeeps
<1>4. CASE \E t \in Threads : Outside(t)
  <2>1. UserKept
    BY <1>4 DEF Outside, UserKept, guiVars, panelVars, Started
  <2> QED BY <2>1, <1>0, UserKeeps
<1> QED BY <1>1, <1>2, <1>3, <1>4 DEF Next

-----------------------------------------------------------------------------
(* All of it, for every user.                                              *)

ClientInv == IInv /\ Kinds /\ InType /\ InInv /\ SaidInv /\ UserInv

LEMMA ClientInit == ASSUME Init PROVE ClientInv
<1>1. IInv /\ InType /\ InInv
  BY InitOut, InInit
<1>2. Kinds
  BY DEF Init, Kinds, Places
<1>3. SaidInv
  <2>1. said = [t \in Threads |-> <<>>] /\ nin = [t \in Threads |-> 0]
    BY DEF Init
  <2>2. Len(<<>>) = 0 /\ 1..0 = {}
    OBVIOUS
  <2>3. said \in [Threads -> Seq(Responses)]
    BY <2>1, EmptySeq
  <2> QED BY <2>1, <2>2, <2>3 DEF SaidInv
<1>4. UserInv
  <2>1. Started = {} /\ Elements(handled) = {} /\ asked \in Seq(Requests)
    BY EmptySeq DEF Init, Started, Elements
  <2> QED BY <2>1 DEF Init, UserInv
<1> QED BY <1>1, <1>2, <1>3, <1>4 DEF ClientInv

LEMMA ClientStep == ASSUME ClientInv, [Next]_vars PROVE ClientInv'
  BY StepKeeps, StepKinds, InKeeps, StepSaid, StepUser DEF ClientInv

(* The invariant of the whole client, whatever its user does: what goes    *)
(* out, what comes in, and how the panels follow the answers.              *)
THEOREM ClientInvariance == Spec => []ClientInv
<1>1. ClientInv /\ [Next]_vars => ClientInv'
  BY ClientStep
<1>2. Init => ClientInv
  BY ClientInit
<1> QED BY <1>1, <1>2, PTL DEF Spec

(* Numbers of packets start at one.                                        *)
LEMMA Positive ==
    ASSUME NEW s \in Seq(Nat), NEW n, Elements(s) \subseteq 1..n PROVE s \in Seq(Nat \ {0})
<1>1. \A i \in 1..Len(s) : s[i] \in Nat \ {0}
  <2> TAKE i \in 1..Len(s)
  <2>1. s[i] \in 1..n /\ s[i] \in Nat
    BY ElementOfSeq DEF Elements
  <2>2. s[i] # 0
    BY <2>1
  <2> QED BY <2>1, <2>2
<1>2. Len(s) \in Nat /\ s = [i \in 1..Len(s) |-> s[i]]
  BY LenProperties, SeqDef
<1> QED BY <1>1, <1>2, IsASeq

LEMMA TypeIs == ASSUME ClientInv PROVE TypeOK
<1>1. need \in Seq(Nat \ {0})
  BY Positive DEF ClientInv, IInv, OutType, OutInv
<1>2. ASSUME NEW t \in Threads PROVE wire[t] \in Seq(Nat \ {0}) /\ outq[t] \in Seq(Nat \ {0})
  <2>1. wire[t] \in Seq(Nat) /\ outq[t] \in Seq(Nat)
    BY DEF ClientInv, IInv, OutType
  <2>2. Elements(Lane(t)) = Elements(wire[t]) \cup Elements(outq[t])
    BY <2>1, ElementsOfBoth DEF Lane
  <2>3. Elements(Lane(t)) \subseteq 1..Len(asked)
    BY DEF ClientInv, IInv, OutInv
  <2> QED BY <2>1, <2>2, <2>3, Positive
<1>3. wire \in [Threads -> Seq(Nat \ {0})] /\ outq \in [Threads -> Seq(Nat \ {0})]
  BY <1>2 DEF ClientInv, IInv, OutType
<1>4. alive \in BOOLEAN /\ mainPanel \in BOOLEAN /\ connStatus \in BOOLEAN
      /\ flag \in {"INACTIVE", "INIT", "LOGIN"}
      /\ gpc \in {"idle", "starting", "proc"}
      /\ tpc \in [Threads -> {"none", "connect", "top", "take", "splice", "wait", "in",
                              "out", "collect", "dead"}]
      /\ ev \in [Threads -> SUBSET {"IN", "OUT"}]
      /\ inEvent \in [Threads -> BOOLEAN] /\ outEvent \in [Threads -> BOOLEAN]
      /\ full \in [Threads -> BOOLEAN] /\ closed \in [Threads -> BOOLEAN]
  BY Zenon DEF ClientInv, Kinds, Places
<1>5. /\ coming \in Seq([thread : Threads, pos : Nat \ {0}])
      /\ wait \in Seq([thread : Threads, pos : Nat \ {0}])
      /\ handled \in Seq([thread : Threads, pos : Nat \ {0}])
      /\ inlist \in [Threads -> Seq([thread : Threads, pos : Nat \ {0}])]
      /\ nin \in [Threads -> Nat]
  BY Zenon DEF ClientInv, InType, Entries
<1>6. /\ said \in [Threads -> Seq([type : {"LOGIN_RESPOND"}, ok : BOOLEAN]
                        \cup [type : {"PEER_LIST"}, name : Names]
                        \cup [type : {"CHART"}])]
      /\ asked \in Seq([type : {"LOGIN"}, name : Names, thread : Threads]
                        \cup [type : {"CHART"}, from : Names])
      /\ loginName \in Names \cup {NoName}
      /\ peers \subseteq Names
  BY Zenon DEF ClientInv, SaidInv, UserInv, Responses, Requests
<1> QED BY <1>1, <1>3, <1>4, <1>5, <1>6, Zenon DEF TypeOK

(* The client is well typed; above all, a LOGIN or a chat is never built   *)
(* before the name of its user is known (login_panel.c:27).                *)
THEOREM TypeCorrect == Spec => []TypeOK
<1>1. ClientInv => TypeOK
  BY TypeIs
<1> QED BY <1>1, ClientInvariance, PTL

(* The answer came first, on the same connection, and so it has been       *)
(* processed: it can be in none of the lists behind the head of wait.      *)
LEMMA PanelIs == ASSUME ClientInv PROVE PanelBeforeMembers
<1> DEFINE e == Head(wait)
           t == e.thread
<1> SUFFICES ASSUME wait # <<>>, said[e.thread][e.pos].type = "PEER_LIST" PROVE mainPanel
  BY DEF PanelBeforeMembers
<1> DEFINE rest == wait \o coming
<1>1. handled \in Seq(Entries) /\ wait \in Seq(Entries) /\ coming \in Seq(Entries)
      /\ InType /\ InInv /\ SaidInv
  BY DEF ClientInv, InType
<1>2. rest \in Seq(Entries) /\ Len(rest) \in Nat /\ 1 \in 1..Len(rest) /\ rest[1] = e
      /\ Elements(rest) = Elements(wait) \cup Elements(coming)
  <2>1. rest \in Seq(Entries) /\ Elements(rest) = Elements(wait) \cup Elements(coming)
    BY <1>1, ElementsOfBoth
  <2>2. Len(wait) \in Nat /\ Len(wait) # 0 /\ e = wait[1] /\ Len(coming) \in Nat
    BY <1>1, HeadTailProperties, EmptySeq, LenProperties
  <2>3. Len(rest) = Len(wait) + Len(coming) /\ rest[1] = wait[1]
    BY <1>1, <2>2, ConcatProperties
  <2> QED BY <2>1, <2>2, <2>3
<1>3. Way = handled \o rest
  BY <1>1, ConcatAssociative DEF Way
<1> HIDE DEF rest
<1>4. Ordered(rest) /\ Precedes(handled, rest)
  BY <1>1, <1>2, <1>3, OrderedConcat DEF InInv
<1>5. Elements(Way) = Elements(handled) \cup Elements(rest)
  BY <1>1, <1>2, <1>3, ElementsOfBoth
<1>6. e \in Elements(rest)
  BY <1>2 DEF Elements
<1> HIDE DEF e
<1>7. e \in Entries /\ t \in Threads /\ e.pos \in 1..nin[t] /\ e.pos \in 1..Len(said[t])
  BY <1>1, <1>5, <1>6, Heard
<1>8. PICK j \in 1..(e.pos - 1) : said[t][j] = Ok
  BY <1>1, <1>7 DEF SaidInv
<1>9. j < e.pos /\ j \in 1..nin[t]
  BY <1>1, <1>7, <1>8 DEF InType
<1>10. PICK x \in Elements(Way) \cup Elements(inlist[t]) : x.thread = t /\ x.pos = j
  <2>1. j \in From(t, Elements(Way) \cup Elements(inlist[t]))
    BY <1>1, <1>7, <1>9 DEF InInv
  <2> QED BY <2>1 DEF From
<1>11. x \in Elements(handled)
  <2>1. ASSUME x \in Elements(inlist[t]) PROVE FALSE
    <3>1. e.pos < x.pos
      BY <2>1, <1>1, <1>5, <1>6, <1>7, <1>10 DEF InInv, Precedes
    <3> QED BY <3>1, <1>7, <1>9, <1>10
  <2>2. ASSUME x \in Elements(rest) PROVE FALSE
    <3>1. PICK k \in 1..Len(rest) : x = rest[k]
      BY <2>2 DEF Elements
    <3>2. k # 1
      BY <3>1, <1>2, <1>9, <1>10, <1>7
    <3>3. 1 < k
      BY <3>1, <3>2, <1>2
    <3>4. e.pos < x.pos
      BY <3>1, <3>3, <1>2, <1>4, <1>10 DEF Ordered
    <3> QED BY <3>4, <1>7, <1>9, <1>10
  <2> QED BY <2>1, <2>2, <1>5, <1>10
<1> QED BY <1>8, <1>10, <1>11 DEF ClientInv, UserInv

(* The answer to the login makes the main panel before a member is added   *)
(* to it, so that ball_main_panel_update_peer_list has a list to add to.   *)
THEOREM PanelCorrect == Spec => []PanelBeforeMembers
<1>1. ClientInv => PanelBeforeMembers
  BY PanelIs
<1> QED BY <1>1, ClientInvariance, PTL
=============================================================================
