----------------------------- MODULE ServerProofs -----------------------------
(***************************************************************************)
(* Theorems about Server, for any number of clients, packets, events and   *)
(* ticks, and any names, members and idle time.                            *)
(***************************************************************************)
EXTENDS Server, SequenceTheorems, TLAPS

-----------------------------------------------------------------------------
(* The list of peers.                                                      *)

Elements(s) == {s[i] : i \in 1..Len(s)}

(* s holds the peers in O, each once, the one of the least time first.     *)
Ordered(s, time, O) ==
    /\ Elements(s) = O
    /\ \A i, j \in 1..Len(s) : i < j => s[i] # s[j] /\ time[s[i]] <= time[s[j]]

LEMMA OrderedIs == TimeoutOrder <=> Ordered(timeout_list, time_last, Open)
BY DEF TimeoutOrder, Ordered, Elements

(* list_del takes one entry out and keeps the order of the others.         *)
LEMMA RemoveIs ==
    ASSUME NEW S, NEW s \in Seq(S), NEW x \in Elements(s)
    PROVE  \E p \in 1..Len(s) :
              /\ s[p] = x
              /\ Remove(s, x) \in Seq(S) /\ Len(Remove(s, x)) = Len(s) - 1
              /\ \A k \in 1..(Len(s) - 1) :
                    Remove(s, x)[k] = IF k < p THEN s[k] ELSE s[k + 1]
<1> DEFINE p == Position(s, x)
           a == SubSeq(s, 1, p - 1)
           b == SubSeq(s, p + 1, Len(s))
<1>1. p \in 1..Len(s) /\ s[p] = x
  BY DEF Position, Elements
<1> HIDE DEF p
<1>2. Len(s) \in Nat /\ \A k \in 1..Len(s) : s[k] \in S
  BY ElementOfSeq
<1>3. /\ a \in Seq(S) /\ Len(a) = p - 1
      /\ \A k \in 1..(p - 1) : a[k] = s[k]
  <2>1. \A k \in 1..(p - 1) : s[k] \in S
    BY <1>1, <1>2
  <2>2. 1 \in Int /\ p - 1 \in Int
    BY <1>1
  <2>3. /\ a \in Seq(S)
        /\ Len(a) = IF 1 <= p - 1 THEN (p - 1) - 1 + 1 ELSE 0
        /\ \A k \in 1..((p - 1) - 1 + 1) : a[k] = s[1 + k - 1]
    BY <2>1, <2>2, SubSeqProperties
  <2>4. Len(a) = p - 1
    BY <1>1, <2>3
  <2>5. ASSUME NEW k \in 1..(p - 1) PROVE a[k] = s[k]
    <3>1. k \in 1..((p - 1) - 1 + 1) /\ 1 + k - 1 = k
      BY <1>1
    <3> QED BY <2>3, <3>1
  <2> QED BY <2>3, <2>4, <2>5
<1>4. /\ b \in Seq(S) /\ Len(b) = Len(s) - p
      /\ \A k \in 1..(Len(s) - p) : b[k] = s[p + k]
  <2>1. \A k \in (p + 1)..Len(s) : s[k] \in S
    BY <1>1, <1>2
  <2>2. p + 1 \in Int /\ Len(s) \in Int
    BY <1>1, <1>2
  <2>3. /\ b \in Seq(S)
        /\ Len(b) = IF p + 1 <= Len(s) THEN Len(s) - (p + 1) + 1 ELSE 0
        /\ \A k \in 1..(Len(s) - (p + 1) + 1) : b[k] = s[(p + 1) + k - 1]
    BY <2>1, <2>2, SubSeqProperties
  <2>4. Len(b) = Len(s) - p
    BY <1>1, <1>2, <2>3
  <2>5. ASSUME NEW k \in 1..(Len(s) - p) PROVE b[k] = s[p + k]
    <3>1. k \in 1..(Len(s) - (p + 1) + 1) /\ (p + 1) + k - 1 = p + k
      BY <1>1, <1>2
    <3> QED BY <2>3, <3>1
  <2> QED BY <2>3, <2>4, <2>5
<1>5. Remove(s, x) = a \o b
  BY DEF Remove, p
<1> HIDE DEF a, b
<1>6. /\ a \o b \in Seq(S) /\ Len(a \o b) = Len(a) + Len(b)
      /\ \A k \in 1..(Len(a) + Len(b)) :
            (a \o b)[k] = IF k <= Len(a) THEN a[k] ELSE b[k - Len(a)]
  BY <1>3, <1>4, ConcatProperties
<1>7. ASSUME NEW k \in 1..(Len(s) - 1)
      PROVE  (a \o b)[k] = IF k < p THEN s[k] ELSE s[k + 1]
  <2>1. k \in 1..(Len(a) + Len(b)) /\ (k <= Len(a) <=> k < p)
    BY <1>1, <1>2, <1>3, <1>4
  <2>2. CASE k < p
    BY <2>1, <2>2, <1>1, <1>3, <1>6
  <2>3. CASE ~(k < p)
    <3>1. k - Len(a) \in 1..(Len(s) - p) /\ p + (k - Len(a)) = k + 1
      BY <2>3, <1>1, <1>2, <1>3
    <3> QED BY <3>1, <2>1, <2>3, <1>4, <1>6
  <2> QED BY <2>2, <2>3
<1>8. Len(a \o b) = Len(s) - 1
  BY <1>1, <1>2, <1>3, <1>4, <1>6
<1> QED BY <1>1, <1>5, <1>6, <1>7, <1>8

LEMMA OrderedRemove ==
    ASSUME NEW S, NEW s \in Seq(S), NEW time, NEW O, Ordered(s, time, O), NEW x \in O
    PROVE  /\ Remove(s, x) \in Seq(S)
           /\ Ordered(Remove(s, x), time, O \ {x})
<1> DEFINE r == Remove(s, x)
<1>1. x \in Elements(s)
  BY DEF Ordered
<1>2. PICK p \in 1..Len(s) :
          /\ s[p] = x
          /\ r \in Seq(S) /\ Len(r) = Len(s) - 1
          /\ \A k \in 1..(Len(s) - 1) : r[k] = IF k < p THEN s[k] ELSE s[k + 1]
  BY <1>1, RemoveIs
<1> HIDE DEF r
<1> DEFINE from(k) == IF k < p THEN k ELSE k + 1
<1>3. Len(s) \in Nat
  OBVIOUS
<1>4. \A k \in 1..Len(r) : from(k) \in 1..Len(s) /\ from(k) # p /\ r[k] = s[from(k)]
  BY <1>2, <1>3
<1>5. \A i, j \in 1..Len(r) : i < j => from(i) < from(j)
  BY <1>2, <1>3
<1>6. \A i \in 1..Len(s) : i # p => \E k \in 1..Len(r) : from(k) = i
  <2> SUFFICES ASSUME NEW i \in 1..Len(s), i # p
               PROVE  \E k \in 1..Len(r) : from(k) = i
    OBVIOUS
  <2>1. CASE i < p
    <3>1. i \in 1..Len(r) /\ from(i) = i
      BY <2>1, <1>2, <1>3
    <3> QED BY <3>1
  <2>2. CASE i > p
    <3>1. i - 1 \in 1..Len(r) /\ from(i - 1) = i
      BY <2>2, <1>2, <1>3
    <3> QED BY <3>1
  <2> QED BY <2>1, <2>2, <1>3
<1>7. \A i, j \in 1..Len(s) : i # j => s[i] # s[j]
  BY <1>3 DEF Ordered
<1> HIDE DEF from
<1>8. Elements(r) = O \ {x}
  <2>1. ASSUME NEW y \in Elements(r) PROVE y \in O \ {x}
    <3>1. PICK k \in 1..Len(r) : y = r[k]
      BY DEF Elements
    <3> QED BY <3>1, <1>2, <1>4, <1>7 DEF Ordered, Elements
  <2>2. ASSUME NEW y \in O \ {x} PROVE y \in Elements(r)
    <3>1. PICK i \in 1..Len(s) : y = s[i]
      BY DEF Ordered, Elements
    <3>2. i # p
      BY <3>1, <1>2
    <3>3. PICK k \in 1..Len(r) : from(k) = i
      BY <3>2, <1>6
    <3> QED BY <3>1, <3>3, <1>4 DEF Elements
  <2> QED BY <2>1, <2>2
<1>9. ASSUME NEW i \in 1..Len(r), NEW j \in 1..Len(r), i < j
      PROVE  r[i] # r[j] /\ time[r[i]] <= time[r[j]]
  BY <1>9, <1>4, <1>5 DEF Ordered
<1> QED BY <1>2, <1>8, <1>9 DEF Ordered, r

LEMMA OrderedAppend ==
    ASSUME NEW S, NEW s \in Seq(S), NEW time, NEW O, Ordered(s, time, O),
           NEW x \in S, x \notin O, NEW later,
           \A y \in O : later[y] = time[y] /\ time[y] <= later[x]
    PROVE  /\ Append(s, x) \in Seq(S)
           /\ Ordered(Append(s, x), later, O \cup {x})
<1> DEFINE r == Append(s, x)
<1>1. /\ r \in Seq(S) /\ Len(r) = Len(s) + 1 /\ Len(s) \in Nat
      /\ \A i \in 1..Len(s) : r[i] = s[i]
      /\ r[Len(s) + 1] = x
  BY AppendProperties
<1> HIDE DEF r
<1>2. \A i \in 1..Len(r) : i # Len(s) + 1 => i \in 1..Len(s)
  BY <1>1
<1>3. \A i \in 1..Len(s) : r[i] \in O /\ s[i] \in O
  BY <1>1 DEF Ordered, Elements
<1>4. Elements(r) = O \cup {x}
  <2>1. ASSUME NEW y \in Elements(r) PROVE y \in O \cup {x}
    BY <1>1, <1>2, <1>3 DEF Elements
  <2>2. ASSUME NEW y \in O PROVE y \in Elements(r)
    <3>1. PICK i \in 1..Len(s) : y = s[i]
      BY DEF Ordered, Elements
    <3>2. i \in 1..Len(r) /\ r[i] = y
      BY <1>1, <3>1
    <3> QED BY <3>2 DEF Elements
  <2>3. x \in Elements(r)
    <3>1. Len(s) + 1 \in 1..Len(r)
      BY <1>1
    <3> QED BY <1>1, <3>1 DEF Elements
  <2> QED BY <2>1, <2>2, <2>3
<1>5. ASSUME NEW i \in 1..Len(r), NEW j \in 1..Len(r), i < j
      PROVE  r[i] # r[j] /\ later[r[i]] <= later[r[j]]
  <2>1. i \in 1..Len(s)
    BY <1>1, <1>5
  <2>2. CASE j = Len(s) + 1
    BY <2>1, <2>2, <1>1, <1>3
  <2>3. CASE j \in 1..Len(s)
    <3>1. s[i] # s[j] /\ time[s[i]] <= time[s[j]]
      BY <2>1, <2>3, <1>5 DEF Ordered
    <3> QED BY <2>1, <2>3, <3>1, <1>1, <1>3
  <2> QED BY <2>2, <2>3, <1>2
<1> QED BY <1>1, <1>4, <1>5 DEF Ordered, r

-----------------------------------------------------------------------------
(* The invariant.                                                          *)

LoopType ==
    /\ pc \in {"top", "clear", "enter", "wait", "batch", "accept", "read", "list",
               "killed"}
    /\ cur \in Peers \cup {Listen}
    /\ batch \subseteq Peers \cup {Listen} /\ ready \subseteq Peers \cup {Listen}
    /\ now \in Nat /\ clock \in Nat
    /\ state \in [Peers -> {"none", "backlog", "open", "gone"}]
    /\ hup \in [Peers -> BOOLEAN]
    /\ said = [p \in Peers |-> said[p]]
    /\ nread = [p \in Peers |-> nread[p]]
    /\ time_last \in [Peers -> Nat]
    /\ timeout_list \in Seq(Peers)

(* Stamps are never later than the clock, and while peers are accepted     *)
(* never later than the time the next one is stamped with.                 *)
TimeInv ==
    /\ Ordered(timeout_list, time_last, Open)
    /\ now <= clock
    /\ \A p \in Open : time_last[p] <= clock
    /\ pc = "accept" => \A p \in Open : time_last[p] <= now

(* Peers are cleared between two batches only, and a peer has one event in *)
(* a batch at most: no event can be left of a peer that is destroyed.      *)
EventInv ==
    /\ batch \ {Listen} \subseteq Open
    /\ ready \ {Listen} \subseteq Open
    /\ pc \in {"read", "list"} => cur \in Open /\ cur \notin batch
    /\ pc \in {"top", "clear", "enter", "wait"} => batch = {}

IInv == LoopType /\ TimeInv /\ EventInv /\ NoLostEvent

LEMMA Initially == Init => IInv
<1> SUFFICES ASSUME Init PROVE IInv
  OBVIOUS
<1>1. LoopType
  BY DEF Init, LoopType
<1>2. Open = {}
  BY DEF Init, Open
<1>3. TimeInv
  <2>1. Len(timeout_list) = 0
    BY DEF Init
  <2>2. Ordered(timeout_list, time_last, Open)
    BY <1>2, <2>1 DEF Ordered, Elements
  <2> QED BY <1>2, <2>2 DEF TimeInv, Init
<1>4. EventInv
  BY <1>2 DEF Init, EventInv
<1>5. NoLostEvent
  BY <1>2 DEF Init, NoLostEvent
<1> QED BY <1>1, <1>3, <1>4, <1>5 DEF IInv

(* Steps that move pc, take new times or report events, and leave the      *)
(* peers alone.                                                            *)
LEMMA PeersKept ==
    ASSUME IInv, LoopType', EventInv', NoLostEvent',
           state' = state, timeout_list' = timeout_list, time_last' = time_last,
           now' <= clock', clock <= clock',
           pc' = "accept" => now' = clock' \/ (now' = now /\ pc = "accept")
    PROVE  IInv'
<1>1. Open' = Open
  BY DEF Open
<1>2. Ordered(timeout_list, time_last, Open)'
  BY <1>1 DEF IInv, TimeInv, Ordered, Elements
<1>3. \A p \in Open : time_last[p] \in Nat /\ time_last[p] <= clock
  BY DEF IInv, LoopType, TimeInv, Open
<1>4. clock \in Nat /\ clock' \in Nat
  BY DEF IInv, LoopType
<1>5. \A p \in Open' : time_last'[p] <= clock'
  BY <1>1, <1>3, <1>4
<1>6. pc' = "accept" => \A p \in Open' : time_last'[p] <= now'
  BY <1>1, <1>5 DEF IInv, TimeInv
<1>7. TimeInv'
  BY <1>2, <1>5, <1>6 DEF TimeInv
<1> QED BY <1>7 DEF IInv

-----------------------------------------------------------------------------
(* The loop of main.                                                       *)

LEMMA SigAlarmStep == ASSUME IInv, SigAlarm PROVE IInv'
<1> USE DEF SigAlarm, Unblocked, acctVars, outVars
<1>1. LoopType' /\ EventInv' /\ NoLostEvent'
  BY DEF IInv, LoopType, EventInv, NoLostEvent, Open, Unread
<1> QED BY <1>1, PeersKept DEF IInv, TimeInv, LoopType

LEMMA CheckTimeoutStep == ASSUME IInv, CheckTimeout PROVE IInv'
<1> USE DEF CheckTimeout, acctVars, outVars
<1>1. LoopType' /\ EventInv' /\ NoLostEvent'
  BY DEF IInv, LoopType, EventInv, NoLostEvent, Open, Unread
<1> QED BY <1>1, PeersKept DEF IInv, TimeInv, LoopType

LEMMA ClearDoneStep == ASSUME IInv, ClearDone PROVE IInv'
<1> USE DEF ClearDone, acctVars, outVars
<1>1. LoopType' /\ EventInv' /\ NoLostEvent'
  BY DEF IInv, LoopType, EventInv, NoLostEvent, Open, Unread
<1> QED BY <1>1, PeersKept DEF IInv, TimeInv, LoopType

LEMMA EnterStep == ASSUME IInv, Enter PROVE IInv'
<1> USE DEF Enter, acctVars, outVars
<1>1. LoopType' /\ EventInv' /\ NoLostEvent'
  BY DEF IInv, LoopType, EventInv, NoLostEvent, Open, Unread
<1> QED BY <1>1, PeersKept DEF IInv, TimeInv, LoopType

LEMMA EpollWaitStep == ASSUME IInv, EpollWait PROVE IInv'
<1> USE DEF EpollWait, acctVars, outVars
<1>1. PICK events \in SUBSET ready : batch' = events /\ ready' = ready \ events
  OBVIOUS
<1>2. LoopType' /\ EventInv' /\ NoLostEvent'
  BY <1>1 DEF IInv, LoopType, EventInv, NoLostEvent, Open, Unread
<1> QED BY <1>2, PeersKept DEF IInv, TimeInv, LoopType

LEMMA HandleEventStep == ASSUME IInv, HandleEvent PROVE IInv'
<1>1. PICK e \in batch :
          /\ batch' = batch \ {e} /\ cur' = e
          /\ \/ e = Listen /\ pc' = "accept" /\ now' = clock
             \/ e # Listen /\ pc' = "read" /\ UNCHANGED now
  BY DEF HandleEvent
<1>2. /\ pc = "batch"
      /\ UNCHANGED <<clock, ready, state, hup, said, nread, time_last, timeout_list>>
  BY DEF HandleEvent
<1>3. LoopType'
  <2>1. e \in Peers \cup {Listen} /\ pc' \in {"accept", "read"} /\ now' \in Nat
    BY <1>1 DEF IInv, LoopType
  <2> QED BY <1>1, <1>2, <2>1 DEF IInv, LoopType
<1>4. Open' = Open
  BY <1>2 DEF Open
<1>5. EventInv'
  BY <1>1, <1>2, <1>4 DEF IInv, EventInv
<1>6. NoLostEvent'
  <2>1. ASSUME NEW p \in Open, Unread(p) \/ hup[p]
        PROVE  p \in ready' \cup batch' \/ (cur' = p /\ pc' \in {"read", "list"})
    <3>1. p \in ready \cup batch /\ p # Listen
      BY <2>1, <1>2, ServerAssumption DEF IInv, NoLostEvent, Open
    <3> QED BY <3>1, <1>1, <1>2
  <2>2. ASSUME NEW p \in Peers, state[p] = "backlog"
        PROVE  Listen \in ready' \cup batch' \/ pc' = "accept"
    <3>1. Listen \in ready \cup batch
      BY <2>2, <1>2 DEF IInv, NoLostEvent
    <3> QED BY <3>1, <1>1, <1>2
  <2>3. \A p \in Open : Unread(p)' = Unread(p) /\ hup'[p] = hup[p]
    BY <1>2 DEF Unread
  <2> QED BY <2>1, <2>2, <2>3, <1>2, <1>4 DEF NoLostEvent
<1>7. now' <= clock' /\ clock <= clock'
  BY <1>1, <1>2 DEF IInv, TimeInv, LoopType
<1>8. pc' = "accept" => now' = clock' \/ (now' = now /\ pc = "accept")
  BY <1>1, <1>2
<1>9. state' = state /\ timeout_list' = timeout_list /\ time_last' = time_last
  BY <1>2
<1> QED BY <1>9, <1>3, <1>5, <1>6, <1>7, <1>8, PeersKept

LEMMA BatchDoneStep == ASSUME IInv, BatchDone PROVE IInv'
<1> USE DEF BatchDone, acctVars, outVars
<1>1. LoopType' /\ EventInv' /\ NoLostEvent'
  BY DEF IInv, LoopType, EventInv, NoLostEvent, Open, Unread
<1> QED BY <1>1, PeersKept DEF IInv, TimeInv, LoopType

LEMMA AcceptEndStep == ASSUME IInv, AcceptAgain \/ AcceptError PROVE IInv'
<1> USE DEF AcceptAgain, AcceptError, acctVars, outVars
<1>1. LoopType' /\ EventInv' /\ NoLostEvent'
  BY DEF IInv, LoopType, EventInv, NoLostEvent, Open, Unread
<1> QED BY <1>1, PeersKept DEF IInv, TimeInv, LoopType

LEMMA AcceptStep ==
    ASSUME IInv, NEW p \in Peers, Accept(p) PROVE IInv'
<1>1. /\ pc = "accept" /\ state[p] = "backlog"
      /\ state' = [state EXCEPT ![p] = "open"]
      /\ time_last' = [time_last EXCEPT ![p] = now]
      /\ timeout_list' = Append(timeout_list, p)
      /\ ready' = IF Unread(p) \/ hup[p] THEN ready \cup {p} ELSE ready
      /\ now' = clock
      /\ UNCHANGED <<pc, cur, batch, clock, hup, said, nread>>
  BY DEF Accept, AddTail
<1>2. LoopType /\ p # Listen /\ p \notin Open
  BY <1>1, ServerAssumption DEF IInv, Open
<1>3. Open' = Open \cup {p}
  BY <1>1, <1>2 DEF Open, LoopType
<1>4. /\ timeout_list \in Seq(Peers) /\ Ordered(timeout_list, time_last, Open)
      /\ \A q \in Open : time_last'[q] = time_last[q] /\ time_last[q] <= time_last'[p]
      /\ time_last'[p] = now
  BY <1>1, <1>2 DEF IInv, TimeInv, LoopType, Open
<1>5. timeout_list' \in Seq(Peers) /\ Ordered(timeout_list, time_last, Open)'
  BY <1>1, <1>2, <1>3, <1>4, OrderedAppend
<1>6. LoopType'
  BY <1>1, <1>2, <1>5 DEF LoopType
<1>7. now \in Nat /\ clock \in Nat /\ now <= clock
  BY <1>2 DEF IInv, TimeInv, LoopType
<1>8. \A q \in Open' : time_last'[q] <= clock
  BY <1>3, <1>4, <1>7 DEF IInv, TimeInv
<1>9. TimeInv'
  BY <1>1, <1>5, <1>7, <1>8 DEF TimeInv
<1>10. EventInv'
  BY <1>1, <1>2, <1>3 DEF IInv, EventInv
<1>11. NoLostEvent'
  <2>1. \A q \in Peers : Unread(q)' <=> Unread(q)
    BY <1>1 DEF Unread
  <2>2. ASSUME NEW q \in Open', Unread(q) \/ hup[q]
        PROVE  q \in ready' \cup batch'
    <3>1. CASE q = p
      BY <3>1, <2>2, <1>1
    <3>2. CASE q \in Open
      BY <3>2, <2>2, <1>1 DEF IInv, NoLostEvent
    <3> QED BY <3>1, <3>2, <1>3
  <2>3. Open' \subseteq Peers /\ hup' = hup /\ pc' = "accept"
    BY <1>1 DEF Open
  <2> QED BY <2>1, <2>2, <2>3 DEF NoLostEvent
<1> QED BY <1>6, <1>9, <1>10, <1>11 DEF IInv

(* destroy_peer_info.                                                      *)
LEMMA DestroyStep ==
    ASSUME IInv, NEW p \in Open, Destroy(p),
           pc' \in {"clear", "batch"}, p \notin batch,
           pc' = "clear" => batch = {},
           pc = "clear" \/ (pc = "read" /\ cur = p),
           UNCHANGED <<cur, batch, now, clock, hup, said, nread>>
    PROVE  IInv'
<1>1. /\ state' = [state EXCEPT ![p] = "gone"]
      /\ ready' = ready \ {p}
      /\ timeout_list' = Remove(timeout_list, p)
      /\ time_last' = time_last
  BY DEF Destroy, Unwatched
<1>2. LoopType /\ p \in Peers /\ p # Listen
  BY ServerAssumption DEF IInv, Open
<1>3. Open' = Open \ {p}
  BY <1>1, <1>2 DEF Open, LoopType
<1>4. timeout_list' \in Seq(Peers) /\ Ordered(timeout_list, time_last, Open)'
  <2>1. timeout_list \in Seq(Peers) /\ Ordered(timeout_list, time_last, Open)
    BY <1>2 DEF IInv, TimeInv, LoopType
  <2> QED BY <2>1, <1>1, <1>3, OrderedRemove
<1>5. LoopType'
  BY <1>1, <1>2, <1>4 DEF LoopType
<1>6. TimeInv'
  BY <1>1, <1>3, <1>4 DEF IInv, TimeInv
<1>7. EventInv'
  BY <1>1, <1>3 DEF IInv, EventInv
<1>8. NoLostEvent'
  <2>1. \A q \in Peers : Unread(q)' <=> Unread(q)
    BY DEF Unread
  <2>2. ASSUME NEW q \in Open', Unread(q) \/ hup[q]
        PROVE  q \in ready' \cup batch'
    <3>1. q \in Open /\ q # p
      BY <1>3
    <3>2. q \in ready \cup batch \/ (cur = q /\ pc \in {"read", "list"})
      BY <3>1, <2>2 DEF IInv, NoLostEvent
    <3> QED BY <3>1, <3>2, <1>1
  <2>3. ASSUME NEW q \in Peers, state'[q] = "backlog"
        PROVE  Listen \in ready' \cup batch'
    <3>1. state[q] = "backlog"
      BY <2>3, <1>1, <1>2 DEF LoopType
    <3>2. Listen \in ready \cup batch
      BY <3>1 DEF IInv, NoLostEvent
    <3> QED BY <3>2, <1>1, <1>2
  <2>4. Open' \subseteq Peers
    BY DEF Open
  <2> QED BY <2>1, <2>2, <2>3, <2>4 DEF NoLostEvent
<1> QED BY <1>5, <1>6, <1>7, <1>8 DEF IInv

LEMMA ClearPeerStep == ASSUME IInv, ClearPeer PROVE IInv'
<1> DEFINE p == Head(timeout_list)
<1>1. timeout_list \in Seq(Peers) /\ timeout_list # <<>>
  BY DEF ClearPeer, HeadExpired, IInv, LoopType
<1>2. p \in Open
  <2>1. 1 \in 1..Len(timeout_list) /\ p = timeout_list[1]
    BY <1>1
  <2> QED BY <2>1 DEF IInv, TimeInv, Ordered, Elements
<1>3. Destroy(p) /\ pc = "clear" /\ UNCHANGED <<loopVars, clock, hup, said, nread>>
  BY DEF ClearPeer
<1>4. batch = {}
  BY <1>3 DEF IInv, EventInv
<1>5. pc' = "clear" /\ UNCHANGED <<cur, batch, now, clock, hup, said, nread>>
  BY <1>3 DEF loopVars
<1> HIDE DEF p
<1> QED BY <1>2, <1>3, <1>4, <1>5, DestroyStep

LEMMA ReadFailStep == ASSUME IInv, ReadFail PROVE IInv'
<1>1. /\ pc = "read" /\ Destroy(cur) /\ pc' = "batch"
      /\ UNCHANGED <<cur, batch, now, clock, hup, said, nread>>
  BY DEF ReadFail
<1>2. cur \in Open /\ cur \notin batch
  BY <1>1 DEF IInv, EventInv
<1> QED BY <1>1, <1>2, DestroyStep

-----------------------------------------------------------------------------
(* Messages.                                                               *)

(* What a packet does to the loop: it goes on, or the process is stopped.  *)
LEMMA SendToGoes ==
    ASSUME NEW a, NEW m, NEW next, SendTo(a, m, next)
    PROVE  pc' \in {next, "killed"}
BY DEF SendTo, SendAndGo

LEMMA ReadMessageGoes ==
    ASSUME ReadMessage
    PROVE  pc' \in {"read", "list", "killed"}
<1> DEFINE m == said[cur][nread[cur] + 1]
<1>1. (m.type = "LOGIN" /\ Login(m)) \/ (m.type = "CHART" /\ Chart(m))
  BY DEF ReadMessage
<1> HIDE DEF m
<1>2. CASE Login(m)
  BY <1>2 DEF Login, SendAndGo
<1>3. CASE Chart(m)
  BY <1>3, SendToGoes DEF Chart
<1> QED BY <1>1, <1>2, <1>3

(* The peer that main handles goes to the tail of the list.                *)
LEMMA TouchStep ==
    ASSUME IInv, pc = "read", Touch(cur),
           UNCHANGED <<cur, batch, now, clock, ready, state, hup, said>>,
           pc' \in {"read", "list", "killed", "batch"},
           pc' = "batch" => ~Unread(cur) /\ ~hup[cur],
           nread' = [p \in Peers |-> nread'[p]],
           \A p \in Peers : p # cur => nread'[p] = nread[p],
           pc' = "batch" => nread' = nread
    PROVE  IInv'
<1>1. LoopType /\ cur \in Open /\ cur \in Peers
  BY DEF IInv, EventInv, Open
<1>2. Open' = Open
  BY DEF Open
<1>3. timeout_list' \in Seq(Peers) /\ Ordered(timeout_list, time_last, Open)'
      /\ (\A p \in Open : time_last'[p] <= clock)
      /\ time_last' \in [Peers -> Nat]
  <2> DEFINE s == Remove(timeout_list, cur)
             O == Open \ {cur}
  <2>1. timeout_list' = Append(s, cur) /\ time_last' = [time_last EXCEPT ![cur] = clock]
    BY DEF Touch, AddTail
  <2>2. s \in Seq(Peers) /\ Ordered(s, time_last, O)
    BY <1>1, OrderedRemove DEF IInv, TimeInv, LoopType
  <2>3. /\ \A p \in O : time_last'[p] = time_last[p] /\ time_last[p] <= time_last'[cur]
        /\ \A p \in Open : time_last'[p] <= clock
        /\ time_last' \in [Peers -> Nat]
    BY <2>1, <1>1 DEF IInv, TimeInv, LoopType, Open
  <2> HIDE DEF s
  <2>4. Append(s, cur) \in Seq(Peers) /\ Ordered(Append(s, cur), time_last', O \cup {cur})
    BY <2>2, <2>3, <1>1, OrderedAppend
  <2>5. O \cup {cur} = Open
    BY <1>1
  <2> QED BY <2>1, <2>3, <2>4, <2>5, <1>2
<1>4. LoopType'
  BY <1>1, <1>3 DEF LoopType
<1>5. TimeInv'
  BY <1>2, <1>3 DEF IInv, TimeInv
<1>6. EventInv'
  BY <1>2 DEF IInv, EventInv
<1>7. NoLostEvent'
  <2>1. ASSUME NEW p \in Open, Unread(p)' \/ hup[p], pc' # "killed"
        PROVE  p \in ready \cup batch \/ (cur = p /\ pc' \in {"read", "list"})
    <3>1. CASE p = cur
      <4>1. CASE pc' = "batch"
        BY <4>1, <3>1, <2>1 DEF Unread
      <4> QED BY <4>1, <3>1, <2>1
    <3>2. CASE p # cur
      <4>1. Unread(p)' <=> Unread(p)
        BY <3>2 DEF Unread, Open
      <4> QED BY <4>1, <3>2, <2>1 DEF IInv, NoLostEvent
    <3> QED BY <3>1, <3>2
  <2>2. ASSUME NEW p \in Peers, state[p] = "backlog"
        PROVE  Listen \in ready \cup batch
    BY <2>2 DEF IInv, NoLostEvent
  <2> QED BY <2>1, <2>2, <1>2 DEF NoLostEvent
<1> QED BY <1>4, <1>5, <1>6, <1>7 DEF IInv

LEMMA ReadMessageStep == ASSUME IInv, ReadMessage PROVE IInv'
<1>1. /\ pc = "read" /\ Touch(cur)
      /\ nread' = [nread EXCEPT ![cur] = @ + 1]
      /\ UNCHANGED <<cur, batch, now, clock, ready, state, hup, said>>
  BY DEF ReadMessage
<1>2. pc' \in {"read", "list", "killed"}
  BY ReadMessageGoes
<1>3. nread = [p \in Peers |-> nread[p]]
  BY DEF IInv, LoopType
<1>4. /\ nread' = [p \in Peers |-> nread'[p]]
      /\ \A p \in Peers : p # cur => nread'[p] = nread[p]
  BY <1>1, <1>3
<1> QED BY <1>1, <1>2, <1>4, TouchStep

LEMMA ReadAgainStep == ASSUME IInv, ReadAgain PROVE IInv'
<1>1. /\ pc = "read" /\ Touch(cur) /\ ~Unread(cur) /\ ~hup[cur] /\ pc' = "batch"
      /\ nread' = nread
      /\ UNCHANGED <<cur, batch, now, clock, ready, state, hup, said>>
  BY DEF ReadAgain
<1>2. nread = [p \in Peers |-> nread[p]]
  BY DEF IInv, LoopType
<1> QED BY <1>1, <1>2, TouchStep

LEMMA PeerListStep == ASSUME IInv, PeerList \/ PeerListDone PROVE IInv'
<1>1. /\ pc = "list" /\ pc' \in {"list", "read", "killed"}
      /\ UNCHANGED <<cur, batch, now, clock, ready, state, hup, said, nread,
                     time_last, timeout_list>>
  BY SendToGoes DEF PeerList, PeerListDone
<1>2. LoopType' /\ EventInv' /\ NoLostEvent'
  BY <1>1 DEF IInv, LoopType, EventInv, NoLostEvent, Open, Unread
<1> QED BY <1>1, <1>2, PeersKept DEF IInv, TimeInv, LoopType

-----------------------------------------------------------------------------
(* The clients and the timer.                                              *)

LEMMA ClientStep ==
    ASSUME IInv, NEW p \in Peers, Client(p) PROVE IInv'
<1>1. /\ pc # "killed" /\ pc' = pc
      /\ UNCHANGED <<cur, batch, now, clock, nread, time_last, timeout_list>>
  BY DEF Client, loopVars
<1>2. LoopType /\ p # Listen
  BY ServerAssumption DEF IInv
<1>3. CASE Connect(p)
  <2>1. /\ state[p] = "none" /\ state' = [state EXCEPT ![p] = "backlog"]
        /\ ready' = ready \cup {Listen} /\ hup' = hup /\ said' = said
    BY <1>3 DEF Connect
  <2>2. Open' = Open
    BY <2>1, <1>2 DEF Open, LoopType
  <2>3. LoopType'
    BY <2>1, <1>1, <1>2 DEF LoopType
  <2>4. TimeInv'
    BY <2>2, <1>1 DEF IInv, TimeInv
  <2>5. EventInv'
    BY <2>1, <2>2, <1>1 DEF IInv, EventInv
  <2>6. NoLostEvent'
    BY <2>1, <2>2, <1>1 DEF IInv, NoLostEvent, Unread
  <2> QED BY <2>3, <2>4, <2>5, <2>6 DEF IInv
<1>4. CASE ClientSend(p) \/ ClientClose(p)
  <2>1. /\ Edge(p) /\ state' = state
        /\ said' = [said EXCEPT ![p] = said'[p]]
        /\ hup' \in [Peers -> BOOLEAN]
        /\ \A q \in Peers : q # p => hup'[q] = hup[q]
    BY <1>2, <1>4 DEF ClientSend, ClientClose, LoopType
  <2>2. Open' = Open
    BY <2>1 DEF Open
  <2>3. ready' = IF p \in Open THEN ready \cup {p} ELSE ready
    BY <2>1 DEF Edge, Open
  <2>4. LoopType'
    BY <2>1, <2>3, <1>1, <1>2 DEF LoopType
  <2>5. TimeInv'
    BY <2>2, <1>1 DEF IInv, TimeInv
  <2>6. EventInv'
    BY <2>2, <2>3, <1>1 DEF IInv, EventInv
  <2>7. NoLostEvent'
    <3>1. ASSUME NEW q \in Open, Unread(q)' \/ hup'[q]
          PROVE  q \in ready' \cup batch \/ (cur = q /\ pc \in {"read", "list"})
      <4>1. CASE q = p
        BY <4>1, <2>3
      <4>2. CASE q # p
        <5>1. q \in Peers /\ said'[q] = said[q] /\ hup'[q] = hup[q]
          BY <4>2, <2>1, <1>2 DEF Open, LoopType
        <5>2. Unread(q) \/ hup[q]
          BY <5>1, <3>1, <1>1 DEF Unread
        <5> QED BY <5>2, <1>1, <2>3 DEF IInv, NoLostEvent
      <4> QED BY <4>1, <4>2
    <3>2. ASSUME NEW q \in Peers, state[q] = "backlog"
          PROVE  Listen \in ready' \cup batch \/ pc = "accept"
      BY <3>2, <1>1, <2>3 DEF IInv, NoLostEvent
    <3> QED BY <3>1, <3>2, <2>1, <2>2, <1>1 DEF NoLostEvent
  <2> QED BY <2>4, <2>5, <2>6, <2>7 DEF IInv
<1> QED BY <1>3, <1>4 DEF Client

LEMMA TimerStep == ASSUME IInv, Timer PROVE IInv'
<1>1. /\ clock' \in {clock, clock + 1}
      /\ UNCHANGED <<pc, cur, batch, now, ready, state, hup, said, nread, time_last,
                     timeout_list>>
  BY DEF Timer, loopVars
<1>2. LoopType' /\ EventInv' /\ NoLostEvent'
  BY <1>1 DEF IInv, LoopType, EventInv, NoLostEvent, Open, Unread
<1>3. now' <= clock' /\ clock <= clock'
  BY <1>1 DEF IInv, TimeInv, LoopType
<1> QED BY <1>1, <1>2, <1>3, PeersKept

LEMMA Inductive == IInv /\ [Next]_vars => IInv'
<1> SUFFICES ASSUME IInv, [Next]_vars PROVE IInv'
  OBVIOUS
<1>1. CASE Main
  <2>1. CASE SigAlarm BY <2>1, SigAlarmStep
  <2>2. CASE CheckTimeout BY <2>2, CheckTimeoutStep
  <2>3. CASE ClearPeer BY <2>3, ClearPeerStep
  <2>4. CASE ClearDone BY <2>4, ClearDoneStep
  <2>5. CASE Enter BY <2>5, EnterStep
  <2>6. CASE EpollWait BY <2>6, EpollWaitStep
  <2>7. CASE HandleEvent BY <2>7, HandleEventStep
  <2>8. CASE BatchDone BY <2>8, BatchDoneStep
  <2>9. ASSUME NEW p \in Peers, Accept(p) PROVE IInv'
    BY <2>9, AcceptStep
  <2>10. CASE AcceptAgain \/ AcceptError BY <2>10, AcceptEndStep
  <2>11. CASE ReadMessage BY <2>11, ReadMessageStep
  <2>12. CASE PeerList \/ PeerListDone BY <2>12, PeerListStep
  <2>13. CASE ReadAgain BY <2>13, ReadAgainStep
  <2>14. CASE ReadFail BY <2>14, ReadFailStep
  <2> QED
    BY <1>1, <2>1, <2>2, <2>3, <2>4, <2>5, <2>6, <2>7, <2>8, <2>9, <2>10, <2>11,
       <2>12, <2>13, <2>14 DEF Main
<1>2. ASSUME NEW p \in Peers, Client(p) PROVE IInv'
  BY <1>2, ClientStep
<1>3. CASE Timer
  BY <1>3, TimerStep
<1>4. CASE UNCHANGED vars
  <2>1. UNCHANGED <<pc, cur, batch, now, clock, ready, state, hup, said, nread,
                    time_last, timeout_list>>
    BY <1>4 DEF vars
  <2>2. LoopType' /\ EventInv' /\ NoLostEvent'
    BY <2>1 DEF IInv, LoopType, EventInv, NoLostEvent, Open, Unread
  <2> QED BY <2>1, <2>2, PeersKept DEF IInv, TimeInv, LoopType
<1> QED BY <1>1, <1>2, <1>3, <1>4 DEF Next

-----------------------------------------------------------------------------
(* The theorems.                                                           *)

THEOREM Invariance == Spec => []IInv
<1>1. Init => IInv
  BY Initially
<1>2. IInv /\ [Next]_vars => IInv'
  BY Inductive
<1> QED BY <1>1, <1>2, PTL DEF Spec

(* timeout_list holds the open peers, each once, the one that has been     *)
(* idle longest first (server.c:98, :212, :503).                           *)
THEOREM TimeoutOrderCorrect == Spec => []TimeoutOrder
<1>1. IInv => TimeoutOrder
  BY OrderedIs DEF IInv, TimeInv
<1> QED BY <1>1, Invariance, PTL

(* Events still to handle are of peers that are allocated (server.c:484).  *)
THEOREM EventsLiveCorrect == Spec => []EventsLive
<1>1. IInv => EventsLive
  BY DEF IInv, EventInv, EventsLive
<1> QED BY <1>1, Invariance, PTL

(* Whatever a client sent, closed or asked to connect is still to be       *)
(* reported or is being handled.                                           *)
THEOREM NoLostEventCorrect == Spec => []NoLostEvent
<1>1. IInv => NoLostEvent
  BY DEF IInv
<1> QED BY <1>1, Invariance, PTL

LEMMA ClearDoneAll ==
    ASSUME IInv, ClearDone, NEW p \in Open
    PROVE  now <= time_last[p] + IdleMax
<1> DEFINE s == timeout_list
<1>1. s \in Seq(Peers) /\ Ordered(s, time_last, Open)
      /\ (\A q \in Peers : time_last[q] \in Nat) /\ now \in Nat /\ IdleMax \in Nat
  BY ServerAssumption DEF IInv, LoopType, TimeInv
<1>2. PICK i \in 1..Len(s) : s[i] = p
  BY <1>1 DEF Ordered, Elements
<1>3. s # <<>> /\ Head(s) = s[1] /\ 1 \in 1..Len(s)
  BY <1>1, <1>2
<1>4. now <= time_last[s[1]] + IdleMax
  BY <1>1, <1>3, ElementOfSeq DEF ClearDone, HeadExpired
<1>5. time_last[s[1]] <= time_last[p]
  <2>1. CASE i = 1
    BY <2>1, <1>1, <1>2, <1>3, ElementOfSeq
  <2>2. CASE i # 1
    BY <2>2, <1>1, <1>2, <1>3 DEF Ordered
  <2> QED BY <2>1, <2>2
<1> QED BY <1>1, <1>2, <1>3, <1>4, <1>5, ElementOfSeq

(* When clear_outtime_peer stops, at the first peer that is not late, none *)
(* of those behind it is (server.c:210).                                   *)
THEOREM ClearedAllCorrect == Spec => ClearedAll
<1>1. IInv /\ [Next]_vars =>
        [pc = "clear" /\ pc' = "enter" => \A p \in Open : now <= time_last[p] + IdleMax]_vars
  <2> SUFFICES ASSUME IInv, Next, pc = "clear", pc' = "enter", NEW p \in Open
               PROVE  now <= time_last[p] + IdleMax
    OBVIOUS
  <2>1. ClearDone
    <3>1. ~\E q \in Peers : Client(q)
      BY DEF Client, loopVars
    <3>2. ~Timer
      BY DEF Timer, loopVars
    <3>3. Main
      BY <3>1, <3>2 DEF Next
    <3> QED
      BY <3>3
      DEF Main, SigAlarm, Unblocked, CheckTimeout, ClearPeer, loopVars, Enter, EpollWait,
          HandleEvent, BatchDone, Accept, AcceptAgain, AcceptError, ReadMessage,
          PeerList, PeerListDone, ReadAgain, ReadFail
  <2> QED BY <2>1, ClearDoneAll
<1> QED BY <1>1, Invariance, PTL DEF Spec, ClearedAll
=============================================================================
