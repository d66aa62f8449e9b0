-------------------------- MODULE ServerAccountProofs --------------------------
(***************************************************************************)
(* Theorems about the accounts of Server and what is sent to them, for any *)
(* number of clients, packets and ticks, and any names and members.        *)
(***************************************************************************)
EXTENDS ServerProofs, FiniteSetTheorems, NaturalsInduction, WellFoundedInduction

-----------------------------------------------------------------------------
(* The hash table.                                                         *)

LEMMA LeastIndex ==
    ASSUME NEW T \in SUBSET Nat, T # {}
    PROVE  \E m \in T : \A k \in T : m <= k
<1> DEFINE R == OpToRel(<, Nat)
<1>1. IsWellFoundedOn(R, Nat)
  BY NatLessThanWellFounded
<1>2. PICK m \in T : \A k \in T : ~ (<<k, m>> \in R)
  <2> HIDE DEF R
  <2> QED BY <1>1, WFMin
<1>3. \A k \in T : ~(k < m)
  <2> TAKE k \in T
  <2> QED BY <1>2 DEF OpToRel
<1> QED BY <1>3

(* account_get_from_db gives the first account that matches, or none.      *)
LEMMA LookupIs ==
    ASSUME hslot \in Seq(Nat \ {0}), NEW n
    PROVE  \/ /\ Lookup(n) = 0
              /\ \A i \in 1..Len(hslot) : ~Matches(accts[hslot[i]].name, n)
           \/ \E i \in 1..Len(hslot) :
                 /\ Lookup(n) = hslot[i] /\ hslot[i] # 0
                 /\ Matches(accts[hslot[i]].name, n)
                 /\ \A j \in 1..Len(hslot) : Matches(accts[hslot[j]].name, n) => i <= j
<1> DEFINE hits == {i \in 1..Len(hslot) : Matches(accts[hslot[i]].name, n)}
<1>1. CASE hits = {}
  BY <1>1 DEF Lookup
<1>2. CASE hits # {}
  <2>1. hits \in SUBSET Nat
    OBVIOUS
  <2>2. \E i \in hits : \A j \in hits : i <= j
    <3> HIDE DEF hits
    <3> QED BY <1>2, <2>1, LeastIndex
  <2> DEFINE i == CHOOSE i \in hits : \A j \in hits : i <= j
  <2>3. i \in hits /\ \A j \in hits : i <= j
    <3> HIDE DEF hits
    <3> QED BY <2>2
  <2>4. Lookup(n) = hslot[i]
    BY <1>2 DEF Lookup
  <2> HIDE DEF i
  <2>5. i \in 1..Len(hslot) /\ Matches(accts[hslot[i]].name, n) /\ hslot[i] # 0
    BY <2>3, ElementOfSeq
  <2> QED BY <2>3, <2>4, <2>5
<1> QED BY <1>1, <1>2

-----------------------------------------------------------------------------
(* Output.                                                                 *)

OutType ==
    /\ oq \in [Peers -> Seq(Packets)]
    /\ wire \in [Peers -> Seq(Packets)]

(* m joins what p was sent and is to be sent.                              *)
Appended(p, m) ==
    \A q \in Peers : Stream(q)' = IF q = p THEN Append(Stream(q), m) ELSE Stream(q)

Unsent == \A q \in Peers : Stream(q)' = Stream(q)

LEMMA ConcatTwice ==
    ASSUME NEW S, NEW a \in Seq(S), NEW b \in Seq(S), NEW c \in Seq(S)
    PROVE  (a \o b) \o c = a \o (b \o c)
BY ConcatAssociative

LEMMA AppendTwice ==
    ASSUME NEW S, NEW w \in Seq(S), NEW o \in Seq(S), NEW m \in S
    PROVE  w \o Append(o, m) = Append(w \o o, m)
<1>1. Append(o, m) = o \o <<m>> /\ <<m>> \in Seq(S)
  BY AppendIsConcat
<1>2. (w \o o) \o <<m>> = w \o (o \o <<m>>)
  BY <1>1, ConcatTwice
<1>3. Append(w \o o, m) = (w \o o) \o <<m>>
  BY ConcatProperties, AppendIsConcat
<1> QED BY <1>1, <1>2, <1>3

(* A queue cut anywhere, its first part joined to w.                       *)
LEMMA CutAnywhere ==
    ASSUME NEW S, NEW w \in Seq(S), NEW q \in Seq(S), NEW k \in 0..Len(q)
    PROVE  /\ w \o SubSeq(q, 1, k) \in Seq(S) /\ SubSeq(q, k + 1, Len(q)) \in Seq(S)
           /\ (w \o SubSeq(q, 1, k)) \o SubSeq(q, k + 1, Len(q)) = w \o q
<1> DEFINE a == SubSeq(q, 1, k)
           b == SubSeq(q, k + 1, Len(q))
<1>1. Len(q) \in Nat /\ \A i \in 1..Len(q) : q[i] \in S
  BY ElementOfSeq
<1>2. a \in Seq(S)
  <2>1. \A i \in 1..k : q[i] \in S
    BY <1>1
  <2> QED BY <2>1, SubSeqProperties
<1>3. b \in Seq(S)
  <2>1. (\A i \in (k + 1)..Len(q) : q[i] \in S) /\ k + 1 \in Int /\ Len(q) \in Int
    BY <1>1
  <2> QED BY <2>1, SubSeqProperties
<1>4. a \o b = q
  <2>1. 1 \in 1..(Len(q) + 1) /\ k \in (1 - 1)..Len(q) /\ Len(q) \in k..Len(q)
    BY <1>1
  <2>2. a \o b = SubSeq(q, 1, Len(q))
    BY <2>1, ConcatAdjacentSubSeq
  <2> QED BY <2>2, SubSeqFull
<1> HIDE DEF a, b
<1>5. ASSUME NEW c \in Seq(S), NEW d \in Seq(S)
      PROVE  w \o c \in Seq(S) /\ (w \o c) \o d = w \o (c \o d)
  <2>1. w \o c \in Seq(S)
    BY ConcatProperties
  <2>2. (w \o c) \o d = w \o (c \o d)
    BY ConcatTwice, SMTT(40)
  <2> QED BY <2>1, <2>2
<1>6. w \o a \in Seq(S) /\ (w \o a) \o b = w \o q
  BY <1>2, <1>3, <1>4, <1>5
<1> QED BY <1>3, <1>6 DEF a, b

(* However much of the queue send_message gets rid of, the stream of the   *)
(* peer is longer by the packet.                                           *)
LEMMA SendIs ==
    ASSUME OutType, NEW p \in Peers, NEW m \in Packets, Send(p, m)
    PROVE  OutType' /\ Appended(p, m)
<1>0. \A w, o \in Seq(Packets) : w \o Append(o, m) = Append(w \o o, m)
  BY AppendTwice
<1> DEFINE q == Append(oq[p], m)
<1>1. oq[p] \in Seq(Packets) /\ wire[p] \in Seq(Packets)
  BY DEF OutType
<1>2. q \in Seq(Packets)
  BY <1>1, AppendProperties
<1>3. PICK k \in 0..Len(q) :
          /\ wire' = [wire EXCEPT ![p] = wire[p] \o SubSeq(q, 1, k)]
          /\ oq' = [oq EXCEPT ![p] = SubSeq(q, k + 1, Len(q))]
  BY DEF Send, AddTail
<1>4. wire[p] \o q = Append(wire[p] \o oq[p], m)
  BY <1>0, <1>1
<1> HIDE DEF q
<1> DEFINE a == wire[p] \o SubSeq(q, 1, k)
           b == SubSeq(q, k + 1, Len(q))
<1>5. a \in Seq(Packets) /\ b \in Seq(Packets) /\ a \o b = wire[p] \o q
  <2>1. ASSUME NEW w \in Seq(Packets), NEW c \in Seq(Packets), NEW n \in 0..Len(c)
        PROVE  /\ w \o SubSeq(c, 1, n) \in Seq(Packets)
               /\ SubSeq(c, n + 1, Len(c)) \in Seq(Packets)
               /\ (w \o SubSeq(c, 1, n)) \o SubSeq(c, n + 1, Len(c)) = w \o c
    BY CutAnywhere, ZenonT(30)
  <2> DEFINE w == wire[p]
  <2>2. w \in Seq(Packets)
    BY <1>1
  <2> HIDE DEF w
  <2>3. /\ w \o SubSeq(q, 1, k) \in Seq(Packets) /\ b \in Seq(Packets)
        /\ (w \o SubSeq(q, 1, k)) \o b = w \o q
    BY <1>2, <2>1, <2>2
  <2> QED BY <2>3 DEF w
<1>6. wire' = [wire EXCEPT ![p] = a] /\ oq' = [oq EXCEPT ![p] = b]
  BY <1>3
<1> HIDE DEF a, b
<1>7. wire'[p] = a /\ oq'[p] = b
  BY <1>6 DEF OutType
<1>8. Stream(p)' = Append(Stream(p), m)
  BY <1>4, <1>5, <1>7 DEF Stream
<1>9. ASSUME NEW r \in Peers, r # p
      PROVE  Stream(r)' = Stream(r)
  BY <1>6, <1>9 DEF Stream, OutType
<1>10. OutType'
  BY <1>5, <1>6 DEF OutType
<1> QED BY <1>8, <1>9, <1>10 DEF Appended

LEMMA UnsentIs ==
    ASSUME OutType, UNCHANGED outVars
    PROVE  OutType' /\ Unsent
BY DEF OutType, Unsent, outVars, Stream

LEMMA StreamType ==
    ASSUME OutType, NEW p \in Peers
    PROVE  Stream(p) \in Seq(Packets)
BY ConcatProperties DEF OutType, Stream

(* A packet to an account reaches its peer while there is one; after that  *)
(* it may reach any other.                                                 *)
LEMMA SendToIs ==
    ASSUME OutType, NEW a, NEW m \in Packets, NEW next, SendTo(a, m, next)
    PROVE  /\ accts[a].conn \in Open => OutType' /\ Appended(accts[a].conn, m)
           /\ accts[a].conn \in Peers =>
                 OutType' /\ (Unsent \/ \E q \in Open : Appended(q, m))
<1> DEFINE p == accts[a].conn
<1>1. CASE state[p] = "open" /\ SendAndGo(p, m, next)
  <2>1. p \in Peers => p \in Open
    BY <1>1 DEF Open
  <2>2. p \in Peers => OutType' /\ Appended(p, m)
    BY <1>1, SendIs DEF SendAndGo
  <2> QED BY <2>1, <2>2 DEF Open
<1>2. CASE state[p] # "open" /\ UNCHANGED outVars
  BY <1>2, UnsentIs DEF Open
<1>3. CASE state[p] # "open" /\ \E q \in Open : SendAndGo(q, m, next)
  <2>1. PICK q \in Open : SendAndGo(q, m, next)
    BY <1>3
  <2>2. OutType' /\ Appended(q, m)
    BY <2>1, SendIs DEF SendAndGo, Open
  <2> QED BY <2>2, <1>3 DEF Open
<1> QED BY <1>1, <1>2, <1>3 DEF SendTo

-----------------------------------------------------------------------------
(* What a step can be to the accounts and to what is sent.                 *)

kept == <<account, accts, hslot, oq, wire, rows, nread>>

Quiet ==
    /\ UNCHANGED kept /\ Open' = Open
    /\ pc' = "list" => pc = "list" /\ cur' = cur

Opened(p) ==
    /\ UNCHANGED <<kept, said>>
    /\ p \notin Open /\ Open' = Open \cup {p} /\ pc' # "list"

Destroyed(p) ==
    /\ UNCHANGED <<accts, oq, wire, rows, nread, said>>
    /\ account' = [account EXCEPT ![p] = 0]
    /\ hslot' = Unlisted(p)
    /\ Open' = Open \ {p} /\ pc' # "list"

LEMMA ClientIs ==
    ASSUME IInv, NEW p \in Peers, Client(p)
    PROVE  Quiet /\ (said' = said \/ ClientSend(p))
<1>1. UNCHANGED kept /\ pc' = pc /\ cur' = cur
  BY DEF Client, loopVars, acctVars, outVars, kept
<1>2. Open' = Open
  <2>1. CASE Connect(p)
    BY <2>1 DEF Connect, Open, IInv, LoopType
  <2>2. CASE ClientSend(p) \/ ClientClose(p)
    BY <2>2 DEF ClientSend, ClientClose, Open
  <2> QED BY <2>1, <2>2 DEF Client
<1>3. said' = said \/ ClientSend(p)
  BY DEF Client, Connect, ClientClose
<1> QED BY <1>1, <1>2, <1>3 DEF Quiet

LEMMA DestroyIs ==
    ASSUME IInv, NEW p \in Open, Destroy(p), UNCHANGED <<outVars, rows, nread, said>>,
           pc' # "list"
    PROVE  Destroyed(p)
<1>1. Open' = Open \ {p}
  BY DEF Destroy, Open, IInv, LoopType
<1> QED BY <1>1 DEF Destroy, Destroyed, outVars

LEMMA StepIs ==
    ASSUME IInv, [Next]_vars
    PROVE  \/ Quiet /\ said' = said
           \/ \E p \in Peers : Quiet /\ ClientSend(p)
           \/ \E p \in Peers : Opened(p)
           \/ \E p \in Open : Destroyed(p)
           \/ ReadMessage
           \/ PeerList
<1>1. CASE SigAlarm \/ CheckTimeout \/ ClearDone \/ Enter \/ BatchDone
  BY <1>1 DEF SigAlarm, Unblocked, CheckTimeout, ClearDone, Enter, BatchDone, acctVars,
              outVars, kept, Quiet, Open
<1>2. CASE EpollWait \/ HandleEvent \/ AcceptAgain \/ AcceptError \/ PeerListDone
           \/ ReadAgain
  BY <1>2 DEF EpollWait, HandleEvent, AcceptAgain, AcceptError, PeerListDone, ReadAgain,
              acctVars, outVars, kept, Quiet, Open
<1>3. CASE ClearPeer
  <2> DEFINE p == Head(timeout_list)
  <2>1. timeout_list \in Seq(Peers) /\ timeout_list # <<>>
    BY <1>3 DEF ClearPeer, HeadExpired, IInv, LoopType
  <2>2. 1 \in 1..Len(timeout_list) /\ p = timeout_list[1]
    BY <2>1
  <2>3. p \in Open
    BY <2>2 DEF IInv, TimeInv, Ordered, Elements
  <2>4. Destroy(p) /\ UNCHANGED <<outVars, rows, nread, said>> /\ pc' # "list"
    BY <1>3 DEF ClearPeer, loopVars
  <2> HIDE DEF p
  <2> QED BY <2>3, <2>4, DestroyIs
<1>4. CASE ReadFail
  <2>1. cur \in Open
    BY <1>4 DEF ReadFail, IInv, EventInv
  <2>2. Destroy(cur) /\ UNCHANGED <<outVars, rows, nread, said>> /\ pc' # "list"
    BY <1>4 DEF ReadFail
  <2> QED BY <2>1, <2>2, DestroyIs
<1>5. ASSUME NEW p \in Peers, Accept(p) PROVE Opened(p)
  <2>1. p \notin Open /\ Open' = Open \cup {p}
    BY <1>5 DEF Accept, Open, IInv, LoopType
  <2> QED BY <1>5, <2>1 DEF Accept, Opened, kept, acctVars, outVars
<1>6. ASSUME NEW p \in Peers, Client(p)
      PROVE  Quiet /\ (said' = said \/ ClientSend(p))
  BY <1>6, ClientIs
<1>7. CASE Timer \/ UNCHANGED vars
  BY <1>7 DEF Timer, loopVars, acctVars, outVars, vars, kept, Quiet, Open
<1> QED BY <1>1, <1>2, <1>3, <1>4, <1>5, <1>6, <1>7 DEF Next, Main

-----------------------------------------------------------------------------
(* The packets of the clients.                                             *)

LEMMA PacketFields ==
    ASSUME NEW m \in Packets
    PROVE  /\ m.type = "CHART" => m.to \in Names /\ m.id \in Peers \X (Nat \ {0})
           /\ m.type = "LOGIN" => m.name \in Names
BY DEF Packets

LEMMA PacketIs ==
    ASSUME NEW p \in Peers, NEW i \in Nat \ {0}, NEW b \in Bodies
    PROVE  /\ Packet(p, i, b) \in Packets
           /\ Packet(p, i, b).type = "CHART" => Packet(p, i, b).id = <<p, i>>
<1>1. CASE b \in [type : {"LOGIN"}, name : Names]
  BY <1>1 DEF Packet, Packets
<1>2. CASE b \in [type : {"CHART"}, to : Names]
  BY <1>2 DEF Packet, Packets
<1> QED BY <1>1, <1>2 DEF Bodies

(* What has been read was sent, and a chat carries its number.             *)
SaidInv ==
    /\ said \in [Peers -> Seq(Packets)]
    /\ nread \in [Peers -> Nat]
    /\ \A p \in Peers :
          /\ nread[p] <= Len(said[p])
          /\ \A i \in 1..Len(said[p]) :
                said[p][i].type = "CHART" => said[p][i].id = <<p, i>>

LEMMA ClientSendIs ==
    ASSUME SaidInv, NEW p \in Peers, ClientSend(p)
    PROVE  /\ said' \in [Peers -> Seq(Packets)]
           /\ \A q \in Peers : q # p => said'[q] = said[q]
           /\ Len(said[p]) <= Len(said'[p])
           /\ \A i \in 1..Len(said[p]) : said'[p][i] = said[p][i]
           /\ \A i \in 1..Len(said'[p]) :
                 said'[p][i].type = "CHART" => said'[p][i].id = <<p, i>>
           /\ Logins(said'[p]) <= LoginsPerPeer
<1> DEFINE s == said[p]
<1>1. s \in Seq(Packets) /\ Len(s) \in Nat
  BY DEF SaidInv
<1>0. PICK n \in 1..Burst : \E b \in [1..n -> Bodies] :
          said' = [said EXCEPT ![p] = s \o [i \in 1..n |-> Packet(p, Len(s) + i, b[i])]]
  BY DEF ClientSend
<1>2. PICK b \in [1..n -> Bodies] :
          said' = [said EXCEPT ![p] = s \o [i \in 1..n |-> Packet(p, Len(s) + i, b[i])]]
  BY <1>0
<1> DEFINE new == [i \in 1..n |-> Packet(p, Len(s) + i, b[i])]
<1>3. n \in Nat
  BY ServerAssumption
<1>4. ASSUME NEW i \in 1..n
      PROVE  new[i] \in Packets /\ (new[i].type = "CHART" => new[i].id = <<p, Len(s) + i>>)
  BY <1>1, <1>3, PacketIs
<1>5. new \in Seq(Packets) /\ Len(new) = n
  BY <1>3, <1>4
<1>6. said'[p] = s \o new
  BY <1>2 DEF SaidInv
<1>7. said' = [said EXCEPT ![p] = s \o new]
  BY <1>2
<1> HIDE DEF new
<1>8. /\ s \o new \in Seq(Packets) /\ Len(s \o new) = Len(s) + n
      /\ \A i \in 1..(Len(s) + n) :
            (s \o new)[i] = IF i <= Len(s) THEN s[i] ELSE new[i - Len(s)]
  BY <1>1, <1>5, ConcatProperties
<1>9. \A i \in 1..Len(s) : s[i].type = "CHART" => s[i].id = <<p, i>>
  BY DEF SaidInv
<1>10. ASSUME NEW i \in 1..(Len(s) + n), (s \o new)[i].type = "CHART"
       PROVE  (s \o new)[i].id = <<p, i>>
  <2>1. CASE i <= Len(s)
    BY <2>1, <1>1, <1>3, <1>8, <1>9, <1>10
  <2>2. CASE ~(i <= Len(s))
    <3>1. i - Len(s) \in 1..n /\ Len(s) + (i - Len(s)) = i
      BY <2>2, <1>1, <1>3
    <3> QED BY <2>2, <3>1, <1>4, <1>8, <1>10
  <2> QED BY <2>1, <2>2
<1>11. \A i \in 1..Len(s) : (s \o new)[i] = s[i]
  BY <1>1, <1>3, <1>8
<1>12. said' \in [Peers -> Seq(Packets)] /\ \A q \in Peers : q # p => said'[q] = said[q]
  BY <1>7, <1>8 DEF SaidInv
<1>13. Logins(said'[p]) <= LoginsPerPeer
  BY DEF ClientSend
<1>14. Len(s) <= Len(s) + n
  BY <1>1, <1>3
<1> HIDE DEF s
<1> QED BY <1>6, <1>8, <1>10, <1>11, <1>12, <1>13, <1>14 DEF s

(* A step that reads nothing keeps what is said of the packets.            *)
LEMMA SaidKept ==
    ASSUME SaidInv, nread' = nread,
           said' = said \/ \E p \in Peers : ClientSend(p)
    PROVE  SaidInv'
<1>1. CASE said' = said
  BY <1>1 DEF SaidInv
<1>2. ASSUME NEW p \in Peers, ClientSend(p)
      PROVE  SaidInv'
  <2> USE <1>2
  <2>1. said' \in [Peers -> Seq(Packets)]
    BY ClientSendIs
  <2>2. ASSUME NEW q \in Peers
        PROVE  /\ nread[q] <= Len(said'[q])
               /\ \A i \in 1..Len(said'[q]) :
                     said'[q][i].type = "CHART" => said'[q][i].id = <<q, i>>
    <3>1. CASE q = p
      <4>1. /\ Len(said[p]) <= Len(said'[p])
            /\ \A i \in 1..Len(said'[p]) :
                  said'[p][i].type = "CHART" => said'[p][i].id = <<p, i>>
        BY ClientSendIs
      <4>2. nread[p] \in Nat /\ Len(said[p]) \in Nat /\ Len(said'[p]) \in Nat
            /\ nread[p] <= Len(said[p])
        BY <2>1 DEF SaidInv
      <4> QED BY <3>1, <4>1, <4>2
    <3>2. CASE q # p
      <4>1. said'[q] = said[q]
        BY <3>2, ClientSendIs
      <4> QED BY <4>1 DEF SaidInv
    <3> QED BY <3>1, <3>2
  <2> QED BY <2>1, <2>2 DEF SaidInv
<1> QED BY <1>1, <1>2

(* The message main reads next.                                            *)
TheMessage == said[cur][nread[cur] + 1]

LEMMA MessageIs ==
    ASSUME IInv, SaidInv, ReadMessage
    PROVE  /\ TheMessage \in Packets
           /\ cur \in Open /\ cur' = cur /\ Open' = Open /\ said' = said
           /\ nread' = [nread EXCEPT ![cur] = @ + 1] /\ nread[cur] < Len(said[cur])
           /\ TheMessage.type = "CHART" => TheMessage.id = <<cur, nread[cur] + 1>>
           /\ SaidInv'
<1>1. /\ pc = "read" /\ Unread(cur) /\ cur' = cur /\ state' = state /\ said' = said
      /\ nread' = [nread EXCEPT ![cur] = @ + 1]
  BY DEF ReadMessage
<1>2. cur \in Open /\ cur \in Peers /\ Open' = Open
  BY <1>1 DEF IInv, EventInv, Open
<1>3. nread[cur] < Len(said[cur]) /\ nread[cur] \in Nat /\ Len(said[cur]) \in Nat
      /\ said[cur] \in Seq(Packets)
  BY <1>1, <1>2 DEF Unread, SaidInv
<1>4. nread[cur] + 1 \in 1..Len(said[cur])
  BY <1>3
<1>5. TheMessage \in Packets /\ (TheMessage.type = "CHART" => TheMessage.id = <<cur, nread[cur] + 1>>)
  BY <1>2, <1>3, <1>4, ElementOfSeq DEF TheMessage, SaidInv
<1>6. SaidInv'
  BY <1>1, <1>2, <1>3 DEF SaidInv
<1> QED BY <1>1, <1>2, <1>3, <1>5, <1>6

(* A LOGIN is refused, or its account registered; a chat finds an account  *)
(* or none.                                                                *)
Refused ==
    /\ TheMessage.type = "LOGIN"
    /\ UNCHANGED <<account, accts, hslot, rows>> /\ pc' # "list"
    /\ Send(cur, [type |-> "LOGIN_RESPOND", ok |-> FALSE])

Joined ==
    /\ TheMessage.type = "LOGIN" /\ Register(TheMessage.name)
    /\ rows' \in {<<>>, Members[TheMessage.name]}
    /\ Send(cur, [type |-> "LOGIN_RESPOND", ok |-> TRUE])

Dropped == UNCHANGED <<account, accts, hslot, rows, outVars>> /\ pc' # "list"

Routed ==
    /\ TheMessage.type = "CHART" /\ Lookup(TheMessage.to) # 0
    /\ SendTo(Lookup(TheMessage.to), TheMessage, "read")
    /\ UNCHANGED <<account, accts, hslot, rows>> /\ pc' # "list"

LEMMA BranchIs ==
    ASSUME ReadMessage
    PROVE  Refused \/ Joined \/ Dropped \/ Routed
<1> DEFINE m == TheMessage
<1>1. (m.type = "LOGIN" /\ Login(m)) \/ (m.type = "CHART" /\ Chart(m))
  BY DEF ReadMessage, TheMessage
<1> HIDE DEF m
<1>2. CASE m.type = "LOGIN" /\ Login(m)
  <2>1. Refused \/ Joined
    BY <1>2 DEF Login, SendAndGo, acctVars, Refused, Joined, m
  <2> QED BY <2>1
<1>3. CASE m.type = "CHART" /\ Chart(m)
  <2>1. /\ \/ Lookup(m.to) = 0 /\ pc' = "read" /\ UNCHANGED outVars
           \/ Lookup(m.to) # 0 /\ SendTo(Lookup(m.to), m, "read")
        /\ UNCHANGED <<account, accts, hslot, rows>>
    BY <1>3 DEF Chart, acctVars
  <2>2. CASE Lookup(m.to) = 0 /\ pc' = "read" /\ UNCHANGED outVars
    BY <2>1, <2>2 DEF Dropped
  <2>3. CASE Lookup(m.to) # 0 /\ SendTo(Lookup(m.to), m, "read")
    <3>1. pc' \in {"read", "killed"}
      BY <2>3, SendToGoes
    <3> QED BY <1>3, <2>1, <2>3, <3>1 DEF Routed, m
  <2> QED BY <2>1, <2>2, <2>3
<1> QED BY <1>1, <1>2, <1>3

-----------------------------------------------------------------------------
(* The accounts.                                                           *)

(* An account in the table is one there is; the account a peer points to   *)
(* is in the table, and is its own.                                        *)
TableInv ==
    /\ account \in [Peers -> Nat]
    /\ accts \in Seq([name : Names, conn : Peers])
    /\ hslot \in Seq(Nat \ {0})
    /\ Elements(hslot) \subseteq 1..Len(accts)
    /\ \A i, j \in 1..Len(hslot) : hslot[i] = hslot[j] => i = j
    /\ \A p \in Peers : account[p] # 0 =>
          account[p] \in Elements(hslot) /\ accts[account[p]].conn = p

(* While the member list is sent, the account of the login is the newest.  *)
ListInv ==
    /\ rows \in Seq(Names)
    /\ pc = "list" => account[cur] # 0 /\ hslot[1] = account[cur]

(* A new account in front of the others.                                   *)
LEMMA RegisterIs ==
    ASSUME TableInv, cur \in Peers, NEW n \in Names, Register(n)
    PROVE  /\ TableInv'
           /\ account'[cur] = Len(accts) + 1 /\ hslot'[1] = Len(accts) + 1
           /\ \A p \in Peers : p # cur => account'[p] = account[p]
           /\ Elements(hslot') = Elements(hslot) \cup {Len(accts) + 1}
           /\ accts'[Len(accts) + 1] = [name |-> n, conn |-> cur]
           /\ \A a \in 1..Len(accts) : accts'[a] = accts[a]
<1> DEFINE a == Len(accts) + 1
           r == [name |-> n, conn |-> cur]
<1>1. /\ accts \in Seq([name : Names, conn : Peers]) /\ Len(accts) \in Nat
      /\ hslot \in Seq(Nat \ {0}) /\ Len(hslot) \in Nat
  BY DEF TableInv
<1>2. accts' = Append(accts, r) /\ hslot' = <<a>> \o hslot
      /\ account' = [account EXCEPT ![cur] = a]
  BY DEF Register, NewAccount, AddHead
<1>3. r \in [name : Names, conn : Peers] /\ a \in Nat \ {0}
  BY <1>1
<1>4. /\ accts' \in Seq([name : Names, conn : Peers]) /\ Len(accts') = Len(accts) + 1
      /\ \A k \in 1..Len(accts) : accts'[k] = accts[k]
      /\ accts'[a] = r
  BY <1>1, <1>2, <1>3, AppendProperties
<1>5. <<a>> \in Seq(Nat \ {0}) /\ Len(<<a>>) = 1 /\ <<a>>[1] = a
  BY <1>3
<1> HIDE DEF a, r
<1>6. /\ hslot' \in Seq(Nat \ {0}) /\ Len(hslot') = Len(hslot) + 1
      /\ \A k \in 1..(Len(hslot) + 1) : hslot'[k] = IF k = 1 THEN a ELSE hslot[k - 1]
  <2> DEFINE s == <<a>>
  <2>1. s \in Seq(Nat \ {0}) /\ Len(s) = 1 /\ s[1] = a /\ hslot' = s \o hslot
    BY <1>2, <1>5
  <2> HIDE DEF s
  <2>2. /\ s \o hslot \in Seq(Nat \ {0}) /\ Len(s \o hslot) = Len(s) + Len(hslot)
        /\ \A k \in 1..(Len(s) + Len(hslot)) :
              (s \o hslot)[k] = IF k <= Len(s) THEN s[k] ELSE hslot[k - Len(s)]
    BY <2>1, <1>1, ConcatProperties
  <2>3. \A k \in 1..(Len(hslot) + 1) : k <= 1 <=> k = 1
    BY <1>1
  <2> QED BY <2>1, <2>2, <2>3, <1>1
<1>7. Elements(hslot') = Elements(hslot) \cup {a}
  <2>1. ASSUME NEW y \in Elements(hslot') PROVE y \in Elements(hslot) \cup {a}
    <3>1. PICK k \in 1..Len(hslot') : y = hslot'[k]
      BY DEF Elements
    <3>2. k = 1 \/ k - 1 \in 1..Len(hslot)
      BY <1>1, <1>6
    <3> QED BY <3>1, <3>2, <1>1, <1>6 DEF Elements
  <2>2. ASSUME NEW y \in Elements(hslot) PROVE y \in Elements(hslot')
    <3>1. PICK k \in 1..Len(hslot) : y = hslot[k]
      BY DEF Elements
    <3>2. /\ Len(hslot') = Len(hslot) + 1 /\ k + 1 \in 1..(Len(hslot) + 1)
          /\ k + 1 # 1 /\ (k + 1) - 1 = k
      BY <1>1, <1>6
    <3>3. hslot'[k + 1] = hslot[k]
      BY <3>2, <1>6
    <3> QED BY <3>1, <3>2, <3>3 DEF Elements
  <2>3. a \in Elements(hslot')
    <3>1. 1 \in 1..Len(hslot') /\ hslot'[1] = a
      BY <1>1, <1>6
    <3> QED BY <3>1 DEF Elements
  <2> QED BY <2>1, <2>2, <2>3
<1>8. a \notin 1..Len(accts) /\ 1..Len(accts) \cup {a} = 1..(Len(accts) + 1)
  BY <1>1 DEF a
<1>9. \A k \in 1..Len(hslot) : hslot[k] # a
  BY <1>8 DEF TableInv, Elements
<1>10. ASSUME NEW i \in 1..Len(hslot'), NEW j \in 1..Len(hslot'), hslot'[i] = hslot'[j]
       PROVE  i = j
  <2>1. (i = 1 \/ i - 1 \in 1..Len(hslot)) /\ (j = 1 \/ j - 1 \in 1..Len(hslot))
    BY <1>1, <1>6
  <2>2. /\ hslot'[i] = IF i = 1 THEN a ELSE hslot[i - 1]
        /\ hslot'[j] = IF j = 1 THEN a ELSE hslot[j - 1]
    BY <1>1, <1>6
  <2>3. i # 1 /\ j # 1 => i - 1 = j - 1
    BY <2>1, <2>2, <1>10 DEF TableInv
  <2>4. i = 1 <=> j = 1
    BY <2>1, <2>2, <1>9, <1>10
  <2> QED BY <2>3, <2>4, <1>1, <1>6
<1>11. account' \in [Peers -> Nat] /\ account'[cur] = a
       /\ \A p \in Peers : p # cur => account'[p] = account[p]
  BY <1>2, <1>3 DEF TableInv, a
<1>12. ASSUME NEW p \in Peers, account'[p] # 0
       PROVE  account'[p] \in Elements(hslot') /\ accts'[account'[p]].conn = p
  <2>1. CASE p = cur
    BY <2>1, <1>4, <1>7, <1>11 DEF r
  <2>2. CASE p # cur
    <3>1. account[p] \in Elements(hslot) /\ accts[account[p]].conn = p
          /\ account'[p] = account[p] /\ account[p] \in 1..Len(accts)
      BY <2>2, <1>11, <1>12 DEF TableInv
    <3> QED BY <3>1, <1>4, <1>7
  <2> QED BY <2>1, <2>2
<1>13. TableInv'
  <2>1. Elements(hslot') \subseteq 1..Len(accts')
    BY <1>4, <1>7, <1>8 DEF TableInv
  <2>2. Elements(hslot)' = Elements(hslot')
    BY DEF Elements
  <2> QED BY <1>4, <1>6, <1>10, <1>11, <1>12, <2>1, <2>2 DEF TableInv
<1>14. hslot'[1] = a
  BY <1>1, <1>6
<1> QED BY <1>4, <1>7, <1>11, <1>13, <1>14 DEF a, r

(* account_remove_from_db takes out the one account the peer points to.    *)
LEMMA UnlistedIs ==
    ASSUME TableInv, NEW p \in Peers, account' = [account EXCEPT ![p] = 0],
           hslot' = Unlisted(p), accts' = accts
    PROVE  TableInv' /\ Elements(hslot') = Elements(hslot) \ {account[p]}
<1>1. Elements(hslot)' = Elements(hslot') /\ hslot \in Seq(Nat \ {0}) /\ Len(hslot) \in Nat
  BY DEF Elements, TableInv
<1>2. /\ hslot' \in Seq(Nat \ {0})
      /\ Elements(hslot') = Elements(hslot) \ {account[p]}
      /\ \A i, j \in 1..Len(hslot') : hslot'[i] = hslot'[j] => i = j
  <2>1. CASE account[p] = 0
    <3>1. hslot' = hslot
      BY <2>1 DEF Unlisted
    <3>2. 0 \notin Elements(hslot)
      BY <1>1, ElementOfSeq DEF Elements
    <3> QED BY <2>1, <3>1, <3>2 DEF TableInv
  <2>2. CASE account[p] # 0
    <3> DEFINE r == hslot'
    <3>1. account[p] \in Elements(hslot) /\ r = Remove(hslot, account[p])
      BY <2>2 DEF TableInv, Unlisted
    <3> DEFINE a == account[p]
               rest == Remove(hslot, a)
    <3>10. a \in Elements(hslot)
      BY <3>1
    <3> HIDE DEF a, r
    <3>11. PICK q \in 1..Len(hslot) :
              /\ hslot[q] = a
              /\ rest \in Seq(Nat \ {0}) /\ Len(rest) = Len(hslot) - 1
              /\ \A k \in 1..(Len(hslot) - 1) :
                    rest[k] = IF k < q THEN hslot[k] ELSE hslot[k + 1]
      BY <1>1, <3>10, RemoveIs, ZenonT(30)
    <3> HIDE DEF rest
    <3>2. /\ hslot[q] = account[p]
          /\ r \in Seq(Nat \ {0}) /\ Len(r) = Len(hslot) - 1
          /\ \A k \in 1..(Len(hslot) - 1) :
                r[k] = IF k < q THEN hslot[k] ELSE hslot[k + 1]
      BY <3>1, <3>11 DEF a, rest
    <3> DEFINE from(k) == IF k < q THEN k ELSE k + 1
    <3>20. Len(r) = Len(hslot) - 1 /\ Len(hslot) \in Nat /\ q \in 1..Len(hslot)
      BY <1>1, <3>2
    <3>3. \A k \in 1..Len(r) :
              from(k) \in 1..Len(hslot) /\ from(k) # q /\ r[k] = hslot[from(k)]
      <4>1. \A k \in 1..Len(r) : from(k) \in 1..Len(hslot) /\ from(k) # q
        BY <3>20
      <4>2. \A k \in 1..Len(r) : r[k] = hslot[from(k)]
        BY <3>2, <3>20
      <4> QED BY <4>1, <4>2
    <3>4. \A i, j \in 1..Len(r) : from(i) = from(j) => i = j
      BY <3>20
    <3>5. \A i \in 1..Len(hslot) : i # q => \E k \in 1..Len(r) : from(k) = i
      <4> SUFFICES ASSUME NEW i \in 1..Len(hslot), i # q
                   PROVE  \E k \in 1..Len(r) : from(k) = i
        OBVIOUS
      <4>1. CASE i < q
        <5>1. i \in 1..Len(r) /\ from(i) = i
          BY <4>1, <1>1, <3>2
        <5> QED BY <5>1
      <4>2. CASE i > q
        <5>1. i - 1 \in 1..Len(r) /\ from(i - 1) = i
          BY <4>2, <1>1, <3>2
        <5> QED BY <5>1
      <4> QED BY <4>1, <4>2, <1>1
    <3> HIDE DEF from
    <3>6. \A i, j \in 1..Len(hslot) : hslot[i] = hslot[j] => i = j
      BY DEF TableInv
    <3>7. \A i, j \in 1..Len(r) : r[i] = r[j] => i = j
      BY <3>3, <3>4, <3>6
    <3>8. Elements(r) = Elements(hslot) \ {account[p]}
      <4>1. ASSUME NEW y \in Elements(r) PROVE y \in Elements(hslot) \ {account[p]}
        <5>1. PICK k \in 1..Len(r) : y = r[k]
          BY DEF Elements
        <5>2. from(k) \in 1..Len(hslot) /\ from(k) # q /\ y = hslot[from(k)]
          BY <5>1, <3>3
        <5>3. y # hslot[q]
          BY <5>2, <3>6
        <5> QED BY <5>2, <5>3, <3>2 DEF Elements
      <4>2. ASSUME NEW y \in Elements(hslot) \ {account[p]} PROVE y \in Elements(r)
        <5>1. PICK i \in 1..Len(hslot) : y = hslot[i]
          BY DEF Elements
        <5>2. i # q
          BY <5>1, <3>2
        <5>3. PICK k \in 1..Len(r) : from(k) = i
          BY <5>2, <3>5
        <5> QED BY <5>1, <5>3, <3>3 DEF Elements
      <4> QED BY <4>1, <4>2
    <3> QED BY <3>2, <3>7, <3>8 DEF r
  <2> QED BY <2>1, <2>2
<1>3. account' \in [Peers -> Nat]
  BY DEF TableInv
<1>4. ASSUME NEW q \in Peers, account'[q] # 0
      PROVE  account'[q] \in Elements(hslot') /\ accts'[account'[q]].conn = q
  <2>1. q # p /\ account'[q] = account[q]
    BY <1>4 DEF TableInv
  <2>2. account[q] \in Elements(hslot) /\ accts[account[q]].conn = q
    BY <2>1, <1>4 DEF TableInv
  <2>3. account[q] # account[p]
    <3>1. account[p] # 0 => accts[account[p]].conn = p
      BY DEF TableInv
    <3> QED BY <2>1, <2>2, <3>1, <1>4
  <2> QED BY <2>1, <2>2, <2>3, <1>2
<1>5. TableInv'
  <2>1. Elements(hslot') \subseteq 1..Len(accts')
    BY <1>2 DEF TableInv
  <2>2. accts' \in Seq([name : Names, conn : Peers])
    BY DEF TableInv
  <2> QED BY <1>1, <1>2, <1>3, <1>4, <2>1, <2>2 DEF TableInv
<1> QED BY <1>2, <1>5

-----------------------------------------------------------------------------
(* Chats.                                                                  *)

(* A chat that was sent on had been read, and later ones come later.       *)
ChatInv ==
    /\ \A p \in Peers : \A i \in 1..Len(Stream(p)) :
          Stream(p)[i].type = "CHART" =>
              Stream(p)[i].id[2] <= nread[Stream(p)[i].id[1]]
    /\ ChatsInOrder

LEMMA ChatKept ==
    ASSUME OutType, SaidInv, SaidInv', ChatInv, Unsent,
           \A p \in Peers : nread[p] <= nread'[p]
    PROVE  ChatInv'
<1>1. ASSUME NEW p \in Peers, NEW i \in 1..Len(Stream(p)), Stream(p)[i].type = "CHART"
      PROVE  Stream(p)[i].id[2] <= nread'[Stream(p)[i].id[1]]
  <2> DEFINE x == Stream(p)[i].id
  <2>1. x \in Peers \X (Nat \ {0}) /\ x[2] <= nread[x[1]]
    BY <1>1, StreamType, ElementOfSeq, PacketFields DEF ChatInv
  <2> HIDE DEF x
  <2>2. x[2] <= nread'[x[1]]
    BY <2>1 DEF SaidInv
  <2> QED BY <2>2 DEF x
<1>2. ChatsInOrder'
  BY DEF ChatInv, ChatsInOrder, Unsent
<1> QED BY <1>1, <1>2 DEF ChatInv, Unsent

(* One packet more, a chat only if it is the one that was just read.       *)
LEMMA ChatAppended ==
    ASSUME OutType, SaidInv, SaidInv', ChatInv, NEW q \in Peers, NEW m \in Packets,
           Appended(q, m), NEW c \in Peers,
           \A p \in Peers : nread[p] <= nread'[p],
           m.type = "CHART" => m.id = <<c, nread[c] + 1>> /\ nread'[c] = nread[c] + 1
    PROVE  ChatInv'
<1>1. \A p \in Peers : nread[p] \in Nat /\ nread'[p] \in Nat
  BY DEF SaidInv
<1>2. ASSUME NEW p \in Peers, NEW i \in 1..Len(Stream(p)), Stream(p)[i].type = "CHART"
      PROVE  /\ Stream(p)[i].id \in Peers \X (Nat \ {0})
             /\ Stream(p)[i].id[2] <= nread[Stream(p)[i].id[1]]
  BY <1>2, StreamType, ElementOfSeq, PacketFields DEF ChatInv
<1>3. ASSUME NEW p \in Peers
      PROVE  /\ \A i \in 1..Len(Stream(p)') :
                   Stream(p)'[i].type = "CHART" =>
                       Stream(p)'[i].id[2] <= nread'[Stream(p)'[i].id[1]]
             /\ \A i, j \in 1..Len(Stream(p)') :
                   /\ i < j
                   /\ Stream(p)'[i].type = "CHART" /\ Stream(p)'[j].type = "CHART"
                   /\ Stream(p)'[i].id[1] = Stream(p)'[j].id[1]
                   => Stream(p)'[i].id[2] < Stream(p)'[j].id[2]
  <2> DEFINE s == Stream(p)
             r == Stream(p)'
  <2>1. s \in Seq(Packets) /\ Len(s) \in Nat
    BY StreamType
  <2>2. \A i \in 1..Len(s) : s[i].type = "CHART" =>
            /\ s[i].id \in Peers \X (Nat \ {0})
            /\ s[i].id[2] <= nread[s[i].id[1]]
    BY <1>2
  <2>3. \A i, j \in 1..Len(s) :
            /\ i < j /\ s[i].type = "CHART" /\ s[j].type = "CHART"
            /\ s[i].id[1] = s[j].id[1]
            => s[i].id[2] < s[j].id[2]
    BY DEF ChatInv, ChatsInOrder
  <2>4. r = IF p = q THEN Append(s, m) ELSE s
    BY DEF Appended
  <2> HIDE DEF s, r
  <2>5. \A i \in 1..Len(s) : s[i].type = "CHART" => s[i].id[2] <= nread'[s[i].id[1]]
    <3> SUFFICES ASSUME NEW i \in 1..Len(s), s[i].type = "CHART"
                 PROVE  s[i].id[2] <= nread'[s[i].id[1]]
      OBVIOUS
    <3> DEFINE x == s[i].id
    <3>1. x[1] \in Peers /\ x[2] \in Nat /\ x[2] <= nread[x[1]]
      BY <2>2
    <3> HIDE DEF x
    <3>2. x[2] <= nread'[x[1]]
      BY <1>1, <3>1
    <3> QED BY <3>2 DEF x
  <2>6. CASE p # q
    BY <2>3, <2>4, <2>5, <2>6 DEF r
  <2>7. CASE p = q
    <3>1. /\ Len(r) = Len(s) + 1 /\ r[Len(s) + 1] = m
          /\ \A i \in 1..Len(s) : r[i] = s[i]
      BY <2>1, <2>4, <2>7, AppendProperties
    <3>2. \A i \in 1..Len(r) : i \in 1..Len(s) \/ i = Len(s) + 1
      BY <2>1, <3>1
    <3>3. m.type = "CHART" => m.id[1] = c /\ m.id[2] = nread[c] + 1 /\ nread'[c] = nread[c] + 1
      OBVIOUS
    <3>4. \A i \in 1..Len(r) : r[i].type = "CHART" => r[i].id[2] <= nread'[r[i].id[1]]
      BY <1>1, <2>5, <3>1, <3>2, <3>3
    <3>5. ASSUME NEW i \in 1..Len(r), NEW j \in 1..Len(r), i < j,
                 r[i].type = "CHART", r[j].type = "CHART", r[i].id[1] = r[j].id[1]
          PROVE  r[i].id[2] < r[j].id[2]
      <4>1. i \in 1..Len(s)
        BY <2>1, <3>1, <3>5
      <4>2. CASE j \in 1..Len(s)
        BY <4>1, <4>2, <3>1, <3>5, <2>3
      <4>3. CASE j = Len(s) + 1
        <5> DEFINE x == s[i].id
        <5>1. x[1] = c /\ x[2] \in Nat /\ x[2] <= nread[c]
          BY <4>1, <4>3, <3>1, <3>3, <3>5, <2>2
        <5> HIDE DEF x
        <5>2. x[2] < nread[c] + 1
          BY <5>1, <1>1
        <5> QED BY <5>2, <4>1, <4>3, <3>1, <3>3, <3>5 DEF x
      <4> QED BY <4>2, <4>3, <3>2
    <3> QED BY <3>4, <3>5 DEF r
  <2> QED BY <2>6, <2>7
<1> QED BY <1>3 DEF ChatInv, ChatsInOrder

-----------------------------------------------------------------------------
(* The invariant for clients that log in as often as they like.            *)

FlagType ==
    /\ check_timeout \in BOOLEAN /\ pending \in BOOLEAN
    /\ clock <= MaxClock

GInv == IInv /\ FlagType /\ OutType /\ SaidInv /\ TableInv /\ ListInv /\ ChatInv

LEMMA GInitially == Init => GInv
<1> SUFFICES ASSUME Init PROVE GInv
  OBVIOUS
<1>1. IInv
  BY Initially
<1>2. FlagType
  <2>1. clock <= MaxClock
    BY ServerAssumption DEF Init
  <2>2. check_timeout \in BOOLEAN /\ pending \in BOOLEAN
    BY DEF Init
  <2> QED BY <2>1, <2>2 DEF FlagType
<1>3. OutType
  BY DEF Init, OutType
<1>4. SaidInv
  BY DEF Init, SaidInv
<1>5. TableInv
  <2>1. Len(hslot) = 0 /\ Elements(hslot) = {}
    BY DEF Init, Elements
  <2> QED BY <2>1 DEF Init, TableInv
<1>6. ListInv
  BY DEF Init, ListInv
<1>7. ChatInv
  <2>1. ASSUME NEW p \in Peers PROVE Len(Stream(p)) = 0
    BY DEF Init, Stream
  <2> QED BY <2>1 DEF ChatInv, ChatsInOrder
<1> QED BY <1>1, <1>2, <1>3, <1>4, <1>5, <1>6, <1>7 DEF GInv

LEMMA FlagStep == ASSUME IInv, FlagType, [Next]_vars PROVE FlagType'
<1>1. CASE SigAlarm \/ CheckTimeout \/ ClearPeer \/ ClearDone \/ Enter \/ BatchDone
           \/ EpollWait \/ HandleEvent
  BY <1>1 DEF FlagType, SigAlarm, CheckTimeout, ClearPeer, ClearDone, Enter, BatchDone,
              EpollWait, HandleEvent, loopVars
<1>2. CASE AcceptAgain \/ AcceptError \/ ReadMessage \/ PeerList \/ PeerListDone
           \/ ReadAgain \/ ReadFail
  BY <1>2 DEF FlagType, AcceptAgain, AcceptError, ReadMessage, PeerList, PeerListDone,
              ReadAgain, ReadFail
<1>3. ASSUME NEW p \in Peers, Accept(p) \/ Client(p)
      PROVE  FlagType'
  BY <1>3 DEF FlagType, Accept, Client, loopVars
<1>4. CASE Timer \/ UNCHANGED vars
  BY <1>4 DEF FlagType, Timer, loopVars, vars
<1> QED BY <1>1, <1>2, <1>3, <1>4 DEF Next, Main

LEMMA SameRead ==
    ASSUME SaidInv, nread' = nread
    PROVE  \A p \in Peers : nread[p] <= nread'[p]
BY DEF SaidInv

LEMMA QuietStep ==
    ASSUME GInv, UNCHANGED kept, pc' = "list" => pc = "list" /\ cur' = cur,
           said' = said \/ \E p \in Peers : ClientSend(p)
    PROVE  OutType' /\ SaidInv' /\ TableInv' /\ ListInv' /\ ChatInv'
<1>1. OutType' /\ Unsent
  BY UnsentIs DEF GInv, kept, outVars
<1>2. TableInv'
  BY DEF GInv, TableInv, kept, Elements
<1>3. ListInv'
  BY DEF GInv, ListInv, kept
<1>4. SaidInv' /\ nread' = nread
  BY SaidKept DEF GInv, kept
<1>5. ChatInv'
  BY <1>1, <1>4, SameRead, ChatKept DEF GInv
<1> QED BY <1>1, <1>2, <1>3, <1>4, <1>5

LEMMA DestroyedStep ==
    ASSUME GInv, NEW p \in Open, Destroyed(p)
    PROVE  OutType' /\ SaidInv' /\ TableInv' /\ ListInv' /\ ChatInv'
<1>1. OutType' /\ Unsent
  BY UnsentIs DEF GInv, Destroyed, outVars
<1>2. TableInv'
  <2>1. p \in Peers /\ TableInv
    BY DEF Open, GInv
  <2>2. account' = [account EXCEPT ![p] = 0] /\ hslot' = Unlisted(p) /\ accts' = accts
    BY DEF Destroyed
  <2> QED BY <2>1, <2>2, UnlistedIs
<1>3. ListInv'
  BY DEF GInv, Destroyed, ListInv
<1>4. SaidInv' /\ nread' = nread
  BY SaidKept DEF GInv, Destroyed
<1>5. ChatInv'
  BY <1>1, <1>4, SameRead, ChatKept DEF GInv
<1> QED BY <1>1, <1>2, <1>3, <1>4, <1>5

(* An account that was found has a peer to send to, allocated or not.      *)
LEMMA FoundIs ==
    ASSUME TableInv, NEW n, Lookup(n) # 0
    PROVE  /\ Lookup(n) \in Elements(hslot)
           /\ accts[Lookup(n)].conn \in Peers
           /\ Matches(accts[Lookup(n)].name, n)
<1>1. PICK i \in 1..Len(hslot) : Lookup(n) = hslot[i] /\ Matches(accts[hslot[i]].name, n)
  BY LookupIs DEF TableInv
<1>2. hslot[i] \in Elements(hslot)
  BY DEF Elements
<1>3. accts[hslot[i]] \in [name : Names, conn : Peers]
  BY <1>2, ElementOfSeq DEF TableInv
<1> QED BY <1>1, <1>2, <1>3

LEMMA MessageStep ==
    ASSUME GInv, ReadMessage
    PROVE  OutType' /\ SaidInv' /\ TableInv' /\ ListInv' /\ ChatInv'
<1> DEFINE m == TheMessage
<1>1. /\ m \in Packets /\ SaidInv' /\ cur \in Peers /\ cur' = cur /\ cur \in Open
      /\ nread' = [nread EXCEPT ![cur] = @ + 1]
      /\ m.type = "CHART" => m.id = <<cur, nread[cur] + 1>>
  BY MessageIs DEF GInv, Open
<1> HIDE DEF m
<1>2. /\ \A p \in Peers : nread[p] \in Nat /\ nread[p] <= nread'[p]
      /\ nread'[cur] = nread[cur] + 1
  BY <1>1 DEF GInv, SaidInv
<1>3. OutType /\ SaidInv /\ TableInv /\ ListInv /\ ChatInv
  BY DEF GInv
<1>4. ASSUME NEW q \in Peers, NEW r \in Packets, Appended(q, r),
             r.type = "CHART" => r = m
      PROVE  ChatInv'
  BY <1>1, <1>2, <1>3, <1>4, ChatAppended
<1>5. ASSUME UNCHANGED <<account, accts, hslot, rows>>, pc' # "list"
      PROVE  TableInv' /\ ListInv'
  BY <1>3, <1>5 DEF TableInv, ListInv, Elements
<1>6. ASSUME Unsent PROVE ChatInv'
  BY <1>1, <1>2, <1>3, <1>6, ChatKept
<1>7. CASE Refused
  <2> DEFINE r == [type |-> "LOGIN_RESPOND", ok |-> FALSE]
  <2>1. r \in Packets /\ r.type # "CHART" /\ Send(cur, r)
    BY <1>7 DEF Refused, Packets
  <2> HIDE DEF r
  <2>2. OutType' /\ Appended(cur, r)
    BY <1>1, <1>3, <2>1, SendIs
  <2>3. ChatInv'
    BY <1>1, <1>4, <2>1, <2>2
  <2> QED BY <1>1, <1>5, <1>7, <2>2, <2>3 DEF Refused
<1>8. CASE Joined
  <2> DEFINE r == [type |-> "LOGIN_RESPOND", ok |-> TRUE]
  <2>1. r \in Packets /\ r.type # "CHART" /\ Send(cur, r)
    BY <1>8 DEF Joined, Packets
  <2> HIDE DEF r
  <2>2. OutType' /\ Appended(cur, r)
    BY <1>1, <1>3, <2>1, SendIs
  <2>3. ChatInv'
    BY <1>1, <1>4, <2>1, <2>2
  <2>4. m.name \in Names /\ Register(m.name) /\ rows' \in {<<>>, Members[m.name]}
    BY <1>1, <1>8, PacketFields DEF Joined, m
  <2>5. TableInv' /\ account'[cur] = Len(accts) + 1 /\ hslot'[1] = Len(accts) + 1
    BY <1>1, <1>3, <2>4, RegisterIs
  <2>6. rows' \in Seq(Names) /\ Len(accts) \in Nat
    <3>1. Members[m.name] \in Seq(Names) /\ <<>> \in Seq(Names)
      BY <2>4, ServerAssumption
    <3>2. rows' \in Seq(Names)
      BY <2>4, <3>1
    <3> QED BY <1>3, <3>2 DEF TableInv
  <2>7. ListInv'
    BY <1>1, <2>5, <2>6 DEF ListInv
  <2> QED BY <1>1, <2>2, <2>3, <2>5, <2>7
<1>9. CASE Dropped
  <2>1. OutType' /\ Unsent
    BY <1>3, <1>9, UnsentIs DEF Dropped
  <2> QED BY <1>1, <1>5, <1>6, <1>9, <2>1 DEF Dropped
<1>10. CASE Routed
  <2> DEFINE a == Lookup(m.to)
  <2>1. m.type = "CHART" /\ a # 0 /\ SendTo(a, m, "read")
    BY <1>10 DEF Routed, m
  <2>2. accts[a].conn \in Peers
    BY <1>3, <2>1, FoundIs
  <2> HIDE DEF a
  <2>3. OutType' /\ (Unsent \/ \E q \in Open : Appended(q, m))
    BY <1>1, <1>3, <2>1, <2>2, SendToIs
  <2>4. ChatInv'
    BY <1>1, <1>4, <1>6, <2>3 DEF Open
  <2> QED BY <1>1, <1>5, <1>10, <2>3, <2>4 DEF Routed
<1> QED BY <1>7, <1>8, <1>9, <1>10, BranchIs

(* The account that logged in is the first that matches its own name, so   *)
(* that the member list goes to the peer main is handling.                 *)
LEMMA PeerListIs ==
    ASSUME GInv, PeerList
    PROVE  /\ UNCHANGED <<account, accts, hslot, said, nread, cur, state>>
           /\ rows' = Tail(rows) /\ rows # <<>> /\ pc' \in {"list", "killed"}
           /\ Head(rows) \in Names /\ cur \in Open /\ account[cur] # 0
           /\ OutType' /\ Appended(cur, [type |-> "PEER_LIST", name |-> Head(rows)])
<1> DEFINE n == accts[account[cur]].name
           m == [type |-> "PEER_LIST", name |-> Head(rows)]
<1>1. /\ pc = "list" /\ rows # <<>> /\ rows' = Tail(rows)
      /\ UNCHANGED <<account, accts, hslot, said, nread, cur, state>>
      /\ SendTo(Lookup(n), m, "list")
  BY DEF PeerList, acctVars
<1>2. cur \in Open /\ cur \in Peers /\ account[cur] # 0 /\ hslot[1] = account[cur]
      /\ Head(rows) \in Names
  BY <1>1 DEF GInv, IInv, EventInv, ListInv, Open
<1>3. /\ account[cur] \in Elements(hslot) /\ accts[account[cur]].conn = cur
      /\ hslot \in Seq(Nat \ {0})
  BY <1>2 DEF GInv, TableInv
<1>4. 1 \in 1..Len(hslot)
  BY <1>3 DEF Elements
<1>5. Matches(accts[hslot[1]].name, n)
  BY <1>2 DEF Matches
<1>6. Lookup(n) = account[cur]
  <2> HIDE DEF n
  <2>1. PICK i \in 1..Len(hslot) :
            /\ Lookup(n) = hslot[i]
            /\ \A j \in 1..Len(hslot) : Matches(accts[hslot[j]].name, n) => i <= j
    BY <1>3, <1>4, <1>5, LookupIs
  <2>2. i = 1
    BY <1>4, <1>5, <2>1
  <2> QED BY <1>2, <2>1, <2>2
<1>7. pc' \in {"list", "killed"}
  BY <1>1, SendToGoes
<1> HIDE DEF n
<1>8. m \in Packets
  BY <1>2 DEF Packets
<1> HIDE DEF m
<1>9. OutType' /\ Appended(cur, m)
  BY <1>1, <1>2, <1>3, <1>6, <1>8, SendToIs DEF GInv
<1> QED BY <1>1, <1>2, <1>7, <1>9 DEF m

LEMMA PeerListKeeps ==
    ASSUME GInv, PeerList
    PROVE  OutType' /\ SaidInv' /\ TableInv' /\ ListInv' /\ ChatInv'
<1> DEFINE m == [type |-> "PEER_LIST", name |-> Head(rows)]
<1>1. /\ UNCHANGED <<account, accts, hslot, said, nread, cur, state>>
      /\ rows' = Tail(rows) /\ rows # <<>> /\ pc' \in {"list", "killed"}
      /\ Head(rows) \in Names /\ cur \in Peers /\ account[cur] # 0
      /\ OutType' /\ Appended(cur, m)
  BY PeerListIs DEF Open
<1>2. m \in Packets /\ m.type # "CHART"
  BY <1>1 DEF Packets
<1> HIDE DEF m
<1>3. SaidInv' /\ \A p \in Peers : nread[p] <= nread'[p]
  BY <1>1 DEF GInv, SaidInv
<1>4. ChatInv'
  BY <1>1, <1>2, <1>3, ChatAppended DEF GInv
<1>5. TableInv'
  BY <1>1 DEF GInv, TableInv, Elements
<1>6. pc = "list"
  BY DEF PeerList
<1>7. ListInv'
  BY <1>1, <1>6, HeadTailProperties DEF GInv, ListInv
<1> QED BY <1>1, <1>3, <1>4, <1>5, <1>7

LEMMA GInductive == GInv /\ [Next]_vars => GInv'
<1> SUFFICES ASSUME GInv, [Next]_vars PROVE GInv'
  OBVIOUS
<1>1. IInv' /\ FlagType'
  BY Inductive, FlagStep DEF GInv
<1>2. ASSUME UNCHANGED kept, pc' = "list" => pc = "list" /\ cur' = cur,
             said' = said \/ \E p \in Peers : ClientSend(p)
      PROVE  OutType' /\ SaidInv' /\ TableInv' /\ ListInv' /\ ChatInv'
  BY <1>2, QuietStep
<1>3. CASE Quiet /\ said' = said
  BY <1>1, <1>2, <1>3 DEF GInv, Quiet
<1>4. ASSUME NEW p \in Peers, Quiet, ClientSend(p) PROVE GInv'
  BY <1>1, <1>2, <1>4 DEF GInv, Quiet
<1>5. ASSUME NEW p \in Peers, Opened(p) PROVE GInv'
  BY <1>1, <1>2, <1>5 DEF GInv, Opened
<1>6. ASSUME NEW p \in Open, Destroyed(p) PROVE GInv'
  BY <1>1, <1>6, DestroyedStep DEF GInv
<1>7. CASE ReadMessage
  BY <1>1, <1>7, MessageStep DEF GInv
<1>8. CASE PeerList
  BY <1>1, <1>8, PeerListKeeps DEF GInv
<1> QED BY <1>3, <1>4, <1>5, <1>6, <1>7, <1>8, StepIs DEF GInv

-----------------------------------------------------------------------------
(* The invariant for clients that log in once on a connection at most.     *)

IsLogin(m) == m.type = "LOGIN"
Success == [type |-> "LOGIN_RESPOND", ok |-> TRUE]

OneLogin ==
    \A p \in Peers : \A i, j \in 1..Len(said[p]) :
        IsLogin(said[p][i]) /\ IsLogin(said[p][j]) => i = j

(* A peer has an account only if its LOGIN was read.                       *)
AccountRead ==
    \A p \in Peers : account[p] # 0 =>
        \E i \in 1..nread[p] : IsLogin(said[p][i])

LiveInv ==
    \A a \in Elements(hslot) :
        accts[a].conn \in Open /\ account[accts[a].conn] = a

(* A peer that has an account was told so.                                 *)
AnsweredInv ==
    /\ AnsweredFirst
    /\ \A p \in Peers : account[p] # 0 =>
          \E i \in 1..Len(Stream(p)) : Stream(p)[i] = Success

LInv == OneLogin /\ AccountRead /\ LiveInv /\ AnsweredInv

LEMMA LoginsIs ==
    ASSUME NEW s \in Seq(Packets), Logins(s) <= 1,
           NEW i \in 1..Len(s), NEW j \in 1..Len(s), IsLogin(s[i]), IsLogin(s[j])
    PROVE  i = j
<1> DEFINE S == {k \in 1..Len(s) : s[k].type = "LOGIN"}
<1>1. i \in S /\ j \in S
  BY DEF IsLogin
<1>2. IsFiniteSet(S)
  <2>1. IsFiniteSet(1..Len(s))
    BY FS_Interval
  <2>2. S \in SUBSET (1..Len(s))
    OBVIOUS
  <2> HIDE DEF S
  <2> QED BY <2>1, <2>2, FS_Subset
<1>3. Cardinality(S) <= 1
  BY DEF Logins
<1> HIDE DEF S
<1>4. ASSUME i # j PROVE FALSE
  <2> DEFINE T == {i}
  <2>1. IsFiniteSet(T) /\ Cardinality(T) = 1
    BY FS_Singleton
  <2>2. j \notin T /\ T \cup {j} \in SUBSET S
    BY <1>1, <1>4
  <2> HIDE DEF T
  <2>3. Cardinality(T \cup {j}) = 2
    <3>1. Cardinality(T \cup {j}) =
              IF j \in T THEN Cardinality(T) ELSE Cardinality(T) + 1
      BY <2>1, FS_AddElement
    <3> QED BY <3>1, <2>1, <2>2
  <2>4. Cardinality(T \cup {j}) <= Cardinality(S) /\ Cardinality(S) \in Nat
    BY <1>2, <2>2, FS_Subset, FS_CardinalityType
  <2> QED BY <1>3, <2>3, <2>4
<1> QED BY <1>4

LEMMA LInitially == Init => LInv
<1> SUFFICES ASSUME Init PROVE LInv
  OBVIOUS
<1>1. OneLogin /\ AccountRead
  BY DEF Init, OneLogin, AccountRead
<1>2. LiveInv
  BY DEF Init, LiveInv, Elements
<1>3. AnsweredInv
  <2>1. ASSUME NEW p \in Peers PROVE Len(Stream(p)) = 0
    BY DEF Init, Stream
  <2> QED BY <2>1 DEF Init, AnsweredInv, AnsweredFirst
<1> QED BY <1>1, <1>2, <1>3 DEF LInv

LEMMA AnsweredKept ==
    ASSUME AnsweredInv, Unsent, \A p \in Peers : account'[p] # 0 => account[p] # 0
    PROVE  AnsweredInv'
BY DEF AnsweredInv, AnsweredFirst, Unsent

LEMMA AnsweredAppended ==
    ASSUME OutType, AnsweredInv, NEW q \in Peers, NEW m \in Packets, Appended(q, m),
           m.type \in {"PEER_LIST", "CHART"} => account[q] # 0,
           \A p \in Peers : account'[p] # 0 => account[p] # 0 \/ (p = q /\ m = Success)
    PROVE  AnsweredInv'
<1>1. ASSUME NEW p \in Peers
      PROVE  /\ \A j \in 1..Len(Stream(p)') :
                   Stream(p)'[j].type \in {"PEER_LIST", "CHART"} =>
                       \E i \in 1..(j - 1) : Stream(p)'[i] = Success
             /\ account'[p] # 0 =>
                   \E i \in 1..Len(Stream(p)') : Stream(p)'[i] = Success
  <2> DEFINE s == Stream(p)
             r == Stream(p)'
  <2>1. s \in Seq(Packets) /\ Len(s) \in Nat
    BY StreamType
  <2>2. /\ \A j \in 1..Len(s) : s[j].type \in {"PEER_LIST", "CHART"} =>
              \E i \in 1..(j - 1) : s[i] = Success
        /\ account[p] # 0 => \E i \in 1..Len(s) : s[i] = Success
    BY DEF AnsweredInv, AnsweredFirst, Success
  <2>3. r = IF p = q THEN Append(s, m) ELSE s
    BY DEF Appended
  <2> HIDE DEF s, r
  <2>4. CASE p # q
    BY <2>2, <2>3, <2>4 DEF r
  <2>5. CASE p = q
    <3>1. /\ Len(r) = Len(s) + 1 /\ r[Len(s) + 1] = m
          /\ \A i \in 1..Len(s) : r[i] = s[i]
      BY <2>1, <2>3, <2>5, AppendProperties
    <3>2. ASSUME NEW j \in 1..Len(r), r[j].type \in {"PEER_LIST", "CHART"}
          PROVE  \E i \in 1..(j - 1) : r[i] = Success
      <4>1. CASE j \in 1..Len(s)
        <5>1. PICK i \in 1..(j - 1) : s[i] = Success
          BY <4>1, <3>1, <3>2, <2>2
        <5>2. i \in 1..Len(s)
          BY <4>1, <2>1
        <5> QED BY <5>1, <5>2, <3>1
      <4>2. CASE j = Len(s) + 1
        <5>1. account[p] # 0
          BY <4>2, <3>1, <3>2, <2>5
        <5>2. PICK i \in 1..Len(s) : s[i] = Success
          BY <5>1, <2>2
        <5>3. i \in 1..(j - 1)
          BY <4>2, <2>1
        <5> QED BY <5>2, <5>3, <3>1
      <4> QED BY <4>1, <4>2, <3>1, <2>1
    <3>3. ASSUME account'[p] # 0
          PROVE  \E i \in 1..Len(r) : r[i] = Success
      <4>1. CASE account[p] # 0
        <5>1. PICK i \in 1..Len(s) : s[i] = Success
          BY <4>1, <2>2
        <5>2. i \in 1..Len(r)
          BY <2>1, <3>1
        <5> QED BY <5>1, <5>2, <3>1
      <4>2. CASE m = Success
        <5>1. Len(s) + 1 \in 1..Len(r)
          BY <2>1, <3>1
        <5> QED BY <4>2, <5>1, <3>1
      <4> QED BY <4>1, <4>2, <3>3
    <3> QED BY <3>2, <3>3 DEF r
  <2> QED BY <2>4, <2>5
<1> QED BY <1>1 DEF AnsweredInv, AnsweredFirst, Success

(* Steps that change no account and send nothing.                          *)
LEMMA LKept ==
    ASSUME GInv, LInv, LoginsPerPeer <= 1, UNCHANGED kept, Open \subseteq Open',
           said' = said \/ \E p \in Peers : ClientSend(p)
    PROVE  LInv'
<1>1. UNCHANGED <<account, accts, hslot, nread>> /\ Unsent
  BY UnsentIs DEF GInv, kept, outVars
<1>2. LiveInv'
  BY <1>1 DEF LInv, LiveInv, Elements
<1>3. AnsweredInv'
  BY <1>1, AnsweredKept DEF LInv
<1>4. CASE said' = said
  BY <1>1, <1>2, <1>3, <1>4 DEF LInv, OneLogin, AccountRead
<1>5. ASSUME NEW p \in Peers, ClientSend(p) PROVE LInv'
  <2>1. /\ said' \in [Peers -> Seq(Packets)]
        /\ \A q \in Peers : q # p => said'[q] = said[q]
        /\ \A i \in 1..Len(said[p]) : said'[p][i] = said[p][i]
        /\ Logins(said'[p]) <= LoginsPerPeer
    BY <1>5, ClientSendIs DEF GInv
  <2>2. Logins(said'[p]) <= 1
    <3>1. IsFiniteSet({i \in 1..Len(said'[p]) : said'[p][i].type = "LOGIN"})
      <4>1. Len(said'[p]) \in Nat
        BY <2>1
      <4>2. IsFiniteSet(1..Len(said'[p]))
        BY <4>1, FS_Interval
      <4> QED BY <4>2, FS_Subset
    <3>2. Logins(said'[p]) \in Nat
      BY <3>1, FS_CardinalityType DEF Logins
    <3> QED BY <3>2, <2>1, ServerAssumption
  <2>3. OneLogin'
    <3>1. ASSUME NEW q \in Peers, NEW i \in 1..Len(said'[q]), NEW j \in 1..Len(said'[q]),
                 IsLogin(said'[q][i]), IsLogin(said'[q][j])
          PROVE  i = j
      <4>1. CASE q = p
        <5>1. said'[p] \in Seq(Packets)
          BY <2>1
        <5> QED BY <4>1, <5>1, <2>2, <3>1, LoginsIs
      <4>2. CASE q # p
        BY <4>2, <2>1, <3>1 DEF LInv, OneLogin
      <4> QED BY <4>1, <4>2
    <3> QED BY <3>1 DEF OneLogin, IsLogin
  <2>4. AccountRead'
    <3>1. ASSUME NEW q \in Peers, account[q] # 0
          PROVE  \E i \in 1..nread[q] : IsLogin(said'[q][i])
      <4>1. PICK i \in 1..nread[q] : IsLogin(said[q][i])
        BY <3>1 DEF LInv, AccountRead
      <4>2. i \in 1..Len(said[q])
        BY DEF GInv, SaidInv
      <4> QED BY <4>1, <4>2, <2>1
    <3> QED BY <3>1, <1>1 DEF AccountRead, IsLogin
  <2> QED BY <2>3, <2>4, <1>2, <1>3 DEF LInv
<1> QED BY <1>4, <1>5

LEMMA LDestroyed ==
    ASSUME GInv, LInv, NEW p \in Open, Destroyed(p)
    PROVE  LInv'
<1>1. /\ account' = [account EXCEPT ![p] = 0] /\ hslot' = Unlisted(p) /\ accts' = accts
      /\ nread' = nread /\ said' = said /\ Open' = Open \ {p}
      /\ account \in [Peers -> Nat] /\ p \in Peers /\ Open \subseteq Peers
  BY DEF Destroyed, GInv, TableInv, Open
<1>2. Unsent
  BY UnsentIs DEF GInv, Destroyed, outVars
<1>3. Elements(hslot') = Elements(hslot) \ {account[p]}
  BY <1>1, UnlistedIs DEF GInv
<1>4. \A q \in Peers : account'[q] = IF q = p THEN 0 ELSE account[q]
  BY <1>1
<1>5. LiveInv'
  <2>1. ASSUME NEW a \in Elements(hslot')
        PROVE  accts[a].conn \in Open' /\ account'[accts[a].conn] = a
    <3>1. a \in Elements(hslot) /\ a # account[p]
      BY <1>3
    <3>2. accts[a].conn \in Open /\ account[accts[a].conn] = a
      BY <3>1 DEF LInv, LiveInv
    <3> QED BY <3>1, <3>2, <1>1, <1>4
  <2> QED BY <2>1, <1>1 DEF LiveInv, Elements
<1>6. AnsweredInv'
  BY <1>2, <1>4, AnsweredKept DEF LInv
<1>7. OneLogin' /\ AccountRead'
  BY <1>1, <1>4 DEF LInv, OneLogin, AccountRead
<1> QED BY <1>5, <1>6, <1>7 DEF LInv

LEMMA LMessage ==
    ASSUME GInv, LInv, ReadMessage
    PROVE  LInv'
<1> DEFINE m == TheMessage
           k == nread[cur] + 1
<1>1. /\ m \in Packets /\ cur \in Peers /\ cur \in Open /\ cur' = cur
      /\ Open' = Open /\ said' = said
      /\ nread' = [nread EXCEPT ![cur] = @ + 1] /\ nread[cur] < Len(said[cur])
  BY MessageIs DEF GInv, Open
<1>2. m = said[cur][k]
  BY DEF TheMessage
<1> HIDE DEF m
<1>3. \A p \in Peers : nread[p] \in Nat /\ nread'[p] = IF p = cur THEN k ELSE nread[p]
  BY <1>1 DEF GInv, SaidInv
<1>4. k \in 1..Len(said[cur]) /\ Len(said[cur]) \in Nat
  BY <1>1, <1>3 DEF GInv, SaidInv
<1>5. OutType /\ TableInv /\ OneLogin /\ AccountRead /\ LiveInv /\ AnsweredInv
  BY DEF GInv, LInv
<1>6. OneLogin'
  BY <1>1, <1>5 DEF OneLogin
<1>7. ASSUME NEW p \in Peers, \E i \in 1..nread[p] : IsLogin(said[p][i])
      PROVE  \E i \in 1..nread'[p] : IsLogin(said'[p][i])
  <2>1. PICK i \in 1..nread[p] : IsLogin(said[p][i])
    BY <1>7
  <2>2. i \in 1..nread'[p]
    BY <1>3
  <2> QED BY <2>1, <2>2, <1>1
<1>8. ASSUME UNCHANGED <<account, accts, hslot>>
      PROVE  AccountRead' /\ LiveInv'
  <2>1. LiveInv'
    BY <1>1, <1>5, <1>8 DEF LiveInv, Elements
  <2>2. AccountRead'
    BY <1>5, <1>7, <1>8 DEF AccountRead
  <2> QED BY <2>1, <2>2
<1>9. CASE Refused
  <2> DEFINE r == [type |-> "LOGIN_RESPOND", ok |-> FALSE]
  <2>1. r \in Packets /\ r.type \notin {"PEER_LIST", "CHART"} /\ Send(cur, r)
    BY <1>9 DEF Refused, Packets
  <2> HIDE DEF r
  <2>2. Appended(cur, r)
    BY <1>1, <1>5, <2>1, SendIs
  <2>3. AnsweredInv'
    BY <1>1, <1>5, <1>9, <2>1, <2>2, AnsweredAppended DEF Refused
  <2> QED BY <1>6, <1>8, <1>9, <2>3 DEF LInv, Refused
<1>10. CASE Dropped
  <2>1. Unsent
    BY <1>5, <1>10, UnsentIs DEF Dropped
  <2>2. AnsweredInv'
    BY <1>5, <1>10, <2>1, AnsweredKept DEF Dropped
  <2> QED BY <1>6, <1>8, <1>10, <2>2 DEF LInv, Dropped
<1>11. CASE Routed
  <2> DEFINE a == Lookup(m.to)
  <2>1. m.type = "CHART" /\ a # 0 /\ SendTo(a, m, "read")
    BY <1>11 DEF Routed, m
  <2>2. a \in Elements(hslot)
    BY <1>5, <2>1, FoundIs
  <2> HIDE DEF a
  <2>3. accts[a].conn \in Open /\ account[accts[a].conn] # 0
    BY <1>5, <2>1, <2>2 DEF LiveInv
  <2>4. Appended(accts[a].conn, m)
    BY <1>1, <1>5, <2>1, <2>3, SendToIs
  <2>5. accts[a].conn \in Peers /\ account' = account
    BY <1>11, <2>3 DEF Open, Routed
  <2>6. AnsweredInv'
    BY <1>1, <1>5, <2>3, <2>4, <2>5, AnsweredAppended
  <2> QED BY <1>6, <1>8, <1>11, <2>6 DEF LInv, Routed
<1>12. CASE Joined
  <2>1. IsLogin(said[cur][k]) /\ Register(m.name) /\ m.name \in Names /\ Send(cur, Success)
    BY <1>1, <1>2, <1>12, PacketFields DEF Joined, IsLogin, Success, m
  <2>2. account[cur] = 0
    <3> SUFFICES ASSUME account[cur] # 0 PROVE FALSE
      OBVIOUS
    <3>1. PICK i \in 1..nread[cur] : IsLogin(said[cur][i])
      BY <1>1, <1>5 DEF AccountRead
    <3>2. i \in 1..Len(said[cur]) /\ i # k
      BY <1>1, <1>3, <1>4
    <3> QED BY <3>1, <3>2, <2>1, <1>1, <1>4, <1>5 DEF OneLogin
  <2> DEFINE new == Len(accts) + 1
  <2>3. /\ account'[cur] = new
        /\ \A p \in Peers : p # cur => account'[p] = account[p]
        /\ Elements(hslot') = Elements(hslot) \cup {new}
        /\ accts'[new].conn = cur
        /\ \A a \in 1..Len(accts) : accts'[a] = accts[a]
    <3> DEFINE n == m.name
    <3>1. n \in Names /\ Register(n)
      BY <2>1
    <3> HIDE DEF n, new
    <3>2. /\ account'[cur] = Len(accts) + 1
          /\ \A p \in Peers : p # cur => account'[p] = account[p]
          /\ Elements(hslot') = Elements(hslot) \cup {Len(accts) + 1}
          /\ accts'[Len(accts) + 1] = [name |-> n, conn |-> cur]
          /\ \A a \in 1..Len(accts) : accts'[a] = accts[a]
      BY <1>1, <1>5, <3>1, RegisterIs
    <3> QED BY <3>2 DEF new
  <2> HIDE DEF new
  <2>4. LiveInv'
    <3>1. ASSUME NEW a \in Elements(hslot')
          PROVE  accts'[a].conn \in Open' /\ account'[accts'[a].conn] = a
      <4>1. CASE a = new
        BY <4>1, <2>3, <1>1
      <4>2. CASE a \in Elements(hslot)
        <5>1. a \in 1..Len(accts) /\ a # 0
          BY <4>2, <1>5 DEF TableInv
        <5>2. accts[a].conn \in Open /\ account[accts[a].conn] = a
          BY <4>2, <1>5 DEF LiveInv
        <5>3. accts[a].conn # cur /\ accts[a].conn \in Peers
          BY <5>1, <5>2, <2>2 DEF Open
        <5> QED BY <5>1, <5>2, <5>3, <2>3, <1>1
      <4> QED BY <4>1, <4>2, <2>3
    <3>2. Elements(hslot)' = Elements(hslot')
      BY DEF Elements
    <3> QED BY <3>1, <3>2 DEF LiveInv
  <2>5. AccountRead'
    <3>1. ASSUME NEW p \in Peers, account'[p] # 0
          PROVE  \E i \in 1..nread'[p] : IsLogin(said'[p][i])
      <4>1. CASE p = cur
        <5>1. k \in 1..nread'[p]
          BY <4>1, <1>3, <1>1, <1>4
        <5> QED BY <5>1, <4>1, <2>1, <1>1
      <4>2. CASE p # cur
        <5>1. account[p] # 0
          BY <4>2, <3>1, <2>3
        <5> QED BY <5>1, <1>5, <1>7 DEF AccountRead
      <4> QED BY <4>1, <4>2
    <3> QED BY <3>1 DEF AccountRead
  <2>6. Success \in Packets /\ Success.type \notin {"PEER_LIST", "CHART"}
    BY DEF Success, Packets
  <2>7. Appended(cur, Success)
    BY <1>1, <1>5, <2>1, <2>6, SendIs
  <2>8. AnsweredInv'
    BY <1>1, <1>5, <2>3, <2>6, <2>7, AnsweredAppended
  <2> QED BY <1>6, <2>4, <2>5, <2>8 DEF LInv
<1> QED BY <1>9, <1>10, <1>11, <1>12, BranchIs

LEMMA LPeerList ==
    ASSUME GInv, LInv, PeerList
    PROVE  LInv'
<1> DEFINE m == [type |-> "PEER_LIST", name |-> Head(rows)]
<1>1. /\ UNCHANGED <<account, accts, hslot, said, nread, cur, state>>
      /\ Head(rows) \in Names /\ cur \in Peers /\ account[cur] # 0 /\ Appended(cur, m)
  BY PeerListIs DEF Open
<1>2. m \in Packets
  BY <1>1 DEF Packets
<1> HIDE DEF m
<1>3. AnsweredInv'
  BY <1>1, <1>2, AnsweredAppended DEF GInv, LInv
<1>4. OneLogin' /\ AccountRead' /\ LiveInv'
  BY <1>1 DEF LInv, OneLogin, AccountRead, LiveInv, Open, Elements
<1> QED BY <1>3, <1>4 DEF LInv

LEMMA LInductive ==
    ASSUME LoginsPerPeer <= 1
    PROVE  GInv /\ LInv /\ [Next]_vars => LInv'
<1> SUFFICES ASSUME GInv, LInv, [Next]_vars PROVE LInv'
  OBVIOUS
<1>1. CASE Quiet /\ said' = said
  BY <1>1, LKept DEF Quiet
<1>2. ASSUME NEW p \in Peers, Quiet, ClientSend(p) PROVE LInv'
  BY <1>2, LKept DEF Quiet
<1>3. ASSUME NEW p \in Peers, Opened(p) PROVE LInv'
  BY <1>3, LKept DEF Opened
<1>4. ASSUME NEW p \in Open, Destroyed(p) PROVE LInv'
  BY <1>4, LDestroyed
<1>5. CASE ReadMessage
  BY <1>5, LMessage
<1>6. CASE PeerList
  BY <1>6, LPeerList
<1> QED BY <1>1, <1>2, <1>3, <1>4, <1>5, <1>6, StepIs DEF GInv
-----------------------------------------------------------------------------
(* What a client may rely on, however often it and the others log in.      *)

Row(n, k) == [type |-> "PEER_LIST", name |-> Members[n][k]]

(* At i are the first k members of account n, right behind a success.      *)
Behind(s, i, n, k) ==
    /\ k < i /\ s[i - k] = Success
    /\ \A l \in 1..k : s[i - k + l] = Row(n, l)

Told(s) == \E i \in 1..Len(s) : s[i] = Success

MembersBehind(s) ==
    \A i \in 1..Len(s) : s[i].type = "PEER_LIST" =>
        \E n \in Names : \E k \in 1..Len(Members[n]) : Behind(s, i, n, k)

ChatsBehind(s) ==
    \A i \in 1..Len(s) : s[i].type = "CHART" => \E j \in 1..(i - 1) : s[j] = Success

Answers(s) == {i \in 1..Len(s) : s[i].type = "LOGIN_RESPOND"}
LoginsRead(p) == {i \in 1..nread[p] : said[p][i].type = "LOGIN"}

PeersLive == \A a \in Elements(hslot) : accts[a].conn \in Open

AnswersInv ==
    \A p \in Peers : Cardinality(Answers(Stream(p))) <= Cardinality(LoginsRead(p))

StreamsInv ==
    \A p \in Peers :
        /\ MembersBehind(Stream(p))
        /\ PeersLive => ChatsBehind(Stream(p))

(* Who has an account was told so, and is a peer or was one.               *)
ToldInv ==
    \A a \in Elements(hslot) :
        /\ Told(Stream(accts[a].conn))
        /\ state[accts[a].conn] \in {"open", "gone"}

(* The rows still to send are those that follow.                           *)
ListingInv ==
    pc = "list" /\ rows # <<>> =>
        \E n \in Names : \E k \in 0..(Len(Members[n]) - 1) :
            /\ Behind(Stream(cur), Len(Stream(cur)), n, k)
            /\ rows = SubSeq(Members[n], k + 1, Len(Members[n]))

PromiseInv == AnswersInv /\ StreamsInv /\ ToldInv /\ ListingInv

LEMMA OneMore ==
    ASSUME NEW s \in Seq(Packets), NEW m \in Packets
    PROVE  /\ Len(s) \in Nat /\ Len(Append(s, m)) = Len(s) + 1
           /\ Append(s, m)[Len(s) + 1] = m
           /\ \A i \in 1..Len(s) : Append(s, m)[i] = s[i]
BY AppendProperties

LEMMA BehindStays ==
    ASSUME NEW s \in Seq(Packets), NEW m \in Packets, NEW i \in 1..Len(s), NEW n,
           NEW k \in Nat, Behind(s, i, n, k)
    PROVE  Behind(Append(s, m), i, n, k)
<1> DEFINE r == Append(s, m)
<1>1. Len(s) \in Nat /\ \A j \in 1..Len(s) : r[j] = s[j]
  BY OneMore
<1> HIDE DEF r
<1>2. i - k \in 1..Len(s) /\ \A l \in 1..k : i - k + l \in 1..Len(s)
  BY <1>1 DEF Behind
<1>3. Behind(r, i, n, k)
  BY <1>1, <1>2 DEF Behind
<1> QED BY <1>3 DEF r

LEMMA MembersAppended ==
    ASSUME NEW s \in Seq(Packets), NEW m \in Packets, MembersBehind(s),
           m.type = "PEER_LIST" =>
               \E n \in Names : \E k \in 1..Len(Members[n]) :
                   Behind(Append(s, m), Len(s) + 1, n, k)
    PROVE  MembersBehind(Append(s, m))
<1> DEFINE r == Append(s, m)
<1>1. /\ Len(s) \in Nat /\ Len(r) = Len(s) + 1 /\ r[Len(s) + 1] = m
      /\ \A i \in 1..Len(s) : r[i] = s[i]
  BY OneMore
<1> SUFFICES ASSUME NEW i \in 1..Len(r), r[i].type = "PEER_LIST"
             PROVE  \E n \in Names : \E k \in 1..Len(Members[n]) : Behind(r, i, n, k)
  BY DEF MembersBehind
<1>2. CASE i \in 1..Len(s)
  <2>1. s[i].type = "PEER_LIST"
    BY <1>1, <1>2
  <2>2. PICK n \in Names : \E k \in 1..Len(Members[n]) : Behind(s, i, n, k)
    BY <1>2, <2>1 DEF MembersBehind
  <2>3. PICK k \in 1..Len(Members[n]) : Behind(s, i, n, k)
    BY <2>2
  <2>4. k \in Nat
    OBVIOUS
  <2>5. Behind(r, i, n, k)
    BY <1>2, <2>3, <2>4, BehindStays
  <2> QED BY <2>5
<1>3. CASE i = Len(s) + 1
  BY <1>1, <1>3
<1> HIDE DEF r
<1> QED BY <1>1, <1>2, <1>3

LEMMA ChatsAppended ==
    ASSUME NEW s \in Seq(Packets), NEW m \in Packets, ChatsBehind(s),
           m.type = "CHART" => Told(s)
    PROVE  ChatsBehind(Append(s, m))
<1> DEFINE r == Append(s, m)
<1>1. /\ Len(s) \in Nat /\ Len(r) = Len(s) + 1 /\ r[Len(s) + 1] = m
      /\ \A i \in 1..Len(s) : r[i] = s[i]
  BY OneMore
<1> SUFFICES ASSUME NEW i \in 1..Len(r), r[i].type = "CHART"
             PROVE  \E j \in 1..(i - 1) : r[j] = Success
  BY DEF ChatsBehind
<1> HIDE DEF r
<1>2. CASE i \in 1..Len(s)
  <2>1. PICK j \in 1..(i - 1) : s[j] = Success
    BY <1>1, <1>2 DEF ChatsBehind
  <2>2. j \in 1..Len(s)
    BY <1>1, <1>2
  <2> QED BY <1>1, <2>1, <2>2
<1>3. CASE i = Len(s) + 1
  <2>1. PICK j \in 1..Len(s) : s[j] = Success
    BY <1>1, <1>3 DEF Told
  <2>2. j \in 1..(i - 1)
    BY <1>1, <1>3
  <2> QED BY <1>1, <2>1, <2>2
<1> QED BY <1>1, <1>2, <1>3

LEMMA ToldAppended ==
    ASSUME NEW s \in Seq(Packets), NEW m \in Packets, Told(s) \/ m = Success
    PROVE  Told(Append(s, m))
<1> DEFINE r == Append(s, m)
<1>1. /\ Len(s) \in Nat /\ Len(r) = Len(s) + 1 /\ r[Len(s) + 1] = m
      /\ \A i \in 1..Len(s) : r[i] = s[i]
  BY OneMore
<1> HIDE DEF r
<1>2. Len(s) + 1 \in 1..Len(r) /\ \A i \in 1..Len(s) : i \in 1..Len(r)
  BY <1>1
<1>3. Told(r)
  BY <1>1, <1>2 DEF Told
<1> QED BY <1>3 DEF r

LEMMA AnswersAppended ==
    ASSUME NEW s \in Seq(Packets), NEW m \in Packets
    PROVE  /\ Cardinality(Answers(s)) \in Nat
           /\ m.type # "LOGIN_RESPOND" => Answers(Append(s, m)) = Answers(s)
           /\ Cardinality(Answers(Append(s, m))) <= Cardinality(Answers(s)) + 1
<1> DEFINE r == Append(s, m)
           A == Answers(s)
           B == Answers(r)
<1>1. /\ Len(s) \in Nat /\ Len(r) = Len(s) + 1 /\ r[Len(s) + 1] = m
      /\ \A i \in 1..Len(s) : r[i] = s[i]
  BY OneMore
<1> HIDE DEF r
<1>2. B = IF m.type = "LOGIN_RESPOND" THEN A \cup {Len(s) + 1} ELSE A
  <2>1. ASSUME NEW i PROVE i \in B <=> i \in A \/ (i = Len(s) + 1 /\ m.type = "LOGIN_RESPOND")
    <3>1. i \in 1..Len(r) <=> i \in 1..Len(s) \/ i = Len(s) + 1
      BY <1>1
    <3> QED BY <1>1, <3>1 DEF Answers
  <2> HIDE DEF A, B
  <2> QED BY <2>1
<1>3. IsFiniteSet(A)
  <2>1. IsFiniteSet(1..Len(s))
    BY <1>1, FS_Interval
  <2> QED BY <2>1, FS_Subset DEF Answers
<1> HIDE DEF A, B
<1>4. Cardinality(A) \in Nat
  BY <1>3, FS_CardinalityType
<1>5. Cardinality(A \cup {Len(s) + 1}) <= Cardinality(A) + 1
  <2>1. Cardinality(A \cup {Len(s) + 1})
          = IF Len(s) + 1 \in A THEN Cardinality(A) ELSE Cardinality(A) + 1
    BY <1>3, FS_AddElement
  <2> QED BY <2>1, <1>4
<1> QED BY <1>2, <1>4, <1>5 DEF A, B, r

(* What a peer once was it stays: a peer that was freed is not open again. *)
Moves ==
    \A p \in Peers :
        /\ state[p] \in {"open", "gone"} => state'[p] \in {"open", "gone"}
        /\ state[p] = "gone" => state'[p] = "gone"

LEMMA MovesOn == ASSUME IInv, [Next]_vars PROVE Moves
<1>0. state \in [Peers -> {"none", "backlog", "open", "gone"}]
  BY DEF IInv, LoopType
<1>1. CASE SigAlarm \/ CheckTimeout \/ ClearDone \/ Enter \/ BatchDone \/ EpollWait
           \/ HandleEvent \/ AcceptAgain
  BY <1>1 DEF SigAlarm, CheckTimeout, ClearDone, Enter, BatchDone, EpollWait,
              HandleEvent, AcceptAgain, Moves
<1>2. CASE AcceptError \/ ReadMessage \/ PeerList \/ PeerListDone \/ ReadAgain
  BY <1>2 DEF AcceptError, ReadMessage, PeerList, PeerListDone, ReadAgain, Moves
<1>3. CASE ClearPeer \/ ReadFail
  <2>1. \E p : state' = [state EXCEPT ![p] = "gone"]
    BY <1>3 DEF ClearPeer, ReadFail, Destroy
  <2> QED BY <2>1, <1>0 DEF Moves
<1>4. ASSUME NEW p \in Peers, Accept(p) PROVE Moves
  BY <1>4, <1>0 DEF Accept, Moves
<1>5. ASSUME NEW p \in Peers, Client(p) PROVE Moves
  <2>1. CASE Connect(p)
    BY <2>1, <1>0 DEF Connect, Moves
  <2>2. CASE ClientSend(p) \/ ClientClose(p)
    BY <2>2 DEF ClientSend, ClientClose, Moves
  <2> QED BY <1>5, <2>1, <2>2 DEF Client
<1>6. CASE Timer \/ UNCHANGED vars
  BY <1>6 DEF Timer, vars, Moves
<1> QED BY <1>1, <1>2, <1>3, <1>4, <1>5, <1>6 DEF Next, Main

(* Accounts are lost with their peer only: where all of them lead to a     *)
(* peer after a step they did so before.                                   *)
LEMMA LiveBefore ==
    ASSUME ToldInv, Moves,
           \A a \in Elements(hslot) :
               \/ a \in Elements(hslot') /\ accts'[a].conn = accts[a].conn
               \/ accts[a].conn \in Open,
           \A a \in Elements(hslot) : accts[a].conn \in Peers
    PROVE  PeersLive' => PeersLive
<1> SUFFICES ASSUME PeersLive', NEW a \in Elements(hslot), accts[a].conn \notin Open
             PROVE  FALSE
  BY DEF PeersLive
<1> DEFINE p == accts[a].conn
<1>1. a \in Elements(hslot') /\ accts'[a].conn = p /\ p \in Peers
  OBVIOUS
<1>2. Elements(hslot)' = Elements(hslot')
  BY DEF Elements
<1>3. accts'[a].conn \in Open'
  BY <1>1, <1>2 DEF PeersLive
<1>4. state'[p] = "open"
  BY <1>1, <1>3 DEF Open
<1>5. state[p] = "gone"
  BY <1>1 DEF ToldInv, Open
<1> QED BY <1>1, <1>4, <1>5 DEF Moves

(* The LOGINs that were read are no fewer after a step.                    *)
MoreRead ==
    \A p \in Peers :
        /\ Cardinality(LoginsRead(p)) \in Nat /\ Cardinality(LoginsRead(p)') \in Nat
        /\ Cardinality(LoginsRead(p)) <= Cardinality(LoginsRead(p)')

LEMMA ReadOn ==
    ASSUME SaidInv, SaidInv', \A p \in Peers : nread[p] <= nread'[p],
           said' = said \/ \E p \in Peers : ClientSend(p)
    PROVE  MoreRead
<1> SUFFICES ASSUME NEW p \in Peers
             PROVE  /\ Cardinality(LoginsRead(p)) \in Nat
                    /\ Cardinality(LoginsRead(p)') \in Nat
                    /\ Cardinality(LoginsRead(p)) <= Cardinality(LoginsRead(p)')
  BY DEF MoreRead
<1> DEFINE A == LoginsRead(p)
           B == {i \in 1..nread'[p] : said'[p][i].type = "LOGIN"}
<1>1. nread[p] \in Nat /\ nread'[p] \in Nat /\ nread[p] <= nread'[p]
      /\ nread[p] <= Len(said[p]) /\ Len(said[p]) \in Nat
  BY DEF SaidInv
<1>2. \A i \in 1..Len(said[p]) : said'[p][i] = said[p][i]
  <2>1. ASSUME NEW q \in Peers, ClientSend(q) PROVE \A i \in 1..Len(said[p]) : said'[p][i] = said[p][i]
    <3>1. CASE p = q
      BY <2>1, <3>1, ClientSendIs
    <3>2. CASE p # q
      BY <2>1, <3>2, ClientSendIs
    <3> QED BY <3>1, <3>2
  <2> QED BY <2>1
<1>3. A \subseteq B
  BY <1>1, <1>2 DEF LoginsRead
<1>4. IsFiniteSet(B)
  <2>1. IsFiniteSet(1..nread'[p])
    BY <1>1, FS_Interval
  <2> QED BY <2>1, FS_Subset
<1>5. LoginsRead(p)' = B
  BY DEF LoginsRead
<1> HIDE DEF A, B
<1>6. IsFiniteSet(A) /\ Cardinality(A) <= Cardinality(B)
  BY <1>3, <1>4, FS_Subset
<1>7. Cardinality(A) \in Nat /\ Cardinality(B) \in Nat
  BY <1>4, <1>6, FS_CardinalityType
<1> QED BY <1>5, <1>6, <1>7 DEF A

(* Reading a LOGIN makes one more.                                         *)
LEMMA LoginReadIs ==
    ASSUME GInv, ReadMessage, TheMessage.type = "LOGIN"
    PROVE  Cardinality(LoginsRead(cur)') = Cardinality(LoginsRead(cur)) + 1
<1> DEFINE A == LoginsRead(cur)
           n == nread[cur]
<1>1. /\ cur \in Peers /\ cur' = cur /\ said' = said /\ nread'[cur] = n + 1 /\ n \in Nat
      /\ said[cur][n + 1].type = "LOGIN"
  BY MessageIs DEF GInv, SaidInv, TheMessage, Open
<1>2. LoginsRead(cur)' = {i \in 1..(n + 1) : said[cur][i].type = "LOGIN"}
  BY <1>1 DEF LoginsRead
<1>3. A = {i \in 1..n : said[cur][i].type = "LOGIN"}
  BY DEF LoginsRead
<1> HIDE DEF A, n
<1>4. LoginsRead(cur)' = A \cup {n + 1} /\ n + 1 \notin A
  BY <1>1, <1>2, <1>3
<1>5. IsFiniteSet(A)
  <2>1. IsFiniteSet(1..n)
    BY <1>1, FS_Interval
  <2> QED BY <2>1, <1>3, FS_Subset
<1>6. Cardinality(A \cup {n + 1}) = Cardinality(A) + 1
  BY <1>4, <1>5, FS_AddElement
<1> QED BY <1>4, <1>6 DEF A

LEMMA PromiseSame ==
    ASSUME AnswersInv, StreamsInv, Unsent, MoreRead, PeersLive' => PeersLive, OutType
    PROVE  /\ AnswersInv' /\ StreamsInv'
           /\ \A p \in Peers : Told(Stream(p)) => Told(Stream(p)')
<1> SUFFICES ASSUME NEW p \in Peers
             PROVE  /\ Cardinality(Answers(Stream(p)')) <= Cardinality(LoginsRead(p)')
                    /\ MembersBehind(Stream(p)')
                    /\ PeersLive' => ChatsBehind(Stream(p)')
                    /\ Told(Stream(p)) => Told(Stream(p)')
  BY DEF AnswersInv, StreamsInv
<1>1. Stream(p)' = Stream(p)
  BY DEF Unsent
<1>2. Cardinality(Answers(Stream(p))) <= Cardinality(LoginsRead(p)')
  <2>1. Stream(p) \in Seq(Packets)
    BY StreamType
  <2>2. Cardinality(Answers(Stream(p))) \in Nat
    <3> DEFINE s == Stream(p)
    <3>1. s \in Seq(Packets) /\ Len(s) \in Nat
      BY <2>1
    <3> HIDE DEF s
    <3>2. IsFiniteSet(1..Len(s))
      BY <3>1, FS_Interval
    <3>3. IsFiniteSet(Answers(s))
      BY <3>2, FS_Subset DEF Answers
    <3> QED BY <3>3, FS_CardinalityType DEF s
  <2> QED BY <2>2 DEF AnswersInv, MoreRead
<1> QED BY <1>1, <1>2 DEF StreamsInv

LEMMA PromiseMore ==
    ASSUME AnswersInv, StreamsInv, OutType, MoreRead, PeersLive' => PeersLive,
           NEW q \in Peers, NEW m \in Packets, Appended(q, m),
           m.type = "LOGIN_RESPOND" =>
               Cardinality(LoginsRead(q)') = Cardinality(LoginsRead(q)) + 1,
           m.type = "PEER_LIST" =>
               \E n \in Names : \E k \in 1..Len(Members[n]) :
                   Behind(Append(Stream(q), m), Len(Stream(q)) + 1, n, k),
           m.type = "CHART" => Told(Stream(q)) \/ ~PeersLive
    PROVE  /\ AnswersInv' /\ StreamsInv'
           /\ \A p \in Peers : Told(Stream(p)) => Told(Stream(p)')
<1> SUFFICES ASSUME NEW p \in Peers
             PROVE  /\ Cardinality(Answers(Stream(p)')) <= Cardinality(LoginsRead(p)')
                    /\ MembersBehind(Stream(p)')
                    /\ PeersLive' => ChatsBehind(Stream(p)')
                    /\ Told(Stream(p)) => Told(Stream(p)')
  BY DEF AnswersInv, StreamsInv
<1> DEFINE s == Stream(p)
<1>1. s \in Seq(Packets)
  BY StreamType
<1>2. /\ Cardinality(Answers(s)) <= Cardinality(LoginsRead(p))
      /\ MembersBehind(s) /\ (PeersLive => ChatsBehind(s))
  BY DEF AnswersInv, StreamsInv
<1>3. Stream(p)' = IF p = q THEN Append(s, m) ELSE s
  BY DEF Appended
<1>4. /\ m.type = "PEER_LIST" /\ p = q =>
               \E n \in Names : \E k \in 1..Len(Members[n]) :
                   Behind(Append(s, m), Len(s) + 1, n, k)
      /\ m.type = "CHART" /\ p = q => Told(s) \/ ~PeersLive
  OBVIOUS
<1> HIDE DEF s
<1>5. /\ Cardinality(Answers(s)) \in Nat
      /\ m.type # "LOGIN_RESPOND" => Answers(Append(s, m)) = Answers(s)
      /\ Cardinality(Answers(Append(s, m))) <= Cardinality(Answers(s)) + 1
      /\ Cardinality(Answers(Append(s, m))) \in Nat
  <2>1. Append(s, m) \in Seq(Packets)
    BY <1>1, AppendProperties
  <2> QED BY <1>1, <2>1, AnswersAppended
<1>6. /\ Cardinality(LoginsRead(p)) \in Nat /\ Cardinality(LoginsRead(p)') \in Nat
      /\ Cardinality(LoginsRead(p)) <= Cardinality(LoginsRead(p)')
      /\ m.type = "LOGIN_RESPOND" /\ p = q =>
               Cardinality(LoginsRead(p)') = Cardinality(LoginsRead(p)) + 1
  BY DEF MoreRead
<1>7. CASE p # q
  <2>1. Cardinality(Answers(s)) <= Cardinality(LoginsRead(p)')
    BY <1>2, <1>5, <1>6
  <2> QED BY <2>1, <1>2, <1>3, <1>7 DEF s
<1>8. CASE p = q
  <2>1. Cardinality(Answers(Append(s, m))) <= Cardinality(LoginsRead(p)')
    <3>1. CASE m.type = "LOGIN_RESPOND"
      BY <3>1, <1>2, <1>5, <1>6, <1>8
    <3>2. CASE m.type # "LOGIN_RESPOND"
      BY <3>2, <1>2, <1>5, <1>6
    <3> QED BY <3>1, <3>2
  <2>2. MembersBehind(Append(s, m))
    BY <1>1, <1>2, <1>4, <1>8, MembersAppended
  <2>3. PeersLive' => ChatsBehind(Append(s, m))
    BY <1>1, <1>2, <1>4, <1>8, ChatsAppended
  <2>4. Told(s) => Told(Append(s, m))
    BY <1>1, ToldAppended
  <2> QED BY <2>1, <2>2, <2>3, <2>4, <1>3, <1>8 DEF s
<1> QED BY <1>7, <1>8

(* The accounts after a step are accounts from before, or one that its     *)
(* peer was told of.                                                       *)
LEMMA ToldStep ==
    ASSUME ToldInv, Moves, \A p \in Peers : Told(Stream(p)) => Told(Stream(p)'),
           \A a \in Elements(hslot) : accts[a].conn \in Peers,
           \A a \in Elements(hslot') :
               \/ a \in Elements(hslot) /\ accts'[a].conn = accts[a].conn
               \/ \E p \in Open' : accts'[a].conn = p /\ Told(Stream(p)')
    PROVE  ToldInv'
<1>1. ASSUME NEW a \in Elements(hslot')
      PROVE  \E p \in Peers : /\ accts'[a].conn = p /\ Told(Stream(p)')
                              /\ state'[p] \in {"open", "gone"}
  <2>1. CASE a \in Elements(hslot) /\ accts'[a].conn = accts[a].conn
    BY <2>1 DEF ToldInv, Moves
  <2>2. CASE \E p \in Open' : accts'[a].conn = p /\ Told(Stream(p)')
    BY <2>2 DEF Open
  <2> QED BY <1>1, <2>1, <2>2
<1>2. Elements(hslot)' = Elements(hslot')
  BY DEF Elements
<1> QED BY <1>1, <1>2 DEF ToldInv, Told, Stream

LEMMA PInitially == Init => PromiseInv
<1> SUFFICES ASSUME Init PROVE PromiseInv
  OBVIOUS
<1>1. ASSUME NEW p \in Peers
      PROVE  Stream(p) = <<>> /\ Len(Stream(p)) = 0 /\ nread[p] = 0
  BY <1>1 DEF Init, Stream
<1>2. AnswersInv
  <2> SUFFICES ASSUME NEW p \in Peers
               PROVE  Cardinality(Answers(Stream(p))) <= Cardinality(LoginsRead(p))
    BY DEF AnswersInv
  <2>1. Answers(Stream(p)) = {} /\ LoginsRead(p) = {}
    BY <1>1 DEF Answers, LoginsRead
  <2> QED BY <2>1, FS_EmptySet
<1>3. StreamsInv
  BY <1>1 DEF StreamsInv, MembersBehind, ChatsBehind
<1>4. ToldInv
  BY DEF Init, ToldInv, Elements
<1>5. ListingInv
  BY DEF Init, ListingInv
<1> QED BY <1>2, <1>3, <1>4, <1>5 DEF PromiseInv

LEMMA ConnIs == ASSUME TableInv PROVE \A a \in Elements(hslot) : accts[a].conn \in Peers
<1> SUFFICES ASSUME NEW a \in Elements(hslot) PROVE accts[a].conn \in Peers
  OBVIOUS
<1>1. accts[a] \in [name : Names, conn : Peers]
  BY ElementOfSeq DEF TableInv
<1> QED BY <1>1

(* A step that reads and sends nothing.                                    *)
LEMMA PUnsent ==
    ASSUME GInv, SaidInv', PromiseInv, Moves, UNCHANGED <<accts, oq, wire, rows, nread>>,
           said' = said \/ \E p \in Peers : ClientSend(p),
           pc' = "list" => pc = "list" /\ cur' = cur,
           Elements(hslot') \subseteq Elements(hslot),
           \A a \in Elements(hslot) : a \in Elements(hslot') \/ accts[a].conn \in Open
    PROVE  PromiseInv'
<1>1. OutType' /\ Unsent
  BY UnsentIs DEF GInv, outVars
<1>2. MoreRead
  BY SameRead, ReadOn DEF GInv
<1>3. \A a \in Elements(hslot) : accts[a].conn \in Peers
  BY ConnIs DEF GInv
<1>4. PeersLive' => PeersLive
  BY <1>3, LiveBefore DEF PromiseInv
<1>5. /\ AnswersInv' /\ StreamsInv'
      /\ \A p \in Peers : Told(Stream(p)) => Told(Stream(p)')
  BY <1>1, <1>2, <1>4, PromiseSame DEF PromiseInv, GInv
<1>6. ToldInv'
  BY <1>3, <1>5, ToldStep DEF PromiseInv
<1>7. ListingInv'
  <2>1. CASE pc' = "list"
    <3>1. pc = "list" /\ cur' = cur /\ rows' = rows /\ oq' = oq /\ wire' = wire
      BY <2>1
    <3> QED BY <3>1 DEF PromiseInv, ListingInv, Stream, Behind
  <2>2. CASE pc' # "list"
    BY <2>2 DEF ListingInv
  <2> QED BY <2>1, <2>2
<1> QED BY <1>5, <1>6, <1>7 DEF PromiseInv

(* The next row goes right behind the rows before it.                      *)
LEMMA BehindNext ==
    ASSUME NEW s \in Seq(Packets), NEW n, NEW k \in Nat, Behind(s, Len(s), n, k),
           Row(n, k + 1) \in Packets
    PROVE  Behind(Append(s, Row(n, k + 1)), Len(s) + 1, n, k + 1)
<1> DEFINE m == Row(n, k + 1)
           r == Append(s, m)
           i == Len(s) + 1
<1>1. m \in Packets
  OBVIOUS
<1> HIDE DEF m
<1>2. Len(s) \in Nat /\ r[Len(s) + 1] = m /\ \A j \in 1..Len(s) : r[j] = s[j]
  BY <1>1, OneMore
<1> HIDE DEF r
<1>3. k < Len(s) /\ s[Len(s) - k] = Success
      /\ \A l \in 1..k : s[Len(s) - k + l] = Row(n, l)
  BY DEF Behind
<1>4. i - (k + 1) = Len(s) - k /\ Len(s) - k \in 1..Len(s) /\ k + 1 < i
  BY <1>2, <1>3
<1>5. r[i - (k + 1)] = Success
  BY <1>2, <1>3, <1>4
<1>6. ASSUME NEW l \in 1..(k + 1) PROVE r[i - (k + 1) + l] = Row(n, l)
  <2>1. CASE l \in 1..k
    <3>1. Len(s) - k + l \in 1..Len(s)
      BY <2>1, <1>2, <1>3
    <3> QED BY <2>1, <3>1, <1>2, <1>3, <1>4
  <2>2. CASE l = k + 1
    <3>1. Len(s) - k + l = Len(s) + 1
      BY <2>2, <1>2
    <3> QED BY <2>2, <3>1, <1>2, <1>4 DEF m
  <2> QED BY <2>1, <2>2
<1>7. Behind(r, i, n, k + 1)
  BY <1>4, <1>5, <1>6 DEF Behind
<1> QED BY <1>7 DEF r, m

LEMMA PPeerList ==
    ASSUME GInv, SaidInv', PromiseInv, Moves, PeerList
    PROVE  PromiseInv'
<1> DEFINE m == [type |-> "PEER_LIST", name |-> Head(rows)]
           s == Stream(cur)
<1>1. /\ UNCHANGED <<account, accts, hslot, said, nread, cur, state>>
      /\ rows' = Tail(rows) /\ rows # <<>> /\ Head(rows) \in Names /\ cur \in Peers
      /\ OutType' /\ Appended(cur, m)
  BY PeerListIs DEF Open
<1>2. m \in Packets /\ m.type = "PEER_LIST"
  BY <1>1 DEF Packets
<1>3. OutType /\ s \in Seq(Packets)
  BY <1>1, StreamType DEF GInv
<1>4. PICK n \in Names : \E k \in 0..(Len(Members[n]) - 1) :
            Behind(s, Len(s), n, k) /\ rows = SubSeq(Members[n], k + 1, Len(Members[n]))
  BY <1>1 DEF PeerList, PromiseInv, ListingInv
<1>5. PICK k \in 0..(Len(Members[n]) - 1) :
            Behind(s, Len(s), n, k) /\ rows = SubSeq(Members[n], k + 1, Len(Members[n]))
  BY <1>4
<1> DEFINE l == Members[n]
<1>6. l \in Seq(Names) /\ Len(l) \in Nat
  BY ServerAssumption
<1>7. k \in Nat /\ k + 1 \in 1..Len(l) /\ Behind(s, Len(s), n, k)
      /\ rows = SubSeq(l, k + 1, Len(l))
  BY <1>5, <1>6
<1> HIDE DEF l, s
<1>8. Head(rows) = l[k + 1] /\ Tail(rows) = SubSeq(l, k + 2, Len(l))
  <2>1. 1 \in Nat /\ k + 1 \in 1..Len(l) /\ Len(l) \in (k + 1)..Len(l) /\ (k + 1) + 1 = k + 2
    BY <1>6, <1>7
  <2> QED BY <1>6, <1>7, <2>1, HeadTailOfSubSeq
<1>9. m = Row(n, k + 1)
  BY <1>8 DEF Row, l
<1> HIDE DEF m
<1>10. Behind(Append(s, m), Len(s) + 1, n, k + 1)
  BY <1>2, <1>3, <1>7, <1>9, BehindNext
<1>11. MoreRead
  <2>1. nread' = nread /\ said' = said
    BY <1>1
  <2> QED BY <2>1, SameRead, ReadOn DEF GInv
<1>12. \A a \in Elements(hslot) : accts[a].conn \in Peers
  BY ConnIs DEF GInv
<1>13. PeersLive' => PeersLive
  BY <1>1 DEF PeersLive, Open, Elements
<1>14. \E x \in Names : \E y \in 1..Len(Members[x]) :
            Behind(Append(s, m), Len(s) + 1, x, y)
  BY <1>7, <1>10 DEF l
<1>15. /\ AnswersInv' /\ StreamsInv'
       /\ \A p \in Peers : Told(Stream(p)) => Told(Stream(p)')
  BY <1>1, <1>2, <1>3, <1>11, <1>13, <1>14, PromiseMore DEF PromiseInv, s
<1>16. ToldInv'
  <2>1. \A a \in Elements(hslot') : a \in Elements(hslot) /\ accts'[a].conn = accts[a].conn
    BY <1>1
  <2> QED BY <2>1, <1>12, <1>15, ToldStep DEF PromiseInv
<1>17. ListingInv'
  <2> SUFFICES ASSUME rows' # <<>>
               PROVE  \E x \in Names : \E y \in 0..(Len(Members[x]) - 1) :
                        /\ Behind(Stream(cur)', Len(Stream(cur)'), x, y)
                        /\ rows' = SubSeq(Members[x], y + 1, Len(Members[x]))
    BY <1>1 DEF ListingInv, Stream
  <2>1. Stream(cur)' = Append(s, m)
    BY <1>1 DEF Appended, s, Stream
  <2>2. Len(Stream(cur)') = Len(s) + 1
    BY <2>1, <1>2, <1>3, OneMore
  <2>3. rows' = SubSeq(l, (k + 1) + 1, Len(l))
    <3>1. (k + 1) + 1 = k + 2
      BY <1>7
    <3> QED BY <3>1, <1>1, <1>8
  <2>4. k + 1 \in 0..(Len(l) - 1)
    <3>1. CASE k + 1 = Len(l)
      <4>1. Len(l) < (k + 1) + 1 /\ (k + 1) + 1 \in Int /\ Len(l) \in Int
        BY <3>1, <1>6
      <4>2. rows' = <<>>
        BY <2>3, <4>1, SubSeqEmpty
      <4> QED BY <4>2
    <3> QED BY <3>1, <1>6, <1>7
  <2>5. Behind(Stream(cur)', Len(Stream(cur)'), n, k + 1)
    BY <2>1, <2>2, <1>10
  <2> QED BY <2>3, <2>4, <2>5 DEF l
<1> QED BY <1>15, <1>16, <1>17 DEF PromiseInv

LEMMA PMessage ==
    ASSUME GInv, PromiseInv, Moves, ReadMessage
    PROVE  PromiseInv'
<1> DEFINE m == TheMessage
<1>1. /\ m \in Packets /\ SaidInv' /\ cur \in Peers /\ cur' = cur /\ cur \in Open
      /\ Open' = Open /\ said' = said /\ nread' = [nread EXCEPT ![cur] = @ + 1]
  BY MessageIs DEF GInv, Open
<1>2. m.type = "LOGIN" => Cardinality(LoginsRead(cur)') = Cardinality(LoginsRead(cur)) + 1
  BY LoginReadIs
<1> HIDE DEF m
<1>3. OutType /\ SaidInv /\ TableInv /\ AnswersInv /\ StreamsInv /\ ToldInv
  BY DEF GInv, PromiseInv
<1>4. MoreRead
  <2>1. \A p \in Peers : nread[p] <= nread'[p]
    BY <1>1, <1>3 DEF SaidInv
  <2> QED BY <2>1, <1>1, <1>3, ReadOn
<1>5. \A a \in Elements(hslot) : accts[a].conn \in Peers
  BY <1>3, ConnIs
<1>6. ASSUME UNCHANGED <<accts, hslot>>,
             \A p \in Peers : Told(Stream(p)) => Told(Stream(p)')
      PROVE  ToldInv'
  BY <1>3, <1>5, <1>6, ToldStep
<1>7. ASSUME UNCHANGED <<accts, hslot>> PROVE PeersLive' => PeersLive
  BY <1>1, <1>7 DEF PeersLive, Elements
<1>8. pc' # "list" => ListingInv'
  BY DEF ListingInv
<1>9. CASE Refused
  <2> DEFINE r == [type |-> "LOGIN_RESPOND", ok |-> FALSE]
  <2>1. r \in Packets /\ r.type = "LOGIN_RESPOND" /\ Send(cur, r) /\ m.type = "LOGIN"
        /\ UNCHANGED <<accts, hslot>> /\ pc' # "list"
    BY <1>9 DEF Refused, Packets, m
  <2> HIDE DEF r
  <2>2. Appended(cur, r)
    BY <1>1, <1>3, <2>1, SendIs
  <2>3. /\ AnswersInv' /\ StreamsInv'
        /\ \A p \in Peers : Told(Stream(p)) => Told(Stream(p)')
    BY <1>1, <1>2, <1>3, <1>4, <1>7, <2>1, <2>2, PromiseMore
  <2> QED BY <1>6, <1>8, <2>1, <2>3 DEF PromiseInv
<1>10. CASE Dropped
  <2>1. Unsent /\ UNCHANGED <<accts, hslot>> /\ pc' # "list"
    BY <1>3, <1>10, UnsentIs DEF Dropped
  <2>2. /\ AnswersInv' /\ StreamsInv'
        /\ \A p \in Peers : Told(Stream(p)) => Told(Stream(p)')
    BY <1>3, <1>4, <1>7, <2>1, PromiseSame
  <2> QED BY <1>6, <1>8, <2>1, <2>2 DEF PromiseInv
<1>11. CASE Routed
  <2> DEFINE a == Lookup(m.to)
  <2>1. m.type = "CHART" /\ a # 0 /\ SendTo(a, m, "read")
        /\ UNCHANGED <<accts, hslot>> /\ pc' # "list"
    BY <1>11 DEF Routed, m
  <2>2. a \in Elements(hslot) /\ accts[a].conn \in Peers
    BY <1>3, <2>1, FoundIs
  <2> HIDE DEF a
  <2>3. \/ accts[a].conn \in Open /\ Appended(accts[a].conn, m)
        \/ Unsent
        \/ ~PeersLive /\ \E q \in Peers : Appended(q, m)
    <3>1. /\ accts[a].conn \in Open => Appended(accts[a].conn, m)
          /\ Unsent \/ \E q \in Open : Appended(q, m)
      BY <1>1, <1>3, <2>1, <2>2, SendToIs
    <3>2. accts[a].conn \notin Open => ~PeersLive
      BY <2>2 DEF PeersLive
    <3> QED BY <3>1, <3>2 DEF Open
  <2>4. /\ AnswersInv' /\ StreamsInv'
        /\ \A p \in Peers : Told(Stream(p)) => Told(Stream(p)')
    <3>1. ASSUME NEW q \in Peers, Appended(q, m), Told(Stream(q)) \/ ~PeersLive
          PROVE  /\ AnswersInv' /\ StreamsInv'
                 /\ \A p \in Peers : Told(Stream(p)) => Told(Stream(p)')
      BY <1>1, <1>3, <1>4, <1>7, <2>1, <3>1, PromiseMore
    <3>2. CASE accts[a].conn \in Open /\ Appended(accts[a].conn, m)
      <4> DEFINE q == accts[a].conn
      <4>1. q \in Peers /\ Appended(q, m) /\ Told(Stream(q))
        BY <2>2, <3>2, <1>3 DEF ToldInv
      <4> HIDE DEF q
      <4> QED BY <4>1, <3>1
    <3>3. CASE Unsent
      BY <1>3, <1>4, <1>7, <2>1, <3>3, PromiseSame
    <3>4. CASE ~PeersLive /\ \E q \in Peers : Appended(q, m)
      BY <3>1, <3>4
    <3> QED BY <2>3, <3>2, <3>3, <3>4
  <2> QED BY <1>6, <1>8, <2>1, <2>4 DEF PromiseInv
<1>12. CASE Joined
  <2> DEFINE r == [type |-> "LOGIN_RESPOND", ok |-> TRUE]
             n == m.name
             s == Stream(cur)
  <2>1. r \in Packets /\ r.type = "LOGIN_RESPOND" /\ r = Success /\ Send(cur, r)
        /\ m.type = "LOGIN" /\ Register(n) /\ rows' \in {<<>>, Members[n]}
    BY <1>12 DEF Joined, Packets, Success, m
  <2>2. n \in Names
    BY <1>1, <2>1, PacketFields
  <2> HIDE DEF r, n
  <2>3. Appended(cur, r)
    BY <1>1, <1>3, <2>1, SendIs
  <2>4. s \in Seq(Packets) /\ Len(s) \in Nat /\ Stream(cur)' = Append(s, Success)
    BY <1>1, <1>3, <2>1, <2>3, StreamType DEF Appended
  <2>5. /\ Elements(hslot') = Elements(hslot) \cup {Len(accts) + 1}
        /\ accts'[Len(accts) + 1] = [name |-> n, conn |-> cur]
        /\ \A a \in 1..Len(accts) : accts'[a] = accts[a]
    BY <1>1, <1>3, <2>1, <2>2, RegisterIs
  <2>6. Elements(hslot) \subseteq 1..Len(accts) /\ Elements(hslot)' = Elements(hslot')
    BY <1>3 DEF TableInv, Elements
  <2>7. PeersLive' => PeersLive
    <3>1. \A a \in Elements(hslot) : a \in Elements(hslot') /\ accts'[a].conn = accts[a].conn
      BY <2>5, <2>6
    <3> QED BY <3>1, <1>3, <1>5, LiveBefore
  <2>8. /\ AnswersInv' /\ StreamsInv'
        /\ \A p \in Peers : Told(Stream(p)) => Told(Stream(p)')
    BY <1>1, <1>2, <1>3, <1>4, <2>1, <2>3, <2>7, PromiseMore
  <2>9. Told(Stream(cur)')
    <3> HIDE DEF s
    <3>1. Success \in Packets
      BY <2>1
    <3>2. Told(Append(s, Success))
      BY <2>4, <3>1, ToldAppended
    <3> QED BY <2>4, <3>2
  <2>10. ToldInv'
    <3>1. ASSUME NEW a \in Elements(hslot')
          PROVE  \/ a \in Elements(hslot) /\ accts'[a].conn = accts[a].conn
                 \/ \E p \in Open' : accts'[a].conn = p /\ Told(Stream(p)')
      <4>1. CASE a \in Elements(hslot)
        BY <4>1, <2>5, <2>6
      <4>2. CASE a = Len(accts) + 1
        <5>1. Told(Stream(cur))'
          BY <2>9, <1>1 DEF Stream, Told
        <5> QED BY <4>2, <2>5, <2>9, <1>1
      <4> QED BY <4>1, <4>2, <2>5, <3>1
    <3> QED BY <3>1, <1>3, <1>5, <2>8, ToldStep
  <2>11. ListingInv'
    <3> SUFFICES ASSUME rows' # <<>>
                 PROVE  \E x \in Names : \E y \in 0..(Len(Members[x]) - 1) :
                          /\ Behind(Stream(cur)', Len(Stream(cur)'), x, y)
                          /\ rows' = SubSeq(Members[x], y + 1, Len(Members[x]))
      BY <1>1 DEF ListingInv, Stream
    <3> DEFINE l == Members[n]
               t == Stream(cur)'
    <3>1. l \in Seq(Names) /\ Len(l) \in Nat /\ rows' = l
      BY <2>1, <2>2, ServerAssumption
    <3>2. 0 \in 0..(Len(l) - 1)
      BY <3>1
    <3>3. SubSeq(l, 0 + 1, Len(l)) = rows'
      BY <3>1, SubSeqFull
    <3>4. Len(t) = Len(s) + 1 /\ t[Len(s) + 1] = Success
      <4> HIDE DEF s
      <4>1. Success \in Packets
        BY <2>1
      <4> QED BY <2>4, <4>1, OneMore
    <3> HIDE DEF l, t, s
    <3>5. Behind(t, Len(t), n, 0)
      BY <2>4, <3>4 DEF Behind
    <3> QED BY <2>2, <3>2, <3>3, <3>5 DEF l, t
  <2> QED BY <2>8, <2>10, <2>11 DEF PromiseInv
<1> QED BY <1>9, <1>10, <1>11, <1>12, BranchIs

(* A step that writes leaves no account without its peer.                  *)
LEMMA LiveAfter == GInv /\ PeersLive /\ (ReadMessage \/ PeerList) => PeersLive'
<1> SUFFICES ASSUME GInv, PeersLive, ReadMessage \/ PeerList PROVE PeersLive'
  OBVIOUS
<1>1. Open' = Open /\ Elements(hslot)' = Elements(hslot')
  BY DEF ReadMessage, PeerList, Open, Elements
<1>2. CASE UNCHANGED <<accts, hslot>>
  BY <1>1, <1>2 DEF PeersLive
<1>3. CASE ReadMessage /\ Joined
  <2> DEFINE n == TheMessage.name
  <2>1. TheMessage \in Packets /\ cur \in Open
    BY <1>3, MessageIs DEF GInv
  <2>2. n \in Names /\ Register(n) /\ cur \in Peers
    BY <2>1, <1>3, PacketFields DEF Joined, Open
  <2> HIDE DEF n
  <2>3. /\ Elements(hslot') = Elements(hslot) \cup {Len(accts) + 1}
        /\ accts'[Len(accts) + 1] = [name |-> n, conn |-> cur]
        /\ \A a \in 1..Len(accts) : accts'[a] = accts[a]
    BY <2>2, RegisterIs DEF GInv
  <2>4. Elements(hslot) \subseteq 1..Len(accts)
    BY DEF GInv, TableInv, Elements
  <2>5. \A a \in Elements(hslot') : accts'[a].conn \in Open
    BY <2>1, <2>3, <2>4 DEF PeersLive
  <2> QED BY <2>5, <1>1 DEF PeersLive
<1> QED BY <1>2, <1>3, BranchIs DEF PeerList, acctVars, Refused, Dropped, Routed

LEMMA PInductive == GInv /\ PromiseInv /\ [Next]_vars => PromiseInv'
<1> SUFFICES ASSUME GInv, PromiseInv, [Next]_vars PROVE PromiseInv'
  OBVIOUS
<1>1. Moves /\ SaidInv'
  BY MovesOn, GInductive DEF GInv
<1>2. CASE Quiet /\ said' = said
  BY <1>1, <1>2, PUnsent DEF Quiet, kept
<1>3. ASSUME NEW p \in Peers, Quiet, ClientSend(p) PROVE PromiseInv'
  BY <1>1, <1>3, PUnsent DEF Quiet, kept
<1>4. ASSUME NEW p \in Peers, Opened(p) PROVE PromiseInv'
  BY <1>1, <1>4, PUnsent DEF Opened, kept
<1>5. ASSUME NEW p \in Open, Destroyed(p) PROVE PromiseInv'
  <2>1. /\ UNCHANGED <<accts, oq, wire, rows, nread, said>> /\ pc' # "list"
        /\ account' = [account EXCEPT ![p] = 0] /\ hslot' = Unlisted(p) /\ p \in Peers
    BY <1>5 DEF Destroyed, Open
  <2>2. Elements(hslot') = Elements(hslot) \ {account[p]}
    BY <2>1, UnlistedIs DEF GInv
  <2>3. account[p] # 0 => accts[account[p]].conn = p
    BY <2>1 DEF GInv, TableInv
  <2>4. account[p] \in Elements(hslot) => accts[account[p]].conn \in Open
    <3>1. 0 \notin Elements(hslot)
      BY ElementOfSeq DEF GInv, TableInv, Elements
    <3> QED BY <2>3, <3>1
  <2> QED BY <1>1, <2>1, <2>2, <2>4, PUnsent
<1>6. CASE ReadMessage
  BY <1>1, <1>6, PMessage
<1>7. CASE PeerList
  BY <1>1, <1>7, PPeerList
<1> QED BY <1>2, <1>3, <1>4, <1>5, <1>6, <1>7, StepIs DEF GInv

-----------------------------------------------------------------------------
(* The theorems for any clients.                                           *)

THEOREM AccountInvariance == Spec => []GInv
<1>1. Init => GInv
  BY GInitially
<1>2. GInv /\ [Next]_vars => GInv'
  BY GInductive
<1> QED BY <1>1, <1>2, PTL DEF Spec

(* The server answers a LOGIN once at most, lists the members right behind *)
(* a success and only there, and lets no chat through before one while no  *)
(* account leads to a freed peer (message_proc_login).                     *)
THEOREM PromiseInvariance == Spec => [](GInv /\ PromiseInv)
<1>1. Init => GInv /\ PromiseInv
  BY GInitially, PInitially
<1>2. GInv /\ PromiseInv /\ [Next]_vars => (GInv /\ PromiseInv)'
  BY GInductive, PInductive
<1> QED BY <1>1, <1>2, PTL DEF Spec

(* Type correctness.                                                       *)
THEOREM TypeCorrect == Spec => []TypeOK
<1>1. GInv => TypeOK
  <2> SUFFICES ASSUME GInv PROVE TypeOK
    OBVIOUS
  <2>1. LoopType /\ FlagType /\ OutType /\ TableInv /\ rows \in Seq(Names)
    BY DEF GInv, IInv, ListInv
  <2>2. said \in [Peers -> Seq(Packets)] /\ nread \in [Peers -> Nat]
    BY DEF GInv, SaidInv
  <2> QED BY <2>1, <2>2 DEF LoopType, FlagType, OutType, TableInv, TypeOK
<1> QED BY <1>1, AccountInvariance, PTL

(* Chats of one client reach another in the order they were sent, once     *)
(* (send_message, ball.c).                                                 *)
THEOREM ChatsInOrderCorrect == Spec => []ChatsInOrder
<1>1. GInv => ChatsInOrder
  BY DEF GInv, ChatInv
<1> QED BY <1>1, AccountInvariance, PTL

(* The member list goes to the peer that logged in, whatever the names of  *)
(* the other accounts are (server.c:307).                                  *)
THEOREM MembersToAskerCorrect == Spec => MembersToAsker
<1>1. GInv /\ [Next]_vars =>
        [pc = "list" => \A p \in Peers \ {cur} : Stream(p)' = Stream(p)]_vars
  <2> SUFFICES ASSUME GInv, [Next]_vars, pc = "list", NEW p \in Peers \ {cur}
               PROVE  Stream(p)' = Stream(p)
    OBVIOUS
  <2>1. CASE UNCHANGED <<oq, wire>>
    BY <2>1 DEF Stream
  <2>2. CASE PeerList
    <3>1. Appended(cur, [type |-> "PEER_LIST", name |-> Head(rows)])
      BY <2>2, PeerListIs
    <3> QED BY <3>1 DEF Appended
  <2>3. ~ReadMessage
    BY DEF ReadMessage
  <2> QED
    BY <2>1, <2>2, <2>3, StepIs DEF GInv, Quiet, Opened, Destroyed, kept
<1> QED BY <1>1, AccountInvariance, PTL DEF Spec, MembersToAsker

-----------------------------------------------------------------------------
(* The theorems for clients that log in once on a connection at most.      *)

THEOREM LoginInvariance ==
    ASSUME LoginsPerPeer <= 1
    PROVE  Spec => [](GInv /\ LInv)
<1>1. Init => GInv /\ LInv
  BY GInitially, LInitially
<1>2. (GInv /\ LInv) /\ [Next]_vars => (GInv /\ LInv)'
  BY GInductive, LInductive
<1> QED BY <1>1, <1>2, PTL DEF Spec

(* Accounts and peers know each other (server.c:300): no account that can  *)
(* be looked up leads to a peer_info that was freed.                       *)
THEOREM AccountsKnowPeersCorrect ==
    ASSUME LoginsPerPeer <= 1
    PROVE  Spec => []AccountsKnowPeers
<1>1. GInv /\ LInv => AccountsKnowPeers
  <2> SUFFICES ASSUME GInv, LInv PROVE AccountsKnowPeers
    OBVIOUS
  <2>1. ASSUME NEW i \in 1..Len(hslot)
        PROVE  accts[hslot[i]].conn \in Open /\ account[accts[hslot[i]].conn] = hslot[i]
    <3>1. hslot[i] \in Elements(hslot)
      BY DEF Elements
    <3> QED BY <3>1 DEF LInv, LiveInv
  <2>2. ASSUME NEW p \in Peers, account[p] # 0
        PROVE  \E i \in 1..Len(hslot) :
                  hslot[i] = account[p] /\ accts[account[p]].conn = p
    BY <2>2 DEF GInv, TableInv, Elements
  <2>3. \A i, j \in 1..Len(hslot) : hslot[i] = hslot[j] => i = j
    BY DEF GInv, TableInv
  <2> QED BY <2>1, <2>2, <2>3 DEF AccountsKnowPeers
<1> QED BY <1>1, LoginInvariance, PTL

(* Nothing but answers goes to a client that is not logged in.             *)
THEOREM AnsweredFirstCorrect ==
    ASSUME LoginsPerPeer <= 1
    PROVE  Spec => []AnsweredFirst
<1>1. GInv /\ LInv => AnsweredFirst
  BY DEF LInv, AnsweredInv
<1> QED BY <1>1, LoginInvariance, PTL

(* Where no name begins with another, a chat goes only to a peer that is   *)
(* logged in under the name it is addressed to (protocol:26).              *)
THEOREM RightRecipientCorrect ==
    ASSUME LoginsPerPeer <= 1, PrefixOf = {}
    PROVE  Spec => RightRecipient
<1> DEFINE To(p) == LET new == Stream(p)'
                    IN  Len(new) > Len(Stream(p)) /\ new[Len(new)].type = "CHART" =>
                           /\ account[p] # 0
                           /\ accts[account[p]].name = new[Len(new)].to
<1>1. ASSUME GInv, LInv, [Next]_vars, NEW p \in Peers
      PROVE  To(p)
  <2>1. OutType /\ Stream(p) \in Seq(Packets) /\ Len(Stream(p)) \in Nat
    BY <1>1, StreamType DEF GInv
  <2>2. ASSUME Stream(p)' = Stream(p) PROVE To(p)
    BY <2>1, <2>2
  <2>3. ASSUME NEW q \in Peers, NEW m \in Packets, Appended(q, m),
               m.type = "CHART" => account[q] # 0 /\ accts[account[q]].name = m.to
        PROVE  To(p)
    <3>1. CASE p # q
      BY <2>2, <2>3, <3>1 DEF Appended
    <3>2. CASE p = q
      <4>1. Stream(p)' = Append(Stream(p), m)
        BY <2>3, <3>2 DEF Appended
      <4>2. Len(Stream(p)') = Len(Stream(p)) + 1 /\ Stream(p)'[Len(Stream(p)) + 1] = m
        BY <2>1, <4>1, AppendProperties
      <4> QED BY <2>3, <3>2, <4>2
    <3> QED BY <3>1, <3>2
  <2> HIDE DEF To
  <2>4. CASE UNCHANGED <<oq, wire>>
    BY <2>2, <2>4 DEF Stream
  <2>5. CASE PeerList
    <3> DEFINE m == [type |-> "PEER_LIST", name |-> Head(rows)]
    <3>1. Appended(cur, m) /\ cur \in Peers /\ Head(rows) \in Names
      BY <1>1, <2>5, PeerListIs DEF Open
    <3>2. m \in Packets /\ m.type # "CHART"
      BY <3>1 DEF Packets
    <3> HIDE DEF m
    <3> QED BY <2>3, <3>1, <3>2
  <2>6. CASE ReadMessage
    <3>1. TheMessage \in Packets /\ cur \in Peers
      BY <1>1, <2>6, MessageIs DEF GInv, Open
    <3>2. ASSUME NEW r \in Packets, r.type # "CHART", Send(cur, r)
          PROVE  To(p)
      BY <2>1, <2>3, <3>1, <3>2, SendIs
    <3>3. CASE Refused
      BY <3>2, <3>3 DEF Refused, Packets
    <3>4. CASE Joined
      BY <3>2, <3>4 DEF Joined, Packets
    <3>5. CASE Dropped
      BY <2>4, <3>5 DEF Dropped, outVars
    <3>6. CASE Routed
      <4> DEFINE a == Lookup(TheMessage.to)
      <4>1. a # 0 /\ SendTo(a, TheMessage, "read")
        BY <3>6 DEF Routed
      <4>2. a \in Elements(hslot) /\ Matches(accts[a].name, TheMessage.to)
        BY <1>1, <4>1, FoundIs DEF GInv
      <4> HIDE DEF a
      <4>3. accts[a].name = TheMessage.to
        BY <4>2 DEF Matches
      <4>4. accts[a].conn \in Open /\ account[accts[a].conn] = a
        BY <1>1, <4>2 DEF LInv, LiveInv
      <4>5. Appended(accts[a].conn, TheMessage) /\ accts[a].conn \in Peers
        BY <2>1, <3>1, <4>1, <4>4, SendToIs DEF Open
      <4> QED BY <2>3, <3>1, <4>1, <4>3, <4>4, <4>5
    <3> QED BY <2>6, <3>3, <3>4, <3>5, <3>6, BranchIs
  <2> QED
    BY <1>1, <2>4, <2>5, <2>6, StepIs DEF GInv, Quiet, Opened, Destroyed, kept
<1>2. GInv /\ LInv /\ [Next]_vars => [\A p \in Peers : To(p)]_vars
  BY <1>1
<1> QED BY <1>2, LoginInvariance, PTL DEF Spec, RightRecipient

-----------------------------------------------------------------------------
(* The refinement.                                                         *)

LEMMA OnlineIs ==
    \A s : s \in Online <=>
        \E a \in Elements(hslot) : s = <<accts[a].conn, accts[a].name>>
BY DEF Online, Elements

LEMMA JoinedIsLogin ==
    ASSUME GInv, LInv, ReadMessage, Joined
    PROVE  Dir!Next
<1> DEFINE n == TheMessage.name
           new == Len(accts) + 1
<1>1. cur \in Open /\ cur \in Peers /\ Open' = Open /\ n \in Names
  BY MessageIs, PacketFields DEF GInv, Open, Joined
<1>2. Register(n)
  BY DEF Joined
<1> HIDE DEF n
<1>3. /\ Elements(hslot') = Elements(hslot) \cup {new}
      /\ accts'[new] = [name |-> n, conn |-> cur]
      /\ \A a \in 1..Len(accts) : accts'[a] = accts[a]
  BY <1>1, <1>2, RegisterIs DEF GInv
<1>4. Elements(hslot) \subseteq 1..Len(accts)
  BY DEF GInv, TableInv
<1>5. \A s : s \in Online' <=>
          \E a \in Elements(hslot') : s = <<accts'[a].conn, accts'[a].name>>
  BY DEF Online, Elements
<1> HIDE DEF new
<1>6. Online' = Online \cup {<<cur, n>>}
  <2>1. ASSUME NEW s \in Online' PROVE s \in Online \cup {<<cur, n>>}
    <3>1. PICK a \in Elements(hslot') : s = <<accts'[a].conn, accts'[a].name>>
      BY <1>5
    <3>2. CASE a = new
      BY <3>1, <3>2, <1>3
    <3>3. CASE a \in Elements(hslot)
      BY <3>1, <3>3, <1>3, <1>4, OnlineIs
    <3> QED BY <3>2, <3>3, <1>3
  <2>2. ASSUME NEW s \in Online PROVE s \in Online'
    <3>1. PICK a \in Elements(hslot) : s = <<accts[a].conn, accts[a].name>>
      BY OnlineIs
    <3> QED BY <3>1, <1>3, <1>4, <1>5
  <2>3. <<cur, n>> \in Online'
    <3>1. new \in Elements(hslot') /\ <<cur, n>> = <<accts'[new].conn, accts'[new].name>>
      BY <1>3
    <3> QED BY <3>1, <1>5
  <2> QED BY <2>1, <2>2, <2>3
<1>7. Dir!Login(cur, n)
  BY <1>1, <1>6 DEF Dir!Login
<1> QED BY <1>1, <1>7 DEF Dir!Next

LEMMA DestroyedIsLeave ==
    ASSUME GInv, LInv, NEW p \in Open, Destroyed(p)
    PROVE  Dir!Next
<1>1. /\ account' = [account EXCEPT ![p] = 0] /\ hslot' = Unlisted(p) /\ accts' = accts
      /\ Open' = Open \ {p} /\ p \in Peers
  BY DEF Destroyed, Open
<1>2. Elements(hslot') = Elements(hslot) \ {account[p]}
  BY <1>1, UnlistedIs DEF GInv
<1>3. \A s : s \in Online' <=>
          \E a \in Elements(hslot') : s = <<accts[a].conn, accts[a].name>>
  BY <1>1 DEF Online, Elements
<1>4. ASSUME NEW a \in Elements(hslot)
      PROVE  accts[a].conn = p <=> a = account[p]
  <2>1. account[accts[a].conn] = a /\ a # 0
    BY DEF GInv, LInv, LiveInv, TableInv
  <2>2. account[p] # 0 => accts[account[p]].conn = p
    BY <1>1 DEF GInv, TableInv
  <2> QED BY <2>1, <2>2
<1>5. Online' = {s \in Online : s[1] # p}
  <2>1. ASSUME NEW s \in Online' PROVE s \in Online /\ s[1] # p
    <3>1. PICK a \in Elements(hslot') : s = <<accts[a].conn, accts[a].name>>
      BY <1>3
    <3>2. a \in Elements(hslot) /\ accts[a].conn # p
      BY <1>2, <1>4
    <3> QED BY <3>1, <3>2, OnlineIs
  <2>2. ASSUME NEW s \in Online, s[1] # p PROVE s \in Online'
    <3>1. PICK a \in Elements(hslot) : s = <<accts[a].conn, accts[a].name>>
      BY OnlineIs
    <3>2. a \in Elements(hslot')
      BY <3>1, <2>2, <1>2, <1>4
    <3> QED BY <3>1, <3>2, <1>3
  <2> QED BY <2>1, <2>2
<1>6. Dir!Leave(p)
  BY <1>1, <1>5 DEF Dir!Leave
<1> QED BY <1>1, <1>6 DEF Dir!Next

(* The pool of peers, the table of accounts and the pointers between them  *)
(* implement the directory: accept is a Connect, a login that succeeds a   *)
(* Login, destroy_peer_info a Leave, and every other step a stutter.       *)
THEOREM Refinement ==
    ASSUME LoginsPerPeer <= 1
    PROVE  Spec => DirectorySpec
<1>1. Init => Dir!Init
  <2> SUFFICES ASSUME Init PROVE Dir!Init
    OBVIOUS
  <2>1. Open = {}
    BY DEF Init, Open
  <2>2. Len(hslot) = 0
    BY DEF Init
  <2>3. Online = {}
    BY <2>2 DEF Online
  <2> QED BY <2>1, <2>3 DEF Dir!Init
<1>2. ASSUME GInv, LInv, [Next]_vars
      PROVE  [Dir!Next]_(Dir!vars)
  <2>1. ASSUME UNCHANGED <<accts, hslot>>, Open' = Open
        PROVE  UNCHANGED Dir!vars
    BY <2>1 DEF Dir!vars, Online
  <2>2. CASE Quiet
    BY <2>1, <2>2 DEF Quiet, kept
  <2>3. ASSUME NEW p \in Peers, Opened(p) PROVE Dir!Next
    <3>1. p \notin Open /\ Open' = Open \cup {p} /\ Online' = Online
      BY <2>3 DEF Opened, kept, Online
    <3>2. Dir!Connect(p)
      BY <3>1 DEF Dir!Connect
    <3> QED BY <3>2 DEF Dir!Next
  <2>4. ASSUME NEW p \in Open, Destroyed(p) PROVE Dir!Next
    BY <1>2, <2>4, DestroyedIsLeave
  <2>5. CASE ReadMessage
    <3>1. Open' = Open
      BY <1>2, <2>5, MessageIs DEF GInv
    <3>2. CASE Joined
      BY <1>2, <2>5, <3>2, JoinedIsLogin
    <3>3. CASE Refused \/ Dropped \/ Routed
      BY <2>1, <3>1, <3>3 DEF Refused, Dropped, Routed
    <3> QED BY <2>5, <3>2, <3>3, BranchIs
  <2>6. CASE PeerList
    <3>1. UNCHANGED <<accts, hslot>> /\ state' = state
      BY <1>2, <2>6, PeerListIs
    <3> QED BY <2>1, <3>1 DEF Open
  <2> QED BY <1>2, <2>2, <2>3, <2>4, <2>5, <2>6, StepIs DEF GInv
<1> QED BY <1>1, <1>2, LoginInvariance, PTL DEF Spec, DirectorySpec, Dir!Spec
=============================================================================
