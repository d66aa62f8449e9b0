--------------------------- MODULE ChartPanelProofs ---------------------------
(***************************************************************************)
(* Theorems about ChartPanel, for every size of a char that can tell the   *)
(* types of packets apart, any names and texts that fit their fields, and  *)
(* any number of members, windows and packets.                             *)
(***************************************************************************)
EXTENDS ChartPanel, CodecProofs, WellFoundedInduction

-----------------------------------------------------------------------------
(* The first of some members.                                              *)

LEMMA LeastExists ==
    ASSUME NEW T \in SUBSET Nat, T # {}
    PROVE  \E m \in T : \A k \in T : m <= k
<1> DEFINE R == OpToRel(<, Nat)
<1>1. IsWellFoundedOn(R, Nat)
  BY NatLessThanWellFounded
<1>2. PICK m \in T : \A k \in T : ~ (<<k, m>> \in R)
  <2> HIDE DEF R
  <2> QED BY <1>1, WFMin
<1>3. \A k \in T : ~(k < m)
  <2> TAKE k \in T
  <2>1. ~ (<<k, m>> \in R)
    BY <1>2
  <2> QED BY <2>1 DEF OpToRel
<1> HIDE DEF R
<1> QED BY <1>2, <1>3

LEMMA FirstIn ==
    ASSUME NEW n \in Nat, NEW S \in SUBSET (1..n)
    PROVE  /\ First(S) \in S \cup {0}
           /\ S # {} => First(S) \in S
           /\ First(S) = 0 => S = {}
<1>1. CASE S = {}
  BY <1>1 DEF First
<1>2. CASE S # {}
  <2>1. S \in SUBSET Nat
    OBVIOUS
  <2>2. \E i \in S : \A j \in S : i <= j
    BY <1>2, <2>1, LeastExists
  <2>3. First(S) \in S
    BY <1>2, <2>2 DEF First
  <2> QED BY <2>3
<1> QED BY <1>1, <1>2

-----------------------------------------------------------------------------
(* What fits into the fields of a packet.                                  *)

LEMMA NamesAreNames ==
    ASSUME NEW n \in Names \cup {Me}
    PROVE  n \in Name
<1>1. n \in Seq(Chars \ {0}) /\ Len(n) < Byte \div 2
  BY ChartAssumption DEF Written
<1>2. n \in Seq(Chars)
  <2>1. Chars \ {0} \subseteq Chars
    OBVIOUS
  <2> QED BY <1>1, <2>1, SeqMonotonic
<1> QED BY <1>1, <1>2 DEF Name

LEMMA TextsAreContent ==
    ASSUME NEW x \in Texts
    PROVE  x \in Content16
<1>1. x \in Seq(Chars \ {0}) /\ Len(x) < Byte * Byte
  BY ChartAssumption DEF Written
<1>2. x \in Seq(Chars)
  <2>1. Chars \ {0} \subseteq Chars
    OBVIOUS
  <2> QED BY <1>1, <2>1, SeqMonotonic
<1> QED BY <1>1, <1>2 DEF Content16

(* The length of any packet fits an int.                                   *)
LEMMA Room ==
    /\ Byte * Byte \in Nat /\ Byte * Byte * Byte * Byte \in Nat
    /\ Byte * Byte + Byte + 20 < Byte * Byte * Byte * Byte
<1>1. Byte \in Nat /\ Byte >= 4
  BY ByteAssumption
<1>2. PICK d \in Nat : Byte = d + 4
  <2>1. Byte - 4 \in Nat /\ Byte = (Byte - 4) + 4
    BY <1>1
  <2> QED BY <2>1
<1>3. /\ Byte * Byte = d * Byte + 4 * Byte
      /\ d * Byte \in Nat /\ Byte * Byte \in Nat
  BY <1>1, <1>2
<1>4. PICK e \in Nat : Byte * Byte = e + 16
  <2>1. Byte * Byte - 16 \in Nat /\ Byte * Byte = (Byte * Byte - 16) + 16
    BY <1>1, <1>3
  <2> QED BY <2>1
<1>5. /\ (Byte * Byte) * (Byte * Byte) = e * (Byte * Byte) + 16 * (Byte * Byte)
      /\ e * (Byte * Byte) \in Nat
  BY <1>3, <1>4
<1>6. Byte * Byte * Byte * Byte = (Byte * Byte) * (Byte * Byte)
  BY <1>1
<1>7. Byte * Byte * Byte * Byte = e * (Byte * Byte) + 16 * (Byte * Byte)
  BY <1>5, <1>6, Zenon
<1> DEFINE s == Byte * Byte
           f == Byte * Byte * Byte * Byte
           g == e * (Byte * Byte)
<1>8. f = g + 16 * s /\ s \in Nat /\ g \in Nat /\ s >= 4 * Byte
  BY <1>1, <1>3, <1>5, <1>7
<1> HIDE DEF s, f, g
<1>9. f \in Nat /\ s + Byte + 20 < f
  BY <1>1, <1>8
<1> QED BY <1>3, <1>9 DEF s, f

LEMMA ChartType ==
    ASSUME NEW from \in Name, NEW to \in Name, NEW msg \in Content16
    PROVE  /\ Chart(from, to, msg) \in Seq(Chars)
           /\ 12 + Len(Chart(from, to, msg)) < Byte * Byte * Byte * Byte
<1> DEFINE two == Sized(from) \o Sized(to)
           three == two \o Short(Len(msg))
           all == three \o msg
<1>1. /\ from \in Seq(Chars) /\ to \in Seq(Chars) /\ msg \in Seq(Chars)
      /\ Len(msg) \in Nat /\ Len(msg) < Byte * Byte
      /\ Len(from) \in Nat /\ Len(to) \in Nat
      /\ Len(from) < Byte \div 2 /\ Len(to) < Byte \div 2
  BY DEF Name, Content16
<1>2. /\ Sized(from) \in Seq(Chars) /\ Len(Sized(from)) = Len(from) + 1
      /\ Sized(to) \in Seq(Chars) /\ Len(Sized(to)) = Len(to) + 1
  BY <1>1, SizedType
<1>3. two \in Seq(Chars) /\ Len(two) = Len(Sized(from)) + Len(Sized(to))
  BY <1>2, Concat, Zenon
<1>4. Short(Len(msg)) \in Seq(Chars) /\ Len(Short(Len(msg))) = 2
  BY <1>1, ShortType
<1>5. three \in Seq(Chars) /\ Len(three) = Len(two) + Len(Short(Len(msg)))
  BY <1>3, <1>4, Concat, Zenon
<1>6. all \in Seq(Chars) /\ Len(all) = Len(three) + Len(msg)
  BY <1>1, <1>5, Concat, Zenon
<1> HIDE DEF two, three, all
<1>7. Len(all) = Len(from) + Len(to) + Len(msg) + 4
  BY <1>1, <1>2, <1>3, <1>4, <1>5, <1>6
<1>8. Len(from) + Len(to) <= Byte
  BY <1>1, ByteAssumption
<1>9. 12 + Len(all) < Byte * Byte * Byte * Byte
  <2> DEFINE s == Byte * Byte
             f == Byte * Byte * Byte * Byte
  <2>1. s \in Nat /\ f \in Nat /\ s + Byte + 20 < f /\ Len(msg) < s
    BY Room, <1>1
  <2> HIDE DEF s, f
  <2>2. 12 + Len(all) < f
    BY <2>1, <1>1, <1>7, <1>8, ByteAssumption
  <2> QED BY <2>2 DEF f
<1> QED BY <1>6, <1>9 DEF all, three, two, Chart

LEMMA PeerListType ==
    ASSUME NEW name \in Name
    PROVE  /\ PeerList(name) \in Seq(Chars)
           /\ 12 + Len(PeerList(name)) < Byte * Byte * Byte * Byte
<1>1. name \in Seq(Chars) /\ Len(name) \in Nat /\ Len(name) < Byte \div 2
  BY DEF Name
<1>2. PeerList(name) \in Seq(Chars) /\ Len(PeerList(name)) = Len(name) + 1
  BY <1>1, SizedType DEF PeerList
<1> DEFINE s == Byte * Byte
           f == Byte * Byte * Byte * Byte
<1>3. s \in Nat /\ f \in Nat /\ s + Byte + 20 < f
  BY Room
<1> HIDE DEF s, f
<1>4. 12 + Len(PeerList(name)) < f
  BY <1>1, <1>2, <1>3, ByteAssumption
<1> QED BY <1>2, <1>4 DEF f

LEMMA RespondType ==
    ASSUME NEW status \in Int32
    PROVE  /\ Respond(status) \in Seq(Chars)
           /\ 12 + Len(Respond(status)) < Byte * Byte * Byte * Byte
<1>1. Respond(status) \in Seq(Chars) /\ Len(Respond(status)) = 4
  BY LongType DEF Respond, Int32
<1> DEFINE s == Byte * Byte
           f == Byte * Byte * Byte * Byte
<1>2. s \in Nat /\ f \in Nat /\ s + Byte + 20 < f
  BY Room
<1> HIDE DEF s, f
<1>3. 12 + Len(Respond(status)) < f
  BY <1>1, <1>2, ByteAssumption
<1> QED BY <1>1, <1>3 DEF f

LEMMA LoginType ==
    ASSUME NEW name \in Name, NEW passwd \in Name
    PROVE  /\ Login(name, passwd) \in Seq(Chars)
           /\ 12 + Len(Login(name, passwd)) < Byte * Byte * Byte * Byte
<1> DEFINE all == Sized(name) \o Sized(passwd)
<1>1. /\ name \in Seq(Chars) /\ Len(name) \in Nat /\ Len(name) < Byte \div 2
      /\ passwd \in Seq(Chars) /\ Len(passwd) \in Nat /\ Len(passwd) < Byte \div 2
  BY DEF Name
<1>2. /\ Sized(name) \in Seq(Chars) /\ Len(Sized(name)) = Len(name) + 1
      /\ Sized(passwd) \in Seq(Chars) /\ Len(Sized(passwd)) = Len(passwd) + 1
  BY <1>1, SizedType
<1>3. all \in Seq(Chars) /\ Len(all) = Len(Sized(name)) + Len(Sized(passwd))
  BY <1>2, Concat, Zenon
<1> HIDE DEF all
<1> DEFINE s == Byte * Byte
           f == Byte * Byte * Byte * Byte
<1>4. s \in Nat /\ f \in Nat /\ s + Byte + 20 < f
  BY Room
<1> HIDE DEF s, f
<1>5. 12 + Len(all) < f
  BY <1>1, <1>2, <1>3, <1>4, ByteAssumption
<1> QED BY <1>3, <1>5 DEF f, all, Login

-----------------------------------------------------------------------------
(* What comes.                                                             *)

LEMMA ChartCame ==
    ASSUME NEW m \in Incoming, m.type = "CHART"
    PROVE  /\ message_parse_head(Bytes(m)).type = MSG_TYPE_CHART
           /\ message_parse_head(Bytes(m)).length = Len(Bytes(m))
           /\ ChartOf(Bytes(m)) = [from |-> m.from, to |-> m.to, msg |-> m.msg]
<1>1. m.from \in Name /\ m.to \in Name /\ m.msg \in Content16
  <2>1. m.from \in Names /\ m.to = Me /\ m.msg \in Texts
    BY DEF Incoming
  <2> QED BY <2>1, NamesAreNames, TextsAreContent
<1> DEFINE body == Chart(m.from, m.to, m.msg)
<1>2. Bytes(m) = Packet(MSG_TYPE_CHART, body)
  BY DEF Bytes
<1>3. MSG_TYPE_CHART \in 0..3
  BY DEF MSG_TYPE_CHART
<1>4. body \in Seq(Chars) /\ 12 + Len(body) < Byte * Byte * Byte * Byte
  BY <1>1, ChartType
<1> HIDE DEF body
<1>5. /\ message_parse_head(Bytes(m)) =
            [version |-> 1, type |-> MSG_TYPE_CHART, length |-> Len(Bytes(m))]
      /\ Holds(Bytes(m), Body, body)
  BY <1>2, <1>3, <1>4, HeadRead
<1>6. Bytes(m) \in Seq(Chars)
  BY <1>2, <1>3, <1>4, PacketType
<1>7. ChartOf(Bytes(m)) = [from |-> m.from, to |-> m.to, msg |-> m.msg]
  BY <1>1, <1>5, <1>6, ChartRead DEF body
<1> QED BY <1>5, <1>7

LEMMA PeerListCame ==
    ASSUME NEW m \in Incoming, m.type = "PEER_LIST"
    PROVE  /\ message_parse_head(Bytes(m)).type = MSG_TYPE_PEER_LIST
           /\ message_parse_head(Bytes(m)).length = Len(Bytes(m))
           /\ PeerListOf(Bytes(m)) = [name |-> m.name]
<1>1. m.name \in Name
  <2>1. m.name \in Names
    BY DEF Incoming
  <2> QED BY <2>1, NamesAreNames
<1> DEFINE body == PeerList(m.name)
<1>2. Bytes(m) = Packet(MSG_TYPE_PEER_LIST, body)
  BY DEF Bytes
<1>3. MSG_TYPE_PEER_LIST \in 0..3
  BY DEF MSG_TYPE_PEER_LIST
<1>4. body \in Seq(Chars) /\ 12 + Len(body) < Byte * Byte * Byte * Byte
  BY <1>1, PeerListType
<1> HIDE DEF body
<1>5. /\ message_parse_head(Bytes(m)) =
            [version |-> 1, type |-> MSG_TYPE_PEER_LIST, length |-> Len(Bytes(m))]
      /\ Holds(Bytes(m), Body, body)
  BY <1>2, <1>3, <1>4, HeadRead
<1>6. Bytes(m) \in Seq(Chars)
  BY <1>2, <1>3, <1>4, PacketType
<1>7. PeerListOf(Bytes(m)) = [name |-> m.name]
  BY <1>1, <1>5, <1>6, PeerListRead DEF body
<1> QED BY <1>5, <1>7

LEMMA RespondCame ==
    ASSUME NEW m \in Incoming, m.type = "LOGIN_RESPOND"
    PROVE  /\ message_parse_head(Bytes(m)).type = MSG_TYPE_LOGIN_RESPOND
           /\ message_parse_head(Bytes(m)).length = Len(Bytes(m))
           /\ RespondOf(Bytes(m)) = [status |-> m.status]
<1>1. m.status \in Int32
  <2>1. m.status \in 0..(Byte * Byte * Byte * Byte - 1)
    BY ChartAssumption DEF Incoming
  <2> DEFINE f == Byte * Byte * Byte * Byte
  <2>2. f \in Nat
    BY Room
  <2> HIDE DEF f
  <2>3. m.status \in Nat /\ m.status < f
    BY <2>1, <2>2 DEF f
  <2> QED BY <2>3 DEF Int32, f
<1> DEFINE body == Respond(m.status)
<1>2. Bytes(m) = Packet(MSG_TYPE_LOGIN_RESPOND, body)
  BY DEF Bytes
<1>3. MSG_TYPE_LOGIN_RESPOND \in 0..3
  BY DEF MSG_TYPE_LOGIN_RESPOND
<1>4. body \in Seq(Chars) /\ 12 + Len(body) < Byte * Byte * Byte * Byte
  BY <1>1, RespondType
<1> HIDE DEF body
<1>5. /\ message_parse_head(Bytes(m)) =
            [version |-> 1, type |-> MSG_TYPE_LOGIN_RESPOND, length |-> Len(Bytes(m))]
      /\ Holds(Bytes(m), Body, body)
  BY <1>2, <1>3, <1>4, HeadRead
<1>6. Bytes(m) \in Seq(Chars)
  BY <1>2, <1>3, <1>4, PacketType
<1>7. RespondOf(Bytes(m)) = [status |-> m.status]
  BY <1>1, <1>5, <1>6, RespondRead DEF body
<1> QED BY <1>5, <1>7

LEMMA TypesTold ==
    ASSUME NEW m \in Incoming
    PROVE  /\ m.type \in {"CHART", "PEER_LIST", "LOGIN_RESPOND"}
           /\ message_parse_head(Bytes(m)).type = MSG_TYPE_CHART <=> m.type = "CHART"
           /\ message_parse_head(Bytes(m)).type = MSG_TYPE_PEER_LIST <=> m.type = "PEER_LIST"
           /\ message_parse_head(Bytes(m)).type = MSG_TYPE_LOGIN_RESPOND
                <=> m.type = "LOGIN_RESPOND"
           /\ message_parse_head(Bytes(m)).length = Len(Bytes(m))
<1>1. m.type \in {"CHART", "PEER_LIST", "LOGIN_RESPOND"}
  BY DEF Incoming
<1> QED
  BY <1>1, ChartCame, PeerListCame, RespondCame
  DEF MSG_TYPE_CHART, MSG_TYPE_PEER_LIST, MSG_TYPE_LOGIN_RESPOND

(* A chat of the user, as it goes.                                         *)
LEMMA ChartSent ==
    ASSUME NEW name \in Names, NEW x \in Texts
    PROVE  LET c == Packet(MSG_TYPE_CHART, Chart(Me, name, x))
           IN  /\ c \in Seq(Chars)
               /\ ChartOf(c) = [from |-> Me, to |-> name, msg |-> x]
               /\ message_parse_head(c) =
                    [version |-> 1, type |-> MSG_TYPE_CHART, length |-> Len(c)]
<1> DEFINE body == Chart(Me, name, x)
           c == Packet(MSG_TYPE_CHART, body)
<1>1. Me \in Name /\ name \in Name /\ x \in Content16
  BY NamesAreNames, TextsAreContent
<1>2. MSG_TYPE_CHART \in 0..3
  BY DEF MSG_TYPE_CHART
<1>3. body \in Seq(Chars) /\ 12 + Len(body) < Byte * Byte * Byte * Byte
  BY <1>1, ChartType
<1> HIDE DEF body
<1>4. /\ message_parse_head(c) =
            [version |-> 1, type |-> MSG_TYPE_CHART, length |-> Len(c)]
      /\ Holds(c, Body, body)
  BY <1>2, <1>3, HeadRead
<1>5. c \in Seq(Chars)
  BY <1>2, <1>3, PacketType
<1>6. ChartOf(c) = [from |-> Me, to |-> name, msg |-> x]
  <2> HIDE DEF c
  <2> QED BY <1>1, <1>4, <1>5, ChartRead DEF body
<1> QED BY <1>4, <1>5, <1>6 DEF body

LEMMA LoginSent ==
    ASSUME NEW name \in Names \cup {Me}, NEW passwd \in Names \cup {Me}
    PROVE  LoginOf(Packet(MSG_TYPE_LOGIN, Login(name, passwd)))
              = [name |-> name, passwd |-> passwd]
<1> DEFINE body == Login(name, passwd)
           c == Packet(MSG_TYPE_LOGIN, body)
<1>1. name \in Name /\ passwd \in Name
  BY NamesAreNames
<1>2. MSG_TYPE_LOGIN \in 0..3
  BY DEF MSG_TYPE_LOGIN
<1>3. body \in Seq(Chars) /\ 12 + Len(body) < Byte * Byte * Byte * Byte
  BY <1>1, LoginType
<1> HIDE DEF body
<1>4. Holds(c, Body, body)
  BY <1>2, <1>3, HeadRead
<1>5. c \in Seq(Chars)
  BY <1>2, <1>3, PacketType
<1>6. LoginOf(c) = [name |-> name, passwd |-> passwd]
  <2> HIDE DEF c
  <2> QED BY <1>1, <1>4, <1>5, LoginRead DEF body
<1> QED BY <1>6 DEF body

-----------------------------------------------------------------------------
(* The invariant.                                                          *)

(* ball_add_peer_info is reached for names that are not listed only.       *)
Distinct ==
    \A i, j \in 1..Len(members) : members[i].name = members[j].name => i = j

(* Members are never removed: a window's member is always found.           *)
Known ==
    \A p \in 1..Len(panels) : \E i \in 1..Len(members) :
        members[i].name = panels[p].name

(* A chat in message_need_sended is the packet of what was typed.          *)
Sent ==
    /\ typed \in Seq([from : {Me}, to : Names, msg : Texts])
    /\ \A i \in 1..Len(typed) :
          need[i] = Packet(MSG_TYPE_CHART, Chart(Me, typed[i].to, typed[i].msg))

(* Attached, without a search for the member.                              *)
Linked ==
    \A p \in 1..Len(panels) : \A i \in 1..Len(members) :
        panels[p].open /\ members[i].name = panels[p].name =>
            \/ members[i].panel = p
            \/ \E q \in (1..Len(panels)) \ {p} : panels[q].name = panels[p].name

IInv == TypeOK /\ Distinct /\ Known /\ PanelLive /\ Linked /\ Sent

LEMMA MemberIn ==
    ASSUME TypeOK, NEW name
    PROVE  /\ Member(name) \in 0..Len(members)
           /\ Member(name) # 0 => members[Member(name)].name = name
           /\ Member(name) = 0 => \A i \in 1..Len(members) : members[i].name # name
<1> DEFINE S == {i \in 1..Len(members) : Same(members[i].name, name)}
<1>1. S \in SUBSET (1..Len(members)) /\ Len(members) \in Nat
  BY DEF TypeOK
<1>2. Member(name) = First(S)
  BY DEF Member
<1>3. \A i \in S : members[i].name = name
  BY DEF Same
<1>4. \A i \in 1..Len(members) : members[i].name = name => i \in S
  BY DEF Same
<1> HIDE DEF S
<1>5. First(S) \in S \cup {0} /\ (First(S) = 0 => S = {})
  BY <1>1, FirstIn
<1>6. First(S) \in 0..Len(members)
  <2>1. 0 \in 0..Len(members) /\ \A i \in 1..Len(members) : i \in 0..Len(members)
    BY <1>1
  <2>2. S \subseteq 1..Len(members)
    BY <1>1
  <2> QED BY <2>1, <2>2, <1>5, Zenon
<1>7. First(S) # 0 => members[First(S)].name = name
  BY <1>3, <1>5, Zenon
<1>8. First(S) = 0 => \A i \in 1..Len(members) : members[i].name # name
  BY <1>4, <1>5, Zenon
<1> QED BY <1>2, <1>6, <1>7, <1>8, Zenon

(* The member of a name is the only one that has it.                       *)
LEMMA MemberIs ==
    TypeOK /\ Distinct =>
        \A i \in 1..Len(members) : Member(members[i].name) = i
<1> SUFFICES ASSUME TypeOK, Distinct, NEW i \in 1..Len(members)
             PROVE  Member(members[i].name) = i
  OBVIOUS
<1> DEFINE name == members[i].name
           j == Member(name)
<1>1. j \in 0..Len(members) /\ (j # 0 => members[j].name = name)
      /\ (j = 0 => members[i].name # name)
  BY MemberIn
<1> HIDE DEF j
<1>2. j \in 1..Len(members) /\ members[j].name = members[i].name
  BY <1>1
<1>3. j = i
  BY <1>2 DEF Distinct
<1> QED BY <1>3 DEF j

LEMMA LinkedAttached ==
    ASSUME TypeOK, Known, Linked
    PROVE  Attached
<1> SUFFICES ASSUME NEW p \in 1..Len(panels), panels[p].open
             PROVE  \/ members[Member(panels[p].name)].panel = p
                    \/ \E q \in (1..Len(panels)) \ {p} : panels[q].name = panels[p].name
  BY DEF Attached, Windows
<1> DEFINE name == panels[p].name
           i == Member(name)
<1>1. PICK k \in 1..Len(members) : members[k].name = name
  BY DEF Known
<1>2. i \in 0..Len(members) /\ i # 0 /\ members[i].name = name
  BY <1>1, MemberIn
<1> HIDE DEF i
<1>3. i \in 1..Len(members)
  BY <1>2
<1> QED BY <1>2, <1>3 DEF Linked, i

LEMMA SenderIn ==
    ASSUME TypeOK, NEW from
    PROVE  Sender(from) \in 0..Len(members)
<1> DEFINE S == {i \in 1..Len(members) : Matches(members[i].name, from)}
<1>1. S \in SUBSET (1..Len(members)) /\ Len(members) \in Nat
  BY DEF TypeOK
<1>2. Sender(from) = First(S)
  BY DEF Sender
<1> HIDE DEF S
<1>3. First(S) \in S \cup {0}
  BY <1>1, FirstIn
<1>4. First(S) \in 0..Len(members)
  <2>1. 0 \in 0..Len(members) /\ \A i \in 1..Len(members) : i \in 0..Len(members)
    BY <1>1
  <2>2. S \subseteq 1..Len(members)
    BY <1>1
  <2> QED BY <2>1, <2>2, <1>3, Zenon
<1> QED BY <1>2, <1>4, Zenon

LEMMA Initially == Init => IInv
<1> SUFFICES ASSUME Init PROVE IInv
  OBVIOUS
<1>1. TypeOK
  BY DEF Init, TypeOK
<1>2. Distinct /\ Known /\ PanelLive /\ Linked /\ Sent
  BY DEF Init, Distinct, Known, PanelLive, Linked, Sent
<1> QED BY <1>1, <1>2 DEF IInv

-----------------------------------------------------------------------------
(* Each action keeps the types.                                            *)

Row(n, k) == [name : Names, panel : 0..n, unshow : Seq(1..k)]
Window(k) == [name : Names, open : BOOLEAN, draft : Texts, shown : Seq(1..k)]

LEMMA Wider ==
    ASSUME NEW n \in Nat, NEW k \in Nat
    PROVE  /\ Seq(1..k) \subseteq Seq(1..(k + 1))
           /\ Seq(Row(n, k)) \subseteq Seq(Row(n, k + 1))
           /\ Seq(Row(n, k)) \subseteq Seq(Row(n + 1, k))
           /\ Seq(Window(k)) \subseteq Seq(Window(k + 1))
<1>1. Seq(1..k) \subseteq Seq(1..(k + 1))
  <2>1. 1..k \subseteq 1..(k + 1)
    OBVIOUS
  <2> QED BY <2>1, SeqMonotonic
<1>2. Row(n, k) \subseteq Row(n, k + 1) /\ Window(k) \subseteq Window(k + 1)
  BY <1>1 DEF Row, Window
<1>3. Row(n, k) \subseteq Row(n + 1, k)
  <2>1. 0..n \subseteq 0..(n + 1)
    OBVIOUS
  <2> QED BY <2>1 DEF Row
<1> QED BY <1>1, <1>2, <1>3, SeqMonotonic

LEMMA Types ==
    TypeOK <=> /\ came \in Seq(Incoming)
               /\ coming \in Seq(1..Len(came)) /\ freed \in Seq(1..Len(came))
               /\ members \in Seq(Row(Len(panels), Len(came)))
               /\ panels \in Seq(Window(Len(came)))
               /\ need \in Seq(Seq(Chars)) /\ Len(need) = Len(typed)
BY DEF TypeOK, Row, Window, Came

LEMMA ArriveType ==
    ASSUME TypeOK, Arrive
    PROVE  TypeOK'
<1>1. PICK m \in Incoming : came' = Append(came, m)
  BY DEF Arrive
<1>2. /\ came \in Seq(Incoming)
      /\ coming \in Seq(1..Len(came)) /\ freed \in Seq(1..Len(came))
      /\ members \in Seq(Row(Len(panels), Len(came)))
      /\ panels \in Seq(Window(Len(came)))
      /\ need \in Seq(Seq(Chars)) /\ Len(need) = Len(typed)
  BY Types
<1>3. came' \in Seq(Incoming) /\ Len(came') = Len(came) + 1
      /\ Len(came) \in Nat /\ Len(panels) \in Nat
  BY <1>1, <1>2
<1>4. /\ coming \in Seq(1..(Len(came) + 1)) /\ freed \in Seq(1..(Len(came) + 1))
      /\ members \in Seq(Row(Len(panels), Len(came) + 1))
      /\ panels \in Seq(Window(Len(came) + 1))
  BY <1>2, <1>3, Wider
<1>5. Append(coming, Len(came) + 1) \in Seq(1..(Len(came) + 1))
  BY <1>3, <1>4
<1> QED BY <1>2, <1>3, <1>4, <1>5 DEF Arrive, TypeOK, Row, Window, Came

LEMMA ProcessType ==
    ASSUME TypeOK, Process
    PROVE  TypeOK'
<1> DEFINE k == Head(coming)
<1>1. /\ came \in Seq(Incoming)
      /\ coming \in Seq(1..Len(came)) /\ freed \in Seq(1..Len(came))
      /\ members \in Seq(Row(Len(panels), Len(came)))
      /\ panels \in Seq(Window(Len(came)))
      /\ need \in Seq(Seq(Chars)) /\ Len(need) = Len(typed)
  BY Types
<1>2. coming' = Tail(coming) /\ UNCHANGED <<came, need, typed>> /\ coming # <<>>
  BY DEF Process
<1>3. k \in 1..Len(came) /\ coming' \in Seq(1..Len(came))
  BY <1>1, <1>2
<1> DEFINE Rest == /\ freed' \in Seq(1..Len(came))
                   /\ members' \in Seq(Row(Len(panels), Len(came)))
                   /\ panels' \in Seq(Window(Len(came))) /\ Len(panels') = Len(panels)
<1>4. ASSUME Type(k) = MSG_TYPE_CHART, UpdateMessage(k)
      PROVE  Rest
  <2> DEFINE i == Sender(ChartOf(Content(k)).from)
  <2>1. i \in 0..Len(members)
    BY SenderIn
  <2>2. Append(freed, k) \in Seq(1..Len(came))
    BY <1>1, <1>3
  <2>3. CASE /\ i = 0
             /\ freed' = Append(freed, k)
             /\ UNCHANGED <<members, panels>>
    BY <2>2, <2>3, <1>1
  <2>4. CASE /\ i # 0 /\ members[i].panel # 0
             /\ panels' = [panels EXCEPT ![members[i].panel].shown = Append(@, k)]
             /\ freed' = Append(freed, k)
             /\ UNCHANGED members
    <3> DEFINE w == members[i].panel
    <3>1. w \in 1..Len(panels)
      <4> HIDE DEF i
      <4>1. members[i] \in Row(Len(panels), Len(came))
        BY <2>1, <2>4, <1>1
      <4>2. members[i].panel \in 0..Len(panels)
        BY <4>1 DEF Row
      <4>3. Len(panels) \in Nat
        BY <1>1
      <4>4. w \in 0..Len(panels) /\ w # 0
        BY <2>4, <4>2, Zenon
      <4> HIDE DEF w
      <4> QED BY <4>3, <4>4
    <3> HIDE DEF w, i
    <3>2. panels[w] \in Window(Len(came))
      BY <3>1, <1>1
    <3>3. [panels[w] EXCEPT !.shown = Append(@, k)] \in Window(Len(came))
      <4> DEFINE r == panels[w]
                 s == Append(r.shown, k)
      <4>1. r \in Window(Len(came))
        BY <3>2
      <4> HIDE DEF r
      <4>2. r.shown \in Seq(1..Len(came))
        BY <4>1 DEF Window
      <4>3. s \in Seq(1..Len(came))
        BY <4>2, <1>3, AppendProperties
      <4> HIDE DEF s
      <4>4. [r EXCEPT !.shown = s] \in Window(Len(came))
        BY <4>1, <4>3 DEF Window
      <4> QED BY <4>4 DEF r, s
    <3>4. /\ [panels EXCEPT ![w] = [panels[w] EXCEPT !.shown = Append(@, k)]]
                \in Seq(Window(Len(came)))
          /\ Len([panels EXCEPT ![w] = [panels[w] EXCEPT !.shown = Append(@, k)]])
                = Len(panels)
      BY <1>1, <3>1, <3>3, ExceptSeq
    <3> QED BY <2>2, <2>4, <3>4, <1>1 DEF w
  <2>5. CASE /\ i # 0 /\ members[i].panel = 0
             /\ members' = [members EXCEPT ![i].unshow = Append(@, k)]
             /\ UNCHANGED <<panels, freed>>
    <3> HIDE DEF i
    <3>1. i \in 1..Len(members) /\ members[i] \in Row(Len(panels), Len(came))
      BY <2>1, <2>5, <1>1
    <3>2. [members[i] EXCEPT !.unshow = Append(@, k)] \in Row(Len(panels), Len(came))
      <4> DEFINE r == members[i]
                 s == Append(r.unshow, k)
      <4>1. r \in Row(Len(panels), Len(came))
        BY <3>1
      <4> HIDE DEF r
      <4>2. r.unshow \in Seq(1..Len(came))
        BY <4>1 DEF Row
      <4>3. s \in Seq(1..Len(came))
        BY <4>2, <1>3, AppendProperties
      <4> HIDE DEF s
      <4>4. [r EXCEPT !.unshow = s] \in Row(Len(panels), Len(came))
        BY <4>1, <4>3 DEF Row
      <4> QED BY <4>4 DEF r, s
    <3>3. [members EXCEPT ![i] = [members[i] EXCEPT !.unshow = Append(@, k)]]
                \in Seq(Row(Len(panels), Len(came)))
      BY <1>1, <3>1, <3>2, ExceptSeq
    <3> QED BY <2>5, <3>3, <1>1
  <2> QED BY <1>4, <2>3, <2>4, <2>5 DEF UpdateMessage
<1>5. ASSUME Type(k) = MSG_TYPE_PEER_LIST, UpdatePeerList(k)
      PROVE  Rest
  <2> DEFINE name == PeerListOf(Content(k)).name
             row == [name |-> name, panel |-> 0, unshow |-> <<>>]
  <2>1. came[k] \in Incoming
    BY <1>1, <1>3
  <2>2. came[k].type = "PEER_LIST"
    BY <2>1, <1>5, TypesTold DEF Type, Content
  <2>3. name = came[k].name
    BY <2>1, <2>2, PeerListCame DEF Content
  <2>4. name \in Names
    BY <2>1, <2>2, <2>3 DEF Incoming
  <2> HIDE DEF name
  <2>5. row \in Row(Len(panels), Len(came))
    BY <2>4, <1>1 DEF Row
  <2> HIDE DEF row
  <2>6. Append(members, row) \in Seq(Row(Len(panels), Len(came)))
    BY <2>5, <1>1
  <2>7. Append(freed, k) \in Seq(1..Len(came))
    BY <1>1, <1>3
  <2>8. /\ members' = IF Member(name) # 0 THEN members ELSE Append(members, row)
        /\ freed' = Append(freed, k) /\ panels' = panels
    BY <1>5 DEF UpdatePeerList, name, row
  <2> QED BY <1>1, <2>6, <2>7, <2>8
<1>6. ASSUME freed' = Append(freed, k), UNCHANGED <<members, panels>>
      PROVE  Rest
  BY <1>6, <1>1, <1>3
<1>7. Rest
  BY <1>4, <1>5, <1>6 DEF Process
<1> QED BY <1>1, <1>2, <1>3, <1>7 DEF TypeOK, Row, Window, Came

LEMMA OpenPanelType ==
    ASSUME TypeOK, NEW i \in 1..Len(members), OpenPanel(i)
    PROVE  TypeOK'
<1> DEFINE j == Member(members[i].name)
           n == Len(panels) + 1
           new == [name |-> members[i].name, open |-> TRUE,
                   draft |-> <<>>, shown |-> members[j].unshow]
<1>1. /\ came \in Seq(Incoming)
      /\ coming \in Seq(1..Len(came)) /\ freed \in Seq(1..Len(came))
      /\ members \in Seq(Row(Len(panels), Len(came)))
      /\ panels \in Seq(Window(Len(came)))
      /\ need \in Seq(Seq(Chars)) /\ Len(need) = Len(typed)
  BY Types
<1>2. /\ Len(panels) \in Nat /\ Len(came) \in Nat /\ n \in Nat
      /\ members \in Seq(Row(n, Len(came)))
  BY <1>1, Wider
<1>3. j \in 1..Len(members)
  BY MemberIn
<1>4. /\ members[j] \in Row(Len(panels), Len(came))
      /\ members[i] \in Row(Len(panels), Len(came))
  BY <1>1, <1>3
<1>5. members[i].name \in Names /\ members[j].unshow \in Seq(1..Len(came))
  BY <1>4 DEF Row
<1>6. new \in Window(Len(came))
  BY <1>5, ChartAssumption DEF Window
<1>7. /\ panels' = Append(panels, new)
      /\ members' = [members EXCEPT ![j].panel = n, ![j].unshow = <<>>]
      /\ freed' = freed \o members[j].unshow
      /\ UNCHANGED <<came, coming, need, typed>>
  BY DEF OpenPanel
<1>8. panels' \in Seq(Window(Len(came))) /\ Len(panels') = n
  <2> HIDE DEF new
  <2> QED BY <1>1, <1>6, <1>7
<1>9. members' \in Seq(Row(n, Len(came)))
  <2> DEFINE r == [members[j] EXCEPT !.panel = n, !.unshow = <<>>]
             m == members[j]
  <2>1. r \in Row(n, Len(came))
    <3>1. m \in Row(Len(panels), Len(came)) /\ n \in 0..n
      BY <1>2, <1>4
    <3> HIDE DEF m, n, j
    <3>2. <<>> \in Seq(1..Len(came))
      OBVIOUS
    <3>3. [m EXCEPT !.panel = n, !.unshow = <<>>] \in Row(n, Len(came))
      BY <3>1, <3>2 DEF Row
    <3> QED BY <3>3 DEF m
  <2>2. members' = [members EXCEPT ![j] = r]
    <3> HIDE DEF j, n
    <3> QED BY <1>1, <1>3, <1>7
  <2> HIDE DEF r, n, j
  <2> QED BY <1>2, <1>3, <2>1, <2>2, ExceptSeq
<1>10. freed' \in Seq(1..Len(came))
  BY <1>1, <1>5, <1>7, ConcatProperties
<1> HIDE DEF j, n, new
<1> QED BY <1>1, <1>7, <1>8, <1>9, <1>10 DEF TypeOK, Row, Window, Came

LEMMA ClosePanelType ==
    ASSUME TypeOK, Known, NEW p \in 1..Len(panels), ClosePanel(p)
    PROVE  TypeOK'
<1> DEFINE j == Member(panels[p].name)
           w == panels[p]
           m == members[j]
<1>1. /\ came \in Seq(Incoming)
      /\ coming \in Seq(1..Len(came)) /\ freed \in Seq(1..Len(came))
      /\ members \in Seq(Row(Len(panels), Len(came)))
      /\ panels \in Seq(Window(Len(came)))
      /\ need \in Seq(Seq(Chars)) /\ Len(need) = Len(typed)
  BY Types
<1>2. j \in 1..Len(members)
  BY MemberIn DEF Known
<1>3. /\ panels' = [panels EXCEPT ![p] = [w EXCEPT !.open = FALSE]]
      /\ members' = [members EXCEPT ![j] = [m EXCEPT !.panel = 0]]
      /\ UNCHANGED <<came, coming, freed, need, typed>>
  <2> HIDE DEF j
  <2> QED BY <1>1, <1>2 DEF ClosePanel, j
<1>4. w \in Window(Len(came)) /\ m \in Row(Len(panels), Len(came))
  <2> HIDE DEF j
  <2> QED BY <1>1, <1>2
<1> HIDE DEF j, w, m
<1>5. [w EXCEPT !.open = FALSE] \in Window(Len(came))
  BY <1>4 DEF Window
<1>6. [m EXCEPT !.panel = 0] \in Row(Len(panels), Len(came))
  <2>1. 0 \in 0..Len(panels)
    BY <1>1
  <2> QED BY <1>4, <2>1 DEF Row
<1>7. panels' \in Seq(Window(Len(came))) /\ Len(panels') = Len(panels)
  BY <1>1, <1>3, <1>5, ExceptSeq
<1>8. members' \in Seq(Row(Len(panels), Len(came)))
  BY <1>1, <1>2, <1>3, <1>6, ExceptSeq
<1> QED BY <1>1, <1>3, <1>7, <1>8 DEF TypeOK, Row, Window, Came

(* The three actions that change the draft of a window.                    *)
LEMMA DraftType ==
    ASSUME TypeOK, NEW p \in 1..Len(panels), NEW x \in Texts,
           panels' = [panels EXCEPT ![p].draft = x]
    PROVE  panels' \in Seq(Window(Len(came))) /\ Len(panels') = Len(panels)
<1> DEFINE w == panels[p]
<1>1. panels \in Seq(Window(Len(came))) /\ w \in Window(Len(came))
  BY Types
<1>2. panels' = [panels EXCEPT ![p] = [w EXCEPT !.draft = x]]
  OBVIOUS
<1> HIDE DEF w
<1>3. [w EXCEPT !.draft = x] \in Window(Len(came))
  BY <1>1 DEF Window
<1> QED BY <1>1, <1>2, <1>3, ExceptSeq

LEMMA WriteType ==
    ASSUME TypeOK, NEW p \in 1..Len(panels),
           ClearMessage(p) \/ \E x \in Texts : TypeText(p, x)
    PROVE  TypeOK'
<1>1. PICK x \in Texts : panels' = [panels EXCEPT ![p].draft = x]
  BY ChartAssumption DEF ClearMessage, TypeText
<1>2. panels' \in Seq(Window(Len(came))) /\ Len(panels') = Len(panels)
  BY <1>1, DraftType
<1>3. UNCHANGED <<came, coming, members, freed, need, typed>>
  BY DEF ClearMessage, TypeText
<1> QED BY <1>2, <1>3 DEF TypeOK, Window, Came

LEMMA SendMessageType ==
    ASSUME TypeOK, Sent, NEW p \in 1..Len(panels), SendMessage(p)
    PROVE  TypeOK' /\ Sent'
<1> DEFINE w == panels[p]
           c == Packet(MSG_TYPE_CHART, Chart(Me, w.name, w.draft))
           t == [from |-> Me, to |-> w.name, msg |-> w.draft]
           Typed == [from : {Me}, to : Names, msg : Texts]
<1>1. /\ panels' = [panels EXCEPT ![p].draft = <<>>]
      /\ need' = Append(need, c) /\ typed' = Append(typed, t)
      /\ UNCHANGED <<came, coming, members, freed>>
  BY DEF SendMessage
<1>2. panels' \in Seq(Window(Len(came))) /\ Len(panels') = Len(panels)
  BY <1>1, DraftType, ChartAssumption
<1>3. w.name \in Names /\ w.draft \in Texts
  <2>1. w \in Window(Len(came))
    BY Types
  <2> HIDE DEF w
  <2> QED BY <2>1 DEF Window
<1> HIDE DEF w
<1>4. c \in Seq(Chars)
  BY <1>3, ChartSent
<1>5. t \in Typed /\ t.to = w.name /\ t.msg = w.draft
  BY <1>3
<1>6. /\ need \in Seq(Seq(Chars)) /\ typed \in Seq(Typed)
      /\ Len(need) = Len(typed) /\ Len(typed) \in Nat
  BY DEF TypeOK, Sent
<1>7. c = Packet(MSG_TYPE_CHART, Chart(Me, t.to, t.msg))
  BY <1>5
<1> HIDE DEF c, t
<1>8. /\ need' \in Seq(Seq(Chars)) /\ typed' \in Seq(Typed)
      /\ Len(need') = Len(typed) + 1 /\ Len(typed') = Len(typed) + 1
      /\ need'[Len(typed) + 1] = c /\ typed'[Len(typed) + 1] = t
      /\ \A i \in 1..Len(typed) : need'[i] = need[i] /\ typed'[i] = typed[i]
  BY <1>1, <1>4, <1>5, <1>6, AppendProperties
<1>9. TypeOK'
  BY <1>1, <1>2, <1>8 DEF TypeOK, Window, Came
<1>10. ASSUME NEW i \in 1..(Len(typed) + 1)
       PROVE  need'[i] = Packet(MSG_TYPE_CHART, Chart(Me, typed'[i].to, typed'[i].msg))
  <2>1. CASE i = Len(typed) + 1
    BY <2>1, <1>7, <1>8
  <2>2. CASE i \in 1..Len(typed)
    BY <2>2, <1>8 DEF Sent
  <2> QED BY <1>6, <2>1, <2>2
<1>11. Sent'
  BY <1>8, <1>10 DEF Sent
<1> QED BY <1>9, <1>11

-----------------------------------------------------------------------------
(* Each action keeps the links between members and windows.                *)

(* Names, and what points to what.                                         *)
Links == Distinct /\ Known /\ PanelLive /\ Linked

LEMMA Untouched ==
    ASSUME Links, members' = members, panels' = panels
    PROVE  Links'
<1>1. Distinct'
  BY DEF Links, Distinct
<1>2. Known'
  BY DEF Links, Known
<1>3. PanelLive'
  BY DEF Links, PanelLive
<1>4. Linked'
  BY DEF Links, Linked
<1> QED BY <1>1, <1>2, <1>3, <1>4 DEF Links

SameMembers ==
    /\ Len(members') = Len(members)
    /\ \A i \in 1..Len(members) :
          members'[i].name = members[i].name /\ members'[i].panel = members[i].panel

SameWindows ==
    /\ Len(panels') = Len(panels)
    /\ \A p \in 1..Len(panels) :
          panels'[p].name = panels[p].name /\ panels'[p].open = panels[p].open

LEMMA Kept ==
    ASSUME TypeOK, Links, SameMembers, SameWindows
    PROVE  Links'
<1> USE DEF SameMembers, SameWindows
<1>1. Distinct' /\ Known'
  <2>1. Distinct'
    BY DEF Links, Distinct
  <2>2. Known'
    BY DEF Links, Known
  <2> QED BY <2>1, <2>2
<1>2. PanelLive'
  <2> SUFFICES ASSUME NEW i \in 1..Len(members'), members'[i].panel # 0
               PROVE  /\ panels'[members'[i].panel].open
                      /\ panels'[members'[i].panel].name = members'[i].name
    BY DEF PanelLive
  <2>1. i \in 1..Len(members) /\ members[i].panel \in 1..Len(panels)
    <3>1. members[i] \in Row(Len(panels), Len(came)) /\ Len(panels) \in Nat
      BY Types
    <3>2. members[i].panel \in 0..Len(panels) /\ members[i].panel # 0
      BY <3>1 DEF Row
    <3> QED BY <3>1, <3>2
  <2> QED BY <2>1 DEF Links, PanelLive
<1>3. Linked'
  BY DEF Links, Linked
<1> QED BY <1>1, <1>2, <1>3 DEF Links

LEMMA ArriveLinks ==
    ASSUME IInv, Arrive PROVE Links'
<1>1. members' = members /\ panels' = panels
  BY DEF Arrive
<1> QED BY <1>1, Untouched DEF IInv, Links

LEMMA WriteLinks ==
    ASSUME IInv, NEW p \in 1..Len(panels),
           SendMessage(p) \/ ClearMessage(p) \/ \E x \in Texts : TypeText(p, x)
    PROVE  Links'
<1>1. PICK x \in Texts : panels' = [panels EXCEPT ![p].draft = x]
  BY ChartAssumption DEF SendMessage, ClearMessage, TypeText
<1>2. members' = members
  BY DEF SendMessage, ClearMessage, TypeText
<1>3. TypeOK /\ panels \in Seq(Window(Len(came)))
  BY Types DEF IInv
<1>4. Len(panels') = Len(panels)
  BY <1>1, <1>3, DraftType
<1>5. ASSUME NEW q \in 1..Len(panels)
      PROVE  panels'[q].name = panels[q].name /\ panels'[q].open = panels[q].open
  BY <1>1, <1>3 DEF Window
<1>6. SameMembers /\ SameWindows
  BY <1>2, <1>4, <1>5 DEF SameMembers, SameWindows
<1> QED BY <1>3, <1>6, Kept DEF IInv, Links

LEMMA ProcessLinks ==
    ASSUME IInv, Process PROVE Links'
<1> DEFINE k == Head(coming)
<1>1. TypeOK /\ Links
  BY DEF IInv, Links
<1>2. /\ members \in Seq(Row(Len(panels), Len(came)))
      /\ panels \in Seq(Window(Len(came)))
  BY <1>1, Types
<1>3. ASSUME UpdateMessage(k) PROVE Links'
  <2> DEFINE i == Sender(ChartOf(Content(k)).from)
  <2>1. CASE UNCHANGED <<members, panels>>
    BY <2>1, <1>1, Untouched
  <2>2. CASE /\ panels' = [panels EXCEPT ![members[i].panel].shown = Append(@, k)]
             /\ UNCHANGED members
    <3> DEFINE w == members[i].panel
    <3> HIDE DEF w
    <3>1. panels' = [panels EXCEPT ![w].shown = Append(@, k)]
      BY <2>2 DEF w
    <3>2. Len(panels') = Len(panels)
      BY <3>1, <1>2
    <3>3. ASSUME NEW q \in 1..Len(panels)
          PROVE  panels'[q].name = panels[q].name /\ panels'[q].open = panels[q].open
      BY <3>1, <1>2 DEF Window
    <3>4. SameMembers /\ SameWindows
      BY <2>2, <3>2, <3>3 DEF SameMembers, SameWindows
    <3> QED BY <1>1, <3>4, Kept
  <2>3. CASE /\ members' = [members EXCEPT ![i].unshow = Append(@, k)]
             /\ UNCHANGED panels
    <3> HIDE DEF i
    <3>1. Len(members') = Len(members)
      BY <2>3, <1>2
    <3>2. ASSUME NEW j \in 1..Len(members)
          PROVE  members'[j].name = members[j].name /\ members'[j].panel = members[j].panel
      BY <2>3, <1>2 DEF Row
    <3>3. SameMembers /\ SameWindows
      BY <2>3, <3>1, <3>2 DEF SameMembers, SameWindows
    <3> QED BY <1>1, <3>3, Kept
  <2> QED BY <1>3, <2>1, <2>2, <2>3 DEF UpdateMessage
<1>4. ASSUME UpdatePeerList(k) PROVE Links'
  <2> DEFINE name == PeerListOf(Content(k)).name
             row == [name |-> name, panel |-> 0, unshow |-> <<>>]
  <2>1. panels' = panels
    BY <1>4 DEF UpdatePeerList
  <2>2. CASE Member(name) # 0
    <3>1. members' = members
      BY <1>4, <2>2 DEF UpdatePeerList
    <3> QED BY <2>1, <3>1, <1>1, Untouched
  <2>3. CASE Member(name) = 0
    <3>1. members' = Append(members, row) /\ row.name = name /\ row.panel = 0
      BY <1>4, <2>3 DEF UpdatePeerList
    <3>2. \A i \in 1..Len(members) : members[i].name # name
      BY <1>1, <2>3, MemberIn
    <3> HIDE DEF name, row
    <3>3. /\ Len(members) \in Nat /\ Len(members') = Len(members) + 1
          /\ \A i \in 1..Len(members) : members'[i] = members[i]
          /\ members'[Len(members) + 1] = row
      BY <1>2, <3>1
    <3>4. \A i \in 1..Len(members') :
              i # Len(members) + 1 => i \in 1..Len(members) /\ members'[i] = members[i]
      BY <3>3
    <3>5. Distinct'
      BY <1>1, <3>1, <3>2, <3>3, <3>4 DEF Links, Distinct
    <3>6. Known'
      BY <1>1, <2>1, <3>3 DEF Links, Known
    <3>7. PanelLive'
      BY <1>1, <2>1, <3>1, <3>3, <3>4 DEF Links, PanelLive
    <3>8. Linked'
      <4> SUFFICES ASSUME NEW p \in 1..Len(panels), NEW i \in 1..Len(members'),
                          panels[p].open, members'[i].name = panels[p].name
                   PROVE  \/ members'[i].panel = p
                          \/ \E q \in (1..Len(panels)) \ {p} : panels[q].name = panels[p].name
        BY <2>1 DEF Linked
      <4>1. PICK j \in 1..Len(members) : members[j].name = panels[p].name
        BY <1>1 DEF Links, Known
      <4>2. i # Len(members) + 1
        BY <3>1, <3>2, <3>3, <4>1
      <4>3. i \in 1..Len(members) /\ members'[i] = members[i]
        BY <3>4, <4>2
      <4>4. Linked /\ members[i].name = panels[p].name
        BY <1>1, <4>3 DEF Links
      <4>5. \/ members[i].panel = p
            \/ \E q \in (1..Len(panels)) \ {p} : panels[q].name = panels[p].name
        BY <4>3, <4>4 DEF Linked
      <4> QED BY <4>3, <4>5
    <3> QED BY <3>5, <3>6, <3>7, <3>8 DEF Links
  <2> QED BY <2>2, <2>3
<1>5. ASSUME UNCHANGED <<members, panels>> PROVE Links'
  BY <1>5, <1>1, Untouched
<1> QED BY <1>3, <1>4, <1>5 DEF Process

LEMMA OpenPanelLinks ==
    ASSUME IInv, NEW i \in 1..Len(members), OpenPanel(i)
    PROVE  Links'
<1> DEFINE j == Member(members[i].name)
           n == Len(panels) + 1
           new == [name |-> members[i].name, open |-> TRUE,
                   draft |-> <<>>, shown |-> members[j].unshow]
<1>1. TypeOK /\ Links
  BY DEF IInv, Links
<1>2. /\ members \in Seq(Row(Len(panels), Len(came)))
      /\ panels \in Seq(Window(Len(came)))
  BY <1>1, Types
<1>3. j = i
  BY MemberIs DEF IInv
<1>4. /\ panels' = Append(panels, new)
      /\ members' = [members EXCEPT ![i].panel = n, ![i].unshow = <<>>]
  BY <1>3 DEF OpenPanel
<1>5. /\ Len(panels) \in Nat /\ Len(panels') = n
      /\ \A p \in 1..Len(panels) : panels'[p] = panels[p]
      /\ panels'[n].name = members[i].name /\ panels'[n].open
  <2>1. new.name = members[i].name /\ new.open
    OBVIOUS
  <2> HIDE DEF new, j
  <2> QED BY <1>2, <1>4, <2>1
<1> HIDE DEF new, j
<1>6. /\ Len(members') = Len(members) /\ members'[i].panel = n
      /\ \A k \in 1..Len(members) : members'[k].name = members[k].name
      /\ \A k \in 1..Len(members) : k # i => members'[k].panel = members[k].panel
  <2> HIDE DEF n
  <2> QED BY <1>2, <1>4 DEF Row
<1>7. \A p \in 1..Len(panels') : p # n => p \in 1..Len(panels)
  BY <1>5
<1>8. n \in 1..Len(panels') /\ \A p \in 1..Len(panels) : p \in 1..Len(panels') /\ p # n
  BY <1>5
<1>9. \A k \in 1..Len(members) : members[k].panel # 0 => members[k].panel \in 1..Len(panels)
  <2> TAKE k \in 1..Len(members)
  <2>1. members[k] \in Row(Len(panels), Len(came))
    BY <1>2
  <2>2. members[k].panel \in 0..Len(panels)
    BY <2>1 DEF Row
  <2> QED BY <1>5, <2>2
<1> HIDE DEF n
<1>10. Distinct'
  BY <1>1, <1>6 DEF Links, Distinct
<1>11. Known'
  <2> SUFFICES ASSUME NEW p \in 1..Len(panels')
               PROVE  \E k \in 1..Len(members) : members[k].name = panels'[p].name
    BY <1>6 DEF Known
  <2>1. CASE p = n
    BY <2>1, <1>5
  <2>2. CASE p # n
    BY <2>2, <1>1, <1>5, <1>7 DEF Links, Known
  <2> QED BY <2>1, <2>2
<1>12. PanelLive'
  BY <1>1, <1>5, <1>6, <1>9 DEF Links, PanelLive
<1>13. Linked'
  <2> SUFFICES ASSUME NEW p \in 1..Len(panels'), NEW k \in 1..Len(members),
                      panels'[p].open, members[k].name = panels'[p].name
               PROVE  \/ members'[k].panel = p
                      \/ \E q \in (1..Len(panels')) \ {p} : panels'[q].name = panels'[p].name
    BY <1>6 DEF Linked
  <2>1. CASE p = n
    <3>1. k = i
      BY <1>1, <1>5, <2>1 DEF Links, Distinct
    <3> QED BY <2>1, <3>1, <1>6
  <2>2. CASE p # n /\ k = i
    BY <2>2, <1>5, <1>8
  <2>3. CASE p # n /\ k # i
    <3>1. p \in 1..Len(panels) /\ panels[p].open /\ members[k].name = panels[p].name
      BY <2>3, <1>5, <1>7
    <3>2. CASE members[k].panel = p
      BY <3>2, <2>3, <1>6
    <3>3. CASE \E q \in (1..Len(panels)) \ {p} : panels[q].name = panels[p].name
      BY <3>1, <3>3, <1>5, <1>8
    <3> QED BY <3>1, <3>2, <3>3, <1>1 DEF Links, Linked
  <2> QED BY <2>1, <2>2, <2>3
<1> QED BY <1>10, <1>11, <1>12, <1>13 DEF Links

LEMMA ClosePanelLinks ==
    ASSUME IInv, NEW p \in 1..Len(panels), ClosePanel(p)
    PROVE  Links'
<1> DEFINE j == Member(panels[p].name)
<1>1. TypeOK /\ Links
  BY DEF IInv, Links
<1>2. /\ members \in Seq(Row(Len(panels), Len(came)))
      /\ panels \in Seq(Window(Len(came)))
  BY <1>1, Types
<1>3. j \in 1..Len(members) /\ members[j].name = panels[p].name
  <2>1. j \in 0..Len(members) /\ j # 0 /\ members[j].name = panels[p].name
    BY <1>1, MemberIn DEF Links, Known
  <2> HIDE DEF j
  <2> QED BY <2>1
<1>4. /\ panels' = [panels EXCEPT ![p].open = FALSE]
      /\ members' = [members EXCEPT ![j].panel = 0]
  BY DEF ClosePanel
<1> HIDE DEF j
<1>5. /\ Len(panels') = Len(panels)
      /\ \A q \in 1..Len(panels) : panels'[q].name = panels[q].name
      /\ \A q \in 1..Len(panels) : q # p => panels'[q].open = panels[q].open
      /\ ~panels'[p].open
  BY <1>2, <1>4 DEF Window
<1>6. /\ Len(members') = Len(members) /\ members'[j].panel = 0
      /\ \A k \in 1..Len(members) : members'[k].name = members[k].name
      /\ \A k \in 1..Len(members) : k # j => members'[k].panel = members[k].panel
  BY <1>2, <1>3, <1>4 DEF Row
<1>7. \A k \in 1..Len(members) : members[k].panel # 0 => members[k].panel \in 1..Len(panels)
  <2> TAKE k \in 1..Len(members)
  <2>1. members[k] \in Row(Len(panels), Len(came)) /\ Len(panels) \in Nat
    BY <1>2
  <2>2. members[k].panel \in 0..Len(panels)
    BY <2>1 DEF Row
  <2> QED BY <2>1, <2>2
<1>8. Distinct'
  BY <1>1, <1>6 DEF Links, Distinct
<1>9. Known'
  BY <1>1, <1>5, <1>6 DEF Links, Known
<1>10. PanelLive'
  <2> SUFFICES ASSUME NEW k \in 1..Len(members), members'[k].panel # 0
               PROVE  /\ panels'[members'[k].panel].open
                      /\ panels'[members'[k].panel].name = members[k].name
    BY <1>6 DEF PanelLive
  <2>1. k # j /\ members'[k].panel = members[k].panel
    BY <1>6
  <2>2. /\ members[k].panel \in 1..Len(panels)
        /\ panels[members[k].panel].open
        /\ panels[members[k].panel].name = members[k].name
    BY <2>1, <1>1, <1>7 DEF Links, PanelLive
  <2>3. members[k].panel # p
    BY <1>1, <1>3, <2>1, <2>2 DEF Links, Distinct
  <2> QED BY <1>5, <2>1, <2>2, <2>3
<1>11. Linked'
  <2> SUFFICES ASSUME NEW q \in 1..Len(panels), NEW k \in 1..Len(members),
                      panels'[q].open, members[k].name = panels[q].name
               PROVE  \/ members'[k].panel = q
                      \/ \E r \in (1..Len(panels)) \ {q} : panels[r].name = panels[q].name
    BY <1>5, <1>6 DEF Linked
  <2>1. q # p /\ panels[q].open
    BY <1>5
  <2>2. CASE k = j
    BY <2>1, <2>2, <1>3
  <2>3. CASE k # j
    BY <2>1, <2>3, <1>1, <1>6 DEF Links, Linked
  <2> QED BY <2>2, <2>3
<1> QED BY <1>8, <1>9, <1>10, <1>11 DEF Links

-----------------------------------------------------------------------------
(* The theorems.                                                           *)

(* What was typed and what was queued change together, in SendMessage.     *)
LEMMA SentKept ==
    ASSUME Sent, UNCHANGED <<need, typed>>
    PROVE  Sent'
BY DEF Sent

LEMMA Inductive == IInv /\ [Next]_vars => IInv'
<1> SUFFICES ASSUME IInv, [Next]_vars PROVE IInv'
  OBVIOUS
<1>1. TypeOK /\ Known /\ Sent
  BY DEF IInv
<1>2. CASE Arrive
  <2>1. TypeOK' /\ Links'
    BY <1>1, <1>2, ArriveType, ArriveLinks
  <2>2. Sent'
    BY <1>1, <1>2, SentKept DEF Arrive
  <2> QED BY <2>1, <2>2 DEF IInv, Links
<1>3. CASE Process
  <2>1. TypeOK' /\ Links'
    BY <1>1, <1>3, ProcessType, ProcessLinks
  <2>2. Sent'
    BY <1>1, <1>3, SentKept DEF Process
  <2> QED BY <2>1, <2>2 DEF IInv, Links
<1>4. ASSUME NEW i \in 1..Len(members), OpenPanel(i)
      PROVE  IInv'
  <2>1. TypeOK' /\ Links'
    BY <1>1, <1>4, OpenPanelType, OpenPanelLinks
  <2>2. Sent'
    BY <1>1, <1>4, SentKept DEF OpenPanel
  <2> QED BY <2>1, <2>2 DEF IInv, Links
<1>5. ASSUME NEW p \in 1..Len(panels), ClosePanel(p)
      PROVE  IInv'
  <2>1. TypeOK' /\ Links'
    BY <1>1, <1>5, ClosePanelType, ClosePanelLinks
  <2>2. Sent'
    BY <1>1, <1>5, SentKept DEF ClosePanel
  <2> QED BY <2>1, <2>2 DEF IInv, Links
<1>6. ASSUME NEW p \in 1..Len(panels),
             ClearMessage(p) \/ \E x \in Texts : TypeText(p, x)
      PROVE  IInv'
  <2>1. TypeOK' /\ Links'
    BY <1>1, <1>6, WriteType, WriteLinks
  <2>2. Sent'
    BY <1>1, <1>6, SentKept DEF ClearMessage, TypeText
  <2> QED BY <2>1, <2>2 DEF IInv, Links
<1>7. ASSUME NEW p \in 1..Len(panels), SendMessage(p)
      PROVE  IInv'
  <2>1. TypeOK' /\ Links' /\ Sent'
    BY <1>1, <1>7, SendMessageType, WriteLinks
  <2> QED BY <2>1 DEF IInv, Links
<1>8. CASE UNCHANGED vars
  <2>1. UNCHANGED <<came, coming, members, panels, freed, need, typed>>
    BY <1>8 DEF vars
  <2>2. TypeOK'
    BY <2>1, <1>1 DEF TypeOK, Came
  <2>3. Sent'
    BY <2>1, <1>1, SentKept
  <2>4. Links'
    BY <2>1, Untouched DEF IInv, Links
  <2> QED BY <2>2, <2>3, <2>4 DEF IInv, Links
<1> QED BY <1>2, <1>3, <1>4, <1>5, <1>6, <1>7, <1>8 DEF Next

THEOREM Invariance == Spec => []IInv
<1>1. Init => IInv
  BY Initially
<1>2. IInv /\ [Next]_vars => IInv'
  BY Inductive
<1> QED BY <1>1, <1>2, PTL DEF Spec

(* Every variable has its type; in particular a packet that is taken for a *)
(* row of the member list was sent as one, and holds a name.               *)
THEOREM TypeCorrect == Spec => []TypeOK
<1>1. IInv => TypeOK
  BY DEF IInv
<1> QED BY <1>1, Invariance, PTL

(* A member never points to a window that has been destroyed, or to one of *)
(* another name (gui_client.c:305).                                        *)
THEOREM PanelLiveCorrect == Spec => []PanelLive
<1>1. IInv => PanelLive
  BY DEF IInv
<1> QED BY <1>1, Invariance, PTL

(* An open window is the one its member points to, unless there was        *)
(* another window of the same name (chart_panel.c:128).                    *)
THEOREM AttachedCorrect == Spec => []Attached
<1>1. IInv => Attached
  BY LinkedAttached DEF IInv
<1> QED BY <1>1, Invariance, PTL

LEMMA Reads == IInv => ReadAsWritten
<1> SUFFICES ASSUME IInv PROVE ReadAsWritten
  OBVIOUS
<1>1. ASSUME NEW i \in 1..Len(typed)
      PROVE  /\ ChartOf(need[i]) = typed[i]
             /\ message_parse_head(need[i]) =
                  [version |-> 1, type |-> MSG_TYPE_CHART, length |-> Len(need[i])]
  <2>1. /\ typed[i] \in [from : {Me}, to : Names, msg : Texts]
        /\ need[i] = Packet(MSG_TYPE_CHART, Chart(Me, typed[i].to, typed[i].msg))
    <3>1. Sent
      BY DEF IInv
    <3>2. typed \in Seq([from : {Me}, to : Names, msg : Texts])
      BY <3>1 DEF Sent
    <3>3. typed[i] \in [from : {Me}, to : Names, msg : Texts]
      BY <3>2, ElementOfSeq
    <3> QED BY <3>1, <3>3 DEF Sent
  <2>2. /\ typed[i].to \in Names /\ typed[i].msg \in Texts
        /\ typed[i] = [from |-> Me, to |-> typed[i].to, msg |-> typed[i].msg]
    BY <2>1
  <2> QED BY <2>1, <2>2, ChartSent
<1>2. ASSUME NEW k \in 1..Len(came)
      PROVE  /\ message_parse_head(Content(k)).length = Len(Content(k))
             /\ Type(k) = MSG_TYPE_CHART =>
                  ChartOf(Content(k)) =
                    [from |-> came[k].from, to |-> came[k].to, msg |-> came[k].msg]
             /\ Type(k) = MSG_TYPE_PEER_LIST =>
                  PeerListOf(Content(k)) = [name |-> came[k].name]
             /\ Type(k) = MSG_TYPE_LOGIN_RESPOND =>
                  RespondOf(Content(k)) = [status |-> came[k].status]
  <2>1. came[k] \in Incoming
    BY DEF IInv, TypeOK
  <2> QED BY <2>1, TypesTold, ChartCame, PeerListCame, RespondCame DEF Content, Type
<1> QED BY <1>1, <1>2, LoginSent DEF ReadAsWritten, Came

(* What is read in a packet is what was written into it, and the length in *)
(* its head is its length: the codec of the sender and that of the         *)
(* receiver agree, for all names below half of Byte and all texts below    *)
(* its square (ball.c:116, :184, :208, gui_client.c:219, server.c:278).    *)
THEOREM ReadAsWrittenCorrect == Spec => []ReadAsWritten
<1>1. IInv => ReadAsWritten
  BY Reads
<1> QED BY <1>1, Invariance, PTL

-----------------------------------------------------------------------------
(* Where a packet goes when it is processed.                               *)

Keeps(k) ==
    /\ freed' = Append(freed, k) /\ UNCHANGED <<members, panels>>
    /\ came[k].type = "PEER_LIST" => Member(came[k].name) # 0

Lists(k) ==
    /\ came[k].type = "PEER_LIST" /\ Member(came[k].name) = 0
    /\ members' = Append(members, [name |-> came[k].name, panel |-> 0, unshow |-> <<>>])
    /\ freed' = Append(freed, k) /\ panels' = panels

Shows(k, i) ==
    /\ came[k].type = "CHART" /\ Sender(came[k].from) = i /\ members[i].panel # 0
    /\ panels' = [panels EXCEPT ![members[i].panel].shown = Append(@, k)]
    /\ freed' = Append(freed, k) /\ members' = members

Waits(k, i) ==
    /\ came[k].type = "CHART" /\ Sender(came[k].from) = i /\ members[i].panel = 0
    /\ members' = [members EXCEPT ![i].unshow = Append(@, k)]
    /\ UNCHANGED <<panels, freed>>

LEMMA ProcessGoes ==
    ASSUME TypeOK, Process, NEW k, k = Head(coming)
    PROVE  /\ k \in 1..Len(came) /\ came[k] \in Incoming
           /\ coming # <<>> /\ coming' = Tail(coming) /\ came' = came
           /\ \/ Keeps(k) \/ Lists(k)
              \/ \E i \in 1..Len(members) : Shows(k, i) \/ Waits(k, i)
<1>1. came \in Seq(Incoming) /\ coming \in Seq(1..Len(came))
  BY Types
<1>2. coming # <<>> /\ coming' = Tail(coming) /\ came' = came
  BY DEF Process
<1>3. k \in 1..Len(came) /\ came[k] \in Incoming
  <2>1. k \in 1..Len(came)
    BY <1>1, <1>2
  <2> QED BY <1>1, <2>1
<1>4. ASSUME Type(k) = MSG_TYPE_CHART, UpdateMessage(k)
      PROVE  Keeps(k) \/ \E i \in 1..Len(members) : Shows(k, i) \/ Waits(k, i)
  <2>1. came[k].type = "CHART"
    BY <1>3, <1>4, TypesTold DEF Type, Content
  <2>2. ChartOf(Content(k)).from = came[k].from
    BY <1>3, <2>1, ChartCame DEF Content
  <2> DEFINE i == Sender(came[k].from)
  <2>3. i \in 0..Len(members) /\ Len(members) \in Nat
    BY SenderIn, Types
  <2>4. \/ i = 0 /\ freed' = Append(freed, k) /\ UNCHANGED <<members, panels>>
        \/ i # 0 /\ Shows(k, i)
        \/ i # 0 /\ Waits(k, i)
    BY <1>4, <2>1, <2>2 DEF UpdateMessage, Shows, Waits
  <2> HIDE DEF i
  <2>5. i # 0 => i \in 1..Len(members)
    BY <2>3
  <2> QED BY <2>1, <2>4, <2>5 DEF Keeps
<1>5. ASSUME Type(k) = MSG_TYPE_PEER_LIST, UpdatePeerList(k)
      PROVE  Keeps(k) \/ Lists(k)
  <2>1. came[k].type = "PEER_LIST"
    BY <1>3, <1>5, TypesTold DEF Type, Content
  <2>2. PeerListOf(Content(k)).name = came[k].name
    BY <1>3, <2>1, PeerListCame DEF Content
  <2> QED BY <1>5, <2>1, <2>2 DEF UpdatePeerList, Keeps, Lists
<1>6. ASSUME Type(k) \notin {MSG_TYPE_CHART, MSG_TYPE_PEER_LIST},
             freed' = Append(freed, k), UNCHANGED <<members, panels>>
      PROVE  Keeps(k)
  <2>1. came[k].type # "PEER_LIST"
    BY <1>3, <1>6, TypesTold DEF Type, Content
  <2> QED BY <1>6, <2>1 DEF Keeps
<1>7. Keeps(k) \/ Lists(k) \/ \E i \in 1..Len(members) : Shows(k, i) \/ Waits(k, i)
  BY <1>4, <1>5, <1>6 DEF Process
<1> QED BY <1>2, <1>3, <1>7

LEMMA OpenPanelIs ==
    ASSUME IInv, NEW i \in 1..Len(members), OpenPanel(i)
    PROVE  /\ panels' = Append(panels, [name |-> members[i].name, open |-> TRUE,
                                        draft |-> <<>>, shown |-> members[i].unshow])
           /\ members' = [members EXCEPT ![i].panel = Len(panels) + 1, ![i].unshow = <<>>]
           /\ freed' = freed \o members[i].unshow
           /\ UNCHANGED <<came, coming>>
<1>1. Member(members[i].name) = i
  BY MemberIs DEF IInv
<1> QED BY <1>1 DEF OpenPanel

-----------------------------------------------------------------------------
(* Packets are processed in the order in which they come.                  *)

Done == Len(came) - Len(coming)

Queued ==
    /\ Len(coming) <= Len(came)
    /\ \A j \in 1..Len(coming) : coming[j] = Done + j

LEMMA QueuedIs ==
    ASSUME TypeOK, Queued
    PROVE  /\ Done \in Nat /\ Done <= Len(came) /\ Len(came) \in Nat
           /\ \A k \in 1..Len(came) : k \in ToSet(coming) <=> k > Done
           /\ coming # <<>> => Head(coming) = Done + 1
<1>1. /\ Len(came) \in Nat /\ Len(coming) \in Nat /\ DOMAIN coming = 1..Len(coming)
      /\ Len(coming) <= Len(came) /\ coming \in Seq(1..Len(came))
  BY Types, LenProperties DEF Queued
<1>2. Done \in Nat /\ Done <= Len(came) /\ Len(coming) = Len(came) - Done
  BY <1>1 DEF Done
<1>3. ASSUME NEW k \in 1..Len(came), k \in ToSet(coming)
      PROVE  k > Done
  <2>1. PICK j \in 1..Len(coming) : coming[j] = k
    BY <1>1, <1>3 DEF ToSet
  <2>2. k = Done + j
    BY <2>1 DEF Queued
  <2> QED BY <1>2, <2>2
<1>4. ASSUME NEW k \in 1..Len(came), k > Done
      PROVE  k \in ToSet(coming)
  <2> DEFINE j == k - Done
  <2>1. j \in 1..Len(coming) /\ k = Done + j
    BY <1>1, <1>2, <1>4
  <2> HIDE DEF j
  <2>2. coming[j] = k
    BY <2>1 DEF Queued
  <2> QED BY <1>1, <2>1, <2>2 DEF ToSet
<1>5. ASSUME coming # <<>> PROVE Head(coming) = Done + 1
  <2>1. Head(coming) = coming[1] /\ 1 \in 1..Len(coming)
    BY <1>1, <1>5
  <2> QED BY <2>1 DEF Queued
<1> QED BY <1>1, <1>2, <1>3, <1>4, <1>5

LEMMA ArriveQueued ==
    ASSUME TypeOK, Queued, Arrive
    PROVE  Queued' /\ Done' = Done /\ Len(came') = Len(came) + 1
           /\ \A k \in 1..Len(came) : came'[k] = came[k]
<1>1. came \in Seq(Incoming) /\ coming \in Seq(1..Len(came)) /\ Len(came) \in Nat /\ Len(coming) \in Nat
      /\ Done \in Nat
  BY Types, QueuedIs
<1>2. PICK m \in Incoming : came' = Append(came, m)
  BY DEF Arrive
<1>3. Len(came') = Len(came) + 1 /\ \A k \in 1..Len(came) : came'[k] = came[k]
  BY <1>1, <1>2
<1>4. /\ Len(coming') = Len(coming) + 1 /\ coming'[Len(coming) + 1] = Len(came) + 1
      /\ \A j \in 1..Len(coming) : coming'[j] = coming[j]
  <2>1. coming' = Append(coming, Len(came) + 1)
    BY DEF Arrive
  <2>2. coming \in Seq(Nat) /\ Len(came) + 1 \in Nat
    BY <1>1, SeqMonotonic
  <2> QED BY <2>1, <2>2, AppendProperties
<1>5. Done' = Done /\ Done = Len(came) - Len(coming)
  BY <1>1, <1>3, <1>4 DEF Done
<1>6. \A j \in 1..(Len(coming) + 1) : coming'[j] = Done + j
  <2> TAKE j \in 1..(Len(coming) + 1)
  <2>1. CASE j = Len(coming) + 1
    BY <2>1, <1>1, <1>4, <1>5
  <2>2. CASE j \in 1..Len(coming)
    BY <2>2, <1>4 DEF Queued
  <2> QED BY <1>1, <2>1, <2>2
<1> QED BY <1>1, <1>3, <1>4, <1>5, <1>6 DEF Queued

LEMMA ProcessQueued ==
    ASSUME TypeOK, Queued, coming # <<>>, coming' = Tail(coming), came' = came
    PROVE  Queued' /\ Done' = Done + 1 /\ Head(coming) = Done + 1
<1>1. coming \in Seq(1..Len(came)) /\ Len(came) \in Nat /\ Len(coming) \in Nat
      /\ Done \in Nat
  BY Types, QueuedIs
<1>2. /\ Len(coming') = Len(coming) - 1 /\ Len(coming) > 0
      /\ \A j \in 1..(Len(coming) - 1) : coming'[j] = coming[j + 1]
  BY <1>1
<1>3. Done' = Done + 1 /\ Done = Len(came) - Len(coming)
  BY <1>1, <1>2 DEF Done
<1>4. \A j \in 1..(Len(coming) - 1) : coming'[j] = Done + 1 + j
  <2> TAKE j \in 1..(Len(coming) - 1)
  <2> DEFINE i == j + 1
  <2>1. i \in 1..Len(coming) /\ i = j + 1
    BY <1>1, <1>2
  <2>2. coming'[j] = coming[i]
    BY <1>2
  <2> HIDE DEF i
  <2>3. coming[i] = Done + i
    BY <2>1 DEF Queued
  <2> QED BY <1>1, <2>1, <2>2, <2>3
<1>5. Head(coming) = Done + 1
  BY QueuedIs
<1>6. Queued'
  BY <1>1, <1>2, <1>3, <1>4 DEF Queued
<1> QED BY <1>3, <1>5, <1>6
-----------------------------------------------------------------------------
(* The chats with a member.                                                *)

(* The window of a member is the last of its name, and nothing waits.      *)
Latest ==
    \A i \in 1..Len(members) : members[i].panel # 0 =>
        /\ members[i].unshow = <<>>
        /\ \A p \in 1..Len(panels) : panels[p].name = members[i].name => p <= members[i].panel

LEMMA ChatsIn ==
    ASSUME TypeOK, NEW i \in 1..Len(members), NEW p \in Shelves
    PROVE  ChatsWith(i, p) \in Seq(1..Len(came)) /\ Len(ChatsWith(i, p)) \in Nat
<1>1. /\ members[i] \in Row(Len(panels), Len(came))
      /\ p # Len(panels) + 1 => panels[p] \in Window(Len(came))
  <2>1. /\ members \in Seq(Row(Len(panels), Len(came)))
        /\ panels \in Seq(Window(Len(came))) /\ Len(panels) \in Nat
    BY Types
  <2>2. p # Len(panels) + 1 => p \in 1..Len(panels)
    BY <2>1 DEF Shelves
  <2> QED BY <2>1, <2>2
<1>2. members[i].unshow \in Seq(1..Len(came))
  BY <1>1 DEF Row
<1>3. p # Len(panels) + 1 => panels[p].shown \in Seq(1..Len(came))
  BY <1>1 DEF Window
<1>4. <<>> \in Seq(1..Len(came))
  OBVIOUS
<1>5. ChatsWith(i, p) \in Seq(1..Len(came))
  BY <1>2, <1>3, <1>4, Zenon DEF ChatsWith
<1> QED BY <1>5

(* Nothing changes for any member.                                         *)
SameChats ==
    /\ Shelves' = Shelves /\ Len(members') = Len(members)
    /\ \A i \in 1..Len(members) : members'[i].name = members[i].name
    /\ \A i \in 1..Len(members) : \A p \in Shelves : ChatsWith(i, p)' = ChatsWith(i, p)

(* Chat k is added at shelf w, the last one of member i with anything.     *)
Adds(k, i, w) ==
    /\ Shelves' = Shelves /\ Len(members') = Len(members)
    /\ \A j \in 1..Len(members) : members'[j].name = members[j].name
    /\ w \in Shelves /\ \A p \in Shelves : p > w => ChatsWith(i, p) = <<>>
    /\ ChatsWith(i, w)' = Append(ChatsWith(i, w), k)
    /\ \A j \in 1..Len(members) : \A p \in Shelves :
          j # i \/ p # w => ChatsWith(j, p)' = ChatsWith(j, p)

LEMMA ShowsAdds ==
    ASSUME IInv, Latest, NEW k, NEW i \in 1..Len(members), Shows(k, i)
    PROVE  (\E w \in Shelves : Adds(k, i, w)) /\ Latest'
<1>1. /\ members \in Seq(Row(Len(panels), Len(came)))
      /\ panels \in Seq(Window(Len(came)))
      /\ Len(panels) \in Nat
  BY Types DEF IInv
<1>0. PICK w : w = members[i].panel
  OBVIOUS
<1>2. w # 0 /\ panels' = [panels EXCEPT ![w].shown = Append(@, k)] /\ members' = members
  BY <1>0 DEF Shows
<1>3. w \in 1..Len(panels)
  <2>1. members[i] \in Row(Len(panels), Len(came))
    BY <1>1
  <2>2. w \in 0..Len(panels)
    BY <1>0, <2>1 DEF Row
  <2> QED BY <1>1, <1>2, <2>2
<1>4. panels[w].name = members[i].name /\ members[i].unshow = <<>>
      /\ \A p \in 1..Len(panels) : panels[p].name = members[i].name => p <= w
  BY <1>0, <1>2 DEF IInv, PanelLive, Latest
<1>5. /\ Len(panels') = Len(panels)
      /\ \A p \in 1..Len(panels) : panels'[p].name = panels[p].name
      /\ \A p \in 1..Len(panels) : p # w => panels'[p].shown = panels[p].shown
      /\ panels'[w].shown = Append(panels[w].shown, k)
  BY <1>1, <1>2, <1>3 DEF Window
<1>6. Shelves' = Shelves /\ w \in Shelves
      /\ \A p \in Shelves : p # Len(panels) + 1 => p \in 1..Len(panels)
  BY <1>1, <1>3, <1>5 DEF Shelves
<1>7. w # Len(panels) + 1
  BY <1>1, <1>3
<1>8. ChatsWith(i, w)' = Append(ChatsWith(i, w), k)
  BY <1>2, <1>3, <1>4, <1>5, <1>7 DEF ChatsWith
<1>9. ASSUME NEW p \in Shelves, p > w PROVE ChatsWith(i, p) = <<>>
  <2>1. CASE p = Len(panels) + 1
    BY <2>1, <1>4 DEF ChatsWith
  <2>2. CASE p # Len(panels) + 1
    <3>1. p \in 1..Len(panels)
      BY <2>2, <1>6
    <3>2. ~(p <= w)
      BY <1>3, <1>9, <3>1
    <3>3. panels[p].name # members[i].name
      BY <1>4, <3>1, <3>2
    <3> QED BY <2>2, <3>3 DEF ChatsWith
  <2> QED BY <2>1, <2>2
<1>10. ASSUME NEW j \in 1..Len(members), NEW p \in Shelves, j # i \/ p # w
       PROVE  ChatsWith(j, p)' = ChatsWith(j, p)
  <2>1. CASE p = Len(panels) + 1
    BY <2>1, <1>2, <1>5 DEF ChatsWith
  <2>2. CASE p # Len(panels) + 1 /\ p # w
    BY <2>2, <1>2, <1>5, <1>6 DEF ChatsWith
  <2>3. CASE p # Len(panels) + 1 /\ p = w
    <3>1. members[j].name # members[i].name
      BY <1>10, <2>3 DEF IInv, Distinct
    <3>2. p \in 1..Len(panels) /\ panels'[p].name # members'[j].name /\ panels[p].name # members[j].name
      BY <3>1, <2>3, <1>2, <1>3, <1>4, <1>5
    <3> QED BY <2>3, <3>2, <1>5 DEF ChatsWith
  <2> QED BY <2>1, <2>2, <2>3
<1>11. Latest'
  BY <1>2, <1>5 DEF Latest
<1> QED BY <1>2, <1>6, <1>8, <1>9, <1>10, <1>11 DEF Adds

LEMMA WaitsAdds ==
    ASSUME IInv, Latest, NEW k, NEW i \in 1..Len(members), Waits(k, i)
    PROVE  (\E w \in Shelves : Adds(k, i, w)) /\ Latest'
<1>1. /\ members \in Seq(Row(Len(panels), Len(came)))
      /\ Len(panels) \in Nat
  BY Types DEF IInv
<1>2. /\ members[i].panel = 0 /\ panels' = panels
      /\ members' = [members EXCEPT ![i].unshow = Append(@, k)]
  BY DEF Waits
<1>3. /\ Len(members') = Len(members)
      /\ members'[i].unshow = Append(members[i].unshow, k)
      /\ \A j \in 1..Len(members) :
            members'[j].name = members[j].name /\ members'[j].panel = members[j].panel
      /\ \A j \in 1..Len(members) : j # i => members'[j].unshow = members[j].unshow
  BY <1>1, <1>2 DEF Row
<1>0. PICK w : w = Len(panels) + 1
  OBVIOUS
<1>4. Shelves' = Shelves /\ w \in Shelves /\ \A p \in Shelves : ~(p > w)
  BY <1>0, <1>1, <1>2 DEF Shelves
<1>5. ChatsWith(i, w)' = Append(ChatsWith(i, w), k)
  BY <1>0, <1>2, <1>3 DEF ChatsWith
<1>6. ASSUME NEW j \in 1..Len(members), NEW p \in Shelves, j # i \/ p # w
      PROVE  ChatsWith(j, p)' = ChatsWith(j, p)
  BY <1>0, <1>2, <1>3, <1>6 DEF ChatsWith
<1>7. Latest'
  BY <1>2, <1>3 DEF Latest
<1> QED BY <1>3, <1>4, <1>5, <1>6, <1>7 DEF Adds

(* What waits for a window is shown in the new window n.                   *)
Opens(i, n) ==
    /\ n \in Nat /\ Shelves = 1..n /\ n \in Shelves /\ Shelves' = 1..(n + 1)
    /\ Len(members') = Len(members)
    /\ \A j \in 1..Len(members) : members'[j].name = members[j].name
    /\ \A j \in 1..Len(members) : \A p \in 1..n :
          p < n => ChatsWith(j, p)' = ChatsWith(j, p)
    /\ ChatsWith(i, n)' = ChatsWith(i, n) /\ ChatsWith(i, n + 1)' = <<>>
    /\ \A j \in 1..Len(members) : j # i =>
          ChatsWith(j, n)' = <<>> /\ ChatsWith(j, n + 1)' = ChatsWith(j, n)

(* There is a new member, without chats.                                   *)
NewMember(n, name) ==
    /\ n = Len(members) + 1 /\ Shelves' = Shelves /\ Len(members') = n
    /\ members'[n].name = name
    /\ \A i \in 1..Len(members) : members'[i].name = members[i].name
    /\ \A p \in Shelves : ChatsWith(n, p)' = <<>>
    /\ \A i \in 1..Len(members) : \A p \in Shelves : ChatsWith(i, p)' = ChatsWith(i, p)

LEMMA OpenPanelOpens ==
    ASSUME IInv, Latest, NEW i \in 1..Len(members), OpenPanel(i)
    PROVE  (\E n \in Nat : Opens(i, n)) /\ Latest'
<1>1. /\ members \in Seq(Row(Len(panels), Len(came)))
      /\ panels \in Seq(Window(Len(came)))
      /\ Len(panels) \in Nat
  BY Types DEF IInv
<1>2. PICK n \in Nat : n = Len(panels) + 1
  BY <1>1
<1> DEFINE new == [name |-> members[i].name, open |-> TRUE,
                   draft |-> <<>>, shown |-> members[i].unshow]
<1>3. /\ panels' = Append(panels, new)
      /\ members' = [members EXCEPT ![i].panel = n, ![i].unshow = <<>>]
  BY <1>2, OpenPanelIs
<1>4. new.name = members[i].name /\ new.shown = members[i].unshow
  OBVIOUS
<1> HIDE DEF new
<1>5. /\ Len(panels') = n /\ panels'[n] = new
      /\ \A p \in 1..Len(panels) : panels'[p] = panels[p]
  BY <1>1, <1>2, <1>3
<1>6. /\ Len(members') = Len(members)
      /\ members'[i].panel = n /\ members'[i].unshow = <<>>
      /\ \A j \in 1..Len(members) : members'[j].name = members[j].name
      /\ \A j \in 1..Len(members) : j # i =>
            members'[j].unshow = members[j].unshow /\ members'[j].panel = members[j].panel
  <2> DEFINE r == [members[i] EXCEPT !.panel = n, !.unshow = <<>>]
  <2>1. members' = [members EXCEPT ![i] = r]
    BY <1>1, <1>3
  <2>2. r.panel = n /\ r.unshow = <<>> /\ r.name = members[i].name
    <3>1. members[i] \in Row(Len(panels), Len(came))
      BY <1>1
    <3> QED BY <3>1 DEF Row
  <2> HIDE DEF r
  <2>3. /\ Len(members') = Len(members) /\ members'[i] = r
        /\ \A j \in 1..Len(members) : j # i => members'[j] = members[j]
    BY <1>1, <2>1
  <2> QED BY <2>2, <2>3
<1>7. Shelves = 1..n /\ n \in Shelves /\ Shelves' = 1..(n + 1)
  BY <1>2, <1>5 DEF Shelves
<1>8. ASSUME NEW j \in 1..Len(members), NEW p \in 1..n, p < n
      PROVE  ChatsWith(j, p)' = ChatsWith(j, p)
  <2>1. p \in 1..Len(panels) /\ p # Len(panels) + 1 /\ p # n + 1
    BY <1>1, <1>2, <1>8
  <2> QED BY <2>1, <1>5, <1>6 DEF ChatsWith
<1>9. n # n + 1
  OBVIOUS
<1>10. ChatsWith(i, n)' = ChatsWith(i, n)
  BY <1>2, <1>4, <1>5, <1>6, <1>9 DEF ChatsWith
<1>11. \A j \in 1..Len(members) : ChatsWith(j, n + 1)' = members'[j].unshow
  BY <1>5 DEF ChatsWith
<1>12. \A j \in 1..Len(members) : ChatsWith(j, n) = members[j].unshow
  BY <1>2 DEF ChatsWith
<1>13. ASSUME NEW j \in 1..Len(members), j # i
       PROVE  ChatsWith(j, n)' = <<>> /\ ChatsWith(j, n + 1)' = ChatsWith(j, n)
  <2>1. members[j].name # members[i].name
    BY <1>13 DEF IInv, Distinct
  <2>2. panels'[n].name # members'[j].name
    BY <2>1, <1>4, <1>5, <1>6
  <2>3. ChatsWith(j, n)' = <<>>
    BY <2>2, <1>5, <1>9 DEF ChatsWith
  <2> QED BY <2>3, <1>6, <1>11, <1>12, <1>13
<1>14. Opens(i, n)
  BY <1>6, <1>7, <1>8, <1>10, <1>11, <1>13 DEF Opens
<1>15. Latest'
  <2> SUFFICES ASSUME NEW j \in 1..Len(members), members'[j].panel # 0
               PROVE  /\ members'[j].unshow = <<>>
                      /\ \A p \in 1..n : panels'[p].name = members'[j].name => p <= members'[j].panel
    BY <1>5, <1>6 DEF Latest
  <2>1. CASE j = i
    BY <2>1, <1>6
  <2>2. CASE j # i
    <3>1. /\ members[j].panel # 0 /\ members'[j].panel = members[j].panel
          /\ members'[j].unshow = <<>>
      BY <2>2, <1>6 DEF Latest
    <3> SUFFICES ASSUME NEW p \in 1..n, panels'[p].name = members[j].name
                 PROVE  p <= members[j].panel
      BY <3>1, <1>6
    <3>2. p # n
      BY <2>2, <1>4, <1>5 DEF IInv, Distinct
    <3>3. p \in 1..Len(panels) /\ panels[p].name = members[j].name
      BY <3>2, <1>1, <1>2, <1>5
    <3> QED BY <3>1, <3>3 DEF Latest
  <2> QED BY <2>1, <2>2
<1> QED BY <1>14, <1>15

LEMMA ListsNew ==
    ASSUME IInv, Latest, NEW k \in 1..Len(came), Lists(k)
    PROVE  (\E n \in Nat : NewMember(n, came[k].name)) /\ Latest'
<1>1. /\ members \in Seq(Row(Len(panels), Len(came)))
      /\ Len(panels) \in Nat /\ Len(members) \in Nat /\ TypeOK
  BY Types DEF IInv
<1> DEFINE row == [name |-> came[k].name, panel |-> 0, unshow |-> <<>>]
<1>2. members' = Append(members, row) /\ panels' = panels /\ Member(came[k].name) = 0
  BY DEF Lists
<1>3. row.name = came[k].name /\ row.panel = 0 /\ row.unshow = <<>>
  OBVIOUS
<1> HIDE DEF row
<1>4. PICK n \in Nat : n = Len(members) + 1
  BY <1>1
<1>5. /\ Len(members') = n /\ members'[n] = row
      /\ \A i \in 1..Len(members) : members'[i] = members[i]
  BY <1>1, <1>2, <1>4
<1>6. ASSUME NEW p \in 1..Len(panels) PROVE panels[p].name # came[k].name
  <2>1. PICK i \in 1..Len(members) : members[i].name = panels[p].name
    BY DEF IInv, Known
  <2>2. members[i].name # came[k].name
    BY <1>1, <1>2, MemberIn
  <2> QED BY <2>1, <2>2
<1>7. Shelves' = Shelves /\ \A p \in Shelves : p # Len(panels) + 1 => p \in 1..Len(panels)
  BY <1>1, <1>2 DEF Shelves
<1>8. ASSUME NEW p \in Shelves PROVE ChatsWith(n, p)' = <<>>
  <2>1. CASE p = Len(panels) + 1
    BY <2>1, <1>2, <1>3, <1>5 DEF ChatsWith
  <2>2. CASE p # Len(panels) + 1
    <3>1. panels'[p].name # members'[n].name
      BY <2>2, <1>2, <1>3, <1>5, <1>6, <1>7
    <3> QED BY <2>2, <3>1, <1>2 DEF ChatsWith
  <2> QED BY <2>1, <2>2
<1>9. ASSUME NEW i \in 1..Len(members), NEW p \in Shelves
      PROVE  ChatsWith(i, p)' = ChatsWith(i, p)
  BY <1>2, <1>5 DEF ChatsWith
<1>11. Latest'
  <2>1. \A i \in 1..n : i # n => i \in 1..Len(members)
    BY <1>1, <1>4
  <2>2. Latest /\ \A i \in 1..n : members'[i].panel # 0 => i \in 1..Len(members) /\ members'[i] = members[i]
    BY <2>1, <1>3, <1>5
  <2> QED BY <2>2, <1>2, <1>5 DEF Latest
<1> QED BY <1>3, <1>4, <1>5, <1>7, <1>8, <1>9, <1>11 DEF NewMember

LEMMA RestSame ==
    ASSUME members' = members, panels' = panels
    PROVE  SameChats /\ (Latest => Latest')
<1>1. SameChats
  BY DEF SameChats, Shelves, ChatsWith
<1>2. Latest => Latest'
  BY DEF Latest
<1> QED BY <1>1, <1>2

LEMMA WriteSame ==
    ASSUME TypeOK, NEW p \in 1..Len(panels),
           SendMessage(p) \/ ClearMessage(p) \/ \E x \in Texts : TypeText(p, x)
    PROVE  SameChats /\ (Latest => Latest')
<1>1. panels \in Seq(Window(Len(came))) /\ Len(panels) \in Nat
  BY Types
<1>2. PICK x \in Texts : panels' = [panels EXCEPT ![p].draft = x]
  BY ChartAssumption DEF SendMessage, ClearMessage, TypeText
<1>3. members' = members
  BY DEF SendMessage, ClearMessage, TypeText
<1>4. /\ Len(panels') = Len(panels)
      /\ \A q \in 1..Len(panels) : panels'[q].name = panels[q].name /\ panels'[q].shown = panels[q].shown
  BY <1>1, <1>2 DEF Window
<1>5. Shelves' = Shelves /\ \A q \in Shelves : q # Len(panels) + 1 => q \in 1..Len(panels)
  <2>1. Shelves' = Shelves
    BY <1>1, <1>4 DEF Shelves
  <2>2. \A q \in Shelves : q # Len(panels) + 1 => q \in 1..Len(panels)
    BY <1>1 DEF Shelves
  <2> QED BY <2>1, <2>2
<1>6. ASSUME NEW i \in 1..Len(members), NEW q \in Shelves
      PROVE  ChatsWith(i, q)' = ChatsWith(i, q)
  BY <1>3, <1>4, <1>5 DEF ChatsWith
<1>7. Latest => Latest'
  BY <1>3, <1>4 DEF Latest
<1> QED BY <1>3, <1>5, <1>6, <1>7 DEF SameChats

LEMMA ClosePanelSame ==
    ASSUME TypeOK, Known, Latest, NEW p \in 1..Len(panels), ClosePanel(p)
    PROVE  SameChats /\ Latest'
<1>1. /\ members \in Seq(Row(Len(panels), Len(came)))
      /\ panels \in Seq(Window(Len(came))) /\ Len(panels) \in Nat
  BY Types
<1>2. PICK j : j = Member(panels[p].name)
  OBVIOUS
<1>3. j \in 1..Len(members)
  <2>1. j \in 0..Len(members) /\ j # 0 /\ Len(members) \in Nat
    BY <1>1, <1>2, MemberIn DEF Known
  <2> QED BY <2>1
<1>4. /\ panels' = [panels EXCEPT ![p].open = FALSE]
      /\ members' = [members EXCEPT ![j].panel = 0]
  BY <1>2 DEF ClosePanel
<1>5. /\ Len(panels') = Len(panels)
      /\ \A q \in 1..Len(panels) : panels'[q].name = panels[q].name /\ panels'[q].shown = panels[q].shown
  BY <1>1, <1>4 DEF Window
<1>6. /\ Len(members') = Len(members) /\ members'[j].panel = 0
      /\ \A i \in 1..Len(members) :
            members'[i].name = members[i].name /\ members'[i].unshow = members[i].unshow
      /\ \A i \in 1..Len(members) : i # j => members'[i].panel = members[i].panel
  BY <1>1, <1>3, <1>4 DEF Row
<1>7. Shelves' = Shelves /\ \A q \in Shelves : q # Len(panels) + 1 => q \in 1..Len(panels)
  <2>1. Shelves' = Shelves
    BY <1>1, <1>5 DEF Shelves
  <2>2. \A q \in Shelves : q # Len(panels) + 1 => q \in 1..Len(panels)
    BY <1>1 DEF Shelves
  <2> QED BY <2>1, <2>2
<1>8. ASSUME NEW i \in 1..Len(members), NEW q \in Shelves
      PROVE  ChatsWith(i, q)' = ChatsWith(i, q)
  BY <1>5, <1>6, <1>7 DEF ChatsWith
<1>9. Latest'
  <2> SUFFICES ASSUME NEW i \in 1..Len(members), members'[i].panel # 0
               PROVE  /\ members'[i].unshow = <<>>
                      /\ \A q \in 1..Len(panels) :
                            panels'[q].name = members'[i].name => q <= members'[i].panel
    BY <1>5, <1>6 DEF Latest
  <2>1. i # j /\ members'[i].panel = members[i].panel
    BY <1>6
  <2> QED BY <2>1, <1>5, <1>6 DEF Latest
<1> QED BY <1>6, <1>7, <1>8, <1>9 DEF SameChats

-----------------------------------------------------------------------------
(* The order of the chats with a member.                                   *)

(* Chats that are shown or wait have been processed.                       *)
Handled ==
    \A i \in 1..Len(members) : \A p \in Shelves : \A a \in 1..Len(ChatsWith(i, p)) :
        /\ ChatsWith(i, p)[a] \in 1..Done
        /\ came[ChatsWith(i, p)[a]].type = "CHART"

Later == ShownInOrder /\ Handled

(* Packets that have come do not change, nor does one become unprocessed.  *)
Onward ==
    /\ Done \in Nat /\ Done' \in Nat /\ Done <= Done'
    /\ \A k \in 1..Done : came'[k] = came[k]

LEMMA SameLater ==
    ASSUME Later, SameChats, Onward
    PROVE  Later'
<1>1. ShownInOrder'
  BY DEF Later, ShownInOrder, SameChats
<1>2. Handled'
  <2> SUFFICES ASSUME NEW i \in 1..Len(members), NEW p \in Shelves,
                      NEW a \in 1..Len(ChatsWith(i, p))
               PROVE  /\ ChatsWith(i, p)[a] \in 1..Done'
                      /\ came'[ChatsWith(i, p)[a]].type = "CHART"
    BY DEF SameChats, Handled
  <2>1. ChatsWith(i, p)[a] \in 1..Done /\ came[ChatsWith(i, p)[a]].type = "CHART"
    BY DEF Later, Handled
  <2> QED BY <2>1 DEF Onward
<1> QED BY <1>1, <1>2 DEF Later

LEMMA NewMemberLater ==
    ASSUME TypeOK, Later, Onward, NEW n \in Nat, NEW name, NewMember(n, name)
    PROVE  Later'
<1>1. /\ Shelves' = Shelves /\ Len(members') = n /\ n = Len(members) + 1
      /\ Len(members) \in Nat
      /\ \A p \in Shelves : ChatsWith(n, p)' = <<>>
      /\ \A i \in 1..Len(members) : \A p \in Shelves : ChatsWith(i, p)' = ChatsWith(i, p)
  BY Types DEF NewMember
<1>2. \A i \in 1..n : i # n => i \in 1..Len(members)
  BY <1>1
<1>3. \A a : ~(a \in 1..Len(<<>>))
  OBVIOUS
<1>4. ShownInOrder'
  <2> SUFFICES ASSUME NEW i \in 1..n, NEW p \in Shelves, NEW q \in Shelves,
                      NEW a \in 1..Len(ChatsWith(i, p)'), NEW b \in 1..Len(ChatsWith(i, q)'),
                      p < q \/ (p = q /\ a < b)
               PROVE  ChatsWith(i, p)'[a] < ChatsWith(i, q)'[b]
    BY <1>1 DEF ShownInOrder
  <2>1. i # n
    BY <1>1, <1>3
  <2>2. i \in 1..Len(members)
    BY <2>1, <1>2
  <2> QED BY <2>2, <1>1 DEF Later, ShownInOrder
<1>5. Handled'
  <2> SUFFICES ASSUME NEW i \in 1..n, NEW p \in Shelves, NEW a \in 1..Len(ChatsWith(i, p)')
               PROVE  /\ ChatsWith(i, p)'[a] \in 1..Done'
                      /\ came'[ChatsWith(i, p)'[a]].type = "CHART"
    BY <1>1 DEF Handled
  <2>1. i # n
    BY <1>1, <1>3
  <2>2. i \in 1..Len(members) /\ ChatsWith(i, p)' = ChatsWith(i, p)
    BY <2>1, <1>1, <1>2
  <2>3. ChatsWith(i, p)[a] \in 1..Done /\ came[ChatsWith(i, p)[a]].type = "CHART"
    BY <2>2 DEF Later, Handled
  <2> QED BY <2>2, <2>3 DEF Onward
<1> QED BY <1>4, <1>5 DEF Later

LEMMA AddsLater ==
    ASSUME TypeOK, Later, Onward, NEW i \in 1..Len(members), NEW w \in Shelves,
           NEW k \in Nat, k = Done + 1, Done' = Done + 1, came' = came, came[k].type = "CHART",
           Adds(k, i, w)
    PROVE  Later'
<1>1. /\ Shelves' = Shelves /\ Len(members') = Len(members)
      /\ \A p \in Shelves : p > w => ChatsWith(i, p) = <<>>
      /\ ChatsWith(i, w)' = Append(ChatsWith(i, w), k)
      /\ \A j \in 1..Len(members) : \A p \in Shelves :
            j # i \/ p # w => ChatsWith(j, p)' = ChatsWith(j, p)
  BY DEF Adds
<1>2. Len(members) \in Nat /\ (\A p \in Shelves : p \in Nat) /\ Done \in Nat
  BY Types DEF Shelves, Onward
<1>3. \A a : ~(a \in 1..Len(<<>>))
  OBVIOUS
<1> DEFINE s == ChatsWith(i, w)
<1>4. s \in Seq(Nat) /\ Len(s) \in Nat
  <2>1. s \in Seq(1..Len(came)) /\ 1..Len(came) \subseteq Nat
    BY ChatsIn
  <2> HIDE DEF s
  <2> QED BY <2>1, SeqMonotonic
<1> DEFINE t == Append(s, k)
<1>5. Len(t) = Len(s) + 1 /\ t[Len(s) + 1] = k /\ \A a \in 1..Len(s) : t[a] = s[a]
  <2> HIDE DEF s
  <2> QED BY <1>4, AppendProperties
<1>6. ChatsWith(i, w)' = t
  BY <1>1
<1> HIDE DEF t
<1>7. \A p \in Shelves : \A a \in 1..Len(ChatsWith(i, p)) : ChatsWith(i, p)[a] \in Nat /\ ChatsWith(i, p)[a] < k
  <2> TAKE p \in Shelves
  <2> TAKE a \in 1..Len(ChatsWith(i, p))
  <2>1. ChatsWith(i, p)[a] \in 1..Done
    BY DEF Later, Handled
  <2> QED BY <2>1, <1>2
<1>8. ShownInOrder'
  <2> SUFFICES ASSUME NEW j \in 1..Len(members), NEW p \in Shelves, NEW q \in Shelves,
                      NEW a \in 1..Len(ChatsWith(j, p)'), NEW b \in 1..Len(ChatsWith(j, q)'),
                      p < q \/ (p = q /\ a < b)
               PROVE  ChatsWith(j, p)'[a] < ChatsWith(j, q)'[b]
    BY <1>1 DEF ShownInOrder
  <2>1. CASE j # i
    <3>1. ChatsWith(j, p)' = ChatsWith(j, p) /\ ChatsWith(j, q)' = ChatsWith(j, q)
      BY <2>1, <1>1
    <3> QED BY <3>1 DEF Later, ShownInOrder
  <2>2. CASE j = i
    <3>1. ~(q > w)
      <4> SUFFICES ASSUME q > w PROVE FALSE
        OBVIOUS
      <4>1. q # w /\ ChatsWith(i, q) = <<>>
        BY <1>1, <1>2
      <4>2. ChatsWith(i, q)' = <<>>
        BY <4>1, <1>1
      <4> QED BY <4>2, <2>2, <1>3
    <3>2. CASE q # w
      <4>1. p # w
        BY <3>1, <3>2, <1>2
      <4>2. ChatsWith(i, p)' = ChatsWith(i, p) /\ ChatsWith(i, q)' = ChatsWith(i, q)
        BY <4>1, <3>2, <1>1
      <4> QED BY <4>2, <2>2 DEF Later, ShownInOrder
    <3>3. CASE q = w /\ b = Len(s) + 1
      <4>1. ChatsWith(i, q)'[b] = k
        BY <3>3, <1>5, <1>6
      <4>2. CASE p = w
        <5>1. a \in 1..Len(s)
          BY <4>2, <3>3, <2>2, <1>2, <1>4, <1>5, <1>6
        <5>2. ChatsWith(i, p)'[a] = s[a]
          BY <4>2, <5>1, <1>5, <1>6
        <5> QED BY <4>1, <5>1, <5>2, <2>2, <1>7
      <4>3. CASE p # w
        <5>1. ChatsWith(i, p)' = ChatsWith(i, p)
          BY <4>3, <1>1
        <5> QED BY <4>1, <5>1, <2>2, <1>7
      <4> QED BY <4>2, <4>3
    <3>4. CASE q = w /\ b # Len(s) + 1
      <4>1. b \in 1..Len(s) /\ ChatsWith(i, q)'[b] = ChatsWith(i, q)[b]
        BY <3>4, <2>2, <1>4, <1>5, <1>6
      <4>2. CASE p = w
        <5>1. a \in 1..Len(s)
          BY <4>1, <4>2, <3>4, <2>2, <1>4, <1>5, <1>6, <1>2
        <5>2. ChatsWith(i, p)'[a] = ChatsWith(i, p)[a]
          BY <4>2, <5>1, <1>5, <1>6
        <5> QED BY <4>1, <4>2, <5>1, <5>2, <2>2, <3>4 DEF Later, ShownInOrder
      <4>3. CASE p # w
        <5>1. ChatsWith(i, p)' = ChatsWith(i, p)
          BY <4>3, <1>1
        <5> QED BY <4>1, <4>3, <5>1, <2>2, <3>4 DEF Later, ShownInOrder
      <4> QED BY <4>2, <4>3
    <3> QED BY <3>2, <3>3, <3>4
  <2> QED BY <2>1, <2>2
<1>9. Handled'
  <2> SUFFICES ASSUME NEW j \in 1..Len(members), NEW p \in Shelves,
                      NEW a \in 1..Len(ChatsWith(j, p)')
               PROVE  ChatsWith(j, p)'[a] \in 1..(Done + 1) /\ came[ChatsWith(j, p)'[a]].type = "CHART"
    BY <1>1 DEF Handled
  <2>1. CASE j = i /\ p = w /\ a = Len(s) + 1
    BY <2>1, <1>2, <1>5, <1>6
  <2>2. CASE ~(j = i /\ p = w /\ a = Len(s) + 1)
    <3>1. a \in 1..Len(ChatsWith(j, p)) /\ ChatsWith(j, p)'[a] = ChatsWith(j, p)[a]
      <4>1. CASE j = i /\ p = w
        BY <4>1, <2>2, <1>4, <1>5, <1>6
      <4>2. CASE ~(j = i /\ p = w)
        BY <4>2, <1>1
      <4> QED BY <4>1, <4>2
    <3>2. ChatsWith(j, p)[a] \in 1..Done /\ came[ChatsWith(j, p)[a]].type = "CHART"
      BY <3>1 DEF Later, Handled
    <3> QED BY <3>1, <3>2, <1>2
  <2> QED BY <2>1, <2>2
<1> QED BY <1>8, <1>9 DEF Later

LEMMA OpensLater ==
    ASSUME Later, Onward, NEW i \in 1..Len(members), NEW n \in Nat, Opens(i, n)
    PROVE  Later'
<1>1. /\ Shelves = 1..n /\ n \in 1..n /\ Shelves' = 1..(n + 1)
      /\ Len(members') = Len(members)
      /\ \A j \in 1..Len(members) : \A p \in 1..n : p < n => ChatsWith(j, p)' = ChatsWith(j, p)
      /\ ChatsWith(i, n)' = ChatsWith(i, n) /\ ChatsWith(i, n + 1)' = <<>>
      /\ \A j \in 1..Len(members) : j # i =>
            ChatsWith(j, n)' = <<>> /\ ChatsWith(j, n + 1)' = ChatsWith(j, n)
  BY DEF Opens
<1>2. \A a : ~(a \in 1..Len(<<>>))
  OBVIOUS
<1>3. ASSUME NEW j \in 1..Len(members), NEW p \in 1..(n + 1), NEW a \in 1..Len(ChatsWith(j, p)')
      PROVE  \E q \in 1..n :
                /\ ChatsWith(j, p)' = ChatsWith(j, q)
                /\ q = IF p = n + 1 THEN n ELSE p
                /\ p # (IF j = i THEN n + 1 ELSE n)
  <2>1. CASE p < n
    BY <2>1, <1>1
  <2>2. CASE p = n
    BY <2>2, <1>1, <1>2
  <2>3. CASE p = n + 1
    BY <2>3, <1>1, <1>2
  <2> QED BY <2>1, <2>2, <2>3
<1>4. ShownInOrder'
  <2> SUFFICES ASSUME NEW j \in 1..Len(members), NEW p \in 1..(n + 1), NEW q \in 1..(n + 1),
                      NEW a \in 1..Len(ChatsWith(j, p)'), NEW b \in 1..Len(ChatsWith(j, q)'),
                      p < q \/ (p = q /\ a < b)
               PROVE  ChatsWith(j, p)'[a] < ChatsWith(j, q)'[b]
    BY <1>1 DEF ShownInOrder
  <2>1. PICK r \in 1..n : /\ ChatsWith(j, p)' = ChatsWith(j, r)
                          /\ r = IF p = n + 1 THEN n ELSE p
                          /\ p # (IF j = i THEN n + 1 ELSE n)
    BY <1>3
  <2>2. PICK s \in 1..n : /\ ChatsWith(j, q)' = ChatsWith(j, s)
                          /\ s = IF q = n + 1 THEN n ELSE q
                          /\ q # (IF j = i THEN n + 1 ELSE n)
    BY <1>3
  <2>3. r < s \/ (r = s /\ a < b)
    <3>1. CASE j = i
      BY <3>1, <2>1, <2>2
    <3>2. CASE j # i
      BY <3>2, <2>1, <2>2
    <3> QED BY <3>1, <3>2
  <2>4. r \in Shelves /\ s \in Shelves
    BY <1>1
  <2> QED BY <2>1, <2>2, <2>3, <2>4 DEF Later, ShownInOrder
<1>5. Handled'
  <2> SUFFICES ASSUME NEW j \in 1..Len(members), NEW p \in 1..(n + 1),
                      NEW a \in 1..Len(ChatsWith(j, p)')
               PROVE  /\ ChatsWith(j, p)'[a] \in 1..Done'
                      /\ came'[ChatsWith(j, p)'[a]].type = "CHART"
    BY <1>1 DEF Handled
  <2>1. PICK q \in 1..n : ChatsWith(j, p)' = ChatsWith(j, q)
    BY <1>3
  <2>2. q \in Shelves
    BY <1>1
  <2>3. ChatsWith(j, q)[a] \in 1..Done /\ came[ChatsWith(j, q)[a]].type = "CHART"
    BY <2>1, <2>2 DEF Later, Handled
  <2> QED BY <2>1, <2>3 DEF Onward
<1> QED BY <1>4, <1>5 DEF Later

-----------------------------------------------------------------------------
(* Whose chats they are.                                                   *)

Chatting(i, k) == \E p \in Shelves : \E a \in 1..Len(ChatsWith(i, p)) : ChatsWith(i, p)[a] = k

(* The member of a name, and of the names that begin with it the first.    *)
Rightly(i, from) ==
    IsPrefix(from, members[i].name) /\ Member(from) \in {0} \cup i..Len(members)

LEMMA SenderShownIs ==
    SenderShown <=> \A i \in 1..Len(members) : \A k : Chatting(i, k) => Rightly(i, came[k].from)
BY DEF SenderShown, Chatting, Rightly

(* Members keep their places and names, others may be added.               *)
Grows ==
    /\ Len(members) <= Len(members')
    /\ \A i \in 1..Len(members) : members'[i].name = members[i].name

LEMMA RightlyKept ==
    ASSUME TypeOK, TypeOK', Distinct, Grows, NEW i \in 1..Len(members), NEW from,
           Rightly(i, from)
    PROVE  Rightly(i, from)'
<1>1. Len(members) \in Nat /\ Len(members') \in Nat
  <2>1. Len(members) \in Nat
    BY DEF TypeOK
  <2>2. Len(members') \in Nat
    BY DEF TypeOK
  <2> QED BY <2>1, <2>2
<1>2. PICK m : m = Member(from)'
  OBVIOUS
<1>3. m \in 0..Len(members') /\ (m # 0 => members'[m].name = from)
  <2> DEFINE S == {j \in 1..Len(members') : members'[j].name = from}
  <2>1. S \in SUBSET (1..Len(members')) /\ First(S) = m
    BY <1>2 DEF Member, Same
  <2>2. \A j \in S : members'[j].name = from
    OBVIOUS
  <2> HIDE DEF S
  <2>3. First(S) \in S \cup {0}
    BY <1>1, <2>1, FirstIn
  <2>4. m = 0 \/ m \in S
    BY <2>1, <2>3
  <2>5. m # 0 => members'[m].name = from
    BY <2>2, <2>4, Zenon
  <2>6. m = 0 \/ m \in 1..Len(members')
    BY <2>1, <2>4
  <2>7. m \in 0..Len(members')
    BY <1>1, <2>6
  <2> QED BY <2>5, <2>7
<1>4. CASE m = 0
  BY <1>4, <1>2 DEF Rightly, Grows
<1>5. CASE m # 0 /\ m <= Len(members)
  <2>1. m \in 1..Len(members) /\ members[m].name = from
    BY <1>1, <1>3, <1>5 DEF Grows
  <2>2. Member(from) = m
    BY <2>1, MemberIs
  <2>3. m \in i..Len(members')
    BY <1>1, <1>3, <2>1, <2>2 DEF Rightly
  <2> QED BY <1>2, <2>3 DEF Rightly, Grows
<1>6. CASE m # 0 /\ ~(m <= Len(members))
  <2>1. m \in i..Len(members')
    BY <1>1, <1>3, <1>6
  <2> QED BY <1>2, <2>1 DEF Rightly, Grows
<1> QED BY <1>4, <1>5, <1>6

LEMMA FirstLeast ==
    ASSUME NEW n \in Nat, NEW S \in SUBSET (1..n), NEW m \in S
    PROVE  First(S) <= m
<1>1. S \in SUBSET Nat
  OBVIOUS
<1>2. \E i \in S : \A j \in S : i <= j
  BY <1>1, LeastExists
<1> QED BY <1>2 DEF First

LEMMA SenderRightly ==
    ASSUME TypeOK, NEW from \in Names, NEW i \in 1..Len(members), Sender(from) = i
    PROVE  Rightly(i, from)
<1> DEFINE S == {j \in 1..Len(members) : Matches(members[j].name, from)}
<1>1. S \in SUBSET (1..Len(members)) /\ Len(members) \in Nat /\ First(S) = i
  BY DEF TypeOK, Sender
<1>2. \A j \in 1..Len(members) : members[j].name = from => j \in S
  <2>1. Matches(from, from)
    <3>1. from \in Seq(Chars \ {0})
      BY ChartAssumption DEF Written
    <3>2. Len(from) <= Len(from)
      BY <3>1
    <3> QED BY <3>1, <3>2 DEF Matches, IsPrefix
  <2> QED BY <2>1
<1>3. \A j \in S : IsPrefix(from, members[j].name)
  BY DEF Matches
<1> HIDE DEF S
<1>4. i \in S
  <2>1. First(S) \in S \cup {0}
    BY <1>1, FirstIn
  <2> QED BY <1>1, <2>1
<1>5. PICK m : m = Member(from)
  OBVIOUS
<1>6. m \in 0..Len(members) /\ (m # 0 => members[m].name = from)
  BY <1>5, MemberIn
<1>7. ASSUME m # 0 PROVE m \in i..Len(members)
  <2>1. m \in S
    BY <1>1, <1>2, <1>6, <1>7
  <2>2. i <= m
    BY <1>1, <2>1, FirstLeast
  <2> QED BY <1>1, <1>6, <2>2
<1> QED BY <1>3, <1>4, <1>5, <1>7 DEF Rightly

LEMMA SenderKept ==
    ASSUME TypeOK, TypeOK', Distinct, Grows,
           \A i \in 1..Len(members') : \A k : Chatting(i, k)' =>
              /\ i \in 1..Len(members) /\ came'[k].from = came[k].from
              /\ Rightly(i, came[k].from)
    PROVE  SenderShown'
<1>1. ASSUME NEW i \in 1..Len(members'), NEW k, Chatting(i, k)'
      PROVE  Rightly(i, came[k].from)'
  <2>1. PICK from : from = came[k].from
    OBVIOUS
  <2>2. i \in 1..Len(members) /\ came'[k].from = from /\ Rightly(i, from)
    BY <1>1, <2>1
  <2>3. Rightly(i, from)'
    BY <2>2, RightlyKept
  <2> QED BY <2>2, <2>3
<1>2. \A i \in 1..Len(members') : \A k : Chatting(i, k)' => Rightly(i, came[k].from)'
  BY <1>1
<1> QED BY <1>2 DEF SenderShown, Chatting, Rightly

(* Chats that were there are of the right member still.                    *)
LEMMA OldRightly ==
    ASSUME Later, SenderShown, Onward, NEW i \in 1..Len(members), NEW k, Chatting(i, k)
    PROVE  came'[k].from = came[k].from /\ Rightly(i, came[k].from)
<1>1. k \in 1..Done
  BY DEF Chatting, Later, Handled
<1> QED BY <1>1, SenderShownIs DEF Onward

LEMMA SameSender ==
    ASSUME TypeOK, TypeOK', Distinct, Later, SenderShown, Onward, SameChats
    PROVE  SenderShown'
<1>1. Grows /\ Len(members') = Len(members)
  <2>1. Len(members) \in Nat
    BY DEF TypeOK
  <2> QED BY <2>1 DEF SameChats, Grows
<1>2. ASSUME NEW i \in 1..Len(members), NEW k, Chatting(i, k)'
      PROVE  Chatting(i, k)
  BY <1>2 DEF SameChats, Chatting
<1> QED BY <1>1, <1>2, OldRightly, SenderKept

LEMMA NewMemberSender ==
    ASSUME TypeOK, TypeOK', Distinct, Later, SenderShown, Onward,
           NEW n \in Nat, NEW name, NewMember(n, name)
    PROVE  SenderShown'
<1>1. /\ Shelves' = Shelves /\ Len(members') = n /\ n = Len(members) + 1
      /\ Len(members) \in Nat
      /\ \A p \in Shelves : ChatsWith(n, p)' = <<>>
      /\ \A i \in 1..Len(members) : \A p \in Shelves : ChatsWith(i, p)' = ChatsWith(i, p)
  BY Types DEF NewMember
<1>2. Grows
  BY <1>1 DEF NewMember, Grows
<1>3. ASSUME NEW i \in 1..n, NEW k, Chatting(i, k)'
      PROVE  i \in 1..Len(members) /\ Chatting(i, k)
  <2>1. PICK p \in Shelves : \E a \in 1..Len(ChatsWith(i, p)') : ChatsWith(i, p)'[a] = k
    BY <1>1, <1>3 DEF Chatting
  <2>2. i # n
    <3>1. \A a : ~(a \in 1..Len(<<>>))
      OBVIOUS
    <3> QED BY <2>1, <3>1, <1>1
  <2>3. i \in 1..Len(members)
    BY <1>1, <2>2
  <2> QED BY <2>1, <2>3, <1>1 DEF Chatting
<1> QED BY <1>1, <1>2, <1>3, OldRightly, SenderKept

LEMMA AddsSender ==
    ASSUME TypeOK, TypeOK', Distinct, Later, SenderShown, Onward, came' = came,
           NEW i \in 1..Len(members), NEW w \in Shelves, NEW k, Adds(k, i, w),
           Rightly(i, came[k].from)
    PROVE  SenderShown'
<1>1. /\ Shelves' = Shelves /\ Len(members') = Len(members) /\ Len(members) \in Nat
      /\ ChatsWith(i, w)' = Append(ChatsWith(i, w), k)
      /\ \A j \in 1..Len(members) : \A p \in Shelves :
            j # i \/ p # w => ChatsWith(j, p)' = ChatsWith(j, p)
  BY Types DEF Adds
<1>2. Grows
  BY <1>1 DEF Adds, Grows
<1>3. ASSUME NEW j \in 1..Len(members), NEW x, Chatting(j, x)'
      PROVE  Chatting(j, x) \/ (j = i /\ x = k)
  <2>1. PICK p \in Shelves : \E a \in 1..Len(ChatsWith(j, p)') : ChatsWith(j, p)'[a] = x
    BY <1>1, <1>3 DEF Chatting
  <2>2. CASE j # i \/ p # w
    <3>1. ChatsWith(j, p)' = ChatsWith(j, p)
      BY <2>2, <1>1
    <3> QED BY <2>1, <3>1 DEF Chatting
  <2>3. CASE j = i /\ p = w
    <3> DEFINE s == ChatsWith(i, w)
               t == Append(s, k)
    <3>1. PICK a \in 1..Len(t) : t[a] = x
      BY <2>1, <2>3, <1>1
    <3>2. s \in Seq(1..Len(came)) /\ Len(s) \in Nat
      BY ChatsIn
    <3> HIDE DEF s
    <3>3. t[Len(s) + 1] = k /\ Len(t) = Len(s) + 1 /\ \A b \in 1..Len(s) : t[b] = s[b]
      BY <3>2
    <3> HIDE DEF t
    <3>4. CASE a = Len(s) + 1
      BY <3>1, <3>3, <3>4, <2>3
    <3>5. CASE a # Len(s) + 1
      <4>1. a \in 1..Len(s)
        BY <3>1, <3>2, <3>3, <3>5
      <4>2. s[a] = x
        BY <4>1, <3>1, <3>3
      <4> QED BY <4>1, <4>2, <2>3 DEF Chatting, s
    <3> QED BY <3>4, <3>5
  <2> QED BY <2>2, <2>3
<1>4. \A j \in 1..Len(members) : \A x : Chatting(j, x)' =>
         came'[x].from = came[x].from /\ Rightly(j, came[x].from)
  BY <1>3, OldRightly
<1> QED BY <1>1, <1>2, <1>4, SenderKept

LEMMA OpensSender ==
    ASSUME TypeOK, TypeOK', Distinct, Later, SenderShown, Onward,
           NEW i \in 1..Len(members), NEW n \in Nat, Opens(i, n)
    PROVE  SenderShown'
<1>1. /\ Shelves = 1..n /\ n \in 1..n /\ Shelves' = 1..(n + 1)
      /\ Len(members') = Len(members) /\ Len(members) \in Nat
      /\ \A j \in 1..Len(members) : \A p \in 1..n : p < n => ChatsWith(j, p)' = ChatsWith(j, p)
      /\ ChatsWith(i, n)' = ChatsWith(i, n) /\ ChatsWith(i, n + 1)' = <<>>
      /\ \A j \in 1..Len(members) : j # i =>
            ChatsWith(j, n)' = <<>> /\ ChatsWith(j, n + 1)' = ChatsWith(j, n)
  BY Types DEF Opens
<1>2. Grows
  BY <1>1 DEF Opens, Grows
<1>3. \A a : ~(a \in 1..Len(<<>>))
  OBVIOUS
<1>4. ASSUME NEW j \in 1..Len(members), NEW k, Chatting(j, k)'
      PROVE  Chatting(j, k)
  <2>1. PICK p \in 1..(n + 1) : \E a \in 1..Len(ChatsWith(j, p)') : ChatsWith(j, p)'[a] = k
    BY <1>1, <1>4 DEF Chatting
  <2>2. \E q \in 1..n : ChatsWith(j, p)' = ChatsWith(j, q)
    <3>1. CASE p < n
      BY <3>1, <1>1
    <3>2. CASE p = n
      BY <3>2, <2>1, <1>1, <1>3
    <3>3. CASE p = n + 1
      BY <3>3, <2>1, <1>1, <1>3
    <3> QED BY <3>1, <3>2, <3>3
  <2> QED BY <2>1, <2>2, <1>1 DEF Chatting
<1> QED BY <1>1, <1>2, <1>4, OldRightly, SenderKept

-----------------------------------------------------------------------------
(* Where the packets are.                                                  *)

LEMMA InIs ==
    ASSUME TypeOK
    PROVE  /\ Len(members) \in Nat /\ Len(came) \in Nat
           /\ Places \subseteq Int /\ 0 \in Places /\ -1 \in Places
           /\ \A i \in 1..Len(members) : i \in Places /\ i # 0 /\ i # -1
           /\ \A q \in Places : In(q) \in Seq(1..Len(came)) /\ Len(In(q)) \in Nat
<1>1. /\ Len(members) \in Nat /\ Len(came) \in Nat
      /\ members \in Seq(Row(Len(panels), Len(came)))
      /\ coming \in Seq(1..Len(came)) /\ freed \in Seq(1..Len(came))
  BY Types
<1>2. Places \subseteq Int /\ 0 \in Places /\ -1 \in Places
  BY <1>1 DEF Places
<1>3. \A i \in 1..Len(members) : i \in Places /\ i # 0 /\ i # -1
  BY <1>1 DEF Places
<1>4. ASSUME NEW q \in Places PROVE In(q) \in Seq(1..Len(came))
  <2>1. CASE q = -1 \/ q = 0
    BY <2>1, <1>1 DEF In
  <2>2. CASE ~(q = -1 \/ q = 0)
    <3>1. q \in 1..Len(members)
      BY <2>2, <1>1 DEF Places
    <3>2. members[q] \in Row(Len(panels), Len(came))
      BY <3>1, <1>1
    <3>3. members[q].unshow \in Seq(1..Len(came))
      BY <3>2 DEF Row
    <3> QED BY <2>2, <3>3 DEF In
  <2> QED BY <2>1, <2>2
<1> QED BY <1>1, <1>2, <1>3, <1>4

(* The packet that is processed goes to place d.                           *)
Goes(k, d) ==
    /\ d \in Places /\ d # 0 /\ Places \subseteq Places'
    /\ In(0)' = Tail(In(0)) /\ In(d)' = Append(In(d), k)
    /\ \A q \in Places : q # 0 /\ q # d => In(q)' = In(q)
    /\ \A q \in Places' : q \notin Places => In(q)' = <<>>

LEMMA Freeing ==
    ASSUME TypeOK, NEW k, coming' = Tail(coming), freed' = Append(freed, k),
           Len(members) <= Len(members'), Len(members') \in Nat,
           \A i \in 1..Len(members) : members'[i].unshow = members[i].unshow,
           \A i \in 1..Len(members') : i \notin 1..Len(members) => members'[i].unshow = <<>>
    PROVE  Goes(k, -1)
<1>1. Len(members) \in Nat /\ -1 \in Places
  BY InIs
<1>2. Places \subseteq Places'
  BY <1>1 DEF Places
<1>3. PICK d : d = -1
  OBVIOUS
<1>4. In(0)' = Tail(In(0)) /\ In(d)' = Append(In(d), k)
  BY <1>3 DEF In
<1>5. ASSUME NEW q \in Places, q # 0, q # d PROVE In(q)' = In(q)
  <2>1. q \in 1..Len(members)
    BY <1>1, <1>3, <1>5 DEF Places
  <2> QED BY <2>1, <1>3, <1>5 DEF In
<1>6. ASSUME NEW q \in Places', q \notin Places PROVE In(q)' = <<>>
  <2>1. q \in 1..Len(members') /\ q \notin 1..Len(members) /\ q # 0 /\ q # -1
    BY <1>1, <1>6 DEF Places
  <2> QED BY <2>1 DEF In
<1>7. Goes(k, d)
  BY <1>1, <1>2, <1>3, <1>4, <1>5, <1>6 DEF Goes
<1> QED BY <1>3, <1>7

LEMMA ProcessPlaces ==
    ASSUME TypeOK, NEW k \in 1..Len(came), coming' = Tail(coming),
           \/ Keeps(k) \/ Lists(k)
           \/ \E i \in 1..Len(members) : Shows(k, i) \/ Waits(k, i)
    PROVE  \E d : Goes(k, d)
<1>1. Len(members) \in Nat /\ members \in Seq(Row(Len(panels), Len(came)))
  BY Types
<1>2. CASE freed' = Append(freed, k) /\ members' = members
  BY <1>1, <1>2, Freeing
<1>3. CASE Lists(k)
  <2> DEFINE row == [name |-> came[k].name, panel |-> 0, unshow |-> <<>>]
  <2>1. members' = Append(members, row) /\ freed' = Append(freed, k)
    BY <1>3 DEF Lists
  <2>2. row.unshow = <<>>
    OBVIOUS
  <2> HIDE DEF row
  <2>3. /\ Len(members') = Len(members) + 1 /\ members'[Len(members) + 1] = row
        /\ \A i \in 1..Len(members) : members'[i] = members[i]
    BY <1>1, <2>1
  <2>4. \A i \in 1..Len(members') : i \notin 1..Len(members) => i = Len(members) + 1
    BY <1>1, <2>3
  <2> QED BY <1>1, <2>1, <2>2, <2>3, <2>4, Freeing
<1>4. ASSUME NEW i \in 1..Len(members), Waits(k, i)
      PROVE  \E d : Goes(k, d)
  <2>1. members' = [members EXCEPT ![i].unshow = Append(@, k)] /\ freed' = freed
    BY <1>4 DEF Waits
  <2>2. /\ Len(members') = Len(members)
        /\ members'[i].unshow = Append(members[i].unshow, k)
        /\ \A j \in 1..Len(members) : j # i => members'[j].unshow = members[j].unshow
    BY <1>1, <2>1 DEF Row
  <2>3. i \in Places /\ i # 0 /\ i # -1
    BY InIs
  <2>4. Places' = Places
    BY <2>2 DEF Places
  <2>5. In(0)' = Tail(In(0)) /\ In(i)' = Append(In(i), k)
    BY <2>2, <2>3 DEF In
  <2>6. ASSUME NEW q \in Places, q # 0, q # i PROVE In(q)' = In(q)
    <3>1. CASE q = -1
      BY <3>1, <2>1 DEF In
    <3>2. CASE q # -1
      <4>1. q \in 1..Len(members)
        BY <3>2, <2>6, <1>1 DEF Places
      <4> QED BY <4>1, <3>2, <2>2, <2>6 DEF In
    <3> QED BY <3>1, <3>2
  <2>7. Goes(k, i)
    BY <2>3, <2>4, <2>5, <2>6 DEF Goes
  <2> QED BY <2>7
<1> QED BY <1>2, <1>3, <1>4 DEF Keeps, Shows

LEMMA GoesFreed ==
    ASSUME TypeOK, FreedOnce, came' = came, coming # <<>>, NEW k, k = Head(coming),
           NEW d, Goes(k, d)
    PROVE  FreedOnce'
<1>1. /\ Places \subseteq Int /\ 0 \in Places /\ Len(came) \in Nat
      /\ \A q \in Places : In(q) \in Seq(1..Len(came)) /\ Len(In(q)) \in Nat
  BY InIs
<1>2. /\ d \in Places /\ d # 0 /\ Places \subseteq Places'
      /\ In(0)' = Tail(In(0)) /\ In(d)' = Append(In(d), k)
      /\ \A q \in Places : q # 0 /\ q # d => In(q)' = In(q)
      /\ \A q \in Places' : q \notin Places => In(q)' = <<>>
  BY DEF Goes
<1> DEFINE n == Len(In(0))
           l == Len(In(d))
<1>3. /\ n \in Nat /\ n > 0 /\ In(0)[1] = k /\ Len(In(0)') = n - 1
      /\ \A a \in 1..(n - 1) : In(0)'[a] = In(0)[a + 1]
  <2>1. In(0) = coming
    BY DEF In
  <2>2. coming \in Seq(1..Len(came))
    BY <1>1, <2>1
  <2>3. coming' = Tail(coming)
    BY <1>2, <2>1 DEF In
  <2>4. /\ Len(coming) \in Nat /\ Len(coming) > 0 /\ coming[1] = k /\ Len(coming') = Len(coming) - 1
        /\ \A a \in 1..(Len(coming) - 1) : coming'[a] = coming[a + 1]
    BY <2>2, <2>3
  <2>5. In(0)' = coming'
    BY DEF In
  <2> QED BY <2>1, <2>4, <2>5
<1>4. /\ l \in Nat /\ Len(In(d)') = l + 1 /\ In(d)'[l + 1] = k
      /\ \A a \in 1..l : In(d)'[a] = In(d)[a]
  <2> DEFINE s == In(d)
  <2>1. s \in Seq(1..Len(came)) /\ k \in 1..Len(came) /\ In(d)' = Append(s, k)
    <3>1. coming \in Seq(1..Len(came))
      BY Types
    <3>2. k \in 1..Len(came)
      BY <3>1
    <3> QED BY <3>2, <1>1, <1>2
  <2> HIDE DEF s
  <2>2. Len(Append(s, k)) = Len(s) + 1 /\ Append(s, k)[Len(s) + 1] = k
        /\ \A a \in 1..Len(s) : Append(s, k)[a] = s[a]
    BY <2>1, AppendProperties
  <2>3. Len(s) \in Nat
    BY <2>1
  <2> QED BY <2>1, <2>2, <2>3 DEF s
<1> HIDE DEF n, l
(* Where a packet was before.                                              *)
<1> DEFINE From(q, a, r, b) ==
              \/ q = 0 /\ r = 0 /\ b = a + 1
              \/ q = d /\ a = l + 1 /\ r = 0 /\ b = 1
              \/ q # 0 /\ ~(q = d /\ a = l + 1) /\ r = q /\ b = a
<1>5. ASSUME NEW q \in Places', NEW a \in 1..Len(In(q)')
      PROVE  /\ q \in Places
             /\ \E r \in Places : \E b \in 1..Len(In(r)) : In(q)'[a] = In(r)[b] /\ From(q, a, r, b)
  <2>1. q \in Places
    <3>1. \A b : ~(b \in 1..Len(<<>>))
      OBVIOUS
    <3> QED BY <3>1, <1>2
  <2>2. CASE q = 0
    <3>1. a \in 1..(n - 1)
      BY <2>2, <1>3
    <3>2. a + 1 \in 1..n /\ In(q)'[a] = In(0)[a + 1]
      BY <3>1, <2>2, <1>3
    <3> QED BY <2>1, <2>2, <3>2, <1>1 DEF n
  <2>3. CASE q = d /\ a = l + 1
    <3>1. 1 \in 1..n /\ In(q)'[a] = In(0)[1]
      BY <2>3, <1>3, <1>4
    <3> QED BY <2>1, <2>3, <3>1, <1>1 DEF n
  <2>4. CASE q = d /\ a # l + 1
    <3>1. a \in 1..l /\ In(q)'[a] = In(q)[a] /\ q # 0
      BY <2>4, <1>2, <1>4
    <3> QED BY <2>1, <2>4, <3>1 DEF l
  <2>5. CASE q # 0 /\ q # d
    <3>1. In(q)' = In(q)
      BY <2>1, <2>5, <1>2
    <3> QED BY <2>1, <2>5, <3>1
  <2> QED BY <2>1, <2>2, <2>3, <2>4, <2>5
<1>6. ASSUME NEW q \in Places', NEW s \in Places', NEW a \in 1..Len(In(q)'),
             NEW c \in 1..Len(In(s)'), In(q)'[a] = In(s)'[c]
      PROVE  q = s /\ a = c
  <2>1. PICK r \in Places : \E b \in 1..Len(In(r)) : In(q)'[a] = In(r)[b] /\ From(q, a, r, b)
    BY <1>5
  <2>2. PICK b \in 1..Len(In(r)) : In(q)'[a] = In(r)[b] /\ From(q, a, r, b)
    BY <2>1
  <2>3. PICK t \in Places : \E e \in 1..Len(In(t)) : In(s)'[c] = In(t)[e] /\ From(s, c, t, e)
    BY <1>5
  <2>4. PICK e \in 1..Len(In(t)) : In(s)'[c] = In(t)[e] /\ From(s, c, t, e)
    BY <2>3
  <2>5. r = t /\ b = e
    <3>1. In(r)[b] = In(t)[e]
      BY <1>6, <2>2, <2>4
    <3> HIDE DEF From
    <3> QED BY <3>1 DEF FreedOnce
  <2>6. a \in Nat /\ c \in Nat /\ a # 0 /\ c # 0 /\ l \in Nat
    BY <1>4
  <2> HIDE <1>5
  <2> QED BY <2>2, <2>4, <2>5, <2>6, <1>2
<1>7. ASSUME NEW x \in 1..Len(came)
      PROVE  \E q \in Places' : \E a \in 1..Len(In(q)') : In(q)'[a] = x
  <2>1. PICK q \in Places : \E a \in 1..Len(In(q)) : In(q)[a] = x
    BY DEF FreedOnce, Came
  <2>2. PICK a \in 1..Len(In(q)) : In(q)[a] = x
    BY <2>1
  <2>3. CASE q = 0 /\ a = 1
    <3>1. l + 1 \in 1..Len(In(d)') /\ In(d)'[l + 1] = x
      BY <2>2, <2>3, <1>3, <1>4
    <3> QED BY <3>1, <1>2
  <2>4. CASE q = 0 /\ a # 1
    <3> DEFINE b == a - 1
    <3>1. b \in 1..(n - 1) /\ b + 1 = a
      BY <2>2, <2>4, <1>3 DEF n
    <3> HIDE DEF b
    <3>2. b \in 1..Len(In(0)') /\ In(0)'[b] = x
      BY <3>1, <2>2, <2>4, <1>3
    <3> QED BY <3>2, <1>1, <1>2
  <2>5. CASE q = d
    <3>1. a \in 1..Len(In(d)') /\ In(d)'[a] = x
      BY <2>2, <2>5, <1>4 DEF l
    <3> QED BY <3>1, <1>2
  <2>6. CASE q # 0 /\ q # d
    <3>1. In(q)' = In(q) /\ q \in Places'
      BY <2>6, <1>2
    <3> QED BY <3>1, <2>2
  <2> QED BY <2>3, <2>4, <2>5, <2>6
<1> QED BY <1>6, <1>7 DEF FreedOnce, Came

LEMMA ArriveFreed ==
    ASSUME TypeOK, FreedOnce, Arrive
    PROVE  FreedOnce'
<1>1. /\ Places \subseteq Int /\ 0 \in Places /\ Len(came) \in Nat
      /\ \A q \in Places : In(q) \in Seq(1..Len(came)) /\ Len(In(q)) \in Nat
  BY InIs
<1>2. Len(came') = Len(came) + 1
  <2>1. came \in Seq(Incoming)
    BY Types
  <2>2. PICK m \in Incoming : came' = Append(came, m)
    BY DEF Arrive
  <2> QED BY <2>1, <2>2
<1>3. Places' = Places /\ \A q \in Places : q # 0 => In(q)' = In(q)
  BY DEF Arrive, Places, In
<1> DEFINE n == Len(coming)
           c == Len(came) + 1
<1>4. /\ n \in Nat /\ In(0) = coming /\ Len(In(0)') = n + 1 /\ In(0)'[n + 1] = c
      /\ \A a \in 1..n : In(0)'[a] = In(0)[a]
  <2>1. coming \in Seq(1..Len(came)) /\ coming' = Append(coming, c) /\ In(0) = coming
    BY Types DEF Arrive, In
  <2>2. coming \in Seq(Nat) /\ c \in Nat
    BY <1>1, <2>1, SeqMonotonic
  <2> HIDE DEF c
  <2>3. Len(coming') = Len(coming) + 1 /\ coming'[Len(coming) + 1] = c
        /\ \A a \in 1..Len(coming) : coming'[a] = coming[a]
    BY <2>1, <2>2, AppendProperties
  <2>4. In(0)' = coming'
    BY DEF In
  <2> QED BY <2>1, <2>2, <2>3, <2>4
<1>5. ASSUME NEW q \in Places, NEW a \in 1..Len(In(q)')
      PROVE  \/ q = 0 /\ a = n + 1 /\ In(q)'[a] = c
             \/ a \in 1..Len(In(q)) /\ In(q)'[a] = In(q)[a] /\ In(q)[a] \in 1..Len(came)
  <2>1. CASE q # 0
    BY <2>1, <1>1, <1>3
  <2>2. CASE q = 0 /\ a = n + 1
    BY <2>2, <1>4
  <2>3. CASE q = 0 /\ a # n + 1
    <3>1. a \in 1..n /\ In(q)'[a] = In(q)[a]
      BY <2>3, <1>4
    <3> QED BY <2>3, <3>1, <1>1, <1>4
  <2> QED BY <2>1, <2>2, <2>3
<1> HIDE DEF n, c
<1>6. c \notin 1..Len(came) /\ 1..Len(came') = 1..Len(came) \cup {c}
  BY <1>1, <1>2 DEF c
<1>7. ASSUME NEW q \in Places, NEW s \in Places, NEW a \in 1..Len(In(q)'),
             NEW b \in 1..Len(In(s)'), In(q)'[a] = In(s)'[b]
      PROVE  q = s /\ a = b
  <2>1. \/ q = 0 /\ a = n + 1 /\ In(q)'[a] = c
        \/ a \in 1..Len(In(q)) /\ In(q)'[a] = In(q)[a] /\ In(q)[a] \in 1..Len(came)
    BY <1>5
  <2>2. \/ s = 0 /\ b = n + 1 /\ In(s)'[b] = c
        \/ b \in 1..Len(In(s)) /\ In(s)'[b] = In(s)[b] /\ In(s)[b] \in 1..Len(came)
    BY <1>5
  <2> HIDE <1>5
  <2>3. CASE q = 0 /\ a = n + 1 /\ In(q)'[a] = c
    BY <2>2, <2>3, <1>6, <1>7
  <2>4. CASE a \in 1..Len(In(q)) /\ In(q)'[a] = In(q)[a] /\ In(q)[a] \in 1..Len(came)
    <3>1. b \in 1..Len(In(s)) /\ In(s)'[b] = In(s)[b]
      BY <2>2, <2>4, <1>6, <1>7
    <3>2. In(q)[a] = In(s)[b]
      BY <3>1, <2>4, <1>7
    <3> QED BY <3>1, <3>2, <2>4 DEF FreedOnce
  <2> QED BY <2>1, <2>3, <2>4
<1>8. ASSUME NEW x \in 1..Len(came')
      PROVE  \E q \in Places : \E a \in 1..Len(In(q)') : In(q)'[a] = x
  <2>1. CASE x = c
    <3>1. n + 1 \in 1..Len(In(0)') /\ In(0)'[n + 1] = x
      BY <2>1, <1>4 DEF c, n
    <3> QED BY <3>1, <1>1
  <2>2. CASE x # c
    <3>1. PICK q \in Places : \E a \in 1..Len(In(q)) : In(q)[a] = x
      BY <2>2, <1>6 DEF FreedOnce, Came
    <3>2. PICK a \in 1..Len(In(q)) : In(q)[a] = x
      BY <3>1
    <3>3. CASE q = 0
      <4>1. a \in 1..n
        BY <3>3, <1>4 DEF n
      <4>2. a \in 1..Len(In(q)') /\ In(q)'[a] = x
        BY <3>2, <3>3, <4>1, <1>4 DEF n
      <4> QED BY <4>2
    <3>4. CASE q # 0
      <4>1. In(q)' = In(q)
        BY <3>4, <1>3
      <4> QED BY <3>2, <4>1
    <3> QED BY <3>3, <3>4
  <2> QED BY <2>1, <2>2
<1> QED BY <1>3, <1>7, <1>8 DEF FreedOnce, Came

LEMMA SameFreed ==
    ASSUME FreedOnce, came' = came, coming' = coming, freed' = freed, Len(members') = Len(members),
           \A i \in Places : In(i)' = In(i)
    PROVE  FreedOnce'
<1>1. Places' = Places
  BY DEF Places
<1>2. Came' = Came
  BY DEF Came
<1> QED BY <1>1, <1>2 DEF FreedOnce

LEMMA OpenPanelFreed ==
    ASSUME IInv, FreedOnce, NEW i \in 1..Len(members), OpenPanel(i)
    PROVE  FreedOnce'
<1>1. /\ Places \subseteq Int /\ 0 \in Places /\ -1 \in Places /\ Len(came) \in Nat
      /\ i \in Places /\ i # 0 /\ i # -1
      /\ \A q \in Places : In(q) \in Seq(1..Len(came)) /\ Len(In(q)) \in Nat
  BY InIs DEF IInv
<1>2. /\ members \in Seq(Row(Len(panels), Len(came))) /\ Len(members) \in Nat
  BY Types DEF IInv
<1>3. /\ members' = [members EXCEPT ![i].panel = Len(panels) + 1, ![i].unshow = <<>>]
      /\ freed' = freed \o members[i].unshow /\ UNCHANGED <<came, coming>>
  BY OpenPanelIs
<1>4. /\ Len(members') = Len(members) /\ members'[i].unshow = <<>>
      /\ \A j \in 1..Len(members) : j # i => members'[j].unshow = members[j].unshow
  <2> DEFINE r == [members[i] EXCEPT !.panel = Len(panels) + 1, !.unshow = <<>>]
  <2>1. members' = [members EXCEPT ![i] = r]
    BY <1>2, <1>3
  <2>2. r.unshow = <<>>
    <3>1. members[i] \in Row(Len(panels), Len(came))
      BY <1>2
    <3> QED BY <3>1 DEF Row
  <2> HIDE DEF r
  <2>3. /\ Len(members') = Len(members) /\ members'[i] = r
        /\ \A j \in 1..Len(members) : j # i => members'[j] = members[j]
    BY <1>2, <2>1
  <2> QED BY <2>2, <2>3
<1>5. Places' = Places
  BY <1>4 DEF Places
<1>6. PICK d \in Places : d = -1
  BY <1>1
<1>7. In(i)' = <<>> /\ In(d)' = In(d) \o In(i) /\ d # i
  BY <1>1, <1>3, <1>4, <1>6 DEF In
<1>8. ASSUME NEW q \in Places, q # i, q # d PROVE In(q)' = In(q)
  <2>1. CASE q = 0
    BY <2>1, <1>3 DEF In
  <2>2. CASE q # 0
    <3>1. q \in 1..Len(members)
      BY <2>2, <1>2, <1>6, <1>8 DEF Places
    <3> QED BY <3>1, <2>2, <1>4, <1>6, <1>8 DEF In
  <2> QED BY <2>1, <2>2
<1> DEFINE n == Len(In(d))
           m == Len(In(i))
<1>9. /\ n \in Nat /\ m \in Nat /\ Len(In(d)') = n + m
      /\ \A a \in 1..n : In(d)'[a] = In(d)[a]
      /\ \A a \in 1..m : In(d)'[n + a] = In(i)[a]
  <2> DEFINE s == In(d)
             t == In(i)
  <2>1. s \in Seq(1..Len(came)) /\ t \in Seq(1..Len(came)) /\ In(d)' = s \o t
    BY <1>1, <1>6, <1>7
  <2> HIDE DEF s, t
  <2>2. /\ Len(s \o t) = Len(s) + Len(t) /\ Len(s) \in Nat /\ Len(t) \in Nat
        /\ \A a \in 1..Len(s) : (s \o t)[a] = s[a]
        /\ \A a \in 1..Len(t) : (s \o t)[Len(s) + a] = t[a]
    BY <2>1
  <2> QED BY <2>1, <2>2 DEF s, t
<1> HIDE DEF n, m
<1> DEFINE From(q, a, r, b) ==
              \/ q = d /\ r = d /\ b = a
              \/ q = d /\ r = i /\ a = n + b
              \/ q # d /\ q # i /\ r = q /\ b = a
<1>10. ASSUME NEW q \in Places, NEW a \in 1..Len(In(q)')
       PROVE  \E r \in Places : \E b \in 1..Len(In(r)) :
                 In(q)'[a] = In(r)[b] /\ From(q, a, r, b)
  <2>1. CASE q = i
    <3>1. \A b : ~(b \in 1..Len(<<>>))
      OBVIOUS
    <3> QED BY <2>1, <3>1, <1>7
  <2>2. CASE q = d /\ a <= n
    <3>1. a \in 1..n /\ In(q)'[a] = In(d)[a]
      BY <2>2, <1>9
    <3> QED BY <2>2, <3>1, <1>6 DEF n
  <2>3. CASE q = d /\ ~(a <= n)
    <3> DEFINE b == a - n
    <3>1. b \in 1..m /\ a = n + b
      BY <2>3, <1>9
    <3> HIDE DEF b
    <3>2. In(q)'[a] = In(i)[b]
      BY <2>3, <3>1, <1>9
    <3> QED BY <2>3, <3>1, <3>2, <1>1 DEF m
  <2>4. CASE q # d /\ q # i
    <3>1. In(q)' = In(q)
      BY <2>4, <1>8
    <3> QED BY <2>4, <3>1
  <2> QED BY <2>1, <2>2, <2>3, <2>4
<1>11. ASSUME NEW q \in Places, NEW s \in Places, NEW a \in 1..Len(In(q)'),
              NEW c \in 1..Len(In(s)'), In(q)'[a] = In(s)'[c]
       PROVE  q = s /\ a = c
  <2>1. PICK r \in Places : \E b \in 1..Len(In(r)) : In(q)'[a] = In(r)[b] /\ From(q, a, r, b)
    BY <1>10
  <2>2. PICK b \in 1..Len(In(r)) : In(q)'[a] = In(r)[b] /\ From(q, a, r, b)
    BY <2>1
  <2>3. PICK t \in Places : \E e \in 1..Len(In(t)) : In(s)'[c] = In(t)[e] /\ From(s, c, t, e)
    BY <1>10
  <2>4. PICK e \in 1..Len(In(t)) : In(s)'[c] = In(t)[e] /\ From(s, c, t, e)
    BY <2>3
  <2>5. r = t /\ b = e
    <3>1. In(r)[b] = In(t)[e]
      BY <1>11, <2>2, <2>4
    <3> HIDE DEF From
    <3> QED BY <3>1 DEF FreedOnce
  <2> HIDE <1>10
  <2> QED BY <2>2, <2>4, <2>5, <1>7, <1>9
<1>12. ASSUME NEW x \in 1..Len(came)
       PROVE  \E q \in Places : \E a \in 1..Len(In(q)') : In(q)'[a] = x
  <2>1. PICK q \in Places : \E a \in 1..Len(In(q)) : In(q)[a] = x
    BY DEF FreedOnce, Came
  <2>2. PICK a \in 1..Len(In(q)) : In(q)[a] = x
    BY <2>1
  <2>3. CASE q = i
    <3> DEFINE b == n + a
    <3>1. a \in 1..m
      BY <2>2, <2>3 DEF m
    <3>2. b \in 1..Len(In(d)') /\ In(d)'[b] = x
      BY <3>1, <2>2, <2>3, <1>9
    <3> HIDE DEF b
    <3> QED BY <3>2, <1>6
  <2>4. CASE q = d
    <3>1. a \in 1..Len(In(d)') /\ In(d)'[a] = x
      BY <2>2, <2>4, <1>9 DEF n
    <3> QED BY <3>1, <1>6
  <2>5. CASE q # i /\ q # d
    <3>1. In(q)' = In(q)
      BY <2>5, <1>8
    <3> QED BY <3>1, <2>2
  <2> QED BY <2>3, <2>4, <2>5
<1> QED BY <1>3, <1>5, <1>11, <1>12 DEF FreedOnce, Came

LEMMA ProcessFreed ==
    ASSUME IInv, FreedOnce, Process PROVE FreedOnce'
<1>1. PICK k : k = Head(coming)
  OBVIOUS
<1>2. TypeOK
  BY DEF IInv
<1>3. /\ k \in 1..Len(came) /\ coming # <<>> /\ coming' = Tail(coming) /\ came' = came
      /\ \/ Keeps(k) \/ Lists(k)
         \/ \E i \in 1..Len(members) : Shows(k, i) \/ Waits(k, i)
  BY <1>1, <1>2, ProcessGoes
<1>4. PICK d : Goes(k, d)
  BY <1>2, <1>3, ProcessPlaces
<1> QED BY <1>1, <1>2, <1>3, <1>4, GoesFreed

(* The actions that concern windows and drafts only.                       *)
LEMMA RestFreed ==
    ASSUME IInv, FreedOnce, NEW p \in 1..Len(panels),
           \/ ClosePanel(p) \/ SendMessage(p) \/ ClearMessage(p)
           \/ \E x \in Texts : TypeText(p, x)
    PROVE  FreedOnce'
<1>1. /\ came' = came /\ coming' = coming /\ freed' = freed
  BY DEF ClosePanel, SendMessage, ClearMessage, TypeText
<1>2. /\ Len(members') = Len(members)
      /\ \A i \in 1..Len(members) : members'[i].unshow = members[i].unshow
  <2>1. CASE members' = members
    BY <2>1
  <2>2. CASE ClosePanel(p)
    <3>1. PICK j : j = Member(panels[p].name)
      OBVIOUS
    <3>2. members' = [members EXCEPT ![j].panel = 0]
      BY <2>2, <3>1 DEF ClosePanel
    <3>3. members \in Seq(Row(Len(panels), Len(came)))
      BY Types DEF IInv
    <3> QED BY <3>2, <3>3 DEF Row
  <2> QED BY <2>1, <2>2 DEF SendMessage, ClearMessage, TypeText
<1>3. ASSUME NEW q \in Places PROVE In(q)' = In(q)
  <2>1. CASE q = -1 \/ q = 0
    BY <2>1, <1>1 DEF In
  <2>2. CASE ~(q = -1 \/ q = 0)
    <3>1. q \in 1..Len(members)
      <4>1. Len(members) \in Nat
        BY InIs DEF IInv
      <4> QED BY <4>1, <2>2 DEF Places
    <3> QED BY <3>1, <2>2, <1>2 DEF In
  <2> QED BY <2>1, <2>2
<1> QED BY <1>1, <1>2, <1>3, SameFreed

-----------------------------------------------------------------------------
(* The members and their rows.                                             *)

LEMMA RowsAre ==
    TypeOK /\ Queued => Rows = {k \in 1..Done : came[k].type = "PEER_LIST"}
<1> SUFFICES ASSUME TypeOK, Queued
             PROVE  Rows = {k \in 1..Done : came[k].type = "PEER_LIST"}
  OBVIOUS
<1>1. /\ Done \in Nat /\ Done <= Len(came) /\ Len(came) \in Nat
      /\ \A k \in 1..Len(came) : k \in ToSet(coming) <=> k > Done
  BY QueuedIs
<1>2. \A k \in 1..Len(came) : k \notin ToSet(coming) <=> k \in 1..Done
  BY <1>1
<1>3. 1..Done \subseteq 1..Len(came)
  BY <1>1
<1> QED BY <1>2, <1>3 DEF Rows, Came

LEMMA RowsNext ==
    (TypeOK /\ Queued)' => Rows' = {k \in 1..Done' : came'[k].type = "PEER_LIST"}
<1>1. TypeOK /\ Queued => Rows = {k \in 1..Done : came[k].type = "PEER_LIST"}
  BY RowsAre
<1>2. (TypeOK /\ Queued => Rows = {k \in 1..Done : came[k].type = "PEER_LIST"})'
  BY <1>1, PTL
<1> QED BY <1>2

(* No new row, and the members keep their names.                           *)
LEMMA SameListed ==
    ASSUME Listed, Rows' = Rows, \A k \in Rows : came'[k] = came[k],
           Len(members') = Len(members),
           \A i \in 1..Len(members) : members'[i].name = members[i].name
    PROVE  Listed'
<1>1. ASSUME NEW k \in Rows'
      PROVE  \E i \in 1..Len(members') : members'[i].name = came'[k].name
  <2>1. k \in Rows /\ came'[k] = came[k]
    OBVIOUS
  <2>2. PICK i \in 1..Len(members) : members[i].name = came[k].name
    BY <2>1 DEF Listed
  <2>3. members'[i].name = came'[k].name
    BY <2>1, <2>2
  <2> QED BY <2>3
<1>2. ASSUME NEW i \in 1..Len(members')
      PROVE  \E k \in Rows' : came'[k].name = members'[i].name
  <2>1. i \in 1..Len(members) /\ members'[i].name = members[i].name
    OBVIOUS
  <2>2. PICK k \in Rows : came[k].name = members[i].name
    BY <2>1 DEF Listed
  <2>3. came'[k] = came[k]
    OBVIOUS
  <2>4. came'[k].name = members'[i].name
    BY <2>1, <2>2, <2>3
  <2> QED BY <2>4
<1>3. ASSUME NEW i \in 1..Len(members'), NEW j \in 1..Len(members'), i < j
      PROVE  \E k \in Rows' : /\ came'[k].name = members'[i].name
                              /\ \A l \in Rows' : came'[l].name = members'[j].name => k < l
  <2>1. /\ i \in 1..Len(members) /\ members'[i].name = members[i].name
        /\ j \in 1..Len(members) /\ members'[j].name = members[j].name
    OBVIOUS
  <2>2. PICK k \in Rows : /\ came[k].name = members[i].name
                          /\ \A l \in Rows : came[l].name = members[j].name => k < l
    BY <1>3, <2>1 DEF Listed
  <2>3. k \in Rows' /\ came'[k].name = members'[i].name
    BY <2>1, <2>2
  <2>4. ASSUME NEW l \in Rows', came'[l].name = members'[j].name PROVE k < l
    <3>1. l \in Rows /\ came[l].name = members[j].name
      BY <2>1, <2>4
    <3> QED BY <3>1, <2>2
  <2> QED BY <2>3, <2>4
<1>4. \A i, j \in 1..Len(members') : i < j =>
         \E k \in Rows' : /\ came'[k].name = members'[i].name
                         /\ \A l \in Rows' : came'[l].name = members'[j].name => k < l
  BY <1>3, Zenon
<1> QED BY <1>1, <1>2, <1>4, Zenon DEF Listed

(* The row of a name that is a member's already.                           *)
LEMMA OldRowListed ==
    ASSUME Listed, Rows \subseteq Nat, NEW k \in Nat, \A l \in Rows : l < k,
           Rows' = Rows \cup {k}, came' = came,
           Len(members') = Len(members),
           \A i \in 1..Len(members) : members'[i].name = members[i].name,
           NEW m \in 1..Len(members), members[m].name = came[k].name
    PROVE  Listed'
<1>1. \A l \in Rows' : \E i \in 1..Len(members) : members[i].name = came[l].name
  BY DEF Listed
<1>2. \A i \in 1..Len(members) : \E l \in Rows' : came[l].name = members[i].name
  BY DEF Listed
<1>3. ASSUME NEW i \in 1..Len(members'), NEW j \in 1..Len(members'), i < j
      PROVE  \E r \in Rows' : /\ came'[r].name = members'[i].name
                              /\ \A l \in Rows' : came'[l].name = members'[j].name => r < l
  <2>1. /\ i \in 1..Len(members) /\ members'[i].name = members[i].name
        /\ j \in 1..Len(members) /\ members'[j].name = members[j].name
    OBVIOUS
  <2>2. PICK r \in Rows : /\ came[r].name = members[i].name
                          /\ \A l \in Rows : came[l].name = members[j].name => r < l
    BY <1>3, <2>1 DEF Listed
  <2>3. r \in Rows' /\ r < k /\ came'[r].name = members'[i].name
    BY <2>1, <2>2
  <2>4. ASSUME NEW l \in Rows', came'[l].name = members'[j].name PROVE r < l
    <3>1. CASE l = k
      BY <3>1, <2>3
    <3>2. CASE l # k
      <4>1. l \in Rows /\ came[l].name = members[j].name
        BY <3>2, <2>1, <2>4
      <4> QED BY <4>1, <2>2
    <3> QED BY <3>1, <3>2
  <2> QED BY <2>3, <2>4
<1>4. \A i, j \in 1..Len(members') : i < j =>
         \E r \in Rows' : /\ came'[r].name = members'[i].name
                         /\ \A l \in Rows' : came'[l].name = members'[j].name => r < l
  BY <1>3, Zenon
<1>5. ASSUME NEW l \in Rows'
      PROVE  \E i \in 1..Len(members') : members'[i].name = came'[l].name
  <2>1. PICK i \in 1..Len(members) : members[i].name = came[l].name
    BY <1>1
  <2>2. members'[i].name = came'[l].name
    BY <2>1
  <2> QED BY <2>2
<1>6. ASSUME NEW i \in 1..Len(members')
      PROVE  \E l \in Rows' : came'[l].name = members'[i].name
  <2>1. i \in 1..Len(members) /\ members'[i].name = members[i].name
    OBVIOUS
  <2>2. PICK l \in Rows' : came[l].name = members[i].name
    BY <1>2, <2>1
  <2>3. came'[l].name = members'[i].name
    BY <2>1, <2>2
  <2> QED BY <2>3
<1> QED BY <1>4, <1>5, <1>6, Zenon DEF Listed

(* The first row of a name.                                                *)
LEMMA NewRowListed ==
    ASSUME TypeOK, Listed, Rows \subseteq Nat, NEW k \in Nat, \A l \in Rows : l < k,
           Rows' = Rows \cup {k}, came' = came,
           NEW n \in Nat, NewMember(n, came[k].name), Member(came[k].name) = 0
    PROVE  Listed'
<1>1. /\ Len(members') = n /\ n = Len(members) + 1 /\ Len(members) \in Nat
      /\ members'[n].name = came[k].name
      /\ \A i \in 1..Len(members) : members'[i].name = members[i].name
  BY Types DEF NewMember
<1>2. /\ \A i \in 1..Len(members) : i \in 1..n
      /\ \A i \in 1..n : i # n => i \in 1..Len(members)
      /\ n \in 1..n
  BY <1>1
<1>3. \A l \in Rows' : \E i \in 1..n : members'[i].name = came[l].name
  <2> TAKE l \in Rows'
  <2>1. CASE l = k
    BY <2>1, <1>1, <1>2
  <2>2. CASE l # k
    <3>1. PICK i \in 1..Len(members) : members[i].name = came[l].name
      BY <2>2 DEF Listed
    <3> QED BY <3>1, <1>1, <1>2
  <2> QED BY <2>1, <2>2
<1>4. \A i \in 1..n : \E l \in Rows' : came[l].name = members'[i].name
  <2> TAKE i \in 1..n
  <2>1. CASE i = n
    BY <2>1, <1>1
  <2>2. CASE i # n
    <3>1. PICK l \in Rows : came[l].name = members[i].name
      BY <2>2, <1>2 DEF Listed
    <3> QED BY <2>2, <3>1, <1>1, <1>2
  <2> QED BY <2>1, <2>2
<1>5. ASSUME NEW l \in Rows PROVE came[l].name # came[k].name
  <2>1. PICK i \in 1..Len(members) : members[i].name = came[l].name
    BY DEF Listed
  <2>2. members[i].name # came[k].name
    BY MemberIn
  <2> QED BY <2>1, <2>2
<1>6. ASSUME NEW i \in 1..Len(members'), NEW j \in 1..Len(members'), i < j
      PROVE  \E r \in Rows' : /\ came'[r].name = members'[i].name
                              /\ \A l \in Rows' : came'[l].name = members'[j].name => r < l
  <2>1. i \in 1..Len(members)
    BY <1>1, <1>6
  <2>2. CASE j = n
    <3>1. PICK r \in Rows : came[r].name = members[i].name
      BY <2>1 DEF Listed
    <3>2. r < k
      BY <3>1
    <3> QED BY <3>1, <3>2, <2>1, <2>2, <1>1, <1>5
  <2>3. CASE j # n
    <3>1. j \in 1..Len(members)
      BY <2>3, <1>1, <1>2
    <3>2. PICK r \in Rows : /\ came[r].name = members[i].name
                            /\ \A l \in Rows : came[l].name = members[j].name => r < l
      BY <1>6, <2>1, <3>1 DEF Listed
    <3>3. r < k
      BY <3>2
    <3> QED BY <3>1, <3>2, <3>3, <2>1, <1>1
  <2> QED BY <2>2, <2>3
<1>7. \A i, j \in 1..Len(members') : i < j =>
         \E r \in Rows' : /\ came'[r].name = members'[i].name
                         /\ \A l \in Rows' : came'[l].name = members'[j].name => r < l
  BY <1>6, Zenon
<1>8. /\ \A l \in Rows' : \E i \in 1..Len(members') : members'[i].name = came'[l].name
      /\ \A i \in 1..Len(members') : \E l \in Rows' : came'[l].name = members'[i].name
  BY <1>1, <1>3, <1>4
<1> QED BY <1>7, <1>8, Zenon DEF Listed

-----------------------------------------------------------------------------
(* The invariant about chats and members.                                  *)

ChatInv == IInv /\ Queued /\ Latest /\ Later /\ FreedOnce /\ SenderShown /\ Listed

LEMMA InitiallyChats == Init => ChatInv
<1> SUFFICES ASSUME Init PROVE ChatInv
  OBVIOUS
<1>1. /\ came = <<>> /\ coming = <<>> /\ members = <<>> /\ freed = <<>>
      /\ Len(<<>>) = 0
  BY DEF Init
<1>2. \A i : ~(i \in 1..0)
  OBVIOUS
<1>3. Queued /\ Latest /\ Later /\ SenderShown
  BY <1>1, <1>2 DEF Queued, Latest, Later, ShownInOrder, Handled, SenderShown
<1>4. Rows = {}
  BY <1>1, <1>2 DEF Rows, Came
<1>5. Listed
  BY <1>1, <1>2, <1>4 DEF Listed
<1>6. FreedOnce
  <2>1. Places \subseteq {-1, 0}
    BY <1>1 DEF Places
  <2>2. \A q \in Places : In(q) = <<>>
    BY <2>1, <1>1 DEF In
  <2> QED BY <2>2, <1>1, <1>2 DEF FreedOnce, Came
<1> QED BY <1>3, <1>5, <1>6, Initially DEF ChatInv

LEMMA ArriveChats ==
    ASSUME ChatInv, Arrive, IInv' PROVE ChatInv'
<1>1. TypeOK /\ TypeOK' /\ Distinct /\ Queued /\ Latest
  BY DEF ChatInv, IInv
<1>2. /\ Queued' /\ Done' = Done /\ Len(came') = Len(came) + 1
      /\ \A k \in 1..Len(came) : came'[k] = came[k]
  BY <1>1, ArriveQueued
<1>3. members' = members /\ panels' = panels
  BY DEF Arrive
<1>4. SameChats /\ Latest'
  BY <1>1, <1>3, RestSame
<1>5. Done \in Nat /\ Done <= Len(came) /\ Len(came) \in Nat
  BY <1>1, QueuedIs
<1>6. \A k \in 1..Done : k \in 1..Len(came) /\ came'[k] = came[k]
  BY <1>2, <1>5
<1>7. Onward
  BY <1>2, <1>5, <1>6 DEF Onward
<1>8. Later' /\ SenderShown'
  BY <1>1, <1>4, <1>7, SameLater, SameSender DEF ChatInv
<1>9. FreedOnce'
  BY <1>1, ArriveFreed DEF ChatInv
<1>10. Rows' = Rows /\ \A k \in Rows : came'[k] = came[k]
  <2>1. Rows = {k \in 1..Done : came[k].type = "PEER_LIST"}
    BY <1>1, RowsAre
  <2>2. Rows' = {k \in 1..Done : came'[k].type = "PEER_LIST"}
    BY <1>1, <1>2, RowsNext
  <2> QED BY <2>1, <2>2, <1>6
<1>11. Listed'
  BY <1>3, <1>10, SameListed DEF ChatInv
<1> QED BY <1>2, <1>4, <1>8, <1>9, <1>11 DEF ChatInv

LEMMA ProcessChats ==
    ASSUME ChatInv, Process, IInv' PROVE ChatInv'
<1>1. TypeOK /\ TypeOK' /\ Distinct /\ Queued /\ Latest /\ IInv
  BY DEF ChatInv, IInv
<1>2. PICK k : k = Head(coming)
  OBVIOUS
<1>3. /\ k \in 1..Len(came) /\ came[k] \in Incoming
      /\ coming # <<>> /\ coming' = Tail(coming) /\ came' = came
      /\ \/ Keeps(k) \/ Lists(k)
         \/ \E i \in 1..Len(members) : Shows(k, i) \/ Waits(k, i)
  BY <1>1, <1>2, ProcessGoes
<1>4. Queued' /\ Done' = Done + 1 /\ k = Done + 1 /\ Done \in Nat
  BY <1>1, <1>2, <1>3, ProcessQueued, QueuedIs
<1>5. Onward
  BY <1>3, <1>4 DEF Onward
<1>6. FreedOnce'
  BY <1>1, ProcessFreed DEF ChatInv
<1>7. /\ Rows = {l \in 1..Done : came[l].type = "PEER_LIST"}
      /\ Rows' = {l \in 1..(Done + 1) : came[l].type = "PEER_LIST"}
  BY <1>1, <1>3, <1>4, RowsAre, RowsNext
<1>8. /\ Rows \subseteq Nat /\ k \in Nat /\ \A l \in Rows : l < k
      /\ came[k].type = "PEER_LIST" => Rows' = Rows \cup {k}
      /\ came[k].type # "PEER_LIST" => Rows' = Rows
  <2>1. 1..(Done + 1) = 1..Done \cup {k}
    BY <1>4
  <2> QED BY <2>1, <1>4, <1>7
<1> DEFINE Rest == Latest' /\ Later' /\ SenderShown' /\ Listed'
<1>9. ASSUME Keeps(k) PROVE Rest
  <2>1. members' = members /\ panels' = panels
    BY <1>9 DEF Keeps
  <2>2. SameChats /\ Latest'
    BY <1>1, <2>1, RestSame
  <2>3. Later' /\ SenderShown'
    BY <1>1, <1>5, <2>2, SameLater, SameSender DEF ChatInv
  <2>4. CASE came[k].type = "PEER_LIST"
    <3>1. PICK m : m = Member(came[k].name)
      OBVIOUS
    <3>2. m \in 1..Len(members) /\ members[m].name = came[k].name
      <4>1. m \in 0..Len(members) /\ m # 0 /\ Len(members) \in Nat
        BY <1>1, <1>9, <2>4, <3>1, MemberIn, Types DEF Keeps
      <4>2. members[m].name = came[k].name
        BY <1>1, <3>1, <4>1, MemberIn
      <4> QED BY <4>1, <4>2
    <3>3. Listed'
      BY <1>3, <1>8, <2>1, <2>4, <3>2, OldRowListed DEF ChatInv
    <3> QED BY <2>2, <2>3, <3>3
  <2>5. CASE came[k].type # "PEER_LIST"
    <3>1. Listed'
      BY <1>3, <1>8, <2>1, <2>5, SameListed DEF ChatInv
    <3> QED BY <2>2, <2>3, <3>1
  <2> QED BY <2>4, <2>5
<1>10. ASSUME Lists(k) PROVE Rest
  <2>1. Latest' /\ \E n \in Nat : NewMember(n, came[k].name)
    BY <1>1, <1>3, <1>10, ListsNew
  <2>2. PICK n \in Nat : NewMember(n, came[k].name)
    BY <2>1
  <2>3. Later' /\ SenderShown'
    BY <1>1, <1>5, <2>2, NewMemberLater, NewMemberSender DEF ChatInv
  <2>4. came[k].type = "PEER_LIST" /\ Member(came[k].name) = 0
    BY <1>10 DEF Lists
  <2>5. Listed'
    BY <1>1, <1>3, <1>8, <2>2, <2>4, NewRowListed DEF ChatInv
  <2> QED BY <2>1, <2>3, <2>5
<1>11. ASSUME NEW i \in 1..Len(members), Shows(k, i) \/ Waits(k, i) PROVE Rest
  <2>1. Latest' /\ \E w \in Shelves : Adds(k, i, w)
    BY <1>1, <1>11, ShowsAdds, WaitsAdds
  <2>2. PICK w \in Shelves : Adds(k, i, w)
    BY <2>1
  <2>3. came[k].type = "CHART" /\ Sender(came[k].from) = i /\ came[k].from \in Names
    <3>1. came[k].type = "CHART" /\ Sender(came[k].from) = i
      BY <1>11 DEF Shows, Waits
    <3> QED BY <3>1, <1>3 DEF Incoming
  <2>4. Rightly(i, came[k].from)
    BY <1>1, <2>3, SenderRightly
  <2>5. Later'
    BY <1>1, <1>3, <1>4, <1>5, <1>8, <2>2, <2>3, AddsLater DEF ChatInv
  <2>6. SenderShown'
    BY <1>1, <1>3, <1>5, <2>2, <2>4, AddsSender DEF ChatInv
  <2>7. Listed'
    <3>1. /\ Len(members') = Len(members)
          /\ \A j \in 1..Len(members) : members'[j].name = members[j].name
      BY <2>2 DEF Adds
    <3> QED BY <1>3, <1>8, <2>3, <3>1, SameListed DEF ChatInv
  <2> QED BY <2>1, <2>5, <2>6, <2>7
<1>12. Rest
  BY <1>3, <1>9, <1>10, <1>11
<1> QED BY <1>4, <1>6, <1>12 DEF ChatInv

(* The actions that leave the packets that came alone.                     *)
LEMMA StillHere ==
    ASSUME TypeOK, TypeOK', Queued, UNCHANGED <<came, coming>>
    PROVE  /\ Queued' /\ Onward
           /\ Rows' = Rows /\ \A k \in Rows : came'[k] = came[k]
<1>1. Queued'
  BY DEF Queued, Done
<1>2. Done' = Done /\ Done \in Nat
  BY QueuedIs DEF Done
<1>3. Onward
  BY <1>2 DEF Onward
<1>4. Rows' = Rows
  BY DEF Rows, Came
<1> QED BY <1>1, <1>3, <1>4

LEMMA OpenPanelChats ==
    ASSUME ChatInv, NEW i \in 1..Len(members), OpenPanel(i), IInv' PROVE ChatInv'
<1>1. TypeOK /\ TypeOK' /\ Distinct /\ Queued /\ Latest /\ IInv
  BY DEF ChatInv, IInv
<1>2. UNCHANGED <<came, coming>>
  BY DEF OpenPanel
<1>3. /\ Queued' /\ Onward
      /\ Rows' = Rows /\ \A k \in Rows : came'[k] = came[k]
  BY <1>1, <1>2, StillHere
<1>4. Latest' /\ \E n \in Nat : Opens(i, n)
  BY <1>1, OpenPanelOpens
<1>5. PICK n \in Nat : Opens(i, n)
  BY <1>4
<1>6. Later' /\ SenderShown'
  BY <1>1, <1>3, <1>5, OpensLater, OpensSender DEF ChatInv
<1>7. FreedOnce'
  BY <1>1, OpenPanelFreed DEF ChatInv
<1>8. Listed'
  <2>1. /\ Len(members') = Len(members)
        /\ \A j \in 1..Len(members) : members'[j].name = members[j].name
    BY <1>5 DEF Opens
  <2> QED BY <1>3, <2>1, SameListed DEF ChatInv
<1> QED BY <1>3, <1>4, <1>6, <1>7, <1>8 DEF ChatInv

LEMMA RestChats ==
    ASSUME ChatInv, NEW p \in 1..Len(panels), IInv',
           \/ ClosePanel(p) \/ SendMessage(p) \/ ClearMessage(p)
           \/ \E x \in Texts : TypeText(p, x)
    PROVE  ChatInv'
<1>1. TypeOK /\ TypeOK' /\ Distinct /\ Known /\ Queued /\ Latest /\ IInv
  BY DEF ChatInv, IInv
<1>2. UNCHANGED <<came, coming>>
  BY DEF ClosePanel, SendMessage, ClearMessage, TypeText
<1>3. /\ Queued' /\ Onward
      /\ Rows' = Rows /\ \A k \in Rows : came'[k] = came[k]
  BY <1>1, <1>2, StillHere
<1>4. SameChats /\ Latest'
  BY <1>1, ClosePanelSame, WriteSame
<1>5. Later' /\ SenderShown'
  BY <1>1, <1>3, <1>4, SameLater, SameSender DEF ChatInv
<1>6. FreedOnce'
  BY <1>1, RestFreed DEF ChatInv
<1>7. Listed'
  BY <1>3, <1>4, SameListed DEF ChatInv, SameChats
<1> QED BY <1>3, <1>4, <1>5, <1>6, <1>7 DEF ChatInv

LEMMA NothingChats ==
    ASSUME ChatInv, UNCHANGED vars, IInv' PROVE ChatInv'
<1>1. TypeOK /\ TypeOK' /\ Distinct /\ Queued /\ Latest /\ IInv
  BY DEF ChatInv, IInv
<1>2. UNCHANGED <<came, coming, members, panels, freed>>
  BY DEF vars
<1>3. /\ Queued' /\ Onward
      /\ Rows' = Rows /\ \A k \in Rows : came'[k] = came[k]
  BY <1>1, <1>2, StillHere
<1>4. SameChats /\ Latest'
  BY <1>1, <1>2, RestSame
<1>5. Later' /\ SenderShown'
  BY <1>1, <1>3, <1>4, SameLater, SameSender DEF ChatInv
<1>6. FreedOnce'
  <2>1. \A q \in Places : In(q)' = In(q)
    BY <1>2 DEF In
  <2> QED BY <1>2, <2>1, SameFreed DEF ChatInv
<1>7. Listed'
  BY <1>2, <1>3, SameListed DEF ChatInv
<1> QED BY <1>3, <1>4, <1>5, <1>6, <1>7 DEF ChatInv

LEMMA InductiveChats == ChatInv /\ [Next]_vars => ChatInv'
<1> SUFFICES ASSUME ChatInv, [Next]_vars PROVE ChatInv'
  OBVIOUS
<1>1. IInv'
  BY Inductive DEF ChatInv
<1>2. CASE Arrive
  BY <1>1, <1>2, ArriveChats
<1>3. CASE Process
  BY <1>1, <1>3, ProcessChats
<1>4. ASSUME NEW i \in 1..Len(members), OpenPanel(i) PROVE ChatInv'
  BY <1>1, <1>4, OpenPanelChats
<1>5. ASSUME NEW p \in 1..Len(panels),
             \/ ClosePanel(p) \/ ClearMessage(p) \/ SendMessage(p)
             \/ \E x \in Texts : TypeText(p, x)
      PROVE  ChatInv'
  BY <1>1, <1>5, RestChats
<1>6. CASE UNCHANGED vars
  BY <1>1, <1>6, NothingChats
<1> QED BY <1>2, <1>3, <1>4, <1>5, <1>6 DEF Next

THEOREM ChatInvariance == Spec => []ChatInv
<1>1. Init => ChatInv
  BY InitiallyChats
<1>2. ChatInv /\ [Next]_vars => ChatInv'
  BY InductiveChats
<1> QED BY <1>1, <1>2, PTL DEF Spec

(* No packet is lost, and none is given to free twice or freed while it    *)
(* waits (gui_client.c:306, :474, :517, main_panel.c:30).                  *)
THEOREM FreedOnceCorrect == Spec => []FreedOnce
<1>1. ChatInv => FreedOnce
  BY DEF ChatInv
<1> QED BY <1>1, ChatInvariance, PTL

(* The chats with a member are in the order in which they came, over all   *)
(* its windows and what waits (main_panel.c:23, gui_client.c:303).         *)
THEOREM ShownInOrderCorrect == Spec => []ShownInOrder
<1>1. ChatInv => ShownInOrder
  BY DEF ChatInv, Later
<1> QED BY <1>1, ChatInvariance, PTL

(* A chat is with a member whose name begins with the sender's, with the   *)
(* sender itself when it was listed before such members (gui_client.c:301).*)
THEOREM SenderShownCorrect == Spec => []SenderShown
<1>1. ChatInv => SenderShown
  BY DEF ChatInv
<1> QED BY <1>1, ChatInvariance, PTL

(* The members are those whose rows have been processed, in the order of   *)
(* their first rows, each of them once (gui_client.c:462).                 *)
THEOREM ListedCorrect == Spec => []Listed
<1>1. ChatInv => Listed
  BY DEF ChatInv
<1> QED BY <1>1, ChatInvariance, PTL
=============================================================================
