------------------------------ MODULE CodecProofs ------------------------------
(***************************************************************************)
(* Theorems about Codec, for every size of a char that can tell the types  *)
(* of packets apart: what is read in a packet is what was written into it. *)
(***************************************************************************)
EXTENDS Codec, SequenceTheorems, TLAPS

(* What a field can hold: a name, the text of a chat, an int.              *)
Name == {s \in Seq(Chars) : Len(s) < Byte \div 2}
Content16 == {s \in Seq(Chars) : Len(s) < Byte * Byte}
Int32 == {n \in Nat : n < Byte * Byte * Byte * Byte}

-----------------------------------------------------------------------------
(* Numbers.                                                                *)

LEMMA DivMod ==
    ASSUME NEW n \in Nat
    PROVE  /\ n \div Byte \in Nat
           /\ n % Byte \in Chars
           /\ n = (n \div Byte) * Byte + (n % Byte)
BY ByteAssumption DEF Chars

LEMMA DivSmaller ==
    ASSUME NEW n \in Nat, NEW b \in Nat, n < b * Byte
    PROVE  n \div Byte < b
<1> DEFINE q == n \div Byte
<1>1. q \in Nat /\ n % Byte \in Nat /\ n = q * Byte + (n % Byte)
  BY DivMod DEF Chars
<1>2. q * Byte < b * Byte
  <2>1. q * Byte \in Nat /\ b * Byte \in Nat
    BY <1>1, ByteAssumption
  <2> QED BY <2>1, <1>1
<1>3. ASSUME q >= b PROVE FALSE
  <2>1. PICK d \in Nat : q = b + d
    <3>1. q - b \in Nat /\ q = b + (q - b)
      BY <1>1, <1>3
    <3> QED BY <3>1
  <2>2. q * Byte = b * Byte + d * Byte /\ d * Byte \in Nat
    BY <2>1, ByteAssumption
  <2> QED BY <2>2, <1>2, ByteAssumption
<1> QED BY <1>1, <1>3

LEMMA SmallMod ==
    ASSUME NEW n \in Chars
    PROVE  n \div Byte = 0 /\ n % Byte = n
BY ByteAssumption DEF Chars

-----------------------------------------------------------------------------
(* Where a text stands in a packet.                                        *)

Holds(c, at, t) ==
    /\ at \in Nat \ {0} /\ at + Len(t) <= Len(c) + 1
    /\ \A i \in 1..Len(t) : c[at + i - 1] = t[i]

LEMMA HoldsAll ==
    ASSUME NEW c \in Seq(Chars)
    PROVE  Holds(c, 1, c)
BY DEF Holds

LEMMA HoldsParts ==
    ASSUME NEW c \in Seq(Chars), NEW at, NEW s \in Seq(Chars), NEW t \in Seq(Chars),
           Holds(c, at, s \o t)
    PROVE  Holds(c, at, s) /\ Holds(c, at + Len(s), t)
<1>1. /\ Len(s \o t) = Len(s) + Len(t)
      /\ \A i \in 1..(Len(s) + Len(t)) :
            (s \o t)[i] = IF i <= Len(s) THEN s[i] ELSE t[i - Len(s)]
  BY ConcatProperties
<1>2. Holds(c, at, s)
  BY <1>1 DEF Holds
<1>3. ASSUME NEW i \in 1..Len(t)
      PROVE  c[at + Len(s) + i - 1] = t[i]
  <2>1. Len(s) + i \in 1..(Len(s) + Len(t)) /\ ~(Len(s) + i <= Len(s))
        /\ Len(s) + i - Len(s) = i
    OBVIOUS
  <2>2. c[at + (Len(s) + i) - 1] = (s \o t)[Len(s) + i]
    BY <2>1, <1>1 DEF Holds
  <2>3. at + (Len(s) + i) - 1 = at + Len(s) + i - 1
    BY DEF Holds
  <2> QED BY <2>1, <2>2, <2>3, <1>1
<1> QED BY <1>1, <1>2, <1>3 DEF Holds

LEMMA Concat ==
    ASSUME NEW s \in Seq(Chars), NEW t \in Seq(Chars)
    PROVE  s \o t \in Seq(Chars) /\ Len(s \o t) = Len(s) + Len(t)
BY ConcatProperties

(* A text that stands somewhere is cut out there.                          *)
LEMMA CutOut ==
    ASSUME NEW c \in Seq(Chars), NEW at, NEW t \in Seq(Chars), Holds(c, at, t)
    PROVE  SubSeq(c, at, at + Len(t) - 1) = t
<1>1. at \in Nat \ {0} /\ at + Len(t) - 1 <= Len(c) /\ Len(t) \in Nat /\ Len(c) \in Nat
  BY DEF Holds
<1>2. \A i \in at..(at + Len(t) - 1) : c[i] \in Chars
  BY <1>1
<1> DEFINE u == SubSeq(c, at, at + Len(t) - 1)
<1>3. /\ u \in Seq(Chars)
      /\ Len(u) = IF at <= at + Len(t) - 1 THEN (at + Len(t) - 1) - at + 1 ELSE 0
      /\ \A i \in 1..((at + Len(t) - 1) - at + 1) : u[i] = c[at + i - 1]
  <2>1. at \in Int /\ at + Len(t) - 1 \in Int
    BY <1>1
  <2> QED BY <2>1, <1>2, SubSeqProperties
<1>4. Len(u) = Len(t)
  BY <1>1, <1>3
<1>5. \A i \in 1..Len(u) : u[i] = t[i]
  BY <1>1, <1>3, <1>4 DEF Holds
<1> QED BY <1>3, <1>4, <1>5, SeqEqual

-----------------------------------------------------------------------------
(* Fields.                                                                 *)

LEMMA ShortType ==
    ASSUME NEW n \in Nat
    PROVE  /\ Short(n) \in Seq(Chars) /\ Len(Short(n)) = 2
           /\ Short(n)[1] = (n \div Byte) % Byte /\ Short(n)[2] = n % Byte
<1>1. n % Byte \in Chars /\ n \div Byte \in Nat
  BY DivMod
<1>2. (n \div Byte) % Byte \in Chars
  BY <1>1, DivMod
<1> QED BY <1>1, <1>2 DEF Short

(* Two chars hold a number below Byte * Byte, whatever Byte is.            *)
LEMMA ShortRead ==
    ASSUME NEW c \in Seq(Chars), NEW at, NEW n \in Nat, n < Byte * Byte,
           Holds(c, at, Short(n))
    PROVE  ShortAt(c, at) = n
<1> DEFINE q == n \div Byte
<1>1. q \in Nat /\ n = q * Byte + (n % Byte)
  BY DivMod
<1>2. q < Byte
  BY DivSmaller, ByteAssumption
<1>3. q % Byte = q
  BY <1>1, <1>2, SmallMod, ByteAssumption DEF Chars
<1>4. c[at] = q /\ c[at + 1] = n % Byte
  <2>1. 1 \in 1..Len(Short(n)) /\ 2 \in 1..Len(Short(n))
    BY ShortType
  <2>2. at \in Nat
    BY DEF Holds
  <2>3. c[at + 1 - 1] = Short(n)[1] /\ c[at + 2 - 1] = Short(n)[2]
    BY <2>1 DEF Holds
  <2>4. at + 1 - 1 = at /\ at + 2 - 1 = at + 1
    BY <2>2
  <2> QED BY <2>3, <2>4, <1>3, ShortType
<1> QED BY <1>1, <1>4 DEF ShortAt

LEMMA LongType ==
    ASSUME NEW n \in Nat
    PROVE  Long(n) \in Seq(Chars) /\ Len(Long(n)) = 4
<1>1. (n \div Byte) \div Byte \in Nat
  BY DivMod
<1>2. /\ Short((n \div Byte) \div Byte) \in Seq(Chars)
      /\ Len(Short((n \div Byte) \div Byte)) = 2
  BY <1>1, ShortType
<1>3. Short(n) \in Seq(Chars) /\ Len(Short(n)) = 2
  BY ShortType
<1>4. /\ Short((n \div Byte) \div Byte) \o Short(n) \in Seq(Chars)
      /\ Len(Short((n \div Byte) \div Byte) \o Short(n))
            = Len(Short((n \div Byte) \div Byte)) + Len(Short(n))
  BY <1>2, <1>3, Concat, Zenon
<1>5. Len(Short((n \div Byte) \div Byte) \o Short(n)) = 4
  BY <1>2, <1>3, <1>4
<1> QED BY <1>4, <1>5 DEF Long

(* Four chars hold an int.                                                 *)
LEMMA LongRead ==
    ASSUME NEW c \in Seq(Chars), NEW at, NEW n \in Int32, Holds(c, at, Long(n))
    PROVE  LongAt(c, at) = n
<1> DEFINE q == n \div Byte
           r == q \div Byte
<1>1. /\ n \in Nat /\ q \in Nat /\ n = q * Byte + (n % Byte)
      /\ r \in Nat /\ q = r * Byte + (q % Byte)
  BY DivMod DEF Int32
<1>2. r < Byte * Byte
  <2>1. /\ Byte * Byte \in Nat /\ Byte * Byte * Byte \in Nat
        /\ n < (Byte * Byte * Byte) * Byte
    BY ByteAssumption DEF Int32
  <2>2. q < Byte * Byte * Byte
    BY <2>1, <1>1, DivSmaller
  <2> QED BY <2>1, <2>2, <1>1, DivSmaller
<1>3. Short(r) \in Seq(Chars) /\ Len(Short(r)) = 2 /\ Short(n) \in Seq(Chars)
  BY <1>1, ShortType
<1>4. Holds(c, at, Short(r)) /\ Holds(c, at + 2, Short(n))
  BY <1>3, HoldsParts DEF Long
<1>5. ShortAt(c, at) = r
  BY <1>1, <1>2, <1>4, ShortRead
<1>6. c[at + 2] = q % Byte /\ c[at + 3] = n % Byte
  <2>1. 1 \in 1..Len(Short(n)) /\ 2 \in 1..Len(Short(n)) /\ at \in Nat
    BY <1>1, ShortType DEF Holds
  <2>2. c[(at + 2) + 1 - 1] = Short(n)[1] /\ c[(at + 2) + 2 - 1] = Short(n)[2]
    BY <2>1, <1>4 DEF Holds
  <2>3. (at + 2) + 1 - 1 = at + 2 /\ (at + 2) + 2 - 1 = at + 3
    BY <2>1
  <2> QED BY <2>2, <2>3, <1>1, ShortType
<1> QED BY <1>1, <1>5, <1>6 DEF LongAt

LEMMA SizedType ==
    ASSUME NEW s \in Seq(Chars)
    PROVE  Sized(s) \in Seq(Chars) /\ Len(Sized(s)) = Len(s) + 1
<1>1. Len(s) % Byte \in Chars
  BY DivMod
<1>2. <<Len(s) % Byte>> \in Seq(Chars) /\ Len(<<Len(s) % Byte>>) = 1
  BY <1>1
<1> QED BY <1>2, Concat DEF Sized

(* A name, read back through a signed char.                                *)
LEMMA SizedRead ==
    ASSUME NEW c \in Seq(Chars), NEW at, NEW s \in Name, Holds(c, at, Sized(s))
    PROVE  TextAt(c, at) = s /\ After(c, at) = at + Len(s) + 1
<1>1. s \in Seq(Chars) /\ Len(s) \in Nat /\ Len(s) < Byte \div 2 /\ Byte \div 2 <= Byte
  BY ByteAssumption DEF Name
<1>2. Len(s) % Byte = Len(s)
  BY <1>1, SmallMod, ByteAssumption DEF Chars
<1>3. <<Len(s)>> \in Seq(Chars) /\ Len(<<Len(s)>>) = 1 /\ <<Len(s)>>[1] = Len(s)
  BY <1>1, ByteAssumption DEF Chars
<1>4. Holds(c, at, <<Len(s)>>) /\ Holds(c, at + 1, s)
  BY <1>1, <1>2, <1>3, HoldsParts DEF Sized
<1>5. at \in Nat /\ c[at] = Len(s)
  <2>1. at \in Nat /\ c[at + 1 - 1] = Len(s)
    BY <1>3, <1>4 DEF Holds
  <2> QED BY <2>1
<1>6. Signed(c[at]) = Len(s)
  BY <1>1, <1>5 DEF Signed
<1>7. SubSeq(c, at + 1, (at + 1) + Len(s) - 1) = s
  BY <1>1, <1>4, CutOut
<1>8. (at + 1) + Len(s) - 1 = at + Len(s) /\ at + 1 + Len(s) = at + Len(s) + 1
  BY <1>1, <1>5
<1> QED BY <1>6, <1>7, <1>8 DEF TextAt, After

-----------------------------------------------------------------------------
(* Packets.                                                                *)

LEMMA PacketType ==
    ASSUME NEW type \in 0..3, NEW body \in Seq(Chars)
    PROVE  Packet(type, body) \in Seq(Chars) /\ Len(Packet(type, body)) = 12 + Len(body)
<1> DEFINE length == MSG_HEAD_LENGTH + Len(body)
<1>1. 1 \in Nat /\ type \in Nat /\ length \in Nat
  BY DEF MSG_HEAD_LENGTH
<1>2. /\ Long(1) \in Seq(Chars) /\ Len(Long(1)) = 4
      /\ Long(type) \in Seq(Chars) /\ Len(Long(type)) = 4
      /\ Long(length) \in Seq(Chars) /\ Len(Long(length)) = 4
  BY <1>1, LongType
<1>3. Long(1) \o Long(type) \in Seq(Chars) /\ Len(Long(1) \o Long(type)) = 8
  <2>1. /\ Long(1) \o Long(type) \in Seq(Chars)
        /\ Len(Long(1) \o Long(type)) = Len(Long(1)) + Len(Long(type))
    BY <1>2, Concat, Zenon
  <2> QED BY <1>2, <2>1
<1>4. /\ (Long(1) \o Long(type)) \o Long(length) \in Seq(Chars)
      /\ Len((Long(1) \o Long(type)) \o Long(length)) = 12
  BY <1>2, <1>3, Concat
<1> QED BY <1>4, Concat DEF Packet

(* The head of a packet is read as it was written, and the body is where   *)
(* MESSAGE_BODY looks for it.                                              *)
THEOREM HeadRead ==
    ASSUME NEW type \in 0..3, NEW body \in Seq(Chars),
           12 + Len(body) < Byte * Byte * Byte * Byte
    PROVE  /\ message_parse_head(Packet(type, body)) =
                [version |-> 1, type |-> type, length |-> Len(Packet(type, body))]
           /\ Holds(Packet(type, body), Body, body)
<1> DEFINE length == MSG_HEAD_LENGTH + Len(body)
           c == Packet(type, body)
           h == Long(1) \o Long(type)
           g == h \o Long(length)
<1>1. length \in Int32 /\ length = 12 + Len(body)
  BY DEF MSG_HEAD_LENGTH, Int32
<1>2. 1 \in Int32 /\ type \in Int32
  <2>1. Byte * Byte \in Nat /\ Byte * Byte >= 4
    <3>1. PICK d \in Nat : Byte = d + 4
      <4>1. Byte - 4 \in Nat /\ Byte = (Byte - 4) + 4
        BY ByteAssumption
      <4> QED BY <4>1
    <3>2. Byte * Byte = d * d + 8 * d + 16 /\ d * d \in Nat
      BY <3>1
    <3> QED BY <3>1, <3>2
  <2>2. PICK e \in Nat : Byte * Byte = e + 4
    <3>1. Byte * Byte - 4 \in Nat /\ Byte * Byte = (Byte * Byte - 4) + 4
      BY <2>1
    <3> QED BY <3>1
  <2>3. (Byte * Byte) * (Byte * Byte) = e * e + 8 * e + 16 /\ e * e \in Nat
    BY <2>2
  <2>4. Byte * Byte * Byte * Byte = (Byte * Byte) * (Byte * Byte)
    BY ByteAssumption
  <2>5. Byte * Byte * Byte * Byte >= 4
    BY <2>2, <2>3, <2>4
  <2>6. Byte * Byte * Byte * Byte \in Nat
    BY ByteAssumption
  <2> QED BY <2>5, <2>6 DEF Int32
<1>3. /\ Long(1) \in Seq(Chars) /\ Len(Long(1)) = 4
      /\ Long(type) \in Seq(Chars) /\ Len(Long(type)) = 4
      /\ Long(length) \in Seq(Chars) /\ Len(Long(length)) = 4
  BY <1>1, <1>2, LongType DEF Int32
<1>4. h \in Seq(Chars) /\ Len(h) = 8
  <2>1. h \in Seq(Chars) /\ Len(h) = Len(Long(1)) + Len(Long(type))
    BY <1>3, Concat, Zenon
  <2> QED BY <1>3, <2>1
<1>5. g \in Seq(Chars) /\ Len(g) = 12
  BY <1>3, <1>4, Concat
<1>6. c \in Seq(Chars) /\ Len(c) = length /\ c = g \o body
  BY <1>1, PacketType DEF Packet
<1>7. Holds(c, 1, c)
  BY <1>6, HoldsAll
<1>8. Holds(c, 1, g) /\ Holds(c, 13, body)
  <2>1. Holds(c, 1, g) /\ Holds(c, 1 + Len(g), body)
    BY <1>5, <1>6, <1>7, HoldsParts
  <2> QED BY <2>1, <1>5
<1>9. Holds(c, 1, h) /\ Holds(c, 9, Long(length))
  <2>1. Holds(c, 1, h) /\ Holds(c, 1 + Len(h), Long(length))
    BY <1>3, <1>4, <1>6, <1>8, HoldsParts
  <2> QED BY <2>1, <1>4
<1>10. Holds(c, 1, Long(1)) /\ Holds(c, 5, Long(type))
  <2>1. Holds(c, 1, Long(1)) /\ Holds(c, 1 + Len(Long(1)), Long(type))
    BY <1>3, <1>6, <1>9, HoldsParts
  <2>2. Len(Long(1)) = 4
    BY <1>3, Zenon
  <2>3. 1 + 4 = 5
    OBVIOUS
  <2> QED BY <2>1, <2>2, <2>3, Zenon
<1>11. LongAt(c, 1) = 1 /\ LongAt(c, 5) = type /\ LongAt(c, 9) = length
  BY <1>1, <1>2, <1>6, <1>9, <1>10, LongRead
<1> QED BY <1>6, <1>8, <1>11 DEF message_parse_head, Body, MSG_HEAD_LENGTH

(* A row of the member list: ball_pack_relationship_packet writes what     *)
(* ball_main_panel_update_peer_list reads.                                 *)
THEOREM PeerListRead ==
    ASSUME NEW name \in Name, NEW c \in Seq(Chars), Holds(c, Body, PeerList(name))
    PROVE  PeerListOf(c) = [name |-> name]
BY SizedRead DEF PeerList, PeerListOf

(* An answer: ball_respond_login_msg writes what                           *)
(* ball_msg_proc_login_respond reads.                                      *)
THEOREM RespondRead ==
    ASSUME NEW status \in Int32, NEW c \in Seq(Chars), Holds(c, Body, Respond(status))
    PROVE  RespondOf(c) = [status |-> status]
BY LongRead DEF Respond, RespondOf

(* A login: ball_start_transfor_routine writes what message_proc_login     *)
(* reads.                                                                  *)
THEOREM LoginRead ==
    ASSUME NEW name \in Name, NEW passwd \in Name, NEW c \in Seq(Chars),
           Holds(c, Body, Login(name, passwd))
    PROVE  LoginOf(c) = [name |-> name, passwd |-> passwd]
<1>1. /\ Sized(name) \in Seq(Chars) /\ Len(Sized(name)) = Len(name) + 1
      /\ Sized(passwd) \in Seq(Chars)
  BY SizedType DEF Name
<1>2. Holds(c, Body, Sized(name)) /\ Holds(c, Body + Len(Sized(name)), Sized(passwd))
  BY <1>1, HoldsParts DEF Login
<1>3. TextAt(c, Body) = name /\ After(c, Body) = Body + Len(name) + 1
  BY <1>2, SizedRead
<1>4. Body + Len(Sized(name)) = After(c, Body)
  BY <1>1, <1>3 DEF Body, MSG_HEAD_LENGTH, Name
<1>5. TextAt(c, After(c, Body)) = passwd
  BY <1>2, <1>4, SizedRead
<1> QED BY <1>3, <1>5 DEF LoginOf

(* A chat: package_message writes what message_parse_body reads, for texts *)
(* of which the length needs both its bytes too.                           *)
THEOREM ChartRead ==
    ASSUME NEW from \in Name, NEW to \in Name, NEW msg \in Content16,
           NEW c \in Seq(Chars), Holds(c, Body, Chart(from, to, msg))
    PROVE  ChartOf(c) = [from |-> from, to |-> to, msg |-> msg]
<1> DEFINE two == Sized(from) \o Sized(to)
           three == two \o Short(Len(msg))
           at == After(c, Body)
           len == After(c, at)
<1>1. /\ from \in Seq(Chars) /\ to \in Seq(Chars) /\ msg \in Seq(Chars)
      /\ Len(msg) \in Nat /\ Len(msg) < Byte * Byte
      /\ Len(from) \in Nat /\ Len(to) \in Nat
  BY DEF Name, Content16
<1>2. /\ Sized(from) \in Seq(Chars) /\ Len(Sized(from)) = Len(from) + 1
      /\ Sized(to) \in Seq(Chars) /\ Len(Sized(to)) = Len(to) + 1
  BY <1>1, SizedType
<1>3. two \in Seq(Chars) /\ Len(two) = Len(from) + Len(to) + 2
  <2>1. two \in Seq(Chars) /\ Len(two) = Len(Sized(from)) + Len(Sized(to))
    BY <1>2, Concat, Zenon
  <2> QED BY <1>1, <1>2, <2>1
<1>4. Short(Len(msg)) \in Seq(Chars) /\ Len(Short(Len(msg))) = 2
  BY <1>1, ShortType
<1>5. three \in Seq(Chars) /\ Len(three) = Len(from) + Len(to) + 4
  <2>1. three \in Seq(Chars) /\ Len(three) = Len(two) + Len(Short(Len(msg)))
    BY <1>3, <1>4, Concat, Zenon
  <2> QED BY <1>1, <1>3, <1>4, <2>1
<1>6. Holds(c, Body, three) /\ Holds(c, Body + Len(three), msg)
  BY <1>1, <1>5, HoldsParts DEF Chart
<1>7. Holds(c, Body, two) /\ Holds(c, Body + Len(two), Short(Len(msg)))
  BY <1>3, <1>4, <1>6, HoldsParts
<1>8. Holds(c, Body, Sized(from)) /\ Holds(c, Body + Len(Sized(from)), Sized(to))
  BY <1>2, <1>7, HoldsParts
<1>9. TextAt(c, Body) = from /\ at = Body + Len(from) + 1
  BY <1>8, SizedRead
<1>10. Body + Len(Sized(from)) = at /\ at \in Nat
  BY <1>1, <1>2, <1>9 DEF Body, MSG_HEAD_LENGTH
<1>11. TextAt(c, at) = to /\ len = at + Len(to) + 1
  BY <1>8, <1>10, SizedRead
<1>12. Body + Len(two) = len /\ Body + Len(three) = len + 2 /\ len \in Nat
  <2>1. Body \in Nat
    BY DEF Body, MSG_HEAD_LENGTH
  <2> HIDE DEF two, three, at, len
  <2> QED BY <2>1, <1>1, <1>3, <1>5, <1>9, <1>11
<1>13. ShortAt(c, len) = Len(msg)
  BY <1>1, <1>7, <1>12, ShortRead
<1>14. SubSeq(c, len + 2, (len + 2) + Len(msg) - 1) = msg
  BY <1>1, <1>6, <1>12, CutOut
<1>15. (len + 2) + Len(msg) - 1 = len + 1 + Len(msg)
  BY <1>1, <1>12
<1> QED BY <1>9, <1>11, <1>13, <1>14, <1>15 DEF ChartOf
=============================================================================
