--------------------------------- MODULE Codec ---------------------------------
(***************************************************************************)
(* The bytes of a packet (lib/ball.c and the functions of the client and   *)
(* the server that build or take apart packets in place).  A packet is the *)
(* sequence of chars of its content; a text is a sequence of chars too.    *)
(* Every char is a number below Byte; a short has two chars and an int has *)
(* four, the highest first.                                                *)
(***************************************************************************)
EXTENDS Integers, Sequences

CONSTANT Byte   \* the number of values of a char

(* A char can tell the four types of packets apart.                        *)
ASSUME ByteAssumption == Byte \in Nat /\ Byte >= 4

Chars == 0..(Byte - 1)

MSG_HEAD_LENGTH == 12
MSG_TYPE_LOGIN == 0
MSG_TYPE_CHART == 1
MSG_TYPE_PEER_LIST == 2
MSG_TYPE_LOGIN_RESPOND == 3

(* *p, for a signed char, as an int.                                       *)
Signed(c) == IF c < Byte \div 2 THEN c ELSE c - Byte

(* htons and htonl.                                                        *)
Short(n) == <<(n \div Byte) % Byte, n % Byte>>
Long(n) == Short((n \div Byte) \div Byte) \o Short(n)

(* Mutant: ntohs is forgotten.                                              *)
ShortAtHost(c, at) == c[at] + c[at + 1] * Byte

(* ntohs and ntohl.                                                        *)
ShortAt(c, at) == c[at] * Byte + c[at + 1]

LongAt(c, at) == (ShortAt(c, at) * Byte + c[at + 2]) * Byte + c[at + 3]

-----------------------------------------------------------------------------
(* Packing.  The body is written first, then the head.                     *)

(* *p = len, and the text.                                                 *)
Sized(text) == <<Len(text) % Byte>> \o text

Login(name, passwd) == Sized(name) \o Sized(passwd)
Chart(from, to, msg) == Sized(from) \o Sized(to) \o Short(Len(msg)) \o msg
PeerList(name) == Sized(name)
Respond(status) == Long(status)

(* package_message and message_package_head, version 1.                    *)
Packet(type, body) ==
    Long(1) \o Long(type) \o Long(MSG_HEAD_LENGTH + Len(body)) \o body

-----------------------------------------------------------------------------
(* Parsing.  A text of which the length is negative is empty here, and the *)
(* next field is looked for before it.                                     *)

message_parse_head(c) ==
    [version |-> LongAt(c, 1), type |-> LongAt(c, 5), length |-> LongAt(c, 9)]

(* Mutant: p is not moved past the length.                                  *)
TextFromLength(c, at) == SubSeq(c, at, at + Signed(c[at]) - 1)

TextAt(c, at) == SubSeq(c, at + 1, at + Signed(c[at]))

(* Where the next field is.                                                *)
After(c, at) == at + 1 + Signed(c[at])

Body == MSG_HEAD_LENGTH + 1

(* The LOGIN branch of message_parse_body, and message_proc_login.         *)
LoginOf(c) ==
    [name |-> TextAt(c, Body), passwd |-> TextAt(c, After(c, Body))]

(* The CHART branch of message_parse_body.                                 *)
ChartOf(c) ==
    LET to == After(c, Body)
        len == After(c, to)
    IN  [from |-> TextAt(c, Body), to |-> TextAt(c, to),
         msg |-> SubSeq(c, len + 2, len + 1 + ShortAt(c, len))]

PeerListOf(c) == [name |-> TextAt(c, Body)]
RespondOf(c) == [status |-> LongAt(c, Body)]
=============================================================================
