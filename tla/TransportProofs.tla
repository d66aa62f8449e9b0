--------------------------- MODULE TransportProofs ---------------------------
(***************************************************************************)
(* Theorems about Transport, for every head length, every set of packet    *)
(* lengths, every socket size and every number of packets.                 *)
(***************************************************************************)
EXTENDS Transport, TLAPS

(* The packets on msg_list are the last ones submitted, in order.          *)
QueueInv ==
    /\ Len(queue) <= Len(sent)
    /\ \A i \in 1..Len(queue) : queue[i] = Len(sent) - Len(queue) + i

(* send_message writes the packet at the head of msg_list and no other,    *)
(* and never enters put_message without something left to write.           *)
OutputInv ==
    /\ out.left > 0 =>
          /\ queue # <<>>
          /\ out.pkt = queue[1]
          /\ out.pos + out.left = sent[out.pkt]
    /\ spc = "put" =>
          /\ out.left > 0 /\ put.left > 0
          /\ put.pos + put.left = sent[out.pkt]

(* The packet the receiver is in, and its progress through it.             *)
Current == Len(delivered) + 1
Progress == IF rpc = "idle" THEN [pos |-> in.pos, left |-> in.left] ELSE get

(* The receiver holds the first bytes of the current packet and waits for  *)
(* the rest of its head, or of its body.                                   *)
InputInv ==
    /\ Progress.left > 0
    /\ Len(content) = Progress.pos
    /\ \A i \in 1..Len(content) : content[i] = <<Current, i>>
    /\ in.phase = "GET_HEAD" => Progress.pos + Progress.left = HeadLen
    /\ in.phase = "GET_BODY" =>
          /\ Current <= Len(sent)
          /\ Progress.pos >= HeadLen
          /\ Progress.pos + Progress.left = sent[Current]

(* The byte that follows <<k, j>> in the stream.                           *)
Succ(b) == IF b[2] = sent[b[1]] THEN <<b[1] + 1, 1>> ELSE <<b[1], b[2] + 1>>

(* The next byte the sender will write, and the next one the receiver is   *)
(* to read.                                                                *)
NextWrite ==
    IF spc = "put" THEN <<out.pkt, put.pos + 1>>
    ELSE IF out.left > 0 THEN <<out.pkt, out.pos + 1>>
    ELSE <<Len(sent) - Len(queue) + 1, 1>>
NextRead == <<Current, Progress.pos + 1>>

(* The socket holds a stretch of the stream from the byte the receiver     *)
(* wants next up to the one the sender writes next.  Runs says what a      *)
(* chain of successors is without an induction along it.                   *)
Runs ==
    \A i \in 1..Len(sock) :
        /\ sock[i][1] \in 1..Len(sent)
        /\ sock[i][2] \in 1..sent[sock[i][1]]
        /\ \A m \in Nat :
              i + m <= Len(sock) /\ sock[i][2] + m <= sent[sock[i][1]]
                  => sock[i + m] = <<sock[i][1], sock[i][2] + m>>
        /\ i < Len(sock) /\ sock[i][2] = sent[sock[i][1]]
              => sock[i + 1] = <<sock[i][1] + 1, 1>>

Joined ==
    /\ sock # <<>> => sock[1] = NextRead
    /\ conn = "open" =>
          NextWrite = IF sock = <<>> THEN NextRead ELSE Succ(sock[Len(sock)])

StreamInv == QueueInv /\ OutputInv /\ InputInv /\ Runs /\ Joined

IInv == TypeOK /\ Framing /\ StreamInv

-----------------------------------------------------------------------------
(* What a read and a write put in a buffer.                                *)

LEMMA LengthOf ==
    ASSUME NEW n \in Lengths
    PROVE  n \in Nat /\ n > HeadLen /\ n - HeadLen \in Nat \ {0}
  BY TransportAssumption

LEMMA ByteOf ==
    ASSUME NEW k \in Nat \ {0}, NEW j \in Nat \ {0}
    PROVE  /\ <<k, j>> \in Bytes
           /\ <<k, j>>[1] = k
           /\ <<k, j>>[2] = j
  BY DEF Bytes

(* The bytes a read finds are the next ones of the current packet, and its *)
(* whole head or body lies inside that packet.                             *)
LEMMA ReadBytes ==
    ASSUME IInv, rpc = "read", sock # <<>>
    PROVE  /\ Current \in 1..Len(sent)
           /\ get.left > 0
           /\ get.pos + get.left <= sent[Current]
           /\ \A i \in 1..Smaller(get.left, Len(sock)) :
                  sock[i] = <<Current, get.pos + i>>
  <1> USE TransportAssumption DEF TransportAssumption
  <1>1. Progress = get
    BY DEF Progress
  <1>2. get.pos \in Nat /\ get.left \in Nat /\ Current \in Nat \ {0} /\ Len(sock) \in Nat \ {0}
    BY DEF IInv, TypeOK, Current
  <1>3. sock[1] = <<Current, get.pos + 1>>
    BY <1>1 DEF IInv, StreamInv, Joined, NextRead
  <1>4. Current \in 1..Len(sent)
    BY <1>2, <1>3 DEF IInv, StreamInv, Runs
  <1>5. sent[Current] \in Nat /\ sent[Current] > HeadLen
    <2>1. sent[Current] \in Lengths
      BY <1>4 DEF IInv, TypeOK
    <2> QED BY <2>1, LengthOf
  <1>6. get.left > 0 /\ get.pos + get.left <= sent[Current]
    <2>1. get.left > 0
      BY <1>1 DEF IInv, StreamInv, InputInv
    <2>2. CASE in.phase = "GET_HEAD"
      <3>1. get.pos + get.left = HeadLen
        BY <1>1, <2>2 DEF IInv, StreamInv, InputInv
      <3> QED BY <2>1, <3>1, <1>2, <1>5
    <2>3. CASE in.phase = "GET_BODY"
      BY <1>1, <1>2, <1>5, <2>1, <2>3 DEF IInv, StreamInv, InputInv
    <2>4. in.phase \in {"GET_HEAD", "GET_BODY"}
      BY DEF IInv, TypeOK
    <2> QED BY <2>2, <2>3, <2>4
  <1>7. ASSUME NEW i \in 1..Smaller(get.left, Len(sock))
        PROVE  sock[i] = <<Current, get.pos + i>>
    <2>1. i \in Nat /\ i >= 1 /\ i <= get.left /\ i <= Len(sock)
      BY <1>2 DEF Smaller
    <2>2. /\ 1 \in 1..Len(sock) /\ i - 1 \in Nat /\ 1 + (i - 1) = i
          /\ get.pos + 1 + (i - 1) = get.pos + i
          /\ get.pos + i <= sent[Current]
      BY <1>2, <1>5, <1>6, <2>1
    <2>3. sock[1][1] = Current /\ sock[1][2] = get.pos + 1
      BY <1>3
    <2>4. sock[1 + (i - 1)] = <<Current, get.pos + 1 + (i - 1)>>
      BY <2>1, <2>2, <2>3 DEF IInv, StreamInv, Runs
    <2> QED BY <2>2, <2>4
  <1> QED BY <1>4, <1>6, <1>7

LEMMA FillOf ==
    ASSUME IInv, NEW n, Readable(n)
    PROVE  /\ n \in Nat \ {0} /\ n <= get.left /\ n <= Len(sock) /\ sock # <<>>
           /\ Fill(n) \in Seq(Bytes)
           /\ Len(Fill(n)) = get.pos + n
           /\ \A i \in 1..(get.pos + n) : Fill(n)[i] = <<Current, i>>
  <1>1. /\ get.pos \in Nat /\ get.left \in Nat /\ Len(sock) \in Nat
        /\ sock \in Seq(Bytes) /\ content \in Seq(Bytes)
    BY DEF IInv, TypeOK
  <1>2. n \in Nat \ {0} /\ n <= get.left /\ n <= Len(sock) /\ sock # <<>>
    BY <1>1 DEF Readable, Smaller
  <1>3. /\ Len(content) = get.pos
        /\ \A i \in 1..get.pos : content[i] = <<Current, i>>
    BY DEF IInv, StreamInv, InputInv, Progress, Readable
  <1>4. \A i \in 1..n : sock[i] = <<Current, get.pos + i>>
    BY <1>1, <1>2, ReadBytes DEF Readable, Smaller
  <1> DEFINE old == SubSeq(content, 1, get.pos)
             new == SubSeq(sock, 1, n)
  <1>5. /\ old \in Seq(Bytes) /\ Len(old) = get.pos
        /\ \A i \in 1..get.pos : old[i] = <<Current, i>>
    BY <1>1, <1>3
  <1>6. /\ new \in Seq(Bytes) /\ Len(new) = n
        /\ \A i \in 1..n : new[i] = <<Current, get.pos + i>>
    BY <1>1, <1>2, <1>4
  <1> HIDE DEF old, new
  <1>7. /\ old \o new \in Seq(Bytes)
        /\ Len(old \o new) = get.pos + n
        /\ \A i \in 1..get.pos : (old \o new)[i] = <<Current, i>>
        /\ \A i \in 1..n : (old \o new)[get.pos + i] = <<Current, get.pos + i>>
    <2>1. /\ old \o new \in Seq(Bytes)
          /\ Len(old \o new) = Len(old) + Len(new)
          /\ \A i \in 1..Len(old) : (old \o new)[i] = old[i]
          /\ \A i \in 1..Len(new) : (old \o new)[Len(old) + i] = new[i]
      <3>1. old \in Seq(Bytes) /\ new \in Seq(Bytes)
        BY <1>5, <1>6
      <3> QED BY <3>1
    <2>2. \A i \in 1..get.pos : (old \o new)[i] = <<Current, i>>
      BY <1>5, <2>1
    <2>3. \A i \in 1..n : (old \o new)[get.pos + i] = <<Current, get.pos + i>>
      BY <1>5, <1>6, <2>1
    <2> QED BY <1>5, <1>6, <2>1, <2>2, <2>3
  <1>8. ASSUME NEW i \in 1..(get.pos + n)
        PROVE  (old \o new)[i] = <<Current, i>>
    <2>1. CASE i \in 1..get.pos
      BY <2>1, <1>7
    <2>2. CASE i > get.pos
      <3>1. i - get.pos \in 1..n /\ get.pos + (i - get.pos) = i
        BY <2>2, <1>1, <1>2
      <3>2. (old \o new)[get.pos + (i - get.pos)] = <<Current, get.pos + (i - get.pos)>>
        BY <3>1, <1>7
      <3> QED BY <3>1, <3>2
    <2>3. i \in 1..get.pos \/ i > get.pos
      BY <1>1, <1>2
    <2> QED BY <2>1, <2>2, <2>3
  <1> QED BY <1>2, <1>7, <1>8 DEF Fill, old, new

(* The length message_parse_head finds is the current packet's.            *)
LEMMA HeadLength ==
    ASSUME IInv, NEW n, Readable(n), n = get.left, in.phase = "GET_HEAD"
    PROVE  /\ get.pos + n = HeadLen
           /\ Current \in 1..Len(sent)
           /\ sent[Current] \in Nat
           /\ BodyLength(ParsedLength(Fill(n))) = sent[Current] - HeadLen
           /\ sent[Current] - HeadLen \in Nat \ {0}
  <1> USE TransportAssumption DEF TransportAssumption
  <1>1. get.pos \in Nat /\ get.pos + n = HeadLen /\ rpc = "read"
    BY DEF IInv, StreamInv, InputInv, Progress, TypeOK, Readable
  <1>2. Fill(n)[HeadLen] = <<Current, HeadLen>>
    BY <1>1, FillOf
  <1>3. Current \in 1..Len(sent)
    BY <1>1, FillOf, ReadBytes
  <1>4. sent[Current] \in Lengths
    BY <1>3 DEF IInv, TypeOK
  <1>5. sent[Current] \in Nat /\ sent[Current] - HeadLen \in Nat \ {0}
    BY <1>4, LengthOf
  <1>6. ParsedLength(Fill(n)) = sent[Current]
    BY <1>2, <1>3 DEF ParsedLength
  <1>7. BodyLength(ParsedLength(Fill(n))) = sent[Current] - HeadLen
    BY <1>6 DEF BodyLength
  <1> QED BY <1>1, <1>3, <1>5, <1>7

(* What put_message hands to the kernel.                                   *)
LEMMA ChunkOf ==
    ASSUME IInv, NEW n, WriteSome(n)
    PROVE  /\ n \in Nat \ {0} /\ n <= put.left /\ Len(sock) + n <= SockBuf
           /\ out.pkt = queue[1] /\ queue # <<>>
           /\ out.pkt = Len(sent) - Len(queue) + 1
           /\ out.pkt \in 1..Len(sent)
           /\ Chunk(n) \in Seq(Bytes) /\ Len(Chunk(n)) = n
           /\ \A i \in 1..n : Chunk(n)[i] = <<out.pkt, put.pos + i>>
  <1> USE TransportAssumption DEF TransportAssumption
  <1>1. put.pos \in Nat /\ put.left \in Nat /\ Len(sock) \in Nat /\ Len(sock) <= SockBuf
    BY DEF IInv, TypeOK
  <1>2. n \in Nat \ {0} /\ n <= put.left /\ Len(sock) + n <= SockBuf
    BY <1>1 DEF WriteSome, Smaller
  <1>3. out.pkt = queue[1] /\ queue # <<>>
    BY DEF WriteSome, IInv, StreamInv, OutputInv
  <1>4. Len(queue) \in Nat \ {0} /\ Len(sent) \in Nat
    BY <1>3, SMTT(30) DEF IInv, TypeOK
  <1>5. out.pkt = Len(sent) - Len(queue) + 1 /\ out.pkt \in 1..Len(sent)
    BY <1>3, <1>4 DEF IInv, StreamInv, QueueInv
  <1>6. \A i \in 1..n : <<out.pkt, put.pos + i>> \in Bytes
    BY <1>1, <1>2, <1>4, <1>5, ByteOf
  <1>7. Chunk(n) \in Seq(Bytes) /\ Len(Chunk(n)) = n
    BY <1>2, <1>6 DEF Chunk
  <1>8. \A i \in 1..n : Chunk(n)[i] = <<out.pkt, put.pos + i>>
    BY DEF Chunk
  <1> QED BY <1>2, <1>3, <1>5, <1>7, <1>8

-----------------------------------------------------------------------------
(* Type correctness.  The bytes left of a body stay positive because the   *)
(* head the receiver parses is the head of a packet that was sent.         *)

LEMMA TypeStep ==
    ASSUME IInv, [Next]_vars
    PROVE  TypeOK'
  <1> USE TransportAssumption
  <1>1. ASSUME NEW n \in Lengths, Submit(n)
        PROVE  TypeOK'
    <2>1. Len(sent) \in Nat /\ Len(sent') = Len(sent) + 1
      BY <1>1 DEF Submit, IInv, TypeOK
    <2>2. sent' \in Seq(Lengths) /\ Len(sent') <= MaxMsgs
      BY <1>1, <2>1 DEF Submit, IInv, TypeOK
    <2>3. queue' \in Seq(Nat \ {0})
      <3>1. queue \in Seq(Nat \ {0})
        BY DEF IInv, TypeOK
      <3>2. Len(sent) + 1 \in Nat \ {0}
        BY <2>1
      <3>3. queue' = Append(queue, Len(sent) + 1)
        BY <1>1 DEF Submit
      <3> QED BY <3>1, <3>2, <3>3
    <2> QED BY <1>1, <2>2, <2>3 DEF Submit, edgeVars, readerVars, IInv, TypeOK
  <1>2. ASSUME OnEpollOut
        PROVE  TypeOK'
    BY <1>2 DEF OnEpollOut, readerVars, IInv, TypeOK
  <1>3. ASSUME StartPut
        PROVE  TypeOK'
    BY <1>3 DEF StartPut, edgeVars, readerVars, IInv, TypeOK
  <1>4. ASSUME LoadNext
        PROVE  TypeOK'
    <2>1. Head(queue) \in 1..Len(sent)
      <3>1. Len(queue) \in Nat \ {0} /\ Len(sent) \in Nat /\ Head(queue) = queue[1]
        BY <1>4, SMTT(30) DEF LoadNext, IInv, TypeOK
      <3>2. queue[1] = Len(sent) - Len(queue) + 1 /\ Len(queue) <= Len(sent)
        BY <3>1 DEF StreamInv, QueueInv, IInv, TypeOK
      <3> QED BY <3>1, <3>2
    <2>2. sent[Head(queue)] \in Nat
      <3>1. sent \in Seq(Lengths)
        BY DEF IInv, TypeOK
      <3>2. sent[Head(queue)] \in Lengths
        BY <2>1, <3>1
      <3> QED BY <3>2, LengthOf
    <2>3. out' \in [pkt : Nat, pos : Nat, left : Nat]
      BY <1>4, <2>1, <2>2 DEF LoadNext, IInv, TypeOK
    <2> QED BY <1>4, <2>3 DEF LoadNext, edgeVars, readerVars, IInv, TypeOK
  <1>5. ASSUME SendFinish
        PROVE  TypeOK'
    BY <1>5 DEF SendFinish, edgeVars, readerVars, IInv, TypeOK
  <1>6. ASSUME NEW n \in 1..SockBuf, WriteSome(n)
        PROVE  TypeOK'
    <2>1. sock' \in Seq(Bytes) /\ Len(sock') <= SockBuf
      <3>1. Chunk(n) \in Seq(Bytes) /\ Len(Chunk(n)) = n /\ Len(sock) + n <= SockBuf
        BY <1>6, ChunkOf
      <3> QED BY <1>6, <3>1 DEF WriteSome, IInv, TypeOK
    <2>2. put' \in [pos : Nat, left : Nat]
      <3>1. n \in Nat /\ n <= put.left /\ put.pos \in Nat /\ put.left \in Nat
        BY <1>6, ChunkOf DEF IInv, TypeOK
      <3>2. put' = [pos |-> put.pos + n, left |-> put.left - n]
        BY <1>6 DEF WriteSome, IInv, TypeOK
      <3>3. put.pos + n \in Nat /\ put.left - n \in Nat
        BY <3>1
      <3> QED BY <3>2, <3>3
    <2>3. queue' \in Seq(Nat \ {0}) /\ spc' \in {"idle", "loop", "put"}
      <3>1. queue # <<>>
        BY <1>6, ChunkOf
      <3>2. queue' = Tail(queue) \/ queue' = queue
        BY <1>6 DEF WriteSome, IInv, TypeOK
      <3>3. queue \in Seq(Nat \ {0})
        BY DEF IInv, TypeOK
      <3>4. Tail(queue) \in Seq(Nat \ {0})
        BY <3>1, <3>3
      <3>5. queue' \in Seq(Nat \ {0})
        BY <3>2, <3>3, <3>4
      <3> QED BY <1>6, <3>5 DEF WriteSome, IInv, TypeOK
    <2>4. out' \in [pkt : Nat, pos : Nat, left : Nat]
      <3>1. out' = NoOutput \/ out' = out
        BY <1>6 DEF WriteSome, IInv, TypeOK
      <3> QED BY <3>1 DEF NoOutput, IInv, TypeOK
    <2> QED BY <1>6, <2>1, <2>2, <2>3, <2>4 DEF WriteSome, edgeVars, readerVars, IInv, TypeOK
  <1>7. ASSUME WriteAgain
        PROVE  TypeOK'
    BY <1>7 DEF WriteAgain, SavedOutput, readerVars, IInv, TypeOK
  <1>8. ASSUME WriteFail
        PROVE  TypeOK'
    BY <1>8 DEF WriteFail, edgeVars, readerVars, IInv, TypeOK
  <1>9. ASSUME OnEpollIn
        PROVE  TypeOK'
    BY <1>9 DEF OnEpollIn, senderVars, edgeVars, IInv, TypeOK
  <1>10. ASSUME NEW n \in 1..SockBuf, Consume(n), Readable(n)
         PROVE  sock' \in Seq(Bytes) /\ Len(sock') <= SockBuf
    <2>1. n \in Nat \ {0} /\ n <= Len(sock)
      BY <1>10, FillOf
    <2>2. sock' = SubSeq(sock, n + 1, Len(sock))
      BY <1>10 DEF Consume, IInv, TypeOK
    <2>3. sock \in Seq(Bytes) /\ Len(sock) \in Nat /\ Len(sock) <= SockBuf /\ SockBuf \in Nat
      BY TransportAssumption DEF IInv, TypeOK
    <2> QED BY <2>1, <2>2, <2>3
  <1>11. ASSUME NEW n \in 1..SockBuf, ReadPart(n)
         PROVE  TypeOK'
    <2>1. content' \in Seq(Bytes)
      BY <1>11, FillOf DEF ReadPart, IInv, TypeOK
    <2>2. sock' \in Seq(Bytes) /\ Len(sock') <= SockBuf
      BY <1>11, <1>10 DEF ReadPart, IInv, TypeOK
    <2>3. get' \in [pos : Nat, left : Nat]
      <3>1. n \in Nat /\ n <= get.left /\ get.pos \in Nat /\ get.left \in Nat
        BY <1>11, FillOf DEF ReadPart, IInv, TypeOK
      <3>2. get' = [pos |-> get.pos + n, left |-> get.left - n]
        BY <1>11 DEF ReadPart, IInv, TypeOK
      <3>3. get.pos + n \in Nat /\ get.left - n \in Nat
        BY <3>1
      <3> QED BY <3>2, <3>3
    <2> QED BY <1>11, <2>1, <2>2, <2>3 DEF ReadPart, Consume, senderVars, edgeVars, IInv, TypeOK
  <1>12. ASSUME NEW n \in 1..SockBuf, ReadHead(n)
         PROVE  TypeOK'
    <2>1. content' \in Seq(Bytes)
      BY <1>12, FillOf DEF ReadHead, IInv, TypeOK
    <2>2. sock' \in Seq(Bytes) /\ Len(sock') <= SockBuf
      BY <1>12, <1>10 DEF ReadHead, IInv, TypeOK
    <2> DEFINE left == BodyLength(ParsedLength(Fill(n)))
    <2>3. left \in Nat /\ get.pos + n \in Nat
      BY <1>12, HeadLength DEF ReadHead, IInv, TypeOK
    <2>4. /\ get' = [pos |-> get.pos + n, left |-> left]
          /\ in' = [phase |-> "GET_BODY", pos |-> get.pos + n, left |-> left]
      BY <1>12 DEF ReadHead, IInv, TypeOK
    <2> HIDE DEF left
    <2>5. /\ get' \in [pos : Nat, left : Nat]
          /\ in' \in [phase : {"GET_HEAD", "GET_BODY"}, pos : Nat, left : Nat]
      BY <2>3, <2>4
    <2> QED BY <1>12, <2>1, <2>2, <2>5 DEF ReadHead, Consume, senderVars, edgeVars, IInv, TypeOK
  <1>13. ASSUME NEW n \in 1..SockBuf, ReadBody(n)
         PROVE  TypeOK'
    <2>1. delivered' \in Seq(Seq(Bytes))
      BY <1>13, FillOf DEF ReadBody, IInv, TypeOK
    <2>2. sock' \in Seq(Bytes) /\ Len(sock') <= SockBuf
      BY <1>13, <1>10 DEF ReadBody, IInv, TypeOK
    <2>3. content' \in Seq(Bytes) /\ get' \in [pos : Nat, left : Nat]
      BY <1>13 DEF ReadBody, IInv, TypeOK
    <2>4. in' \in [phase : {"GET_HEAD", "GET_BODY"}, pos : Nat, left : Nat]
      BY <1>13 DEF ReadBody, NewInput, IInv, TypeOK
    <2> QED BY <1>13, <2>1, <2>2, <2>3, <2>4 DEF ReadBody, Consume, senderVars, edgeVars, IInv, TypeOK
  <1>14. ASSUME ReadAgain
         PROVE  TypeOK'
    BY <1>14 DEF ReadAgain, SavedInput, senderVars, edgeVars, IInv, TypeOK
  <1>15. ASSUME ReadFail
         PROVE  TypeOK'
    BY <1>15 DEF ReadFail, senderVars, edgeVars, IInv, TypeOK
  <1>16. ASSUME Writable
         PROVE  TypeOK'
    BY <1>16 DEF Writable, senderVars, readerVars, IInv, TypeOK
  <1>17. ASSUME Close
         PROVE  TypeOK'
    BY <1>17 DEF Close, edgeVars, readerVars, IInv, TypeOK
  <1>18. ASSUME Reset
         PROVE  TypeOK'
    <2>1. sock' \in Seq(Bytes) /\ Len(sock') <= SockBuf
      BY <1>18, SMTT(30) DEF Reset, IInv, TypeOK
    <2> QED BY <1>18, <2>1 DEF Reset, senderVars, readerVars, IInv, TypeOK
  <1>19. CASE UNCHANGED vars
    BY <1>19 DEF vars, IInv, TypeOK
  <1> QED
    BY <1>1, <1>2, <1>3, <1>4, <1>5, <1>6, <1>7, <1>8, <1>9, <1>11, <1>12,
       <1>13, <1>14, <1>15, <1>16, <1>17, <1>18, <1>19
       DEF Next, Sender, Receiver, Kernel

-----------------------------------------------------------------------------
(* The sender's side: msg_list and the packet being written.               *)

LEMMA SenderIdle ==
    ASSUME QueueInv, OutputInv, UNCHANGED <<sent, queue, out, put>>,
           spc' = "put" => spc = "put"
    PROVE  QueueInv' /\ OutputInv'
  BY DEF QueueInv, OutputInv

LEMMA SenderTypes ==
    ASSUME IInv
    PROVE  /\ sent \in Seq(Lengths) /\ queue \in Seq(Nat \ {0})
           /\ Len(sent) \in Nat /\ Len(queue) \in Nat
           /\ out.pkt \in Nat /\ out.pos \in Nat /\ out.left \in Nat
           /\ put.pos \in Nat /\ put.left \in Nat
           /\ out = [pkt |-> out.pkt, pos |-> out.pos, left |-> out.left]
           /\ QueueInv /\ OutputInv
  BY DEF IInv, TypeOK, StreamInv

LEMMA SenderStep ==
    ASSUME IInv, [Next]_vars
    PROVE  QueueInv' /\ OutputInv'
  <1> USE SenderTypes
  <1>1. ASSUME NEW n \in Lengths, Submit(n)
        PROVE  QueueInv' /\ OutputInv'
    <2>1. /\ sent' = Append(sent, n) /\ queue' = Append(queue, Len(sent) + 1)
          /\ out' = out /\ spc' = "loop"
      BY <1>1 DEF Submit
    <2>2. Len(sent') = Len(sent) + 1 /\ Len(queue') = Len(queue) + 1
      BY <2>1
    <2>3. QueueInv'
      <3>1. Len(queue') <= Len(sent')
        BY <2>2 DEF QueueInv
      <3>2. ASSUME NEW i \in 1..Len(queue')
            PROVE  queue'[i] = Len(sent') - Len(queue') + i
        <4>1. CASE i = Len(queue) + 1
          BY <4>1, <2>1, <2>2
        <4>2. CASE i \in 1..Len(queue)
          BY <4>2, <2>1, <2>2 DEF QueueInv
        <4> QED BY <4>1, <4>2, <2>2
      <3> QED BY <3>1, <3>2 DEF QueueInv
    <2>4. OutputInv'
      <3>1. ASSUME out.left > 0
            PROVE  queue' # <<>> /\ out.pkt = queue'[1] /\ out.pos + out.left = sent'[out.pkt]
        <4>1. queue # <<>> /\ out.pkt = queue[1] /\ out.pos + out.left = sent[out.pkt]
          BY <3>1 DEF OutputInv
        <4>2. Len(queue) > 0 /\ queue[1] = Len(sent) - Len(queue) + 1 /\ Len(queue) <= Len(sent)
          BY <4>1 DEF QueueInv
        <4>3. out.pkt \in 1..Len(sent) /\ queue'[1] = queue[1]
          BY <4>1, <4>2, <2>1
        <4>4. sent'[out.pkt] = sent[out.pkt]
          BY <4>3, <2>1
        <4> QED BY <4>1, <4>3, <4>4, <2>1
      <3> QED BY <3>1, <2>1 DEF OutputInv
    <2> QED BY <2>3, <2>4
  <1>2. CASE OnEpollOut
    BY <1>2, SenderIdle DEF OnEpollOut
  <1>3. CASE StartPut
    <2>1. QueueInv'
      BY <1>3 DEF StartPut, QueueInv
    <2>2. put'.pos = out.pos /\ put'.left = out.left /\ out.left > 0
      BY <1>3 DEF StartPut
    <2>3. out' = out /\ sent' = sent /\ queue' = queue
      BY <1>3 DEF StartPut
    <2> QED BY <2>1, <2>2, <2>3 DEF OutputInv
  <1>4. CASE LoadNext
    <2>1. QueueInv' /\ sent' = sent /\ queue' = queue /\ queue # <<>> /\ spc' = "loop"
      BY <1>4 DEF LoadNext, QueueInv
    <2>2. out'.pkt = queue[1] /\ out'.pos = 0 /\ out'.left = sent[queue[1]]
      BY <1>4 DEF LoadNext
    <2>3. queue[1] = Len(sent) - Len(queue) + 1 /\ Len(queue) <= Len(sent) /\ Len(queue) > 0
      <3>1. Len(queue) > 0
        BY <2>1
      <3> QED BY <3>1 DEF QueueInv
    <2>4. sent[queue[1]] \in Lengths
      BY <2>3
    <2>5. sent[queue[1]] \in Nat
      BY <2>4, LengthOf
    <2>6. out'.pos + out'.left = sent'[out'.pkt]
      BY <2>1, <2>2, <2>5
    <2> QED BY <2>1, <2>2, <2>6 DEF OutputInv
  <1>5. CASE SendFinish
    BY <1>5, SenderIdle DEF SendFinish
  <1>6. ASSUME NEW n \in 1..SockBuf, WriteSome(n)
        PROVE  QueueInv' /\ OutputInv'
    <2>1. n \in Nat /\ n <= put.left /\ queue # <<>> /\ spc = "put" /\ sent' = sent
      BY <1>6, ChunkOf DEF WriteSome
    <2>2. put'.pos = put.pos + n /\ put'.left = put.left - n
      BY <1>6 DEF WriteSome
    <2>3. CASE n = put.left
      <3>1. queue' = Tail(queue) /\ out'.left = 0 /\ spc' = "loop"
        BY <1>6, <2>3 DEF WriteSome, NoOutput
      <3>2. /\ Len(queue') = Len(queue) - 1 /\ Len(queue) > 0
            /\ \A i \in 1..Len(queue') : queue'[i] = queue[i + 1]
        BY <2>1, <3>1
      <3>3. Len(queue') <= Len(sent')
        BY <2>1, <3>2 DEF QueueInv
      <3>4. ASSUME NEW i \in 1..Len(queue')
            PROVE  queue'[i] = Len(sent') - Len(queue') + i
        <4>1. i + 1 \in 1..Len(queue) /\ queue'[i] = queue[i + 1]
          BY <3>2, SMTT(30)
        <4>2. queue[i + 1] = Len(sent) - Len(queue) + (i + 1)
          BY <4>1 DEF QueueInv
        <4> QED BY <2>1, <3>2, <4>1, <4>2
      <3> QED BY <3>1, <3>3, <3>4 DEF OutputInv, QueueInv
    <2>4. CASE n # put.left
      <3>1. queue' = queue /\ out' = out /\ spc' = "put"
        BY <1>6, <2>1, <2>4 DEF WriteSome
      <3>2. QueueInv'
        BY <2>1, <3>1 DEF QueueInv
      <3>3. put'.left > 0 /\ put'.pos + put'.left = put.pos + put.left
        BY <2>1, <2>2, <2>4
      <3> QED BY <2>1, <3>1, <3>2, <3>3 DEF OutputInv
    <2> QED BY <2>3, <2>4
  <1>7. CASE WriteAgain
    <2>1. /\ out'.pkt = out.pkt /\ out'.pos = put.pos /\ out'.left = put.left
          /\ sent' = sent /\ queue' = queue /\ spc = "put" /\ spc' = "idle"
      BY <1>7 DEF WriteAgain, SavedOutput
    <2> QED BY <2>1 DEF OutputInv, QueueInv
  <1>8. CASE WriteFail
    BY <1>8, SenderIdle DEF WriteFail
  <1>9. CASE Receiver
    <2>1. UNCHANGED senderVars
      BY <1>9 DEF Receiver, OnEpollIn, ReadPart, ReadHead, ReadBody, Consume,
                  ReadAgain, ReadFail
    <2> QED BY <2>1, SenderIdle DEF senderVars
  <1>10. CASE Kernel
    BY <1>10, SenderIdle DEF Kernel, Writable, Close, Reset, senderVars
  <1>11. CASE UNCHANGED vars
    BY <1>11, SenderIdle DEF vars
  <1> QED
    BY <1>1, <1>2, <1>3, <1>4, <1>5, <1>6, <1>7, <1>8, <1>9, <1>10, <1>11
       DEF Next, Sender

-----------------------------------------------------------------------------
(* The receiver's side: the current packet and the ones delivered.         *)

LEMMA ReaderTypes ==
    ASSUME IInv
    PROVE  /\ sent \in Seq(Lengths) /\ Len(sent) \in Nat
           /\ get.pos \in Nat /\ get.left \in Nat
           /\ in.pos \in Nat /\ in.left \in Nat
           /\ in.phase \in {"GET_HEAD", "GET_BODY"}
           /\ content \in Seq(Bytes) /\ Len(content) \in Nat
           /\ delivered \in Seq(Seq(Bytes)) /\ Len(delivered) \in Nat
           /\ Current \in Nat \ {0}
           /\ InputInv /\ Framing
  BY DEF IInv, TypeOK, StreamInv, Current

LEMMA ReaderIdle ==
    ASSUME IInv, UNCHANGED readerVars,
           sent' = sent \/ (\E n \in Lengths : sent' = Append(sent, n))
    PROVE  InputInv' /\ Framing'
  <1> USE ReaderTypes
  <1>1. /\ rpc' = rpc /\ content' = content /\ in' = in /\ get' = get
        /\ delivered' = delivered
    BY DEF readerVars
  <1>2. /\ Len(sent) <= Len(sent')
        /\ \A k \in 1..Len(sent) : sent'[k] = sent[k]
    <2>1. sent \in Seq(Lengths)
      BY ReaderTypes
    <2>2. CASE sent' = sent
      BY <2>1, <2>2
    <2>3. ASSUME NEW n \in Lengths, sent' = Append(sent, n)
          PROVE  <1>2!1 /\ <1>2!2
      BY <2>1, <2>3
    <2> QED BY <2>2, <2>3
  <1>3. Progress' = Progress /\ Current' = Current
    BY <1>1 DEF Progress, Current
  <1>4. InputInv'
    <2>1. CASE in.phase = "GET_HEAD"
      BY <1>1, <1>3, <2>1 DEF InputInv
    <2>2. CASE in.phase = "GET_BODY"
      <3>1. Current \in 1..Len(sent)
        BY <2>2 DEF InputInv
      <3>2. Current <= Len(sent') /\ sent'[Current] = sent[Current]
        BY <3>1, <1>2
      <3> QED BY <1>1, <1>3, <2>2, <3>2 DEF InputInv
    <2> QED BY <2>1, <2>2
  <1>5. Framing'
    <2>1. Len(delivered') <= Len(sent')
      BY <1>1, <1>2 DEF Framing
    <2>2. ASSUME NEW k \in 1..Len(delivered')
          PROVE  delivered'[k] = Channel!Packet(k, sent'[k])
      <3>1. k \in 1..Len(sent) /\ delivered[k] = Channel!Packet(k, sent[k])
        BY <1>1 DEF Framing
      <3> QED BY <1>1, <1>2, <3>1
    <2> QED BY <2>1, <2>2 DEF Framing, Channel!Packet
  <1> QED BY <1>4, <1>5

LEMMA ReaderStep ==
    ASSUME IInv, [Next]_vars
    PROVE  InputInv' /\ Framing'
  <1>1. ASSUME NEW n \in Lengths, Submit(n)
        PROVE  InputInv' /\ Framing'
    BY <1>1, ReaderIdle DEF Submit
  <1>2. CASE Sender
    <2>1. sent' = sent /\ UNCHANGED readerVars
      BY <1>2 DEF Sender, OnEpollOut, StartPut, LoadNext, SendFinish, WriteSome,
                  WriteAgain, WriteFail
    <2> QED BY <2>1, ReaderIdle
  <1>3. CASE Kernel
    <2>1. sent' = sent /\ UNCHANGED readerVars
      BY <1>3 DEF Kernel, Writable, Close, Reset, senderVars
    <2> QED BY <2>1, ReaderIdle
  <1>4. CASE UNCHANGED vars
    <2>1. sent' = sent /\ UNCHANGED readerVars
      BY <1>4 DEF vars, readerVars
    <2> QED BY <2>1, ReaderIdle
  <1>5. CASE OnEpollIn
    <2>1. /\ rpc = "idle" /\ rpc' = "read" /\ get' = [pos |-> in.pos, left |-> in.left]
          /\ content' = content /\ in' = in /\ delivered' = delivered /\ sent' = sent
      BY <1>5 DEF OnEpollIn, senderVars
    <2>2. Progress' = Progress /\ Current' = Current
      BY <2>1 DEF Progress, Current
    <2> QED BY <2>1, <2>2, ReaderTypes DEF InputInv, Framing
  <1>6. ASSUME NEW n \in 1..SockBuf, ReadPart(n)
        PROVE  InputInv' /\ Framing'
    <2>1. /\ rpc = "read" /\ rpc' = "read" /\ n < get.left /\ content' = Fill(n)
          /\ get'.pos = get.pos + n /\ get'.left = get.left - n
          /\ in' = in /\ delivered' = delivered /\ sent' = sent
      BY <1>6 DEF ReadPart, Readable, Consume, senderVars
    <2>2. /\ n \in Nat \ {0} /\ Len(content') = get.pos + n
          /\ \A i \in 1..(get.pos + n) : content'[i] = <<Current, i>>
      BY <1>6, <2>1, FillOf DEF ReadPart
    <2>3. Progress = get /\ Progress' = get' /\ Current' = Current
      BY <2>1 DEF Progress, Current
    <2>4. get'.left > 0 /\ get'.pos + get'.left = get.pos + get.left
      <3>1. n \in Nat /\ get.pos \in Nat /\ get.left \in Nat
        BY <2>2, ReaderTypes
      <3>2. /\ n < get.left
            /\ get'.pos = get.pos + n /\ get'.left = get.left - n
        BY <2>1
      <3> QED BY <3>1, <3>2
    <2>5. InputInv'
      <3>1. \A i \in 1..Len(content') : content'[i] = <<Current, i>>
        BY <2>2
      <3>2. CASE in.phase = "GET_HEAD"
        BY <2>1, <2>2, <2>3, <2>4, <3>1, <3>2, ReaderTypes DEF InputInv
      <3>3. CASE in.phase = "GET_BODY"
        <4>1. /\ Current <= Len(sent) /\ get.pos >= HeadLen
              /\ get.pos + get.left = sent[Current]
          BY <2>3, <3>3, ReaderTypes DEF InputInv
        <4>2. get'.pos >= HeadLen
          <5>1. n \in Nat /\ get.pos \in Nat /\ HeadLen \in Nat
            BY <2>2, ReaderTypes, TransportAssumption
          <5> QED BY <2>1, <4>1, <5>1
        <4> QED BY <2>1, <2>2, <2>3, <2>4, <3>1, <3>3, <4>1, <4>2 DEF InputInv
      <3> QED BY <3>2, <3>3, ReaderTypes
    <2> QED BY <2>1, <2>5, ReaderTypes DEF Framing
  <1>7. ASSUME NEW n \in 1..SockBuf, ReadHead(n)
        PROVE  InputInv' /\ Framing'
    <2>1. /\ rpc = "read" /\ rpc' = "read" /\ content' = Fill(n)
          /\ delivered' = delivered /\ sent' = sent /\ in'.phase = "GET_BODY"
      BY <1>7 DEF ReadHead, Readable, Consume, senderVars
    <2>2. /\ get.pos + n = HeadLen /\ Current \in 1..Len(sent)
          /\ get'.pos = HeadLen /\ get'.left = sent[Current] - HeadLen
          /\ sent[Current] - HeadLen \in Nat \ {0}
      BY <1>7, HeadLength DEF ReadHead
    <2>3. /\ n \in Nat \ {0} /\ Len(content') = get'.pos
          /\ \A i \in 1..Len(content') : content'[i] = <<Current, i>>
      BY <1>7, <2>1, <2>2, FillOf DEF ReadHead
    <2>4. Progress' = get' /\ Current' = Current
      BY <2>1 DEF Progress, Current
    <2>5. HeadLen \in Nat /\ sent[Current] \in Nat
      <3>1. sent[Current] \in Lengths
        BY <2>2, ReaderTypes
      <3> QED BY <3>1, LengthOf, TransportAssumption
    <2>6. get'.left > 0 /\ get'.pos >= HeadLen /\ get'.pos + get'.left = sent[Current]
      BY <2>2, <2>5
    <2>7. InputInv'
      <3>1. Len(content') = Progress'.pos /\ Progress'.left > 0
        BY <2>3, <2>4, <2>6
      <3>2. \A i \in 1..Len(content') : content'[i] = <<Current', i>>
        BY <2>3, <2>4
      <3>3. in'.phase = "GET_BODY" /\ in'.phase # "GET_HEAD"
        BY <2>1
      <3>4. /\ Current' <= Len(sent') /\ Progress'.pos >= HeadLen
            /\ Progress'.pos + Progress'.left = sent'[Current']
        BY <2>1, <2>2, <2>4, <2>6
      <3> QED BY <3>1, <3>2, <3>3, <3>4 DEF InputInv
    <2> QED BY <2>1, <2>7, ReaderTypes DEF Framing
  <1>8. ASSUME NEW n \in 1..SockBuf, ReadBody(n)
        PROVE  InputInv' /\ Framing'
    <2>1. /\ rpc = "read" /\ rpc' = "read" /\ n = get.left /\ in.phase = "GET_BODY"
          /\ content' = <<>> /\ delivered' = Append(delivered, Fill(n))
          /\ sent' = sent /\ in'.phase = "GET_HEAD"
          /\ get'.pos = 0 /\ get'.left = HeadLen
      BY <1>8 DEF ReadBody, Readable, Consume, senderVars, NewInput
    <2>2. InputInv'
      <3>1. Progress' = get'
        BY <2>1 DEF Progress
      <3>2. HeadLen \in Nat \ {0}
        BY TransportAssumption
      <3> QED BY <2>1, <3>1, <3>2 DEF InputInv
    <2>3. /\ Current <= Len(sent) /\ get.pos + n = sent[Current] /\ Progress = get
      BY <2>1, ReaderTypes DEF InputInv, Progress
    <2>4. Fill(n) = Channel!Packet(Current, sent[Current])
      <3>1. /\ Fill(n) \in Seq(Bytes) /\ Len(Fill(n)) = get.pos + n
            /\ \A i \in 1..(get.pos + n) : Fill(n)[i] = <<Current, i>>
        BY <1>8, FillOf DEF ReadBody
      <3>2. Fill(n) = [i \in 1..sent[Current] |-> <<Current, i>>]
        <4>1. DOMAIN Fill(n) = 1..sent[Current]
          BY <2>3, <3>1
        <4>2. Fill(n) = [i \in DOMAIN Fill(n) |-> Fill(n)[i]]
          BY <3>1
        <4> QED BY <2>3, <3>1, <4>1, <4>2
      <3> QED BY <3>2 DEF Channel!Packet
    <2>5. /\ Len(delivered') = Current
          /\ delivered'[Current] = Channel!Packet(Current, sent[Current])
          /\ \A k \in 1..Len(delivered) : delivered'[k] = delivered[k]
      BY <1>8, <2>1, <2>4, FillOf DEF Current, ReadBody
    <2>6. ASSUME NEW k \in 1..Len(delivered')
          PROVE  delivered'[k] = Channel!Packet(k, sent'[k])
      <3>1. CASE k = Current
        BY <2>1, <2>5, <3>1
      <3>2. CASE k \in 1..Len(delivered)
        BY <2>1, <2>5, <3>2, ReaderTypes DEF Framing
      <3>3. k = Current \/ k \in 1..Len(delivered)
        <4>1. Len(delivered') = Len(delivered) + 1 /\ Len(delivered) \in Nat
          BY <2>5, ReaderTypes DEF Current
        <4> QED BY <4>1 DEF Current
      <3> QED BY <3>1, <3>2, <3>3
    <2>7. Framing'
      BY <2>1, <2>3, <2>5, <2>6 DEF Framing
    <2> QED BY <2>2, <2>7
  <1>9. CASE ReadAgain
    <2>1. /\ rpc = "read" /\ rpc' = "idle" /\ in'.phase = in.phase
          /\ in'.pos = get.pos /\ in'.left = get.left
          /\ content' = content /\ delivered' = delivered /\ sent' = sent
      BY <1>9 DEF ReadAgain, SavedInput, senderVars, IInv, TypeOK
    <2>2. /\ Progress'.pos = Progress.pos /\ Progress'.left = Progress.left
          /\ Current' = Current
      BY <2>1 DEF Progress, Current
    <2> QED BY <2>1, <2>2, ReaderTypes DEF InputInv, Framing
  <1>10. CASE ReadFail
    <2>1. /\ rpc = "read" /\ rpc' = "dead" /\ get' = get /\ in' = in
          /\ content' = content /\ delivered' = delivered /\ sent' = sent
      BY <1>10 DEF ReadFail, senderVars
    <2>2. Progress' = Progress /\ Current' = Current
      BY <2>1 DEF Progress, Current
    <2> QED BY <2>1, <2>2, ReaderTypes DEF InputInv, Framing
  <1> QED
    BY <1>1, <1>2, <1>3, <1>4, <1>5, <1>6, <1>7, <1>8, <1>9, <1>10
       DEF Next, Receiver

-----------------------------------------------------------------------------
(* The bytes between the two ends.                                         *)

LEMMA SockTypes ==
    ASSUME IInv
    PROVE  /\ sock \in Seq(Bytes) /\ Len(sock) \in Nat
           /\ Runs /\ Joined /\ Progress.pos \in Nat
           /\ \A i \in 1..Len(sock) :
                 /\ sock[i][1] \in Nat /\ sock[i][2] \in Nat
                 /\ sock[i] = <<sock[i][1], sock[i][2]>>
                 /\ sent[sock[i][1]] \in Nat
  <1>1. /\ sock \in Seq(Bytes) /\ Len(sock) \in Nat
        /\ Runs /\ Joined /\ sent \in Seq(Lengths)
    BY DEF IInv, TypeOK, StreamInv
  <1>2. Progress.pos \in Nat
    BY ReaderTypes DEF Progress
  <1>3. ASSUME NEW i \in 1..Len(sock)
        PROVE  /\ sock[i][1] \in Nat /\ sock[i][2] \in Nat
               /\ sock[i] = <<sock[i][1], sock[i][2]>>
               /\ sent[sock[i][1]] \in Nat
    <2>1. sock[i] \in Bytes
      BY <1>1
    <2>2. /\ sock[i][1] \in Nat /\ sock[i][2] \in Nat
          /\ sock[i] = <<sock[i][1], sock[i][2]>>
      BY <2>1 DEF Bytes
    <2>3. sock[i][1] \in 1..Len(sent)
      BY <1>1 DEF Runs
    <2>4. sent[sock[i][1]] \in Lengths
      BY <1>1, <2>3
    <2> QED BY <2>2, <2>4, LengthOf
  <1> QED BY <1>1, <1>2, <1>3

(* A stretch of the stream is one wherever it is cut.                      *)
LEMMA RunsCut ==
    ASSUME IInv, NEW a \in Nat \ {0}, NEW b \in Nat, a <= b + 1, b <= Len(sock),
           sock' = SubSeq(sock, a, b), sent' = sent
    PROVE  /\ Runs'
           /\ Len(sock') = b - a + 1
           /\ \A i \in 1..(b - a + 1) : sock'[i] = sock[a + i - 1]
  <1>1. sock \in Seq(Bytes) /\ Len(sock) \in Nat
    BY SockTypes
  <1>2. /\ Len(sock') = b - a + 1
        /\ \A i \in 1..(b - a + 1) : sock'[i] = sock[a + i - 1]
    BY <1>1
  <1>3. ASSUME NEW i \in 1..Len(sock')
        PROVE  /\ sock'[i][1] \in 1..Len(sent)
               /\ sock'[i][2] \in 1..sent[sock'[i][1]]
               /\ \A m \in Nat :
                     i + m <= Len(sock') /\ sock'[i][2] + m <= sent[sock'[i][1]]
                         => sock'[i + m] = <<sock'[i][1], sock'[i][2] + m>>
               /\ i < Len(sock') /\ sock'[i][2] = sent[sock'[i][1]]
                     => sock'[i + 1] = <<sock'[i][1] + 1, 1>>
    <2>1. a + i - 1 \in 1..Len(sock) /\ sock'[i] = sock[a + i - 1] /\ i \in Nat
      BY <1>1, <1>2
    <2>2. ASSUME NEW m \in Nat, i + m <= Len(sock')
          PROVE  /\ sock'[i + m] = sock[(a + i - 1) + m]
                 /\ (a + i - 1) + m <= Len(sock)
      <3>1. i + m \in 1..(b - a + 1) /\ a + (i + m) - 1 = (a + i - 1) + m
        BY <1>2, <2>1, <2>2
      <3>2. (a + i - 1) + m <= Len(sock)
        BY <1>1, <1>2, <2>1, <2>2
      <3>3. sock'[i + m] = sock[a + (i + m) - 1]
        BY <1>2, <3>1
      <3> QED BY <3>1, <3>2, <3>3
    <2>3. ASSUME NEW m \in Nat,
                 i + m <= Len(sock'), sock'[i][2] + m <= sent[sock'[i][1]]
          PROVE  sock'[i + m] = <<sock'[i][1], sock'[i][2] + m>>
      <3>1. sock'[i + m] = sock[(a + i - 1) + m] /\ (a + i - 1) + m <= Len(sock)
        BY <2>2, <2>3
      <3>2. sock[a + i - 1][2] + m <= sent[sock[a + i - 1][1]]
        BY <2>1, <2>3
      <3>3. sock[(a + i - 1) + m] = <<sock[a + i - 1][1], sock[a + i - 1][2] + m>>
        BY <2>1, <2>3, <3>1, <3>2, SockTypes DEF Runs
      <3> QED BY <2>1, <3>1, <3>3
    <2>4. ASSUME i < Len(sock'), sock'[i][2] = sent[sock'[i][1]]
          PROVE  sock'[i + 1] = <<sock'[i][1] + 1, 1>>
      <3>1. i + 1 <= Len(sock') /\ i + 1 \in Nat
        BY <1>1, <1>2, <2>1, <2>4
      <3>2. sock'[i + 1] = sock[(a + i - 1) + 1] /\ (a + i - 1) + 1 <= Len(sock)
        BY <3>1, <2>2
      <3>3. a + i - 1 < Len(sock)
        BY <3>2, <2>1, <1>1
      <3> QED BY <2>1, <2>4, <3>2, <3>3, SockTypes DEF Runs
    <2> QED BY <2>1, <2>3, <2>4, SockTypes DEF Runs
  <1> QED BY <1>2, <1>3 DEF Runs

(* Steps that touch neither the socket nor either end's place in the       *)
(* stream.                                                                 *)
LEMMA StreamIdle ==
    ASSUME IInv, sock' = sock, NextRead' = NextRead,
           conn' = "open" => conn = "open" /\ NextWrite' = NextWrite,
           sent' = sent \/ (\E n \in Lengths : sent' = Append(sent, n))
    PROVE  Runs' /\ Joined'
  <1>1. sent \in Seq(Lengths)
    BY SenderTypes
  <1>2. /\ Len(sent) <= Len(sent') /\ Len(sent) \in Nat /\ Len(sent') \in Nat
        /\ \A k \in 1..Len(sent) : sent'[k] = sent[k]
    <2>1. CASE sent' = sent
      BY <1>1, <2>1
    <2>2. ASSUME NEW n \in Lengths, sent' = Append(sent, n)
          PROVE  <1>2
      BY <1>1, <2>2
    <2> QED BY <2>1, <2>2
  <1>3. \A i \in 1..Len(sock) :
            sock[i][1] \in 1..Len(sent') /\ sent'[sock[i][1]] = sent[sock[i][1]]
    BY <1>2, SockTypes DEF Runs
  <1>4. Runs'
    BY <1>3, SockTypes DEF Runs
  <1>5. ASSUME sock # <<>>
        PROVE  Succ(sock[Len(sock)])' = Succ(sock[Len(sock)])
    <2>1. Len(sock) \in 1..Len(sock)
      BY <1>5, SockTypes
    <2> QED BY <2>1, <1>3 DEF Succ
  <1>6. Joined'
    BY <1>5, SockTypes DEF Joined
  <1> QED BY <1>4, <1>6

(* A read takes the bytes the receiver waits for and leaves the rest of    *)
(* the stream; it joins where the receiver's next read begins.             *)
LEMMA ReadStream ==
    ASSUME IInv, NEW n, Readable(n), Consume(n),
           \/ /\ NextRead' = <<Current, get.pos + n + 1>>
              /\ get.pos + n < sent[Current]
           \/ /\ NextRead' = <<Current + 1, 1>>
              /\ get.pos + n = sent[Current]
    PROVE  Runs' /\ Joined'
  <1>1. /\ n \in Nat \ {0} /\ n <= Len(sock) /\ sock # <<>> /\ n <= get.left
        /\ Len(sock) \in Nat /\ get.pos \in Nat /\ rpc = "read"
    BY FillOf, SockTypes, ReaderTypes DEF Readable
  <1>2. /\ sock' = SubSeq(sock, n + 1, Len(sock)) /\ sent' = sent
        /\ conn' = conn /\ NextWrite' = NextWrite
    BY DEF Consume, senderVars, NextWrite
  <1>3. /\ Runs' /\ Len(sock') = Len(sock) - n
        /\ \A i \in 1..(Len(sock) - n) : sock'[i] = sock[n + i]
    <2> DEFINE a == n + 1
    <2>1. a \in Nat \ {0} /\ a <= Len(sock) + 1 /\ Len(sock) <= Len(sock)
      BY <1>1
    <2>2. sock' = SubSeq(sock, a, Len(sock))
      BY <1>2
    <2>3. /\ Len(sock) - a + 1 = Len(sock) - n
          /\ \A i \in 1..(Len(sock) - n) : a + i - 1 = n + i
      BY <1>1
    <2> HIDE DEF a
    <2>4. /\ Runs'
          /\ Len(sock') = Len(sock) - a + 1
          /\ \A i \in 1..(Len(sock) - a + 1) : sock'[i] = sock[a + i - 1]
      BY <1>1, <1>2, <2>1, <2>2, RunsCut
    <2> QED BY <2>3, <2>4
  <1>4. sock[n] = <<Current, get.pos + n>> /\ n \in 1..Len(sock)
    BY <1>1, ReadBytes DEF Smaller
  <1>5. sock[n][1] = Current /\ sock[n][2] = get.pos + n
    BY <1>4
  <1>6. Succ(sock[n]) = NextRead'
    BY <1>5, <1>1, SockTypes, <1>4, ReaderTypes DEF Succ
  <1>7. ASSUME n < Len(sock)
        PROVE  sock[n + 1] = NextRead'
    <2>1. CASE /\ NextRead' = <<Current, get.pos + n + 1>>
               /\ get.pos + n < sent[Current]
      <3>1. sock[n][2] + 1 <= sent[sock[n][1]]
        BY <2>1, <1>1, <1>4, <1>5, SockTypes
      <3>2. 1 \in Nat /\ n + 1 <= Len(sock)
        BY <1>1, <1>7
      <3>3. sock[n + 1] = <<sock[n][1], sock[n][2] + 1>>
        BY <1>4, <3>1, <3>2, SockTypes DEF Runs
      <3> QED BY <2>1, <3>3, <1>5
    <2>2. CASE /\ NextRead' = <<Current + 1, 1>>
               /\ get.pos + n = sent[Current]
      BY <2>2, <1>4, <1>5, <1>7, SockTypes DEF Runs
    <2> QED BY <2>1, <2>2
  <1>8. ASSUME sock' # <<>>
        PROVE  sock'[1] = NextRead' /\ sock'[Len(sock')] = sock[Len(sock)]
    <2>1. Len(sock') > 0 /\ Len(sock') \in Nat
      BY <1>8, <1>2, <1>1, <1>3, SockTypes
    <2>2. /\ n < Len(sock) /\ 1 \in 1..(Len(sock) - n)
          /\ Len(sock) - n \in 1..(Len(sock) - n) /\ n + (Len(sock) - n) = Len(sock)
      BY <2>1, <1>1, <1>3
    <2> QED BY <2>2, <1>3, <1>7
  <1>9. ASSUME sock' = <<>>
        PROVE  n = Len(sock)
    BY <1>9, <1>1, <1>3
  <1>10. Joined'
    <2>1. ASSUME conn = "open"
          PROVE  NextWrite = Succ(sock[Len(sock)])
      BY <2>1, <1>1, SockTypes DEF Joined
    <2>2. CASE sock' = <<>>
      BY <2>1, <2>2, <1>2, <1>6, <1>9 DEF Joined
    <2>3. CASE sock' # <<>>
      BY <2>1, <2>3, <1>2, <1>8 DEF Joined, Succ
    <2> QED BY <2>2, <2>3
  <1> QED BY <1>3, <1>10

(* A write appends the bytes that follow the last one in the socket.       *)
LEMMA WriteStream ==
    ASSUME IInv, NEW n, WriteSome(n)
    PROVE  Runs' /\ Joined'
  <1> DEFINE L == Len(sock)
             k == out.pkt
             p == put.pos
  <1>1. /\ L \in Nat /\ p \in Nat /\ put.left \in Nat /\ n \in Nat \ {0}
        /\ k \in 1..Len(sent) /\ n <= put.left /\ Len(sent) \in Nat
        /\ spc = "put" /\ conn = "open" /\ p + put.left = sent[k]
    BY ChunkOf, SenderTypes, SockTypes DEF WriteSome, OutputInv
  <1>2. /\ sock' = sock \o Chunk(n) /\ sent' = sent /\ conn' = conn
        /\ NextRead' = NextRead
    BY DEF WriteSome, readerVars, NextRead, Current, Progress
  <1>3. /\ Len(sock') = L + n
        /\ \A i \in 1..L : sock'[i] = sock[i]
        /\ \A i \in 1..n : sock'[L + i] = <<k, p + i>>
    <2>1. /\ Chunk(n) \in Seq(Bytes) /\ Len(Chunk(n)) = n
          /\ \A i \in 1..n : Chunk(n)[i] = <<k, p + i>>
      BY ChunkOf
    <2> DEFINE t == Chunk(n)
    <2>2. sock \in Seq(Bytes) /\ t \in Seq(Bytes) /\ Len(t) = n
      BY <2>1, SockTypes
    <2>3. \A i \in 1..n : t[i] = <<k, p + i>>
      BY <2>1
    <2>4. sock' = sock \o t
      BY <1>2
    <2> HIDE DEF t
    <2>5. /\ Len(sock \o t) = Len(sock) + Len(t)
          /\ \A i \in 1..Len(sock) : (sock \o t)[i] = sock[i]
          /\ \A i \in 1..Len(t) : (sock \o t)[Len(sock) + i] = t[i]
      BY <2>2
    <2> QED BY <2>2, <2>3, <2>4, <2>5
  <1>4. sent[k] \in Nat /\ p + n <= sent[k]
    <2>1. sent[k] \in Lengths
      BY <1>1, SenderTypes
    <2> QED BY <2>1, <1>1, LengthOf
  <1>5. NextWrite = <<k, p + 1>>
    BY <1>1 DEF NextWrite
  <1>6. ASSUME sock # <<>>
        PROVE  Succ(sock[L]) = <<k, p + 1>> /\ L \in 1..L
    BY <1>1, <1>5, <1>6, SockTypes DEF Joined
  <1> HIDE DEF L, k, p
  <1>7. ASSUME NEW i \in 1..L
        PROVE  /\ sock'[i][1] \in 1..Len(sent) /\ sock'[i][2] \in 1..sent[sock'[i][1]]
               /\ \A m \in Nat :
                     i + m <= L + n /\ sock'[i][2] + m <= sent[sock'[i][1]]
                         => sock'[i + m] = <<sock'[i][1], sock'[i][2] + m>>
               /\ i < L + n /\ sock'[i][2] = sent[sock'[i][1]]
                     => sock'[i + 1] = <<sock'[i][1] + 1, 1>>
    <2> DEFINE a == sock[i][1]
               b == sock[i][2]
               s == sent[a]
    <2>1. /\ sock'[i] = sock[i] /\ a \in 1..Len(sent) /\ b \in 1..sent[a]
          /\ a \in Nat /\ b \in Nat /\ s \in Nat /\ i \in Nat /\ i <= L
          /\ sock[i] = <<a, b>>
      BY <1>1, <1>3, SockTypes DEF Runs, L
    <2>2. \A m \in Nat : i + m <= L /\ b + m <= s => sock[i + m] = <<a, b + m>>
      BY SockTypes DEF Runs, L
    <2>3. i < L /\ b = s => sock[i + 1] = <<a + 1, 1>>
      BY SockTypes DEF Runs, L
    <2>4. sock # <<>>
      BY <2>1, SockTypes DEF L
    <2> HIDE DEF a, b, s
    <2>5. ASSUME NEW m \in Nat, i + m <= L + n, b + m <= s
          PROVE  sock'[i + m] = <<a, b + m>>
      <3>1. CASE i + m <= L
        BY <3>1, <1>1, <1>3, <2>1, <2>2, <2>5
      <3>2. CASE i + m > L
        <4>1. L - i \in Nat /\ i + (L - i) = L /\ b + (L - i) < s
          <5>1. L \in Nat /\ b \in Nat /\ s \in Nat /\ i \in Nat /\ i <= L
            BY <1>1, <2>1
          <5> QED BY <2>5, <3>2, <5>1
        <4>2. sock[L] = <<a, b + (L - i)>>
          <5>1. i + (L - i) <= L /\ b + (L - i) <= s
            <6>1. L \in Nat /\ b \in Nat /\ s \in Nat /\ i \in Nat
              BY <1>1, <2>1
            <6> QED BY <4>1, <6>1
          <5> QED BY <2>2, <4>1, <5>1
        <4>3. Succ(sock[L]) = <<a, b + (L - i) + 1>>
          <5>1. b + (L - i) # s
            <6>1. L \in Nat /\ b \in Nat /\ s \in Nat /\ i \in Nat
              BY <1>1, <2>1
            <6> QED BY <4>1, <6>1
          <5>2. sock[L][1] = a /\ sock[L][2] = b + (L - i)
            BY <4>2
          <5> QED BY <5>1, <5>2 DEF Succ, s
        <4>4. a = k /\ b + (L - i) = p
          <5>1. <<a, b + (L - i) + 1>> = <<k, p + 1>>
            BY <1>6, <2>4, <4>3
          <5>2. a = k /\ b + (L - i) + 1 = p + 1
            BY <5>1
          <5>3. b \in Nat /\ L - i \in Nat /\ p \in Nat
            BY <1>1, <2>1, <4>1
          <5> QED BY <5>2, <5>3
        <4>5. /\ i + m - L \in 1..n /\ L + (i + m - L) = i + m
              /\ p + (i + m - L) = b + m
          <5>1. L \in Nat /\ i \in Nat /\ b \in Nat /\ n \in Nat /\ p \in Nat
            BY <1>1, <2>1
          <5> QED BY <2>5, <3>2, <4>4, <5>1
        <4>6. sock'[L + (i + m - L)] = <<k, p + (i + m - L)>>
          BY <1>3, <4>5
        <4> QED BY <4>4, <4>5, <4>6
      <3> QED BY <3>1, <3>2, <1>1, <2>1
    <2>6. ASSUME i < L + n, b = s
          PROVE  sock'[i + 1] = <<a + 1, 1>>
      <3>1. CASE i < L
        BY <3>1, <1>1, <1>3, <2>1, <2>3, <2>6
      <3>2. CASE i = L
        <4>1. sock[L] = <<a, b>>
          BY <2>1, <3>2
        <4>2. Succ(sock[L]) = <<a + 1, 1>>
          BY <2>6, <4>1 DEF Succ, s
        <4>3. a + 1 = k /\ p + 1 = 1 /\ 1 \in 1..n
          BY <1>1, <1>6, <2>4, <4>2
        <4> QED BY <1>3, <3>2, <4>3
      <3> QED BY <3>1, <3>2, <1>1, <2>1
    <2>7. /\ sock'[i][1] = a /\ sock'[i][2] = b
          /\ \A m \in Nat : i + m <= L + n /\ b + m <= s => sock'[i + m] = <<a, b + m>>
          /\ i < L + n /\ b = s => sock'[i + 1] = <<a + 1, 1>>
      BY <2>1, <2>5, <2>6
    <2> QED BY <2>1, <2>7 DEF s
  <1>8. ASSUME NEW i \in 1..n
        PROVE  /\ sock'[L + i] = <<k, p + i>>
               /\ k \in 1..Len(sent) /\ p + i \in 1..sent[k]
               /\ \A m \in Nat :
                     L + i + m <= L + n /\ p + i + m <= sent[k]
                         => sock'[L + i + m] = <<k, p + i + m>>
               /\ L + i < L + n => p + i # sent[k]
    <2>1. ASSUME NEW m \in Nat, L + i + m <= L + n
          PROVE  sock'[L + i + m] = <<k, p + i + m>>
      <3>1. i + m \in 1..n /\ L + i + m = L + (i + m) /\ p + i + m = p + (i + m)
        BY <1>1, <2>1
      <3>2. sock'[L + (i + m)] = <<k, p + (i + m)>>
        BY <3>1, <1>3
      <3> QED BY <3>1, <3>2
    <2> DEFINE s == sent[k]
    <2>2. s \in Nat /\ p + n <= s
      BY <1>4
    <2> HIDE DEF s
    <2>3. p + i \in 1..s /\ (L + i < L + n => p + i # s)
      BY <1>1, <2>2
    <2> QED BY <1>1, <1>3, <2>1, <2>3 DEF s
  <1>9. Runs'
    <2>1. ASSUME NEW i \in 1..Len(sock'), i > L
          PROVE  i - L \in 1..n /\ L + (i - L) = i
      BY <1>1, <1>3, <2>1
    <2>2. ASSUME NEW i \in 1..Len(sock')
          PROVE  /\ sock'[i][1] \in 1..Len(sent)
                 /\ sock'[i][2] \in 1..sent[sock'[i][1]]
                 /\ \A m \in Nat :
                       i + m <= Len(sock') /\ sock'[i][2] + m <= sent[sock'[i][1]]
                           => sock'[i + m] = <<sock'[i][1], sock'[i][2] + m>>
                 /\ i < Len(sock') /\ sock'[i][2] = sent[sock'[i][1]]
                       => sock'[i + 1] = <<sock'[i][1] + 1, 1>>
      <3>1. CASE i \in 1..L
        BY <3>1, <1>3, <1>7
      <3>2. CASE i > L
        <4> DEFINE j == i - L
        <4>1. j \in 1..n /\ L + j = i
          BY <2>1, <3>2
        <4> HIDE DEF j
        <4>2. /\ sock'[i] = <<k, p + j>>
              /\ k \in 1..Len(sent) /\ p + j \in 1..sent[k]
              /\ \A m \in Nat : i + m <= L + n /\ p + j + m <= sent[k]
                                   => sock'[i + m] = <<k, p + j + m>>
              /\ i < L + n => p + j # sent[k]
          BY <4>1, <1>8
        <4>3. sock'[i][1] = k /\ sock'[i][2] = p + j
          BY <4>2
        <4> QED BY <4>2, <4>3, <1>3
      <3>3. i \in 1..L \/ i > L
        BY <1>1, <1>3
      <3> QED BY <3>1, <3>2, <3>3
    <2> QED BY <2>2, <1>2 DEF Runs
  <1>10. sock' # <<>> /\ sock'[Len(sock')] = <<k, p + n>> /\ Len(sock') \in Nat
    <2>1. Len(sock') = L + n /\ L + n \in Nat \ {0} /\ n \in 1..n
      BY <1>1, <1>3
    <2>2. sock'[L + n] = <<k, p + n>>
      BY <1>3, <2>1
    <2> QED BY <2>1, <2>2
  <1>11. sock'[1] = NextRead
    <2>1. CASE sock = <<>>
      <3>1. L = 0 /\ NextRead = <<k, p + 1>>
        BY <2>1, <1>1, <1>5, SockTypes DEF L, Joined
      <3> QED BY <3>1, <1>1, <1>3
    <2>2. CASE sock # <<>>
      BY <2>2, <1>1, <1>3, <1>6, SockTypes DEF L, Joined
    <2> QED BY <2>1, <2>2
  <1>12. NextWrite' = Succ(sock[Len(sock)])'
    <2>1. CASE n = put.left
      <3>1. Succ(sock[Len(sock)])' = <<k + 1, 1>>
        <4>1. sock'[Len(sock')][1] = k /\ sock'[Len(sock')][2] = p + n
          BY <1>10
        <4>2. p + n = sent'[k]
          BY <1>1, <1>2, <2>1
        <4> QED BY <4>1, <4>2 DEF Succ
      <3>2. /\ spc' = "loop" /\ out'.left = 0 /\ queue' = Tail(queue)
            /\ queue # <<>> /\ k = Len(sent) - Len(queue) + 1
        BY <2>1, ChunkOf DEF WriteSome, NoOutput, k
      <3>3. Len(queue') = Len(queue) - 1
        BY <3>2, SenderTypes
      <3>4. NextWrite' = <<Len(sent) - Len(queue') + 1, 1>>
        BY <3>2, <1>2 DEF NextWrite
      <3> QED BY <3>1, <3>2, <3>3, <3>4, <1>1, SenderTypes
    <2>2. CASE n # put.left
      <3>1. Succ(sock[Len(sock)])' = <<k, p + n + 1>>
        <4>1. sock'[Len(sock')][1] = k /\ sock'[Len(sock')][2] = p + n
          BY <1>10
        <4>2. p + n # p + put.left
          BY <1>1, <2>2
        <4>3. p + n # sent'[k]
          BY <1>1, <1>2, <4>2
        <4> QED BY <4>1, <4>3 DEF Succ
      <3>2. spc' = "put" /\ out' = out /\ put'.pos = p + n
        BY <2>2, <1>1 DEF WriteSome, p
      <3> QED BY <3>1, <3>2 DEF NextWrite, k
    <2> QED BY <2>1, <2>2
  <1> QED BY <1>2, <1>9, <1>10, <1>11, <1>12 DEF Joined

LEMMA StreamStep ==
    ASSUME IInv, [Next]_vars
    PROVE  Runs' /\ Joined'
  <1>1. ASSUME NEW n \in Lengths, Submit(n)
        PROVE  Runs' /\ Joined'
    <2>1. /\ sent' = Append(sent, n) /\ queue' = Append(queue, Len(sent) + 1)
          /\ spc = "idle" /\ spc' = "loop" /\ out' = out /\ sock' = sock /\ conn' = conn
          /\ UNCHANGED readerVars
      BY <1>1 DEF Submit
    <2>2. Len(sent') = Len(sent) + 1 /\ Len(queue') = Len(queue) + 1
      BY <2>1, SenderTypes
    <2>3. Len(sent') - Len(queue') = Len(sent) - Len(queue)
      BY <2>2, SenderTypes
    <2>4. NextWrite' = NextWrite
      BY <2>1, <2>3 DEF NextWrite
    <2>5. NextRead' = NextRead
      BY <2>1 DEF readerVars, NextRead, Current, Progress
    <2> QED BY <2>1, <2>4, <2>5, StreamIdle
  <1>2. ASSUME OnEpollOut \/ StartPut \/ LoadNext \/ SendFinish \/ WriteAgain \/ WriteFail
        PROVE  Runs' /\ Joined'
    <2>1. sent' = sent /\ queue' = queue /\ sock' = sock /\ conn' = conn /\ UNCHANGED readerVars
      BY <1>2 DEF OnEpollOut, StartPut, LoadNext, SendFinish, WriteAgain, WriteFail
    <2>2. NextRead' = NextRead
      BY <2>1 DEF readerVars, NextRead, Current, Progress
    <2>3. ASSUME conn = "open"
          PROVE  NextWrite' = NextWrite
      <3>1. CASE OnEpollOut \/ SendFinish
        BY <2>1, <3>1 DEF OnEpollOut, SendFinish, NextWrite
      <3>2. CASE StartPut
        BY <2>1, <3>2 DEF StartPut, NextWrite
      <3>3. CASE LoadNext
        <4>1. /\ queue # <<>> /\ out.left = 0 /\ spc = "loop" /\ spc' = "loop"
              /\ out'.pkt = queue[1] /\ out'.pos = 0
          BY <3>3 DEF LoadNext
        <4>2. queue[1] = Len(sent) - Len(queue) + 1
          <5>1. Len(queue) > 0
            BY <4>1, SenderTypes
          <5> QED BY <5>1, SenderTypes DEF QueueInv
        <4>3. NextWrite = <<queue[1], 1>>
          BY <4>1, <4>2 DEF NextWrite
        <4>4. NextWrite' = <<queue[1], 1>>
          BY <2>1, <4>1, <4>2 DEF NextWrite
        <4> QED BY <4>3, <4>4
      <3>4. CASE WriteAgain
        <4>1. /\ spc = "put" /\ spc' = "idle" /\ out'.pkt = out.pkt
              /\ out'.pos = put.pos /\ out'.left = put.left
          BY <3>4, SenderTypes DEF WriteAgain, SavedOutput
        <4>2. put.left > 0
          BY <4>1, SenderTypes DEF OutputInv
        <4> QED BY <4>1, <4>2 DEF NextWrite
      <3>5. CASE WriteFail
        BY <2>3, <3>5 DEF WriteFail
      <3> QED BY <1>2, <3>1, <3>2, <3>3, <3>4, <3>5
    <2> QED BY <2>1, <2>2, <2>3, StreamIdle
  <1>3. ASSUME NEW n \in 1..SockBuf, WriteSome(n)
        PROVE  Runs' /\ Joined'
    BY <1>3, WriteStream
  <1>4. ASSUME OnEpollIn \/ ReadAgain \/ ReadFail
        PROVE  Runs' /\ Joined'
    <2>1. /\ sent' = sent /\ sock' = sock /\ conn' = conn /\ NextWrite' = NextWrite
          /\ delivered' = delivered
      BY <1>4 DEF OnEpollIn, ReadAgain, ReadFail, senderVars, NextWrite
    <2>2. Progress'.pos = Progress.pos
      BY <1>4, ReaderTypes DEF OnEpollIn, ReadAgain, ReadFail, SavedInput, Progress, IInv, TypeOK
    <2>3. NextRead' = NextRead
      BY <2>1, <2>2 DEF NextRead, Current
    <2> QED BY <2>1, <2>3, StreamIdle
  <1>5. ASSUME NEW n \in 1..SockBuf, ReadPart(n)
        PROVE  Runs' /\ Joined'
    <2>1. /\ Readable(n) /\ Consume(n) /\ n < get.left /\ rpc = "read" /\ rpc' = "read"
          /\ get'.pos = get.pos + n /\ delivered' = delivered
      BY <1>5 DEF ReadPart, Readable, Consume
    <2>2. NextRead' = <<Current, get.pos + n + 1>>
      BY <2>1 DEF NextRead, Current, Progress
    <2>3. get.pos + n < sent[Current]
      <3> DEFINE s == sent[Current]
      <3>1. /\ Current \in 1..Len(sent) /\ get.pos + get.left <= s
            /\ n \in Nat
        BY <2>1, FillOf, ReadBytes
      <3>2. s \in Nat
        <4>1. s \in Lengths
          BY <3>1, ReaderTypes
        <4> QED BY <4>1, LengthOf
      <3> HIDE DEF s
      <3>3. get.pos \in Nat /\ get.left \in Nat
        BY ReaderTypes
      <3>4. get.pos + n < s
        BY <2>1, <3>1, <3>2, <3>3
      <3> QED BY <3>4 DEF s
    <2> QED BY <2>1, <2>2, <2>3, ReadStream
  <1>6. ASSUME NEW n \in 1..SockBuf, ReadHead(n)
        PROVE  Runs' /\ Joined'
    <2>1. /\ Readable(n) /\ Consume(n) /\ n = get.left /\ rpc = "read" /\ rpc' = "read"
          /\ get'.pos = get.pos + n /\ delivered' = delivered /\ in.phase = "GET_HEAD"
      BY <1>6 DEF ReadHead, Readable, Consume
    <2>2. NextRead' = <<Current, get.pos + n + 1>>
      BY <2>1 DEF NextRead, Current, Progress
    <2>3. get.pos + n < sent[Current]
      <3>1. get.pos + n = HeadLen /\ Current \in 1..Len(sent)
        BY <2>1, HeadLength
      <3>2. sent[Current] \in Lengths
        BY <3>1, ReaderTypes
      <3> QED BY <3>1, <3>2, LengthOf
    <2> QED BY <2>1, <2>2, <2>3, ReadStream
  <1>7. ASSUME NEW n \in 1..SockBuf, ReadBody(n)
        PROVE  Runs' /\ Joined'
    <2>1. /\ Readable(n) /\ Consume(n) /\ n = get.left /\ rpc = "read" /\ rpc' = "read"
          /\ get'.pos = 0 /\ delivered' = Append(delivered, Fill(n))
          /\ in.phase = "GET_BODY"
      BY <1>7 DEF ReadBody, Readable, Consume
    <2>2. Current' = Current + 1
      BY <2>1, ReaderTypes, FillOf DEF Current
    <2>3. NextRead' = <<Current + 1, 1>>
      BY <2>1, <2>2 DEF NextRead, Progress
    <2>4. get.pos + n = sent[Current]
      BY <2>1, ReaderTypes DEF InputInv, Progress
    <2> QED BY <2>1, <2>3, <2>4, ReadStream
  <1>8. ASSUME Writable \/ Close
        PROVE  Runs' /\ Joined'
    <2>1. /\ sent' = sent /\ sock' = sock /\ UNCHANGED readerVars
          /\ conn' = "open" => conn = "open" /\ NextWrite' = NextWrite
      BY <1>8 DEF Writable, Close, senderVars, NextWrite
    <2>2. NextRead' = NextRead
      BY <2>1 DEF readerVars, NextRead, Current, Progress
    <2> QED BY <2>1, <2>2, StreamIdle
  <1>9. ASSUME Reset
        PROVE  Runs' /\ Joined'
    <2>1. /\ conn' # "open" /\ sent' = sent /\ UNCHANGED readerVars
      BY <1>9 DEF Reset, senderVars
    <2>2. PICK k \in 0..Len(sock) : sock' = SubSeq(sock, 1, k)
      BY <1>9 DEF Reset
    <2>3. Runs' /\ Len(sock') = k /\ \A i \in 1..k : sock'[i] = sock[i]
      <3>1. k \in Nat /\ k <= Len(sock) /\ 1 <= k + 1 /\ k - 1 + 1 = k
        BY <2>2, SockTypes
      <3> QED BY <2>1, <2>2, <3>1, RunsCut
    <2>4. NextRead' = NextRead
      BY <2>1 DEF readerVars, NextRead, Current, Progress
    <2>5. sock' # <<>> => sock # <<>> /\ sock'[1] = sock[1]
      BY <2>2, <2>3, SockTypes
    <2> QED BY <2>1, <2>3, <2>4, <2>5, SockTypes DEF Joined
  <1>10. CASE UNCHANGED vars
    <2>1. /\ sent' = sent /\ sock' = sock /\ conn' = conn
          /\ NextRead' = NextRead /\ NextWrite' = NextWrite
      BY <1>10 DEF vars, NextRead, NextWrite, Current, Progress
    <2> QED BY <2>1, StreamIdle
  <1> QED
    BY <1>1, <1>2, <1>3, <1>4, <1>5, <1>6, <1>7, <1>8, <1>9, <1>10
       DEF Next, Sender, Receiver, Kernel

-----------------------------------------------------------------------------
(* The theorems.                                                           *)

LEMMA InitInv == Init => IInv
  <1> SUFFICES ASSUME Init PROVE IInv
    OBVIOUS
  <1> USE TransportAssumption DEF Init, NoOutput, NewInput
  <1>1. TypeOK
    <2>1. outEvent \in BOOLEAN
      BY DEF TransportAssumption
    <2>2. MaxMsgs \in Nat /\ SockBuf \in Nat /\ HeadLen \in Nat
      OBVIOUS
    <2>3. /\ out \in [pkt : Nat, pos : Nat, left : Nat]
          /\ in \in [phase : {"GET_HEAD", "GET_BODY"}, pos : Nat, left : Nat]
      BY <2>2
    <2>4. /\ sent \in Seq(Lengths) /\ Len(sent) <= MaxMsgs
          /\ sock \in Seq(Bytes) /\ Len(sock) <= SockBuf
          /\ queue \in Seq(Nat \ {0})
          /\ content \in Seq(Bytes) /\ delivered \in Seq(Seq(Bytes))
      BY <2>2
    <2>5. put \in [pos : Nat, left : Nat] /\ get \in [pos : Nat, left : Nat]
      OBVIOUS
    <2> QED BY <2>1, <2>3, <2>4, <2>5 DEF TypeOK
  <1>2. Framing
    BY DEF Framing
  <1>3. QueueInv /\ OutputInv
    BY DEF QueueInv, OutputInv
  <1>4. InputInv
    BY DEF InputInv, Progress
  <1>5. Runs /\ Joined
    BY DEF Runs, Joined, NextWrite, NextRead, Current, Progress
  <1> QED BY <1>1, <1>2, <1>3, <1>4, <1>5 DEF IInv, StreamInv

(* The inductive invariant: type correctness, framing, and the stream that *)
(* links the sender's queue, the socket and the receiver's buffer.         *)
THEOREM Invariance == Spec => []IInv
  <1>1. IInv /\ [Next]_vars => IInv'
    BY TypeStep, SenderStep, ReaderStep, StreamStep DEF IInv, StreamInv
  <1> QED BY InitInv, <1>1, PTL DEF Spec

(* No byte counter of put_message or get_message ever runs below zero and  *)
(* the socket never holds more than its size.                              *)
THEOREM TypeCorrect == Spec => []TypeOK
  <1>1. IInv => TypeOK
    BY DEF IInv
  <1> QED BY Invariance, <1>1, PTL

(* Whatever the sizes of the reads and the writes, get_message completes   *)
(* exactly the packets submitted, in order, each whole and once.           *)
THEOREM FramingCorrect == Spec => []Framing
  <1>1. IInv => Framing
    BY DEF IInv
  <1> QED BY Invariance, <1>1, PTL

(* send_message always resumes the packet at the head of msg_list, at the  *)
(* byte after the last one written.                                        *)
THEOREM ResumeCorrect == Spec => []ResumeInv
  <1>1. IInv => ResumeInv
    BY SenderTypes DEF ResumeInv, OutputInv
  <1> QED BY Invariance, <1>1, PTL

(* Edge-triggered epoll never leaves an endpoint waiting for an edge it    *)
(* has already consumed: both loops run until EAGAIN.                      *)
THEOREM EdgesCorrect == Spec => []NoLostEdge
  <1>1. Init => NoLostEdge
    BY DEF Init, NoLostEdge
  <1>2. NoLostEdge /\ [Next]_vars => NoLostEdge'
    <2> SUFFICES ASSUME NoLostEdge, [Next]_vars PROVE NoLostEdge'
      OBVIOUS
    <2> USE DEF NoLostEdge
    <2>1. ASSUME NEW n \in Lengths, Submit(n) PROVE NoLostEdge'
      BY <2>1 DEF Submit, edgeVars, readerVars
    <2>2. CASE OnEpollOut
      BY <2>2 DEF OnEpollOut, readerVars
    <2>3. CASE StartPut \/ LoadNext
      BY <2>3 DEF StartPut, LoadNext, edgeVars, readerVars
    <2>4. CASE SendFinish
      BY <2>4 DEF SendFinish, edgeVars, readerVars
    <2>5. ASSUME NEW n \in 1..SockBuf, WriteSome(n) PROVE NoLostEdge'
      BY <2>5 DEF WriteSome, edgeVars, readerVars
    <2>6. CASE WriteAgain \/ WriteFail
      BY <2>6 DEF WriteAgain, WriteFail, edgeVars, readerVars
    <2>7. CASE OnEpollIn
      BY <2>7 DEF OnEpollIn, senderVars, edgeVars
    <2>8. ASSUME NEW n \in 1..SockBuf, ReadPart(n) \/ ReadHead(n) \/ ReadBody(n)
          PROVE  NoLostEdge'
      BY <2>8 DEF ReadPart, ReadHead, ReadBody, Readable, Consume, senderVars, edgeVars
    <2>9. CASE ReadAgain \/ ReadFail
      BY <2>9 DEF ReadAgain, ReadFail, senderVars, edgeVars
    <2>10. CASE Writable
      BY <2>10 DEF Writable, senderVars, readerVars
    <2>11. CASE Close
      BY <2>11 DEF Close, edgeVars, readerVars
    <2>12. CASE Reset
      BY <2>12 DEF Reset, senderVars, readerVars
    <2>13. CASE UNCHANGED vars
      BY <2>13 DEF vars
    <2> QED
      BY <2>1, <2>2, <2>3, <2>4, <2>5, <2>6, <2>7, <2>8, <2>9, <2>10, <2>11,
         <2>12, <2>13 DEF Next, Sender, Receiver, Kernel
  <1> QED BY <1>1, <1>2, PTL DEF Spec

(* Transport implements FifoChannel: a submitted packet is a Send, the     *)
(* read that completes a body a Deliver, and every other byte that moves   *)
(* a stutter.                                                              *)
THEOREM Refinement == Spec => ChannelSpec
  <1>1. Init => Channel!Init
    BY DEF Init, Channel!Init
  <1>2. ASSUME IInv, [Next]_vars
        PROVE  [Channel!Next]_(Channel!vars)
    <2> USE DEF Channel!vars
    <2>1. ASSUME NEW n \in Lengths, Submit(n)
          PROVE  Channel!Next
      <3>1. Channel!Send(n)
        BY <2>1 DEF Submit, readerVars, Channel!Send
      <3> QED BY <3>1 DEF Channel!Next
    <2>2. CASE Sender
      <3>1. UNCHANGED <<sent, delivered, conn, rpc>>
        BY <2>2 DEF Sender, OnEpollOut, StartPut, LoadNext, SendFinish, WriteSome,
                    WriteAgain, WriteFail, readerVars
      <3> QED BY <3>1
    <2>3. CASE OnEpollIn \/ ReadAgain
      <3>1. UNCHANGED <<sent, delivered, conn>> /\ rpc # "dead" /\ rpc' # "dead"
        BY <2>3 DEF OnEpollIn, ReadAgain, senderVars
      <3> QED BY <3>1
    <2>4. ASSUME NEW n \in 1..SockBuf, ReadPart(n) \/ ReadHead(n)
          PROVE  UNCHANGED Channel!vars
      <3>1. UNCHANGED <<sent, delivered, conn, rpc>>
        BY <2>4 DEF ReadPart, ReadHead, Consume, senderVars
      <3> QED BY <3>1
    <2>5. ASSUME NEW n \in 1..SockBuf, ReadBody(n)
          PROVE  Channel!Next
      <3>1. /\ rpc = "read" /\ rpc' = rpc /\ conn' = conn /\ sent' = sent
            /\ delivered' = Append(delivered, Fill(n))
        BY <2>5 DEF ReadBody, Readable, Consume, senderVars
      <3>2. Framing'
        BY <1>2, ReaderStep
      <3>3. /\ Len(delivered') = Len(delivered) + 1 /\ Len(delivered) \in Nat
            /\ Len(sent) \in Nat
            /\ delivered'[Len(delivered) + 1] = Fill(n)
        BY <2>5, <3>1, FillOf, ReaderTypes DEF ReadBody
      <3>4. /\ Len(delivered) < Len(sent)
            /\ Fill(n) = Channel!Packet(Len(delivered) + 1, sent[Len(delivered) + 1])
        BY <3>1, <3>2, <3>3 DEF Framing
      <3>5. Channel!Deliver
        BY <3>1, <3>4 DEF Channel!Deliver
      <3> QED BY <3>5 DEF Channel!Next
    <2>6. CASE ReadFail
      <3>1. Channel!Fail
        BY <2>6 DEF ReadFail, senderVars, Channel!Fail
      <3> QED BY <3>1 DEF Channel!Next
    <2>7. CASE Writable
      <3>1. UNCHANGED <<sent, delivered, conn, rpc>>
        BY <2>7 DEF Writable, senderVars, readerVars
      <3> QED BY <3>1
    <2>8. CASE Close
      <3>1. Channel!GoDown
        BY <2>8 DEF Close, readerVars, Channel!GoDown
      <3> QED BY <3>1 DEF Channel!Next
    <2>9. CASE Reset
      <3>1. UNCHANGED <<sent, delivered, rpc>> /\ conn' # "open"
        BY <2>9 DEF Reset, senderVars, readerVars
      <3>2. CASE conn = "open"
        BY <3>1, <3>2 DEF Channel!GoDown, Channel!Next
      <3>3. CASE conn # "open"
        BY <3>1, <3>3
      <3> QED BY <3>2, <3>3
    <2>10. CASE UNCHANGED vars
      <3>1. UNCHANGED <<sent, delivered, conn, rpc>>
        BY <2>10 DEF vars
      <3> QED BY <3>1
    <2> QED
      BY <2>1, <2>2, <2>3, <2>4, <2>5, <2>6, <2>7, <2>8, <2>9, <2>10,
         <1>2 DEF Next, Receiver, Kernel
  <1> QED BY Invariance, <1>1, <1>2, PTL DEF Spec, ChannelSpec, Channel!Spec
=============================================================================
