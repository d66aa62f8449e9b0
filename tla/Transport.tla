------------------------------ MODULE Transport ------------------------------
(***************************************************************************)
(* The message transport of lib/ball.c over one direction of one TCP       *)
(* connection: send_message and put_message on the sending endpoint,       *)
(* get_message and initial_new_input_msg on the receiving one, and the     *)
(* non-blocking, edge-triggered socket between them.                       *)
(*                                                                         *)
(* Every write and every read is a step of its own, so that partial        *)
(* writes, partial reads and EAGAIN fall anywhere inside a packet and the  *)
(* two ends interleave.  The byte <<k, j>> is byte j of the k-th packet    *)
(* submitted; its value is never looked at, except that the last byte of   *)
(* the head tells the receiver the LENGTH field of the packet it is in.    *)
(***************************************************************************)
EXTENDS Naturals, Sequences

CONSTANTS
    HeadLen,    \* MSG_HEAD_LENGTH, in model bytes
    Lengths,    \* the values msg->length can take (head and body)
    SockBuf,    \* bytes the kernel holds between a write and a read
    MaxMsgs,    \* bound: packets submitted on the connection
    EpollOut    \* does the sending endpoint register EPOLLOUT?

(* Every packet the program builds has a body: LOGIN, CHART, PEER_LIST and *)
(* LOGIN_RESPOND bodies hold at least one byte.  (With an empty body       *)
(* get_message would call read with a length of 0 and take its result, 0,  *)
(* for an end of file.)                                                    *)
ASSUME TransportAssumption ==
    /\ HeadLen \in Nat \ {0}
    /\ Lengths \subseteq Nat
    /\ \A n \in Lengths : n > HeadLen
    /\ SockBuf \in Nat \ {0}
    /\ MaxMsgs \in Nat
    /\ EpollOut \in BOOLEAN

VARIABLES
    sent,       \* history: sent[k] is msg->length of the k-th packet submitted
    queue,      \* output_queue.msg_list, packets by number
    spc,        \* sender: "idle", "loop" (send_message), "put" (put_message)
    out,        \* output_queue.status: packet pointed into, offset, left
    put,        \* put_message's locals p and left
    outEvent,   \* an EPOLLOUT edge is pending for the sender
    noSpace,    \* a write met a full socket and no edge was raised since
    sock,       \* bytes written and not yet read
    conn,       \* "open", "closed" (the sender closed it) or "reset"
    inEvent,    \* an EPOLLIN edge is pending for the receiver
    rpc,        \* receiver: "idle", "read" (get_message), "dead"
    content,    \* msg_input->content, the bytes stored so far
    in,         \* input_status: phase, position, left
    get,        \* get_message's locals p and left
    delivered   \* history: contents of the packets completed

senderVars == <<sent, queue, spc, out, put>>
edgeVars   == <<outEvent, noSpace>>
readerVars == <<rpc, content, in, get, delivered>>
vars == <<sent, queue, spc, out, put, outEvent, noSpace, sock, conn, inEvent,
          rpc, content, in, get, delivered>>

Smaller(a, b) == IF a <= b THEN a ELSE b

(* initial_new_input_msg: a new buffer, waiting for a head.                *)
NewInput == [phase |-> "GET_HEAD", pos |-> 0, left |-> HeadLen]

(* No packet is being written: status.position is NULL, status.left is 0.  *)
NoOutput == [pkt |-> 0, pos |-> 0, left |-> 0]

Init ==
    /\ sent = <<>> /\ queue = <<>>
    /\ spc = "idle" /\ out = NoOutput /\ put = [pos |-> 0, left |-> 0]
    /\ outEvent = EpollOut /\ noSpace = FALSE
    /\ sock = <<>> /\ conn = "open" /\ inEvent = FALSE
    /\ rpc = "idle" /\ content = <<>> /\ in = NewInput
    /\ get = [pos |-> 0, left |-> 0]
    /\ delivered = <<>>

-----------------------------------------------------------------------------
(* The sending endpoint.                                                   *)

(* A caller appends a packet to msg_list and calls send_message.           *)
Submit(n) ==
    /\ spc = "idle" /\ conn # "closed" /\ Len(sent) < MaxMsgs
    /\ sent' = Append(sent, n)
    /\ queue' = Append(queue, Len(sent) + 1)
    /\ spc' = "loop"
    /\ UNCHANGED <<out, put, edgeVars, sock, conn, inEvent, readerVars>>

(* The event loop sees EPOLLOUT and calls send_message.                    *)
OnEpollOut ==
    /\ spc = "idle" /\ conn # "closed" /\ outEvent
    /\ outEvent' = FALSE
    /\ spc' = "loop"
    /\ UNCHANGED <<sent, queue, out, put, noSpace, sock, conn, inEvent, readerVars>>

(* The loop of send_message: write what is left, else take the next one.   *)
StartPut ==
    /\ spc = "loop" /\ out.left > 0
    /\ spc' = "put"
    /\ put' = [pos |-> out.pos, left |-> out.left]
    /\ UNCHANGED <<sent, queue, out, edgeVars, sock, conn, inEvent, readerVars>>

LoadNext ==
    /\ spc = "loop" /\ out.left = 0 /\ queue # <<>>
    /\ out' = [pkt |-> Head(queue), pos |-> 0, left |-> sent[Head(queue)]]
    /\ UNCHANGED <<sent, queue, spc, put, edgeVars, sock, conn, inEvent, readerVars>>

(* Mutant: send_message returns after every packet, whatever is queued.     *)
SendFinishEarly ==
    /\ spc = "loop" /\ out.left = 0
    /\ spc' = "idle"
    /\ UNCHANGED <<sent, queue, out, put, edgeVars, sock, conn, inEvent, readerVars>>

SendFinish ==
    /\ spc = "loop" /\ out.left = 0 /\ queue = <<>>
    /\ spc' = "idle"
    /\ UNCHANGED <<sent, queue, out, put, edgeVars, sock, conn, inEvent, readerVars>>

(* The n bytes that follow put_message's p in the packet being written.    *)
Chunk(n) == [i \in 1..n |-> <<out.pkt, put.pos + i>>]

(* write() takes n bytes.  When they are the last ones put_message clears  *)
(* the status and send_message unlinks and frees the packet.               *)
WriteSome(n) ==
    /\ spc = "put" /\ conn = "open"
    /\ n \in 1..Smaller(put.left, SockBuf - Len(sock))
    /\ sock' = sock \o Chunk(n)
    /\ inEvent' = TRUE
    /\ put' = [pos |-> put.pos + n, left |-> put.left - n]
    /\ IF n = put.left
         THEN /\ out' = NoOutput
              /\ queue' = Tail(queue)
              /\ spc' = "loop"
         ELSE UNCHANGED <<out, queue, spc>>
    /\ UNCHANGED <<sent, edgeVars, conn, readerVars>>

(* Mutant: put_message saves what is left, not where it was.                *)
SavedOutputNoPos == [out EXCEPT !.left = put.left]

(* What put_message saves in the queue's status.                           *)
SavedOutput == [out EXCEPT !.pos = put.pos, !.left = put.left]

(* write() meets a full socket: the progress is saved, MSG_SEND_AGAIN.     *)
WriteAgain ==
    /\ spc = "put" /\ conn = "open" /\ Len(sock) = SockBuf
    /\ out' = SavedOutput
    /\ spc' = "idle"
    /\ noSpace' = TRUE
    /\ UNCHANGED <<sent, queue, put, outEvent, sock, conn, inEvent, readerVars>>

(* write() fails on a broken connection: MSG_SEND_FAILED, nothing saved.   *)
WriteFail ==
    /\ spc = "put" /\ conn = "reset"
    /\ spc' = "idle"
    /\ UNCHANGED <<sent, queue, out, put, edgeVars, sock, conn, inEvent, readerVars>>

Sender ==
    \/ OnEpollOut \/ StartPut \/ LoadNext \/ SendFinish
    \/ \E n \in 1..SockBuf : WriteSome(n)
    \/ WriteAgain \/ WriteFail

-----------------------------------------------------------------------------
(* The receiving endpoint.                                                 *)

(* The event loop sees EPOLLIN and calls get_message.                      *)
OnEpollIn ==
    /\ rpc = "idle" /\ inEvent
    /\ inEvent' = FALSE
    /\ rpc' = "read"
    /\ get' = [pos |-> in.pos, left |-> in.left]
    /\ UNCHANGED <<senderVars, edgeVars, sock, conn, content, in, delivered>>

(* read() stores n bytes at get_message's p.                               *)
Fill(n) == SubSeq(content, 1, get.pos) \o SubSeq(sock, 1, n)

(* message_parse_head: the LENGTH field ends with the last byte of the     *)
(* head, so it is the length of the packet that byte belongs to.           *)
ParsedLength(c) == sent[c[HeadLen][1]]

Readable(n) ==
    /\ rpc = "read"
    /\ n \in 1..Smaller(get.left, Len(sock))

Consume(n) ==
    /\ sock' = SubSeq(sock, n + 1, Len(sock))
    /\ UNCHANGED <<senderVars, edgeVars, conn, inEvent, rpc>>

(* Fewer bytes than asked for: go round the loop and read again.           *)
ReadPart(n) ==
    /\ Readable(n) /\ n < get.left
    /\ content' = Fill(n)
    /\ get' = [pos |-> get.pos + n, left |-> get.left - n]
    /\ Consume(n)
    /\ UNCHANGED <<in, delivered>>

(* Mutant: the head is subtracted from a LENGTH that excludes it already.   *)
BodyLengthTwice(length) == length - HeadLen - HeadLen

(* LENGTH counts the head and the body.                                    *)
BodyLength(length) == length - HeadLen

(* The head is complete: message_parse_head, then wait for the body.       *)
ReadHead(n) ==
    /\ Readable(n) /\ n = get.left /\ in.phase = "GET_HEAD"
    /\ content' = Fill(n)
    /\ LET left == BodyLength(ParsedLength(Fill(n)))
       IN  /\ in' = [phase |-> "GET_BODY", pos |-> get.pos + n, left |-> left]
           /\ get' = [pos |-> get.pos + n, left |-> left]
    /\ Consume(n)
    /\ UNCHANGED delivered

(* The body is complete: MSG_GET_FINISH.  The caller takes the packet,     *)
(* allocates the next buffer and calls get_message again.                  *)
ReadBody(n) ==
    /\ Readable(n) /\ n = get.left /\ in.phase = "GET_BODY"
    /\ delivered' = Append(delivered, Fill(n))
    /\ content' = <<>>
    /\ in' = NewInput
    /\ get' = [pos |-> 0, left |-> HeadLen]
    /\ Consume(n)

(* Mutant: get_message returns MSG_GET_AGAIN without saving its progress.   *)
SavedInputLost == in

(* What get_message saves in input_status.                                 *)
SavedInput == [in EXCEPT !.pos = get.pos, !.left = get.left]

(* Mutant: a short read is taken for the end of the data.                   *)
ReadAgainShort ==
    /\ rpc = "read" /\ conn = "open"
    /\ in' = SavedInput
    /\ rpc' = "idle"
    /\ UNCHANGED <<senderVars, edgeVars, sock, conn, inEvent, content, get, delivered>>

(* Nothing to read: the position is saved, MSG_GET_AGAIN.                  *)
ReadAgain ==
    /\ rpc = "read" /\ sock = <<>> /\ conn = "open"
    /\ in' = SavedInput
    /\ rpc' = "idle"
    /\ UNCHANGED <<senderVars, edgeVars, sock, conn, inEvent, content, get, delivered>>

(* Mutant: EAGAIN is reported as a failure.                                 *)
ReadFailAgain ==
    /\ rpc = "read" /\ sock = <<>>
    /\ rpc' = "dead"
    /\ UNCHANGED <<senderVars, edgeVars, sock, conn, inEvent, content, in, get, delivered>>

(* End of file or an error: MSG_GET_FAILED, the caller destroys its end.   *)
ReadFail ==
    /\ rpc = "read" /\ sock = <<>> /\ conn # "open"
    /\ rpc' = "dead"
    /\ UNCHANGED <<senderVars, edgeVars, sock, conn, inEvent, content, in, get, delivered>>

Receiver ==
    \/ OnEpollIn
    \/ \E n \in 1..SockBuf : ReadPart(n) \/ ReadHead(n) \/ ReadBody(n)
    \/ ReadAgain \/ ReadFail

-----------------------------------------------------------------------------
(* The kernel and the network.                                             *)

(* epoll reports EPOLLOUT when room appears after a refused write, and     *)
(* may report it along with any other event while there is room.           *)
Writable ==
    /\ EpollOut /\ conn = "open" /\ Len(sock) < SockBuf
    /\ outEvent' = TRUE
    /\ noSpace' = FALSE
    /\ UNCHANGED <<senderVars, sock, conn, inEvent, readerVars>>

(* The sending process closes the socket between two calls, or dies in the *)
(* middle of one; the bytes it has written still arrive.                   *)
Close ==
    /\ conn = "open"
    /\ conn' = "closed"
    /\ spc' = "idle"
    /\ inEvent' = TRUE
    /\ UNCHANGED <<sent, queue, out, put, edgeVars, sock, readerVars>>

(* The connection breaks: the bytes still under way are lost, those that   *)
(* reached the receiver's buffer can still be read.                        *)
Reset ==
    /\ conn # "reset"
    /\ conn' = IF conn = "open" THEN "reset" ELSE conn
    /\ \E k \in 0..Len(sock) : sock' = SubSeq(sock, 1, k)
    /\ inEvent' = TRUE
    /\ outEvent' = EpollOut
    /\ UNCHANGED <<senderVars, noSpace, readerVars>>

Kernel == Writable \/ Close \/ Reset

Next ==
    \/ \E n \in Lengths : Submit(n)
    \/ Sender
    \/ Receiver
    \/ Kernel

Spec == Init /\ [][Next]_vars

(* Both event loops keep running, a call that has started goes on, and     *)
(* epoll reports the room that appears after a refused write.              *)
FairSpec ==
    /\ Spec
    /\ WF_vars(Sender)
    /\ WF_vars(Receiver)
    /\ WF_vars(noSpace /\ Writable)

-----------------------------------------------------------------------------
(* Properties.                                                             *)

Bytes == (Nat \ {0}) \X (Nat \ {0})

(* Type correctness: in particular no counter of bytes left runs below     *)
(* zero, neither in put_message nor in get_message.                        *)
TypeOK ==
    /\ sent \in Seq(Lengths) /\ Len(sent) <= MaxMsgs
    /\ queue \in Seq(Nat \ {0})
    /\ spc \in {"idle", "loop", "put"}
    /\ out \in [pkt : Nat, pos : Nat, left : Nat]
    /\ put \in [pos : Nat, left : Nat]
    /\ outEvent \in BOOLEAN /\ noSpace \in BOOLEAN /\ inEvent \in BOOLEAN
    /\ sock \in Seq(Bytes) /\ Len(sock) <= SockBuf
    /\ conn \in {"open", "closed", "reset"}
    /\ rpc \in {"idle", "read", "dead"}
    /\ content \in Seq(Bytes)
    /\ in \in [phase : {"GET_HEAD", "GET_BODY"}, pos : Nat, left : Nat]
    /\ get \in [pos : Nat, left : Nat]
    /\ delivered \in Seq(Seq(Bytes))

(* Framing: whatever the sizes of the writes and the reads, the packets    *)
(* get_message completes are the packets submitted, each whole, in order   *)
(* and once; nothing of a packet leaks into the next one.                  *)
Channel == INSTANCE FifoChannel WITH up <- (conn = "open"),
                                     failed <- (rpc = "dead")

Framing ==
    /\ Len(delivered) <= Len(sent)
    /\ \A k \in 1..Len(delivered) : delivered[k] = Channel!Packet(k, sent[k])

(* A saved output status always points into the packet at the head of      *)
(* msg_list, and covers exactly its unwritten bytes: send_message never    *)
(* resumes a packet it has already unlinked and freed.                     *)
ResumeInv ==
    out.left > 0 =>
        /\ queue # <<>>
        /\ out.pkt = Head(queue)
        /\ out.pos + out.left = sent[out.pkt]

(* No edge is lost: an endpoint that is back in epoll_wait has been, or    *)
(* will be, notified of whatever it left undone (edge-triggered epoll      *)
(* reports a condition once, so both loops must run until EAGAIN).         *)
NoLostEdge ==
    /\ rpc = "idle" /\ (sock # <<>> \/ conn # "open") => inEvent
    /\ EpollOut /\ spc = "idle" /\ queue # <<>> /\ conn = "open"
          => noSpace \/ outEvent

(* The transport implements the abstract channel: a failure is reported    *)
(* only on a connection that went down, and a packet is delivered only     *)
(* whole, once and in order.                                               *)
ChannelSpec == Channel!Spec

(* Every packet put on the queue is delivered, unless the connection goes  *)
(* down (server.c:520, "here we output the message to the peer client").   *)
AllDelivered ==
    \A k \in 1..MaxMsgs :
        Len(sent) >= k ~> (Len(delivered) >= k \/ conn # "open")
=============================================================================
