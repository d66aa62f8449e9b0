----------------------------- MODULE FifoChannel -----------------------------
(***************************************************************************)
(* What lib/ball.c promises its callers about one direction of one         *)
(* connection: every packet put on a message_send_queue is handed to the   *)
(* other end whole, once and in order, and the other end sees a failure    *)
(* only after the connection has gone down.  Module Transport implements   *)
(* this specification.                                                     *)
(*                                                                         *)
(* A byte is the pair <<k, j>>: byte j of the k-th packet ever submitted.  *)
(***************************************************************************)
EXTENDS Naturals, Sequences

CONSTANTS
    Lengths,    \* the values msg->length can take
    MaxMsgs     \* bound: packets submitted on the connection

VARIABLES
    sent,       \* sent[k] is the length of the k-th packet submitted
    delivered,  \* contents of the packets the receiver has completed
    up,         \* the connection still works
    failed      \* the receiver has been told MSG_GET_FAILED

vars == <<sent, delivered, up, failed>>

(* The content of a packet of n bytes that was submitted as number k.      *)
Packet(k, n) == [j \in 1..n |-> <<k, j>>]

Init ==
    /\ sent = <<>>
    /\ delivered = <<>>
    /\ up = TRUE
    /\ failed = FALSE

Send(n) ==
    /\ Len(sent) < MaxMsgs
    /\ sent' = Append(sent, n)
    /\ UNCHANGED <<delivered, up, failed>>

Deliver ==
    /\ ~failed
    /\ Len(delivered) < Len(sent)
    /\ LET k == Len(delivered) + 1
       IN  delivered' = Append(delivered, Packet(k, sent[k]))
    /\ UNCHANGED <<sent, up, failed>>

GoDown ==
    /\ up
    /\ up' = FALSE
    /\ UNCHANGED <<sent, delivered, failed>>

Fail ==
    /\ ~up
    /\ ~failed
    /\ failed' = TRUE
    /\ UNCHANGED <<sent, delivered, up>>

Next ==
    \/ \E n \in Lengths : Send(n)
    \/ Deliver
    \/ GoDown
    \/ Fail

Spec == Init /\ [][Next]_vars
=============================================================================
