--------------------------------- MODULE Lists ---------------------------------
(***************************************************************************)
(* What the lists of include/list.h promise: every list is a sequence of   *)
(* entries, and an entry is on one list at most.  q has the lists of       *)
(* struct list_head, hq those of struct hlist_head.                        *)
(***************************************************************************)
EXTENDS Naturals, Sequences, SequencesExt

CONSTANTS Heads, HHeads, Nodes

VARIABLES q, hq

Init == q = [l \in Heads |-> <<>>] /\ hq = [l \in HHeads |-> <<>>]

On(lists, l) == ToSet(lists[l])
Busy(lists) == UNION {On(lists, l) : l \in DOMAIN lists}

(* The lists with the i-th entry of list l taken out.                      *)
TakenOut(lists, l, i) == [lists EXCEPT ![l] = RemoveAt(@, i)]

(* Lists l and h become s and t; they may be one list, and then s is t.    *)
Become(l, s, h, t) == q' = [q EXCEPT ![h] = t, ![l] = s]

(* list_add and list_add_tail.                                             *)
Add(n, l) ==
    /\ n \notin Busy(q)
    /\ \E s \in {<<n>> \o q[l], Append(q[l], n)} : Become(l, s, l, s)

(* list_del and list_del_init.                                             *)
Delete(n) ==
    \E l \in Heads : \E i \in 1..Len(q[l]) : q[l][i] = n /\ q' = TakenOut(q, l, i)

(* list_replace: an entry takes another's place.                           *)
Replace(old, new) ==
    /\ old \in Busy(q) /\ new \notin Busy(q)
    /\ q' = [l \in Heads |-> [i \in DOMAIN q[l] |-> IF q[l][i] = old THEN new ELSE q[l][i]]]

(* list_move and list_move_tail.                                           *)
Move(n, l) ==
    \E h \in Heads : \E i \in 1..Len(q[h]) :
        LET rest == TakenOut(q, h, i)
        IN  /\ q[h][i] = n
            /\ \E s \in {<<n>> \o rest[l], Append(rest[l], n)} : q' = [rest EXCEPT ![l] = s]

(* list_rotate_left.                                                       *)
Rotate(l) == q[l] # <<>> /\ q' = [q EXCEPT ![l] = Append(Tail(@), Head(@))]

(* list_cut_position: the first entries of h move to l, which is empty.    *)
Cut(l, h) ==
    /\ l # h /\ q[l] = <<>>
    /\ \E k \in 0..Len(q[h]) :
          Become(l, SubSeq(q[h], 1, k), h, SubSeq(q[h], k + 1, Len(q[h])))

(* list_splice and list_splice_tail with their variants, and list_replace  *)
(* for the head of a list: all entries of l move to h.                     *)
Join(l, h) ==
    /\ l # h
    /\ \E s \in {q[l] \o q[h], q[h] \o q[l]} : Become(l, <<>>, h, s)

(* hlist_add_head, hlist_add_before and hlist_add_after.                   *)
HAdd(n, l) ==
    /\ n \notin Busy(hq)
    /\ \E i \in 1..(Len(hq[l]) + 1) : hq' = [hq EXCEPT ![l] = InsertAt(@, i, n)]

(* hlist_del and hlist_del_init.                                           *)
HDelete(n) ==
    \E l \in HHeads : \E i \in 1..Len(hq[l]) : hq[l][i] = n /\ hq' = TakenOut(hq, l, i)

(* hlist_move_list.                                                        *)
HMove(l, h) == l # h /\ hq[h] = <<>> /\ hq' = [hq EXCEPT ![l] = <<>>, ![h] = hq[l]]

Next ==
    \/ /\ \/ \E n \in Nodes, l \in Heads : Add(n, l) \/ Move(n, l)
          \/ \E n \in Nodes : Delete(n)
          \/ \E n, m \in Nodes : Replace(n, m)
          \/ \E l \in Heads : Rotate(l)
          \/ \E l, h \in Heads : Cut(l, h) \/ Join(l, h)
       /\ UNCHANGED hq
    \/ /\ \/ \E n \in Nodes, l \in HHeads : HAdd(n, l)
          \/ \E n \in Nodes : HDelete(n)
          \/ \E l, h \in HHeads : HMove(l, h)
       /\ UNCHANGED q

Spec == Init /\ [][Next]_<<q, hq>>
=============================================================================
