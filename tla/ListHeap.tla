-------------------------------- MODULE ListHeap --------------------------------
(***************************************************************************)
(* The linked lists of include/list.h, pointer by pointer: struct          *)
(* list_head, whose entries and heads form a ring, and struct hlist_head,  *)
(* whose entries point back at the pointer that points at them.            *)
(*                                                                         *)
(* Every function is an operator from a heap to the heap it leaves; an     *)
(* EXCEPT with several parts writes them in the order of the code.         *)
(***************************************************************************)
EXTENDS Naturals, Sequences, FiniteSets

CONSTANTS
    Heads,  \* struct list_head that are heads
    HHeads, \* struct hlist_head
    Nodes,  \* structures with a list_head and a hlist_node
    NULL

ASSUME ListAssumption ==
    /\ IsFiniteSet(Nodes)
    /\ Heads \cap Nodes = {} /\ HHeads \cap Nodes = {}
    /\ NULL \notin Heads \cup HHeads \cup Nodes

VARIABLES
    heap,   \* next and prev of each list_head
    hheap,  \* first of each hlist_head, next and pprev of each hlist_node
    inited  \* the heads of lists that may be used

vars == <<heap, hheap, inited>>

Addresses == Heads \cup Nodes

(* Pointers that a pprev may point at: the first of a head, or the next of *)
(* a node.                                                                 *)
Fields == HHeads \cup Nodes

Init ==
    /\ heap = [next |-> [a \in Addresses |-> NULL], prev |-> [a \in Addresses |-> NULL]]
    /\ hheap = [to |-> [f \in Fields |-> NULL], pprev |-> [n \in Nodes |-> NULL]]
    /\ inited = {}

-----------------------------------------------------------------------------
(* struct list_head.                                                       *)

INIT_LIST_HEAD(h, l) == [h EXCEPT !.next[l] = l, !.prev[l] = l]

list_empty(h, l) == h.next[l] = l
list_is_singular(h, l) == ~list_empty(h, l) /\ h.next[l] = h.prev[l]

(* Mutant: the entry behind the new one still points back over it.          *)
AddBetweenForward(h, new, p, n) ==
    [h EXCEPT !.next[new] = n, !.prev[new] = p, !.next[p] = new]

(* __list_add.                                                             *)
AddBetween(h, new, p, n) ==
    [h EXCEPT !.prev[n] = new, !.next[new] = n, !.prev[new] = p, !.next[p] = new]

list_add(h, new, l) == AddBetween(h, new, l, h.next[l])
list_add_tail(h, new, l) == AddBetween(h, new, h.prev[l], l)

(* __list_del, for the neighbours of e.                                    *)
Unlink(h, e) == [h EXCEPT !.prev[h.next[e]] = h.prev[e], !.next[h.prev[e]] = h.next[e]]

list_del(h, e) == [Unlink(h, e) EXCEPT !.next[e] = NULL, !.prev[e] = NULL]
list_del_init(h, e) == INIT_LIST_HEAD(Unlink(h, e), e)

(* Of an old that is empty, new->next->prev is old->prev.                  *)
list_replace(h, old, new) ==
    LET g == [h EXCEPT !.next[new] = h.next[old], !.prev[h.next[old]] = new]
    IN  [g EXCEPT !.prev[new] = g.prev[old], !.next[g.prev[old]] = new]

list_replace_init(h, old, new) == INIT_LIST_HEAD(list_replace(h, old, new), old)

list_move(h, e, l) == list_add(Unlink(h, e), e, l)
list_move_tail(h, e, l) == list_add_tail(Unlink(h, e), e, l)

list_rotate_left(h, l) ==
    IF list_empty(h, l) THEN h ELSE list_move_tail(h, h.next[l], l)

(* __list_cut_position.                                                    *)
CutAfter(h, l, from, e) ==
    [h EXCEPT !.next[l] = h.next[from], !.prev[h.next[from]] = l, !.prev[l] = e,
              !.next[e] = l, !.next[from] = h.next[e], !.prev[h.next[e]] = from]

list_cut_position(h, l, from, e) ==
    IF \/ list_empty(h, from)
       \/ list_is_singular(h, from) /\ e \notin {from, h.next[from]}
      THEN h
    ELSE IF e = from THEN INIT_LIST_HEAD(h, l)
    ELSE CutAfter(h, l, from, e)

(* __list_splice, with the test all callers make.                          *)
SpliceBetween(h, l, p, n) ==
    IF list_empty(h, l) THEN h
    ELSE [h EXCEPT !.prev[h.next[l]] = p, !.next[p] = h.next[l],
                   !.next[h.prev[l]] = n, !.prev[n] = h.prev[l]]

list_splice(h, l, at) == SpliceBetween(h, l, at, h.next[at])
list_splice_tail(h, l, at) == SpliceBetween(h, l, h.prev[at], at)
list_splice_init(h, l, at) == INIT_LIST_HEAD(list_splice(h, l, at), l)

(* Mutant: the list is left as it was, its entries now on two lists.        *)
SpliceTailKept(h, l, at) == list_splice_tail(h, l, at)

list_splice_tail_init(h, l, at) == INIT_LIST_HEAD(list_splice_tail(h, l, at), l)

-----------------------------------------------------------------------------
(* struct hlist_head: to[f] is the pointer in field f, and pprev[n] the    *)
(* field that points at n.                                                 *)

HNode(g, n) == [g EXCEPT !.to[n] = NULL, !.pprev[n] = NULL]
hlist_unhashed(g, n) == g.pprev[n] = NULL

(* g with the pprev of n, if there is an n, set to f.                      *)
PointBack(g, n, f) == IF n = NULL THEN g ELSE [g EXCEPT !.pprev[n] = f]

(* Mutant: the next entry keeps its pprev.                                  *)
HUnlinkForward(g, n) == [g EXCEPT !.to[g.pprev[n]] = g.to[n]]

(* __hlist_del.                                                            *)
HUnlink(g, n) ==
    PointBack([g EXCEPT !.to[g.pprev[n]] = g.to[n]], g.to[n], g.pprev[n])

hlist_del(g, n) == HNode(HUnlink(g, n), n)
hlist_del_init(g, n) == IF hlist_unhashed(g, n) THEN g ELSE HNode(HUnlink(g, n), n)

hlist_add_head(g, n, l) ==
    [PointBack([g EXCEPT !.to[n] = g.to[l]], g.to[l], n) EXCEPT !.to[l] = n, !.pprev[n] = l]

hlist_add_before(g, n, next) ==
    [g EXCEPT !.pprev[n] = g.pprev[next], !.to[n] = next, !.pprev[next] = n,
              !.to[g.pprev[next]] = n]

hlist_add_after(g, n, next) ==
    PointBack([g EXCEPT !.to[next] = g.to[n], !.to[n] = next, !.pprev[next] = n],
              g.to[n], next)

hlist_move_list(g, old, new) ==
    [PointBack([g EXCEPT !.to[new] = g.to[old]], g.to[old], new) EXCEPT !.to[old] = NULL]

-----------------------------------------------------------------------------
(* What a walk along the pointers finds, from a on: list_for_each and      *)
(* hlist_for_each.  It takes no more steps than there are nodes.           *)
Walk(pointer, a) ==
    LET N == Cardinality(Nodes)
        at[i \in 0..N] ==
            IF i = 0 THEN a
            ELSE IF at[i - 1] \in Nodes THEN pointer[at[i - 1]]
            ELSE at[i - 1]
    IN  [i \in 1..Cardinality({j \in 0..N : at[j] \in Nodes}) |-> at[i - 1]]

List(l) == IF l \in inited THEN Walk(heap.next, heap.next[l]) ELSE <<>>
HList(l) == Walk(hheap.to, hheap.to[l])

Has(s, n) == \E i \in 1..Len(s) : s[i] = n
Listed(n) == \E l \in Heads : Has(List(l), n)
HListed(n) == \E l \in HHeads : Has(HList(l), n)

-----------------------------------------------------------------------------
(* The calls a program may make: an entry that is added is on no list, one *)
(* that is deleted, moved or replaced is on one, and a list that was       *)
(* spliced away or replaced is initialised before it is used again.        *)

InitHead(l) ==
    /\ l \notin inited
    /\ heap' = INIT_LIST_HEAD(heap, l)
    /\ inited' = inited \cup {l}

AddEntry(n) ==
    /\ ~Listed(n)
    /\ \E l \in inited : heap' \in {list_add(heap, n, l), list_add_tail(heap, n, l)}
    /\ UNCHANGED inited

DeleteEntry(n) ==
    /\ Listed(n)
    /\ heap' \in {list_del(heap, n), list_del_init(heap, n)}
    /\ UNCHANGED inited

ReplaceEntry(n) ==
    /\ Listed(n)
    /\ \E new \in Nodes :
          /\ ~Listed(new)
          /\ heap' \in {list_replace(heap, n, new), list_replace_init(heap, n, new)}
    /\ UNCHANGED inited

MoveEntry(n) ==
    /\ Listed(n)
    /\ \E l \in inited : heap' \in {list_move(heap, n, l), list_move_tail(heap, n, l)}
    /\ UNCHANGED inited

RotateList(l) ==
    /\ l \in inited
    /\ heap' = list_rotate_left(heap, l)
    /\ UNCHANGED inited

ReplaceHead(l, new) ==
    /\ l \in inited /\ l # new /\ List(new) = <<>>
    /\ \/ heap' = list_replace(heap, l, new) /\ inited' = (inited \ {l}) \cup {new}
       \/ heap' = list_replace_init(heap, l, new) /\ inited' = inited \cup {new}

(* The new list of list_cut_position is one whose data may be lost.        *)
CutList(l, from) ==
    /\ l # from /\ {l, from} \subseteq inited /\ List(l) = <<>>
    /\ \E e \in Nodes \cup {from} :
          /\ e = from \/ Has(List(from), e)
          /\ heap' = list_cut_position(heap, l, from, e)
    /\ UNCHANGED inited

SpliceList(l, at) ==
    /\ l # at /\ {l, at} \subseteq inited
    /\ \/ /\ heap' \in {list_splice(heap, l, at), list_splice_tail(heap, l, at)}
          /\ inited' = inited \ {l}
       \/ /\ heap' \in {list_splice_init(heap, l, at), list_splice_tail_init(heap, l, at)}
          /\ UNCHANGED inited

HAddEntry(n) ==
    /\ ~HListed(n)
    /\ \/ \E l \in HHeads : hheap' = hlist_add_head(hheap, n, l)
       \/ \E m \in Nodes : HListed(m) /\ hheap' = hlist_add_before(hheap, n, m)
       \/ \E m \in Nodes : HListed(m) /\ hheap' = hlist_add_after(hheap, m, n)

HDeleteEntry(n) ==
    \/ HListed(n) /\ hheap' = hlist_del(hheap, n)
    \/ hheap' = hlist_del_init(hheap, n)

HMoveList(l, new) ==
    /\ l # new /\ HList(new) = <<>>
    /\ hheap' = hlist_move_list(hheap, l, new)

Next ==
    \/ /\ \/ \E l \in Heads : InitHead(l) \/ RotateList(l)
          \/ \E n \in Nodes :
                AddEntry(n) \/ DeleteEntry(n) \/ ReplaceEntry(n) \/ MoveEntry(n)
          \/ \E l, k \in Heads : ReplaceHead(l, k) \/ CutList(l, k) \/ SpliceList(l, k)
       /\ UNCHANGED hheap
    \/ /\ \/ \E n \in Nodes : HAddEntry(n) \/ HDeleteEntry(n)
          \/ \E l, k \in HHeads : HMoveList(l, k)
       /\ UNCHANGED <<heap, inited>>

Spec == Init /\ [][Next]_vars

-----------------------------------------------------------------------------
(* Properties.                                                             *)

(* Every ring closes, and is the same ring backwards: the first thing      *)
(* list_add_tail and list_del do is to follow a prev pointer.              *)
RingsClose ==
    \A l \in inited :
        LET s == List(l)
            N == Len(s)
        IN  /\ heap.next[IF N = 0 THEN l ELSE s[N]] = l
            /\ Walk(heap.prev, heap.prev[l]) = [i \in 1..N |-> s[N + 1 - i]]

(* The pprev of an entry is the one field that points at it, and an entry  *)
(* has one exactly while it is on a list: hlist_del relies on the first,   *)
(* hlist_del_init on the second.                                           *)
PointedBack ==
    /\ \A f \in Fields : (f \in Nodes => HListed(f)) /\ hheap.to[f] # NULL =>
          hheap.pprev[hheap.to[f]] = f
    /\ \A n \in Nodes : HListed(n) <=> ~hlist_unhashed(hheap, n)

(* Whatever the pointers do, the lists are the sequences of module Lists,  *)
(* and every call moves the entries it should, and no other.               *)
L == INSTANCE Lists WITH
        q <- [l \in Heads |-> List(l)], hq <- [l \in HHeads |-> HList(l)]
ListSpec == L!Spec
=============================================================================
