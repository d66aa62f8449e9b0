-------------------------------- MODULE MCLists --------------------------------
(* ListHeap with entries that can be exchanged.  The two kinds of lists     *)
(* share nothing, so each is explored while the other is as it was made.    *)
EXTENDS ListHeap, TLC

MCSymmetry == Permutations(Nodes)
MCApart == inited = {} \/ \A f \in Fields : hheap.to[f] = NULL
=============================================================================
