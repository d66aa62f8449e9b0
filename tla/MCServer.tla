------------------------------ MODULE MCServer ------------------------------
(* Server with two account names that have one character in common, or none *)
(* (MCNoPrefix), each a member of the other's list.                         *)
EXTENDS Server, TLC

CONSTANTS ann, anna     \* names; "ann" is a prefix of "anna"

MCNames == {ann, anna}
MCOneName == {ann}
MCNoPrefix == {}
MCPrefix == {<<ann, anna>>}
MCMembers == ann :> <<anna>> @@ anna :> <<ann>>

MCOneMember == ann :> <<ann>>

MCSymmetry == Permutations(Peers)
=============================================================================
