------------------------------- MODULE MCClient -------------------------------
(* Client with one or two account names; the server lists one member.      *)
EXTENDS Client

CONSTANTS ann, bob      \* names

MCNames == {ann, bob}
MCOneName == {ann}
MCMemberList == <<ann>>
MCNoMembers == <<>>
=============================================================================
