-------------------------------- MODULE MCBall --------------------------------
(* Ball with one account name, whose list of members has itself.           *)
EXTENDS Ball

CONSTANTS ann

MCNames == {ann}
MCMembers == <<ann>>
MCNoMembers == <<>>
MCNoPrefix == {}
=============================================================================
