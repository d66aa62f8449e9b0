----------------------------- MODULE MCTransport -----------------------------
(* Transport with a head of two bytes and packets of one or two body bytes: *)
(* a socket of three bytes cuts heads and bodies at every offset.           *)
EXTENDS Transport

MCHeadLen == 2
MCLengths == {3, 4}
=============================================================================
