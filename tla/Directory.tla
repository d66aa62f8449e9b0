------------------------------ MODULE Directory ------------------------------
(***************************************************************************)
(* What the server keeps for its clients: the connections that are open,   *)
(* and which names are online on which of them.  A name is online on a     *)
(* connection from its login until the connection ends, and no longer.     *)
(* Module Server implements this specification with its pool of peers and  *)
(* its hash table of accounts.                                             *)
(***************************************************************************)

CONSTANTS
    Peers,      \* connections
    Names       \* account names

VARIABLES
    open,       \* the connections the server holds
    online      \* the pairs <<connection, name>> that can be looked up

vars == <<open, online>>

Init ==
    /\ open = {}
    /\ online = {}

Connect(p) ==
    /\ p \notin open
    /\ open' = open \cup {p}
    /\ UNCHANGED online

Login(p, n) ==
    /\ p \in open
    /\ online' = online \cup {<<p, n>>}
    /\ UNCHANGED open

(* A connection ends, and with it every name that was online on it.        *)
Leave(p) ==
    /\ p \in open
    /\ open' = open \ {p}
    /\ online' = {s \in online : s[1] # p}

Next ==
    \E p \in Peers :
        \/ Connect(p)
        \/ \E n \in Names : Login(p, n)
        \/ Leave(p)

Spec == Init /\ [][Next]_vars
=============================================================================
