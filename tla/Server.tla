-------------------------------- MODULE Server --------------------------------
(***************************************************************************)
(* The server of server/server.c: the epoll loop of main, the peers with   *)
(* their idle timeouts, the hash table of the accounts that are online and *)
(* the processing of the messages.                                         *)
(*                                                                         *)
(* A message is read and written whole: module Transport shows what        *)
(* becomes of one on a connection.  A connection keeps its identity for    *)
(* ever, as the peer_info allocated for it does; the memory of a freed     *)
(* peer_info may be that of a later one.                                   *)
(***************************************************************************)
EXTENDS Naturals, Sequences, FiniteSets

CONSTANTS
    Peers,          \* connections clients make, each once
    Listen,         \* the listening socket
    Names,          \* account names
    PrefixOf,       \* pairs of names, the first a proper prefix of the second
    Members,        \* table relationship: the members of each name
    IdleMax,        \* TIME_IDEL_MAX, in ticks
    MaxEvents,      \* MAX_EPOLL_EVENT
    LoginsPerPeer,  \* LOGIN packets a client sends on one connection
    MaxMsgs,        \* bound: packets the clients send, all together
    Burst,          \* bound: packets a client sends at once
    MaxClock        \* bound: ticks of the clock

ASSUME ServerAssumption ==
    /\ Listen \notin Peers
    /\ PrefixOf \subseteq Names \X Names
    /\ Members \in [Names -> Seq(Names)]
    /\ IdleMax \in Nat
    /\ MaxEvents \in Nat \ {0}
    /\ LoginsPerPeer \in Nat
    /\ MaxMsgs \in Nat /\ Burst \in Nat \ {0}
    /\ MaxClock \in Nat

VARIABLES
    pc,             \* where main is
    cur,            \* the peer whose event main handles
    batch,          \* ep_responds: the events of this round still to handle
    rows,           \* rows of the relationship query still to send
    check_timeout,  \* set by the handler of SIGALRM
    now,            \* local variables now, of main and clear_outtime_peer
    pending,        \* SIGALRM is pending
    clock,          \* time(NULL)
    ready,          \* sockets with an edge that epoll has not reported yet
    state,          \* of a connection: "none", "backlog", "open", "gone"
    hup,            \* the client has closed its end
    said,           \* history: the packets the client sent
    nread,          \* how many of them the server has read
    time_last,      \* peer->time_last
    account,        \* peer->account, 0 for NULL
    timeout_list,   \* the list of peers, oldest first
    accts,          \* accounts by number: name and conn
    hslot,          \* the accounts in the hash table, newest first
    oq,             \* peer->output_queue
    wire            \* history: the packets handed to the kernel for a peer

loopVars == <<pc, cur, batch, rows, check_timeout, now>>
acctVars == <<account, accts, hslot>>
outVars  == <<oq, wire>>
vars == <<pc, cur, batch, rows, check_timeout, now, pending, clock, ready, state,
          hup, said, nread, time_last, account, timeout_list, accts, hslot, oq, wire>>

Open == {p \in Peers : state[p] = "open"}

Init ==
    /\ pc = "top" /\ cur = Listen /\ batch = {} /\ rows = <<>>
    /\ check_timeout = FALSE /\ now = 0
    /\ pending = FALSE /\ clock = 0 /\ ready = {}
    /\ state = [p \in Peers |-> "none"]
    /\ hup = [p \in Peers |-> FALSE]
    /\ said = [p \in Peers |-> <<>>]
    /\ nread = [p \in Peers |-> 0]
    /\ time_last = [p \in Peers |-> 0]
    /\ account = [p \in Peers |-> 0]
    /\ timeout_list = <<>>
    /\ accts = <<>> /\ hslot = <<>>
    /\ oq = [p \in Peers |-> <<>>]
    /\ wire = [p \in Peers |-> <<>>]

-----------------------------------------------------------------------------
(* Lists.                                                                  *)

Position(s, x) == CHOOSE i \in 1..Len(s) : s[i] = x

(* list_del, hlist_del.                                                    *)
Remove(s, x) ==
    LET i == Position(s, x)
    IN  SubSeq(s, 1, i - 1) \o SubSeq(s, i + 1, Len(s))

(* Mutant: an element added at the wrong end.                               *)
AddTailFirst(s, x) == <<x>> \o s

(* list_add_tail.                                                          *)
AddTail(s, x) == Append(s, x)

(* Mutant: an element added at the wrong end.                               *)
AddHeadLast(s, x) == Append(s, x)

(* hlist_add_head.                                                         *)
AddHead(s, x) == <<x>> \o s

-----------------------------------------------------------------------------
(* Peers and accounts.                                                     *)

(* Mutant: account_remove_from_db is not called.                            *)
UnlistedNot(p) == hslot

(* account_remove_from_db, for the account the peer points to.             *)
Unlisted(p) == IF account[p] = 0 THEN hslot ELSE Remove(hslot, account[p])

(* Mutant: the socket is not closed.                                        *)
UnwatchedNot(p) == ready

(* close takes the socket out of epoll with the edges not yet reported.    *)
Unwatched(p) == ready \ {p}

(* destroy_peer_info.  What output_queue holds is not freed.               *)
Destroy(p) ==
    /\ state' = [state EXCEPT ![p] = "gone"]
    /\ ready' = Unwatched(p)
    /\ timeout_list' = Remove(timeout_list, p)
    /\ account' = [account EXCEPT ![p] = 0]
    /\ hslot' = Unlisted(p)
    /\ UNCHANGED <<accts, time_last>>

(* Mutant: the peer keeps its place in the list.                            *)
TouchInPlace(p) ==
    /\ time_last' = [time_last EXCEPT ![p] = clock]
    /\ UNCHANGED timeout_list

(* Lines 503 to 505: the peer was active now, and goes to the tail.        *)
Touch(p) ==
    /\ timeout_list' = AddTail(Remove(timeout_list, p), p)
    /\ time_last' = [time_last EXCEPT ![p] = clock]

(* Mutant: strncmp is given a length of 0.                                  *)
MatchesAny(m, n) == TRUE

(* account_get_from_db compares as many characters as the shorter of the   *)
(* two names has, so a name also matches its prefixes and its extensions.  *)
Matches(m, n) == m = n \/ <<m, n>> \in PrefixOf \/ <<n, m>> \in PrefixOf

Lookup(n) ==
    LET hits == {i \in 1..Len(hslot) : Matches(accts[hslot[i]].name, n)}
    IN  IF hits = {} THEN 0
        ELSE hslot[CHOOSE i \in hits : \A j \in hits : i <= j]

-----------------------------------------------------------------------------
(* Output.                                                                 *)

(* A packet is queued and send_message writes until the socket is full;    *)
(* the rest waits for the next packet to this peer.                        *)
Send(p, m) ==
    LET q == AddTail(oq[p], m)
    IN  \E k \in 0..Len(q) :
            /\ wire' = [wire EXCEPT ![p] = @ \o SubSeq(q, 1, k)]
            /\ oq' = [oq EXCEPT ![p] = SubSeq(q, k + 1, Len(q))]

(* A write to a connection the client has closed may raise SIGPIPE, which  *)
(* nothing ignores.                                                        *)
SendAndGo(p, m, next) ==
    /\ Send(p, m)
    /\ pc' \in IF hup[p] THEN {next, "killed"} ELSE {next}

(* A packet to the connection of account a.  If its peer_info was freed    *)
(* the program may crash, the packet may be lost in freed memory, or the   *)
(* memory is by now that of another peer.                                  *)
SendTo(a, m, next) ==
    LET p == accts[a].conn
    IN  \/ state[p] = "open" /\ SendAndGo(p, m, next)
        \/ state[p] # "open" /\ pc' \in {next, "killed"} /\ UNCHANGED outVars
        \/ state[p] # "open" /\ \E q \in Open : SendAndGo(q, m, next)

-----------------------------------------------------------------------------
(* Timeouts.                                                               *)

(* SIGALRM is blocked while peers are cleared and events handled; when it  *)
(* is not, it is delivered before the program goes on.                     *)
Unblocked == pc \in {"top", "enter", "wait"}

(* sig_hand_alarm; epoll_wait, if main is in it, returns EINTR.            *)
SigAlarm ==
    /\ pending /\ Unblocked
    /\ pending' = FALSE
    /\ check_timeout' = TRUE
    /\ pc' = IF pc = "wait" THEN "top" ELSE pc
    /\ UNCHANGED <<cur, batch, rows, now, clock, ready, state, hup, said, nread,
                   time_last, timeout_list, acctVars, outVars>>

(* Mutant: clear_outtime_peer works with an old time.                       *)
CheckTimeoutStale ==
    /\ pc = "top" /\ ~pending
    /\ pc' = IF check_timeout THEN "clear" ELSE "enter"
    /\ check_timeout' = FALSE
    /\ UNCHANGED <<cur, batch, rows, now, pending, clock, ready, state, hup, said,
                   nread, time_last, timeout_list, acctVars, outVars>>

CheckTimeout ==
    /\ pc = "top" /\ ~pending
    /\ \/ ~check_timeout /\ pc' = "enter" /\ UNCHANGED now
       \/ check_timeout /\ pc' = "clear" /\ now' = clock
    /\ check_timeout' = FALSE
    /\ UNCHANGED <<cur, batch, rows, pending, clock, ready, state, hup, said, nread,
                   time_last, timeout_list, acctVars, outVars>>

(* clear_outtime_peer looks at the head of the list only.                  *)
HeadExpired ==
    /\ timeout_list # <<>>
    /\ now > time_last[Head(timeout_list)] + IdleMax

ClearPeer ==
    /\ pc = "clear" /\ HeadExpired
    /\ Destroy(Head(timeout_list))
    /\ UNCHANGED <<loopVars, pending, clock, hup, said, nread, outVars>>

(* Mutant: one late peer at most is cleared at a time.                      *)
ClearDoneEarly ==
    /\ pc = "clear"
    /\ pc' = "enter"
    /\ UNCHANGED <<cur, batch, rows, check_timeout, now, pending, clock, ready, state,
                   hup, said, nread, time_last, timeout_list, acctVars, outVars>>

ClearDone ==
    /\ pc = "clear" /\ ~HeadExpired
    /\ pc' = "enter"
    /\ UNCHANGED <<cur, batch, rows, check_timeout, now, pending, clock, ready, state,
                   hup, said, nread, time_last, timeout_list, acctVars, outVars>>

-----------------------------------------------------------------------------
(* Events.                                                                 *)

(* The call of epoll_wait, after check_timeout was looked at.              *)
Enter ==
    /\ pc = "enter" /\ ~pending
    /\ pc' = "wait"
    /\ UNCHANGED <<cur, batch, rows, check_timeout, now, pending, clock, ready, state,
                   hup, said, nread, time_last, timeout_list, acctVars, outVars>>

EpollWait ==
    /\ pc = "wait" /\ ~pending /\ ready # {}
    /\ \E events \in SUBSET ready :
          /\ Cardinality(events) \in 1..MaxEvents
          /\ events # ready => Cardinality(events) = MaxEvents
          /\ batch' = events
          /\ ready' = ready \ events
    /\ pc' = "batch"
    /\ UNCHANGED <<cur, rows, check_timeout, now, pending, clock, state,
                   hup, said, nread, time_last, timeout_list, acctVars, outVars>>

HandleEvent ==
    /\ pc = "batch"
    /\ \E e \in batch :
          /\ batch' = batch \ {e}
          /\ cur' = e
          /\ \/ e = Listen /\ pc' = "accept" /\ now' = clock
             \/ e # Listen /\ pc' = "read" /\ UNCHANGED now
    /\ UNCHANGED <<rows, check_timeout, pending, clock, ready, state,
                   hup, said, nread, time_last, timeout_list, acctVars, outVars>>

BatchDone ==
    /\ pc = "batch" /\ batch = {}
    /\ pc' = "top"
    /\ UNCHANGED <<cur, batch, rows, check_timeout, now, pending, clock, ready, state,
                   hup, said, nread, time_last, timeout_list, acctVars, outVars>>

Unread(p) == nread[p] < Len(said[p])

(* accept gives a connection.  The time it is stamped with was read before *)
(* the call.  Adding it to epoll reports what has already arrived.         *)
Accept(p) ==
    /\ pc = "accept" /\ state[p] = "backlog"
    /\ state' = [state EXCEPT ![p] = "open"]
    /\ time_last' = [time_last EXCEPT ![p] = now]
    /\ timeout_list' = AddTail(timeout_list, p)
    /\ ready' = IF Unread(p) \/ hup[p] THEN ready \cup {p} ELSE ready
    /\ now' = clock
    /\ UNCHANGED <<pc, cur, batch, rows, check_timeout, pending, clock, hup, said,
                   nread, acctVars, outVars>>

(* Mutant: accept is called once for an event.                              *)
AcceptAgainEarly ==
    /\ pc = "accept"
    /\ pc' = "batch"
    /\ UNCHANGED <<cur, batch, rows, check_timeout, now, pending, clock, ready, state,
                   hup, said, nread, time_last, timeout_list, acctVars, outVars>>

(* EAGAIN: nobody is waiting any more.                                     *)
AcceptAgain ==
    /\ pc = "accept" /\ \A p \in Peers : state[p] # "backlog"
    /\ pc' = "batch"
    /\ UNCHANGED <<cur, batch, rows, check_timeout, now, pending, clock, ready, state,
                   hup, said, nread, time_last, timeout_list, acctVars, outVars>>

(* accept fails for another reason, for want of a descriptor: SIGTERM.     *)
AcceptError ==
    /\ pc = "accept"
    /\ pc' = "killed"
    /\ UNCHANGED <<cur, batch, rows, check_timeout, now, pending, clock, ready, state,
                   hup, said, nread, time_last, timeout_list, acctVars, outVars>>

-----------------------------------------------------------------------------
(* Messages.                                                               *)

(* Mutant: the number of the account is that of the one before.             *)
NewAccountStale == Len(accts)

(* A new account_info.                                                     *)
NewAccount == Len(accts) + 1

(* The account knows its peer, the peer its account, and it goes into the  *)
(* hash table.                                                             *)
Register(n) ==
    /\ accts' = Append(accts, [name |-> n, conn |-> cur])
    /\ account' = [account EXCEPT ![cur] = NewAccount]
    /\ hslot' = AddHead(hslot, NewAccount)

(* Mutant: the result of ball_db_check_login is sent but not looked at.     *)
LoginUnchecked(m) ==
    /\ \E ok \in BOOLEAN :
          SendAndGo(cur, [type |-> "LOGIN_RESPOND", ok |-> ok], "list")
    /\ Register(m.name)
    /\ rows' \in {<<>>, Members[m.name]}

(* message_proc_login: the database decides, the client is answered, and   *)
(* only then the account is created.                                       *)
Login(m) ==
    \/ /\ SendAndGo(cur, [type |-> "LOGIN_RESPOND", ok |-> FALSE], "read")
       /\ UNCHANGED <<acctVars, rows>>
    \/ /\ SendAndGo(cur, [type |-> "LOGIN_RESPOND", ok |-> TRUE], "list")
       /\ Register(m.name)
       /\ rows' \in {<<>>, Members[m.name]}

(* The CHART branch of process_message.                                    *)
Chart(m) ==
    LET a == Lookup(m.to)
    IN  /\ \/ a = 0 /\ pc' = "read" /\ UNCHANGED outVars
           \/ a # 0 /\ SendTo(a, m, "read")
        /\ UNCHANGED <<acctVars, rows>>

(* get_msg gives a message: the peer is touched, the message processed,    *)
(* and the loop reads again.                                               *)
ReadMessage ==
    /\ pc = "read" /\ Unread(cur)
    /\ nread' = [nread EXCEPT ![cur] = @ + 1]
    /\ Touch(cur)
    /\ LET m == said[cur][nread[cur] + 1]
       IN  \/ m.type = "LOGIN" /\ Login(m)
           \/ m.type = "CHART" /\ Chart(m)
    /\ UNCHANGED <<cur, batch, check_timeout, now, pending, clock, ready, state,
                   hup, said>>

(* ball_pack_relationship_packet, for one row: the packet goes to the      *)
(* account that is found by name, not to the peer that logged in.          *)
PeerList ==
    /\ pc = "list" /\ rows # <<>>
    /\ rows' = Tail(rows)
    /\ LET a == Lookup(accts[account[cur]].name)
       IN  SendTo(a, [type |-> "PEER_LIST", name |-> Head(rows)], "list")
    /\ UNCHANGED <<cur, batch, check_timeout, now, pending, clock, ready, state,
                   hup, said, nread, time_last, timeout_list, acctVars>>

PeerListDone ==
    /\ pc = "list" /\ rows = <<>>
    /\ pc' = "read"
    /\ UNCHANGED <<cur, batch, rows, check_timeout, now, pending, clock, ready, state,
                   hup, said, nread, time_last, timeout_list, acctVars, outVars>>

(* MSG_GET_AGAIN.                                                          *)
ReadAgain ==
    /\ pc = "read" /\ ~Unread(cur) /\ ~hup[cur]
    /\ Touch(cur)
    /\ pc' = "batch"
    /\ UNCHANGED <<cur, batch, rows, check_timeout, now, pending, clock, ready, state,
                   hup, said, nread, acctVars, outVars>>

(* MSG_GET_FAILED.                                                         *)
ReadFail ==
    /\ pc = "read" /\ ~Unread(cur) /\ hup[cur]
    /\ Destroy(cur)
    /\ pc' = "batch"
    /\ UNCHANGED <<cur, batch, rows, check_timeout, now, pending, clock,
                   hup, said, nread, outVars>>

Main ==
    \/ SigAlarm \/ CheckTimeout \/ ClearPeer \/ ClearDone
    \/ Enter \/ EpollWait \/ HandleEvent \/ BatchDone
    \/ \E p \in Peers : Accept(p)
    \/ AcceptAgain \/ AcceptError
    \/ ReadMessage \/ PeerList \/ PeerListDone \/ ReadAgain \/ ReadFail

-----------------------------------------------------------------------------
(* The clients, the network and the timer.                                 *)

Connect(p) ==
    /\ state[p] = "none"
    /\ state' = [state EXCEPT ![p] = "backlog"]
    /\ ready' = ready \cup {Listen}
    /\ UNCHANGED <<hup, said>>

Logins(s) == Cardinality({i \in 1..Len(s) : s[i].type = "LOGIN"})

(* An edge for a socket that epoll watches.                                *)
Edge(p) == ready' = IF state[p] = "open" THEN ready \cup {p} ELSE ready

(* The packets clients send: a LOGIN, or a chat, here without its id.      *)
Bodies == [type : {"LOGIN"}, name : Names] \cup [type : {"CHART"}, to : Names]

(* The i-th packet of client p.                                            *)
Packet(p, i, b) ==
    IF b.type = "LOGIN" THEN b
    ELSE [type |-> "CHART", to |-> b.to, id |-> <<p, i>>]

Sent == Cardinality(UNION {{p} \X DOMAIN said[p] : p \in Peers})

(* Up to Burst packets, together.                                          *)
ClientSend(p) ==
    /\ state[p] \in {"backlog", "open"} /\ ~hup[p]
    /\ \E n \in 1..Burst : \E b \in [1..n -> Bodies] :
          said' = [said EXCEPT ![p] =
                      @ \o [i \in 1..n |-> Packet(p, Len(said[p]) + i, b[i])]]
    /\ Logins(said'[p]) <= LoginsPerPeer
    /\ Sent' <= MaxMsgs
    /\ Edge(p)
    /\ UNCHANGED <<state, hup>>

ClientClose(p) ==
    /\ state[p] \in {"backlog", "open"} /\ ~hup[p]
    /\ hup' = [hup EXCEPT ![p] = TRUE]
    /\ Edge(p)
    /\ UNCHANGED <<state, said>>

Client(p) ==
    /\ pc # "killed"
    /\ Connect(p) \/ ClientSend(p) \/ ClientClose(p)
    /\ UNCHANGED <<loopVars, pending, clock, nread, time_last, timeout_list,
                   acctVars, outVars>>

(* The interval timer: SIGALRM every tick.  MaxClock = 0 leaves it out.    *)
(* Nobody sets the system's clock back: time(NULL) never decreases.        *)
Timer ==
    /\ pc # "killed" /\ MaxClock > 0
    /\ pending' = TRUE
    /\ clock' \in {clock, clock + 1} /\ clock' <= MaxClock
    /\ UNCHANGED <<loopVars, ready, state, hup, said, nread, time_last, timeout_list,
                   acctVars, outVars>>

Next ==
    \/ Main
    \/ \E p \in Peers : Client(p)
    \/ Timer

Spec == Init /\ [][Next]_vars

(* The process keeps running and the timer keeps firing; clients need do   *)
(* nothing.  Between two alarms, a second apart, main gets past the places *)
(* where an alarm can be delivered, and epoll_wait returns at once when    *)
(* there are events: alarms alone do not keep main from its work.          *)
FairSpec ==
    /\ Spec
    /\ WF_vars(Main) /\ WF_vars(Timer)
    /\ SF_vars(CheckTimeout) /\ SF_vars(Enter) /\ SF_vars(EpollWait)

-----------------------------------------------------------------------------
(* Properties.                                                             *)

Packets ==
    [type : {"LOGIN"}, name : Names]
        \cup [type : {"CHART"}, to : Names, id : Peers \X (Nat \ {0})]
        \cup [type : {"LOGIN_RESPOND"}, ok : BOOLEAN]
        \cup [type : {"PEER_LIST"}, name : Names]

(* Type correctness.                                                       *)
TypeOK ==
    /\ pc \in {"top", "clear", "enter", "wait", "batch", "accept", "read", "list",
               "killed"}
    /\ cur \in Peers \cup {Listen}
    /\ batch \subseteq Peers \cup {Listen} /\ ready \subseteq Peers \cup {Listen}
    /\ rows \in Seq(Names)
    /\ check_timeout \in BOOLEAN /\ pending \in BOOLEAN
    /\ now \in Nat /\ clock \in Nat /\ clock <= MaxClock
    /\ state \in [Peers -> {"none", "backlog", "open", "gone"}]
    /\ hup \in [Peers -> BOOLEAN]
    /\ said \in [Peers -> Seq(Packets)]
    /\ nread \in [Peers -> Nat]
    /\ time_last \in [Peers -> Nat]
    /\ account \in [Peers -> Nat]
    /\ timeout_list \in Seq(Peers)
    /\ accts \in Seq([name : Names, conn : Peers])
    /\ hslot \in Seq(Nat \ {0})
    /\ oq \in [Peers -> Seq(Packets)]
    /\ wire \in [Peers -> Seq(Packets)]

(* An account in the table and a peer "each should know the others"        *)
(* (server.c:300): every account that can be looked up leads to a          *)
(* peer_info that is still allocated and leads back to it, and every       *)
(* peer's account is in the table, once.                                   *)
AccountsKnowPeers ==
    /\ \A i \in 1..Len(hslot) :
          LET p == accts[hslot[i]].conn
          IN  p \in Open /\ account[p] = hslot[i]
    /\ \A p \in Peers : account[p] # 0 =>
          \E i \in 1..Len(hslot) : hslot[i] = account[p] /\ accts[account[p]].conn = p
    /\ \A i, j \in 1..Len(hslot) : hslot[i] = hslot[j] => i = j

(* timeout_list holds exactly the peers that are open, each once, the one  *)
(* that has been idle longest first: clear_outtime_peer stops at the first *)
(* peer that is not late, and destroy_peer_info unlinks without looking.   *)
TimeoutOrder ==
    /\ {timeout_list[i] : i \in 1..Len(timeout_list)} = Open
    /\ \A i, j \in 1..Len(timeout_list) : i < j =>
          /\ timeout_list[i] # timeout_list[j]
          /\ time_last[timeout_list[i]] <= time_last[timeout_list[j]]

(* When clear_outtime_peer returns no peer is left that had been idle for  *)
(* too long when it was called.                                            *)
ClearedAll ==
    [][pc = "clear" /\ pc' = "enter" =>
          \A p \in Open : now <= time_last[p] + IdleMax]_vars

(* The events main has still to handle are events of peers that are still  *)
(* allocated, and so is the peer it is handling: peer_info_pool[client_fd] *)
(* is never NULL or another's at line 484.                                 *)
EventsLive ==
    /\ batch \ {Listen} \subseteq Open
    /\ ready \ {Listen} \subseteq Open
    /\ pc \in {"read", "list"} => cur \in Open

(* No peer is forgotten: whatever a client sent, closed or asked to        *)
(* connect is still to be reported, or in the events being handled.        *)
NoLostEvent ==
    pc # "killed" =>
        /\ \A p \in Open : Unread(p) \/ hup[p] =>
              p \in ready \cup batch \/ (cur = p /\ pc \in {"read", "list"})
        /\ (\E p \in Peers : state[p] = "backlog") =>
              Listen \in ready \cup batch \/ pc = "accept"

(* What a peer has been sent and what it is to be sent.                    *)
Stream(p) == wire[p] \o oq[p]

(* A client hears of members and of chats only after its login has been    *)
(* answered with success.                                                  *)
AnsweredFirst ==
    \A p \in Peers : \A j \in 1..Len(Stream(p)) :
        Stream(p)[j].type \in {"PEER_LIST", "CHART"} =>
            \E i \in 1..(j - 1) :
                Stream(p)[i] = [type |-> "LOGIN_RESPOND", ok |-> TRUE]

(* Chats of one client reach another in the order they were sent, none     *)
(* twice, whatever stays in output_queue between two writes.               *)
ChatsInOrder ==
    \A p \in Peers : \A i, j \in 1..Len(Stream(p)) :
        LET m == Stream(p)[i]
            n == Stream(p)[j]
        IN  i < j /\ m.type = "CHART" /\ n.type = "CHART" /\ m.id[1] = n.id[1]
                => m.id[2] < n.id[2]

(* A chat goes only to a peer that is logged in under the name the chat is *)
(* addressed to ("TO WHERE", protocol:26).                                 *)
RightRecipient ==
    [][\A p \in Peers :
          LET new == Stream(p)'
          IN  Len(new) > Len(Stream(p)) /\ new[Len(new)].type = "CHART" =>
                 /\ account[p] # 0
                 /\ accts[account[p]].name = new[Len(new)].to]_vars

(* The member list goes to the peer that logged in, even where another one *)
(* is logged in under the same name ("respond with the member list",       *)
(* server.c:307).                                                          *)
MembersToAsker ==
    [][pc = "list" => \A p \in Peers \ {cur} : Stream(p)' = Stream(p)]_vars

(* The pool of peers and the hash table implement the directory: a name is *)
(* online on a connection exactly from its login to the connection's end.  *)
Online == {<<accts[hslot[i]].conn, accts[hslot[i]].name>> : i \in 1..Len(hslot)}
Dir == INSTANCE Directory WITH open <- Open, online <- Online
DirectorySpec == Dir!Spec

(* A peer that stays idle for too long is closed in the end.               *)
Late(p) == p \in Open /\ clock > time_last[p] + IdleMax
IdleEvicted == \A p \in Peers : Late(p) ~> ~Late(p) \/ pc = "killed"

(* What a client sends is read in the end, unless its connection is closed *)
(* first; a client that asks to connect is accepted.                       *)
Served ==
    \A p \in Peers :
        /\ Unread(p) ~> ~Unread(p) \/ state[p] = "gone" \/ pc = "killed"
        /\ state[p] = "backlog" ~> state[p] # "backlog" \/ pc = "killed"
=============================================================================
