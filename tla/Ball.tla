---------------------------------- MODULE Ball ----------------------------------
(***************************************************************************)
(* One client process and the server: the client of module Client, whose   *)
(* threads connect to the server of module Server, each over a connection  *)
(* of its own.                                                             *)
(*                                                                         *)
(* What one side writes reaches the other at once, unless the other has    *)
(* closed the connection or is gone.  The variables have the names they    *)
(* have in the two modules; where both use a name, the server's said and   *)
(* wire are sent and swire here.                                           *)
(***************************************************************************)
EXTENDS Client

CONSTANTS
    PrefixOf, Listen    \* as in Server

MaxPackets == MaxThreads + MaxChats
MaxReplies == MaxThreads * (1 + Len(MemberList)) + MaxChats

(* The bounds of Client on what arrives are as wide as what can be sent.   *)
ASSUME BallAssumption ==
    /\ MaxThreads # 0 /\ MaxChats <= MaxIn /\ MaxReplies <= Burst
    /\ PrefixOf \subseteq Names \X Names
    /\ Listen \notin Threads

VARIABLES
    pc, cur, batch, rows, check_timeout, now, pending, clock, ready, state, hup,
    nread, time_last, account, timeout_list, accts, hslot, oq, swire,
    sent        \* what of the client's packets reached the server

clientOwn == <<alive, flag, need, coming, gpc, wait, loginName, mainPanel, connStatus,
               peers, tpc, ev, outq, inlist, outEvent, full, asked, wire, nin, handled>>
mainVars == <<pc, cur, batch, rows, check_timeout, now, pending, clock, nread,
              time_last, account, timeout_list, accts, hslot, oq, swire>>
otherVars == <<mainVars, ready, state, hup, sent>>
ballVars == <<vars, otherVars>>

S == INSTANCE Server WITH
        Peers <- Threads, Members <- [n \in Names |-> MemberList],
        said <- sent, wire <- swire, LoginsPerPeer <- MaxThreads,
        MaxMsgs <- MaxPackets, Burst <- MaxPackets,
        IdleMax <- 0, MaxClock <- 0, MaxEvents <- MaxThreads + 1

BallInit == Init /\ S!Init

-----------------------------------------------------------------------------
(* A packet as the server reads it.  A chat goes to the first member.      *)
AtServer(m, t, i) ==
    IF m.type = "LOGIN" THEN [type |-> "LOGIN", name |-> m.name]
    ELSE [type |-> "CHART", to |-> MemberList[1], id |-> <<t, i>>]

(* A packet as the client reads it.                                        *)
AtClient(m) == IF m.type = "CHART" THEN Chat ELSE m

(* The server has, or has not yet accepted, the connection of thread t.    *)
AtBoth(t) == pc # "killed" /\ state[t] \in {"backlog", "open"} /\ ~hup[t]

(* The end of the client's connection changes what the server can see.     *)
Noticed(t) ==
    /\ ready' = IF sent' # sent \/ hup' # hup THEN ready \cup ({t} \cap S!Open) ELSE ready
    /\ UNCHANGED state

Arrives(t) ==
    LET n == Len(wire[t])
        new == [i \in 1..(Len(wire'[t]) - n) |->
                    AtServer(asked[wire'[t][n + i]], t, Len(sent[t]) + i)]
    IN  sent' = [sent EXCEPT ![t] = IF AtBoth(t) THEN @ \o new ELSE @]

HangsUp(t) == hup' = [hup EXCEPT ![t] = @ \/ (AtBoth(t) /\ tpc'[t] = "dead")]

(* A step of the GTK thread.                                               *)
InGui(A) == alive /\ UNCHANGED <<inEvent, closed, said, otherVars>> /\ A

GuiStep == InGui(Gui)

ThreadStep(t) ==
    /\ alive
    /\ UNCHANGED <<said, mainVars>>
    /\ Loop(t)
    /\ Arrives(t) /\ HangsUp(t) /\ Noticed(t)

ThreadConnects(t) ==
    /\ alive /\ UNCHANGED <<said, mainVars, sent, hup>>
    /\ Connected(t)
    /\ pc # "killed" /\ S!Connect(t)

(* Nobody listens any more.                                                *)
ThreadRefused(t) ==
    /\ alive /\ UNCHANGED <<said, otherVars>>
    /\ ConnectFailed(t)
    /\ pc = "killed"

SocketDrains(t) ==
    /\ alive /\ UNCHANGED <<otherVars, alive, flag, need, coming, gpc, wait, loginName,
          mainPanel, connStatus, peers, tpc, ev, outq, inlist, asked, wire, nin, handled>>
    /\ Drain(t)

(* The kernel closes the connections of a process that has ended.          *)
ClientGone(t) ==
    /\ ~alive /\ AtBoth(t)
    /\ UNCHANGED <<vars, mainVars, sent>>
    /\ hup' = [hup EXCEPT ![t] = TRUE]
    /\ Noticed(t)

ServerGone(t) ==
    /\ alive /\ pc = "killed" /\ Served(t)
    /\ closed' = [closed EXCEPT ![t] = TRUE]
    /\ inEvent' = [inEvent EXCEPT ![t] = TRUE]
    /\ UNCHANGED <<clientOwn, said, otherVars>>

(* A step of the server, and what the client can see of it.                *)
ServerStep ==
    /\ UNCHANGED clientOwn
    /\ S!Main /\ UNCHANGED <<sent, hup>>
    /\ LET Heard(t) == alive /\ Served(t)
           New(t) == [i \in 1..(Len(swire'[t]) - Len(swire[t])) |->
                        AtClient(swire'[t][Len(swire[t]) + i])]
       IN  /\ said' = [t \in Threads |-> IF Heard(t) THEN said[t] \o New(t) ELSE said[t]]
           /\ closed' = [t \in Threads |->
                 closed[t] \/ (Heard(t) /\ state[t] # "gone" /\ state'[t] = "gone")]
           /\ inEvent' = [t \in Threads |->
                 inEvent[t] \/ said'[t] # said[t] \/ closed'[t] # closed[t]]

BallNext ==
    \/ GuiStep \/ ServerStep
    \/ \E t \in Threads :
          \/ ThreadConnects(t) \/ ThreadRefused(t) \/ ThreadStep(t) \/ SocketDrains(t)
          \/ ClientGone(t) \/ ServerGone(t)

BallSpec == BallInit /\ [][BallNext]_ballVars

(* The server and the client's threads are scheduled, connect and          *)
(* epoll_wait return, and the timers fire; the user need do nothing.  A    *)
(* full socket has room again once the server has read.  Every write takes *)
(* a byte at least where there is room, and a packet has finitely many: a  *)
(* thread that can send does so in the end.                                *)
Sends(t) == tpc[t] \in {"splice", "out"} /\ ThreadStep(t) /\ wire'[t] # wire[t]

BallFairSpec ==
    /\ BallSpec
    /\ WF_ballVars(InGui(Messages \/ (Relogin /\ UNCHANGED alive)))
    /\ WF_ballVars(ServerStep)
    /\ WF_ballVars(\E t \in Threads : ThreadConnects(t) \/ ThreadRefused(t) \/ ThreadStep(t))
    /\ SF_ballVars(\E t \in Threads : Sends(t))
    /\ WF_ballVars(\E t \in Threads : SocketDrains(t))

-----------------------------------------------------------------------------
(* Properties.                                                             *)

(* No account leads to a peer_info that was freed.  A connection with two  *)
(* LOGINs leaves such an account behind (server.c:300), and nothing removes*)
(* it again.                                                               *)
PeersLive == \A i \in 1..Len(hslot) : accts[hslot[i]].conn \in S!Open

(* As long as no account leads to a freed peer, the server keeps to what   *)
(* module Client assumes of it: it answers a LOGIN once at most, lists the *)
(* members right behind a success and only there, and lets no chat through *)
(* before one (message_proc_login).  Once there is such an account it does *)
(* not: a chat to it is written through freed memory, which may be by now  *)
(* the peer_info of a connection with no success (server.c:332).           *)
ClientSpec == Init /\ [][PeersLive => Next]_vars

(* The client keeps to what module Server assumes of its clients: whatever *)
(* its threads do, a connection sees packets in bursts, a hang-up after    *)
(* them and nothing behind it, and a LOGIN per thread at the most.         *)
ServerSpec == S!Spec

(* "each should know the others" (server.c:300): see module Server.  A     *)
(* transfer thread that ends before it has sent its LOGIN leaves it to the *)
(* next, which then logs in twice (gui_client.c:204).                      *)
AccountsKnowPeers == S!AccountsKnowPeers

(* What the user writes is shown once at most, and what went over one      *)
(* connection in the order it was written, whatever lists and sockets it   *)
(* went through on the way.                                                *)
ShownOnceInOrder ==
    LET id(i) == swire[handled[i].thread][handled[i].pos].id
        number(i) == wire[id(i)[1]][id(i)[2]]
        shown == {i \in 1..Len(handled) : said[handled[i].thread][handled[i].pos] = Chat}
    IN  \A i, j \in shown : i < j =>
            /\ number(i) # number(j)
            /\ id(i)[1] = id(j)[1] => number(i) < number(j)

(* What the GTK thread has queued has been read by the server, unless the  *)
(* thread that took it has ended.                                          *)
OutRead ==
    \A k \in 1..Len(asked) : \E t \in Threads :
        \/ k \in Elements(SubSeq(wire[t], 1, nread[t]))
        \/ tpc[t] = "dead" /\ k \in Elements(wire[t] \o outq[t])

(* What has reached the client has been processed, unless the thread that  *)
(* was to read it has ended.                                               *)
InProcessed ==
    \A t \in Threads : tpc[t] # "dead" =>
        \A i \in 1..Len(said[t]) : [thread |-> t, pos |-> i] \in Elements(handled)

(* All is said and done again and again, while both programs and a         *)
(* transfer thread run: nothing stays for ever in the client, on a socket, *)
(* or unread in either program.  The output queues of the server are left  *)
(* out: what they hold may stay there (module Transport).                  *)
Settles ==
    []<>(\/ ~alive \/ pc = "killed" \/ \A t \in Threads : ~Live(t)
         \/ OutRead /\ InProcessed)
=============================================================================
