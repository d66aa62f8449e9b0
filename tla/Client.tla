-------------------------------- MODULE Client --------------------------------
(***************************************************************************)
(* The client of gui/: the GTK thread with its callbacks and timers, and   *)
(* the transfer threads of gui_client.c, which move packets between one    *)
(* connection each and the two lists they share with the GTK thread.       *)
(*                                                                         *)
(* A step of a thread reads or writes one shared variable or holds one     *)
(* mutex; no thread takes a mutex while it holds another.  Packets go      *)
(* through the socket whole: module Transport shows what becomes of them.  *)
(* A connection has the number of the thread that makes it.                *)
(***************************************************************************)
EXTENDS Naturals, Sequences, FiniteSets

CONSTANTS
    Names,      \* account names
    NoName,     \* g_login_name before the first login
    MemberList, \* the members the server lists after a login
    MaxThreads, \* bound: transfer threads, and so connections
    MaxChats,   \* bound: chats the user writes
    MaxIn,      \* bound: chats that arrive on a connection
    Burst,      \* bound: packets that arrive on a connection at once
    Hasty       \* may the user click while a transfer thread is running?

ASSUME ClientAssumption ==
    /\ NoName \notin Names
    /\ MemberList \in Seq(Names)
    /\ MaxThreads \in Nat /\ MaxChats \in Nat
    /\ MaxIn \in Nat /\ Burst \in Nat \ {0}
    /\ Hasty \in BOOLEAN

Threads == 1..MaxThreads

VARIABLES
    alive,      \* the process runs
    flag,       \* ball_transfor_active_flag
    need,       \* message_need_sended: packets by their number in asked
    coming,     \* message_comming: packets by connection and position in said
    gpc,        \* GTK thread: "idle", "starting" a thread, "proc" messages
    wait,       \* message_wait_proc
    loginName,  \* g_login_name
    mainPanel,  \* is there a main panel?  Until then there is a login panel
    connStatus, \* main_panel->conn_status
    peers,      \* ball_peer_info_set, by name
    tpc,        \* where each transfer thread is
    ev,         \* the events epoll_wait returned to it
    outq,       \* its output_queue
    inlist,     \* its msg_input_list
    inEvent,    \* an edge to report: something to read,
    outEvent,   \* or room to write
    full,       \* its socket refused a write, and no room was reported since
    asked,      \* history: packets queued by the GTK thread
    wire,       \* history: packets handed to the kernel, by number
    said,       \* history: packets the server sent on each connection
    nin,        \* how many of them the thread has read
    closed,     \* the connection has been closed, at the other end or at this one
    handled     \* history: packets the GTK thread has processed

panelVars == <<loginName, mainPanel, connStatus, peers>>
guiVars == <<gpc, wait, panelVars, handled>>
outVars == <<outq, wire>>
edges == <<inEvent, outEvent, full>>
inVars == <<inlist, nin>>
serverVars == <<said, closed>>
vars == <<alive, flag, need, coming, gpc, wait, loginName, mainPanel, connStatus,
          peers, tpc, ev, outq, inlist, inEvent, outEvent, full, asked, wire, said,
          nin, closed, handled>>

Init ==
    /\ alive = TRUE /\ flag = "INACTIVE" /\ need = <<>> /\ coming = <<>>
    /\ gpc = "idle" /\ wait = <<>> /\ handled = <<>>
    /\ loginName = NoName /\ mainPanel = FALSE /\ connStatus = FALSE /\ peers = {}
    /\ tpc = [t \in Threads |-> "none"]
    /\ ev = [t \in Threads |-> {}]
    /\ outq = [t \in Threads |-> <<>>]
    /\ inlist = [t \in Threads |-> <<>>]
    /\ inEvent = [t \in Threads |-> FALSE]
    /\ outEvent = [t \in Threads |-> FALSE]
    /\ full = [t \in Threads |-> FALSE]
    /\ asked = <<>>
    /\ wire = [t \in Threads |-> <<>>]
    /\ said = [t \in Threads |-> <<>>]
    /\ nin = [t \in Threads |-> 0]
    /\ closed = [t \in Threads |-> FALSE]

Live(t) == tpc[t] \notin {"none", "dead"}
Started == {t \in Threads : tpc[t] # "none"}

(* Mutant: list_splice_init, which joins at the head.                       *)
JoinedHead(list, head) == list \o head

(* list_splice_tail_init, for the list it joins to.                        *)
Joined(list, head) == head \o list

-----------------------------------------------------------------------------
(* The user, and the callbacks of the GTK thread.                          *)

(* A hasty user may click at any time; a patient one waits until the       *)
(* thread of the last click is over.                                       *)
MayClick == gpc = "idle" /\ (Hasty \/ \A t \in Threads : ~Live(t))

(* ball_start_transfor_routine, as far as the creation of the thread.      *)
Start ==
    \/ flag # "INACTIVE" /\ UNCHANGED <<flag, tpc, gpc>>
    \/ /\ flag = "INACTIVE"
       /\ flag' = "INIT"
       /\ \E t \in Threads :
             /\ tpc[t] = "none" /\ \A u \in 1..(t - 1) : tpc[u] # "none"
             /\ tpc' = [tpc EXCEPT ![t] = "connect"]
       /\ gpc' = "starting"

(* Mutant: the thread is started before the name is known.                  *)
SetNameLate(n) == UNCHANGED loginName

(* ball_set_myself_name.                                                   *)
SetName(n) == loginName' = n

(* ball_process_login: the login panel's button.                           *)
LoginClick(n) ==
    /\ MayClick /\ ~mainPanel
    /\ SetName(n)
    /\ Start
    /\ UNCHANGED <<need, coming, wait, mainPanel, connStatus, peers, handled, ev,
                   edges, asked, outVars, inVars, serverVars>>

LastThread == CHOOSE t \in Started : \A u \in Started : u <= t

Queue(m) ==
    /\ asked' = Append(asked, m)
    /\ need' = Append(need, Len(asked) + 1)

(* Mutant: only the first login queues a LOGIN packet.                      *)
ReloginFirst ==
    /\ gpc = "starting"
    /\ IF mainPanel THEN UNCHANGED <<asked, need>>
       ELSE Queue([type |-> "LOGIN", name |-> loginName, thread |-> LastThread])
    /\ connStatus' = IF mainPanel THEN ~connStatus ELSE connStatus
    /\ gpc' = "idle"
    /\ UNCHANGED <<flag, coming, wait, loginName, mainPanel, peers, handled, tpc, ev,
                   edges, outVars, inVars, serverVars>>

(* The rest of ball_start_transfor_routine: a LOGIN packet is queued.  The *)
(* conn button then swaps the status.                                      *)
Relogin ==
    /\ gpc = "starting"
    /\ Queue([type |-> "LOGIN", name |-> loginName, thread |-> LastThread])
    /\ connStatus' = IF mainPanel THEN ~connStatus ELSE connStatus
    /\ gpc' = "idle"
    /\ UNCHANGED <<flag, coming, wait, loginName, mainPanel, peers, handled, tpc, ev,
                   edges, outVars, inVars, serverVars>>

(* ball_main_panel_responed_conn_button, showing "Disconnect".             *)
Disconnect ==
    /\ gpc = "idle" /\ mainPanel /\ connStatus /\ flag # "INACTIVE"
    /\ flag' = "INACTIVE"
    /\ connStatus' = FALSE
    /\ UNCHANGED <<need, coming, gpc, wait, loginName, mainPanel, peers, handled, tpc,
                   ev, edges, asked, outVars, inVars, serverVars>>

(* The same, showing "Connect".                                            *)
Reconnect ==
    /\ MayClick /\ mainPanel /\ ~connStatus /\ flag = "INACTIVE"
    /\ Start
    /\ UNCHANGED <<need, coming, wait, panelVars, handled, ev, edges,
                   asked, outVars, inVars, serverVars>>

Chats == {k \in 1..Len(asked) : asked[k].type = "CHART"}

(* ball_chart_panel_send_message, from the panel of a member.              *)
SendChat ==
    /\ gpc = "idle" /\ peers # {} /\ Cardinality(Chats) < MaxChats
    /\ Queue([type |-> "CHART", from |-> loginName])
    /\ UNCHANGED <<flag, coming, guiVars, tpc, ev, edges, outVars, inVars,
                   serverVars>>

(* ball_update_conn_status, every second: the label follows the flag.      *)
StatusTimer ==
    /\ gpc = "idle" /\ mainPanel /\ connStatus # (flag # "INACTIVE")
    /\ connStatus' = ~connStatus
    /\ UNCHANGED <<flag, need, coming, gpc, wait, loginName, mainPanel, peers, handled,
                   tpc, ev, edges, asked, outVars, inVars, serverVars>>

-----------------------------------------------------------------------------
(* ball_process_comming_message, every second.                             *)

(* The list is checked without the mutex; only this thread takes from it.  *)
MessageTimer ==
    /\ gpc = "idle" /\ coming # <<>>
    /\ wait' = Joined(coming, wait)
    /\ coming' = <<>>
    /\ gpc' = "proc"
    /\ UNCHANGED <<flag, need, panelVars, handled, tpc, ev, edges, asked,
                   outVars, inVars, serverVars>>

(* ball_msg_proc_login_respond and ball_show_main_panel.                   *)
LoginRespond(m) ==
    /\ flag' = IF m.ok THEN "LOGIN" ELSE "INACTIVE"
    /\ mainPanel' = (mainPanel \/ m.ok)
    /\ connStatus' = IF m.ok /\ ~mainPanel THEN ~connStatus ELSE connStatus
    /\ UNCHANGED <<alive, peers>>

(* ball_main_panel_update_peer_list.  A new member is added to the list of *)
(* the main panel, through a null pointer if there is none.                *)
PeerList(m) ==
    /\ IF m.name \in peers \/ mainPanel
         THEN alive' = alive /\ peers' = peers \cup {m.name}
         ELSE alive' = FALSE /\ peers' = peers
    /\ UNCHANGED <<flag, mainPanel, connStatus>>

(* One message of message_wait_proc.  What ball_chart_panel_update_message *)
(* does with a chat concerns the chart panels only.                        *)
Process ==
    /\ gpc = "proc" /\ wait # <<>>
    /\ LET m == said[Head(wait).thread][Head(wait).pos]
       IN  \/ m.type = "LOGIN_RESPOND" /\ LoginRespond(m)
           \/ m.type = "PEER_LIST" /\ PeerList(m)
           \/ m.type = "CHART" /\ UNCHANGED <<alive, flag, mainPanel, connStatus, peers>>
    /\ wait' = Tail(wait)
    /\ handled' = Append(handled, Head(wait))
    /\ UNCHANGED <<need, coming, gpc, loginName, tpc, ev, edges, asked,
                   outVars, inVars, serverVars>>

(* message_wait_proc is empty: look at message_comming again.              *)
ProcessDone ==
    /\ gpc = "proc" /\ wait = <<>>
    /\ gpc' = "idle"
    /\ UNCHANGED <<flag, need, coming, wait, panelVars, handled, tpc, ev, edges, asked, outVars, inVars, serverVars>>

Messages ==
    \/ Process
    \/ MessageTimer /\ UNCHANGED alive
    \/ ProcessDone /\ UNCHANGED alive

User ==
    \/ \E n \in Names : LoginClick(n)
    \/ Disconnect \/ Reconnect \/ SendChat

-----------------------------------------------------------------------------
(* ball_process_message_transfor: transfer thread t.                       *)

Goes(t, to) == tpc[t] # "none" /\ tpc' = [tpc EXCEPT ![t] = to]

Connected(t) ==
    /\ tpc[t] = "connect" /\ Goes(t, "top")
    /\ outEvent' = [outEvent EXCEPT ![t] = TRUE]
    /\ UNCHANGED <<alive, flag, need, coming, guiVars, ev, inEvent, full, asked, outVars,
                   inVars, serverVars>>

(* connect fails.  The LOGIN packet stays in message_need_sended.          *)
ConnectFailed(t) ==
    /\ tpc[t] = "connect" /\ Goes(t, "dead")
    /\ flag' = "INACTIVE"
    /\ UNCHANGED <<alive, need, coming, guiVars, ev, edges, asked, outVars,
                   inVars, serverVars>>

(* The head of the loop.                                                   *)
LoopTop(t) ==
    /\ tpc[t] = "top" /\ flag # "INACTIVE" /\ Goes(t, "take")
    /\ UNCHANGED <<alive, flag, need, coming, guiVars, ev, edges, asked,
                   outVars, inVars, serverVars>>

(* A thread told to end closes its socket; what is left in its             *)
(* output_queue is never sent.                                             *)
Exit(t) ==
    /\ tpc[t] = "top" /\ flag = "INACTIVE" /\ Goes(t, "dead")
    /\ inEvent' = [inEvent EXCEPT ![t] = FALSE]
    /\ outEvent' = [outEvent EXCEPT ![t] = FALSE]
    /\ full' = [full EXCEPT ![t] = FALSE]
    /\ closed' = [closed EXCEPT ![t] = TRUE]
    /\ UNCHANGED <<alive, flag, need, coming, guiVars, ev, asked, outVars, inVars,
                   said>>

(* list_empty(&message_need_sended), without the mutex.                    *)
CheckNeed(t) ==
    /\ tpc[t] = "take"
    /\ Goes(t, IF need = <<>> THEN "wait" ELSE "splice")
    /\ UNCHANGED <<alive, flag, need, coming, guiVars, ev, edges, asked,
                   outVars, inVars, serverVars>>

(* Mutant: the last packet that is out stays in the list.                   *)
SendQueueAgain(t, q) ==
    \E k \in 0..Len(q) :
        /\ wire' = [wire EXCEPT ![t] = @ \o SubSeq(q, 1, k)]
        /\ outq' = [outq EXCEPT ![t] = IF k < 2 THEN SubSeq(q, k + 1, Len(q))
                                      ELSE SubSeq(q, k, Len(q))]
        /\ full' = [full EXCEPT ![t] = k < Len(q)]

(* send_message for thread t, with q as its msg_list: k packets go out,    *)
(* all of them unless the socket gets full.                                *)
SendQueue(t, q) ==
    \E k \in 0..Len(q) :
        /\ wire' = [wire EXCEPT ![t] = @ \o SubSeq(q, 1, k)]
        /\ outq' = [outq EXCEPT ![t] = SubSeq(q, k + 1, Len(q))]
        /\ full' = [full EXCEPT ![t] = k < Len(q)]

(* The server has closed the connection: packets may still go out into     *)
(* nothing, until a write fails, perhaps with a SIGPIPE.                   *)
WriteFails(t, q) ==
    /\ closed[t]
    /\ \E k \in 0..(Len(q) - 1) :
          /\ wire' = [wire EXCEPT ![t] = @ \o SubSeq(q, 1, k)]
          /\ outq' = [outq EXCEPT ![t] = SubSeq(q, k + 1, Len(q))]
    /\ alive' \in BOOLEAN
    /\ UNCHANGED full

(* Mutant: list_splice_tail, which leaves the list as it was.               *)
SpliceKeeps(t) ==
    /\ tpc[t] = "splice" /\ Goes(t, "wait")
    /\ SendQueue(t, Joined(need, outq[t]))
    /\ UNCHANGED <<alive, need, flag, coming, guiVars, ev, inEvent, outEvent, asked,
                   inVars, serverVars>>

(* Lines 117 to 121.  The list may be empty again if another thread was    *)
(* faster.  The result of send_message is not looked at.                   *)
Splice(t) ==
    /\ tpc[t] = "splice" /\ Goes(t, "wait")
    /\ need' = <<>>
    /\ LET q == Joined(need, outq[t])
       IN  \/ SendQueue(t, q) /\ UNCHANGED alive
           \/ WriteFails(t, q)
    /\ UNCHANGED <<flag, coming, guiVars, ev, inEvent, outEvent, asked, inVars,
                   serverVars>>

Readable(t) == nin[t] < Len(said[t]) \/ closed[t]

(* epoll_wait returns events.                                              *)
WaitEvent(t) ==
    /\ tpc[t] = "wait" /\ (inEvent[t] \/ outEvent[t])
    /\ Goes(t, "in")
    /\ ev' = [ev EXCEPT ![t] = {e \in {"IN", "OUT"} :
                 \/ e = "IN" /\ Readable(t)
                 \/ e = "OUT" /\ (~full[t] \/ closed[t])}]
    /\ inEvent' = [inEvent EXCEPT ![t] = FALSE]
    /\ outEvent' = [outEvent EXCEPT ![t] = FALSE]
    /\ UNCHANGED <<full, alive, flag, need, coming, guiVars, asked, outVars, inVars,
                   serverVars>>

(* Mutant: epoll_wait is called without a timeout.                          *)
WaitForever(t) == FALSE /\ UNCHANGED vars

(* A second goes by without an event.                                      *)
WaitTimeout(t) ==
    /\ tpc[t] = "wait" /\ ~inEvent[t] /\ ~outEvent[t]
    /\ Goes(t, "top")
    /\ UNCHANGED <<alive, flag, need, coming, guiVars, ev, edges, asked,
                   outVars, inVars, serverVars>>

(* MSG_GET_FINISH.                                                         *)
GetFinish(t) ==
    /\ tpc[t] = "in" /\ "IN" \in ev[t] /\ nin[t] < Len(said[t])
    /\ nin' = [nin EXCEPT ![t] = @ + 1]
    /\ inlist' = [inlist EXCEPT ![t] = Append(@, [thread |-> t, pos |-> nin[t] + 1])]
    /\ UNCHANGED <<alive, flag, need, coming, guiVars, tpc, ev, edges,
                   asked, outVars, serverVars>>

(* MSG_GET_FAILED, MSG_GET_AGAIN, or no EPOLLIN.                           *)
GetDone(t) ==
    /\ tpc[t] = "in" /\ ("IN" \in ev[t] => nin[t] = Len(said[t]))
    /\ Goes(t, "out")
    /\ flag' = IF "IN" \in ev[t] /\ closed[t] THEN "INACTIVE" ELSE flag
    /\ UNCHANGED <<alive, need, coming, guiVars, ev, edges, asked, outVars,
                   inVars, serverVars>>

(* The EPOLLOUT branch.                                                    *)
Output(t) ==
    /\ tpc[t] = "out" /\ Goes(t, "collect")
    /\ \/ "OUT" \notin ev[t] /\ UNCHANGED <<outVars, full, flag, alive>>
       \/ "OUT" \in ev[t] /\ SendQueue(t, outq[t]) /\ UNCHANGED <<flag, alive>>
       \/ "OUT" \in ev[t] /\ WriteFails(t, outq[t]) /\ flag' = "INACTIVE"
    /\ UNCHANGED <<need, coming, guiVars, ev, inEvent, outEvent, asked, inVars,
                   serverVars>>

(* What was received moves to message_comming.                             *)
Collect(t) ==
    /\ tpc[t] = "collect" /\ Goes(t, "top")
    /\ coming' = Joined(inlist[t], coming)
    /\ inlist' = [inlist EXCEPT ![t] = <<>>]
    /\ ev' = [ev EXCEPT ![t] = {}]
    /\ UNCHANGED <<alive, flag, need, guiVars, edges, asked, outVars,
                   nin, serverVars>>

Loop(t) ==
    \/ LoopTop(t) \/ Exit(t) \/ CheckNeed(t) \/ Splice(t) \/ WaitEvent(t) \/ WaitTimeout(t)
    \/ GetFinish(t) \/ GetDone(t) \/ Output(t) \/ Collect(t)

Transfer(t) == Connected(t) \/ ConnectFailed(t) \/ Loop(t)

-----------------------------------------------------------------------------
(* The server, as far as its clients rely on it, and the network.  The     *)
(* server of module Server keeps to this as long as no account leads to a  *)
(* freed peer: see module Ball.                                            *)

Ok == [type |-> "LOGIN_RESPOND", ok |-> TRUE]
Failed == [type |-> "LOGIN_RESPOND", ok |-> FALSE]
Chat == [type |-> "CHART"]
Rows == [i \in 1..Len(MemberList) |-> [type |-> "PEER_LIST", name |-> MemberList[i]]]
Replies == {Ok, Failed, Chat} \cup {Rows[i] : i \in 1..Len(Rows)}

Served(t) == Live(t) /\ tpc[t] # "connect" /\ ~closed[t]

Logins(t) == {i \in 1..Len(wire[t]) : asked[wire[t][i]].type = "LOGIN"}
Count(s, type) == Cardinality({i \in 1..Len(s) : s[i].type = type})

(* What the server may have written on connection t, all in all: no more   *)
(* answers than there were LOGINs, the members at once after a success, if *)
(* the query does not fail, and chats of others after one.                 *)
Promise(t, s) ==
    /\ Count(s, "LOGIN_RESPOND") <= Cardinality(Logins(t))
    /\ \A i \in 1..Len(s) :
          /\ s[i].type = "PEER_LIST" =>
                \E j \in 1..Len(Rows) :
                    /\ s[i] = Rows[j] /\ i > 1
                    /\ s[i - 1] = IF j = 1 THEN Ok ELSE Rows[j - 1]
          /\ s[i].type = "CHART" => \E j \in 1..(i - 1) : s[j] = Ok

(* What said[t] may become with up to Burst packets more.                  *)
Longer(t) ==
    LET Next1(s) == {w \in {Append(s, r) : r \in Replies} :
                        Promise(t, w) /\ Count(w, "CHART") <= MaxIn}
        longer[n \in 1..Burst] ==
            IF n = 1 THEN Next1(said[t])
            ELSE LET shorter == longer[n - 1]
                 IN  shorter \cup UNION {Next1(s) : s \in shorter}
    IN  longer[Burst]

ServerWrites(t) ==
    /\ Served(t)
    /\ \E s \in Longer(t) : said' = [said EXCEPT ![t] = s]
    /\ inEvent' = [inEvent EXCEPT ![t] = TRUE]
    /\ UNCHANGED <<closed, outEvent, full>>

(* The server closes the connection, or goes down, or the network does.    *)
ServerClose(t) ==
    /\ Served(t)
    /\ closed' = [closed EXCEPT ![t] = TRUE]
    /\ inEvent' = [inEvent EXCEPT ![t] = TRUE]
    /\ UNCHANGED <<said, outEvent, full>>

(* Room appears in a socket that was full.                                 *)
Drain(t) ==
    /\ Served(t) /\ full[t]
    /\ full' = [full EXCEPT ![t] = FALSE]
    /\ outEvent' = [outEvent EXCEPT ![t] = TRUE]
    /\ UNCHANGED <<said, closed, inEvent>>

Outside(t) ==
    /\ ServerWrites(t) \/ ServerClose(t) \/ Drain(t)
    /\ UNCHANGED <<flag, need, coming, guiVars, tpc, ev, asked, outVars, inVars>>

(* The user closes the main panel: the program ends.                       *)
Quit ==
    /\ gpc = "idle" /\ mainPanel
    /\ alive' = FALSE
    /\ UNCHANGED <<flag, need, coming, guiVars, tpc, ev, edges, asked,
                   outVars, inVars, serverVars>>

(* What the client itself does, and all that may happen.                   *)
Gui ==
    \/ (User \/ Relogin \/ StatusTimer) /\ UNCHANGED alive
    \/ Messages \/ Quit

Next ==
    /\ alive
    /\ \/ Gui
       \/ \E t \in Threads : Transfer(t)
       \/ \E t \in Threads : Outside(t) /\ UNCHANGED alive

Spec == Init /\ [][Next]_vars

-----------------------------------------------------------------------------
(* Properties.                                                             *)

(* Type correctness: a LOGIN or a chat is never built before the name of   *)
(* the user is known.                                                      *)
TypeOK ==
    /\ alive \in BOOLEAN
    /\ flag \in {"INACTIVE", "INIT", "LOGIN"}
    /\ need \in Seq(Nat \ {0})
    /\ coming \in Seq([thread : Threads, pos : Nat \ {0}])
    /\ wait \in Seq([thread : Threads, pos : Nat \ {0}])
    /\ handled \in Seq([thread : Threads, pos : Nat \ {0}])
    /\ gpc \in {"idle", "starting", "proc"}
    /\ loginName \in Names \cup {NoName}
    /\ mainPanel \in BOOLEAN /\ connStatus \in BOOLEAN
    /\ peers \subseteq Names
    /\ tpc \in [Threads -> {"none", "connect", "top", "take", "splice", "wait", "in",
                            "out", "collect", "dead"}]
    /\ ev \in [Threads -> SUBSET {"IN", "OUT"}]
    /\ outq \in [Threads -> Seq(Nat \ {0})]
    /\ wire \in [Threads -> Seq(Nat \ {0})]
    /\ inlist \in [Threads -> Seq([thread : Threads, pos : Nat \ {0}])]
    /\ inEvent \in [Threads -> BOOLEAN] /\ outEvent \in [Threads -> BOOLEAN]
    /\ full \in [Threads -> BOOLEAN] /\ closed \in [Threads -> BOOLEAN]
    /\ asked \in Seq([type : {"LOGIN"}, name : Names, thread : Threads]
                        \cup [type : {"CHART"}, from : Names])
    /\ said \in [Threads -> Seq([type : {"LOGIN_RESPOND"}, ok : BOOLEAN]
                        \cup [type : {"PEER_LIST"}, name : Names]
                        \cup [type : {"CHART"}])]
    /\ nin \in [Threads -> Nat]

Increasing(s) == \A i, j \in 1..Len(s) : i < j => s[i] < s[j]
Elements(s) == {s[i] : i \in 1..Len(s)}

(* What the GTK thread queues goes out in the order it was queued and on   *)
(* one connection at most, and is nowhere lost: it waits in                *)
(* message_need_sended, or in an output_queue, or it is on a wire.         *)
OutOnceInOrder ==
    /\ \A t \in Threads : Increasing(wire[t] \o outq[t] \o need)
    /\ \A t, u \in Threads : t # u =>
          Elements(wire[t] \o outq[t]) \cap Elements(wire[u] \o outq[u]) = {}
    /\ Elements(need) \cup UNION {Elements(wire[t] \o outq[t]) : t \in Threads}
          = 1..Len(asked)

(* What was read from a connection is processed in the order it arrived,   *)
(* each packet once, through all the lists it passes on the way.           *)
InOnceInOrder ==
    \A t \in Threads :
        LET path == handled \o wait \o coming \o inlist[t]
            mine == {i \in 1..Len(path) : path[i].thread = t}
        IN  /\ \A i, j \in mine : i < j => path[i].pos < path[j].pos
            /\ {path[i].pos : i \in mine} = 1..nin[t]
            /\ \A i \in 1..Len(inlist[t]) : inlist[t][i].thread = t

(* A member is added only to a main panel that exists, since the answer to *)
(* the login overtakes nothing and is overtaken by nothing.                *)
PanelBeforeMembers ==
    gpc = "proc" /\ wait # <<>> =>
        LET m == said[Head(wait).thread][Head(wait).pos]
        IN  m.type = "PEER_LIST" => mainPanel

(* "when ever we start a transfor thread, we need also relogin"            *)
(* (gui_client.c:207): a thread that waits for events, with nothing more   *)
(* to take, has sent or is sending a LOGIN of its own.                     *)
LoggedIn ==
    \A t \in Threads :
        tpc[t] = "wait" /\ need = <<>> /\ gpc # "starting" =>
            \E k \in Elements(wire[t] \o outq[t]) :
                asked[k].type = "LOGIN" /\ asked[k].thread = t

(* The i-th packet for connection t is a LOGIN that was answered with      *)
(* success: the n-th answer is that to the n-th LOGIN.                     *)
Granted(t, i) ==
    LET lane == wire[t] \o outq[t]
        n == Cardinality({k \in 1..i : asked[lane[k]].type = "LOGIN"})
    IN  /\ asked[lane[i]].type = "LOGIN"
        /\ \E p \in 1..Len(said[t]) :
              said[t][p] = Ok /\ Count(SubSeq(said[t], 1, p), "LOGIN_RESPOND") = n

(* The account a connection is logged in with is that of the last LOGIN    *)
(* the server granted on it: one that is refused leaves it as it was       *)
(* (server.c:292).  A chat names that account as its sender ("FROM WHERE", *)
(* protocol:24), whatever LOGINs and chats earlier threads left behind,    *)
(* with one exception: there is a later LOGIN of the sender before it that *)
(* was refused, or is not answered.  Chats are not held back for that.     *)
SenderIsAccount ==
    \A t \in Threads :
        LET lane == wire[t] \o outq[t]
        IN  \A j \in 1..Len(lane) : \A i \in 1..(j - 1) :
                /\ asked[lane[j]].type = "CHART"
                /\ Granted(t, i) /\ \A k \in (i + 1)..(j - 1) : ~Granted(t, k)
                => \/ asked[lane[i]].name = asked[lane[j]].from
                   \/ \E k \in (i + 1)..(j - 1) :
                         /\ asked[lane[k]].type = "LOGIN"
                         /\ asked[lane[k]].name = asked[lane[j]].from

(* A failed read or write ends in a client that is not connected ("maybe   *)
(* we need a reconnection to the server, we must deal with it",            *)
(* gui_client.c:149): the flag says connected only while a thread runs.    *)
FlagIsTrue == flag # "INACTIVE" => \E t \in Threads : Live(t)
=============================================================================
