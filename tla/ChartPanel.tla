------------------------------- MODULE ChartPanel -------------------------------
(***************************************************************************)
(* The members of the main panel and the chat windows of the client: which *)
(* window a chat is shown in, which chats wait for one, and what is sent.  *)
(* Everything happens in the GTK thread.  The main panel is there; what an *)
(* answer to a login does is in module Client.                             *)
(*                                                                         *)
(* A packet is known by the number under which it came; a window by the    *)
(* number under which it was made.  What is read in a packet is taken from *)
(* its bytes, by module Codec.                                             *)
(***************************************************************************)
EXTENDS Codec, FiniteSets, SequencesExt

CONSTANTS
    Names,      \* names of the others: sequences of chars other than 0
    Me,         \* g_login_name
    Texts,      \* texts the users write
    Statuses,   \* answers to a login that come now
    MaxIn,      \* bound: packets that come
    MaxOut,     \* bound: chats that are sent
    MaxPanels   \* bound: windows

Written(s, len) == s \in Seq(Chars \ {0}) /\ Len(s) < len

(* The buffers take names below MAX_ACCOUNT_NAME_LEN and packets below     *)
(* MAX_MESSAGE_PACKET_LEN, which is less still; no code refuses longer ones.*)
ASSUME ChartAssumption ==
    /\ Statuses \subseteq 0..(Byte * Byte * Byte * Byte - 1)
    /\ <<>> \notin Names /\ <<>> \in Texts
    /\ \A n \in Names \cup {Me} : Written(n, Byte \div 2)
    /\ \A x \in Texts : Written(x, Byte * Byte)
    /\ MaxIn \in Nat /\ MaxOut \in Nat /\ MaxPanels \in Nat

VARIABLES
    came,       \* history: what the server sent, by number
    coming,     \* message_comming and message_wait_proc: packets
    members,    \* ball_peer_info_set: name, panel (0 is NULL), msg_unshow
    panels,     \* windows: name, open, what is typed, packets shown
    freed,      \* history: packets given to free, in this order
    need,       \* message_need_sended: the bytes of the chats
    typed       \* history: what the user meant them to say

vars == <<came, coming, members, panels, freed, need, typed>>

Init ==
    /\ came = <<>> /\ coming = <<>> /\ members = <<>> /\ panels = <<>>
    /\ freed = <<>> /\ need = <<>> /\ typed = <<>>

Incoming ==
    [type : {"CHART"}, from : Names, to : {Me}, msg : Texts \ {<<>>}]
        \cup [type : {"PEER_LIST"}, name : Names]
        \cup [type : {"LOGIN_RESPOND"}, status : Statuses]

(* The bytes of packet k, and its type as message_parse_head finds it.     *)
Bytes(m) ==
    IF m.type = "CHART"
      THEN Packet(MSG_TYPE_CHART, Chart(m.from, m.to, m.msg))
    ELSE IF m.type = "PEER_LIST"
      THEN Packet(MSG_TYPE_PEER_LIST, PeerList(m.name))
    ELSE Packet(MSG_TYPE_LOGIN_RESPOND, Respond(m.status))

Content(k) == Bytes(came[k])
Type(k) == message_parse_head(Content(k)).type

-----------------------------------------------------------------------------
(* Members and windows.                                                    *)

(* Mutant: a name that begins with the other one is the same.               *)
SameLoose(a, b) == IsPrefix(a, b) \/ IsPrefix(b, a)

(* ball_peer_info_check_exist compares lengths and contents, strcmp all.   *)
Same(a, b) == a = b

(* Mutant: strncmp with the length of the member's name.                    *)
MatchesShorter(name, from) == IsPrefix(name, from)

(* strncmp(peer->name, from, from_len).                                    *)
Matches(name, from) == IsPrefix(from, name)

(* The first of some members, 0 if there is none.                          *)
First(hits) == IF hits = {} THEN 0 ELSE CHOOSE i \in hits : \A j \in hits : i <= j

Member(name) == First({i \in 1..Len(members) : Same(members[i].name, name)})

(* Who a chat from this sender is shown with.                              *)
Sender(from) == First({i \in 1..Len(members) : Matches(members[i].name, from)})

(* ball_chart_panel_update_message.                                        *)
UpdateMessage(k) ==
    LET i == Sender(ChartOf(Content(k)).from)
    IN  \/ /\ i = 0
           /\ freed' = Append(freed, k)
           /\ UNCHANGED <<members, panels>>
        \/ /\ i # 0 /\ members[i].panel # 0
           /\ panels' = [panels EXCEPT ![members[i].panel].shown = Append(@, k)]
           /\ freed' = Append(freed, k)
           /\ UNCHANGED members
        \/ /\ i # 0 /\ members[i].panel = 0
           /\ members' = [members EXCEPT ![i].unshow = Append(@, k)]
           /\ UNCHANGED <<panels, freed>>

(* Mutant: free for a member that is known, here and in the caller.         *)
UpdatePeerListTwice(k) ==
    LET name == PeerListOf(Content(k)).name
    IN  /\ members' = IF Member(name) # 0 THEN members
                      ELSE Append(members, [name |-> name, panel |-> 0, unshow |-> <<>>])
        /\ freed' = freed \o (IF Member(name) # 0 THEN <<k, k>> ELSE <<k>>)
        /\ UNCHANGED panels

(* ball_main_panel_update_peer_list and ball_add_peer_info.                *)
UpdatePeerList(k) ==
    LET name == PeerListOf(Content(k)).name
    IN  /\ members' = IF Member(name) # 0 THEN members
                      ELSE Append(members, [name |-> name, panel |-> 0, unshow |-> <<>>])
        /\ freed' = Append(freed, k)
        /\ UNCHANGED panels

(* A round of the inner loop of ball_process_comming_message.              *)
Process ==
    /\ coming # <<>>
    /\ LET k == Head(coming)
       IN  \/ Type(k) = MSG_TYPE_CHART /\ UpdateMessage(k)
           \/ Type(k) = MSG_TYPE_PEER_LIST /\ UpdatePeerList(k)
           \/ /\ Type(k) \notin {MSG_TYPE_CHART, MSG_TYPE_PEER_LIST}
              /\ freed' = Append(freed, k)
              /\ UNCHANGED <<members, panels>>
    /\ coming' = Tail(coming)
    /\ UNCHANGED <<came, need, typed>>

(* Mutant: what waits for the window stays where it is.                     *)
OpenEmpty(i) ==
    /\ Len(panels) < MaxPanels
    /\ panels' = Append(panels, [name |-> members[i].name, open |-> TRUE,
                                 draft |-> <<>>, shown |-> <<>>])
    /\ members' = [members EXCEPT ![i].panel = Len(panels) + 1]
    /\ UNCHANGED <<came, coming, freed, need, typed>>

(* ball_main_panel_responed_row_activated, for the row of member i, with   *)
(* ball_peer_info_set_chart_panel and ball_present_undeliver_message.      *)
OpenPanel(i) ==
    LET j == Member(members[i].name)
    IN  /\ Len(panels) < MaxPanels
        /\ panels' = Append(panels, [name |-> members[i].name, open |-> TRUE,
                                     draft |-> <<>>, shown |-> members[j].unshow])
        /\ members' = [members EXCEPT ![j].panel = Len(panels) + 1, ![j].unshow = <<>>]
        /\ freed' = freed \o members[j].unshow
        /\ UNCHANGED <<came, coming, need, typed>>

(* Mutant: the member is not told.                                          *)
ClosePanelSilent(p) ==
    /\ panels[p].open
    /\ panels' = [panels EXCEPT ![p].open = FALSE]
    /\ UNCHANGED <<came, coming, members, freed, need, typed>>

(* Mutant: the first member is taken whose name begins like the window's.   *)
ClosePanelPrefix(p) ==
    /\ panels[p].open
    /\ panels' = [panels EXCEPT ![p].open = FALSE]
    /\ members' = [members EXCEPT ![Sender(panels[p].name)].panel = 0]
    /\ UNCHANGED <<came, coming, freed, need, typed>>

(* ball_responed_chart_panel_delete: whichever window of that name it is,  *)
(* the member is left without one.                                         *)
ClosePanel(p) ==
    /\ panels[p].open
    /\ panels' = [panels EXCEPT ![p].open = FALSE]
    /\ members' = [members EXCEPT ![Member(panels[p].name)].panel = 0]
    /\ UNCHANGED <<came, coming, freed, need, typed>>

-----------------------------------------------------------------------------
(* Writing.                                                                *)

TypeText(p, text) ==
    /\ panels[p].open /\ panels[p].draft # text
    /\ panels' = [panels EXCEPT ![p].draft = text]
    /\ UNCHANGED <<came, coming, members, freed, need, typed>>

(* ball_chart_panel_clear_message.                                         *)
ClearMessage(p) ==
    /\ panels[p].open
    /\ panels' = [panels EXCEPT ![p].draft = <<>>]
    /\ UNCHANGED <<came, coming, members, freed, need, typed>>

(* ball_chart_panel_send_message.  An empty text is not sent.              *)
SendMessage(p) ==
    /\ panels[p].open /\ panels[p].draft # <<>> /\ Len(typed) < MaxOut
    /\ need' = Append(need, Packet(MSG_TYPE_CHART,
                                Chart(Me, panels[p].name, panels[p].draft)))
    /\ typed' = Append(typed, [from |-> Me, to |-> panels[p].name, msg |-> panels[p].draft])
    /\ panels' = [panels EXCEPT ![p].draft = <<>>]
    /\ UNCHANGED <<came, coming, members, freed>>

(* The server: a transfer thread adds a packet to message_comming.         *)
Arrive ==
    /\ Len(came) < MaxIn
    /\ \E m \in Incoming : came' = Append(came, m)
    /\ coming' = Append(coming, Len(came) + 1)
    /\ UNCHANGED <<members, panels, freed, need, typed>>

Next ==
    \/ Arrive \/ Process
    \/ \E i \in 1..Len(members) : OpenPanel(i)
    \/ \E p \in 1..Len(panels) :
          \/ ClosePanel(p) \/ ClearMessage(p) \/ SendMessage(p)
          \/ \E x \in Texts : TypeText(p, x)

Spec == Init /\ [][Next]_vars

-----------------------------------------------------------------------------
(* Properties.                                                             *)

Came == 1..Len(came)
Windows == 1..Len(panels)

(* Every variable has its type, and the numbers of packets and windows are *)
(* numbers of packets that came and of windows that were made.             *)
TypeOK ==
    /\ came \in Seq(Incoming)
    /\ coming \in Seq(Came) /\ freed \in Seq(Came)
    /\ members \in Seq([name : Names, panel : 0..Len(panels), unshow : Seq(Came)])
    /\ panels \in Seq([name : Names, open : BOOLEAN, draft : Texts, shown : Seq(Came)])
    /\ need \in Seq(Seq(Chars)) /\ Len(need) = Len(typed)

(* What a member points to is an open window of its own name: a chat is    *)
(* never presented in a window that has been destroyed (gui_client.c:305), *)
(* however many windows of that name there are and whichever is closed.    *)
PanelLive ==
    \A i \in 1..Len(members) : members[i].panel # 0 =>
        LET w == panels[members[i].panel] IN w.open /\ w.name = members[i].name

(* An open window is the one its member points to, unless there was        *)
(* another window of the same name (chart_panel.c:128): windows of other   *)
(* members never take it away, even when one name begins with the other.   *)
Attached ==
    \A p \in Windows : panels[p].open =>
        \/ members[Member(panels[p].name)].panel = p
        \/ \E q \in Windows \ {p} : panels[q].name = panels[p].name

(* Where a packet can be: -1 stands for those given to free, 0 for the     *)
(* queue, the number of a member for those that wait for its window.       *)
Places == -1..Len(members)
In(q) == IF q = -1 THEN freed ELSE IF q = 0 THEN coming ELSE members[q].unshow

(* Every packet that came is somewhere, and in one place: still to be      *)
(* processed, waiting for a window, or given to free, once                 *)
(* (gui_client.c:306, :474, :517 and main_panel.c:30 all free packets).    *)
FreedOnce ==
    /\ \A k \in Came : \E q \in Places : \E a \in 1..Len(In(q)) : In(q)[a] = k
    /\ \A q, r \in Places : \A a \in 1..Len(In(q)), b \in 1..Len(In(r)) :
          In(q)[a] = In(r)[b] => q = r /\ a = b

(* The chats with member i in window p, and those that wait for one, which *)
(* come after those in all windows.                                        *)
Shelves == 1..(Len(panels) + 1)
ChatsWith(i, p) ==
    IF p = Len(panels) + 1 THEN members[i].unshow
    ELSE IF panels[p].name = members[i].name THEN panels[p].shown
    ELSE <<>>

(* The chats with a member are in the order in which they came, over all   *)
(* its windows, the older one first, and what waits, and no chat is there  *)
(* twice (main_panel.c:23 and gui_client.c:303 take different ways to a    *)
(* window).                                                                *)
ShownInOrder ==
    \A i \in 1..Len(members) : \A p, q \in Shelves :
        \A a \in 1..Len(ChatsWith(i, p)), b \in 1..Len(ChatsWith(i, q)) :
            p < q \/ (p = q /\ a < b) => ChatsWith(i, p)[a] < ChatsWith(i, q)[b]

(* A chat is with a member whose name is the sender's or begins with it,   *)
(* never with one that merely begins the sender's name; and a sender that  *)
(* was listed first gets its own chats (gui_client.c:301).                 *)
SenderShown ==
    \A i \in 1..Len(members) : \A p \in Shelves : \A a \in 1..Len(ChatsWith(i, p)) :
        LET from == came[ChatsWith(i, p)[a]].from
        IN  IsPrefix(from, members[i].name) /\ Member(from) \in {0} \cup i..Len(members)

(* The rows that have been processed.                                      *)
Rows == {k \in Came : came[k].type = "PEER_LIST" /\ k \notin ToSet(coming)}

(* The members are those whose rows have been processed, in the order of   *)
(* their first rows, each of them once (gui_client.c:462).                 *)
Listed ==
    /\ \A k \in Rows : \E i \in 1..Len(members) : members[i].name = came[k].name
    /\ \A i \in 1..Len(members) : \E k \in Rows : came[k].name = members[i].name
    /\ \A i, j \in 1..Len(members) : i < j =>
          \E k \in Rows : /\ came[k].name = members[i].name
                          /\ \A l \in Rows : came[l].name = members[j].name => k < l

(* What is read in a packet is what was written into it, and the length in *)
(* the head is that of the packet: chats this client sends, all that       *)
(* comes, and the login the server takes apart (ball.c:116, :184, :208,    *)
(* gui_client.c:219, server.c:278).                                        *)
ReadAsWritten ==
    /\ \A i \in 1..Len(typed) :
          /\ ChartOf(need[i]) = typed[i]
          /\ message_parse_head(need[i]) =
                [version |-> 1, type |-> MSG_TYPE_CHART, length |-> Len(need[i])]
    /\ \A k \in Came :
          LET c == Content(k) m == came[k]
          IN  /\ message_parse_head(c).length = Len(c)
              /\ Type(k) = MSG_TYPE_CHART =>
                    ChartOf(c) = [from |-> m.from, to |-> m.to, msg |-> m.msg]
              /\ Type(k) = MSG_TYPE_PEER_LIST => PeerListOf(c) = [name |-> m.name]
              /\ Type(k) = MSG_TYPE_LOGIN_RESPOND =>
                    RespondOf(c) = [status |-> m.status]
    /\ \A name, passwd \in Names \cup {Me} :
          LoginOf(Packet(MSG_TYPE_LOGIN, Login(name, passwd)))
              = [name |-> name, passwd |-> passwd]
=============================================================================
