# A verification of ball

`ball` is a small chat system in C: a server, a GTK client and a library with
the message transport they share.  This directory holds TLA+ models of it, the
TLC configurations that check them on small instances, and theorems about them
that TLAPS proves for every value of the constants.

## The system

| part | code | state | operations |
|---|---|---|---|
| message transport | `lib/ball.c` | `message_send_queue` (a list of packets and the saved position of a partial write); `msg_status` (phase, position and length left of a partial read) | `send_message`, `put_message`, `get_message`, `initial_new_input_msg`, `message_parse_head` |
| message codec | `lib/ball.c`, `gui/gui_client.c`, `server/server.c`, `protocol` | none | `package_message`, `message_package_head`, `message_parse_head`, `message_parse_body`, and the four places that build or take apart a body themselves |
| server loop | `server/server.c` | `peer_info_pool`, `timeout_list`, `check_timeout`, the epoll set | the loop of `main`, `destroy_peer_info`, `clear_outtime_peer`, `sig_hand_alarm` |
| server accounts | `server/server.c` | one used slot of a hash table of `account_info`; each account points to its peer and back | `message_proc_login`, `process_message`, `account_add_into_db`, `account_get_from_db`, `account_remove_from_db`, `ball_pack_relationship_packet` |
| database queries | `server/db_proc.c`, `server/ball_db.sql` | none (a connection per query, not closed on most paths) | `ball_db_check_login`, `ball_respond_relationship` |
| client transfer threads | `gui/gui_client.c` | an endpoint per thread, with its output queue and its list of received packets | `ball_process_message_transfor`, `ball_start_transfor_routine` |
| client GTK thread | `gui/gui_client.c`, `gui/main_panel.c`, `gui/login_panel.c` | `ball_transfor_active_flag`, `message_need_sended`, `message_comming` (all three shared with the transfer threads), the name and password, the main panel and its status, the members | `ball_process_login`, the conn button, `ball_process_comming_message` and its handlers, `ball_update_conn_status` |
| chart panels | `gui/chart_panel.c`, `gui/main_panel.c`, `gui/gui_client.c` | `ball_peer_info_set`; per member: the window, the messages not yet shown | `ball_main_panel_responed_row_activated`, `ball_responed_chart_panel_delete`, `ball_chart_panel_send_message`, `ball_chart_panel_clear_message`, `ball_chart_panel_update_message`, `ball_main_panel_update_peer_list` |
| lists | `include/list.h` | `next`/`prev` pointers | `list_add_tail`, `list_del`, `list_splice_tail_init`, `hlist_add_head`, `hlist_del` |
| register panel | `gui/register_panel.c` | - | not compiled |

The client and the server exchange packets over one TCP connection: LOGIN and
CHART one way, LOGIN_RESPOND, PEER_LIST and CHART the other.  Both ends use
`lib/ball.c` on a non-blocking socket with edge-triggered epoll.  The server is
one thread and one signal handler.  The client is the GTK thread and, for each
connection, a transfer thread.  They share a flag without any lock, and two
lists with a mutex each, which are checked for emptiness without it.

What is hard in this code, with the line of each, is the list "hazards" of
`PROJECT.json`: partial reads and writes at every byte, edges that come once,
events and accounts that outlive the peer they refer to, the order of the timeout
list, an alarm at any point of the loop, a transfer thread that is told to end
and another that is started before it looks, several windows for one member, and
what all of this does when a client and the server run against each other.

## The modules

| module | models |
|---|---|
| `FifoChannel` | abstract: what the transport promises for one direction of one connection |
| `Transport` | `lib/ball.c` on both ends of a socket; implements `FifoChannel` |
| `TransportProofs` | theorems about `Transport` |
| `Directory` | abstract: which connections are open and which names are online on them |
| `Server` | `server/server.c` with the queries of `db_proc.c`; implements `Directory` |
| `ServerProofs` | theorems about the loop of `Server` |
| `ServerAccountProofs` | theorems about its accounts and what is sent to them |
| `Client` | the GTK thread and the transfer threads of `gui/` |
| `ClientProofs` | theorems about `Client` |
| `Ball` | a client process and the server together: `Client` and `Server`, each in the place of what the other assumes |
| `BallProofs` | theorems about `Ball` |
| `Codec` | the bytes of the four packets, written and read |
| `CodecProofs` | theorems about `Codec` |
| `ChartPanel` | the members and the chat windows of a client, on packets of bytes |
| `ChartPanelProofs` | theorems about `ChartPanel` |
| `Lists` | abstract: lists as sequences, an entry on one of them at most |
| `ListHeap` | `include/list.h`, pointer by pointer; implements `Lists` |
| `ListHeapProofs` | theorems about `ListHeap` |
| `MCTransport`, `MCServer`, `MCClient`, `MCBall`, `MCChart`, `MCLists` | constants for TLC |

A definition named `...Early`, `...Stale`, `...Lost` and so on, under a comment
that starts with "Mutant:", is a wrong version of the definition after it.  It
is used by no specification; `PROJECT.json` lists which property TLC finds
violated when it takes the place of the right one.

### Transport

One direction of one connection.  A packet is its number; its j-th byte is
`<<k, j>>`, so that framing can be stated without looking at what a byte is.
`sent` and `delivered` are histories.  Every `write` and every `read` is a step
(`WriteSome(n)`, `WriteAgain`, `WriteFail`; `ReadPart(n)`, `ReadHead(n)`,
`ReadBody(n)`, `ReadAgain`, `ReadFail`) and moves any number of bytes the kernel
could move.  The locals of `put_message` and `get_message` (`put`, `get`) are
apart from the positions saved in the structures (`out`, `in`), since the code
saves them on some paths only.  Epoll is two flags for edges not yet reported.
`EpollOut` says whether the sending end registered EPOLLOUT: the client does,
the server does not.  The connection may be closed, in the middle of a call too
when the process dies, or reset, at any step.

Not in the model: packets without a body.  `get_message` would take them for an
end of file, and nothing in the program builds one (`TransportAssumption`).

### Server

`pc` is where `main` is; a step is one call that looks at or changes something
the clients, the kernel or the signal handler may change too.  Connections have
an identity of their own, as `peer_info`s do.  `state[p]` is "backlog" until
`accept`, "open" while the `peer_info` exists and "gone" after
`destroy_peer_info`.  An account is its number in `accts`; `hslot` holds those
in the hash table, all of them in one slot because `account_name_hash` returns 0.

- Packets are read and written whole, which is what `Transport` shows
  (`Framing`, `ChannelSpec`).  A packet of which a part only arrived before the
  connection ended is one that was not sent.
- `PrefixOf` says which names are prefixes of which: `strncmp` over the length of
  the shorter name tells no more of them.
- The result of `ball_db_check_login` is a free choice, the rows of the member
  list are those of the table or none, when a query fails.
- If the peer of an account has been freed, what is done with it is undefined: the
  program may stop, the packet may be lost, or the memory may be that of another
  peer (`SendTo`).
- A write to a connection the client has closed may stop the server with SIGPIPE.
- `time(NULL)` never goes back (`Timer`): if somebody sets the clock back, stamps are
  no longer in the order of the list, and `TimeoutOrder` is not true.
- A client sends LOGIN and CHART only, which is all `gui/` builds; on other types
  `process_message` stops at an assertion.
- The batch epoll returns is handled in any order; clients are accepted in any
  order.

`Directory` is what other parts may rely on: a name can be looked up on a
connection from its login to the end of the connection.  `DirectorySpec` says
that the pool, the table and the pointers between them implement it.

### Client

Each transfer thread has a place `tpc[t]` and its own connection.  A step reads
or writes one shared variable (the flag, whether a list is empty) or is one
critical section; no section is entered within another, so a mutex needs no
variable of its own.  Packets the GTK thread queues are numbers of the history
`asked`, received ones pairs of a connection and a position in the history
`said`.  A callback of the GTK thread is one step, except
`ball_start_transfor_routine`, in the middle of which the new thread may already
run, and `ball_process_comming_message`, which takes a step for each packet.

The server's part is a promise (`Promise`): no more answers than LOGINs, the
members right behind a success, chats after one.  Up to `Burst` packets arrive in
one step.  A connection may be refused, and closed at any time.  The server of
`Server` keeps the promise as long as no account leads to a freed peer (`ClientSpec`
of `Ball`); the theorems about `Client` are about a server that keeps it always.

`Hasty` tells two kinds of users apart: one who clicks at any time, and one who
waits until the thread of the last click is over (up to a second, the timeout of
`epoll_wait`).

For the hasty user `LoggedIn` is not true: a thread that was told to end, and has
not looked at the flag yet, goes on when the user reconnects at once
(gui_client.c:204 sets the flag again), and may take the LOGIN of the new thread
(gui_client.c:117).  That is why `LoggedIn` is checked for the patient one.
Nor is `SenderIsAccount`: a second click on the login button under another name, before
the answer to the first, sets `g_login_name` (login_panel.c:27) although
`ball_start_transfor_routine` returns at once, and the chats written later name an
account that is not the one logged in.  For the patient user too there is one way to a
wrong sender, which `SenderIsAccount` names: the LOGIN of one name, left behind by a
connection that failed, and the LOGIN of another travel on one connection, and the server
grants the first and refuses the second (server.c:292), or has not answered it.  Neither
property says that a chat comes behind a LOGIN: one that was left in
`message_need_sended` goes first on the next connection.

Left out: failures of `epoll_wait` (its arguments are always valid and the client
has no signal handler), windows other than the panels' existence, and the second
read of the flag in the conn button and the status timer, which cannot change
the outcome, since only one of the two conditions agrees with `conn_status`.

### Ball

`Ball` extends `Client`, and `S` is `Server` with the transfer threads for peers.  The
variables have the names of the two modules; where both use a name, the server's
`said` and `wire` are `sent` and `swire`: `sent` is what the server is given to read,
`said` what the client is.  A step of a thread that writes is at once the arrival of
its packets at the server (`Arrives`), a step of the server that writes their arrival
at the client (`ServerStep`), in both cases only if the other end is still there
(`AtBoth`, `Served`).  `BallAssumption` keeps the bounds of `Client` on what a server
writes as wide as what this one can.  `ClientSpec` and `ServerSpec` say that the
composition is a behaviour of each module, so that what the two modules assume of
each other (`Promise` and `Longer` of `Client`; `Packet`, `Bodies` and
`LoginsPerPeer` of `Server`) is what the other one does.  `LoginsPerPeer` is the
number of threads and not one, because of what the run `ball_relogin` shows.

The server does not keep `Promise` always.  A connection that carries two LOGINs (the
run `ball_relogin`) leaves an account behind when it ends, which leads to a freed
`peer_info`.  A chat for that account is then written through freed memory, which may
belong to another connection by now (server.c:332), perhaps to one that has not been
answered yet.  Nothing removes such an account.  `ClientSpec` is therefore about the
steps before there is one (`PeersLive`).

Not in the composition: a network that loses connections by itself, a second
client, a hasty user and a partial packet.  The first two and the third are in
`Server` and `Client`, the last in `Transport`.

### Codec and ChartPanel

`Codec` has a sequence of chars for a packet and one operator for each function,
or each branch of one, that builds or reads a part of it.  A char has `Byte` values
and is signed when it is read as a number, an int has four chars, the length of a
chat two and that of a name one.  `ChartAssumption` keeps names below half of
`Byte` and texts below its square.  The buffers of the program are smaller than
that, but no code refuses a longer name, password or text: what happens then is
not modelled.

`ChartPanel` is the GTK thread after a login.  `came` numbers the packets that
arrived; what the code reads in one, the model reads in its bytes.  A window that
is closed stays in `panels` with `open = FALSE`, so that a pointer to it can be
seen to dangle.  `Matches` is `strncmp` over the length of the sender's name and
`Same` the comparison of whole names; they disagree when one name begins with
another, and `SenderShown` says how far that goes.  The texts of packets that are
shown are not copied: `shown` has their numbers.

Left out: a login panel the user closed before the answer came, and what GTK does
with a window.

### Lists and ListHeap

Each function of `list.h` is an operator from heap to heap, with the writes in the
order of the code.  `Next` is any call whose arguments satisfy what the function
requires: an entry that is added is on no list, one that is deleted is on one.
`ListSpec` maps each list to the sequence a walk along its `next` pointers finds.
`Transport`, `Server` and `Client` use sequences on the strength of it.

## What is checked

| run | shows |
|---|---|
| `transport` | framing, resumption, edges, refinement of `FifoChannel`; every packet is delivered in the end if EPOLLOUT is registered |
| `server_routing` | accounts and peers know each other, events are of living peers, nobody is forgotten, chats and answers come in order and to the right account, member lists go to who asked, refinement of `Directory` |
| `server_timeouts` | the timeout list is complete and in order, clearing it finds every late peer; late peers go and clients are served in the end |
| `client_hasty` | packets pass the shared lists once and in order even with two threads; the main panel exists before members arrive |
| `client_patient` | for users who wait: every connection logs in, and a chat names the account its connection is logged in with as its sender, unless a LOGIN of the sender was refused or is not answered |
| `ball` | client and server keep to what they assume of each other, the server as long as no account leads to a freed peer; a chat comes through both programs once; nothing stays for ever in the client, on a socket, or unread in either program |
| `charts` | chats are shown in order, in windows that exist, of the member whose name the sender's name begins; packets are freed once; what is read in a packet is what was written |
| `lists` | rings close both ways, `pprev` points back, refinement of `Lists` |

Four more runs show where the code does not do what one of its comments or its
protocol description says:

| run | what happens |
|---|---|
| `transport_server_live` | the server never registers EPOLLOUT (server.c:459), so a partial send is not resumed |
| `server_prefix` | a chat goes to an account whose name is a prefix of the one meant |
| `ball_relogin` | a transfer thread that ends before it has sent its LOGIN leaves it to the next, which logs in twice, and the server keeps an account whose peer does not know it |
| `client_flag` | an answer processed late makes a dead connection look alive |

The passing runs of `Server` have `LoginsPerPeer = 1`, without which
`AccountsKnowPeers` is not true.  `ball_relogin` needs three threads and a user who
never clicks while one is running; with two, as in `ball`, it does not happen.

### Bounds

- Transport: a head of 2 bytes, packets of 3 and 4, a socket of 3, three packets.
  Reads and writes split heads and bodies at every offset, a packet fits the
  socket or does not, and the third packet is queued behind two others.
- Server: two clients, two names, three packets among all clients
  (`server_routing`): a login of each and a chat, or a login and two chats in a
  row.  `MaxClock = 0` leaves the timer out where time does not matter, and the
  clients are symmetric there.  One tick with `IdleMax = 0` is enough for a peer
  to be late while another, stamped after the tick, is not (`server_timeouts`;
  one name and one packet, since this run checks liveness and cannot use symmetry).
- Client: two threads, the least that overlap.  One chat is sent and one member
  listed.  Two names and one chat that arrives in `client_patient`, one name and
  none in `client_hasty`.
- Ball: two threads, one chat and one name, that of a user who is his own member,
  so that the chat he writes comes back to him and passes both programs.  The
  timer of the server is off (`MaxClock = 0`).  With one chat there is no order to
  check: that part of `ShownOnceInOrder` is for the theorem `ShownCorrect` and for
  `MCBall_chats.cfg`, which has two chats and the safety part only (2.8 million states,
  two minutes; with liveness it takes too long to be one of the runs).
- ChartPanel: four packets, which are a row of the member list and three chats, or
  two of each, so that chats are shown, wait, and are shown again; two windows, of
  one member or of two; one chat written.  `Byte = 8`: a name of three chars is
  the longest there can be, and a text of eight needs both bytes of its length.
- ListHeap: two heads of each kind and three entries, so that an entry has
  neighbours on both sides.  `list_head` and `hlist` share no field and are
  explored one at a time (`MCApart`).

The server keeps running for ever, but its clients may all be gone and the timer
out of the model, so deadlock is not checked; liveness is what replaces it.

### Fairness

- Transport: both event loops run, a call that has started goes on, and epoll
  reports the room that appears after a refused write.  Nothing is assumed of who
  submits packets or breaks connections.
- Server: `main` runs and the timer fires.  Strong fairness of the three steps at
  which an alarm can be delivered: alarms are a second apart, so they cannot
  always come first.  Clients need do nothing.
- Ball: the server and the client's threads are scheduled, `connect` and
  `epoll_wait` return (the client's after a second at most), the timers of the GTK
  thread fire and its callbacks end, and a full socket has room again.  Strong
  fairness of `Sends`: a refused write is repeated, and each one that is not
  refused moves bytes.  The user, and nothing else, is free to stop.  `Settles`
  allows for a program or a thread that has ended; and since the server does not
  resume what it could not write (`transport_server_live`), it speaks of packets
  that have reached the client, not of those in the server's output queue.

## What is proved

`TransportProofs` proves, for every head length, set of lengths, socket size and
number of packets:

- `TypeCorrect`, `FramingCorrect`, `ResumeCorrect`, `EdgesCorrect`: the four
  invariants of the run `transport`;
- `Refinement`: `Transport` implements `FifoChannel`.

None of them is inductive.  `IInv` adds that the queue holds the packets from
some number on, without gaps (`QueueInv`); that what is left of the packet at its
head is what `out` and `put` say (`OutputInv`), and likewise for the input
(`InputInv`); and that the bytes stored, those in the socket and those not yet
written are one stream (`Runs`, `Joined`): each run of bytes continues the one
before it.  From that, the length the receiver parses is the length of the packet
it is reading, which gives `Framing`.  `Invariance` is `Spec => []IInv`; the proof
has one step per action.  The only assumption is `TransportAssumption`.

`CodecProofs` proves, for every `Byte` of at least 4 (`ByteAssumption`: a char can
tell four types of packets apart), that each field is read as it was written:
`HeadRead`, `ChartRead`, `LoginRead`, `PeerListRead` and `RespondRead`.  `Holds(c,
at, t)` says that the text `t` stands at `at` in the packet `c`; a concatenation
that stands somewhere falls into its parts (`HoldsParts`), and each part is read
back by arithmetic on its chars (`ShortRead`, `LongRead`) or cut out (`CutOut`).

`ChartPanelProofs` proves, for any names below half of `Byte`, texts below its
square and any number of members, windows and packets (`ChartAssumption`):

- `TypeCorrect`, `PanelLiveCorrect`, `AttachedCorrect`, `ReadAsWrittenCorrect`,
  `FreedOnceCorrect`, `ShownInOrderCorrect`, `SenderShownCorrect`, `ListedCorrect`:
  the eight invariants of the run `charts`.

`IInv` adds that no two members have one name (`Distinct`, without which closing a
window could detach the wrong member), that every window has a member (`Known`),
`Attached` in a form without the search for a member (`Linked`), and that a chat
in the queue is the packet of what was typed (`Sent`).  The search takes the first
member that fits; that there is a first one is `LeastExists`, from the well-founded
order of the naturals.  Types depend on the codec: a row of the member list adds
a name to the members only because the packet is read as it was written.

The four invariants about chats need more (`ChatInv`): that packets are processed in
the order in which they come, so that the queue is what of `came` is not processed
(`Queued`); that a member's window is the last one of its name, and that nothing waits
for a member who has one (`Latest`), without which a window opened again could show an
old text behind a newer one; and that whatever is shown or waits has been processed and
is a chat (`Handled`).  For `FreedOnce` each step is summed up as packets that go from
one place to another (`Goes`); for the rest, as a chat that is added to a window or a
shelf (`Adds`), a window that takes what waits (`Opens`), a new member (`NewMember`), or
none of these (`SameChats`).

`ServerProofs` proves, for any number of clients, packets, events and ticks, any
names, members and idle time (`ServerAssumption`):

- `TimeoutOrderCorrect`, `EventsLiveCorrect`, `NoLostEventCorrect`: three invariants
  of the runs of `MCServer`;
- `ClearedAllCorrect`: the action property `ClearedAll`.

`IInv` says of the list that it holds the open peers once each in the order of their
stamps (`Ordered`), that no stamp is later than the clock, nor, while peers are accepted,
than `now`, the stamp a new peer is put at the end with; and of a batch that it names a
peer once, an allocated one, and that there is none between batches.  Two lemmas about
sequences carry the rest: to take a peer out of an ordered list and to put one at its
end with the latest stamp leave it ordered (`OrderedRemove`, `OrderedAppend`).

`ServerAccountProofs` builds on that invariant and proves, with no assumption but
`ServerAssumption`:

- `TypeCorrect`, `ChatsInOrderCorrect`: two invariants of `server_routing`;
- `MembersToAskerCorrect`: the action property `MembersToAsker`;

and, if a client logs in once on a connection at most (`LoginsPerPeer <= 1`, which a
client may break, as `ball_relogin` shows):

- `AccountsKnowPeersCorrect`, `AnsweredFirstCorrect`: two more of its invariants;
- `RightRecipientCorrect`: the action property `RightRecipient`, if besides no name
  begins with another (`PrefixOf = {}`, without which `server_prefix` breaks it);
- `Refinement`: `Server` implements `Directory`.

`StepIs` sorts the steps of `Server` into six kinds, of which only three touch accounts
or send something; `BranchIs` sorts the ends a message may come to.  Of `GInv`, for any
clients, the heart is `TableInv`: an account in the table is one there is, once, and the
account a peer points to is its own and in the table.  It does not say that an account
in the table has a peer, which is not true of a client that logs in twice.  While the member list is sent the
account of the login is the newest (`ListInv`), so that the search for its name stops there.
A chat that was sent on had been read (`ChatInv`).  `LInv`, for clients
that log in once, adds that a peer has an account only if its LOGIN was read
(`AccountRead`), so that a second account of the same peer would take a second LOGIN;
hence each account has its peer (`LiveInv`).  Under both invariants, `send_message` may
leave any part of the queue behind: what a peer was sent and is to be sent grows by the
packet (`SendIs`).

`ClientProofs` proves, for any number of threads, packets, names and members
(`ClientAssumption`):

- `TypeCorrect`, `OutCorrect`, `InCorrect`, `PanelCorrect`: the invariants of the run
  `client_hasty`, for every user;
- `LoggedInCorrect`, `SenderCorrect`: both invariants of the run `client_patient`, for
  a user who waits (`~Hasty`, without which neither is true).

A step of the client queues a packet, or moves all of `message_need_sended` to the
`Lane` of one thread, what it has sent and what it still holds, or does neither
(`StepOut`); partial sends move packets within a lane.  For the waiting user
`PatientInv` adds that one thread runs at most, the last one started (`TurnInv`); that
the lanes are therefore blocks of what was queued, one after the other (`BlockInv`);
that a running thread has its LOGIN in its lane or still to take (`LoginInv`); and
that `loginName` stays once there is a main panel, and before that changes only where
a LOGIN follows (`NameInv`), which needs that a raised flag has a thread as long as
there is no main panel.  The bounds of `client_patient`, two threads, would not be
enough to trust `SenderIsAccount`: LOGINs that failed threads leave behind add up.

On the way in (`InInv`), what was collected, `handled`, `wait` and `coming` one behind
the other, and behind it the list of a thread, hold each packet the thread has read
once and in order.  `ClientInv` joins this with the way out, the places of all threads
(`Kinds`), what the server has said (`SaidInv`: what `Promise` allows puts a success
before every member) and the panels (`UserInv`: a success that was handled has made the
main panel).  A member that is handled has its success before it on the same
connection, hence handled before it, and so finds the main panel.

`ListHeapProofs` proves, for any sets of heads, entries and chains:

- `RingsCorrect`, `PointedBackCorrect`: both invariants of the run `lists`;
- `ListsRefine`: `ListHeap` implements `Lists`.

`ListInv` (`ListInvariance`) says that there is a sequence of entries for each
initialised head such that `next` goes from the head through it and back to the head
and `prev` the other way (`RingInv`); that a chain of `hlist` goes through its sequence
and ends, each `pprev` naming the field that points to the entry (`ChainInv`); and that
an entry is in one of these sequences at most, once.  Each function of `list.h` is then a
lemma from such sequences to such sequences: one entry put in, taken out or replaced, two
sequences joined, one cut.  A walk finds the sequence (`RingWalk`), so that the operations
on pointers are those of `Lists`.

`BallProofs` proves, for any number of threads, chats, names and members
(`ClientAssumption`, `BallAssumption`):

- `ClientIsServed`: the property `ServerSpec` of the run `ball`, for every user.  So the
  theorems about `Server` hold of the server in `Ball` too; its constants are as
  `Server` assumes (`ServerAssumed`);
- `ServerKeepsPromise`: the property `ClientSpec` of that run, for every user: as long as
  no account leads to a freed peer, the server keeps to what `Client` assumes of it;
- `ShownCorrect`: the invariant `ShownOnceInOrder` of that run, for a user who waits.

`BallInv` (`BallInvariance`) joins the invariants of `ClientProofs` with the types of
what goes from one program to the other (`MainType`, `HeardInv`), and says that one
LOGIN at most was queued for each thread that was started (`CountInv`); that a packet
is queued only when the name is known, and a chat only if there is a member (`AskInv`);
and that what the server was sent on a connection is the beginning of what the thread
wrote, all of it while both ends are there (`ConnInv`).  Since a packet is on one wire at
the most (`WiresApart`), no connection has more LOGINs than there are threads, and all of
them together no more packets than were queued (`Bounded`), the bounds of `Server`.
A thread that writes is then `ClientSend`, one that ends `ClientClose`.

`TalkInv` follows a packet on its way back: what the server writes to a peer has the
chats of each connection in the order they were read (`StreamInv`), each as it was read
(`EchoInv`), what the client was told is the beginning of it (`SpokenInv`), and a
connection that is not yet made has been written nothing (`UseInv`).

For `ServerKeepsPromise` the invariants of the server alone come in
(`PromiseInvariance` of `ServerAccountProofs`, through `ClientIsServed`): no more answers
were written to a peer than it had LOGINs read, every row of the member list is behind
those before it and a success, and every chat behind a success while all accounts have
their peers (`PromiseInv`).  The last needs that the peer of each account that can be
looked up was told of a success and is open or freed (`ToldInv`), and that one that was
freed is not open again.  So the packets written to a thread are few: the answers no more than
the threads, the members no more than the answers times the length of the list, the
chats no more than were written, since each has its own place on a wire
(`StreamFits`).  `Longer` reaches them packet after packet (`LongerReaches`), because
each beginning of what keeps the promise keeps it (`PrefixKeeps`).

For `ShownOnceInOrder`, `TurnsInv` adds that what one thread hears is older than all that
is written to a later one (`OrderInv`), and that what threads have collected is in the
order of the threads (`WayInv`).  Both need threads that run one after the other
(`TurnInv`).

Only model-checked: all liveness (`AllDelivered`, `IdleEvicted`, `Served`, `Settles`),
which is out of the prover's reach, as is ENABLED.
Where a proof needs an induction, over the bursts of
`Longer` or along a walk, it takes the least number that fails (`LeastExists`) and
not the induction rules of the library.

## Not modelled

- `gui/register_panel.c` is not compiled; the construction of widgets has no state;
  the test code in `chart_panel.c`, `gui_client.c` and `main_panel.c` is not called.
- `db_proc.c`: the queries are a choice of their result.  The functions that nothing
  calls are left out, and so are the connections the others leave open: to relate
  them to the 300 entries of `peer_info_pool` needs descriptors as state.
- Memory: what is allocated and never freed has no effect a property could state.
- The output of `present_message` and the messages on stderr.

## Plan

Done: `Transport`, `Server`, `Client`, `Codec`, `ChartPanel` and `ListHeap`, each with
proofs of all its invariants, the abstract `FifoChannel`, `Directory` and `Lists` with
proofs that they are implemented, and `Ball` with proofs of its invariant and of both its
refinements.

1. `ServerFds`: descriptors of clients and of database connections against the 300
   entries of the pool and the limit of the process.
