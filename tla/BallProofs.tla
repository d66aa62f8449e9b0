------------------------------- MODULE BallProofs -------------------------------
(***************************************************************************)
(* Theorems about Ball, a client and the server together, for any number   *)
(* of threads, chats, names and members.                                   *)
(***************************************************************************)
EXTENDS Ball, ClientProofs, FiniteSetTheorems

LEMMA Constants ==
    /\ MaxThreads \in Nat \ {0} /\ MaxChats \in Nat /\ Len(MemberList) \in Nat
    /\ MemberList \in Seq(Names) /\ Listen \notin Threads
<1>1. MemberList \in Seq(Names)
  BY ClientAssumption
<1> QED BY <1>1, ClientAssumption, BallAssumption, LenProperties

(* What module Server assumes of its constants.                            *)
THEOREM ServerAssumed == S!ServerAssumption
<1>1. MaxPackets \in Nat \ {0} /\ 0 \in Nat /\ MaxThreads \in Nat
      /\ MaxThreads + 1 \in Nat \ {0}
  BY Constants DEF MaxPackets
<1>2. [n \in Names |-> MemberList] \in [Names -> Seq(Names)]
  BY Constants
<1>3. Listen \notin Threads /\ PrefixOf \subseteq Names \X Names
  BY BallAssumption
<1> HIDE DEF MaxPackets
<1> QED BY <1>1, <1>2, <1>3 DEF S!ServerAssumption

-----------------------------------------------------------------------------
(* Steps of the two programs.                                              *)

(* What is not a step of the server is one of the client, or none that     *)
(* the client knows of.                                                    *)
LEMMA Sides == ASSUME [BallNext]_ballVars PROVE [Next]_vars \/ ServerStep
<1>1. CASE UNCHANGED ballVars
  BY <1>1 DEF ballVars
<1>2. CASE GuiStep
  BY <1>2 DEF GuiStep, InGui, Next
<1>3. ASSUME NEW t \in Threads, ThreadConnects(t) \/ ThreadRefused(t) \/ ThreadStep(t)
      PROVE  Next
  <2>1. alive /\ Transfer(t)
    BY <1>3 DEF ThreadConnects, ThreadRefused, ThreadStep, Transfer
  <2> QED BY <2>1 DEF Next
<1>4. ASSUME NEW t \in Threads, SocketDrains(t) PROVE Next
  <2>1. alive /\ Drain(t)
        /\ UNCHANGED <<flag, need, coming, guiVars, tpc, ev, asked, outVars, inVars, alive>>
    BY <1>4 DEF SocketDrains, guiVars, panelVars, outVars, inVars
  <2> QED BY <2>1 DEF Next, Outside
<1>5. ASSUME NEW t \in Threads, ServerGone(t) PROVE Next
  <2>1. alive /\ ServerClose(t)
        /\ UNCHANGED <<flag, need, coming, guiVars, tpc, ev, asked, outVars, inVars, alive>>
    BY <1>5 DEF ServerGone, ServerClose, clientOwn, guiVars, panelVars, outVars, inVars
  <2> QED BY <2>1 DEF Next, Outside
<1>6. ASSUME NEW t \in Threads, ClientGone(t) PROVE UNCHANGED vars
  BY <1>6 DEF ClientGone
<1> QED BY <1>1, <1>2, <1>3, <1>4, <1>5, <1>6 DEF BallNext

(* A step of the server is no step of the client's own.                    *)
LEMMA ServerLeaves ==
    ASSUME ServerStep
    PROVE  /\ UNCHANGED <<alive, flag, need, coming, gpc, wait, loginName, mainPanel>>
           /\ UNCHANGED <<connStatus, peers, tpc, ev, outq, inlist, outEvent, full>>
           /\ UNCHANGED <<asked, wire, nin, handled>>
           /\ UNCHANGED <<sent, hup>> /\ S!Main
  BY DEF ServerStep, clientOwn

-----------------------------------------------------------------------------
(* What goes out of the client.                                            *)

LEMMA BallOut ==
    ASSUME OutType, [BallNext]_ballVars
    PROVE  OutType' /\ \/ Rest \/ Queued
                       \/ \E t \in Threads : tpc[t] = "splice" /\ Taken(t)
<1>1. CASE [Next]_vars
  BY <1>1, StepOut
<1>2. CASE ServerStep
  BY <1>2, ServerLeaves, OutKept
<1> QED BY <1>1, <1>2, Sides

LEMMA OutKeeps == ASSUME IInv, [BallNext]_ballVars PROVE IInv'
  BY BallOut, RestKeeps, QueuedKeeps, TakenKeeps DEF IInv

-----------------------------------------------------------------------------
(* What the server reads and writes.                                       *)

Rowed == {MemberList[i] : i \in 1..Len(MemberList)}

(* There is nobody to write to without a member.                           *)
Written == IF MemberList = <<>> THEN {}
           ELSE [type : {"CHART"}, to : Names, id : Threads \X (Nat \ {0})]
FromClient == [type : {"LOGIN"}, name : Names] \cup Written
FromServer == {Ok, Failed} \cup [type : {"PEER_LIST"}, name : Rowed] \cup Written

Sockets == Threads \cup {Listen}

MainType ==
    /\ batch \subseteq Sockets /\ ready \subseteq Sockets /\ cur \in Sockets
    /\ pc \in {"read", "list"} => cur \in Threads
    /\ state \in [Threads -> {"none", "backlog", "open", "gone"}]
    /\ hup \in [Threads -> BOOLEAN]
    /\ sent \in [Threads -> Seq(FromClient)]
    /\ nread \in [Threads -> Nat]
    /\ rows \in Seq(Rowed)
    /\ oq \in [Threads -> Seq(FromServer)] /\ swire \in [Threads -> Seq(FromServer)]

LEMMA RowedAre == Rowed \subseteq Names /\ MemberList \in Seq(Rowed)
<1>1. MemberList \in Seq(Names) /\ Len(MemberList) \in Nat
  BY Constants
<1>2. MemberList = [i \in 1..Len(MemberList) |-> MemberList[i]]
  BY <1>1
<1>3. \A i \in 1..Len(MemberList) : MemberList[i] \in Names /\ MemberList[i] \in Rowed
  BY <1>1, ElementOfSeq DEF Rowed
<1> QED BY <1>1, <1>2, <1>3, IsASeq DEF Rowed

LEMMA Joins ==
    ASSUME NEW w \in Seq(FromServer), NEW a \in Seq(FromServer), NEW b \in Seq(FromServer)
    PROVE  (w \o a) \o b = w \o (a \o b)
BY ConcatAssociative, SMTT(60)

(* A packet is put behind the others of a peer, and some may go out.       *)
LEMMA SendIs ==
    ASSUME oq \in [Threads -> Seq(FromServer)], swire \in [Threads -> Seq(FromServer)],
           NEW p, NEW m \in FromServer, S!Send(p, m)
    PROVE  /\ oq' \in [Threads -> Seq(FromServer)] /\ swire' \in [Threads -> Seq(FromServer)]
           /\ \A u \in Threads : u # p => swire'[u] = swire[u] /\ oq'[u] = oq[u]
           /\ p \in Threads =>
                 /\ swire'[p] \o oq'[p] = Append(swire[p] \o oq[p], m)
                 /\ Len(swire[p]) <= Len(swire'[p])
                 /\ \A i \in 1..Len(swire[p]) : swire'[p][i] = swire[p][i]
<1> DEFINE q == Append(oq[p], m)
<1>1. PICK k \in 0..Len(q) :
        /\ swire' = [swire EXCEPT ![p] = swire[p] \o SubSeq(q, 1, k)]
        /\ oq' = [oq EXCEPT ![p] = SubSeq(q, k + 1, Len(q))]
  BY DEF S!Send, S!AddTail
<1>2. CASE p \notin Threads
  <2>1. swire' = swire /\ oq' = oq
    BY <1>1, <1>2
  <2> QED BY <2>1, <1>2
<1>3. CASE p \in Threads
  <2> DEFINE a == SubSeq(q, 1, k)
             b == SubSeq(q, k + 1, Len(q))
             w == swire[p]
  <2>1. q \in Seq(FromServer) /\ w \in Seq(FromServer) /\ oq[p] \in Seq(FromServer)
    BY <1>3, AppendProperties
  <2>2. a \in Seq(FromServer) /\ b \in Seq(FromServer) /\ a \o b = q
    <3> HIDE DEF q
    <3> QED BY <2>1, CutParts
  <2>3. swire'[p] = w \o a /\ oq'[p] = b
        /\ \A u \in Threads : u # p => swire'[u] = swire[u] /\ oq'[u] = oq[u]
    BY <1>1, <1>3
  <2> HIDE DEF a, b
  <2>4. (w \o a) \o b = Append(w \o oq[p], m)
    <3>1. (w \o a) \o b = w \o q
      <4> HIDE DEF w, q
      <4>1. (w \o a) \o b = w \o (a \o b)
        BY <2>1, <2>2, Joins, ZenonT(30)
      <4> QED BY <4>1, <2>2
    <3>2. w \o Append(oq[p], m) = Append(w \o oq[p], m)
      <4>1. w \o oq[p] \in Seq(FromServer) /\ <<m>> \in Seq(FromServer)
        BY <2>1, ConcatProperties
      <4>2. Append(oq[p], m) = oq[p] \o <<m>> /\ Append(w \o oq[p], m) = (w \o oq[p]) \o <<m>>
        BY <2>1, <4>1, AppendIsConcat
      <4>3. (w \o oq[p]) \o <<m>> = w \o (oq[p] \o <<m>>)
        <5> DEFINE o == oq[p]
                   e == <<m>>
        <5>1. o \in Seq(FromServer) /\ e \in Seq(FromServer)
          BY <2>1, <4>1
        <5> HIDE DEF w, o, e
        <5>2. (w \o o) \o e = w \o (o \o e)
          BY <2>1, <5>1, Joins, ZenonT(30)
        <5> QED BY <5>2 DEF o, e
      <4> QED BY <4>2, <4>3
    <3> QED BY <3>1, <3>2
  <2>5. w \o a \in Seq(FromServer) /\ Len(w) <= Len(w \o a)
        /\ \A i \in 1..Len(w) : (w \o a)[i] = w[i]
    <3>1. Len(w) \in Nat /\ Len(a) \in Nat
      BY <2>1, <2>2, LenProperties
    <3> QED BY <2>1, <2>2, <3>1, ConcatProperties
  <2>6. swire' = [swire EXCEPT ![p] = w \o a] /\ oq' = [oq EXCEPT ![p] = b]
    BY <1>1 DEF a, b
  <2> HIDE DEF w, q
  <2>7. swire' \in [Threads -> Seq(FromServer)] /\ oq' \in [Threads -> Seq(FromServer)]
    BY <2>2, <2>5, <2>6
  <2> QED BY <2>3, <2>4, <2>5, <2>7 DEF w
<1> QED BY <1>2, <1>3

(* A step of the server reads a packet or none, and writes one or none; a  *)
(* chat it writes is the one it has read.                                  *)
Reads ==
    /\ cur \in Threads /\ nread[cur] < Len(sent[cur])
    /\ nread' = [nread EXCEPT ![cur] = nread[cur] + 1]
Writes(m) ==
    /\ \E p : (p = cur \/ state[p] = "open") /\ S!Send(p, m)
    /\ m \in Written => Reads /\ m = sent[cur][nread[cur] + 1]
Silent == UNCHANGED <<oq, swire>>

LEMMA SendToIs ==
    ASSUME NEW a, NEW m, NEW next, S!SendTo(a, m, next)
    PROVE  /\ Silent \/ \E p : state[p] = "open" /\ S!Send(p, m)
           /\ pc' \in {next, "killed"}
<1> DEFINE p == accts[a].conn
<1>1. CASE state[p] = "open" /\ S!SendAndGo(p, m, next)
  BY <1>1 DEF S!SendAndGo
<1>2. CASE state[p] # "open" /\ pc' \in {next, "killed"} /\ UNCHANGED <<oq, swire>>
  BY <1>2 DEF Silent
<1>3. CASE state[p] # "open" /\ \E q \in S!Open : S!SendAndGo(q, m, next)
  BY <1>3 DEF S!SendAndGo, S!Open
<1> QED BY <1>1, <1>2, <1>3 DEF S!SendTo, S!outVars

LEMMA AnswersAre ==
    /\ [type |-> "LOGIN_RESPOND", ok |-> TRUE] = Ok
    /\ [type |-> "LOGIN_RESPOND", ok |-> FALSE] = Failed
    /\ Ok \in FromServer /\ Failed \in FromServer /\ Ok \notin Written /\ Failed \notin Written
    /\ \A r \in Rowed : /\ [type |-> "PEER_LIST", name |-> r] \in FromServer
                        /\ [type |-> "PEER_LIST", name |-> r] \notin Written
<1>1. \A m \in Written : m.type = "CHART"
  BY DEF Written
<1>2. Ok.type = "LOGIN_RESPOND" /\ Failed.type = "LOGIN_RESPOND"
      /\ \A r \in Rowed : [type |-> "PEER_LIST", name |-> r].type = "PEER_LIST"
  BY DEF Ok, Failed
<1> QED BY <1>1, <1>2 DEF Ok, Failed, FromServer

LEMMA ReadMessageIs ==
    ASSUME MainType, S!ReadMessage
    PROVE  /\ Reads /\ (Silent \/ \E m \in FromServer : Writes(m))
           /\ rows' \in Seq(Rowed) /\ pc' \in {"read", "list", "killed"}
<1> DEFINE m == sent[cur][nread[cur] + 1]
<1>1. Reads /\ m \in FromClient
  <2>1. cur \in Threads /\ nread[cur] < Len(sent[cur])
        /\ nread' = [nread EXCEPT ![cur] = nread[cur] + 1]
    BY DEF S!ReadMessage, S!Unread, MainType
  <2>2. sent[cur] \in Seq(FromClient) /\ nread[cur] \in Nat
    BY <2>1 DEF MainType
  <2>3. Len(sent[cur]) \in Nat
    BY <2>2, LenProperties
  <2>4. nread[cur] + 1 \in 1..Len(sent[cur])
    BY <2>1, <2>2, <2>3
  <2>5. sent[cur][nread[cur] + 1] \in FromClient
    BY <2>2, <2>4, ElementOfSeq
  <2> QED BY <2>1, <2>5 DEF Reads
<1>2. CASE m.type = "LOGIN" /\ S!Login(m)
  <2>1. m.name \in Names
    <3>1. \A w \in Written : w.type # "LOGIN"
      BY DEF Written
    <3> QED BY <3>1, <1>1, <1>2 DEF FromClient
  <2>2. rows' = rows \/ rows' = <<>> \/ rows' = MemberList
    BY <1>2, <2>1 DEF S!Login
  <2>3. rows' \in Seq(Rowed)
    BY <2>2, RowedAre, EmptySeq DEF MainType
  <2>4. \E w \in {Ok, Failed} : S!Send(cur, w) /\ pc' \in {"read", "list", "killed"}
    BY <1>2, AnswersAre DEF S!Login, S!SendAndGo
  <2>5. PICK w \in {Ok, Failed} : S!Send(cur, w) /\ pc' \in {"read", "list", "killed"}
    BY <2>4
  <2>6. w \in FromServer /\ w \notin Written
    BY AnswersAre
  <2>7. Writes(w)
    BY <2>5, <2>6 DEF Writes
  <2> QED BY <1>1, <2>3, <2>5, <2>6, <2>7
<1>3. CASE m.type = "CHART" /\ S!Chart(m)
  <2>1. m \in Written /\ m \in FromServer
    BY <1>1, <1>3 DEF FromClient, FromServer
  <2>2. rows' \in Seq(Rowed)
    BY <1>3 DEF S!Chart, MainType
  <2>3. (Silent \/ \E p : state[p] = "open" /\ S!Send(p, m)) /\ pc' \in {"read", "killed"}
    <3>1. CASE pc' = "read" /\ UNCHANGED S!outVars
      BY <3>1 DEF S!outVars, Silent
    <3>2. CASE S!SendTo(S!Lookup(m.to), m, "read")
      <4> HIDE DEF m
      <4> QED BY <3>2, SendToIs
    <3> QED BY <3>1, <3>2, <1>3 DEF S!Chart
  <2>4. CASE Silent
    BY <2>4, <1>1, <2>2, <2>3
  <2>5. CASE \E p : state[p] = "open" /\ S!Send(p, m)
    <3>1. Writes(m)
      BY <2>5, <1>1 DEF Writes
    <3> QED BY <3>1, <1>1, <2>1, <2>2, <2>3
  <2> QED BY <2>3, <2>4, <2>5
<1> QED BY <1>2, <1>3 DEF S!ReadMessage

LEMMA PeerListIs ==
    ASSUME MainType, S!PeerList
    PROVE  /\ nread' = nread /\ (Silent \/ \E m \in FromServer : Writes(m))
           /\ rows' \in Seq(Rowed) /\ pc' \in {"list", "killed"}
<1> DEFINE m == [type |-> "PEER_LIST", name |-> Head(rows)]
           a == S!Lookup(accts[account[cur]].name)
<1>1. S!SendTo(a, m, "list") /\ nread' = nread /\ rows' = Tail(rows) /\ rows # <<>>
  BY DEF S!PeerList
<1>2. Head(rows) \in Rowed /\ Tail(rows) \in Seq(Rowed)
  BY <1>1, HeadTailProperties DEF MainType
<1>3. m \in FromServer /\ m \notin Written
  BY <1>2, AnswersAre
<1> HIDE DEF m, a
<1>4. (Silent \/ \E p : state[p] = "open" /\ S!Send(p, m)) /\ pc' \in {"list", "killed"}
  BY <1>1, SendToIs
<1>5. Silent \/ Writes(m)
  BY <1>3, <1>4 DEF Writes
<1> QED BY <1>1, <1>2, <1>3, <1>4, <1>5

(* Nothing is read or written in any other step.                           *)
LEMMA OtherwiseSilent ==
    ASSUME S!Main, ~S!ReadMessage, ~S!PeerList
    PROVE  Silent /\ nread' = nread /\ rows' = rows
  BY DEF S!Main, S!SigAlarm, S!CheckTimeout, S!ClearPeer, S!ClearDone, S!Enter, S!EpollWait,
         S!HandleEvent, S!BatchDone, S!Accept, S!AcceptAgain, S!AcceptError, S!PeerListDone,
         S!ReadAgain, S!ReadFail, S!loopVars, S!outVars, Silent

(* Peers are made, accepted and destroyed, in this order.                  *)
Moves ==
    \A t \in Threads : \/ state'[t] = state[t]
                       \/ state[t] = "backlog" /\ state'[t] = "open"
                       \/ state'[t] = "gone"

LEMMA DestroyIs ==
    ASSUME MainType, NEW p, S!Destroy(p)
    PROVE  /\ state' \in [Threads -> {"none", "backlog", "open", "gone"}]
           /\ Moves /\ ready' \subseteq Sockets
  BY DEF S!Destroy, S!Unwatched, MainType, Moves

LEMMA MainControl ==
    ASSUME MainType, S!Main
    PROVE  /\ pc # "killed" /\ Moves
           /\ state' \in [Threads -> {"none", "backlog", "open", "gone"}]
           /\ batch' \subseteq Sockets /\ ready' \subseteq Sockets /\ cur' \in Sockets
           /\ pc' \in {"read", "list"} => cur' \in Threads
<1>1. CASE S!ReadMessage \/ S!PeerList
  <2>1. pc # "killed" /\ state' = state /\ batch' = batch /\ ready' = ready /\ cur' = cur
        /\ pc \in {"read", "list"}
    BY <1>1 DEF S!ReadMessage, S!PeerList
  <2> QED BY <2>1 DEF MainType, Moves
<1>2. CASE S!ClearPeer
  <2>1. pc # "killed" /\ S!Destroy(Head(timeout_list)) /\ batch' = batch /\ cur' = cur /\ pc' = pc
    BY <1>2 DEF S!ClearPeer, S!loopVars
  <2> QED BY <2>1, DestroyIs DEF MainType
<1>3. CASE S!ReadFail
  <2>1. pc # "killed" /\ S!Destroy(cur) /\ batch' = batch /\ cur' = cur /\ pc' = "batch"
    BY <1>3 DEF S!ReadFail
  <2> QED BY <2>1, DestroyIs DEF MainType
<1>4. CASE \E p \in Threads : S!Accept(p)
  <2>1. PICK p \in Threads : S!Accept(p)
    BY <1>4
  <2>2. pc = "accept" /\ state[p] = "backlog" /\ state' = [state EXCEPT ![p] = "open"]
        /\ ready' \subseteq ready \cup {p} /\ batch' = batch /\ cur' = cur /\ pc' = pc
    BY <2>1 DEF S!Accept
  <2> QED BY <2>2 DEF MainType, Moves, Sockets
<1>5. CASE S!EpollWait \/ S!HandleEvent
  <2>1. pc # "killed" /\ state' = state
    BY <1>5 DEF S!EpollWait, S!HandleEvent
  <2>2. /\ batch' \subseteq batch \cup ready /\ ready' \subseteq ready
        /\ cur' \in batch \cup {cur} /\ (pc' = "read" => cur' # Listen)
        /\ pc' \in {"batch", "accept", "read"}
    BY <1>5 DEF S!EpollWait, S!HandleEvent
  <2> QED BY <2>1, <2>2 DEF MainType, Moves, Sockets
<1>6. CASE ~S!ReadMessage /\ ~S!PeerList /\ ~S!ClearPeer /\ ~S!ReadFail
           /\ (\A p \in Threads : ~S!Accept(p)) /\ ~S!EpollWait /\ ~S!HandleEvent
  <2>1. /\ pc # "killed" /\ state' = state /\ batch' = batch /\ ready' = ready /\ cur' = cur
        /\ pc' \in {"read", "list"} => pc \in {"read", "list"}
    BY <1>6
    DEF S!Main, S!SigAlarm, S!Unblocked, S!CheckTimeout, S!ClearDone, S!Enter, S!BatchDone,
        S!AcceptAgain, S!AcceptError, S!PeerListDone, S!ReadAgain
  <2> QED BY <2>1 DEF MainType, Moves
<1> QED BY <1>1, <1>2, <1>3, <1>4, <1>5, <1>6

LEMMA MainKeeps ==
    ASSUME MainType, S!Main, sent' = sent, hup' = hup PROVE MainType'
<1>1. \/ Silent /\ nread' = nread /\ rows' = rows
      \/ /\ nread' = nread \/ Reads
         /\ Silent \/ \E m \in FromServer : Writes(m)
         /\ rows' \in Seq(Rowed)
  BY ReadMessageIs, PeerListIs, OtherwiseSilent
<1>2. nread' \in [Threads -> Nat] /\ rows' \in Seq(Rowed)
  BY <1>1 DEF MainType, Reads
<1>3. oq' \in [Threads -> Seq(FromServer)] /\ swire' \in [Threads -> Seq(FromServer)]
  <2>1. CASE Silent
    BY <2>1 DEF Silent, MainType
  <2>2. ASSUME NEW m \in FromServer, Writes(m) PROVE <1>3
    BY <2>2, SendIs DEF Writes, MainType
  <2> QED BY <2>1, <2>2, <1>1
<1> QED BY <1>2, <1>3, MainControl DEF MainType

-----------------------------------------------------------------------------
(* Every thread has one LOGIN queued for it, and the chats are few.        *)

AskedLogins == {k \in 1..Len(asked) : asked[k].type = "LOGIN"}
Pending == IF gpc = "starting" THEN 1 ELSE 0

CountInv ==
    /\ Cardinality(AskedLogins) + Pending <= Cardinality(Started)
    /\ Cardinality(Chats) <= MaxChats
    /\ \A k \in 1..Len(asked) : asked[k].type \in {"LOGIN", "CHART"}

LEMMA FiniteAsked ==
    ASSUME OutType
    PROVE  /\ Len(asked) \in Nat /\ IsFiniteSet(1..Len(asked))
           /\ IsFiniteSet(AskedLogins) /\ Cardinality(AskedLogins) \in Nat
           /\ IsFiniteSet(Chats) /\ Cardinality(Chats) \in Nat
           /\ IsFiniteSet(Started) /\ Cardinality(Started) \in Nat
           /\ Cardinality(Started) <= MaxThreads
<1>1. Len(asked) \in Nat
  BY LenProperties DEF OutType
<1>0. MaxThreads \in Int /\ Len(asked) \in Int /\ 1 \in Int /\ ~(1 > MaxThreads)
      /\ MaxThreads - 1 + 1 = MaxThreads
  BY <1>1, Constants
<1>2. /\ IsFiniteSet(1..Len(asked)) /\ IsFiniteSet(1..MaxThreads)
      /\ Cardinality(1..MaxThreads) = MaxThreads
  <2>1. IsFiniteSet(1..Len(asked)) /\ IsFiniteSet(1..MaxThreads)
    BY <1>0, FS_Interval
  <2>2. Cardinality(1..MaxThreads) = IF 1 > MaxThreads THEN 0 ELSE MaxThreads - 1 + 1
    BY <1>0, FS_Interval
  <2> QED BY <1>0, <2>1, <2>2
<1>3. IsFiniteSet(AskedLogins) /\ IsFiniteSet(Chats)
  BY <1>2, FS_Subset DEF AskedLogins, Chats
<1>4. Started \in SUBSET (1..MaxThreads)
  BY DEF Started, Threads
<1>5. IsFiniteSet(Started) /\ Cardinality(Started) <= Cardinality(1..MaxThreads)
  BY <1>2, <1>4, FS_Subset
<1> QED BY <1>1, <1>2, <1>3, <1>5, FS_CardinalityType

(* One packet more.                                                        *)
LEMMA QueueCounts ==
    ASSUME OutType, NEW m, Queue(m), m.type \in {"LOGIN", "CHART"},
           \A k \in 1..Len(asked) : asked[k].type \in {"LOGIN", "CHART"}
    PROVE  /\ m.type = "LOGIN" => /\ Cardinality(AskedLogins') = Cardinality(AskedLogins) + 1
                                  /\ Chats' = Chats
           /\ m.type = "CHART" => /\ Cardinality(Chats') = Cardinality(Chats) + 1
                                  /\ AskedLogins' = AskedLogins
           /\ \A k \in 1..Len(asked') : asked'[k].type \in {"LOGIN", "CHART"}
<1> DEFINE n == Len(asked) + 1
<1>1. PICK X : asked \in Seq(X)
  BY DEF OutType
<1>2. /\ Len(asked) \in Nat /\ Len(asked') = n /\ asked'[n] = m
      /\ \A k \in 1..Len(asked) : asked'[k] = asked[k]
  BY <1>1, AppendOf, LenProperties DEF Queue
<1>3. 1..n = (1..Len(asked)) \cup {n} /\ n \notin 1..Len(asked)
  BY <1>2
<1> HIDE DEF n
<1>4. CASE m.type = "LOGIN"
  <2>1. AskedLogins' = AskedLogins \cup {n} /\ n \notin AskedLogins /\ Chats' = Chats
    BY <1>2, <1>3, <1>4 DEF AskedLogins, Chats
  <2>2. Cardinality(AskedLogins \cup {n}) = Cardinality(AskedLogins) + 1
    BY <2>1, FiniteAsked, FS_AddElement
  <2> QED BY <2>1, <2>2, <1>2, <1>3, <1>4
<1>5. CASE m.type = "CHART"
  <2>1. Chats' = Chats \cup {n} /\ n \notin Chats /\ AskedLogins' = AskedLogins
    BY <1>2, <1>3, <1>5 DEF AskedLogins, Chats
  <2>2. Cardinality(Chats \cup {n}) = Cardinality(Chats) + 1
    BY <2>1, FiniteAsked, FS_AddElement
  <2> QED BY <2>1, <2>2, <1>2, <1>3, <1>5
<1> QED BY <1>4, <1>5

(* A thread is started only when there is none being started.              *)
LEMMA StartCounts ==
    ASSUME OutType, Kinds, gpc # "starting", Start
    PROVE  Pending' + Cardinality(Started) <= Cardinality(Started')
<1>1. CASE UNCHANGED <<flag, tpc, gpc>>
  <2>1. Pending' = 0 /\ Started' = Started
    BY <1>1 DEF Pending, Started
  <2> QED BY <2>1, FiniteAsked
<1>2. CASE \E t \in Threads : tpc[t] = "none" /\ tpc' = [tpc EXCEPT ![t] = "connect"]
  <2>1. PICK t \in Threads : tpc[t] = "none" /\ tpc' = [tpc EXCEPT ![t] = "connect"]
    BY <1>2
  <2>2. Started' = Started \cup {t} /\ t \notin Started
    BY <2>1 DEF Kinds, Started
  <2>3. Cardinality(Started \cup {t}) = Cardinality(Started) + 1
    BY <2>2, FiniteAsked, FS_AddElement
  <2>4. Pending' \in {0, 1}
    BY DEF Pending
  <2> QED BY <2>2, <2>3, <2>4, FiniteAsked
<1> QED BY <1>1, <1>2 DEF Start

LEMMA StartedStay ==
    ASSUME OutType, Onward PROVE Cardinality(Started) <= Cardinality(Started')
<1>1. Started \subseteq Started' /\ Started' \subseteq 1..MaxThreads
  BY DEF Onward, Started, Threads
<1>2. IsFiniteSet(1..MaxThreads)
  BY Constants, FS_Interval
<1>3. IsFiniteSet(Started')
  BY <1>1, <1>2, FS_Subset
<1> QED BY <1>1, <1>3, FS_Subset

LEMMA GuiCounts == ASSUME OutType, Kinds, CountInv, Gui PROVE CountInv'
<1>0. Onward /\ Cardinality(Started) \in Nat /\ Cardinality(AskedLogins) \in Nat
      /\ Cardinality(Started) <= Cardinality(Started')
  BY GuiKinds, FiniteAsked, StartedStay
<1>1. CASE Relogin
  <2> DEFINE m == [type |-> "LOGIN", name |-> loginName, thread |-> LastThread]
  <2>1. Queue(m) /\ m.type = "LOGIN" /\ Pending = 1 /\ Pending' = 0 /\ Started' = Started
    BY <1>1 DEF Relogin, Pending, Started
  <2> HIDE DEF m
  <2>2. Cardinality(AskedLogins') = Cardinality(AskedLogins) + 1 /\ Chats' = Chats
        /\ \A k \in 1..Len(asked') : asked'[k].type \in {"LOGIN", "CHART"}
    BY <2>1, QueueCounts DEF CountInv
  <2> QED BY <2>1, <2>2, <1>0 DEF CountInv
<1>2. CASE SendChat
  <2> DEFINE m == [type |-> "CHART", from |-> loginName]
  <2>1. Queue(m) /\ m.type = "CHART" /\ gpc' = gpc /\ tpc' = tpc /\ Cardinality(Chats) < MaxChats
    BY <1>2 DEF SendChat, guiVars
  <2> HIDE DEF m
  <2>2. Cardinality(Chats') = Cardinality(Chats) + 1 /\ AskedLogins' = AskedLogins
        /\ \A k \in 1..Len(asked') : asked'[k].type \in {"LOGIN", "CHART"}
    BY <2>1, QueueCounts DEF CountInv
  <2>3. Pending' = Pending /\ Started' = Started
    BY <2>1 DEF Pending, Started
  <2>4. Cardinality(Chats') <= MaxChats
    BY <2>1, <2>2, FiniteAsked, Constants
  <2> QED BY <2>2, <2>3, <2>4 DEF CountInv
<1>3. CASE Reconnect \/ \E n \in Names : LoginClick(n)
  <2>1. Start /\ gpc = "idle" /\ asked' = asked
    BY <1>3 DEF Reconnect, LoginClick, MayClick
  <2>2. Pending' + Cardinality(Started) <= Cardinality(Started') /\ Pending = 0
    BY <2>1, StartCounts DEF Pending
  <2>3. AskedLogins' = AskedLogins /\ Chats' = Chats
    BY <2>1 DEF AskedLogins, Chats
  <2>4. Pending' \in {0, 1}
    BY DEF Pending
  <2>5. Cardinality(Started') \in Nat
    <3>1. Started' \in SUBSET (1..MaxThreads) /\ IsFiniteSet(1..MaxThreads)
      BY Constants, FS_Interval DEF Started, Threads
    <3> QED BY <3>1, FS_Subset, FS_CardinalityType
  <2> QED BY <2>1, <2>2, <2>3, <2>4, <2>5, <1>0 DEF CountInv
<1>4. CASE ~Relogin /\ ~SendChat /\ ~Reconnect /\ \A n \in Names : ~LoginClick(n)
  <2>1. asked' = asked /\ (gpc' = "starting" => gpc = "starting") /\ tpc' = tpc
    BY <1>4 DEF Gui, User, Disconnect, StatusTimer, Messages, Process, MessageTimer,
       ProcessDone,
                Quit, guiVars
  <2>2. AskedLogins' = AskedLogins /\ Chats' = Chats /\ Started' = Started
    BY <2>1 DEF AskedLogins, Chats, Started
  <2>3. Pending' \in {0, 1} /\ Pending \in {0, 1} /\ Pending' <= Pending
    BY <2>1 DEF Pending
  <2> QED BY <2>1, <2>2, <2>3, <1>0 DEF CountInv
<1> QED BY <1>1, <1>2, <1>3, <1>4

LEMMA CountKeeps ==
    ASSUME OutType, Kinds, CountInv, [Next]_vars \/ ServerStep PROVE CountInv'
<1>1. CASE Gui
  BY <1>1, GuiCounts
<1>2. ASSUME asked' = asked, gpc' = gpc, Onward PROVE CountInv'
  <2>1. AskedLogins' = AskedLogins /\ Chats' = Chats /\ Pending' = Pending
    BY <1>2 DEF AskedLogins, Chats, Pending
  <2>2. Pending \in {0, 1} /\ Cardinality(Started') \in Nat
    <3>1. Started' \in SUBSET (1..MaxThreads) /\ IsFiniteSet(1..MaxThreads)
      BY Constants, FS_Interval DEF Started, Threads
    <3> QED BY <3>1, FS_Subset, FS_CardinalityType DEF Pending
  <2> QED BY <2>1, <2>2, <1>2, FiniteAsked, StartedStay DEF CountInv
<1>3. CASE ServerStep
  <2>1. asked' = asked /\ gpc' = gpc /\ Onward
    BY <1>3, ServerLeaves DEF Onward
  <2> QED BY <2>1, <1>2
<1>4. CASE [Next]_vars /\ ~Gui
  <2>1. asked' = asked /\ gpc' = gpc
    <3>1. CASE UNCHANGED vars
      BY <3>1 DEF vars
    <3>2. ASSUME NEW t \in Threads, Transfer(t) PROVE asked' = asked /\ gpc' = gpc
      BY <3>2
      DEF Transfer, Connected, ConnectFailed, Loop, LoopTop, Exit, CheckNeed, Splice, WaitEvent,
          WaitTimeout, GetFinish, GetDone, Output, Collect, guiVars
    <3>3. ASSUME NEW t \in Threads, Outside(t) PROVE asked' = asked /\ gpc' = gpc
      BY <3>3 DEF Outside, guiVars
    <3> QED BY <3>1, <3>2, <3>3, <1>4 DEF Next
  <2> QED BY <2>1, <1>2, <1>4, StepKinds
<1> QED BY <1>1, <1>3, <1>4

-----------------------------------------------------------------------------
(* What the client hears.                                                  *)

Heards == {Ok, Failed, Chat} \cup [type : {"PEER_LIST"}, name : Rowed]

HeardInv ==
    /\ said \in [Threads -> Seq(Heards)]
    /\ \A t \in Threads : nin[t] <= Len(said[t]) /\ (tpc[t] = "none" => said[t] = <<>>)

LEMMA SeqOf ==
    ASSUME NEW T, NEW n \in Nat, NEW f \in [1..n -> T] PROVE f \in Seq(T) /\ Len(f) = n
<1>1. f \in Seq(T)
  BY SeqDef
<1> QED BY <1>1, LenProperties

LEMMA SwireGrows ==
    ASSUME MainType, S!Main PROVE \A t \in Threads : Len(swire[t]) <= Len(swire'[t])
<1>1. Silent \/ \E m \in FromServer : Writes(m)
  BY ReadMessageIs, PeerListIs, OtherwiseSilent
<1>2. CASE Silent
  <2>1. \A t \in Threads : Len(swire[t]) \in Nat
    BY LenProperties DEF MainType
  <2> QED BY <1>2, <2>1 DEF Silent
<1>3. ASSUME NEW m \in FromServer, Writes(m)
      PROVE  \A t \in Threads : Len(swire[t]) <= Len(swire'[t])
  <2>1. PICK p : S!Send(p, m)
    BY <1>3 DEF Writes
  <2>2. \A u \in Threads : u # p => swire'[u] = swire[u]
    BY <2>1, SendIs DEF MainType
  <2>3. p \in Threads => Len(swire[p]) <= Len(swire'[p])
    BY <2>1, SendIs DEF MainType
  <2>4. \A t \in Threads : Len(swire[t]) \in Nat
    BY LenProperties DEF MainType
  <2> QED BY <2>2, <2>3, <2>4
<1> QED BY <1>1, <1>2, <1>3

LEMMA AtClientIs == \A m \in FromServer : AtClient(m) \in Heards
<1>1. \A m \in Written : m.type = "CHART"
  BY DEF Written
<1>2. Ok.type # "CHART" /\ Failed.type # "CHART"
  BY DEF Ok, Failed
<1> QED BY <1>1, <1>2 DEF FromServer, AtClient, Heards

LEMMA ServerSays ==
    ASSUME MainType, MainType', Kinds, InType, HeardInv, ServerStep
    PROVE  HeardInv' /\ Kinds' /\ Onward
<1>1. UNCHANGED <<tpc, nin>> /\ S!Main
  BY ServerLeaves
<1> DEFINE new(t) == [i \in 1..(Len(swire'[t]) - Len(swire[t])) |->
                         AtClient(swire'[t][Len(swire[t]) + i])]
<1>2. ASSUME NEW t \in Threads
      PROVE  /\ said'[t] = said[t] \/ (Live(t) /\ said'[t] = said[t] \o new(t))
             /\ new(t) \in Seq(Heards)
  <2>1. said'[t] = said[t] \/ (Live(t) /\ said'[t] = said[t] \o new(t))
    BY DEF ServerStep, Served
  <2> DEFINE a == Len(swire[t])
             b == Len(swire'[t])
  <2>2. a \in Nat /\ b \in Nat /\ a <= b /\ swire'[t] \in Seq(FromServer)
    BY <1>1, SwireGrows, LenProperties DEF MainType
  <2>3. \A i \in 1..(b - a) : swire'[t][a + i] \in FromServer
    <3> SUFFICES ASSUME NEW i \in 1..(b - a) PROVE swire'[t][a + i] \in FromServer
      OBVIOUS
    <3>1. a + i \in 1..b
      BY <2>2
    <3> QED BY <2>2, <3>1, ElementOfSeq
  <2>4. new(t) \in [1..(b - a) -> Heards] /\ b - a \in Nat
    <3>1. b - a \in Nat
      BY <2>2
    <3>2. \A i \in 1..(b - a) : AtClient(swire'[t][a + i]) \in Heards
      BY <2>3, AtClientIs
    <3> QED BY <3>1, <3>2
  <2>5. new(t) \in Seq(Heards)
    <3> HIDE DEF new, a, b
    <3> QED BY <2>4, SeqOf
  <2> QED BY <2>1, <2>5
<1> HIDE DEF new
<1>3. said' = [t \in Threads |-> said'[t]]
  BY DEF ServerStep
<1>4. ASSUME NEW t \in Threads
      PROVE  /\ said'[t] \in Seq(Heards) /\ nin'[t] <= Len(said'[t])
             /\ tpc'[t] = "none" => said'[t] = <<>>
  <2>1. said[t] \in Seq(Heards) /\ nin[t] \in Nat /\ nin[t] <= Len(said[t])
    BY DEF HeardInv, InType
  <2>2. CASE said'[t] = said[t]
    BY <2>1, <2>2, <1>1 DEF HeardInv
  <2>3. CASE Live(t) /\ said'[t] = said[t] \o new(t)
    <3>1. said[t] \o new(t) \in Seq(Heards)
          /\ Len(said[t] \o new(t)) = Len(said[t]) + Len(new(t))
          /\ Len(said[t]) \in Nat /\ Len(new(t)) \in Nat
      BY <1>2, <2>1, ConcatProperties, LenProperties
    <3>2. tpc'[t] # "none"
      BY <1>1, <2>3 DEF Live
    <3> QED BY <2>1, <2>3, <3>1, <3>2, <1>1
  <2> QED BY <1>2, <2>2, <2>3
<1>5. HeardInv'
  BY <1>3, <1>4 DEF HeardInv
<1>6. closed' \in [Threads -> BOOLEAN] /\ inEvent' \in [Threads -> BOOLEAN]
  <2> DEFINE h(t) == alive /\ Served(t)
             c(t) == closed[t] \/ (h(t) /\ state[t] # "gone" /\ state'[t] = "gone")
             e(t) == inEvent[t] \/ said'[t] # said[t] \/ closed'[t] # closed[t]
  <2>1. closed' = [t \in Threads |-> c(t)] /\ inEvent' = [t \in Threads |-> e(t)]
    BY Zenon DEF ServerStep
  <2>2. \A t \in Threads : c(t) \in BOOLEAN /\ e(t) \in BOOLEAN
    BY Zenon
  <2> HIDE DEF c, e
  <2> QED BY <2>1, <2>2
<1>7. Kinds'
  BY <1>6, ServerLeaves DEF Kinds
<1> QED BY <1>1, <1>5, <1>7 DEF Onward

(* The client's steps say nothing for the server.                          *)
LEMMA Unsaid == ASSUME [BallNext]_ballVars PROVE said' = said \/ ServerStep
<1>1. CASE UNCHANGED ballVars
  BY <1>1 DEF ballVars, vars
<1>2. CASE GuiStep
  BY <1>2 DEF GuiStep, InGui
<1>3. ASSUME NEW t \in Threads, ThreadConnects(t) \/ ThreadRefused(t) \/ ThreadStep(t)
      PROVE  said' = said
  BY <1>3 DEF ThreadConnects, ThreadRefused, ThreadStep
<1>4. ASSUME NEW t \in Threads, SocketDrains(t) \/ ServerGone(t) \/ ClientGone(t)
      PROVE  said' = said
  BY <1>4 DEF SocketDrains, Drain, ServerGone, ClientGone, vars
<1> QED BY <1>1, <1>2, <1>3, <1>4 DEF BallNext

LEMMA HeardKeeps ==
    ASSUME Kinds, InType, HeardInv, [Next]_vars, said' = said PROVE HeardInv'
<1>1. ASSUME NEW t \in Threads PROVE nin'[t] <= Len(said[t])
  <2>1. CASE nin' = nin
    BY <2>1 DEF HeardInv
  <2>2. CASE nin' # nin
    <3>1. PICK u \in Threads : nin[u] < Len(said[u]) /\ Received(u)
      BY <2>2, StepIn DEF Passed, inVars, Collected
    <3>2. nin[u] \in Nat /\ Len(said[u]) \in Nat
      BY LenProperties DEF InType, HeardInv
    <3>3. nin'[t] = IF t = u THEN nin[u] + 1 ELSE nin[t]
      BY <3>1 DEF Received, InType
    <3>4. nin[t] <= Len(said[t])
      BY DEF HeardInv
    <3> QED BY <3>1, <3>2, <3>3, <3>4
  <2> QED BY <2>1, <2>2
<1>2. Onward
  BY StepKinds
<1> QED BY <1>1, <1>2 DEF HeardInv, Onward

(* What is on its way to the panels is what the server wrote.              *)
LEMMA HeardIs ==
    ASSUME InType, InInv, HeardInv, NEW x \in Elements(Way)
    PROVE  /\ x.thread \in Threads /\ said[x.thread] # <<>>
           /\ x.pos \in 1..Len(said[x.thread]) /\ said[x.thread][x.pos] \in Heards
<1>1. Way \in Seq(Entries)
  BY WayType
<1>2. x \in Entries
  BY <1>1, ElementOfSeq DEF Elements
<1>3. x.thread \in Threads
  BY <1>2 DEF Entries
<1>4. x.pos \in 1..nin[x.thread]
  <2>1. x.pos \in From(x.thread, Elements(Way) \cup Elements(inlist[x.thread]))
    BY DEF From
  <2> QED BY <2>1, <1>3 DEF InInv
<1>5. nin[x.thread] \in Nat /\ said[x.thread] \in Seq(Heards)
      /\ nin[x.thread] <= Len(said[x.thread])
  BY <1>3 DEF InType, HeardInv
<1>6. Len(said[x.thread]) \in Nat
  BY <1>5, LenProperties
<1>7. x.pos \in 1..Len(said[x.thread])
  BY <1>4, <1>5, <1>6
<1>8. said[x.thread][x.pos] \in Heards
  BY <1>5, <1>7, ElementOfSeq
<1> QED BY <1>3, <1>7, <1>8

-----------------------------------------------------------------------------
(* What the client asks for.                                               *)

(* The name is known once a thread was started, and a chat is only written *)
(* to a member; so every packet is one the server knows.                   *)
AskInv ==
    /\ asked \in Seq(Requests)
    /\ gpc = "starting" \/ mainPanel \/ peers # {} => Started # {}
    /\ Started # {} => loginName \in Names
    /\ peers # {} => MemberList # <<>>
    /\ \A k \in 1..Len(asked) : asked[k].type = "CHART" => MemberList # <<>>

Kept ==
    /\ UNCHANGED <<loginName, peers, mainPanel, asked>>
    /\ gpc' = "starting" => gpc = "starting"
    /\ Started \subseteq Started'

LEMMA KeptAsks == ASSUME AskInv, Kept, Started' = Started PROVE AskInv'
  BY DEF AskInv, Kept

LEMMA QueueAsks ==
    ASSUME AskInv, NEW m \in Requests, Queue(m), m.type = "CHART" => MemberList # <<>>
    PROVE  /\ asked' \in Seq(Requests)
           /\ \A k \in 1..Len(asked') : asked'[k].type = "CHART" => MemberList # <<>>
<1>1. asked \in Seq(Requests) /\ Len(asked) \in Nat
  BY LenProperties DEF AskInv
<1>2. /\ asked' \in Seq(Requests) /\ Len(asked') = Len(asked) + 1
      /\ \A k \in 1..Len(asked) : asked'[k] = asked[k]
      /\ asked'[Len(asked) + 1] = m
  <2>1. asked' = Append(asked, m)
    BY DEF Queue
  <2>2. asked' \in Seq(Requests)
    BY <1>1, <2>1, AppendProperties
  <2> QED BY <1>1, <2>1, <2>2, AppendOf
<1> QED BY <1>1, <1>2 DEF AskInv

LEMMA ProcessAsks ==
    ASSUME InType, InInv, HeardInv, AskInv, Process PROVE AskInv'
<1> DEFINE e == Head(wait)
           m == said[e.thread][e.pos]
<1>1. wait \in Seq(Entries) /\ wait # <<>>
  BY DEF Process, InType
<1>2. e \in Elements(wait)
  <2>1. e = wait[1] /\ 1 \in 1..Len(wait)
    BY <1>1, HeadTailProperties, EmptySeq, LenProperties
  <2> QED BY <2>1 DEF Elements
<1>3. UNCHANGED <<loginName, gpc, tpc, asked>>
  BY DEF Process
<1>4. m \in Heards /\ e.thread \in Threads /\ said[e.thread] # <<>>
  <2>1. e \in Elements(Way)
    BY <1>2, ElementsOfWay
  <2> HIDE DEF e
  <2> QED BY <2>1, HeardIs
<1>5. Started # {} /\ Started' = Started
  <2>1. tpc[e.thread] # "none"
    BY <1>4 DEF HeardInv
  <2> QED BY <2>1, <1>3, <1>4 DEF Started
<1>6. \/ m.type = "LOGIN_RESPOND" /\ LoginRespond(m)
      \/ m.type = "PEER_LIST" /\ PeerList(m)
      \/ m.type = "CHART" /\ UNCHANGED <<alive, flag, mainPanel, connStatus, peers>>
  BY DEF Process
<1>7. peers' # {} => MemberList # <<>>
  <2> HIDE DEF m
  <2>1. CASE peers' = peers
    BY <2>1 DEF AskInv
  <2>2. CASE m.type = "PEER_LIST" /\ PeerList(m)
    <3>1. m.name \in Rowed
      BY <2>2, <1>4 DEF Heards, Ok, Failed, Chat
    <3>2. Len(MemberList) # 0
      BY <3>1, Constants DEF Rowed
    <3> QED BY <3>2
  <2> QED BY <2>1, <2>2, <1>6 DEF LoginRespond
<1> HIDE DEF e, m
<1> QED BY <1>3, <1>5, <1>7 DEF AskInv

LEMMA GuiAsks ==
    ASSUME Kinds, InType, InInv, HeardInv, AskInv, Gui PROVE AskInv'
<1>0. Started \subseteq Started'
  BY GuiKinds DEF Onward, Started
<1>1. CASE Process
  BY <1>1, ProcessAsks
<1>2. CASE MessageTimer \/ ProcessDone \/ Disconnect \/ StatusTimer \/ Quit
  <2>1. UNCHANGED <<loginName, peers, mainPanel, asked, tpc>>
        /\ (gpc' = "starting" => gpc = "starting")
    BY <1>2 DEF MessageTimer, ProcessDone, Disconnect, StatusTimer, Quit, guiVars, panelVars
  <2> QED BY <2>1, KeptAsks DEF Kept, Started
<1>3. CASE SendChat
  <2>1. UNCHANGED <<loginName, peers, mainPanel, gpc, tpc>> /\ peers # {}
        /\ Queue([type |-> "CHART", from |-> loginName])
    BY <1>3 DEF SendChat, guiVars, panelVars
  <2>2. loginName \in Names /\ MemberList # <<>>
    BY <2>1 DEF AskInv
  <2> DEFINE m == [type |-> "CHART", from |-> loginName]
  <2>3. m \in Requests
    BY <2>2 DEF Requests
  <2> HIDE DEF m
  <2>4. asked' \in Seq(Requests)
        /\ \A k \in 1..Len(asked') : asked'[k].type = "CHART" => MemberList # <<>>
    <3>1. Queue(m)
      BY <2>1 DEF m
    <3> QED BY <2>2, <2>3, <3>1, QueueAsks
  <2> QED BY <2>1, <2>4 DEF AskInv, Started
<1>4. CASE Relogin
  <2>1. UNCHANGED <<loginName, peers, mainPanel, tpc>> /\ gpc = "starting" /\ gpc' = "idle"
        /\ Queue([type |-> "LOGIN", name |-> loginName, thread |-> LastThread])
    BY <1>4 DEF Relogin
  <2>2. loginName \in Names /\ LastThread \in Threads
    BY <2>1, LastIs DEF AskInv
  <2> DEFINE m == [type |-> "LOGIN", name |-> loginName, thread |-> LastThread]
  <2>3. m \in Requests /\ m.type = "LOGIN"
    BY <2>2 DEF Requests
  <2> HIDE DEF m
  <2>4. asked' \in Seq(Requests)
        /\ \A k \in 1..Len(asked') : asked'[k].type = "CHART" => MemberList # <<>>
    <3>1. Queue(m)
      BY <2>1 DEF m
    <3> QED BY <2>3, <3>1, QueueAsks
  <2> QED BY <2>1, <2>4 DEF AskInv, Started
<1>5. CASE Reconnect \/ \E n \in Names : LoginClick(n)
  <2>1. Start /\ UNCHANGED <<peers, mainPanel, asked>> /\ gpc = "idle"
        /\ ((mainPanel /\ loginName' = loginName) \/ loginName' \in Names)
    BY <1>5 DEF Reconnect, LoginClick, MayClick, SetName, panelVars
  <2>2. loginName' \in Names
    BY <2>1 DEF AskInv
  <2>3. gpc' = "starting" => Started' # {}
    BY <2>1, StartUser
  <2> QED BY <1>0, <2>1, <2>2, <2>3 DEF AskInv
<1> QED BY <1>1, <1>2, <1>3, <1>4, <1>5 DEF Gui, User, Messages

LEMMA AskKeeps ==
    ASSUME Kinds, InType, InInv, HeardInv, AskInv, [Next]_vars \/ ServerStep PROVE AskInv'
<1>1. CASE UNCHANGED vars
  <2>1. Kept /\ Started' = Started
    BY <1>1 DEF vars, Kept, Started
  <2> QED BY <2>1, KeptAsks
<1>2. CASE Gui
  BY <1>2, GuiAsks
<1>3. CASE \E t \in Threads : Transfer(t)
  <2>1. PICK t \in Threads : Transfer(t)
    BY <1>3
  <2>2. Moved(t) /\ UNCHANGED guiVars
    BY <2>1, TransferTurn DEF Kinds
  <2>3. asked' = asked
    BY <2>1
    DEF Transfer, Connected, ConnectFailed, Loop, LoopTop, Exit, CheckNeed, Splice, WaitEvent,
        WaitTimeout, GetFinish, GetDone, Output, Collect
  <2>4. Started' = Started
    BY <2>2 DEF Moved, Started, Live
  <2> QED BY <2>2, <2>3, <2>4, KeptAsks DEF Kept, guiVars, panelVars
<1>4. CASE \E t \in Threads : Outside(t)
  <2>1. Kept /\ Started' = Started
    BY <1>4 DEF Outside, Kept, guiVars, panelVars, Started
  <2> QED BY <2>1, KeptAsks
<1>5. CASE ServerStep
  <2>1. Kept /\ Started' = Started
    BY <1>5, ServerLeaves DEF Kept, Started
  <2> QED BY <2>1, KeptAsks
<1> QED BY <1>1, <1>2, <1>3, <1>4, <1>5 DEF Next

-----------------------------------------------------------------------------
(* What has reached the server of what was sent to it.                     *)

ConnInv ==
    \A t \in Threads :
        /\ Len(sent[t]) <= Len(wire[t])
        /\ \A i \in 1..Len(sent[t]) : sent[t][i] = AtServer(asked[wire[t][i]], t, i)
        /\ AtBoth(t) => Len(sent[t]) = Len(wire[t])
        /\ tpc[t] \in {"none", "connect"} => wire[t] = <<>>

(* A packet is on one wire at the most, and once.                          *)
LEMMA WireNumbers ==
    ASSUME IInv, NEW t \in Threads
    PROVE  /\ wire[t] \in Seq(Nat) /\ Len(wire[t]) \in Nat
           /\ \A i \in 1..Len(wire[t]) : wire[t][i] \in 1..Len(asked)
           /\ \A i, j \in 1..Len(wire[t]) : i < j => wire[t][i] < wire[t][j]
<1>1. wire[t] \in Seq(Nat) /\ outq[t] \in Seq(Nat) /\ Len(wire[t]) \in Nat
  BY LenProperties DEF IInv, OutType
<1>2. Elements(wire[t]) \subseteq Elements(Lane(t)) /\ Increasing(wire[t])
  BY <1>1, ElementsOfConcat, IncreasingConcat DEF Lane, IInv, OutInv
<1>3. Elements(Lane(t)) \subseteq 1..Len(asked)
  BY DEF IInv, OutInv
<1> QED BY <1>1, <1>2, <1>3 DEF Elements, Increasing

LEMMA WiresApart ==
    ASSUME IInv, NEW t \in Threads, NEW u \in Threads, NEW i \in 1..Len(wire[t]),
           NEW j \in 1..Len(wire[u]), wire[t][i] = wire[u][j]
    PROVE  t = u /\ i = j
<1>1. t = u
  <2>1. \A v \in Threads : Elements(wire[v]) \subseteq Elements(Lane(v))
    BY ElementsOfConcat DEF Lane, IInv, OutType
  <2>2. wire[t][i] \in Elements(Lane(t)) /\ wire[t][i] \in Elements(Lane(u))
    BY <2>1 DEF Elements
  <2> QED BY <2>2 DEF IInv, OutInv
<1>2. i \in Nat /\ j \in Nat
  BY WireNumbers
<1>3. ~(i < j) /\ ~(j < i)
  <2>1. wire[t][i] \in Nat
    BY WireNumbers, ElementOfSeq
  <2> QED BY <2>1, <1>1, WireNumbers
<1> QED BY <1>1, <1>2, <1>3

(* A thread only ever adds to its wire.                                    *)
LEMMA LoopWrites ==
    ASSUME OutType, Kinds, NEW t \in Threads, Loop(t)
    PROVE  /\ \A u \in Threads \ {t} : wire'[u] = wire[u] /\ tpc'[u] = tpc[u]
           /\ \/ wire' = wire
              \/ tpc'[t] # "dead" /\ \E s \in Seq(Nat) : wire'[t] = wire[t] \o s
           /\ asked' = asked
           /\ tpc[t] \notin {"none", "connect"} /\ tpc'[t] \notin {"none", "connect"}
<1>1. Moved(t)
  BY TransferTurn DEF Kinds, Transfer
<1>2. asked' = asked /\ tpc[t] \notin {"none", "connect"} /\ tpc'[t] \notin {"none", "connect"}
  BY DEF Kinds, Loop, LoopTop, Exit, CheckNeed, Splice, WaitEvent, WaitTimeout, GetFinish,
     GetDone,
         Output, Collect, Goes
<1>3. ASSUME NEW q \in Seq(Nat), SendQueue(t, q) \/ WriteFails(t, q)
      PROVE  /\ \A u \in Threads \ {t} : wire'[u] = wire[u]
             /\ wire' = wire \/ \E s \in Seq(Nat) : wire'[t] = wire[t] \o s
  <2>1. PICK k \in 0..Len(q) : wire' = [wire EXCEPT ![t] = wire[t] \o SubSeq(q, 1, k)]
    <3>1. Len(q) \in Nat /\ \A k \in 0..(Len(q) - 1) : k \in 0..Len(q)
      BY LenProperties
    <3> QED BY <1>3, <3>1 DEF SendQueue, WriteFails
  <2>2. SubSeq(q, 1, k) \in Seq(Nat)
    BY CutParts
  <2> QED BY <2>1, <2>2 DEF OutType
<1>4. CASE Splice(t)
  <2>1. tpc'[t] # "dead"
    BY <1>4 DEF Splice, Goes, Kinds
  <2> DEFINE q == Joined(need, outq[t])
  <2>2. q \in Seq(Nat) /\ (SendQueue(t, q) \/ WriteFails(t, q))
    BY <1>4, ConcatProperties DEF Splice, OutType, Joined
  <2> HIDE DEF q
  <2> QED BY <2>1, <2>2, <1>1, <1>2, <1>3 DEF Moved
<1>5. CASE Output(t)
  <2>1. tpc'[t] # "dead"
    BY <1>5 DEF Output, Goes, Kinds
  <2>2. outq[t] \in Seq(Nat)
    BY DEF OutType
  <2>3. wire' = wire \/ SendQueue(t, outq[t]) \/ WriteFails(t, outq[t])
    BY <1>5 DEF Output, outVars
  <2> QED BY <2>1, <2>2, <2>3, <1>1, <1>2, <1>3 DEF Moved
<1>6. CASE ~Splice(t) /\ ~Output(t)
  <2>1. wire' = wire
    BY <1>6 DEF Loop, LoopTop, Exit, CheckNeed, WaitEvent, WaitTimeout, GetFinish, GetDone,
       Collect,
                outVars
  <2> QED BY <2>1, <1>1, <1>2 DEF Moved
<1> QED BY <1>4, <1>5, <1>6

(* A packet of the client is one the server's clients send.                *)
LEMMA AtServerIs ==
    ASSUME AskInv, NEW k \in 1..Len(asked), NEW t \in Threads, NEW i \in Nat \ {0}
    PROVE  /\ AtServer(asked[k], t, i) \in FromClient
           /\ AtServer(asked[k], t, i).type = asked[k].type
           /\ \E b \in S!Bodies : AtServer(asked[k], t, i) = S!Packet(t, i, b)
<1> DEFINE m == asked[k]
<1>1. m \in Requests
  BY ElementOfSeq DEF AskInv
<1>2. m.type = "CHART" => MemberList # <<>>
  BY DEF AskInv
<1> HIDE DEF m
<1>3. CASE m.type = "LOGIN"
  <2>1. m.name \in Names
    BY <1>1, <1>3 DEF Requests
  <2> DEFINE b == [type |-> "LOGIN", name |-> m.name]
  <2>2. b \in S!Bodies /\ b \in FromClient /\ b.type = "LOGIN"
    BY <2>1 DEF S!Bodies, FromClient
  <2>3. AtServer(m, t, i) = b
    BY <1>3 DEF AtServer
  <2> HIDE DEF b
  <2>4. S!Packet(t, i, b) = b
    BY <2>2 DEF S!Packet
  <2> QED BY <2>2, <2>3, <2>4, <1>3 DEF m
<1>4. CASE m.type = "CHART"
  <2>1. MemberList[1] \in Names /\ MemberList # <<>>
    <3>1. MemberList # <<>> /\ MemberList \in Seq(Names)
      BY <1>2, <1>4, Constants
    <3>2. 1 \in 1..Len(MemberList)
      BY <3>1, EmptySeq, LenProperties
    <3> QED BY <3>1, <3>2, ElementOfSeq
  <2> DEFINE b == [type |-> "CHART", to |-> MemberList[1]]
             c == [type |-> "CHART", to |-> MemberList[1], id |-> <<t, i>>]
  <2>2. b \in S!Bodies /\ b.type = "CHART" /\ b.to = MemberList[1]
    BY <2>1 DEF S!Bodies
  <2>3. AtServer(m, t, i) = c /\ c.type = "CHART"
    BY <1>4 DEF AtServer
  <2>4. c \in FromClient
    BY <2>1 DEF FromClient, Written
  <2>5. S!Packet(t, i, b) = c
    BY <2>2 DEF S!Packet
  <2> HIDE DEF b, c
  <2> QED BY <2>2, <2>3, <2>4, <2>5, <1>4 DEF m
<1> QED BY <1>1, <1>3, <1>4 DEF Requests

-----------------------------------------------------------------------------
(* Both ends of a connection.                                              *)

(* What a thread writes arrives, if the connection is there.               *)
Comes(t, n, s) ==
    /\ sent' = [sent EXCEPT ![t] = sent[t] \o s]
    /\ Len(wire'[t]) = Len(wire[t]) + n
    /\ \A i \in 1..n : /\ s[i] = AtServer(asked[wire'[t][Len(wire[t]) + i]], t, Len(sent[t]) + i)
                       /\ \E b \in S!Bodies : s[i] = S!Packet(t, Len(sent[t]) + i, b)
    /\ n # 0 => tpc'[t] # "dead"

LEMMA WireLonger ==
    ASSUME IInv, IInv', Kinds, NEW t \in Threads, Loop(t)
    PROVE  /\ Len(wire[t]) \in Nat /\ Len(wire'[t]) \in Nat /\ Len(wire[t]) <= Len(wire'[t])
           /\ \A i \in 1..Len(wire[t]) : wire'[t][i] = wire[t][i]
           /\ \A i \in 1..Len(wire'[t]) : wire'[t][i] \in 1..Len(asked)
           /\ Len(wire'[t]) # Len(wire[t]) => tpc'[t] # "dead"
<1>1. wire[t] \in Seq(Nat) /\ Len(wire[t]) \in Nat
  BY WireNumbers
<1>2. wire'[t] \in Seq(Nat) /\ Len(wire'[t]) \in Nat
  BY LenProperties DEF IInv, OutType
<1>3. asked' = asked
      /\ (wire' = wire \/ (tpc'[t] # "dead" /\ \E q \in Seq(Nat) : wire'[t] = wire[t] \o q))
  BY LoopWrites DEF IInv
<1>4. \A i \in 1..Len(wire'[t]) : wire'[t][i] \in 1..Len(asked)
  <2>1. outq'[t] \in Seq(Nat) /\ Elements(Lane(t)') \subseteq 1..Len(asked)
    BY <1>3 DEF IInv, OutType, OutInv
  <2>2. Lane(t)' = wire'[t] \o outq'[t]
    BY DEF Lane
  <2>3. Elements(wire'[t]) \subseteq 1..Len(asked)
    <3> DEFINE w == wire'[t]
               o == outq'[t]
    <3>1. w \in Seq(Nat) /\ o \in Seq(Nat)
      BY <1>2, <2>1
    <3> HIDE DEF w, o
    <3>2. Elements(w \o o) = Elements(w) \cup Elements(o)
      BY <3>1, ElementsOfConcat
    <3> QED BY <3>2, <2>1, <2>2 DEF w, o
  <2> QED BY <2>3 DEF Elements
<1>5. CASE wire' = wire
  BY <1>1, <1>4, <1>5
<1>6. ASSUME NEW q \in Seq(Nat), wire'[t] = wire[t] \o q, tpc'[t] # "dead"
      PROVE  Len(wire[t]) <= Len(wire'[t]) /\ \A i \in 1..Len(wire[t]) : wire'[t][i] = wire[t][i]
  <2>1. Len(q) \in Nat
    BY LenProperties
  <2> QED BY <2>1, <1>1, <1>6, ConcatProperties
<1> QED BY <1>1, <1>2, <1>3, <1>4, <1>5, <1>6

LEMMA ThreadSends ==
    ASSUME IInv, IInv', Kinds, AskInv, MainType, NEW t \in Threads, ThreadStep(t), AtBoth(t)
    PROVE  \E n \in Nat : \E s \in [1..n -> FromClient] : Comes(t, n, s)
<1> DEFINE a == Len(wire[t])
           n == Len(wire'[t]) - a
           s == [i \in 1..n |-> AtServer(asked[wire'[t][a + i]], t, Len(sent[t]) + i)]
<1>1. a \in Nat /\ Len(wire'[t]) \in Nat /\ a <= Len(wire'[t]) /\ Loop(t)
      /\ (\A i \in 1..Len(wire'[t]) : wire'[t][i] \in 1..Len(asked))
      /\ (Len(wire'[t]) # a => tpc'[t] # "dead")
  BY WireLonger DEF ThreadStep
<1>2. n \in Nat /\ Len(wire'[t]) = a + n
  BY <1>1
<1>3. Len(sent[t]) \in Nat
  BY LenProperties DEF MainType
<1>4. ASSUME NEW i \in 1..n
      PROVE  /\ wire'[t][a + i] \in 1..Len(asked)
             /\ Len(sent[t]) + i \in Nat \ {0}
  <2>1. a + i \in 1..Len(wire'[t])
    BY <1>1, <1>2
  <2> QED BY <2>1, <1>1, <1>3, <1>2
<1>5. sent' = [sent EXCEPT ![t] = sent[t] \o s]
  BY DEF ThreadStep, Arrives
<1>6. ASSUME NEW i \in 1..n
      PROVE  /\ s[i] = AtServer(asked[wire'[t][a + i]], t, Len(sent[t]) + i)
             /\ s[i] \in FromClient
             /\ \E b \in S!Bodies : s[i] = S!Packet(t, Len(sent[t]) + i, b)
  <2> DEFINE k == wire'[t][a + i]
             j == Len(sent[t]) + i
  <2>1. k \in 1..Len(asked) /\ j \in Nat \ {0} /\ s[i] = AtServer(asked[k], t, j)
    BY <1>4
  <2>2. \A x \in 1..Len(asked), y \in Nat \ {0} :
            /\ AtServer(asked[x], t, y) \in FromClient
            /\ \E b \in S!Bodies : AtServer(asked[x], t, y) = S!Packet(t, y, b)
    BY AtServerIs
  <2> HIDE DEF k, j, s, n, a
  <2>3. s[i] \in FromClient /\ \E b \in S!Bodies : s[i] = S!Packet(t, j, b)
    BY <2>1, <2>2
  <2> QED BY <2>1, <2>3 DEF k, j
<1>7. n # 0 => tpc'[t] # "dead"
  BY <1>1, <1>2
<1>8. s \in [1..n -> FromClient]
  <2>1. \A i \in 1..n : s[i] \in FromClient
    BY <1>6
  <2>2. s = [i \in 1..n |-> s[i]]
    OBVIOUS
  <2> HIDE DEF s, n
  <2> QED BY <2>1, <2>2
<1> HIDE DEF s, n
<1>9. Comes(t, n, s)
  BY <1>2, <1>5, <1>6, <1>7 DEF Comes
<1> QED BY <1>2, <1>8, <1>9

(* The other steps.                                                        *)
LEMMA QuietConn ==
    ASSUME IInv, MainType, ConnInv, sent' = sent, wire' = wire,
           \A k \in 1..Len(asked) : asked'[k] = asked[k],
           \A t \in Threads : AtBoth(t)' => AtBoth(t) \/ wire[t] = <<>>,
           \A t \in Threads : tpc'[t] \in {"none", "connect"} => tpc[t] \in {"none", "connect"}
    PROVE  ConnInv'
<1> SUFFICES ASSUME NEW t \in Threads
             PROVE  /\ Len(sent[t]) <= Len(wire[t])
                    /\ \A i \in 1..Len(sent[t]) :
                          sent[t][i] = AtServer(asked'[wire[t][i]], t, i)
                    /\ AtBoth(t)' => Len(sent[t]) = Len(wire[t])
                    /\ tpc'[t] \in {"none", "connect"} => wire[t] = <<>>
  BY DEF ConnInv, AtServer
<1>1. Len(sent[t]) \in Nat /\ Len(wire[t]) \in Nat /\ Len(sent[t]) <= Len(wire[t])
  BY LenProperties, WireNumbers DEF MainType, ConnInv
<1>2. ASSUME NEW i \in 1..Len(sent[t]) PROVE sent[t][i] = AtServer(asked'[wire[t][i]], t, i)
  <2>1. i \in 1..Len(wire[t])
    BY <1>1
  <2>2. wire[t][i] \in 1..Len(asked)
    BY <2>1, WireNumbers
  <2> QED BY <2>2 DEF ConnInv
<1>3. AtBoth(t)' => Len(sent[t]) = Len(wire[t])
  BY <1>1 DEF ConnInv
<1> QED BY <1>1, <1>2, <1>3 DEF ConnInv

LEMMA ThreadConn ==
    ASSUME IInv, IInv', Kinds, AskInv, MainType, ConnInv, NEW t \in Threads, ThreadStep(t)
    PROVE  ConnInv' /\ sent' \in [Threads -> Seq(FromClient)]
<1>1. /\ Loop(t) /\ asked' = asked
      /\ \A u \in Threads \ {t} : wire'[u] = wire[u] /\ tpc'[u] = tpc[u]
      /\ tpc'[t] \notin {"none", "connect"}
  BY LoopWrites DEF ThreadStep, IInv
<1>2. /\ Len(wire[t]) \in Nat /\ Len(wire'[t]) \in Nat /\ Len(wire[t]) <= Len(wire'[t])
      /\ \A i \in 1..Len(wire[t]) : wire'[t][i] = wire[t][i]
  BY <1>1, WireLonger
<1>3. \A u \in Threads : AtBoth(u)' => AtBoth(u)
  BY DEF ThreadStep, mainVars, HangsUp, Noticed, AtBoth, MainType
<1>4. sent[t] \in Seq(FromClient) /\ Len(sent[t]) \in Nat /\ Len(sent[t]) <= Len(wire[t])
  BY LenProperties DEF MainType, ConnInv
<1>5. ASSUME NEW u \in Threads, u # t, sent'[u] = sent[u]
      PROVE  /\ Len(sent'[u]) <= Len(wire'[u])
             /\ \A i \in 1..Len(sent'[u]) : sent'[u][i] = AtServer(asked[wire'[u][i]], u, i)
             /\ AtBoth(u)' => Len(sent'[u]) = Len(wire'[u])
             /\ tpc'[u] \in {"none", "connect"} => wire'[u] = <<>>
  BY <1>1, <1>3, <1>5 DEF ConnInv
<1>6. CASE ~AtBoth(t)
  <2>1. sent' = sent
    BY <1>6 DEF ThreadStep, Arrives, MainType
  <2>2. \A i \in 1..Len(sent[t]) : sent[t][i] = AtServer(asked[wire'[t][i]], t, i)
    <3> SUFFICES ASSUME NEW i \in 1..Len(sent[t])
                 PROVE  sent[t][i] = AtServer(asked[wire'[t][i]], t, i)
      OBVIOUS
    <3>1. i \in 1..Len(wire[t])
      BY <1>2, <1>4
    <3> QED BY <3>1, <1>2 DEF ConnInv
  <2>3. Len(sent[t]) <= Len(wire'[t])
    BY <1>2, <1>4
  <2>4. \A u \in Threads :
             /\ Len(sent'[u]) <= Len(wire'[u])
             /\ \A i \in 1..Len(sent'[u]) : sent'[u][i] = AtServer(asked[wire'[u][i]], u, i)
             /\ AtBoth(u)' => Len(sent'[u]) = Len(wire'[u])
             /\ tpc'[u] \in {"none", "connect"} => wire'[u] = <<>>
    BY <1>1, <1>3, <1>5, <1>6, <2>1, <2>2, <2>3
  <2>5. ConnInv'
    BY <1>1, <2>4 DEF ConnInv, AtServer
  <2> QED BY <2>1, <2>5 DEF MainType
<1>7. CASE AtBoth(t)
  <2>1. PICK n \in Nat : \E s \in [1..n -> FromClient] : Comes(t, n, s)
    BY <1>7, ThreadSends
  <2>2. PICK s \in [1..n -> FromClient] : Comes(t, n, s)
    BY <2>1
  <2>3. s \in Seq(FromClient) /\ Len(s) = n
    BY SeqOf
  <2> DEFINE x == sent[t] \o s
  <2>4. /\ x \in Seq(FromClient) /\ Len(x) = Len(sent[t]) + n
        /\ \A i \in 1..Len(x) : x[i] = IF i <= Len(sent[t]) THEN sent[t][i] ELSE s[i - Len(sent[t])]
    <3>1. \A p, r \in Seq(FromClient) :
             /\ p \o r \in Seq(FromClient) /\ Len(p \o r) = Len(p) + Len(r)
             /\ \A i \in 1..Len(p \o r) : (p \o r)[i] = IF i <= Len(p) THEN p[i] ELSE r[i - Len(p)]
      BY ConcatProperties
    <3> QED BY <3>1, <1>4, <2>3
  <2>5. sent' = [sent EXCEPT ![t] = x] /\ Len(wire'[t]) = Len(wire[t]) + n
        /\ \A i \in 1..n : s[i] = AtServer(asked[wire'[t][Len(wire[t]) + i]], t, Len(sent[t]) + i)
    BY <2>2 DEF Comes
  <2>6. Len(sent[t]) = Len(wire[t])
    BY <1>7 DEF ConnInv
  <2> HIDE DEF x
  <2>7. ASSUME NEW i \in 1..Len(x) PROVE x[i] = AtServer(asked[wire'[t][i]], t, i)
    <3>1. CASE i <= Len(sent[t])
      <4>1. i \in 1..Len(sent[t]) /\ i \in 1..Len(wire[t])
        BY <3>1, <1>4, <2>4, <2>6
      <4>2. x[i] = sent[t][i]
        BY <2>4, <3>1
      <4> QED BY <4>1, <4>2, <1>2 DEF ConnInv
    <3>2. CASE ~(i <= Len(sent[t]))
      <4> DEFINE j == i - Len(sent[t])
      <4>1. j \in 1..n /\ Len(sent[t]) + j = i /\ Len(wire[t]) + j = i
        BY <3>2, <1>4, <2>4, <2>6
      <4>2. x[i] = s[j]
        BY <2>4, <3>2
      <4> HIDE DEF j
      <4>3. s[j] = AtServer(asked[wire'[t][Len(wire[t]) + j]], t, Len(sent[t]) + j)
        BY <4>1, <2>5
      <4> QED BY <4>1, <4>2, <4>3
    <3> QED BY <3>1, <3>2
  <2>8. sent'[t] = x /\ \A u \in Threads : u # t => sent'[u] = sent[u]
    BY <2>5 DEF MainType
  <2>9. Len(x) = Len(wire'[t])
    BY <1>4, <2>4, <2>5, <2>6
  <2>10. \A u \in Threads :
             /\ Len(sent'[u]) <= Len(wire'[u])
             /\ \A i \in 1..Len(sent'[u]) : sent'[u][i] = AtServer(asked[wire'[u][i]], u, i)
             /\ AtBoth(u)' => Len(sent'[u]) = Len(wire'[u])
             /\ tpc'[u] \in {"none", "connect"} => wire'[u] = <<>>
    BY <1>1, <1>2, <1>5, <2>7, <2>8, <2>9
  <2>11. ConnInv'
    BY <1>1, <2>10 DEF ConnInv, AtServer
  <2> QED BY <2>4, <2>5, <2>11 DEF MainType
<1> QED BY <1>6, <1>7

-----------------------------------------------------------------------------
(* The server sees no more packets than were asked for, and no more LOGINs *)
(* on a connection than there are threads.                                 *)

LEMMA Fits ==
    ASSUME NEW D, NEW R, IsFiniteSet(R), NEW f \in [D -> R],
           \A x, y \in D : f[x] = f[y] => x = y
    PROVE  IsFiniteSet(D) /\ Cardinality(D) <= Cardinality(R)
<1>1. f \in Injection(D, R)
  BY DEF Injection, IsInjective
<1> QED BY <1>1, FS_Injection

LEMMA FewAsked ==
    ASSUME OutType, CountInv
    PROVE  /\ Len(asked) <= MaxPackets /\ Cardinality(AskedLogins) <= MaxThreads
           /\ Len(asked) \in Nat /\ MaxPackets \in Nat
           /\ IsFiniteSet(AskedLogins) /\ IsFiniteSet(1..Len(asked))
           /\ Cardinality(1..Len(asked)) = Len(asked)
<1>1. /\ Len(asked) \in Nat /\ IsFiniteSet(AskedLogins) /\ IsFiniteSet(Chats)
      /\ Cardinality(AskedLogins) \in Nat /\ Cardinality(Chats) \in Nat
      /\ Cardinality(Started) \in Nat /\ Cardinality(Started) <= MaxThreads
      /\ IsFiniteSet(1..Len(asked))
  BY FiniteAsked
<1>2. MaxThreads \in Nat /\ MaxChats \in Nat
  BY Constants
<1>3. Cardinality(AskedLogins) <= MaxThreads
  <2>1. Pending \in {0, 1}
    BY DEF Pending
  <2> QED BY <2>1, <1>1, <1>2 DEF CountInv
<1>4. Cardinality(1..Len(asked)) = Len(asked)
  <2> DEFINE n == Len(asked)
  <2>1. n \in Int /\ 1 \in Int /\ (IF 1 > n THEN 0 ELSE n - 1 + 1) = n
    BY <1>1
  <2> HIDE DEF n
  <2>2. Cardinality(1..n) = IF 1 > n THEN 0 ELSE n - 1 + 1
    BY <2>1, FS_Interval
  <2> QED BY <2>1, <2>2 DEF n
<1>5. 1..Len(asked) = AskedLogins \cup Chats
  BY DEF CountInv, AskedLogins, Chats
<1>6. Cardinality(AskedLogins \cup Chats) <= Cardinality(AskedLogins) + Cardinality(Chats)
  <2>1. Cardinality(AskedLogins \cup Chats)
           = Cardinality(AskedLogins) + Cardinality(Chats) - Cardinality(AskedLogins \cap Chats)
    BY <1>1, FS_Union
  <2>2. Cardinality(AskedLogins \cap Chats) \in Nat
    <3>1. AskedLogins \cap Chats \in SUBSET Chats
      OBVIOUS
    <3> QED BY <1>1, <3>1, FS_Subset, FS_CardinalityType
  <2> QED BY <2>1, <2>2, <1>1
<1>7. Len(asked) <= MaxPackets /\ MaxPackets \in Nat
  <2>1. Cardinality(Chats) <= MaxChats
    BY DEF CountInv
  <2>2. Len(asked) <= Cardinality(AskedLogins) + Cardinality(Chats)
    BY <1>4, <1>5, <1>6
  <2> QED BY <2>1, <2>2, <1>1, <1>2, <1>3 DEF MaxPackets
<1> QED BY <1>1, <1>3, <1>4, <1>7

LEMMA SameCardinality == \A T : S!Cardinality(T) = Cardinality(T)
BY DEF S!Cardinality, Cardinality

(* What has reached the server is what the client has sent.                *)
LEMMA SentIs ==
    ASSUME IInv, AskInv, MainType, ConnInv, NEW t \in Threads, NEW i \in 1..Len(sent[t])
    PROVE  /\ i \in 1..Len(wire[t]) /\ wire[t][i] \in 1..Len(asked)
           /\ sent[t][i].type = asked[wire[t][i]].type
<1>1. i \in 1..Len(wire[t])
  <2>1. Len(sent[t]) \in Nat /\ Len(wire[t]) \in Nat /\ Len(sent[t]) <= Len(wire[t])
    BY LenProperties, WireNumbers DEF MainType, ConnInv
  <2> QED BY <2>1
<1>2. wire[t][i] \in 1..Len(asked)
  BY <1>1, WireNumbers
<1>3. sent[t][i] = AtServer(asked[wire[t][i]], t, i)
  BY DEF ConnInv
<1>4. i \in Nat \ {0}
  BY <1>1, WireNumbers
<1> DEFINE k == wire[t][i]
<1> HIDE DEF k
<1>5. AtServer(asked[k], t, i).type = asked[k].type
  BY <1>2, <1>4, AtServerIs DEF k
<1> QED BY <1>1, <1>2, <1>3, <1>5 DEF k

LEMMA Bounded ==
    ASSUME IInv, AskInv, MainType, CountInv, ConnInv
    PROVE  /\ S!Sent <= MaxPackets
           /\ \A t \in Threads : S!Logins(sent[t]) <= MaxThreads /\ Len(sent[t]) <= MaxPackets
<1>0. /\ Len(asked) <= MaxPackets /\ Cardinality(AskedLogins) <= MaxThreads
      /\ Len(asked) \in Nat /\ MaxPackets \in Nat /\ MaxThreads \in Nat
      /\ IsFiniteSet(AskedLogins) /\ IsFiniteSet(1..Len(asked))
      /\ Cardinality(1..Len(asked)) = Len(asked)
      /\ Cardinality(AskedLogins) \in Nat
  BY FewAsked, FiniteAsked, Constants DEF IInv
<1>1. ASSUME NEW t \in Threads, NEW i \in 1..Len(sent[t])
      PROVE  /\ i \in 1..Len(wire[t]) /\ wire[t][i] \in 1..Len(asked)
             /\ sent[t][i].type = asked[wire[t][i]].type
  BY SentIs
<1>2. S!Sent <= MaxPackets
  <2> DEFINE D == UNION {{p} \X DOMAIN sent[p] : p \in Threads}
             f == [d \in D |-> wire[d[1]][d[2]]]
  <2>1. ASSUME NEW d \in D
        PROVE  d[1] \in Threads /\ d[2] \in 1..Len(sent[d[1]]) /\ d = <<d[1], d[2]>>
    <3>1. PICK p \in Threads : d \in {p} \X DOMAIN sent[p]
      OBVIOUS
    <3>2. DOMAIN sent[p] = 1..Len(sent[p])
      BY LenProperties DEF MainType
    <3> QED BY <3>1, <3>2
  <2>2. f \in [D -> 1..Len(asked)]
    <3>1. \A d \in D : wire[d[1]][d[2]] \in 1..Len(asked)
      BY <2>1, <1>1
    <3> QED BY <3>1
  <2>3. ASSUME NEW x \in D, NEW y \in D, f[x] = f[y] PROVE x = y
    <3>1. wire[x[1]][x[2]] = wire[y[1]][y[2]]
      BY <2>3
    <3>2. /\ x[1] \in Threads /\ y[1] \in Threads /\ x = <<x[1], x[2]>> /\ y = <<y[1], y[2]>>
          /\ x[2] \in 1..Len(wire[x[1]]) /\ y[2] \in 1..Len(wire[y[1]])
      BY <2>1, <1>1
    <3>3. x[1] = y[1] /\ x[2] = y[2]
      BY <3>1, <3>2, WiresApart
    <3> QED BY <3>2, <3>3
  <2> HIDE DEF D, f
  <2>4. IsFiniteSet(D) /\ Cardinality(D) <= Cardinality(1..Len(asked))
    BY <2>2, <2>3, <1>0, Fits
  <2>5. Cardinality(D) \in Nat
    BY <2>4, FS_CardinalityType
  <2>6. S!Sent = Cardinality(D)
    BY SameCardinality DEF S!Sent, D
  <2> QED BY <2>4, <2>5, <2>6, <1>0
<1>3. ASSUME NEW t \in Threads PROVE S!Logins(sent[t]) <= MaxThreads
  <2> DEFINE D == {i \in 1..Len(sent[t]) : sent[t][i].type = "LOGIN"}
             f == [i \in D |-> wire[t][i]]
  <2>1. f \in [D -> AskedLogins]
    <3>1. \A i \in D : wire[t][i] \in AskedLogins
      BY <1>1 DEF AskedLogins
    <3> QED BY <3>1
  <2>2. ASSUME NEW x \in D, NEW y \in D, f[x] = f[y] PROVE x = y
    <3>1. wire[t][x] = wire[t][y] /\ x \in 1..Len(wire[t]) /\ y \in 1..Len(wire[t])
      BY <2>2, <1>1
    <3> QED BY <3>1, WiresApart
  <2> HIDE DEF D, f
  <2>3. IsFiniteSet(D) /\ Cardinality(D) <= Cardinality(AskedLogins)
    BY <2>1, <2>2, <1>0, Fits
  <2>4. Cardinality(D) \in Nat
    BY <2>3, FS_CardinalityType
  <2>5. S!Logins(sent[t]) = Cardinality(D)
    BY SameCardinality DEF S!Logins, D
  <2> QED BY <2>3, <2>4, <2>5, <1>0
<1>4. ASSUME NEW t \in Threads PROVE Len(sent[t]) <= MaxPackets
  <2> DEFINE n == Len(sent[t])
             f == [i \in 1..n |-> wire[t][i]]
  <2>1. f \in [1..n -> 1..Len(asked)]
    BY <1>1
  <2>2. ASSUME NEW x \in 1..n, NEW y \in 1..n, f[x] = f[y] PROVE x = y
    <3>1. wire[t][x] = wire[t][y] /\ x \in 1..Len(wire[t]) /\ y \in 1..Len(wire[t])
      BY <2>2, <1>1
    <3> QED BY <3>1, WiresApart
  <2>3. n \in Nat /\ n \in Int /\ 1 \in Int /\ (IF 1 > n THEN 0 ELSE n - 1 + 1) = n
    BY LenProperties DEF MainType
  <2> HIDE DEF n, f
  <2>4. Cardinality(1..n) <= Cardinality(1..Len(asked))
    BY <2>1, <2>2, <1>0, Fits
  <2>5. Cardinality(1..n) = n
    <3>1. Cardinality(1..n) = IF 1 > n THEN 0 ELSE n - 1 + 1
      BY <2>3, FS_Interval
    <3> QED BY <3>1, <2>3
  <2> QED BY <2>3, <2>4, <2>5, <1>0 DEF n
<1> QED BY <1>2, <1>3, <1>4

-----------------------------------------------------------------------------
(* All of it, in every step.                                               *)

BallInv ==
    IInv /\ Kinds /\ InType /\ InInv /\ HeardInv /\ AskInv /\ MainType /\ CountInv /\ ConnInv

LEMMA BallStart == ASSUME BallInit PROVE BallInv
<1>1. Init /\ S!Init
  BY DEF BallInit
<1>2. IInv /\ InType /\ InInv
  BY <1>1, InitOut, InInit
<1>3. Kinds
  BY <1>1 DEF Init, Kinds, Places
<1>4. Started = {} /\ Chats = {} /\ AskedLogins = {} /\ Len(asked) = 0 /\ asked = <<>>
  BY <1>1 DEF Init, Started, Chats, AskedLogins
<1>5. HeardInv
  BY <1>1, EmptySeq DEF Init, HeardInv
<1>6. AskInv
  BY <1>1, <1>4, EmptySeq DEF Init, AskInv
<1>7. MainType
  BY <1>1, EmptySeq DEF S!Init, MainType, Sockets
<1>8. CountInv
  <2>1. Cardinality({}) = 0
    BY FS_EmptySet
  <2>2. Pending = 0
    BY <1>1 DEF Init, Pending
  <2> QED BY <2>1, <2>2, <1>4, Constants DEF CountInv
<1>9. ConnInv
  <2>1. \A t \in Threads : sent[t] = <<>> /\ wire[t] = <<>>
    BY <1>1 DEF Init, S!Init
  <2> QED BY <2>1 DEF ConnInv
<1> QED BY <1>2, <1>3, <1>5, <1>6, <1>7, <1>8, <1>9 DEF BallInv

(* The GTK thread writes to no wire.                                       *)
LEMMA GuiQuiet ==
    ASSUME OutType, Kinds, Gui
    PROVE  /\ wire' = wire
           /\ \A k \in 1..Len(asked) : asked'[k] = asked[k]
           /\ \A t \in Threads : tpc'[t] \in {"none", "connect"} => tpc[t] \in {"none", "connect"}
<1>1. wire' = wire
  BY DEF Gui, User, LoginClick, Disconnect, Reconnect, SendChat, Relogin, StatusTimer,
     Messages,
         Process, MessageTimer, ProcessDone, Quit, outVars
<1>2. \A k \in 1..Len(asked) : asked'[k] = asked[k]
  <2>1. CASE Rest
    BY <2>1 DEF Rest
  <2>2. CASE Queued
    <3>1. PICK m : asked' = Append(asked, m)
      BY <2>2 DEF Queued, Queue
    <3>2. PICK X : asked \in Seq(X)
      BY DEF OutType
    <3> QED BY <3>1, <3>2, AppendOf
  <2> QED BY <2>1, <2>2, GuiOut
<1>3. tpc' = tpc \/ \E t \in Threads : tpc[t] = "none" /\ tpc' = [tpc EXCEPT ![t] = "connect"]
  BY DEF Gui, User, LoginClick, Disconnect, Reconnect, Start, SendChat, Relogin, StatusTimer,
         Messages, Process, MessageTimer, ProcessDone, Quit, guiVars
<1>4. \A t \in Threads : tpc'[t] \in {"none", "connect"} => tpc[t] \in {"none", "connect"}
  BY <1>3 DEF Kinds
<1> QED BY <1>1, <1>2, <1>4

(* The server is not concerned.                                            *)
LEMMA AsideKeeps ==
    ASSUME BallInv, UNCHANGED otherVars, wire' = wire,
           \A k \in 1..Len(asked) : asked'[k] = asked[k],
           \A t \in Threads : tpc'[t] \in {"none", "connect"} => tpc[t] \in {"none", "connect"}
    PROVE  MainType' /\ ConnInv'
<1>1. UNCHANGED <<pc, cur, batch, ready, state, hup, sent, nread, rows, oq, swire>>
  BY DEF otherVars, mainVars
<1>2. MainType'
  BY <1>1 DEF BallInv, MainType
<1>3. \A t \in Threads : AtBoth(t)' => AtBoth(t)
  BY <1>1 DEF AtBoth
<1> QED BY <1>1, <1>2, <1>3, QuietConn DEF BallInv

(* Steps the server knows nothing of.                                      *)
Aside ==
    \/ UNCHANGED ballVars \/ GuiStep
    \/ \E t \in Threads : ThreadRefused(t) \/ SocketDrains(t) \/ ServerGone(t)

LEMMA AsideIs == ASSUME Aside PROVE UNCHANGED otherVars
  BY DEF Aside, ballVars, GuiStep, InGui, ThreadRefused, SocketDrains, ServerGone

LEMMA AsideStep == ASSUME BallInv, Aside PROVE MainType' /\ ConnInv'
<1>0. UNCHANGED otherVars /\ OutType /\ Kinds
  BY AsideIs DEF BallInv, IInv
<1>1. CASE UNCHANGED ballVars
  BY <1>0, <1>1, AsideKeeps DEF ballVars, vars
<1>2. CASE GuiStep
  BY <1>0, <1>2, GuiQuiet, AsideKeeps DEF GuiStep, InGui
<1>3. ASSUME NEW t \in Threads, ThreadRefused(t) PROVE MainType' /\ ConnInv'
  <2>1. asked' = asked /\ wire' = wire /\ tpc' = [tpc EXCEPT ![t] = "dead"]
    BY <1>3 DEF ThreadRefused, ConnectFailed, outVars, Goes
  <2>2. \A u \in Threads : tpc'[u] \in {"none", "connect"} => tpc[u] \in {"none", "connect"}
    BY <2>1, <1>0 DEF Kinds
  <2> QED BY <1>0, <2>1, <2>2, AsideKeeps
<1>4. ASSUME NEW t \in Threads, SocketDrains(t) \/ ServerGone(t) PROVE MainType' /\ ConnInv'
  <2>1. UNCHANGED <<asked, wire, tpc>>
    BY <1>4 DEF SocketDrains, ServerGone, clientOwn
  <2> QED BY <1>0, <2>1, AsideKeeps
<1> QED BY <1>1, <1>2, <1>3, <1>4 DEF Aside

LEMMA ConnectStep ==
    ASSUME BallInv, NEW t \in Threads, ThreadConnects(t) PROVE MainType' /\ ConnInv'
<1>1. /\ UNCHANGED <<pc, cur, batch, hup, sent, nread, rows, oq, swire, asked, wire>>
      /\ tpc[t] = "connect" /\ tpc' = [tpc EXCEPT ![t] = "top"]
      /\ state' = [state EXCEPT ![t] = "backlog"] /\ ready' = ready \cup {Listen}
  BY DEF ThreadConnects, mainVars, Connected, Goes, outVars, S!Connect
<1>2. MainType'
  BY <1>1 DEF BallInv, MainType, Sockets
<1>3. wire[t] = <<>>
  BY <1>1 DEF BallInv, ConnInv
<1>4. \A u \in Threads : AtBoth(u)' => AtBoth(u) \/ wire[u] = <<>>
  BY <1>1, <1>3 DEF AtBoth, BallInv, MainType
<1>5. \A u \in Threads : tpc'[u] \in {"none", "connect"} => tpc[u] \in {"none", "connect"}
  BY <1>1 DEF BallInv, Kinds
<1> QED BY <1>1, <1>2, <1>4, <1>5, QuietConn DEF BallInv

LEMMA GoneStep ==
    ASSUME BallInv, NEW t \in Threads, ClientGone(t) PROVE MainType' /\ ConnInv'
<1>1. /\ UNCHANGED <<pc, cur, batch, state, sent, nread, rows, oq, swire, asked, wire, tpc>>
      /\ hup' = [hup EXCEPT ![t] = TRUE] /\ ready' \subseteq ready \cup {t}
  BY DEF ClientGone, mainVars, vars, Noticed
<1>2. MainType'
  BY <1>1 DEF BallInv, MainType, Sockets
<1>3. \A u \in Threads : AtBoth(u)' => AtBoth(u)
  BY <1>1 DEF AtBoth, BallInv, MainType
<1> QED BY <1>1, <1>2, <1>3, QuietConn DEF BallInv

LEMMA HupIs ==
    ASSUME MainType, NEW t \in Threads, HangsUp(t) PROVE hup' \in [Threads -> BOOLEAN]
<1> DEFINE h == hup[t] \/ (AtBoth(t) /\ tpc'[t] = "dead")
<1>1. hup' = [hup EXCEPT ![t] = h]
  BY DEF HangsUp
<1>2. h \in BOOLEAN
  BY Zenon
<1> HIDE DEF h
<1> QED BY <1>1, <1>2 DEF MainType

LEMMA ThreadKeeps ==
    ASSUME BallInv, IInv', NEW t \in Threads, ThreadStep(t) PROVE MainType' /\ ConnInv'
<1>1. ConnInv' /\ sent' \in [Threads -> Seq(FromClient)]
  BY ThreadConn DEF BallInv
<1>2. UNCHANGED <<pc, cur, batch, state, nread, rows, oq, swire>> /\ ready' \subseteq ready \cup {t}
      /\ HangsUp(t)
  BY DEF ThreadStep, mainVars, Noticed
<1>3. hup' \in [Threads -> BOOLEAN]
  BY <1>2, HupIs DEF BallInv
<1> QED BY <1>1, <1>2, <1>3 DEF BallInv, MainType, Sockets

LEMMA ServerKeeps ==
    ASSUME BallInv, ServerStep PROVE BallInv'
<1>1. /\ UNCHANGED <<asked, wire, tpc, handled, wait, coming, inlist, nin, sent, hup>>
      /\ S!Main
  BY ServerLeaves
<1>2. MainType'
  BY <1>1, MainKeeps DEF BallInv
<1>3. HeardInv' /\ Kinds'
  BY <1>2, ServerSays DEF BallInv
<1>4. InType' /\ InInv'
  BY <1>1, KeptIn, PassedKeeps DEF BallInv
<1>5. AskInv' /\ CountInv'
  BY AskKeeps, CountKeeps DEF BallInv, IInv
<1>6. \A t \in Threads : AtBoth(t)' => AtBoth(t)
  BY <1>1, MainControl DEF AtBoth, Moves, BallInv
<1>7. ConnInv'
  BY <1>1, <1>6, QuietConn DEF BallInv
<1>8. IInv'
  <2>1. Rest /\ OutType'
    BY OutKept, ServerLeaves DEF BallInv, IInv
  <2> QED BY <2>1, RestKeeps DEF BallInv
<1> QED BY <1>2, <1>3, <1>4, <1>5, <1>7, <1>8 DEF BallInv

LEMMA BallKeeps == BallInv /\ [BallNext]_ballVars => BallInv'
<1> SUFFICES ASSUME BallInv, [BallNext]_ballVars PROVE BallInv'
  OBVIOUS
<1>1. CASE ServerStep
  BY <1>1, ServerKeeps
<1>2. CASE ~ServerStep
  <2>1. [Next]_vars /\ said' = said
    BY <1>2, Sides, Unsaid
  <2>2. IInv'
    BY OutKeeps DEF BallInv
  <2>3. Kinds' /\ InType' /\ InInv' /\ HeardInv'
    BY <2>1, StepKinds, InKeeps, HeardKeeps DEF BallInv
  <2>4. AskInv' /\ CountInv'
    BY <2>1, AskKeeps, CountKeeps DEF BallInv, IInv
  <2>5. MainType' /\ ConnInv'
    <3>1. Aside \/ \E t \in Threads : ThreadConnects(t) \/ ThreadStep(t) \/ ClientGone(t)
      BY <1>2 DEF BallNext, Aside
    <3> QED BY <3>1, <2>2, AsideStep, ConnectStep, ThreadKeeps, GoneStep
  <2> QED BY <2>2, <2>3, <2>4, <2>5 DEF BallInv
<1> QED BY <1>1, <1>2

(* What holds of a client and its server in every state.                   *)
THEOREM BallInvariance == BallSpec => []BallInv
<1>1. BallInit => BallInv
  BY BallStart
<1> QED BY <1>1, BallKeeps, PTL DEF BallSpec

-----------------------------------------------------------------------------
(* The client is one of the server's clients.                              *)

LEMMA Few == BallInv => /\ S!Sent <= MaxPackets
                        /\ \A t \in Threads : /\ S!Logins(sent[t]) <= MaxThreads
                                              /\ Len(sent[t]) <= MaxPackets
BY Bounded DEF BallInv

LEMMA OthersAre == UNCHANGED otherVars => UNCHANGED S!vars
BY DEF otherVars, mainVars, S!vars

LEMMA MainLeaves ==
    ASSUME UNCHANGED mainVars
    PROVE  UNCHANGED <<S!loopVars, pending, clock, nread, time_last, timeout_list, S!acctVars,
                       S!outVars>>
BY DEF mainVars, S!loopVars, S!acctVars, S!outVars

LEMMA ConnectsAs == ASSUME NEW t \in Threads, ThreadConnects(t) PROVE S!Client(t)
<1>1. pc # "killed" /\ S!Connect(t) /\ UNCHANGED mainVars
  BY DEF ThreadConnects
<1> QED BY <1>1, MainLeaves DEF S!Client

(* The process of the client has ended.                                    *)
LEMMA GoneAs == ASSUME BallInv, NEW t \in Threads, ClientGone(t) PROVE S!Client(t)
<1>1. /\ pc # "killed" /\ state[t] \in {"backlog", "open"} /\ ~hup[t]
      /\ UNCHANGED mainVars /\ sent' = sent /\ state' = state
      /\ hup' = [hup EXCEPT ![t] = TRUE]
  BY DEF ClientGone, AtBoth, Noticed
<1>2. hup' # hup
  BY <1>1 DEF BallInv, MainType
<1>3. ready' = IF state[t] = "open" THEN ready \cup {t} ELSE ready
  BY <1>2 DEF ClientGone, Noticed, S!Open
<1>4. S!ClientClose(t)
  BY <1>1, <1>3 DEF S!ClientClose, S!Edge
<1> QED BY <1>1, <1>4, MainLeaves DEF S!Client

(* A thread that writes sends, one that ends closes.                       *)
LEMMA ThreadAs ==
    ASSUME BallInv, IInv', NEW t \in Threads, ThreadStep(t), S!Sent' <= MaxPackets,
           S!Logins(sent'[t]) <= MaxThreads, Len(sent'[t]) <= MaxPackets
    PROVE  S!Client(t) \/ UNCHANGED S!vars
<1>1. /\ UNCHANGED mainVars /\ state' = state
      /\ hup' = [hup EXCEPT ![t] = hup[t] \/ (AtBoth(t) /\ tpc'[t] = "dead")]
      /\ ready' = IF sent' # sent \/ hup' # hup THEN ready \cup ({t} \cap S!Open) ELSE ready
  BY DEF ThreadStep, Noticed, HangsUp
<1>2. hup \in [Threads -> BOOLEAN] /\ sent \in [Threads -> Seq(FromClient)]
  BY DEF BallInv, MainType
<1>3. CASE ~AtBoth(t)
  <2>1. sent' = sent /\ hup' = hup
    BY <1>1, <1>2, <1>3 DEF ThreadStep, Arrives
  <2> QED BY <1>1, <2>1, OthersAre DEF otherVars
<1>4. CASE AtBoth(t)
  <2>0. pc # "killed" /\ state[t] \in {"backlog", "open"} /\ ~hup[t]
    BY <1>4 DEF AtBoth
  <2>1. PICK n \in Nat : \E s \in [1..n -> FromClient] : Comes(t, n, s)
    BY <1>4, ThreadSends DEF BallInv
  <2>2. PICK s \in [1..n -> FromClient] : Comes(t, n, s)
    BY <2>1
  <2>3. s \in Seq(FromClient) /\ Len(s) = n
    BY SeqOf
  <2>4. /\ sent' = [sent EXCEPT ![t] = sent[t] \o s]
        /\ \A i \in 1..n : \E b \in S!Bodies : s[i] = S!Packet(t, Len(sent[t]) + i, b)
        /\ n # 0 => tpc'[t] # "dead"
    BY <2>2 DEF Comes
  <2> DEFINE a == sent[t]
             x == a \o s
  <2>5. a \in Seq(FromClient) /\ Len(a) \in Nat /\ x \in Seq(FromClient) /\ Len(x) = Len(a) + n
    <3>1. a \in Seq(FromClient)
      BY <1>2
    <3> HIDE DEF a
    <3> QED BY <2>3, <3>1, ConcatProperties, LenProperties
  <2>6. sent' = [sent EXCEPT ![t] = x] /\ sent'[t] = x
    BY <1>2, <2>4
  <2>7. CASE n = 0
    <3>1. s = <<>>
      BY <2>3, <2>7, EmptySeq
    <3>2. x = a
      <4> HIDE DEF a
      <4> QED BY <2>5, <3>1, ConcatEmptySeq
    <3>3. sent' = sent
      BY <1>2, <2>6, <3>2
    <3>4. CASE tpc'[t] = "dead"
      <4>1. hup' = [hup EXCEPT ![t] = TRUE] /\ hup' # hup
        BY <1>1, <1>2, <1>4, <2>0, <3>4
      <4>2. ready' = IF state[t] = "open" THEN ready \cup {t} ELSE ready
        BY <1>1, <4>1 DEF S!Open
      <4>3. S!ClientClose(t)
        BY <1>1, <2>0, <3>3, <4>1, <4>2 DEF S!ClientClose, S!Edge
      <4> QED BY <1>1, <2>0, <4>3, MainLeaves DEF S!Client
    <3>5. CASE tpc'[t] # "dead"
      <4>1. hup' = hup
        BY <1>1, <1>2, <2>0, <3>5
      <4> QED BY <1>1, <3>3, <4>1, OthersAre DEF otherVars
    <3> QED BY <3>4, <3>5
  <2>8. CASE n # 0
    <3>1. hup' = hup
      BY <1>1, <1>2, <2>0, <2>4, <2>8
    <3>2. sent' # sent
      BY <2>5, <2>6, <2>8
    <3>3. ready' = IF state[t] = "open" THEN ready \cup {t} ELSE ready
      BY <1>1, <3>2 DEF S!Open
    <3>4. n \in 1..MaxPackets
      <4>1. MaxPackets \in Nat
        BY FewAsked DEF BallInv, IInv
      <4> QED BY <4>1, <2>5, <2>6, <2>8
    <3>5. PICK b \in [1..n -> S!Bodies] : \A i \in 1..n : s[i] = S!Packet(t, Len(a) + i, b[i])
      <4> DEFINE c(i) == CHOOSE b \in S!Bodies : s[i] = S!Packet(t, Len(a) + i, b)
                 f == [i \in 1..n |-> c(i)]
      <4>1. \A i \in 1..n : c(i) \in S!Bodies /\ s[i] = S!Packet(t, Len(a) + i, c(i))
        BY <2>4
      <4> HIDE DEF c
      <4>2. f \in [1..n -> S!Bodies] /\ \A i \in 1..n : s[i] = S!Packet(t, Len(a) + i, f[i])
        BY <4>1
      <4> HIDE DEF f
      <4> QED BY <4>2
    <3>6. s = [i \in 1..n |-> S!Packet(t, Len(a) + i, b[i])]
      BY <3>5
    <3>7. sent' = [sent EXCEPT ![t] = @ \o [i \in 1..n |-> S!Packet(t, Len(sent[t]) + i, b[i])]]
      BY <2>4, <3>6
    <3>8. S!ClientSend(t)
      BY <1>1, <2>0, <3>1, <3>3, <3>4, <3>7 DEF S!ClientSend, S!Edge
    <3> QED BY <1>1, <2>0, <3>8, MainLeaves DEF S!Client
  <2> QED BY <2>7, <2>8
<1> QED BY <1>3, <1>4

LEMMA BallStepIsServers ==
    ASSUME BallInv, IInv', S!Sent' <= MaxPackets, [BallNext]_ballVars,
           \A t \in Threads : S!Logins(sent'[t]) <= MaxThreads /\ Len(sent'[t]) <= MaxPackets
    PROVE  [S!Next]_(S!vars)
<1>1. CASE ServerStep
  BY <1>1, ServerLeaves DEF S!Next
<1>2. CASE Aside
  BY <1>2, AsideIs, OthersAre
<1>3. ASSUME NEW t \in Threads, ThreadConnects(t) \/ ThreadStep(t) \/ ClientGone(t)
      PROVE  S!Client(t) \/ UNCHANGED S!vars
  BY <1>3, ConnectsAs, ThreadAs, GoneAs
<1>4. Aside \/ ServerStep
        \/ \E t \in Threads : ThreadConnects(t) \/ ThreadStep(t) \/ ClientGone(t)
  BY DEF BallNext, Aside
<1> QED BY <1>1, <1>2, <1>3, <1>4 DEF S!Next

(* The client keeps to what module Server assumes of its clients           *)
(* (ServerSpec): through all that its user and its threads do              *)
(* (gui_client.c:54 to 205), no connection sees more LOGINs than threads   *)
(* were started, a packet that is none of the client's, or a packet behind *)
(* a hang-up.  So what is proved of Server holds of it here.               *)
THEOREM ClientIsServed == BallSpec => ServerSpec
<1> DEFINE B == /\ S!Sent <= MaxPackets
                /\ \A t \in Threads : /\ S!Logins(sent[t]) <= MaxThreads
                                      /\ Len(sent[t]) <= MaxPackets
<1>1. BallInv => B /\ IInv
  BY Few DEF BallInv
<1>2. BallInv /\ IInv' /\ B' /\ [BallNext]_ballVars => [S!Next]_(S!vars)
  BY BallStepIsServers
<1>3. BallInit => S!Init
  BY DEF BallInit
<1> HIDE DEF B
<1> QED BY <1>1, <1>2, <1>3, BallInvariance, PTL DEF BallSpec, ServerSpec, S!Spec

-----------------------------------------------------------------------------
(* A connection is used by the server only when the thread has made it.    *)

(* All that is written to thread t, whether it has gone out or not.        *)
Stream(t) == swire[t] \o oq[t]

UseInv ==
    \A t \in Threads : tpc[t] \in {"none", "connect"} =>
        /\ t \notin batch \cup ready \cup {cur}
        /\ state[t] \in {"none", "gone"}
        /\ swire[t] = <<>> /\ oq[t] = <<>>

(* A step of the server writes to one connection at the most, and one that *)
(* is there.                                                               *)
One(p, m) ==
    /\ p = cur \/ state[p] = "open"
    /\ Stream(p)' = Append(Stream(p), m)
    /\ Len(swire[p]) <= Len(swire'[p])
    /\ \A i \in 1..Len(swire[p]) : swire'[p][i] = swire[p][i]
    /\ \A u \in Threads : u # p => swire'[u] = swire[u] /\ oq'[u] = oq[u]
    /\ m \in Written => Reads /\ m = sent[cur][nread[cur] + 1]

LEMMA MainWrites ==
    ASSUME MainType, S!Main
    PROVE  /\ nread' = nread \/ Reads
           /\ \/ \A t \in Threads : swire'[t] = swire[t] /\ oq'[t] = oq[t]
              \/ \E p \in Threads : \E m \in FromServer : One(p, m)
<1>1. nread' = nread \/ Reads
  BY ReadMessageIs, PeerListIs, OtherwiseSilent
<1>2. Silent \/ \E m \in FromServer : Writes(m)
  BY ReadMessageIs, PeerListIs, OtherwiseSilent
<1>3. CASE Silent
  BY <1>1, <1>3 DEF Silent
<1>4. ASSUME NEW m \in FromServer, Writes(m)
      PROVE  \/ \A t \in Threads : swire'[t] = swire[t] /\ oq'[t] = oq[t]
             \/ \E p \in Threads : One(p, m)
  <2>1. PICK p : (p = cur \/ state[p] = "open") /\ S!Send(p, m)
    BY <1>4 DEF Writes
  <2>2. /\ \A u \in Threads : u # p => swire'[u] = swire[u] /\ oq'[u] = oq[u]
        /\ p \in Threads =>
              /\ swire'[p] \o oq'[p] = Append(swire[p] \o oq[p], m)
              /\ Len(swire[p]) <= Len(swire'[p])
              /\ \A i \in 1..Len(swire[p]) : swire'[p][i] = swire[p][i]
    BY <2>1, SendIs DEF MainType
  <2>3. CASE p \notin Threads
    BY <2>2, <2>3
  <2>4. CASE p \in Threads
    <3>1. One(p, m)
      BY <1>4, <2>1, <2>2, <2>4 DEF One, Stream, Writes
    <3> QED BY <2>4, <3>1
  <2> QED BY <2>3, <2>4
<1> QED BY <1>1, <1>2, <1>3, <1>4

LEMMA MainUses ==
    ASSUME S!Main, MainType
    PROVE  \A t \in Threads : t \in batch' \cup ready' \cup {cur'} =>
               t \in batch \cup ready \cup {cur} \/ state[t] = "backlog"
<1> SUFFICES ASSUME NEW t \in Threads, t \in batch' \cup ready' \cup {cur'}
             PROVE  t \in batch \cup ready \cup {cur} \/ state[t] = "backlog"
  OBVIOUS
<1>1. CASE S!ReadMessage \/ S!PeerList
  BY <1>1 DEF S!ReadMessage, S!PeerList
<1>2. CASE S!ClearPeer \/ S!ReadFail
  BY <1>2 DEF S!ClearPeer, S!ReadFail, S!Destroy, S!Unwatched, S!loopVars
<1>3. CASE \E p \in Threads : S!Accept(p)
  BY <1>3 DEF S!Accept
<1>4. CASE S!EpollWait \/ S!HandleEvent
  BY <1>4 DEF S!EpollWait, S!HandleEvent
<1>5. CASE ~S!ReadMessage /\ ~S!PeerList /\ ~S!ClearPeer /\ ~S!ReadFail
           /\ (\A p \in Threads : ~S!Accept(p)) /\ ~S!EpollWait /\ ~S!HandleEvent
  BY <1>5
  DEF S!Main, S!SigAlarm, S!CheckTimeout, S!ClearDone, S!Enter, S!BatchDone, S!AcceptAgain,
      S!AcceptError, S!PeerListDone, S!ReadAgain
<1> QED BY <1>1, <1>2, <1>3, <1>4, <1>5

LEMMA ServerUses == ASSUME BallInv, UseInv, ServerStep PROVE UseInv'
<1>1. S!Main /\ tpc' = tpc /\ MainType
  BY ServerLeaves DEF BallInv
<1> SUFFICES ASSUME NEW t \in Threads, tpc[t] \in {"none", "connect"}
             PROVE  /\ t \notin batch' \cup ready' \cup {cur'}
                    /\ state'[t] \in {"none", "gone"}
                    /\ swire'[t] = <<>> /\ oq'[t] = <<>>
  BY <1>1 DEF UseInv
<1>2. /\ t \notin batch \cup ready \cup {cur} /\ state[t] \in {"none", "gone"}
      /\ swire[t] = <<>> /\ oq[t] = <<>>
  BY DEF UseInv
<1>3. t \notin batch' \cup ready' \cup {cur'}
  BY <1>1, <1>2, MainUses
<1>4. state'[t] \in {"none", "gone"}
  BY <1>1, <1>2, MainControl DEF Moves
<1>5. swire'[t] = <<>> /\ oq'[t] = <<>>
  <2>1. CASE \A u \in Threads : swire'[u] = swire[u] /\ oq'[u] = oq[u]
    BY <2>1, <1>2
  <2>2. ASSUME NEW p \in Threads, NEW m, One(p, m) PROVE swire'[t] = <<>> /\ oq'[t] = <<>>
    <3>1. t # p
      BY <1>2, <2>2 DEF One
    <3> QED BY <1>2, <2>2, <3>1 DEF One
  <2> QED BY <2>1, <2>2, <1>1, MainWrites
<1> QED BY <1>3, <1>4, <1>5

(* In the client's steps.                                                  *)
LEMMA ClientUses ==
    ASSUME BallInv, UseInv, [BallNext]_ballVars, ~ServerStep
    PROVE  UseInv' /\ UNCHANGED <<swire, oq, nread>>
<1>0. Kinds /\ MainType /\ OutType
  BY DEF BallInv, IInv
<1>1. CASE Aside
  <2>1. UNCHANGED <<batch, ready, cur, state, swire, oq, nread>>
    BY <1>1, AsideIs DEF otherVars, mainVars
  <2>2. \A t \in Threads : tpc'[t] \in {"none", "connect"} => tpc[t] \in {"none", "connect"}
    <3>1. CASE UNCHANGED ballVars
      BY <3>1 DEF ballVars, vars
    <3>2. CASE GuiStep
      BY <3>2, <1>0, GuiQuiet DEF GuiStep, InGui
    <3>3. ASSUME NEW t \in Threads, ThreadRefused(t) \/ SocketDrains(t) \/ ServerGone(t)
          PROVE  tpc' = tpc \/ tpc' = [tpc EXCEPT ![t] = "dead"]
      BY <3>3 DEF ThreadRefused, ConnectFailed, Goes, SocketDrains, ServerGone, clientOwn
    <3> QED BY <3>1, <3>2, <3>3, <1>0, <1>1 DEF Aside, Kinds
  <2> QED BY <2>1, <2>2 DEF UseInv
<1>2. ASSUME NEW t \in Threads, ThreadConnects(t) PROVE UseInv' /\ UNCHANGED <<swire, oq, nread>>
  <2>1. /\ UNCHANGED <<batch, cur, swire, oq, nread>> /\ tpc' = [tpc EXCEPT ![t] = "top"]
        /\ state' = [state EXCEPT ![t] = "backlog"] /\ ready' = ready \cup {Listen}
    BY <1>2 DEF ThreadConnects, mainVars, Connected, Goes, S!Connect
  <2> QED BY <2>1, <1>0, Constants DEF UseInv, Kinds, MainType
<1>3. ASSUME NEW t \in Threads, ThreadStep(t) \/ ClientGone(t)
      PROVE  UseInv' /\ UNCHANGED <<swire, oq, nread>>
  <2>1. /\ UNCHANGED <<batch, cur, swire, oq, nread, state>>
        /\ ready' \subseteq ready \cup ({t} \cap S!Open)
    BY <1>3 DEF ThreadStep, ClientGone, mainVars, Noticed
  <2>2. \A u \in Threads : tpc'[u] \in {"none", "connect"} => tpc[u] \in {"none", "connect"}
    <3>1. CASE ThreadStep(t)
      BY <3>1, <1>0, LoopWrites DEF ThreadStep
    <3>2. CASE ClientGone(t)
      BY <3>2 DEF ClientGone, vars
    <3> QED BY <3>1, <3>2, <1>3
  <2> QED BY <2>1, <2>2 DEF UseInv, S!Open
<1> QED BY <1>1, <1>2, <1>3 DEF BallNext, Aside

-----------------------------------------------------------------------------
(* The order of what is written.                                           *)

(* Of two chats that came over one connection the first was read first.    *)
Older(m, n) ==
    m \in Written /\ n \in Written /\ m.id[1] = n.id[1] => m.id[2] < n.id[2]

StreamInv ==
    /\ \A t \in Threads : nread[t] <= Len(sent[t])
    /\ \A t \in Threads : \A m \in Elements(Stream(t)) :
          m \in Written => m.id[2] <= nread[m.id[1]]
    /\ \A t \in Threads : \A i, j \in 1..Len(Stream(t)) :
          i < j => Older(Stream(t)[i], Stream(t)[j])

LEMMA WrittenIs ==
    \A m \in Written : m.type = "CHART" /\ m.id[1] \in Threads /\ m.id[2] \in Nat \ {0}
  BY DEF Written

LEMMA StreamIs ==
    ASSUME MainType, NEW t \in Threads
    PROVE  /\ Stream(t) \in Seq(FromServer)
           /\ Len(Stream(t)) \in Nat /\ Len(swire[t]) \in Nat /\ Len(swire[t]) <= Len(Stream(t))
           /\ \A i \in 1..Len(swire[t]) : Stream(t)[i] = swire[t][i]
<1> DEFINE w == swire[t]
           o == oq[t]
<1>1. w \in Seq(FromServer) /\ o \in Seq(FromServer)
  BY DEF MainType
<1> HIDE DEF w, o
<1>2. Len(w) \in Nat /\ Len(o) \in Nat
  BY <1>1, LenProperties
<1>3. w \o o \in Seq(FromServer) /\ Len(w \o o) = Len(w) + Len(o)
  BY <1>1, ConcatProperties
<1>4. \A i \in 1..Len(w) : (w \o o)[i] = w[i]
  BY <1>1, <1>2, ConcatProperties
<1>5. Stream(t) = w \o o
  BY DEF Stream, w, o
<1>6. Len(w \o o) \in Nat /\ Len(w) <= Len(w \o o)
  BY <1>2, <1>3
<1> QED BY <1>2, <1>3, <1>4, <1>5, <1>6 DEF w

(* A chat the server writes is behind all it wrote before.                 *)
LEMMA NewestIs ==
    ASSUME BallInv, StreamInv, NEW m \in Written, Reads, m = sent[cur][nread[cur] + 1]
    PROVE  /\ m.id[1] = cur /\ m.id[2] = nread[cur] + 1
           /\ m.id[2] <= nread'[m.id[1]]
           /\ \A t \in Threads : \A n \in Elements(Stream(t)) : Older(n, m)
<1>1. cur \in Threads /\ nread[cur] \in Nat /\ nread[cur] < Len(sent[cur])
      /\ nread' = [nread EXCEPT ![cur] = nread[cur] + 1] /\ nread \in [Threads -> Nat]
  BY DEF Reads, BallInv, MainType
<1>2. Len(sent[cur]) \in Nat
  BY <1>1, LenProperties DEF BallInv, MainType
<1> DEFINE i == nread[cur] + 1
<1>3. i \in 1..Len(sent[cur])
  BY <1>1, <1>2
<1>4. m = AtServer(asked[wire[cur][i]], cur, i)
  BY <1>1, <1>3 DEF BallInv, ConnInv
<1> HIDE DEF i
<1>5. m.id = <<cur, i>>
  <2> DEFINE a == asked[wire[cur][i]]
  <2>1. m.type # "LOGIN"
    BY WrittenIs
  <2>2. m = AtServer(a, cur, i)
    BY <1>4
  <2> HIDE DEF a
  <2>3. a.type # "LOGIN"
    BY <2>1, <2>2 DEF AtServer
  <2> QED BY <2>2, <2>3 DEF AtServer
<1>6. m.id[1] = cur /\ m.id[2] = i /\ nread'[cur] = i
  BY <1>1, <1>5 DEF i
<1>7. ASSUME NEW t \in Threads, NEW n \in Elements(Stream(t)), n \in Written, n.id[1] = m.id[1]
      PROVE  n.id[2] < m.id[2]
  <2>1. n.id[2] <= nread[cur] /\ n.id[2] \in Nat
    BY <1>6, <1>7, WrittenIs DEF StreamInv
  <2> QED BY <2>1, <1>1, <1>6 DEF i
<1> QED BY <1>1, <1>6, <1>7 DEF Older, i

LEMMA StreamKeeps == ASSUME BallInv, StreamInv, ServerStep PROVE StreamInv'
<1>1. S!Main /\ MainType /\ sent' = sent /\ nread \in [Threads -> Nat]
  BY ServerLeaves DEF BallInv, MainType
<1>2. nread' = nread \/ Reads
  BY <1>1, MainWrites
<1>3. ASSUME NEW t \in Threads
      PROVE  nread[t] \in Nat /\ nread'[t] \in Nat /\ nread[t] <= nread'[t]
             /\ nread'[t] <= Len(sent'[t])
  <2>1. nread[t] \in Nat /\ Len(sent[t]) \in Nat /\ nread[t] <= Len(sent[t])
    BY LenProperties, <1>1 DEF BallInv, MainType, StreamInv
  <2>2. CASE nread' = nread
    BY <2>1, <2>2, <1>1
  <2>3. CASE Reads
    <3>1. nread'[t] = IF t = cur THEN nread[t] + 1 ELSE nread[t]
      BY <2>3, <1>1 DEF Reads
    <3> QED BY <2>1, <2>3, <3>1, <1>1 DEF Reads
  <2> QED BY <2>2, <2>3, <1>2
<1>4. ASSUME NEW t \in Threads, NEW m \in Elements(Stream(t)), m \in Written
      PROVE  m.id[2] <= nread'[m.id[1]]
  <2>1. m.id[1] \in Threads /\ m.id[2] \in Nat
    BY <1>4, WrittenIs
  <2>2. m.id[2] <= nread[m.id[1]]
    BY <1>4 DEF StreamInv
  <2> QED BY <2>1, <2>2, <1>3
<1>5. CASE \A t \in Threads : swire'[t] = swire[t] /\ oq'[t] = oq[t]
  <2>1. \A t \in Threads : Stream(t)' = Stream(t)
    BY <1>5 DEF Stream
  <2> QED BY <2>1, <1>3, <1>4 DEF StreamInv, Older
<1>6. ASSUME NEW p \in Threads, NEW m \in FromServer, One(p, m) PROVE StreamInv'
  <2> DEFINE s == Stream(p)
  <2>1. s \in Seq(FromServer) /\ Len(s) \in Nat
    BY <1>1, StreamIs
  <2>2. Stream(p)' = Append(s, m) /\ \A t \in Threads : t # p => Stream(t)' = Stream(t)
    BY <1>6 DEF One, Stream
  <2>3. /\ Len(Append(s, m)) = Len(s) + 1
        /\ \A k \in 1..Len(s) : Append(s, m)[k] = s[k]
        /\ Append(s, m)[Len(s) + 1] = m
    <3> HIDE DEF s
    <3> QED BY <2>1, AppendOf
  <2>4. m \in Written => /\ m.id[2] <= nread'[m.id[1]]
                         /\ \A n \in Elements(s) : Older(n, m)
    BY <1>6, NewestIs DEF One
  <2> HIDE DEF s
  <2>5. \A n \in Elements(Stream(p)') : n \in Elements(s) \/ n = m
    <3>1. \A k \in 1..(Len(s) + 1) : k \in 1..Len(s) \/ k = Len(s) + 1
      BY <2>1
    <3> QED BY <2>2, <2>3, <3>1 DEF Elements
  <2>6. \A t \in Threads : \A n \in Elements(Stream(t)') :
            n \in Written => n.id[2] <= nread'[n.id[1]]
    BY <2>2, <2>4, <2>5, <1>4 DEF s
  <2>7. ASSUME NEW i \in 1..(Len(s) + 1), NEW j \in 1..(Len(s) + 1), i < j
        PROVE  Older(Append(s, m)[i], Append(s, m)[j])
    <3>1. i \in 1..Len(s)
      BY <2>1, <2>7
    <3>2. CASE j \in 1..Len(s)
      BY <3>1, <3>2, <2>3, <2>7 DEF StreamInv, s
    <3>3. CASE j = Len(s) + 1
      <4>1. Append(s, m)[i] \in Elements(s) /\ Append(s, m)[j] = m
        BY <3>1, <3>3, <2>3 DEF Elements
      <4> QED BY <4>1, <2>4 DEF Older
    <3> QED BY <2>1, <3>2, <3>3
  <2>8. \A t \in Threads : \A i, j \in 1..Len(Stream(t)') :
            i < j => Older(Stream(t)'[i], Stream(t)'[j])
    BY <2>2, <2>3, <2>7 DEF StreamInv
  <2> QED BY <1>3, <2>6, <2>8 DEF StreamInv, Older
<1> QED BY <1>1, <1>5, <1>6, MainWrites

(* What the client was told is what went out to it, from the beginning.    *)
SpokenInv ==
    \A t \in Threads :
        /\ Len(said[t]) <= Len(swire[t])
        /\ \A i \in 1..Len(said[t]) : said[t][i] = AtClient(swire[t][i])
        /\ alive /\ Served(t) => Len(said[t]) = Len(swire[t])

(* When the threads run in turn, what one has heard was read before what   *)
(* the server still writes to a later one.                                 *)
OrderInv ==
    \A t, u \in Threads : t < u =>
        \A i \in 1..Len(said[t]) : \A n \in Elements(Stream(u)) : Older(swire[t][i], n)

(* The packets come to the GTK thread in the order of the threads.         *)
WayInv ==
    /\ \A i, j \in 1..Len(Way) : i < j => Way[i].thread <= Way[j].thread
    /\ \A x \in Elements(Way) : tpc[x.thread] # "none"

TurnsInv == TurnInv /\ UseInv /\ StreamInv /\ SpokenInv /\ OrderInv /\ WayInv

(* What the server writes stays.                                           *)
LEMMA SwireKeeps ==
    ASSUME MainType, MainType', S!Main, NEW t \in Threads
    PROVE  /\ Len(swire[t]) \in Nat /\ Len(swire'[t]) \in Nat /\ Len(swire[t]) <= Len(swire'[t])
           /\ \A i \in 1..Len(swire[t]) : swire'[t][i] = swire[t][i]
<1>1. Len(swire[t]) \in Nat /\ Len(swire'[t]) \in Nat /\ Len(swire[t]) <= Len(swire'[t])
  BY SwireGrows, LenProperties DEF MainType
<1>2. \A i \in 1..Len(swire[t]) : swire'[t][i] = swire[t][i]
  <2>1. CASE \A u \in Threads : swire'[u] = swire[u] /\ oq'[u] = oq[u]
    BY <2>1
  <2>2. ASSUME NEW p \in Threads, NEW m \in FromServer, One(p, m) PROVE <1>2
    BY <2>2 DEF One
  <2> QED BY <2>1, <2>2, MainWrites
<1> QED BY <1>1, <1>2

(* What a step of the server tells a thread.                               *)
LEMMA ServerTells ==
    ASSUME BallInv, MainType', SpokenInv, ServerStep, NEW t \in Threads
    PROVE  /\ Len(said[t]) \in Nat
           /\ \/ said'[t] = said[t] /\ ~(alive /\ Served(t))
              \/ /\ Live(t) /\ Len(said'[t]) = Len(swire'[t])
                 /\ \A i \in 1..Len(said'[t]) : said'[t][i] = AtClient(swire'[t][i])
<1> DEFINE a == Len(swire[t])
           b == Len(swire'[t])
           s == said[t]
           new == [i \in 1..(b - a) |-> AtClient(swire'[t][a + i])]
<1>1. S!Main /\ MainType
  BY ServerLeaves DEF BallInv
<1>2. /\ a \in Nat /\ b \in Nat /\ a <= b
      /\ \A i \in 1..a : swire'[t][i] = swire[t][i]
  BY <1>1, SwireKeeps
<1>3. s \in Seq(Heards) /\ Len(s) \in Nat
  BY LenProperties DEF BallInv, HeardInv
<1>4. CASE ~(alive /\ Served(t))
  <2>1. said'[t] = said[t]
    BY <1>4 DEF ServerStep
  <2> QED BY <2>1, <1>3, <1>4
<1>5. CASE alive /\ Served(t)
  <2>1. said'[t] = s \o new
    BY <1>5 DEF ServerStep
  <2>2. Len(s) = a /\ \A i \in 1..a : s[i] = AtClient(swire[t][i])
    BY <1>5 DEF SpokenInv
  <2>3. b - a \in Nat /\ \A i \in 1..(b - a) : new[i] = AtClient(swire'[t][a + i])
    BY <1>2
  <2>4. new \in Seq({new[i] : i \in 1..(b - a)}) /\ Len(new) = b - a
    <3> DEFINE T == {new[i] : i \in 1..(b - a)}
    <3>1. new \in [1..(b - a) -> T]
      OBVIOUS
    <3> DEFINE n == b - a
    <3>2. n \in Nat /\ new \in [1..n -> T]
      BY <2>3, <3>1
    <3> HIDE DEF new, T, n
    <3>3. new \in Seq(T) /\ Len(new) = n
      BY <3>2, SeqOf
    <3> QED BY <3>3 DEF T, n
  <2> DEFINE T == Heards \cup {new[i] : i \in 1..(b - a)}
  <2>5. s \in Seq(T) /\ new \in Seq(T)
    <3> HIDE DEF new, s
    <3> QED BY <1>3, <2>4, SeqMonotonic
  <2> HIDE DEF new, s, T
  <2>6. /\ Len(s \o new) = Len(s) + Len(new)
        /\ \A i \in 1..(Len(s) + Len(new)) :
              (s \o new)[i] = IF i <= Len(s) THEN s[i] ELSE new[i - Len(s)]
    BY <2>5, ConcatProperties
  <2> HIDE DEF a, b
  <2>7. ASSUME NEW i \in 1..b PROVE (s \o new)[i] = AtClient(swire'[t][i])
    <3>0. i \in 1..(Len(s) + Len(new))
      BY <2>2, <2>4, <1>2
    <3>1. CASE i <= a
      <4>1. i \in 1..a
        BY <3>1, <1>2
      <4> QED BY <4>1, <3>0, <2>2, <2>6, <1>2
    <3>2. CASE ~(i <= a)
      <4>1. i - a \in 1..(b - a) /\ a + (i - a) = i
        BY <3>2, <1>2
      <4>2. (s \o new)[i] = new[i - a]
        BY <3>2, <3>0, <2>2, <2>6
      <4>3. new[i - a] = AtClient(swire'[t][a + (i - a)])
        BY <4>1, <2>3
      <4> QED BY <4>1, <4>2, <4>3
    <3> QED BY <3>1, <3>2
  <2>8. Len(s \o new) = b
    BY <2>2, <2>4, <2>6, <1>2
  <2>9. Live(t)
    BY <1>5 DEF Served
  <2> QED BY <2>1, <2>7, <2>8, <2>9, <1>3 DEF b, s
<1> QED BY <1>4, <1>5

LEMMA ServerSpeaks ==
    ASSUME BallInv, MainType', SpokenInv, ServerStep PROVE SpokenInv'
<1>1. S!Main /\ MainType /\ UNCHANGED <<alive, tpc>>
  BY ServerLeaves DEF BallInv
<1> SUFFICES ASSUME NEW t \in Threads
             PROVE  /\ Len(said'[t]) <= Len(swire'[t])
                    /\ \A i \in 1..Len(said'[t]) : said'[t][i] = AtClient(swire'[t][i])
                    /\ alive' /\ Served(t)' => Len(said'[t]) = Len(swire'[t])
  BY DEF SpokenInv, AtClient
<1>2. /\ Len(swire[t]) \in Nat /\ Len(swire'[t]) \in Nat /\ Len(swire[t]) <= Len(swire'[t])
      /\ \A i \in 1..Len(swire[t]) : swire'[t][i] = swire[t][i]
  BY <1>1, SwireKeeps
<1>3. alive' /\ Served(t)' => alive /\ Served(t)
  <2>1. closed[t] => closed'[t]
    BY DEF ServerStep
  <2> QED BY <2>1, <1>1 DEF Served, Live
<1>4. CASE said'[t] = said[t] /\ ~(alive /\ Served(t))
  <2>1. Len(said[t]) \in Nat
    BY ServerTells
  <2>2. Len(said[t]) <= Len(swire[t])
        /\ \A i \in 1..Len(said[t]) : said[t][i] = AtClient(swire[t][i])
    BY DEF SpokenInv
  <2> QED BY <2>1, <2>2, <1>2, <1>3, <1>4
<1>5. CASE /\ Len(said'[t]) = Len(swire'[t])
           /\ \A i \in 1..Len(said'[t]) : said'[t][i] = AtClient(swire'[t][i])
  BY <1>2, <1>5
<1> QED BY <1>4, <1>5, ServerTells

(* A thread is told of packets only while no later one was started.        *)
LEMMA ServerOrders ==
    ASSUME BallInv, MainType', UseInv', TurnsInv, ServerStep PROVE OrderInv'
<1>1. S!Main /\ MainType /\ UNCHANGED <<alive, tpc>>
  BY ServerLeaves DEF BallInv
<1>2. SpokenInv /\ StreamInv /\ OrderInv /\ TurnInv
  BY DEF TurnsInv
<1> SUFFICES ASSUME NEW t \in Threads, NEW u \in Threads, t < u,
                    NEW i \in 1..Len(said'[t]), NEW n \in Elements(Stream(u)')
             PROVE  Older(swire'[t][i], n)
  BY DEF OrderInv, Older
<1>3. CASE Live(t)
  <2>1. ~(u <= t)
    BY ClientAssumption DEF Threads
  <2>2. tpc[u] = "none"
    BY <2>1, <1>2, <1>3 DEF TurnInv
  <2>3. swire'[u] = <<>> /\ oq'[u] = <<>>
    BY <2>2, <1>1 DEF UseInv
  <2>4. Stream(u)' = <<>> \o <<>>
    BY <2>3 DEF Stream
  <2>5. Stream(u)' = <<>>
    BY <2>4, EmptySeq, ConcatEmptySeq
  <2>6. Len(<<>>) = 0
    OBVIOUS
  <2>7. Elements(Stream(u)') = {}
    BY <2>5, <2>6 DEF Elements
  <2> QED BY <2>7
<1>4. CASE said'[t] = said[t]
  <2>1. Len(said[t]) \in Nat /\ Len(said[t]) <= Len(swire[t])
    BY <1>2, ServerTells DEF SpokenInv
  <2>2. /\ Len(swire[t]) \in Nat
        /\ \A k \in 1..Len(swire[t]) : swire'[t][k] = swire[t][k]
    BY <1>1, SwireKeeps
  <2>3. i \in 1..Len(said[t]) /\ i \in 1..Len(swire[t]) /\ swire'[t][i] = swire[t][i]
    BY <2>1, <2>2, <1>4
  <2>4. swire[t][i] \in Elements(Stream(t))
    <3>1. Len(Stream(t)) \in Nat /\ Len(swire[t]) <= Len(Stream(t))
          /\ Stream(t)[i] = swire[t][i]
      BY <1>1, <2>3, StreamIs
    <3>2. i \in 1..Len(Stream(t))
      BY <3>1, <2>2, <2>3
    <3> QED BY <3>1, <3>2 DEF Elements
  <2>5. CASE n \in Elements(Stream(u))
    BY <2>3, <2>5, <1>2 DEF OrderInv
  <2>6. CASE n \notin Elements(Stream(u))
    <3>1. \E p \in Threads : \E m \in FromServer : One(p, m)
      <4>1. CASE \A v \in Threads : swire'[v] = swire[v] /\ oq'[v] = oq[v]
        <5>1. Stream(u)' = Stream(u)
          BY <4>1 DEF Stream
        <5> QED BY <5>1, <2>6
      <4> QED BY <4>1, <1>1, MainWrites
    <3>2. PICK p \in Threads, m \in FromServer : One(p, m)
      BY <3>1
    <3>3. n = m
      <4>1. u = p
        <5>1. u # p => Stream(u)' = Stream(u)
          BY <3>2 DEF One, Stream
        <5> QED BY <5>1, <2>6
      <4> DEFINE s == Stream(u)
      <4>2. s \in Seq(FromServer) /\ Len(s) \in Nat /\ Stream(u)' = Append(s, m)
        BY <4>1, <3>2, <1>1, StreamIs DEF One
      <4> HIDE DEF s
      <4>3. /\ Len(Append(s, m)) = Len(s) + 1
            /\ \A k \in 1..Len(s) : Append(s, m)[k] = s[k]
            /\ Append(s, m)[Len(s) + 1] = m
        BY <4>2, AppendOf
      <4>4. PICK k \in 1..(Len(s) + 1) : n = Append(s, m)[k]
        BY <4>2, <4>3 DEF Elements
      <4>5. ~(k \in 1..Len(s))
        BY <4>3, <4>4, <2>6 DEF Elements, s
      <4>6. k = Len(s) + 1
        BY <4>2, <4>5
      <4> QED BY <4>3, <4>4, <4>6
    <3>4. CASE m \in Written
      <4>1. Reads /\ m = sent[cur][nread[cur] + 1]
        BY <3>2, <3>4 DEF One
      <4> QED BY <4>1, <3>3, <3>4, <2>3, <2>4, <1>2, NewestIs
    <3> QED BY <3>3, <3>4 DEF Older
  <2> QED BY <2>5, <2>6
<1> QED BY <1>2, <1>3, <1>4, ServerTells

LEMMA SentGrows ==
    ASSUME BallInv, [BallNext]_ballVars, ~ServerStep, NEW t \in Threads
    PROVE  /\ Len(sent[t]) <= Len(sent'[t])
           /\ \A i \in 1..Len(sent[t]) : sent'[t][i] = sent[t][i]
<1>1. sent[t] \in Seq(FromClient) /\ Len(sent[t]) \in Nat /\ sent \in [Threads -> Seq(FromClient)]
  BY LenProperties DEF BallInv, MainType
<1>2. CASE sent' = sent
  BY <1>1, <1>2
<1>3. CASE Aside
  BY <1>3, AsideIs, <1>2 DEF otherVars
<1>4. ASSUME NEW u \in Threads, ThreadConnects(u) \/ ClientGone(u) PROVE sent' = sent
  BY <1>4 DEF ThreadConnects, ClientGone
<1>5. ASSUME NEW u \in Threads, ThreadStep(u)
      PROVE  /\ Len(sent[t]) <= Len(sent'[t])
             /\ \A i \in 1..Len(sent[t]) : sent'[t][i] = sent[t][i]
  <2>1. CASE ~AtBoth(u) \/ t # u
    <3>1. sent'[t] = sent[t]
      BY <1>1, <1>5, <2>1 DEF ThreadStep, Arrives
    <3> QED BY <1>1, <3>1
  <2>2. CASE AtBoth(u) /\ t = u
    <3>1. IInv'
      BY OutKeeps DEF BallInv
    <3>2. PICK n \in Nat : \E s \in [1..n -> FromClient] : Comes(u, n, s)
      BY <1>5, <2>2, <3>1, ThreadSends DEF BallInv
    <3>3. PICK s \in [1..n -> FromClient] : Comes(u, n, s)
      BY <3>2
    <3>4. s \in Seq(FromClient) /\ Len(s) = n
      BY SeqOf
    <3>5. sent'[t] = sent[t] \o s
      BY <1>1, <2>2, <3>3 DEF Comes
    <3> DEFINE a == sent[t]
    <3>6. a \in Seq(FromClient) /\ Len(a) \in Nat
      BY <1>1
    <3> HIDE DEF a
    <3>7. Len(a \o s) = Len(a) + n /\ \A i \in 1..Len(a) : (a \o s)[i] = a[i]
      BY <3>4, <3>6, ConcatProperties
    <3> QED BY <3>5, <3>6, <3>7 DEF a
  <2> QED BY <2>1, <2>2
<1> QED BY <1>2, <1>3, <1>4, <1>5 DEF BallNext, Aside

(* The client's own steps.                                                 *)
LEMMA ClientEnds ==
    ASSUME Kinds, [BallNext]_ballVars, ~ServerStep
    PROVE  (alive' => alive) /\ \A t \in Threads : closed[t] => closed'[t]
<1>1. CASE UNCHANGED ballVars
  BY <1>1 DEF ballVars, vars
<1>2. CASE GuiStep
  BY <1>2 DEF GuiStep, InGui
<1>3. ASSUME NEW t \in Threads, ThreadConnects(t) \/ ThreadRefused(t) \/ ThreadStep(t)
      PROVE  alive /\ \A u \in Threads : closed[u] => closed'[u]
  <2>1. alive /\ Transfer(t)
    BY <1>3 DEF ThreadConnects, ThreadRefused, ThreadStep, Transfer
  <2>2. CASE Exit(t)
    BY <2>1, <2>2 DEF Exit, Kinds
  <2>3. CASE ~Exit(t)
    <3>1. closed' = closed
      BY <2>1, <2>3
      DEF Transfer, Connected, ConnectFailed, Loop, LoopTop, CheckNeed, Splice, WaitEvent,
          WaitTimeout, GetFinish, GetDone, Output, Collect, serverVars
    <3> QED BY <2>1, <3>1
  <2> QED BY <2>2, <2>3
<1>4. ASSUME NEW t \in Threads, SocketDrains(t)
      PROVE  alive /\ \A u \in Threads : closed[u] => closed'[u]
  BY <1>4 DEF SocketDrains, Drain
<1>5. ASSUME NEW t \in Threads, ServerGone(t)
      PROVE  alive /\ \A u \in Threads : closed[u] => closed'[u]
  BY <1>5 DEF ServerGone, Kinds
<1>6. ASSUME NEW t \in Threads, ClientGone(t) PROVE UNCHANGED vars
  BY <1>6 DEF ClientGone
<1> QED BY <1>1, <1>2, <1>3, <1>4, <1>5, <1>6 DEF BallNext, vars

(* What a thread has collected goes behind what those before it have.      *)
LEMMA WayKeeps ==
    ASSUME ~Hasty, BallInv, TurnInv, WayInv, [BallNext]_ballVars PROVE WayInv'
<1>1. Way' = Way \/ \E t \in Threads : Live(t) /\ Collected(t)
  <2>1. CASE ServerStep
    BY <2>1, ServerLeaves DEF Way
  <2>2. CASE ~ServerStep
    <3>1. [Next]_vars /\ InType
      BY <2>2, Sides DEF BallInv
    <3> QED BY <3>1, StepIn DEF Passed, Received
  <2> QED BY <2>1, <2>2
<1>2. \A t \in Threads : tpc[t] # "none" => tpc'[t] # "none"
  <2>1. CASE ServerStep
    BY <2>1, ServerLeaves
  <2>2. CASE ~ServerStep
    BY <2>2, Sides, StepKinds DEF BallInv, Onward
  <2> QED BY <2>1, <2>2
<1>3. Way \in Seq(Entries) /\ Len(Way) \in Nat
  BY WayType, LenProperties DEF BallInv
<1>4. ASSUME NEW x \in Elements(Way) PROVE x.thread \in Threads
  <2>1. x \in Entries
    BY <1>3, ElementOfSeq DEF Elements
  <2> QED BY <2>1 DEF Entries
<1>5. CASE Way' = Way
  <2>1. Elements(Way') = Elements(Way)
    BY <1>5
  <2> QED BY <1>2, <1>4, <1>5, <2>1 DEF WayInv
<1>6. ASSUME NEW t \in Threads, Live(t), Collected(t) PROVE WayInv'
  <2> DEFINE w == Way
             l == inlist[t]
  <2>1. /\ w \in Seq(Entries) /\ l \in Seq(Entries) /\ Len(w) \in Nat /\ Len(l) \in Nat
        /\ Way' = w \o l
    BY <1>3, <1>6, LenProperties DEF Collected, BallInv, InType
  <2>2. \A x \in Elements(l) : x.thread = t
    BY DEF BallInv, InInv
  <2>3. \A x \in Elements(w) : x.thread \in Threads /\ x.thread <= t
    BY <1>4, <1>6 DEF WayInv, TurnInv
  <2>4. \A i, j \in 1..Len(w) : i < j => w[i].thread <= w[j].thread
    BY DEF WayInv
  <2>5. t \in Nat
    BY ClientAssumption DEF Threads
  <2> HIDE DEF w, l
  <2>6. Len(w \o l) = Len(w) + Len(l)
        /\ \A i \in 1..(Len(w) + Len(l)) :
              (w \o l)[i] = IF i <= Len(w) THEN w[i] ELSE l[i - Len(w)]
    BY <2>1, ConcatProperties
  <2>7. Elements(w \o l) = Elements(w) \cup Elements(l)
    BY <2>1, ElementsOfBoth
  <2>8. ASSUME NEW i \in 1..(Len(w) + Len(l)), NEW j \in 1..(Len(w) + Len(l)), i < j
        PROVE  (w \o l)[i].thread <= (w \o l)[j].thread
    <3>1. CASE j <= Len(w)
      <4>1. i \in 1..Len(w) /\ j \in 1..Len(w)
        BY <3>1, <2>1, <2>8
      <4> QED BY <4>1, <2>1, <2>4, <2>6, <2>8
    <3>2. CASE ~(j <= Len(w))
      <4>1. j - Len(w) \in 1..Len(l)
        BY <3>2, <2>1
      <4>2. (w \o l)[j] = l[j - Len(w)]
        BY <3>2, <2>6
      <4>3. (w \o l)[j].thread = t
        BY <4>1, <4>2, <2>2 DEF Elements
      <4>4. (w \o l)[i] \in Elements(w \o l)
        BY <2>6 DEF Elements
      <4>5. (w \o l)[i].thread <= t
        <5>1. CASE (w \o l)[i] \in Elements(w)
          BY <5>1, <2>3
        <5>2. CASE (w \o l)[i] \in Elements(l)
          BY <5>2, <2>2, <2>5
        <5> QED BY <5>1, <5>2, <4>4, <2>7
      <4> QED BY <4>3, <4>5
    <3> QED BY <3>1, <3>2
  <2>9. ASSUME NEW x \in Elements(w \o l) PROVE tpc'[x.thread] # "none"
    <3>1. CASE x \in Elements(w)
      BY <3>1, <1>2, <1>4 DEF WayInv, w
    <3>2. CASE x \in Elements(l)
      <4>1. x.thread = t /\ tpc[t] # "none"
        BY <3>2, <2>2, <1>6 DEF Live
      <4> QED BY <4>1, <1>2
    <3> QED BY <3>1, <3>2, <2>7
  <2>10. Elements(Way') = Elements(w \o l) /\ Len(Way') = Len(w) + Len(l)
    BY <2>1, <2>6
  <2> QED BY <2>1, <2>8, <2>9, <2>10 DEF WayInv
<1> QED BY <1>1, <1>5, <1>6

LEMMA TurnStays ==
    ASSUME ~Hasty, BallInv, TurnInv, [BallNext]_ballVars
    PROVE  TurnInv' /\ (Turn \/ ServerStep)
<1>1. CASE ServerStep
  <2>1. UNCHANGED <<tpc, wire, outq>>
    BY <1>1, ServerLeaves
  <2> QED BY <1>1, <2>1 DEF TurnInv, Live, Lane
<1>2. CASE ~ServerStep
  <2>1. [Next]_vars /\ tpc \in [Threads -> Places]
    BY <1>2, Sides DEF TurnInv
  <2>2. Turn
    BY <2>1, StepTurn
  <2>3. Out
    BY <2>1, StepOut DEF BallInv, IInv, Out
  <2> QED BY <2>2, <2>3, IdleLanes, TurnKeeps
<1> QED BY <1>1, <1>2

(* A thread that has ended stays so.                                       *)
LEMMA DeadStays ==
    ASSUME Kinds, OutType, [Next]_vars, NEW t \in Threads, tpc[t] = "dead"
    PROVE  tpc'[t] = "dead"
<1>1. CASE UNCHANGED vars
  BY <1>1 DEF vars
<1>2. CASE Gui
  <2>1. tpc' = tpc \/ \E u \in Threads : tpc[u] = "none" /\ tpc' = [tpc EXCEPT ![u] = "connect"]
    BY <1>2
    DEF Gui, User, LoginClick, Disconnect, Reconnect, Start, SendChat, Relogin, StatusTimer,
        Messages, Process, MessageTimer, ProcessDone, Quit, guiVars
  <2> QED BY <2>1 DEF Kinds
<1>3. ASSUME NEW u \in Threads, Transfer(u) PROVE tpc'[t] = "dead"
  <2>1. Moved(u)
    BY <1>3, TransferTurn DEF Kinds
  <2> QED BY <2>1 DEF Moved, Live
<1>4. ASSUME NEW u \in Threads, Outside(u) PROVE tpc'[t] = "dead"
  BY <1>4 DEF Outside
<1> QED BY <1>1, <1>2, <1>3, <1>4 DEF Next

(* A chat that is written is the packet that was read.                     *)
EchoInv ==
    \A t \in Threads : \A m \in Elements(Stream(t)) :
        m \in Written => m = sent[m.id[1]][m.id[2]]

LEMMA EchoKeeps == ASSUME BallInv, StreamInv, EchoInv, ServerStep PROVE EchoInv'
<1>1. S!Main /\ MainType /\ sent' = sent
  BY ServerLeaves DEF BallInv
<1>2. CASE \A t \in Threads : swire'[t] = swire[t] /\ oq'[t] = oq[t]
  <2>1. \A t \in Threads : Stream(t)' = Stream(t)
    BY <1>2 DEF Stream
  <2> QED BY <2>1, <1>1 DEF EchoInv
<1>3. ASSUME NEW p \in Threads, NEW m \in FromServer, One(p, m) PROVE EchoInv'
  <2> DEFINE s == Stream(p)
  <2>1. s \in Seq(FromServer) /\ Len(s) \in Nat
    BY <1>1, StreamIs
  <2>2. Stream(p)' = Append(s, m) /\ \A t \in Threads : t # p => Stream(t)' = Stream(t)
    BY <1>3 DEF One, Stream
  <2>3. /\ Len(Append(s, m)) = Len(s) + 1
        /\ \A k \in 1..Len(s) : Append(s, m)[k] = s[k]
        /\ Append(s, m)[Len(s) + 1] = m
    <3> HIDE DEF s
    <3> QED BY <2>1, AppendOf
  <2>4. m \in Written => m = sent[m.id[1]][m.id[2]]
    <3> SUFFICES ASSUME m \in Written PROVE m = sent[m.id[1]][m.id[2]]
      OBVIOUS
    <3>1. Reads /\ m = sent[cur][nread[cur] + 1]
      BY <1>3 DEF One
    <3>2. m.id[1] = cur /\ m.id[2] = nread[cur] + 1
      BY <3>1, NewestIs
    <3> QED BY <3>1, <3>2
  <2> HIDE DEF s
  <2>5. \A n \in Elements(Stream(p)') : n \in Elements(s) \/ n = m
    <3>1. \A k \in 1..(Len(s) + 1) : k \in 1..Len(s) \/ k = Len(s) + 1
      BY <2>1
    <3> QED BY <2>2, <2>3, <3>1 DEF Elements
  <2> QED BY <2>2, <2>4, <2>5, <1>1 DEF EchoInv, s
<1> QED BY <1>1, <1>2, <1>3, MainWrites

(* What holds of what the server reads and writes, however the threads of  *)
(* the client overlap.                                                     *)
TalkInv == UseInv /\ StreamInv /\ EchoInv /\ SpokenInv

LEMMA TalkStarts == ASSUME BallInit PROVE TalkInv
<1>1. Init /\ S!Init
  BY DEF BallInit
<1>2. \A t \in Threads : /\ nread[t] = 0 /\ sent[t] = <<>> /\ said[t] = <<>>
                         /\ swire[t] = <<>> /\ oq[t] = <<>> /\ state[t] = "none"
  BY <1>1 DEF Init, S!Init
<1>3. \A t \in Threads : Stream(t) = <<>>
  BY <1>2, EmptySeq, ConcatEmptySeq DEF Stream
<1>4. Len(<<>>) = 0
  OBVIOUS
<1>5. UseInv
  <2>1. batch = {} /\ ready = {} /\ cur = Listen
    BY <1>1 DEF S!Init
  <2> QED BY <2>1, <1>2, Constants DEF UseInv
<1>6. StreamInv /\ EchoInv /\ SpokenInv
  BY <1>2, <1>3, <1>4 DEF StreamInv, EchoInv, SpokenInv, Elements
<1> QED BY <1>5, <1>6 DEF TalkInv

LEMMA TalkKeeps == ASSUME BallInv, BallInv', TalkInv, [BallNext]_ballVars PROVE TalkInv'
<1>1. CASE ServerStep
  BY <1>1, ServerUses, StreamKeeps, EchoKeeps, ServerSpeaks DEF TalkInv, BallInv
<1>2. CASE ~ServerStep
  <2>1. UseInv' /\ UNCHANGED <<swire, oq, nread>> /\ said' = said
    BY <1>2, ClientUses, Unsaid DEF TalkInv
  <2>2. \A t \in Threads : Stream(t)' = Stream(t)
    BY <2>1 DEF Stream
  <2>3. ASSUME NEW t \in Threads
        PROVE  /\ nread[t] \in Nat /\ Len(sent[t]) \in Nat /\ Len(sent'[t]) \in Nat
               /\ nread[t] <= Len(sent[t]) /\ Len(sent[t]) <= Len(sent'[t])
               /\ \A i \in 1..Len(sent[t]) : sent'[t][i] = sent[t][i]
    <3>1. nread[t] \in Nat /\ Len(sent[t]) \in Nat /\ Len(sent'[t]) \in Nat
          /\ nread[t] <= Len(sent[t])
      BY LenProperties DEF TalkInv, StreamInv, BallInv, MainType
    <3> QED BY <1>2, <3>1, SentGrows
  <2>4. StreamInv'
    <3>1. \A t \in Threads : nread[t] <= Len(sent'[t])
      BY <2>3
    <3> QED BY <2>1, <2>2, <3>1 DEF TalkInv, StreamInv, Older
  <2>5. EchoInv'
    <3> SUFFICES ASSUME NEW t \in Threads, NEW m \in Elements(Stream(t)), m \in Written
                 PROVE  m = sent'[m.id[1]][m.id[2]]
      BY <2>2 DEF EchoInv
    <3>1. /\ m = sent[m.id[1]][m.id[2]] /\ m.id[2] <= nread[m.id[1]]
          /\ m.id[1] \in Threads /\ m.id[2] \in Nat \ {0}
      BY WrittenIs DEF TalkInv, EchoInv, StreamInv
    <3> DEFINE u == m.id[1]
               k == m.id[2]
    <3>2. u \in Threads /\ k \in Nat \ {0} /\ k <= nread[u] /\ m = sent[u][k]
      BY <3>1
    <3> HIDE DEF u, k
    <3>3. k \in 1..Len(sent[u])
      BY <2>3, <3>2
    <3>4. m = sent'[u][k]
      BY <2>3, <3>2, <3>3
    <3> QED BY <3>4 DEF u, k
  <2>6. SpokenInv'
    <3> SUFFICES ASSUME NEW t \in Threads, alive', Served(t)'
                 PROVE  Len(said[t]) = Len(swire[t])
      BY <2>1 DEF TalkInv, SpokenInv, AtClient
    <3>1. alive /\ ~closed[t]
      BY <1>2, ClientEnds DEF BallInv, Served
    <3>2. CASE tpc[t] \in {"none", "connect"}
      <4>1. swire[t] = <<>>
        BY <3>2 DEF TalkInv, UseInv
      <4>2. Len(said[t]) <= 0 /\ Len(said[t]) \in Nat
        BY <4>1, LenProperties DEF TalkInv, SpokenInv, BallInv, HeardInv
      <4> QED BY <4>1, <4>2
    <3>3. CASE tpc[t] \notin {"none", "connect"}
      <4>1. tpc[t] # "dead"
        <5>1. tpc'[t] # "dead"
          BY DEF Served, Live
        <5>2. [Next]_vars
          BY <1>2, Sides
        <5> QED BY <5>1, <5>2, DeadStays DEF BallInv, IInv
      <4>2. Served(t)
        BY <3>1, <3>3, <4>1 DEF Served, Live
      <4> QED BY <3>1, <4>2 DEF TalkInv, SpokenInv
    <3> QED BY <3>2, <3>3
  <2> QED BY <2>1, <2>4, <2>5, <2>6 DEF TalkInv
<1> QED BY <1>1, <1>2

(* What the server reads and writes is what the client writes and reads,   *)
(* at every moment, for any number of threads.                             *)
THEOREM TalkInvariance == BallSpec => [](BallInv /\ TalkInv)
<1>1. BallInit => TalkInv
  BY TalkStarts
<1>2. BallInv /\ BallInv' /\ TalkInv /\ [BallNext]_ballVars => TalkInv'
  BY TalkKeeps
<1> QED BY <1>1, <1>2, BallInvariance, PTL DEF BallSpec

LEMMA TurnsKeep ==
    ASSUME ~Hasty, BallInv, BallInv', TurnsInv, TalkInv', [BallNext]_ballVars PROVE TurnsInv'
<1>1. TurnInv' /\ WayInv' /\ UseInv' /\ StreamInv' /\ SpokenInv'
  BY TurnStays, WayKeeps DEF TurnsInv, TalkInv
<1>2. OrderInv'
  <2>1. CASE ServerStep
    BY <1>1, <2>1, ServerOrders DEF BallInv
  <2>2. CASE ~ServerStep
    <3>1. UNCHANGED <<swire, oq>> /\ said' = said
      BY <2>2, ClientUses, Unsaid DEF TurnsInv
    <3>2. \A t \in Threads : Stream(t)' = Stream(t)
      BY <3>1 DEF Stream
    <3> QED BY <3>1, <3>2 DEF TurnsInv, OrderInv, Older
  <2> QED BY <2>1, <2>2
<1> QED BY <1>1, <1>2 DEF TurnsInv

LEMMA WayBegins ==
    ASSUME InType
    PROVE  /\ Len(Way) \in Nat /\ Len(handled) <= Len(Way)
           /\ \A k \in 1..Len(handled) : Way[k] = handled[k]
<1> DEFINE h == handled
           w == wait
           c == coming
<1>1. h \in Seq(Entries) /\ w \in Seq(Entries) /\ c \in Seq(Entries)
  BY DEF InType
<1>2. Way = (h \o w) \o c
  BY DEF Way
<1> HIDE DEF h, w, c
<1>3. Len(h) \in Nat /\ Len(w) \in Nat /\ Len(c) \in Nat
  BY <1>1, LenProperties
<1>4. h \o w \in Seq(Entries) /\ Len(h \o w) = Len(h) + Len(w)
      /\ \A k \in 1..Len(h) : (h \o w)[k] = h[k]
  BY <1>1, <1>3, ConcatProperties
<1> DEFINE v == h \o w
<1>5. v \in Seq(Entries) /\ Len(v) = Len(h) + Len(w) /\ \A k \in 1..Len(h) : v[k] = h[k]
  BY <1>4
<1> HIDE DEF v
<1>6. Len(v \o c) = Len(v) + Len(c) /\ \A k \in 1..Len(v) : (v \o c)[k] = v[k]
  <2>1. Len(v) \in Nat
    BY <1>3, <1>5
  <2>2. Len(v \o c) = Len(v) + Len(c)
    BY <1>1, <1>5, ConcatProperties
  <2>3. \A k \in 1..Len(v) : (v \o c)[k] = v[k]
    BY <1>1, <1>3, <1>5, <2>1, ConcatProperties
  <2> QED BY <2>2, <2>3
<1>7. Way = v \o c
  BY <1>2 DEF v
<1>8. \A k \in 1..Len(h) : k \in 1..Len(v)
  BY <1>3, <1>5
<1>9. Len(Way) \in Nat /\ Len(h) <= Len(Way)
  BY <1>3, <1>5, <1>6, <1>7
<1> QED BY <1>5, <1>6, <1>7, <1>8, <1>9 DEF h

LEMMA TurnsStart == ASSUME BallInit PROVE TurnsInv
<1>1. Init /\ BallInv /\ TalkInv
  BY BallStart, TalkStarts DEF BallInit
<1>2. TurnInv
  BY <1>1, PatientInit DEF PatientInv
<1>3. \A t \in Threads : said[t] = <<>>
  BY <1>1 DEF Init
<1>4. Way = <<>>
  <2>1. handled = <<>> /\ wait = <<>> /\ coming = <<>>
    BY <1>1 DEF Init
  <2> QED BY <2>1, EmptySeq, ConcatEmptySeq DEF Way
<1>5. Len(<<>>) = 0
  OBVIOUS
<1>6. OrderInv /\ WayInv
  BY <1>3, <1>4, <1>5 DEF OrderInv, WayInv, Elements
<1> QED BY <1>1, <1>2, <1>6 DEF TurnsInv, TalkInv

(* The threads of a user who waits run in turn here too.                   *)
THEOREM TurnsInvariance == ASSUME ~Hasty PROVE BallSpec => []TurnsInv
<1>1. BallInit => TurnsInv
  BY TurnsStart
<1>2. BallInv /\ BallInv' /\ TurnsInv /\ TalkInv' /\ [BallNext]_ballVars => TurnsInv'
  BY TurnsKeep
<1> QED BY <1>1, <1>2, TalkInvariance, PTL DEF BallSpec

(* A chat that is shown is one the server passed on.                       *)
LEMMA ShownIs ==
    ASSUME BallInv, TurnsInv, NEW i \in 1..Len(handled),
           said[handled[i].thread][handled[i].pos] = Chat
    PROVE  LET x == handled[i]
               m == swire[x.thread][x.pos]
           IN  /\ x.thread \in Threads /\ x.pos \in 1..Len(said[x.thread])
               /\ x.pos \in Nat /\ x.pos \in 1..Len(Stream(x.thread))
               /\ Stream(x.thread)[x.pos] = m /\ m \in Elements(Stream(x.thread))
               /\ m \in Written
               /\ m.id[1] \in Threads /\ m.id[2] \in 1..Len(wire[m.id[1]])
<1> DEFINE x == handled[i]
           t == x.thread
           m == swire[t][x.pos]
<1>1. x \in Elements(Way)
  <2>1. Elements(Way) = Elements(handled) \cup Elements(wait) \cup Elements(coming)
    BY ElementsOfWay DEF BallInv
  <2>2. x \in Elements(handled)
    BY DEF Elements
  <2> QED BY <2>1, <2>2
<1> HIDE DEF x
<1>2. t \in Threads /\ x.pos \in 1..Len(said[t])
  BY <1>1, HeardIs DEF BallInv
<1>3. /\ Len(said[t]) \in Nat /\ Len(said[t]) <= Len(swire[t])
      /\ said[t][x.pos] = AtClient(m) /\ MainType
  BY <1>2, LenProperties DEF BallInv, HeardInv, TurnsInv, SpokenInv
<1>4. /\ Len(swire[t]) \in Nat /\ Len(Stream(t)) \in Nat /\ Len(swire[t]) <= Len(Stream(t))
      /\ \A k \in 1..Len(swire[t]) : Stream(t)[k] = swire[t][k]
      /\ Stream(t) \in Seq(FromServer)
  BY <1>2, <1>3, StreamIs
<1>5. x.pos \in Nat /\ x.pos \in 1..Len(swire[t]) /\ x.pos \in 1..Len(Stream(t))
  BY <1>2, <1>3, <1>4
<1>6. Stream(t)[x.pos] = m /\ m \in Elements(Stream(t)) /\ m \in FromServer
  BY <1>4, <1>5, ElementOfSeq DEF Elements
<1> HIDE DEF m
<1>7. m \in Written
  <2>1. AtClient(m) = Chat
    BY <1>3 DEF x
  <2>2. m.type = "CHART"
    BY <2>1 DEF AtClient, Chat
  <2>3. Ok.type # "CHART" /\ Failed.type # "CHART"
    BY DEF Ok, Failed
  <2> QED BY <1>6, <2>2, <2>3 DEF FromServer
<1>8. m.id[1] \in Threads /\ m.id[2] \in Nat \ {0}
  BY <1>7, WrittenIs
<1>9. m.id[2] \in 1..Len(wire[m.id[1]])
  <2> DEFINE u == m.id[1]
  <2>1. m.id[2] <= nread[u]
    BY <1>2, <1>6, <1>7 DEF TurnsInv, StreamInv
  <2>2. nread[u] \in Nat /\ Len(sent[u]) \in Nat /\ Len(wire[u]) \in Nat
    BY <1>8, WireNumbers, LenProperties DEF BallInv, MainType
  <2>3. nread[u] <= Len(sent[u]) /\ Len(sent[u]) <= Len(wire[u])
    BY <1>8 DEF TurnsInv, StreamInv, BallInv, ConnInv
  <2> DEFINE v == m.id[2]
  <2>4. v \in Nat \ {0} /\ v <= nread[u]
    BY <2>1, <1>8
  <2> HIDE DEF u, v
  <2>5. v \in 1..Len(wire[u])
    BY <2>2, <2>3, <2>4
  <2> QED BY <2>5 DEF u, v
<1> QED BY <1>2, <1>5, <1>6, <1>7, <1>8, <1>9 DEF x, m

LEMMA ShownAre == ASSUME BallInv, TurnsInv PROVE ShownOnceInOrder
<1> DEFINE shows(i) == said[handled[i].thread][handled[i].pos] = Chat
           id(i) == swire[handled[i].thread][handled[i].pos].id
           number(i) == wire[id(i)[1]][id(i)[2]]
<1>1. ASSUME NEW i \in 1..Len(handled), NEW j \in 1..Len(handled), shows(i), shows(j), i < j
      PROVE  number(i) # number(j) /\ (id(i)[1] = id(j)[1] => number(i) < number(j))
  <2> DEFINE x == handled[i]
             y == handled[j]
             m == swire[x.thread][x.pos]
             n == swire[y.thread][y.pos]
  <2>1. /\ x.thread \in Threads /\ x.pos \in 1..Len(said[x.thread])
        /\ x.pos \in Nat /\ x.pos \in 1..Len(Stream(x.thread))
        /\ Stream(x.thread)[x.pos] = m
        /\ m \in Written
        /\ m.id[1] \in Threads /\ m.id[2] \in 1..Len(wire[m.id[1]])
    BY <1>1, ShownIs
  <2>2. /\ y.thread \in Threads
        /\ y.pos \in Nat /\ y.pos \in 1..Len(Stream(y.thread))
        /\ Stream(y.thread)[y.pos] = n /\ n \in Elements(Stream(y.thread))
        /\ n \in Written
        /\ n.id[1] \in Threads /\ n.id[2] \in 1..Len(wire[n.id[1]])
    BY <1>1, ShownIs
  <2>3. x.thread <= y.thread /\ (x.thread = y.thread => x.pos < y.pos)
    <3>1. /\ handled \in Seq(Entries) /\ wait \in Seq(Entries) /\ coming \in Seq(Entries)
          /\ Len(handled) \in Nat
      BY LenProperties DEF BallInv, InType
    <3>2. Len(handled) <= Len(Way) /\ Len(Way) \in Nat
          /\ \A k \in 1..Len(handled) : Way[k] = handled[k]
      BY WayBegins DEF BallInv
    <3>3. i \in 1..Len(Way) /\ j \in 1..Len(Way) /\ Way[i] = x /\ Way[j] = y
      BY <3>1, <3>2
    <3>4. x.thread <= y.thread
      BY <3>3, <1>1 DEF TurnsInv, WayInv
    <3>5. x.thread = y.thread => x.pos < y.pos
      BY <3>3, <1>1 DEF BallInv, InInv, Ordered
    <3> QED BY <3>4, <3>5
  <2> HIDE DEF x, y
  <2>4. Older(m, n)
    <3>1. CASE x.thread = y.thread
      BY <3>1, <2>1, <2>2, <2>3 DEF TurnsInv, StreamInv
    <3>2. CASE x.thread # y.thread
      <4>1. x.thread < y.thread
        <5>1. x.thread \in Threads /\ y.thread \in Threads
          BY <2>1, <2>2
        <5>2. x.thread \in Nat /\ y.thread \in Nat
          BY <5>1, ClientAssumption DEF Threads
        <5> QED BY <3>2, <2>3, <5>2
      <4> QED BY <4>1, <2>1, <2>2 DEF TurnsInv, OrderInv
    <3> QED BY <3>1, <3>2
  <2> HIDE DEF m, n
  <2> DEFINE a == m.id[1]
             b == n.id[1]
             k == m.id[2]
             l == n.id[2]
  <2>5. a \in Threads /\ b \in Threads /\ k \in 1..Len(wire[a]) /\ l \in 1..Len(wire[b])
        /\ (a = b => k < l)
    BY <2>1, <2>2, <2>4 DEF Older
  <2> HIDE DEF a, b, k, l
  <2>6. wire[a][k] # wire[b][l]
    <3>1. \A u, v \in Threads : \A c \in 1..Len(wire[u]), d \in 1..Len(wire[v]) :
             wire[u][c] = wire[v][d] => u = v /\ c = d
      BY WiresApart DEF BallInv
    <3>2. k \in Nat
      BY <2>5, WireNumbers DEF BallInv
    <3> QED BY <2>5, <3>1, <3>2
  <2>7. a = b => wire[a][k] < wire[b][l]
    <3>1. \A c, d \in 1..Len(wire[a]) : c < d => wire[a][c] < wire[a][d]
      BY <2>5, WireNumbers DEF BallInv
    <3> QED BY <3>1, <2>5
  <2>8. number(i) = wire[a][k] /\ number(j) = wire[b][l] /\ id(i)[1] = a /\ id(j)[1] = b
    BY DEF a, b, k, l, m, n, x, y
  <2> QED BY <2>6, <2>7, <2>8
<1> HIDE DEF shows, id, number
<1>2. \A i, j \in {k \in 1..Len(handled) : shows(k)} :
          i < j => number(i) # number(j) /\ (id(i)[1] = id(j)[1] => number(i) < number(j))
  BY <1>1
<1> QED BY <1>2, Zenon DEF ShownOnceInOrder, shows, id, number

(* If the user never clicks while a thread runs, what is written is shown  *)
(* once at most and in order (ShownOnceInOrder), through both programs:    *)
(* message_need_sended, output_queue and socket of the thread              *)
(* (gui_client.c:117, 176), the server's reading and the queue of the peer *)
(* it passes the chat to (server.c:265), msg_input_list, message_comming   *)
(* and message_wait_proc (gui_client.c:195, 475).                          *)
THEOREM ShownCorrect == ASSUME ~Hasty PROVE BallSpec => []ShownOnceInOrder
<1>1. BallInv /\ TurnsInv => ShownOnceInOrder
  BY ShownAre
<1> QED BY <1>1, BallInvariance, TurnsInvariance, PTL

-----------------------------------------------------------------------------
(* The server of S once more, with the module its invariants are proved    *)
(* in; each of its definitions is that of S.                               *)

SA == INSTANCE ServerAccountProofs WITH
        Peers <- Threads, Members <- [n \in Names |-> MemberList],
        said <- sent, wire <- swire, LoginsPerPeer <- MaxThreads,
        MaxMsgs <- MaxPackets, Burst <- MaxPackets,
        IdleMax <- 0, MaxClock <- 0, MaxEvents <- MaxThreads + 1

LEMMA SameCount == \A T : S!Cardinality(T) = SA!Cardinality(T)
BY DEF S!Cardinality, SA!Cardinality

LEMMA SameReads == (S!ReadMessage <=> SA!ReadMessage) /\ (S!PeerList <=> SA!PeerList)
<1>1. S!ReadMessage <=> SA!ReadMessage
  BY DEF S!ReadMessage, SA!ReadMessage, S!AddHead, SA!AddHead, S!AddTail, SA!AddTail,
     S!Chart, SA!Chart, S!Login, SA!Login, S!Lookup, SA!Lookup, S!Matches, SA!Matches,
     S!NewAccount, SA!NewAccount, S!Open, SA!Open, S!Position, SA!Position, S!Register,
     SA!Register, S!Remove, SA!Remove, S!Send, SA!Send, S!SendAndGo, SA!SendAndGo, S!SendTo,
     SA!SendTo, S!Touch, SA!Touch, S!Unread, SA!Unread, S!acctVars, SA!acctVars, S!outVars,
     SA!outVars
<1>2. S!PeerList <=> SA!PeerList
  BY DEF S!PeerList, SA!PeerList, S!AddTail, SA!AddTail, S!Lookup, SA!Lookup, S!Matches,
     SA!Matches, S!Open, SA!Open, S!Send, SA!Send, S!SendAndGo, SA!SendAndGo, S!SendTo,
     SA!SendTo, S!acctVars, SA!acctVars, S!outVars, SA!outVars
<1> QED BY <1>1, <1>2

LEMMA SameMain == S!Main <=> SA!Main
<1>1. S!SigAlarm <=> SA!SigAlarm
  BY DEF S!SigAlarm, SA!SigAlarm, S!Unblocked, SA!Unblocked, S!acctVars, SA!acctVars,
     S!outVars, SA!outVars
<1>2. S!CheckTimeout <=> SA!CheckTimeout
  BY DEF S!CheckTimeout, SA!CheckTimeout, S!acctVars, SA!acctVars, S!outVars, SA!outVars
<1>3. S!ClearPeer <=> SA!ClearPeer
  BY DEF S!ClearPeer, SA!ClearPeer, S!Destroy, SA!Destroy, S!HeadExpired, SA!HeadExpired,
     S!Position, SA!Position, S!Remove, SA!Remove, S!Unlisted, SA!Unlisted, S!Unwatched,
     SA!Unwatched, S!loopVars, SA!loopVars, S!outVars, SA!outVars
<1>4. S!ClearDone <=> SA!ClearDone
  BY DEF S!ClearDone, SA!ClearDone, S!HeadExpired, SA!HeadExpired, S!acctVars, SA!acctVars,
     S!outVars, SA!outVars
<1>5. S!Enter <=> SA!Enter
  BY DEF S!Enter, SA!Enter, S!acctVars, SA!acctVars, S!outVars, SA!outVars
<1>6. S!EpollWait <=> SA!EpollWait
  BY SameCount DEF S!EpollWait, SA!EpollWait, S!acctVars, SA!acctVars, S!outVars, SA!outVars
<1>7. S!HandleEvent <=> SA!HandleEvent
  BY DEF S!HandleEvent, SA!HandleEvent, S!acctVars, SA!acctVars, S!outVars, SA!outVars
<1>8. S!BatchDone <=> SA!BatchDone
  BY DEF S!BatchDone, SA!BatchDone, S!acctVars, SA!acctVars, S!outVars, SA!outVars
<1>9. S!AcceptAgain <=> SA!AcceptAgain
  BY DEF S!AcceptAgain, SA!AcceptAgain, S!acctVars, SA!acctVars, S!outVars, SA!outVars
<1>10. S!AcceptError <=> SA!AcceptError
  BY DEF S!AcceptError, SA!AcceptError, S!acctVars, SA!acctVars, S!outVars, SA!outVars
<1>11. (S!ReadMessage <=> SA!ReadMessage) /\ (S!PeerList <=> SA!PeerList)
  BY SameReads
<1>12. S!PeerListDone <=> SA!PeerListDone
  BY DEF S!PeerListDone, SA!PeerListDone, S!acctVars, SA!acctVars, S!outVars, SA!outVars
<1>13. S!ReadAgain <=> SA!ReadAgain
  BY DEF S!ReadAgain, SA!ReadAgain, S!AddTail, SA!AddTail, S!Position, SA!Position,
     S!Remove, SA!Remove, S!Touch, SA!Touch, S!Unread, SA!Unread, S!acctVars, SA!acctVars,
     S!outVars, SA!outVars
<1>14. S!ReadFail <=> SA!ReadFail
  BY DEF S!ReadFail, SA!ReadFail, S!Destroy, SA!Destroy, S!Position, SA!Position, S!Remove,
     SA!Remove, S!Unlisted, SA!Unlisted, S!Unread, SA!Unread, S!Unwatched, SA!Unwatched,
     S!outVars, SA!outVars
<1>15. \A p \in Threads : S!Accept(p) <=> SA!Accept(p)
  BY DEF S!Accept, SA!Accept, S!AddTail, SA!AddTail, S!Unread, SA!Unread, S!acctVars,
     SA!acctVars, S!outVars, SA!outVars
<1> QED BY <1>1, <1>2, <1>3, <1>4, <1>5, <1>6, <1>7, <1>8, <1>9, <1>10, <1>11, <1>12, <1>13,
       <1>14, <1>15 DEF S!Main, SA!Main

LEMMA SameClient == ASSUME NEW p \in Threads PROVE S!Client(p) <=> SA!Client(p)
<1>1. S!Connect(p) <=> SA!Connect(p)
  BY DEF S!Connect, SA!Connect
<1>2. \A s : S!Logins(s) = SA!Logins(s)
  BY SameCount DEF S!Logins, SA!Logins
<1>3. S!Sent = SA!Sent /\ S!Sent' = SA!Sent'
  BY SameCount DEF S!Sent, SA!Sent
<1>4. S!ClientSend(p) <=> SA!ClientSend(p)
  BY <1>2, <1>3 DEF S!ClientSend, SA!ClientSend, S!Packet, SA!Packet, S!Bodies, SA!Bodies,
                    S!Edge, SA!Edge
<1>5. S!ClientClose(p) <=> SA!ClientClose(p)
  BY DEF S!ClientClose, SA!ClientClose, S!Edge, SA!Edge
<1> QED BY <1>1, <1>4, <1>5 DEF S!Client, SA!Client, S!loopVars, SA!loopVars, S!acctVars,
           SA!acctVars, S!outVars, SA!outVars

LEMMA SameInit == S!Init <=> SA!Init
  BY DEF S!Init, SA!Init

LEMMA SameStep == [S!Next]_S!vars <=> [SA!Next]_SA!vars
<1>1. S!Timer <=> SA!Timer
  BY DEF S!Timer, SA!Timer, S!loopVars, SA!loopVars, S!acctVars, SA!acctVars, S!outVars,
         SA!outVars
<1>2. S!vars = SA!vars /\ S!vars' = SA!vars'
  BY DEF S!vars, SA!vars
<1> QED BY <1>1, <1>2, SameMain, SameClient DEF S!Next, SA!Next

LEMMA SameServer == S!Spec => SA!Spec
  BY SameInit, SameStep, PTL DEF S!Spec, SA!Spec

-----------------------------------------------------------------------------
(* The server keeps its promise.                                           *)

PromisedInv == BallInv /\ TalkInv /\ SA!GInv /\ SA!PromiseInv

(* What both programs keep, with the invariants of the server alone.       *)
THEOREM PromisedInvariance == BallSpec => []PromisedInv
<1>1. SA!ServerAssumption
  BY ServerAssumed DEF S!ServerAssumption, SA!ServerAssumption
<1>2. SA!Spec => [](SA!GInv /\ SA!PromiseInv)
  BY <1>1, SA!PromiseInvariance
<1>3. BallSpec => SA!Spec
  BY ClientIsServed, SameServer DEF ServerSpec
<1> QED BY <1>2, <1>3, TalkInvariance, PTL DEF PromisedInv

(* The packets of one kind, by their positions.                            *)
Of(s, type) == {i \in 1..Len(s) : s[i].type = type}

LEMMA OfIs ==
    ASSUME NEW s, Len(s) \in Nat, NEW type
    PROVE  /\ IsFiniteSet(Of(s, type)) /\ Cardinality(Of(s, type)) \in Nat
           /\ Count(s, type) = Cardinality(Of(s, type))
<1>1. IsFiniteSet(1..Len(s))
  BY FS_Interval
<1>2. Of(s, type) \in SUBSET (1..Len(s))
  BY DEF Of
<1>3. IsFiniteSet(Of(s, type))
  BY <1>1, <1>2, FS_Subset
<1>4. Count(s, type) = Cardinality(Of(s, type))
  BY DEF Count, Of
<1> QED BY <1>3, <1>4, FS_CardinalityType

(* What went out to thread t, as the client reads it.                      *)
Spoken(t) == [i \in 1..Len(swire[t]) |-> AtClient(swire[t][i])]

LEMMA KindsOf ==
    \A m \in FromServer :
        /\ m.type \in {"LOGIN_RESPOND", "PEER_LIST", "CHART"}
        /\ AtClient(m).type = m.type /\ AtClient(m) \in Replies
        /\ m.type = "CHART" => m \in Written
        /\ m.type # "CHART" => AtClient(m) = m
<1>1. \A m \in Written : m.type = "CHART" /\ AtClient(m) = Chat
  BY DEF Written, AtClient
<1>2. /\ Ok.type = "LOGIN_RESPOND" /\ Failed.type = "LOGIN_RESPOND" /\ Chat.type = "CHART"
      /\ AtClient(Ok) = Ok /\ AtClient(Failed) = Failed
      /\ Ok \in Replies /\ Failed \in Replies /\ Chat \in Replies
  BY DEF Ok, Failed, Chat, AtClient, Replies
<1>3. ASSUME NEW m \in [type : {"PEER_LIST"}, name : Rowed]
      PROVE  m.type = "PEER_LIST" /\ AtClient(m) = m /\ m \in Replies
  <2>1. m.type = "PEER_LIST" /\ m.name \in Rowed /\ m = [type |-> "PEER_LIST", name |-> m.name]
    OBVIOUS
  <2>2. PICK k \in 1..Len(MemberList) : m.name = MemberList[k]
    BY <2>1 DEF Rowed
  <2>3. Len(Rows) = Len(MemberList) /\ Rows[k] = [type |-> "PEER_LIST", name |-> MemberList[k]]
    BY Constants DEF Rows
  <2>4. m = Rows[k] /\ k \in 1..Len(Rows)
    BY <2>1, <2>2, <2>3
  <2>5. AtClient(m) = m
    BY <2>1 DEF AtClient
  <2> QED BY <2>1, <2>4, <2>5 DEF Replies
<1> QED BY <1>1, <1>2, <1>3 DEF FromServer

LEMMA SpokenIs ==
    ASSUME MainType, NEW t \in Threads
    PROVE  /\ Spoken(t) \in Seq(Replies) /\ Len(Spoken(t)) = Len(swire[t])
           /\ Len(Spoken(t)) \in Nat /\ Len(Spoken(t)) <= Len(Stream(t)) /\ Len(Stream(t)) \in Nat
           /\ \A i \in 1..Len(Spoken(t)) :
                 /\ Spoken(t)[i] = AtClient(Stream(t)[i])
                 /\ Spoken(t)[i].type = Stream(t)[i].type
                 /\ Stream(t)[i] \in FromServer
<1> DEFINE w == swire[t]
           n == Len(w)
           f == Spoken(t)
<1>1. /\ w \in Seq(FromServer) /\ n \in Nat /\ n <= Len(Stream(t)) /\ Len(Stream(t)) \in Nat
      /\ Stream(t) \in Seq(FromServer) /\ \A i \in 1..n : Stream(t)[i] = w[i]
  BY StreamIs DEF MainType
<1>2. \A i \in 1..n : w[i] \in FromServer
  BY <1>1, ElementOfSeq
<1>3. f \in [1..n -> Replies] /\ \A i \in 1..n : f[i] = AtClient(w[i])
  BY <1>2, KindsOf DEF Spoken
<1> HIDE DEF w, n, f
<1>4. f \in Seq(Replies) /\ Len(f) = n
  BY <1>1, <1>3, SeqOf
<1>5. \A i \in 1..n : f[i] = AtClient(Stream(t)[i]) /\ Stream(t)[i] \in FromServer
  BY <1>1, <1>2, <1>3
<1>6. \A i \in 1..n : f[i].type = Stream(t)[i].type
  BY <1>5, KindsOf
<1> QED BY <1>1, <1>4, <1>5, <1>6 DEF f, n, w

(* A connection has as many LOGINs as threads were started, at the most.   *)
LEMMA LoginsFit ==
    ASSUME BallInv, NEW t \in Threads
    PROVE  /\ IsFiniteSet(Logins(t)) /\ Cardinality(Logins(t)) \in Nat
           /\ Cardinality(Logins(t)) <= MaxThreads
<1> DEFINE D == Logins(t)
           f == [i \in D |-> wire[t][i]]
<1>1. /\ Cardinality(AskedLogins) <= MaxThreads /\ IsFiniteSet(AskedLogins)
      /\ Cardinality(AskedLogins) \in Nat
  BY FewAsked, FiniteAsked DEF BallInv, IInv
<1>2. f \in [D -> AskedLogins]
  <2>1. \A i \in D : wire[t][i] \in AskedLogins
    BY WireNumbers DEF Logins, AskedLogins, BallInv
  <2> QED BY <2>1
<1>3. ASSUME NEW x \in D, NEW y \in D, f[x] = f[y] PROVE x = y
  <2>1. wire[t][x] = wire[t][y] /\ x \in 1..Len(wire[t]) /\ y \in 1..Len(wire[t])
    BY <1>3 DEF Logins
  <2> QED BY <2>1, WiresApart DEF BallInv
<1> HIDE DEF D, f
<1>4. IsFiniteSet(D) /\ Cardinality(D) <= Cardinality(AskedLogins)
  BY <1>1, <1>2, <1>3, Fits
<1>5. Cardinality(D) \in Nat
  BY <1>4, FS_CardinalityType
<1> QED BY <1>1, <1>4, <1>5, Constants DEF D

LEMMA AnswersFit ==
    ASSUME PromisedInv, NEW t \in Threads
    PROVE  Cardinality(Of(Stream(t), "LOGIN_RESPOND")) <= Cardinality(Logins(t))
<1> DEFINE A == Of(Stream(t), "LOGIN_RESPOND")
           R == {i \in 1..nread[t] : sent[t][i].type = "LOGIN"}
<1>1. \A T : SA!Cardinality(T) = Cardinality(T)
  BY DEF SA!Cardinality, Cardinality
<1>2. Cardinality(A) <= Cardinality(R)
  <2>1. SA!Cardinality(SA!Answers(SA!Stream(t))) <= SA!Cardinality(SA!LoginsRead(t))
    BY DEF PromisedInv, SA!PromiseInv, SA!AnswersInv
  <2>2. SA!Stream(t) = Stream(t)
    BY DEF SA!Stream, Stream
  <2>3. SA!Answers(Stream(t)) = A /\ SA!LoginsRead(t) = R
    BY DEF SA!Answers, SA!LoginsRead, Of
  <2> QED BY <2>1, <2>2, <2>3, <1>1
<1>3. R \in SUBSET Logins(t)
  <2>1. nread[t] <= Len(sent[t]) /\ nread[t] \in Nat /\ Len(sent[t]) \in Nat
    BY LenProperties DEF PromisedInv, TalkInv, StreamInv, BallInv, MainType
  <2>2. \A i \in 1..nread[t] : i \in 1..Len(sent[t])
    BY <2>1
  <2> QED BY <2>2, SentIs DEF Logins, PromisedInv, BallInv
<1>4. IsFiniteSet(Logins(t)) /\ Cardinality(Logins(t)) \in Nat
  BY LoginsFit DEF PromisedInv
<1> HIDE DEF R
<1>5. IsFiniteSet(R) /\ Cardinality(R) <= Cardinality(Logins(t))
  BY <1>3, <1>4, FS_Subset
<1>6. Cardinality(R) \in Nat
  BY <1>5, FS_CardinalityType
<1>7. Cardinality(A) \in Nat
  BY OfIs, StreamIs DEF PromisedInv, BallInv
<1> QED BY <1>2, <1>4, <1>5, <1>6, <1>7

LEMMA RowsAre ==
    /\ Len(Rows) = Len(MemberList) /\ Len(MemberList) \in Nat
    /\ \A k \in 1..Len(MemberList) : Rows[k] = [type |-> "PEER_LIST", name |-> MemberList[k]]
BY Constants DEF Rows

(* A packet of the member list is behind those before it and a success.    *)
LEMMA MembersAre ==
    ASSUME PromisedInv, NEW t \in Threads, NEW i \in Of(Stream(t), "PEER_LIST")
    PROVE  \E k \in 1..Len(MemberList) :
              /\ k < i /\ Stream(t)[i - k] = Ok
              /\ \A l \in 1..k : Stream(t)[i - k + l] = Rows[l]
<1> DEFINE s == Stream(t)
<1>1. i \in 1..Len(s) /\ s[i].type = "PEER_LIST"
  BY DEF Of
<1>2. SA!MembersBehind(s)
  <2>1. SA!Stream(t) = s
    BY DEF SA!Stream, Stream
  <2> QED BY <2>1 DEF PromisedInv, SA!PromiseInv, SA!StreamsInv
<1> HIDE DEF s
<1>3. PICK n \in Names : \E k \in 1..Len([x \in Names |-> MemberList][n]) : SA!Behind(s, i, n, k)
  BY <1>1, <1>2 DEF SA!MembersBehind
<1>4. [x \in Names |-> MemberList][n] = MemberList
  OBVIOUS
<1>5. PICK k \in 1..Len(MemberList) : SA!Behind(s, i, n, k)
  BY <1>3, <1>4
<1>6. SA!Success = Ok
  BY DEF SA!Success, Ok
<1>7. ASSUME NEW l \in 1..k PROVE SA!Row(n, l) = Rows[l]
  <2>1. l \in 1..Len(MemberList)
    BY RowsAre
  <2> QED BY <2>1, <1>4, RowsAre DEF SA!Row
<1>8. /\ k < i /\ s[i - k] = Ok /\ \A l \in 1..k : s[i - k + l] = Rows[l]
  BY <1>5, <1>6, <1>7 DEF SA!Behind
<1> QED BY <1>8 DEF s

LEMMA MoreTimes ==
    ASSUME NEW a \in Nat, NEW b \in Nat, NEW l \in Nat, a <= b
    PROVE  a * l <= b * l
OBVIOUS

(* The rows behind each answer are the members once at the most.           *)
LEMMA MembersFit ==
    ASSUME PromisedInv, NEW t \in Threads
    PROVE  Cardinality(Of(Stream(t), "PEER_LIST")) <= MaxThreads * Len(MemberList)
<1> DEFINE s == Stream(t)
           P == Of(s, "PEER_LIST")
           A == Of(s, "LOGIN_RESPOND")
           L == 1..Len(MemberList)
           Far(i, k) == /\ k \in L /\ k < i /\ s[i - k] = Ok
                        /\ \A l \in 1..k : s[i - k + l] = Rows[l]
           far(i) == CHOOSE k \in L : Far(i, k)
           f == [i \in P |-> <<i - far(i), far(i)>>]
<1>1. Len(s) \in Nat
  BY StreamIs DEF PromisedInv, BallInv
<1>2. ASSUME NEW i \in P PROVE far(i) \in L /\ Far(i, far(i))
  <2>1. \E k \in L : Far(i, k)
    BY MembersAre
  <2> HIDE DEF Far
  <2> QED BY <2>1
<1>3. ASSUME NEW i \in P PROVE i \in Nat /\ far(i) \in Nat /\ i - far(i) \in A
  <2>1. i \in 1..Len(s)
    BY DEF Of
  <2>2. far(i) \in L /\ far(i) < i /\ s[i - far(i)] = Ok
    BY <1>2
  <2> HIDE DEF far
  <2>3. i \in Nat /\ far(i) \in Nat /\ i - far(i) \in 1..Len(s)
    BY <2>1, <2>2, <1>1, RowsAre
  <2> QED BY <2>2, <2>3 DEF Of, Ok
<1>4. f \in [P -> A \X L]
  <2>1. \A i \in P : <<i - far(i), far(i)>> \in A \X L
    BY <1>2, <1>3
  <2> HIDE DEF far, P, A, L
  <2> QED BY <2>1
<1>5. ASSUME NEW x \in P, NEW y \in P, f[x] = f[y] PROVE x = y
  <2> HIDE DEF far, P, A, L
  <2>1. <<x - far(x), far(x)>> = <<y - far(y), far(y)>>
    BY <1>5
  <2>2. x - far(x) = y - far(y) /\ far(x) = far(y)
    BY <2>1
  <2>3. x \in Nat /\ y \in Nat /\ far(x) \in Nat
    BY <1>3
  <2> QED BY <2>2, <2>3
<1>6. IsFiniteSet(A) /\ Cardinality(A) \in Nat /\ Cardinality(P) \in Nat
  BY <1>1, OfIs
<1>7. IsFiniteSet(L) /\ Cardinality(L) = Len(MemberList)
  <2> DEFINE n == Len(MemberList)
  <2>1. n \in Int /\ 1 \in Int /\ (IF 1 > n THEN 0 ELSE n - 1 + 1) = n
    BY RowsAre
  <2> HIDE DEF n
  <2>2. IsFiniteSet(1..n) /\ Cardinality(1..n) = IF 1 > n THEN 0 ELSE n - 1 + 1
    BY <2>1, FS_Interval
  <2> QED BY <2>1, <2>2 DEF n
<1>8. Cardinality(A) <= MaxThreads
  <2>1. Cardinality(A) <= Cardinality(Logins(t))
    BY AnswersFit
  <2>2. Cardinality(Logins(t)) \in Nat /\ Cardinality(Logins(t)) <= MaxThreads
    BY LoginsFit DEF PromisedInv
  <2> HIDE DEF A
  <2> QED BY <2>1, <2>2, <1>6, Constants
<1> HIDE DEF f, P, A, L, far
<1>9. IsFiniteSet(A \X L) /\ Cardinality(A \X L) = Cardinality(A) * Cardinality(L)
  BY <1>6, <1>7, FS_Product
<1>10. Cardinality(P) <= Cardinality(A \X L)
  BY <1>4, <1>5, <1>9, Fits
<1>11. Cardinality(A) * Len(MemberList) <= MaxThreads * Len(MemberList)
  BY <1>6, <1>8, Constants, MoreTimes
<1>12. Cardinality(A) * Len(MemberList) \in Nat /\ MaxThreads * Len(MemberList) \in Nat
  BY <1>6, Constants
<1>13. Cardinality(P) <= Cardinality(A) * Len(MemberList)
  BY <1>7, <1>9, <1>10
<1>14. Cardinality(P) <= MaxThreads * Len(MemberList)
  BY <1>6, <1>11, <1>12, <1>13
<1> QED BY <1>14 DEF P

(* A chat is written once, to one connection.                              *)
LEMMA ChatsFit ==
    ASSUME PromisedInv, NEW t \in Threads
    PROVE  Cardinality(Of(Stream(t), "CHART")) <= MaxChats
<1> DEFINE s == Stream(t)
           D == Of(s, "CHART")
           f == [i \in D |-> wire[s[i].id[1]][s[i].id[2]]]
<1>1. s \in Seq(FromServer) /\ Len(s) \in Nat
  BY StreamIs DEF PromisedInv, BallInv
<1>2. ASSUME NEW i \in D
      PROVE  /\ i \in 1..Len(s) /\ s[i] \in Written /\ s[i] \in Elements(s)
             /\ s[i].id[1] \in Threads /\ s[i].id[2] \in Nat \ {0}
             /\ s[i].id[2] \in 1..Len(sent[s[i].id[1]])
             /\ s[i] = sent[s[i].id[1]][s[i].id[2]]
  <2>1. i \in 1..Len(s) /\ s[i].type = "CHART"
    BY DEF Of
  <2> HIDE DEF s
  <2>2. s[i] \in FromServer /\ s[i] \in Elements(s)
    BY <2>1, <1>1, ElementOfSeq DEF Elements
  <2>3. s[i] \in Written
    BY <2>1, <2>2, KindsOf
  <2>4. s[i].id[1] \in Threads /\ s[i].id[2] \in Nat \ {0}
    BY <2>3, WrittenIs
  <2>5. s[i].id[2] <= nread[s[i].id[1]] /\ s[i] = sent[s[i].id[1]][s[i].id[2]]
    BY <2>2, <2>3 DEF PromisedInv, TalkInv, StreamInv, EchoInv, s
  <2> DEFINE u == s[i].id[1]
             k == s[i].id[2]
  <2>6. u \in Threads /\ k \in Nat \ {0} /\ k <= nread[u]
    BY <2>4, <2>5
  <2> HIDE DEF u, k
  <2>7. nread[u] \in Nat /\ Len(sent[u]) \in Nat /\ nread[u] <= Len(sent[u])
    BY <2>6, LenProperties DEF PromisedInv, TalkInv, StreamInv, BallInv, MainType
  <2>8. k \in 1..Len(sent[u])
    BY <2>6, <2>7
  <2> QED BY <2>1, <2>2, <2>3, <2>4, <2>5, <2>8 DEF u, k
<1> HIDE DEF s
<1>3. f \in [D -> Chats]
  <2>1. ASSUME NEW i \in D PROVE wire[s[i].id[1]][s[i].id[2]] \in Chats
    <3> DEFINE u == s[i].id[1]
               k == s[i].id[2]
    <3>1. u \in Threads /\ k \in 1..Len(sent[u]) /\ sent[u][k].type = "CHART"
      BY <1>2 DEF Of
    <3> HIDE DEF u, k
    <3>2. wire[u][k] \in 1..Len(asked) /\ asked[wire[u][k]].type = "CHART"
      BY <3>1, SentIs DEF PromisedInv, BallInv
    <3> QED BY <3>2 DEF Chats, u, k
  <2> HIDE DEF D
  <2> QED BY <2>1
<1>4. ASSUME NEW x \in D, NEW y \in D, f[x] = f[y] PROVE x = y
  <2>1. wire[s[x].id[1]][s[x].id[2]] = wire[s[y].id[1]][s[y].id[2]]
    BY <1>4
  <2> DEFINE u == s[x].id[1]
             k == s[x].id[2]
             v == s[y].id[1]
             l == s[y].id[2]
  <2>2. /\ u \in Threads /\ v \in Threads /\ k \in 1..Len(sent[u]) /\ l \in 1..Len(sent[v])
        /\ k \in Nat /\ wire[u][k] = wire[v][l]
    BY <2>1, <1>2
  <2> HIDE DEF u, k, v, l
  <2>3. k \in 1..Len(wire[u]) /\ l \in 1..Len(wire[v])
    BY <2>2, SentIs DEF PromisedInv, BallInv
  <2>4. u = v /\ k = l
    BY <2>2, <2>3, WiresApart DEF PromisedInv, BallInv
  <2>5. ~Older(s[x], s[y]) /\ ~Older(s[y], s[x])
    <3>1. s[x] \in Written /\ s[y] \in Written
      BY <1>2
    <3> QED BY <2>2, <2>4, <3>1 DEF Older, u, k, v, l
  <2>6. \A i, j \in 1..Len(s) : i < j => Older(s[i], s[j])
    BY DEF PromisedInv, TalkInv, StreamInv, s
  <2>7. x \in 1..Len(s) /\ y \in 1..Len(s)
    BY <1>2
  <2>8. ~(x < y) /\ ~(y < x)
    BY <2>5, <2>6, <2>7
  <2> QED BY <2>7, <2>8, <1>1
<1>5. IsFiniteSet(Chats) /\ Cardinality(Chats) \in Nat /\ Cardinality(Chats) <= MaxChats
  BY FiniteAsked DEF PromisedInv, BallInv, IInv, CountInv
<1>6. Cardinality(D) \in Nat
  BY <1>1, OfIs
<1> HIDE DEF D, f
<1>7. Cardinality(D) <= Cardinality(Chats)
  BY <1>3, <1>4, <1>5, Fits
<1> QED BY <1>5, <1>6, <1>7, Constants DEF D, s

LEMMA FewOfBoth ==
    ASSUME NEW X, NEW Y, IsFiniteSet(X), IsFiniteSet(Y)
    PROVE  /\ IsFiniteSet(X \cup Y) /\ Cardinality(X \cup Y) \in Nat
           /\ Cardinality(X \cup Y) <= Cardinality(X) + Cardinality(Y)
<1>1. IsFiniteSet(X \cup Y)
      /\ Cardinality(X \cup Y) = Cardinality(X) + Cardinality(Y) - Cardinality(X \cap Y)
  BY FS_Union
<1>2. X \cap Y \in SUBSET X
  OBVIOUS
<1>3. IsFiniteSet(X \cap Y)
  BY <1>2, FS_Subset
<1>4. /\ Cardinality(X) \in Nat /\ Cardinality(Y) \in Nat
      /\ Cardinality(X \cup Y) \in Nat /\ Cardinality(X \cap Y) \in Nat
  BY <1>1, <1>3, FS_CardinalityType
<1> QED BY <1>1, <1>4

(* All that is written to a thread comes at once at the most.              *)
LEMMA StreamFits ==
    ASSUME PromisedInv, NEW t \in Threads
    PROVE  Len(Stream(t)) <= Burst
<1> DEFINE s == Stream(t)
           A == Of(s, "LOGIN_RESPOND")
           P == Of(s, "PEER_LIST")
           C == Of(s, "CHART")
<1>1. s \in Seq(FromServer) /\ Len(s) \in Nat
  BY StreamIs DEF PromisedInv, BallInv
<1>2. 1..Len(s) = (A \cup P) \cup C
  <2> HIDE DEF s
  <2>1. \A i \in 1..Len(s) : s[i].type \in {"LOGIN_RESPOND", "PEER_LIST", "CHART"}
    BY <1>1, ElementOfSeq, KindsOf
  <2> QED BY <2>1 DEF Of
<1>3. /\ IsFiniteSet(A) /\ IsFiniteSet(P) /\ IsFiniteSet(C)
      /\ Cardinality(A) \in Nat /\ Cardinality(P) \in Nat /\ Cardinality(C) \in Nat
  BY <1>1, OfIs
<1>4. Cardinality(1..Len(s)) = Len(s)
  <2> DEFINE n == Len(s)
  <2>1. n \in Int /\ 1 \in Int /\ (IF 1 > n THEN 0 ELSE n - 1 + 1) = n
    BY <1>1
  <2> HIDE DEF n
  <2>2. Cardinality(1..n) = IF 1 > n THEN 0 ELSE n - 1 + 1
    BY <2>1, FS_Interval
  <2> QED BY <2>1, <2>2 DEF n
<1>5. Cardinality(A) <= MaxThreads /\ Cardinality(P) <= MaxThreads * Len(MemberList)
      /\ Cardinality(C) <= MaxChats
  <2>1. Cardinality(A) <= Cardinality(Logins(t))
    BY AnswersFit
  <2>2. Cardinality(Logins(t)) \in Nat /\ Cardinality(Logins(t)) <= MaxThreads
    BY LoginsFit DEF PromisedInv
  <2>3. Cardinality(P) <= MaxThreads * Len(MemberList) /\ Cardinality(C) <= MaxChats
    BY MembersFit, ChatsFit
  <2> HIDE DEF A, P, C
  <2> QED BY <2>1, <2>2, <2>3, <1>3, Constants
<1> HIDE DEF A, P, C, s
<1>6. IsFiniteSet(A \cup P) /\ Cardinality(A \cup P) <= Cardinality(A) + Cardinality(P)
      /\ Cardinality(A \cup P) \in Nat
  BY <1>3, FewOfBoth
<1>7. Cardinality((A \cup P) \cup C) <= Cardinality(A \cup P) + Cardinality(C)
  BY <1>3, <1>6, FewOfBoth
<1>8. Len(s) <= MaxReplies
  <2> DEFINE ml == MaxThreads * Len(MemberList)
  <2>1. ml \in Nat /\ MaxReplies = MaxThreads + ml + MaxChats
    BY Constants DEF MaxReplies
  <2> HIDE DEF ml
  <2>2. Cardinality(P) <= ml
    BY <1>5 DEF ml
  <2>3. Len(s) <= Cardinality(A \cup P) + Cardinality(C)
    BY <1>2, <1>4, <1>7
  <2>4. Len(s) <= MaxThreads + ml + MaxChats
    <3>1. Cardinality(A) <= MaxThreads /\ Cardinality(C) <= MaxChats
      BY <1>5
    <3>2. Cardinality(A \cup P) <= Cardinality(A) + Cardinality(P)
      BY <1>6
    <3> QED BY <1>1, <1>3, <1>6, <2>1, <2>2, <2>3, <3>1, <3>2, Constants
  <2> QED BY <2>1, <2>4
<1>9. MaxReplies \in Nat /\ MaxReplies <= Burst /\ Burst \in Nat
  <2>1. MaxReplies \in Nat
    BY Constants DEF MaxReplies
  <2> QED BY <2>1, BallAssumption, ClientAssumption
<1> QED BY <1>1, <1>8, <1>9 DEF s

(* What the server has written to a thread is what module Client lets it.  *)
Proper(t) ==
    /\ Spoken(t) \in Seq(Replies)
    /\ Len(Spoken(t)) <= Burst /\ Count(Spoken(t), "CHART") <= MaxIn
    /\ PeersLive => Promise(t, Spoken(t))

(* There are no more of a kind in what has gone out than in the stream.    *)
LEMMA FewerSpoken ==
    ASSUME MainType, NEW t \in Threads, NEW type
    PROVE  Count(Spoken(t), type) <= Cardinality(Of(Stream(t), type))
<1> DEFINE s == Stream(t)
           w == Spoken(t)
<1>1. /\ Len(w) \in Nat /\ Len(s) \in Nat /\ Len(w) <= Len(s)
      /\ \A i \in 1..Len(w) : w[i].type = s[i].type
  BY SpokenIs
<1> HIDE DEF s, w
<1>2. Of(w, type) \in SUBSET Of(s, type)
  <2>1. \A i \in 1..Len(w) : i \in 1..Len(s)
    BY <1>1
  <2> QED BY <1>1, <2>1 DEF Of
<1>3. IsFiniteSet(Of(s, type)) /\ Count(w, type) = Cardinality(Of(w, type))
  BY <1>1, OfIs
<1>4. Cardinality(Of(w, type)) <= Cardinality(Of(s, type))
  BY <1>2, <1>3, FS_Subset
<1> QED BY <1>3, <1>4 DEF s, w

LEMMA SpokenPromise ==
    ASSUME PromisedInv, PeersLive, NEW t \in Threads
    PROVE  Promise(t, Spoken(t))
<1> DEFINE s == Stream(t)
           w == Spoken(t)
<1>1. /\ Len(w) \in Nat /\ Len(s) \in Nat /\ Len(w) <= Len(s)
      /\ \A i \in 1..Len(w) : /\ w[i] = AtClient(s[i]) /\ w[i].type = s[i].type
                              /\ s[i] \in FromServer
  BY SpokenIs DEF PromisedInv, BallInv
<1>2. Count(w, "LOGIN_RESPOND") <= Cardinality(Logins(t))
  <2>1. Count(w, "LOGIN_RESPOND") <= Cardinality(Of(s, "LOGIN_RESPOND"))
    BY FewerSpoken DEF PromisedInv, BallInv
  <2>2. Cardinality(Of(s, "LOGIN_RESPOND")) <= Cardinality(Logins(t))
    BY AnswersFit
  <2>3. /\ Count(w, "LOGIN_RESPOND") \in Nat /\ Cardinality(Logins(t)) \in Nat
        /\ Cardinality(Of(s, "LOGIN_RESPOND")) \in Nat
    BY <1>1, OfIs, LoginsFit DEF PromisedInv
  <2> HIDE DEF s, w
  <2> QED BY <2>1, <2>2, <2>3
<1>3. /\ AtClient(Ok) = Ok
      /\ \A k \in 1..Len(MemberList) : AtClient(Rows[k]) = Rows[k]
  <2>1. AtClient(Ok) = Ok
    BY DEF AtClient, Ok
  <2>2. ASSUME NEW k \in 1..Len(MemberList) PROVE AtClient(Rows[k]) = Rows[k]
    <3>1. Rows[k] = [type |-> "PEER_LIST", name |-> MemberList[k]]
      BY RowsAre, Zenon
    <3>2. Rows[k].type = "PEER_LIST"
      BY <3>1
    <3> QED BY <3>2 DEF AtClient
  <2> QED BY <2>1, <2>2
<1>4. ASSUME NEW i \in 1..Len(w), w[i].type = "PEER_LIST"
      PROVE  \E j \in 1..Len(Rows) :
                /\ w[i] = Rows[j] /\ i > 1
                /\ w[i - 1] = IF j = 1 THEN Ok ELSE Rows[j - 1]
  <2>1. i \in Of(s, "PEER_LIST") /\ i \in 1..Len(s)
    <3>1. i \in 1..Len(s) /\ s[i].type = "PEER_LIST"
      BY <1>1, <1>4
    <3> QED BY <3>1 DEF Of
  <2>2. PICK k \in 1..Len(MemberList) :
            /\ k < i /\ s[i - k] = Ok /\ \A l \in 1..k : s[i - k + l] = Rows[l]
    BY <2>1, MembersAre
  <2> HIDE DEF s, w
  <2>3. k \in Nat /\ i \in Nat /\ k \in 1..k /\ (i - k) + k = i /\ i > 1
    BY <2>2, <1>1, RowsAre
  <2>4. s[i] = Rows[k]
    BY <2>2, <2>3
  <2>5. w[i] = Rows[k]
    BY <2>4, <1>1, <1>3, <1>4
  <2>6. i - 1 \in 1..Len(w)
    BY <2>3, <1>1
  <2>7. CASE k = 1
    <3>1. s[i - 1] = Ok
      BY <2>2, <2>7
    <3>2. w[i - 1] = Ok
      BY <3>1, <2>6, <1>1, <1>3
    <3> QED BY <2>3, <2>5, <2>7, <3>2, RowsAre
  <2>8. CASE k # 1
    <3>1. k - 1 \in 1..k /\ (i - k) + (k - 1) = i - 1 /\ k - 1 \in 1..Len(MemberList)
      BY <2>3, <2>8, RowsAre
    <3>2. s[i - 1] = Rows[k - 1]
      BY <2>2, <3>1
    <3>3. w[i - 1] = Rows[k - 1]
      BY <3>1, <3>2, <2>6, <1>1, <1>3
    <3> QED BY <2>3, <2>5, <2>8, <3>3, RowsAre
  <2> QED BY <2>7, <2>8
<1>5. ASSUME NEW i \in 1..Len(w), w[i].type = "CHART"
      PROVE  \E j \in 1..(i - 1) : w[j] = Ok
  <2>1. SA!ChatsBehind(s)
    <3>1. SA!Stream(t) = s
      BY DEF SA!Stream, Stream
    <3>2. SA!PeersLive
      BY DEF PeersLive, SA!PeersLive, SA!Elements, S!Open, SA!Open
    <3> QED BY <3>1, <3>2 DEF PromisedInv, SA!PromiseInv, SA!StreamsInv
  <2>2. SA!Success = Ok
    BY DEF SA!Success, Ok
  <2> HIDE DEF s, w
  <2>3. i \in 1..Len(s) /\ s[i].type = "CHART"
    BY <1>1, <1>5
  <2>4. PICK j \in 1..(i - 1) : s[j] = Ok
    BY <2>1, <2>2, <2>3 DEF SA!ChatsBehind
  <2>5. j \in 1..Len(w)
    BY <1>1
  <2> QED BY <2>4, <2>5, <1>1, <1>3
<1> HIDE DEF s, w
<1>6. Promise(t, w)
  BY <1>2, <1>4, <1>5 DEF Promise
<1> QED BY <1>6 DEF w

LEMMA ProperIs == PromisedInv => \A t \in Threads : Proper(t)
<1> SUFFICES ASSUME PromisedInv, NEW t \in Threads PROVE Proper(t)
  OBVIOUS
<1>1. MainType /\ Burst \in Nat
  BY ClientAssumption DEF PromisedInv, BallInv
<1>2. /\ Spoken(t) \in Seq(Replies) /\ Len(Spoken(t)) \in Nat
      /\ Len(Spoken(t)) <= Len(Stream(t)) /\ Len(Stream(t)) \in Nat
  BY <1>1, SpokenIs
<1>3. Len(Spoken(t)) <= Burst
  BY <1>1, <1>2, StreamFits
<1>4. Count(Spoken(t), "CHART") <= MaxIn
  <2>1. Count(Spoken(t), "CHART") <= Cardinality(Of(Stream(t), "CHART"))
    BY <1>1, FewerSpoken
  <2>2. Cardinality(Of(Stream(t), "CHART")) <= MaxChats /\ MaxChats <= MaxIn
    BY ChatsFit, BallAssumption
  <2>3. Count(Spoken(t), "CHART") \in Nat /\ Cardinality(Of(Stream(t), "CHART")) \in Nat
    BY <1>2, OfIs
  <2> QED BY <2>1, <2>2, <2>3, ClientAssumption
<1> QED BY <1>2, <1>3, <1>4, SpokenPromise DEF Proper

-----------------------------------------------------------------------------
(* What the server may write, packet after packet.                         *)

Upto(v, n) == SubSeq(v, 1, n)

LEMMA UptoIs ==
    ASSUME NEW v \in Seq(Replies), NEW n \in 0..Len(v)
    PROVE  /\ Upto(v, n) \in Seq(Replies) /\ Len(Upto(v, n)) = n
           /\ \A i \in 1..n : Upto(v, n)[i] = v[i]
           /\ n + 1 \in 0..Len(v) => /\ Upto(v, n + 1) = Append(Upto(v, n), v[n + 1])
                                     /\ v[n + 1] \in Replies
<1>1. Len(v) \in Nat /\ n \in Nat /\ n \in Int /\ 1 \in Int
  BY LenProperties
<1>2. \A i \in 1..n : v[i] \in Replies
  BY <1>1, ElementOfSeq
<1>3. Upto(v, n) \in Seq(Replies) /\ Len(Upto(v, n)) = n /\ \A i \in 1..n : Upto(v, n)[i] = v[i]
  <2>1. /\ SubSeq(v, 1, n) \in Seq(Replies)
        /\ Len(SubSeq(v, 1, n)) = IF 1 <= n THEN n - 1 + 1 ELSE 0
        /\ \A i \in 1..(n - 1 + 1) : SubSeq(v, 1, n)[i] = v[1 + i - 1]
    BY <1>1, <1>2, SubSeqProperties
  <2>2. (IF 1 <= n THEN n - 1 + 1 ELSE 0) = n /\ \A i \in 1..n : i \in 1..(n - 1 + 1) /\ 1 + i - 1 = i
    BY <1>1
  <2> QED BY <2>1, <2>2 DEF Upto
<1>4. ASSUME n + 1 \in 0..Len(v)
      PROVE  Upto(v, n + 1) = Append(Upto(v, n), v[n + 1]) /\ v[n + 1] \in Replies
  <2>1. n + 1 \in 1..Len(v) /\ 1 \in 1..Len(v) /\ n + 1 \in 1..Len(v) /\ (n + 1) - 1 = n
    BY <1>1, <1>4
  <2>2. v[n + 1] \in Replies
    BY <2>1, ElementOfSeq
  <2>3. SubSeq(v, 1, n + 1) = SubSeq(v, 1, n) \o <<v[n + 1]>>
    <3>1. n + 1 \in 1..Len(v)
      BY <2>1
    <3> DEFINE m == n + 1
    <3>2. m \in 1..Len(v) /\ 1 \in 1..Len(v) /\ m - 1 = n
      BY <2>1
    <3> HIDE DEF m
    <3>3. SubSeq(v, 1, m) = SubSeq(v, 1, m - 1) \o <<v[m]>>
      BY <3>2, SubSeqRecursiveSecond
    <3> QED BY <3>2, <3>3 DEF m
  <2> DEFINE p == Upto(v, n)
             x == v[n + 1]
  <2>4. p \in Seq(Replies) /\ x \in Replies
    BY <1>3, <2>2
  <2> HIDE DEF p, x
  <2>5. Append(p, x) = p \o <<x>>
    BY <2>4, AppendIsConcat
  <2> QED BY <2>2, <2>3, <2>5 DEF p, x, Upto
<1> QED BY <1>3, <1>4

(* What has been written so far keeps the promise when all of it does.     *)
LEMMA PrefixKeeps ==
    ASSUME NEW t \in Threads, IsFiniteSet(Logins(t)), NEW v \in Seq(Replies), Promise(t, v),
           Count(v, "CHART") <= MaxIn, NEW n \in 0..Len(v)
    PROVE  Promise(t, Upto(v, n)) /\ Count(Upto(v, n), "CHART") <= MaxIn
<1> DEFINE w == Upto(v, n)
<1>1. Len(w) = n /\ \A i \in 1..n : w[i] = v[i]
  BY UptoIs
<1>2. n \in Nat /\ Len(v) \in Nat /\ \A i \in 1..n : i \in 1..Len(v)
  BY LenProperties
<1> HIDE DEF w
<1>3. ASSUME NEW type
      PROVE  /\ Count(w, type) <= Count(v, type)
             /\ Count(w, type) \in Nat /\ Count(v, type) \in Nat
  <2>1. Of(w, type) \in SUBSET Of(v, type)
    BY <1>1, <1>2 DEF Of
  <2>2. /\ IsFiniteSet(Of(v, type)) /\ Count(v, type) = Cardinality(Of(v, type))
        /\ Cardinality(Of(v, type)) \in Nat
    BY <1>2, OfIs
  <2>3. Count(w, type) = Cardinality(Of(w, type)) /\ Cardinality(Of(w, type)) \in Nat
    BY <1>1, <1>2, OfIs
  <2> QED BY <2>1, <2>2, <2>3, FS_Subset
<1>4. Count(w, "LOGIN_RESPOND") <= Cardinality(Logins(t))
  <2>1. Count(v, "LOGIN_RESPOND") <= Cardinality(Logins(t))
    BY DEF Promise
  <2>2. Cardinality(Logins(t)) \in Nat
    BY FS_CardinalityType
  <2> QED BY <2>1, <2>2, <1>3
<1>5. Count(w, "CHART") <= MaxIn
  BY <1>3, ClientAssumption
<1>6. ASSUME NEW i \in 1..Len(w), w[i].type = "PEER_LIST"
      PROVE  \E j \in 1..Len(Rows) :
                /\ w[i] = Rows[j] /\ i > 1
                /\ w[i - 1] = IF j = 1 THEN Ok ELSE Rows[j - 1]
  <2>1. i \in 1..Len(v) /\ w[i] = v[i]
    BY <1>1, <1>2
  <2>2. PICK j \in 1..Len(Rows) : /\ v[i] = Rows[j] /\ i > 1
                                 /\ v[i - 1] = IF j = 1 THEN Ok ELSE Rows[j - 1]
    BY <2>1, <1>6 DEF Promise
  <2>3. i - 1 \in 1..n
    BY <2>2, <1>1, <1>2
  <2> QED BY <2>1, <2>2, <2>3, <1>1
<1>7. ASSUME NEW i \in 1..Len(w), w[i].type = "CHART"
      PROVE  \E j \in 1..(i - 1) : w[j] = Ok
  <2>1. i \in 1..Len(v) /\ w[i] = v[i]
    BY <1>1, <1>2
  <2>2. PICK j \in 1..(i - 1) : v[j] = Ok
    BY <2>1, <1>7 DEF Promise
  <2>3. j \in 1..n
    BY <1>1, <1>2
  <2> QED BY <2>2, <2>3, <1>1
<1>8. Promise(t, w)
  BY <1>4, <1>6, <1>7 DEF Promise
<1> QED BY <1>5, <1>8 DEF w

LEMMA LongerReaches ==
    ASSUME NEW t \in Threads, IsFiniteSet(Logins(t)), NEW v \in Seq(Replies), Promise(t, v),
           Count(v, "CHART") <= MaxIn, Len(v) <= Burst,
           NEW a \in 0..Len(v), a < Len(v), said[t] = Upto(v, a)
    PROVE  v \in Longer(t)
<1> DEFINE n == Len(v)
           at(k) == IF a + k <= n THEN a + k ELSE n
<1>1. n \in Nat /\ a \in Nat /\ Burst \in Nat \ {0} /\ n <= Burst /\ a < n
  BY LenProperties, ClientAssumption
<1>2. PICK f : Grows(t, Burst, f) /\ Longer(t) = f[Burst]
  BY LongerIs
<1>3. /\ f[1] = OneMore(t, said[t])
      /\ \A k \in 2..Burst : f[k] = f[k - 1] \cup UNION {OneMore(t, s) : s \in f[k - 1]}
  <2>1. \A k \in 1..Burst :
           f[k] = IF k = 1 THEN OneMore(t, said[t])
                  ELSE f[k - 1] \cup UNION {OneMore(t, s) : s \in f[k - 1]}
    BY <1>2 DEF Grows
  <2>2. 1 \in 1..Burst /\ \A k \in 2..Burst : k \in 1..Burst /\ k # 1
    BY <1>1
  <2> QED BY <2>1, <2>2
<1>4. ASSUME NEW m \in 0..Len(v), m + 1 \in 0..Len(v)
      PROVE  Upto(v, m + 1) \in OneMore(t, Upto(v, m))
  <2>1. Upto(v, m + 1) = Append(Upto(v, m), v[m + 1]) /\ v[m + 1] \in Replies
    BY <1>4, UptoIs
  <2>2. Promise(t, Upto(v, m + 1)) /\ Count(Upto(v, m + 1), "CHART") <= MaxIn
    BY <1>4, PrefixKeeps
  <2> QED BY <2>1, <2>2 DEF OneMore
<1> DEFINE T == {k \in 1..Burst : Upto(v, at(k)) \notin f[k]}
<1>5. T = {}
  <2> SUFFICES ASSUME T # {} PROVE FALSE
    OBVIOUS
  <2>1. PICK m \in T : \A k \in T : m <= k
    <3>1. T \in SUBSET Nat
      BY <1>1
    <3> HIDE DEF T
    <3> QED BY <3>1, LeastExists
  <2>2. m # 1
    <3>1. at(1) = a + 1 /\ a + 1 \in 0..Len(v) /\ a \in 0..Len(v)
      BY <1>1
    <3>2. Upto(v, a + 1) \in f[1]
      BY <3>1, <1>3, <1>4
    <3> HIDE DEF at
    <3> QED BY <3>1, <3>2
  <2>3. m \in 2..Burst /\ m - 1 \in 1..Burst /\ ~(m <= m - 1)
    BY <2>2, <1>1
  <2>4. Upto(v, at(m - 1)) \in f[m - 1]
    BY <2>1, <2>3
  <2>5. at(m) = at(m - 1) \/ (at(m) = at(m - 1) + 1 /\ at(m) \in 0..Len(v) /\ at(m - 1) \in 0..Len(v))
    BY <2>3, <1>1
  <2> HIDE DEF at
  <2>6. Upto(v, at(m)) \notin f[m]
    OBVIOUS
  <2>7. CASE at(m) = at(m - 1)
    BY <2>3, <2>4, <2>6, <2>7, <1>3
  <2>8. CASE at(m) = at(m - 1) + 1 /\ at(m) \in 0..Len(v) /\ at(m - 1) \in 0..Len(v)
    <3>1. Upto(v, at(m)) \in OneMore(t, Upto(v, at(m - 1)))
      BY <2>8, <1>4
    <3> QED BY <2>3, <2>4, <2>6, <3>1, <1>3
  <2> QED BY <2>5, <2>7, <2>8
<1>6. Burst \in 1..Burst /\ at(Burst) = n
  BY <1>1
<1>7. Upto(v, n) = v
  BY SubSeqFull DEF Upto
<1> HIDE DEF at
<1>8. Upto(v, at(Burst)) \in f[Burst]
  BY <1>5, <1>6
<1> QED BY <1>2, <1>6, <1>7, <1>8

-----------------------------------------------------------------------------
(* The steps of the server as the client sees them.                        *)

(* A thread that is told of something is told of all that went out.        *)
LEMMA ToldIs ==
    ASSUME BallInv, BallInv', SpokenInv, ServerStep, NEW t \in Threads
    PROVE  \/ said'[t] = said[t] /\ ~(alive /\ Served(t))
           \/ /\ said'[t] = Spoken(t)' /\ alive /\ Served(t)
              /\ Len(said[t]) \in 0..Len(said'[t])
              /\ \A i \in 1..Len(said[t]) : said'[t][i] = said[t][i]
              /\ swire'[t] = swire[t] => said'[t] = said[t]
<1> DEFINE a == said[t]
           b == said'[t]
           w == swire[t]
           x == swire'[t]
<1>1. /\ S!Main /\ MainType /\ MainType' /\ a \in Seq(Heards) /\ b \in Seq(Heards)
      /\ Len(a) \in Nat /\ Len(b) \in Nat
  BY ServerLeaves, LenProperties DEF BallInv, HeardInv
<1>2. CASE ~(alive /\ Served(t))
  <2>1. b = a
    BY <1>2 DEF ServerStep
  <2> QED BY <1>2, <2>1
<1>3. CASE alive /\ Served(t)
  <2>1. /\ Len(w) \in Nat /\ Len(x) \in Nat /\ Len(w) <= Len(x)
        /\ \A i \in 1..Len(w) : x[i] = w[i]
    BY <1>1, SwireKeeps
  <2>2. Len(a) = Len(w) /\ \A i \in 1..Len(a) : a[i] = AtClient(w[i])
    BY <1>3 DEF SpokenInv
  <2>3. Len(b) = Len(x) /\ \A i \in 1..Len(b) : b[i] = AtClient(x[i])
    BY <1>1, <1>3, ServerTells
  <2>4. Spoken(t)' = [i \in 1..Len(x) |-> AtClient(x[i])]
    BY DEF Spoken, AtClient
  <2> HIDE DEF a, b, w, x
  <2>5. b = [i \in 1..Len(b) |-> b[i]] /\ a = [i \in 1..Len(a) |-> a[i]]
    BY <1>1
  <2>6. b = Spoken(t)'
    BY <2>3, <2>4, <2>5
  <2>7. Len(a) \in 0..Len(b) /\ \A i \in 1..Len(a) : b[i] = a[i]
    BY <2>1, <2>2, <2>3
  <2>8. x = w => b = a
    BY <2>2, <2>3, <2>5
  <2> QED BY <2>6, <2>7, <2>8, <1>3 DEF a, b, w, x
<1> QED BY <1>2, <1>3

(* A step that writes closes no connection.                                *)
LEMMA WritesOnly ==
    ASSUME BallInv, ServerStep, S!ReadMessage \/ S!PeerList
    PROVE  closed' = closed
<1>1. state' = state
  BY DEF S!ReadMessage, S!PeerList
<1>2. closed \in [Threads -> BOOLEAN]
  BY DEF BallInv, Kinds
<1> DEFINE shut(t) == alive /\ Served(t) /\ state[t] # "gone" /\ state'[t] = "gone"
<1>3. closed' = [t \in Threads |-> closed[t] \/ shut(t)]
  BY DEF ServerStep
<1>4. \A t \in Threads : ~shut(t)
  BY <1>1
<1> HIDE DEF shut
<1> QED BY <1>2, <1>3, <1>4

(* Any other closes one at the most.                                       *)
LEMMA ClosesOne ==
    ASSUME BallInv, ServerStep
    PROVE  closed' = closed \/ \E t \in Threads : /\ closed' = [closed EXCEPT ![t] = TRUE]
                                                  /\ alive /\ Served(t)
<1>1. S!Main /\ state \in [Threads -> {"none", "backlog", "open", "gone"}]
      /\ closed \in [Threads -> BOOLEAN]
  BY ServerLeaves DEF BallInv, MainType, Kinds
<1>2. \E p : \A t \in Threads : t # p => (state'[t] = "gone" => state[t] = "gone")
  <2>1. CASE S!ClearPeer \/ S!ReadFail
    <3>1. \E p : state' = [state EXCEPT ![p] = "gone"]
      BY <2>1 DEF S!ClearPeer, S!ReadFail, S!Destroy
    <3> QED BY <3>1, <1>1
  <2>2. CASE \E p \in Threads : S!Accept(p)
    <3>1. \E p \in Threads : state' = [state EXCEPT ![p] = "open"]
      BY <2>2 DEF S!Accept
    <3> QED BY <3>1, <1>1
  <2>3. CASE ~S!ClearPeer /\ ~S!ReadFail /\ (\A p \in Threads : ~S!Accept(p))
    <3>1. state' = state
      BY <1>1, <2>3
      DEF S!Main, S!SigAlarm, S!Unblocked, S!CheckTimeout, S!ClearDone, S!Enter, S!BatchDone,
          S!AcceptAgain, S!AcceptError, S!PeerListDone, S!ReadAgain, S!ReadMessage, S!PeerList,
          S!EpollWait, S!HandleEvent
    <3> QED BY <3>1
  <2> QED BY <2>1, <2>2, <2>3
<1>3. PICK p : \A t \in Threads : t # p => (state'[t] = "gone" => state[t] = "gone")
  BY <1>2
<1> DEFINE shut(t) == alive /\ Served(t) /\ state[t] # "gone" /\ state'[t] = "gone"
<1>4. closed' = [t \in Threads |-> closed[t] \/ shut(t)]
  BY DEF ServerStep
<1>5. \A t \in Threads : t # p => ~shut(t)
  BY <1>3
<1>6. CASE p \in Threads /\ shut(p)
  <2>1. alive /\ Served(p)
    BY <1>6
  <2>2. shut(p)
    BY <1>6
  <2> HIDE DEF shut
  <2>3. closed' = [closed EXCEPT ![p] = TRUE]
    BY <1>1, <1>4, <1>5, <1>6, <2>2
  <2> QED BY <1>6, <2>1, <2>3
<1>7. CASE ~(p \in Threads /\ shut(p))
  <2>1. \A t \in Threads : ~shut(t)
    BY <1>5, <1>7
  <2> HIDE DEF shut
  <2>2. closed' = closed
    BY <1>1, <1>4, <2>1
  <2> QED BY <2>2
<1> QED BY <1>6, <1>7

(* While no account leads to a freed peer, the server writes what it may,  *)
(* or closes a connection, or the client knows nothing of what it does.    *)
LEMMA ServerPromises ==
    ASSUME PromisedInv, PromisedInv', \A t \in Threads : Proper(t)', PeersLive, ServerStep
    PROVE  Next \/ UNCHANGED vars
<1>1. /\ BallInv /\ BallInv' /\ SpokenInv /\ S!Main /\ MainType
      /\ closed \in [Threads -> BOOLEAN] /\ inEvent \in [Threads -> BOOLEAN]
      /\ said \in [Threads -> Seq(Heards)] /\ said' \in [Threads -> Seq(Heards)]
  BY ServerLeaves DEF PromisedInv, TalkInv, BallInv, Kinds, HeardInv
<1>2. UNCHANGED clientOwn
      /\ inEvent' = [t \in Threads |-> inEvent[t] \/ said'[t] # said[t] \/ closed'[t] # closed[t]]
  BY DEF ServerStep
<1>3. ASSUME said' = said, closed' = closed PROVE UNCHANGED vars
  <2>1. inEvent' = inEvent
    BY <1>1, <1>2, <1>3
  <2> QED BY <1>2, <1>3, <2>1 DEF vars, clientOwn
<1>4. ASSUME NEW t \in Threads, ServerWrites(t) \/ ServerClose(t), alive PROVE Next
  <2>1. UNCHANGED <<flag, need, coming, guiVars, tpc, ev, asked, outVars, inVars, alive>>
    BY <1>2 DEF clientOwn, guiVars, panelVars, outVars, inVars
  <2>2. Outside(t) /\ UNCHANGED alive
    BY <1>4, <2>1 DEF Outside
  <2> QED BY <1>4, <2>2 DEF Next
<1>5. CASE ~(S!ReadMessage \/ S!PeerList)
  <2>1. swire' = swire
    BY <1>1, <1>5, OtherwiseSilent DEF Silent
  <2>2. said' = said
    <3>1. \A t \in Threads : said'[t] = said[t]
      BY <1>1, <2>1, ToldIs
    <3> QED BY <3>1, <1>1
  <2>3. ASSUME NEW t \in Threads, closed' = [closed EXCEPT ![t] = TRUE], closed' # closed,
               alive, Served(t)
        PROVE  Next
    <3>1. inEvent' = [inEvent EXCEPT ![t] = TRUE]
      BY <1>1, <1>2, <2>2, <2>3
    <3>2. ServerClose(t)
      BY <1>2, <2>2, <2>3, <3>1 DEF ServerClose, clientOwn
    <3> QED BY <2>3, <3>2, <1>4
  <2> QED BY <1>1, <1>3, <2>2, <2>3, ClosesOne
<1>6. CASE S!ReadMessage \/ S!PeerList
  <2>1. closed' = closed
    BY <1>1, <1>6, WritesOnly
  <2>2. PeersLive'
    <3>0. SA!ServerAssumption
      BY ServerAssumed DEF S!ServerAssumption, SA!ServerAssumption
    <3>1. SA!PeersLive
      BY DEF PeersLive, SA!PeersLive, SA!Elements, S!Open, SA!Open
    <3>2. SA!ReadMessage \/ SA!PeerList
      BY <1>6, SameReads
    <3>3. SA!PeersLive'
      BY <3>0, <3>1, <3>2, SA!LiveAfter DEF PromisedInv
    <3> QED BY <3>3 DEF PeersLive, SA!PeersLive, SA!Elements, S!Open, SA!Open
  <2>3. PICK p \in Threads : \A u \in Threads : u # p => swire'[u] = swire[u]
    <3>1. 1 \in Threads
      BY Constants DEF Threads
    <3> QED BY <1>1, <3>1, MainWrites DEF One
  <2>4. \A u \in Threads : u # p => said'[u] = said[u]
    BY <1>1, <2>3, ToldIs
  <2>5. CASE said'[p] = said[p]
    <3>1. said' = said
      BY <1>1, <2>4, <2>5
    <3> QED BY <3>1, <2>1, <1>3
  <2>6. CASE said'[p] # said[p]
    <3> DEFINE v == said'[p]
               a == Len(said[p])
    <3>1. /\ v = Spoken(p)' /\ alive /\ Served(p)
          /\ a \in 0..Len(v) /\ \A i \in 1..a : v[i] = said[p][i]
      BY <1>1, <2>6, ToldIs
    <3>2. /\ v \in Seq(Replies) /\ Len(v) <= Burst /\ Count(v, "CHART") <= MaxIn
          /\ Promise(p, v)
      <4>1. Proper(p)'
        OBVIOUS
      <4>2. UNCHANGED <<wire, asked>>
        BY <1>2 DEF clientOwn
      <4>3. Promise(p, Spoken(p))' <=> Promise(p, Spoken(p)')
        BY <4>2 DEF Promise, Logins, Count
      <4>4. Spoken(p)' \in Seq(Replies) /\ Len(Spoken(p)') <= Burst
            /\ Count(Spoken(p)', "CHART") <= MaxIn /\ Promise(p, Spoken(p))'
        BY <4>1, <2>2 DEF Proper, Count
      <4> QED BY <3>1, <4>3, <4>4
    <3>3. said[p] \in Seq(Heards) /\ a \in Nat /\ Len(v) \in Nat
      BY <1>1, <3>2, LenProperties
    <3>4. said[p] = Upto(v, a) /\ a < Len(v)
      <4> DEFINE s == said[p]
                 w == Upto(v, a)
      <4>1. w \in Seq(Replies) /\ Len(w) = a /\ \A i \in 1..a : w[i] = v[i]
        BY <3>1, <3>2, UptoIs
      <4>2. s \in Seq(Heards) /\ v \in Seq(Replies) /\ Len(s) = a /\ v # s
            /\ \A i \in 1..a : v[i] = s[i]
        BY <2>6, <3>1, <3>2, <3>3
      <4> HIDE DEF s, w, v, a
      <4>3. s = [i \in 1..a |-> s[i]] /\ w = [i \in 1..a |-> w[i]] /\ v = [i \in 1..Len(v) |-> v[i]]
        BY <4>1, <4>2
      <4>4. s = w
        BY <4>1, <4>2, <4>3
      <4>5. a # Len(v)
        BY <4>2, <4>3
      <4> QED BY <4>4, <4>5, <3>1, <3>3 DEF s, w
    <3>5. IsFiniteSet(Logins(p))
      BY <1>1, LoginsFit
    <3> HIDE DEF v, a
    <3>6. v \in Longer(p)
      BY <3>1, <3>2, <3>4, <3>5, LongerReaches
    <3>7. said' = [said EXCEPT ![p] = v]
      BY <1>1, <2>4 DEF v
    <3>8. inEvent' = [inEvent EXCEPT ![p] = TRUE]
      BY <1>1, <1>2, <2>1, <2>4, <2>6
    <3>9. ServerWrites(p)
      BY <1>2, <2>1, <3>1, <3>6, <3>7, <3>8 DEF ServerWrites, clientOwn
    <3> QED BY <3>1, <3>9, <1>4
  <2> QED BY <2>5, <2>6
<1> QED BY <1>5, <1>6

(* As long as no account leads to a freed peer, the server keeps to what   *)
(* module Client assumes of it (message_proc_login, server.c:332), however *)
(* many threads the client starts and however often they log in.           *)
THEOREM ServerKeepsPromise == BallSpec => ClientSpec
<1>1. BallInit => Init
  BY DEF BallInit
<1>2. PromisedInv => \A t \in Threads : Proper(t)
  BY ProperIs
<1> DEFINE Told == \A t \in Threads : Proper(t)
<1>3. PromisedInv /\ PromisedInv' /\ Told' /\ [BallNext]_ballVars => [PeersLive => Next]_vars
  BY Sides, ServerPromises
<1>4. PromisedInv => Told
  BY <1>2
<1> HIDE DEF Told
<1> QED BY <1>1, <1>3, <1>4, PromisedInvariance, PTL DEF BallSpec, ClientSpec
=============================================================================
