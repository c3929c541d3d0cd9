-------------------------- MODULE PlayerLoginProofs --------------------------
(***************************************************************************)
(* Theorems about PlayerLogin, for any players, servers and threads.       *)
(*                                                                         *)
(* Data that is loaded is never taken back: Grows says so of every step.   *)
(* What a thread has done for its account (ThreadsSound) and what is in    *)
(* the queue of loaded accounts (LoadedReady) follows from it, whatever    *)
(* the other threads do meanwhile.                                         *)
(*                                                                         *)
(* The first login of a player is followed through one request (AskedOnce) *)
(* to the messages of its game server (AnsweredAfterData); each lemma that *)
(* is called ...From says where what a step adds can have come from.       *)
(***************************************************************************)
EXTENDS PlayerLogin, SequenceTheorems, TLAPS

Grows ==
    /\ online \subseteq online'
    /\ \A p \in Player : dsMain[p] = "full" => dsMain'[p] = "full"
    /\ \A p \in Player : dsGS[p] # NoServer => dsGS'[p] # NoServer

\* The elements of a sequence without its first one are its elements.
LEMMA TailElements ==
    ASSUME NEW S, NEW q \in Seq(S), q # <<>>
    PROVE  /\ Head(q) = q[1] /\ 1 \in 1..Len(q)
           /\ Tail(q) \in Seq(S) /\ Len(Tail(q)) = Len(q) - 1
           /\ \A i \in 1..Len(Tail(q)) : Tail(q)[i] = q[i + 1] /\ i + 1 \in 1..Len(q)
<1>1. Len(q) \in Nat /\ Len(q) # 0
  BY EmptySeq
<1>2. /\ Tail(q) \in Seq(S) /\ Len(Tail(q)) = Len(q) - 1
      /\ \A i \in 1..Len(Tail(q)) : Tail(q)[i] = q[i + 1]
  BY HeadTailProperties
<1> QED
  BY <1>1, <1>2

\* Every step that a select thread makes keeps the types.
LEMMA SelectType ==
    ASSUME TypeOK, NEW t \in Thread, SelectStep(t)
    PROVE  TypeOK'
<1> USE LoginAssumption
<1>1. CASE RemoveWaitingQueue(t)
  <2>1. Head(waitingQueue) \in Account /\ Tail(waitingQueue) \in Seq(Account)
    BY <1>1, TailElements, ElementOfSeq DEF RemoveWaitingQueue, TypeOK
  <2>2. account' \in [Thread -> Account] /\ waitingQueue' \in Seq(Account) /\ waitingSet' \in SUBSET Player
    BY <1>1, <2>1 DEF RemoveWaitingQueue, TypeOK
  <2>3. thread' \in [Thread -> {"idle", "account", "insert", "main", "copy", "server", "queue"}]
    BY <1>1 DEF RemoveWaitingQueue, TypeOK
  <2> QED
    BY <1>1, <2>2, <2>3 DEF RemoveWaitingQueue, TypeOK, players, mains, entries, games, bounds
<1>2. CASE SelectAccount(t)
  BY <1>2 DEF SelectAccount, TypeOK, queues, players, mains, entries, games, bounds
<1>3. CASE AddPlayer(t)
  <2>1. account[t].player \in Player
    BY DEF TypeOK, Account
  <2> QED
    BY <1>3, <2>1 DEF AddPlayer, TypeOK, queues, mains, entries, games, bounds
<1>4. CASE SelectMain(t)
  BY <1>4 DEF SelectMain, TypeOK, Data, queues, mains, entries, games, bounds
<1>5. CASE CopyMain(t)
  BY <1>5 DEF CopyMain, TypeOK, Data, queues, mains, entries, games, bounds
<1>6. CASE SetGSServerID(t)
  <2>1. account[t].gs \in GameServer
    BY DEF TypeOK, Account
  <2> QED
    BY <1>6, <2>1 DEF SetGSServerID, TypeOK, queues, mains, entries, games, bounds
<1>7. CASE AddLoadSuccessQueue(t)
  <2>1. loadSuccess' \in Seq(Account)
    BY <1>7, AppendProperties DEF AddLoadSuccessQueue, TypeOK
  <2> QED
    BY <1>7, <2>1 DEF AddLoadSuccessQueue, TypeOK, players, mains, entries, games, bounds
<1>8. CASE LoadFail(t)
  BY <1>8 DEF LoadFail, TypeOK, queues, players, mains, entries, games, bounds
<1> QED
  BY <1>1, <1>2, <1>3, <1>4, <1>5, <1>6, <1>7, <1>8 DEF SelectStep

\* AddWaitingQueue keeps the types of the queues, and the duplicates queued.
LEMMA WaitingQueueGrows ==
    ASSUME TypeOK, NEW a \in Account, AddWaitingQueue(a)
    PROVE  /\ waitingSet' \in SUBSET Player /\ waitingQueue' \in Seq(Account)
           /\ DuplicatesQueued => DuplicatesQueued'
<1>1. waitingSet' \in SUBSET Player
  BY DEF AddWaitingQueue, TypeOK, Account
<1>2. /\ waitingQueue' \in Seq(Account)
      /\ Len(waitingQueue) \in Nat /\ Len(waitingQueue') = Len(waitingQueue) + 1
      /\ \A i \in 1..Len(waitingQueue) : waitingQueue'[i] = waitingQueue[i]
      /\ waitingQueue'[Len(waitingQueue) + 1] = a
  BY AppendProperties DEF AddWaitingQueue, TypeOK
<1>3. ASSUME DuplicatesQueued, NEW p \in waitingSet'
      PROVE  \E i \in 1..Len(waitingQueue') : waitingQueue'[i].player = p
  <2>1. CASE p \in waitingSet
    <3>1. PICK i \in 1..Len(waitingQueue) : waitingQueue[i].player = p
      BY <1>3, <2>1 DEF DuplicatesQueued
    <3> QED
      BY <1>2, <3>1
  <2>2. CASE p = a.player
    BY <1>2, <2>2
  <2> QED
    BY <1>3, <2>1, <2>2 DEF AddWaitingQueue
<1> QED
  BY <1>1, <1>2, <1>3 DEF DuplicatesQueued

\* Every step of the main thread keeps the types.
LEMMA MainType ==
    ASSUME TypeOK, MainStep
    PROVE  TypeOK'
<1> USE LoginAssumption
<1>1. ASSUME NEW g \in GameServer, PlayerLoginReq(g)
      PROVE  TypeOK'
  <2>1. Head(toDS[g]) \in Player /\ Tail(toDS[g]) \in Seq(Player)
    <3>1. toDS[g] \in Seq(Player) /\ toDS[g] # <<>>
      BY <1>1 DEF PlayerLoginReq, TypeOK
    <3> QED
      BY <3>1, TailElements, ElementOfSeq
  <2>2. request' \in Account /\ main' \in {"idle", "lookup", "enqueue", "send", "ok", "error"}
    BY <1>1, <2>1 DEF PlayerLoginReq, TypeOK, Account
  <2>3. toDS' \in [GameServer -> Seq(Player)]
    BY <1>1, <2>1 DEF PlayerLoginReq, TypeOK
  <2> QED
    BY <1>1, <2>2, <2>3 DEF PlayerLoginReq, TypeOK, queues, players, threads, entries, games, bounds
<1>2. CASE LookUp
  <2>1. request.gs \in GameServer
    BY DEF TypeOK, Account
  <2> QED
    BY <1>2, <2>1 DEF LookUp, TypeOK, queues, threads, entries, games, bounds
<1>3. CASE Enqueue
  <2>1. waitingSet' \in SUBSET Player /\ waitingQueue' \in Seq(Account)
    BY <1>3, WaitingQueueGrows DEF Enqueue, TypeOK
  <2> QED
    BY <1>3, <2>1 DEF Enqueue, AddWaitingQueue, TypeOK, players, threads, entries, games, bounds
<1>4. CASE HeartBeat
  <2>1. Head(loadSuccess) \in Account
    BY <1>4, TailElements, ElementOfSeq DEF HeartBeat, TypeOK
  <2>2. <<>> \in Seq(Account)
    OBVIOUS
  <2> QED
    BY <1>4, <2>1, <2>2 DEF HeartBeat, TypeOK, players, threads, entries, games, bounds
<1>5. CASE SendPlayerMain
  <2>1. request.player \in Player
    BY DEF TypeOK, Account
  <2>2. toGS' \in [GameServer -> Seq([type : {"main", "ok", "error"}, player : Player, data : Data])]
    <3>1. CASE toGS' # toGS
      <4> DEFINE g == dsGS[request.player]
      <4>1. PICK m \in Seen(dsMain[request.player]) : toGS' = [toGS EXCEPT ![g] = Append(@, Note(request.player, m))]
        BY <1>5, <3>1 DEF SendPlayerMain
      <4>2. m \in Data /\ g \in GameServer \cup {NoServer}
        BY <2>1, <4>1 DEF Seen, TypeOK
      <4>3. Note(request.player, m) \in [type : {"main", "ok", "error"}, player : Player, data : Data]
        BY <2>1, <4>2 DEF Note
      <4> QED
        BY <4>1, <4>2, <4>3, AppendProperties DEF TypeOK
    <3>2. CASE toGS' = toGS
      BY <3>2 DEF TypeOK
    <3> QED
      BY <3>1, <3>2
  <2>3. main' \in {"ok", "error"}
    BY <1>5 DEF SendPlayerMain
  <2>4. UNCHANGED <<queues, players, threads, request, batch, entries, toDS, games, bounds, asked>>
    BY <1>5 DEF SendPlayerMain
  <2> QED
    BY <2>2, <2>3, <2>4 DEF TypeOK, queues, players, threads, entries, games, bounds
<1>6. CASE SendResponse
  <2>1. request.player \in Player
    BY DEF TypeOK, Account
  <2>2. Response(request.player, main = "ok") \in [type : {"main", "ok", "error"}, player : Player, data : Data]
    BY <2>1 DEF Response, Data
  <2>3. toGS' \in [GameServer -> Seq([type : {"main", "ok", "error"}, player : Player, data : Data])]
    <3> DEFINE g    == IF batch = <<>> THEN request.gs ELSE dsGS[request.player]
               here == IF batch = <<>> THEN connected ELSE Reachable
    <3>1. toGS' = IF g \in here
                  THEN [toGS EXCEPT ![g] = Append(@, Response(request.player, main = "ok"))] ELSE toGS
      BY <1>6 DEF SendResponse
    <3> HIDE DEF g, here
    <3> QED
      BY <2>2, <3>1, AppendProperties DEF TypeOK
  <2>4. batch' \in Seq(Account) /\ request' \in Account /\ main' \in {"idle", "lookup", "enqueue", "send", "ok", "error"}
    <3>1. CASE Len(batch) > 1
      <4>1. batch # <<>> /\ batch \in Seq(Account) /\ 2 \in 1..Len(batch)
        BY <3>1 DEF TypeOK
      <4>2. Tail(batch) \in Seq(Account) /\ batch[2] \in Account
        BY <4>1, TailElements, ElementOfSeq
      <4> QED
        BY <1>6, <3>1, <4>2 DEF SendResponse
    <3>2. CASE ~(Len(batch) > 1)
      BY <1>6, <3>2 DEF SendResponse, TypeOK
    <3> QED
      BY <3>1, <3>2
  <2> QED
    BY <1>6, <2>3, <2>4 DEF SendResponse, TypeOK, queues, players, threads, entries, games, bounds
<1> QED
  BY <1>1, <1>2, <1>3, <1>4, <1>5, <1>6 DEF MainStep

\* What is forgotten keeps the type of the history.
LEMMA AskedType ==
    ASSUME TypeOK, NEW g \in GameServer, Forget(g) \/ UNCHANGED asked
    PROVE  asked' \in [GameServer -> [Player -> {"never", "sent", "lost"}]]
<1> DEFINE State == {"never", "sent", "lost"}
<1>1. asked \in [GameServer -> [Player -> State]]
  BY DEF TypeOK
<1>2. CASE Forget(g)
  <2>1. [p \in Player |-> IF asked[g][p] = "sent" THEN "lost" ELSE asked[g][p]] \in [Player -> State]
    BY <1>1
  <2> QED
    BY <1>1, <1>2, <2>1 DEF Forget
<1> QED
  BY <1>1, <1>2

\* A connection that breaks leaves the types of what it changes, and the queues,
\* the players, the threads and the bounds.
LEMMA BreakType ==
    ASSUME TypeOK, NEW g \in GameServer, Break(g)
    PROVE  /\ connected' \in SUBSET GameServer /\ hidden' \in SUBSET connected'
           /\ broken' \in [GameServer -> Nat]
           /\ toDS' \in [GameServer -> Seq(Player)]
           /\ toGS' \in [GameServer -> Seq([type : {"main", "ok", "error"}, player : Player, data : Data])]
           /\ asked' \in [GameServer -> [Player -> {"never", "sent", "lost"}]]
           /\ UNCHANGED <<queues, players, threads, mains, bounds>>
<1>1. /\ toDS' \in [GameServer -> Seq(Player)]
      /\ toGS' \in [GameServer -> Seq([type : {"main", "ok", "error"}, player : Player, data : Data])]
  <2> DEFINE M == [type : {"main", "ok", "error"}, player : Player, data : Data]
  <2>1. toDS \in [GameServer -> Seq(Player)] /\ toGS \in [GameServer -> Seq(M)]
    BY DEF TypeOK
  <2>2. /\ toDS' = [toDS EXCEPT ![g] = <<>>] /\ <<>> \in Seq(Player)
        /\ toGS' = [toGS EXCEPT ![g] = <<>>]
    BY DEF Break
  <2> HIDE DEF M
  <2>3. <<>> \in Seq(M)
    OBVIOUS
  <2>4. toDS' \in [GameServer -> Seq(Player)] /\ toGS' \in [GameServer -> Seq(M)]
    BY <2>1, <2>2, <2>3
  <2> QED
    BY <2>4 DEF M
<1>2. connected' \in SUBSET GameServer /\ hidden' \in SUBSET connected' /\ broken' \in [GameServer -> Nat]
  BY DEF Break, TypeOK
<1>3. asked' \in [GameServer -> [Player -> {"never", "sent", "lost"}]]
  BY AskedType DEF Break
<1> QED
  BY <1>1, <1>2, <1>3 DEF Break

\* Every step of a game server, and of its connection, keeps the types.
LEMMA GameType ==
    ASSUME TypeOK, NEW g \in GameServer,
           \/ RegisterReq(g) \/ LoseConnection(g) \/ EndServer(g) \/ Disconnect(g) \/ GameStep(g)
           \/ \E p \in Player : Login(g, p)
    PROVE  TypeOK'
<1> USE LoginAssumption
<1>1. CASE RegisterReq(g)
  <2>1. [gs |-> TestServer, player |-> TestPlayer] \in Account
    BY DEF Account
  <2>2. waitingSet' \in SUBSET Player /\ waitingQueue' \in Seq(Account)
    BY <1>1, <2>1, WaitingQueueGrows DEF RegisterReq
  <2>3. connected' \in SUBSET GameServer /\ hidden' \in SUBSET connected'
    BY <1>1 DEF RegisterReq, TypeOK
  <2> QED
    BY <1>1, <2>2, <2>3 DEF RegisterReq, AddWaitingQueue, TypeOK, players, threads, mains, games
<1>2. CASE Disconnect(g)
  <2>1. broken' \in [GameServer -> Nat] /\ hidden' \in SUBSET connected
    BY <1>2 DEF Disconnect, TypeOK
  <2>2. asked' \in [GameServer -> [Player -> {"never", "sent", "lost"}]]
    BY <1>2, AskedType DEF Disconnect, TypeOK
  <2> QED
    BY <1>2, <2>1, <2>2 DEF Disconnect, TypeOK, queues, players, threads, mains, games, bounds
<1>5. CASE LoseConnection(g)
  BY <1>5, BreakType DEF LoseConnection, TypeOK, queues, players, threads, mains, games, bounds
<1>6. CASE EndServer(g)
  <2>1. /\ gsPlayer' \in [GameServer -> [Player -> {"absent", "waiting", "complete"}]]
        /\ gsMain' \in [GameServer -> [Player -> Data]]
    BY <1>6 DEF EndServer, TypeOK, Data
  <2> QED
    BY <1>6, <2>1, BreakType DEF EndServer, TypeOK, queues, players, threads, mains, bounds
<1>3. ASSUME NEW p \in Player, Login(g, p)
      PROVE  TypeOK'
  <2>1. toDS' \in [GameServer -> Seq(Player)]
    BY <1>3, AppendProperties DEF Login, TypeOK
  <2>2. gsPlayer' \in [GameServer -> [Player -> {"absent", "waiting", "complete"}]]
    BY <1>3 DEF Login, TypeOK
  <2>3. asked' \in [GameServer -> [Player -> {"never", "sent", "lost"}]]
    BY <1>3 DEF Login, TypeOK
  <2> QED
    BY <1>3, <2>1, <2>2, <2>3 DEF Login, TypeOK, queues, players, threads, mains, entries
<1>4. ASSUME GameStep(g)
      PROVE  TypeOK'
  <2> DEFINE Message == [type : {"main", "ok", "error"}, player : Player, data : Data]
  <2>0. toGS \in [GameServer -> Seq(Message)]
    BY DEF TypeOK
  <2>1. toGS[g] \in Seq(Message) /\ toGS[g] # <<>>
    <3>1. toGS[g] # <<>>
      BY <1>4 DEF GameStep, SendPlayerMainNty, PlayerLoginRes
    <3> HIDE DEF Message
    <3> QED
      BY <2>0, <3>1
  <2>2. Head(toGS[g]) \in Message /\ Tail(toGS[g]) \in Seq(Message)
    <3> HIDE DEF Message
    <3>1. Head(toGS[g]) \in Message
      BY <2>1, TailElements, ElementOfSeq
    <3>2. Tail(toGS[g]) \in Seq(Message)
      BY <2>1, TailElements
    <3> QED
      BY <3>1, <3>2
  <2>3. toGS' \in [GameServer -> Seq(Message)]
    BY <1>4, <2>2 DEF GameStep, SendPlayerMainNty, PlayerLoginRes, TypeOK
  <2>4. Head(toGS[g]).player \in Player /\ Head(toGS[g]).data \in Data
    BY <2>2
  <2>5. CASE SendPlayerMainNty(g)
    <3>1. gsMain' \in [GameServer -> [Player -> Data]]
      BY <2>4, <2>5 DEF SendPlayerMainNty, TypeOK
    <3> QED
      BY <2>3, <2>5, <3>1 DEF SendPlayerMainNty, TypeOK, queues, players, threads, mains, entries, bounds
  <2>6. CASE PlayerLoginRes(g)
    <3>1. gsPlayer' \in [GameServer -> [Player -> {"absent", "waiting", "complete"}]]
      BY <2>4, <2>6 DEF PlayerLoginRes, TypeOK
    <3> QED
      BY <2>3, <2>6, <3>1 DEF PlayerLoginRes, TypeOK, queues, players, threads, mains, entries, bounds
  <2> QED
    BY <1>4, <2>5, <2>6 DEF GameStep
<1> QED
  BY <1>1, <1>2, <1>3, <1>4, <1>5, <1>6

\* Players stay online, loaded data stays loaded, and servers stay set.
LEMMA PlayersGrow ==
    ASSUME TypeOK, Next
    PROVE  Grows
<1> USE LoginAssumption DEF Grows, TypeOK, Account
<1>1. ASSUME NEW t \in Thread, SelectStep(t)
      PROVE  Grows
  <2>1. CASE SetGSServerID(t)
    <3>1. account[t].gs \in GameServer
      OBVIOUS
    <3> QED
      BY <2>1, <3>1 DEF SetGSServerID
  <2>2. CASE AddPlayer(t)
    BY <2>2 DEF AddPlayer
  <2>3. CASE SelectMain(t) \/ CopyMain(t)
    BY <2>3 DEF SelectMain, CopyMain
  <2>4. CASE RemoveWaitingQueue(t) \/ SelectAccount(t) \/ AddLoadSuccessQueue(t) \/ LoadFail(t)
    BY <2>4 DEF RemoveWaitingQueue, SelectAccount, AddLoadSuccessQueue, LoadFail, players
  <2> QED
    BY <1>1, <2>1, <2>2, <2>3, <2>4 DEF SelectStep
<1>2. CASE LookUp
  <2>1. request.gs \in GameServer
    OBVIOUS
  <2> QED
    BY <1>2, <2>1 DEF LookUp
<1>3. CASE (\E g \in GameServer : PlayerLoginReq(g)) \/ Enqueue \/ HeartBeat \/ SendPlayerMain \/ SendResponse
  <2>1. UNCHANGED players
    BY <1>3 DEF PlayerLoginReq, Enqueue, HeartBeat, SendPlayerMain, SendResponse
  <2> QED
    BY <2>1 DEF players
<1>4. ASSUME NEW g \in GameServer,
             RegisterReq(g) \/ LoseConnection(g) \/ EndServer(g) \/ Disconnect(g) \/ GameStep(g) \/ \E p \in Player : Login(g, p)
      PROVE  Grows
  <2>1. UNCHANGED players
    BY <1>4 DEF RegisterReq, LoseConnection, EndServer, Break, Disconnect, GameStep, SendPlayerMainNty, PlayerLoginRes, Login
  <2> QED
    BY <2>1 DEF players
<1> QED
  BY <1>1, <1>2, <1>3, <1>4 DEF Next, MainStep

ReadyNext(p) == p \in online' /\ dsMain'[p] = "full" /\ dsGS'[p] # NoServer

\* What is ready stays ready.
LEMMA ReadyStays ==
    ASSUME Grows, NEW p \in Player, Ready(p)
    PROVE  ReadyNext(p)
BY DEF Grows, Ready, ReadyNext

\* A thread's step leaves what the other threads have done, and does its own.
LEMMA ThreadsStaySound ==
    ASSUME IInv, Next
    PROVE  ThreadsSound'
<1> USE LoginAssumption
<1>1. TypeOK /\ ThreadsSound /\ Grows
  BY PlayersGrow DEF IInv
<1>2. ASSUME NEW u \in Thread, UNCHANGED <<thread[u], account[u]>>
      PROVE  /\ thread'[u] \in {"main", "copy", "server", "queue"} => account'[u].player \in online'
             /\ thread'[u] \in {"server", "queue"} => dsMain'[account'[u].player] = "full"
             /\ thread'[u] = "queue" => dsGS'[account'[u].player] # NoServer
  <2>1. account[u].player \in Player
    BY <1>1 DEF TypeOK, Account
  <2> QED
    BY <1>1, <1>2, <2>1 DEF Grows, ThreadsSound
<1>3. ASSUME NEW t \in Thread, SelectStep(t)
      PROVE  ThreadsSound'
  <2>0. account[t] \in Account /\ account[t].player \in Player /\ account[t].gs \in GameServer
    BY <1>1 DEF TypeOK, Account
  <2>1. \A u \in Thread \ {t} : UNCHANGED <<thread[u], account[u]>>
    BY <1>1, <1>3 DEF TypeOK, SelectStep, RemoveWaitingQueue, SelectAccount, AddPlayer, SelectMain,
                      CopyMain, SetGSServerID, AddLoadSuccessQueue, LoadFail
  <2>2. /\ thread'[t] \in {"main", "copy", "server", "queue"} => account'[t].player \in online'
        /\ thread'[t] \in {"server", "queue"} => dsMain'[account'[t].player] = "full"
        /\ thread'[t] = "queue" => dsGS'[account'[t].player] # NoServer
    <3>1. CASE RemoveWaitingQueue(t)
      BY <1>1, <3>1 DEF TypeOK, RemoveWaitingQueue
    <3>2. CASE SelectAccount(t)
      BY <1>1, <3>2 DEF TypeOK, SelectAccount, players
    <3>3. CASE AddPlayer(t)
      BY <1>1, <3>3 DEF TypeOK, AddPlayer
    <3>4. CASE SelectMain(t)
      BY <1>1, <2>0, <3>4 DEF TypeOK, ThreadsSound, SelectMain
    <3>5. CASE CopyMain(t)
      BY <1>1, <2>0, <3>5 DEF TypeOK, ThreadsSound, CopyMain
    <3>6. CASE SetGSServerID(t)
      BY <1>1, <2>0, <3>6 DEF TypeOK, ThreadsSound, SetGSServerID
    <3>7. CASE AddLoadSuccessQueue(t)
      BY <1>1, <3>7 DEF TypeOK, AddLoadSuccessQueue
    <3>8. CASE LoadFail(t)
      BY <1>1, <3>8 DEF TypeOK, LoadFail
    <3> QED
      BY <1>3, <3>1, <3>2, <3>3, <3>4, <3>5, <3>6, <3>7, <3>8 DEF SelectStep
  <2> QED
    BY <1>2, <2>1, <2>2 DEF ThreadsSound
<1>4. ASSUME UNCHANGED threads
      PROVE  ThreadsSound'
  BY <1>2, <1>4 DEF threads, ThreadsSound
<1>5. CASE MainStep
  BY <1>4, <1>5 DEF MainStep, PlayerLoginReq, LookUp, Enqueue, HeartBeat, SendPlayerMain, SendResponse
<1>6. ASSUME NEW g \in GameServer,
             RegisterReq(g) \/ LoseConnection(g) \/ EndServer(g) \/ Disconnect(g) \/ GameStep(g) \/ \E p \in Player : Login(g, p)
      PROVE  ThreadsSound'
  BY <1>4, <1>6 DEF RegisterReq, LoseConnection, EndServer, Break, Disconnect, GameStep, SendPlayerMainNty, PlayerLoginRes, Login
<1> QED
  BY <1>3, <1>5, <1>6 DEF Next

\* What is queued as loaded, or being sent, stays ready; what is added is.
LEMMA LoadedStaysReady ==
    ASSUME IInv, Next
    PROVE  LoadedReady'
<1> USE LoginAssumption
<1>1. TypeOK /\ ThreadsSound /\ LoadedReady /\ Grows
  BY PlayersGrow DEF IInv
<1>2. /\ loadSuccess \in Seq(Account) /\ batch \in Seq(Account)
      /\ \A i \in 1..Len(loadSuccess) : loadSuccess[i].player \in Player
      /\ \A i \in 1..Len(batch) : batch[i].player \in Player
  <2>1. loadSuccess \in Seq(Account) /\ batch \in Seq(Account)
    BY <1>1 DEF TypeOK
  <2>2. /\ \A i \in 1..Len(loadSuccess) : loadSuccess[i] \in Account
        /\ \A i \in 1..Len(batch) : batch[i] \in Account
    BY <2>1, ElementOfSeq
  <2> QED
    BY <2>1, <2>2 DEF Account
<1>3. /\ \A i \in 1..Len(loadSuccess) : ReadyNext(loadSuccess[i].player)
      /\ \A i \in 1..Len(batch) : ReadyNext(batch[i].player)
  BY <1>1, <1>2, ReadyStays DEF LoadedReady
<1>4. SUFFICES /\ \A i \in 1..Len(loadSuccess') : ReadyNext(loadSuccess'[i].player)
               /\ \A i \in 1..Len(batch') : ReadyNext(batch'[i].player)
  BY DEF LoadedReady, Ready, ReadyNext
<1>5. CASE UNCHANGED <<loadSuccess, batch>>
  BY <1>3, <1>5
<1>6. ASSUME NEW t \in Thread, AddLoadSuccessQueue(t)
      PROVE  LoadedReady'
  <2>1. Ready(account[t].player) /\ account[t] \in Account /\ account[t].player \in Player
    BY <1>1, <1>6 DEF AddLoadSuccessQueue, ThreadsSound, Ready, TypeOK, Account
  <2>2. ReadyNext(account[t].player)
    BY <1>1, <2>1, ReadyStays
  <2>3. /\ Len(loadSuccess) \in Nat /\ Len(loadSuccess') = Len(loadSuccess) + 1
        /\ \A i \in 1..Len(loadSuccess) : loadSuccess'[i] = loadSuccess[i]
        /\ loadSuccess'[Len(loadSuccess) + 1] = account[t]
    BY <1>2, <1>6, <2>1, AppendProperties DEF AddLoadSuccessQueue
  <2>4. \A i \in 1..Len(loadSuccess') : i \in 1..Len(loadSuccess) \/ i = Len(loadSuccess) + 1
    BY <2>3
  <2>5. \A i \in 1..Len(loadSuccess') : ReadyNext(loadSuccess'[i].player)
    BY <1>3, <2>2, <2>3, <2>4
  <2>6. batch' = batch
    BY <1>6 DEF AddLoadSuccessQueue, mains
  <2> QED
    BY <1>3, <2>5, <2>6 DEF LoadedReady, Ready, ReadyNext
<1>7. CASE HeartBeat
  <2>1. loadSuccess' = <<>> /\ batch' = loadSuccess
    BY <1>7 DEF HeartBeat
  <2> QED
    BY <1>3, <2>1
<1>8. CASE SendResponse
  <2>1. loadSuccess' = loadSuccess
    BY <1>8 DEF SendResponse, queues
  <2>2. CASE Len(batch) > 1
    <3>1. batch # <<>> /\ batch' = Tail(batch)
      BY <1>8, <2>2 DEF SendResponse
    <3>2. \A i \in 1..Len(batch') : batch'[i] = batch[i + 1] /\ i + 1 \in 1..Len(batch)
      BY <1>2, <3>1, TailElements
    <3> QED
      BY <1>3, <2>1, <3>2
  <2>3. CASE ~(Len(batch) > 1)
    <3>1. batch' = <<>>
      BY <1>8, <2>3 DEF SendResponse
    <3> QED
      BY <1>3, <2>1, <3>1
  <2> QED
    BY <2>2, <2>3
<1>9. ASSUME NEW t \in Thread,
             \/ RemoveWaitingQueue(t) \/ SelectAccount(t) \/ AddPlayer(t) \/ SelectMain(t)
             \/ CopyMain(t) \/ SetGSServerID(t) \/ LoadFail(t)
      PROVE  UNCHANGED <<loadSuccess, batch>>
  BY <1>9 DEF RemoveWaitingQueue, SelectAccount, AddPlayer, SelectMain, CopyMain, SetGSServerID,
              LoadFail, queues, mains
<1>10. CASE (\E g \in GameServer : PlayerLoginReq(g)) \/ LookUp \/ Enqueue \/ SendPlayerMain
  <2>1. UNCHANGED <<loadSuccess, batch>>
    BY <1>10 DEF PlayerLoginReq, LookUp, Enqueue, AddWaitingQueue, SendPlayerMain, queues
  <2> QED
    BY <1>5, <2>1
<1>11. ASSUME NEW g \in GameServer,
              RegisterReq(g) \/ LoseConnection(g) \/ EndServer(g) \/ Disconnect(g) \/ GameStep(g) \/ \E p \in Player : Login(g, p)
       PROVE  UNCHANGED <<loadSuccess, batch>>
  BY <1>11 DEF RegisterReq, AddWaitingQueue, LoseConnection, EndServer, Break, Disconnect, GameStep, SendPlayerMainNty,
               PlayerLoginRes, Login, queues, mains
<1>12. ASSUME LoadedReady'
       PROVE  /\ \A i \in 1..Len(loadSuccess') : ReadyNext(loadSuccess'[i].player)
              /\ \A i \in 1..Len(batch') : ReadyNext(batch'[i].player)
  BY <1>12 DEF LoadedReady, Ready, ReadyNext
<1> QED
  BY <1>5, <1>6, <1>7, <1>8, <1>9, <1>10, <1>11, <1>12 DEF Next, SelectStep, MainStep

\* A player leaves the set with its account, and enters it with it.
LEMMA DuplicatesStayQueued ==
    ASSUME IInv, Next
    PROVE  DuplicatesQueued'
<1> USE LoginAssumption
<1>1. TypeOK /\ DuplicatesQueued
  BY DEF IInv
<1>2. CASE UNCHANGED <<waitingSet, waitingQueue>>
  BY <1>1, <1>2 DEF DuplicatesQueued
<1>3. ASSUME NEW a \in Account, AddWaitingQueue(a)
      PROVE  DuplicatesQueued'
  BY <1>1, <1>3, WaitingQueueGrows
<1>4. ASSUME NEW t \in Thread, RemoveWaitingQueue(t)
      PROVE  DuplicatesQueued'
  <2>1. waitingQueue \in Seq(Account) /\ waitingQueue # <<>>
    BY <1>1, <1>4 DEF RemoveWaitingQueue, TypeOK
  <2>2. /\ Head(waitingQueue) = waitingQueue[1]
        /\ Len(waitingQueue') = Len(waitingQueue) - 1 /\ Len(waitingQueue) \in Nat
        /\ \A i \in 1..Len(waitingQueue') : waitingQueue'[i] = waitingQueue[i + 1]
    BY <1>4, <2>1, TailElements, LenProperties DEF RemoveWaitingQueue
  <2>3. ASSUME NEW p \in waitingSet'
        PROVE  \E i \in 1..Len(waitingQueue') : waitingQueue'[i].player = p
    <3>1. p \in waitingSet /\ p # Head(waitingQueue).player
      BY <1>4 DEF RemoveWaitingQueue
    <3>2. PICK i \in 1..Len(waitingQueue) : waitingQueue[i].player = p
      BY <1>1, <3>1 DEF DuplicatesQueued
    <3>3. i # 1
      BY <2>2, <3>1, <3>2
    <3>4. i - 1 \in 1..Len(waitingQueue') /\ (i - 1) + 1 = i
      BY <2>2, <3>2, <3>3
    <3>5. waitingQueue'[i - 1] = waitingQueue[i]
      BY <2>2, <3>4
    <3> QED
      BY <3>2, <3>4, <3>5
  <2> QED
    BY <2>3 DEF DuplicatesQueued
<1>5. ASSUME NEW t \in Thread,
             \/ SelectAccount(t) \/ AddPlayer(t) \/ SelectMain(t) \/ CopyMain(t)
             \/ SetGSServerID(t) \/ AddLoadSuccessQueue(t) \/ LoadFail(t)
      PROVE  UNCHANGED <<waitingSet, waitingQueue>>
  BY <1>5 DEF SelectAccount, AddPlayer, SelectMain, CopyMain, SetGSServerID,
              AddLoadSuccessQueue, LoadFail, queues
<1>6. CASE (\E g \in GameServer : PlayerLoginReq(g)) \/ LookUp \/ HeartBeat \/ SendPlayerMain \/ SendResponse
  <2>1. UNCHANGED <<waitingSet, waitingQueue>>
    BY <1>6 DEF PlayerLoginReq, LookUp, HeartBeat, SendPlayerMain, SendResponse, queues
  <2> QED
    BY <1>2, <2>1
<1>7. CASE Enqueue
  BY <1>1, <1>3, <1>7 DEF Enqueue, TypeOK
<1>8. ASSUME NEW g \in GameServer, RegisterReq(g)
      PROVE  DuplicatesQueued'
  <2>1. [gs |-> TestServer, player |-> TestPlayer] \in Account
    BY DEF Account
  <2> QED
    BY <1>3, <1>8, <2>1 DEF RegisterReq
<1>9. ASSUME NEW g \in GameServer, LoseConnection(g) \/ EndServer(g) \/ Disconnect(g) \/ GameStep(g) \/ \E p \in Player : Login(g, p)
      PROVE  UNCHANGED <<waitingSet, waitingQueue>>
  BY <1>9 DEF LoseConnection, EndServer, Break, Disconnect, GameStep, SendPlayerMainNty, PlayerLoginRes, Login, queues
<1> QED
  BY <1>2, <1>4, <1>5, <1>6, <1>7, <1>8, <1>9 DEF Next, SelectStep, MainStep

\* Every step keeps the inductive invariant.
LEMMA NextIInv ==
    ASSUME IInv, [Next]_vars
    PROVE  IInv'
<1>1. CASE Next
  <2>1. TypeOK'
    BY <1>1, SelectType, MainType, GameType DEF IInv, Next
  <2> QED
    BY <1>1, <2>1, ThreadsStaySound, LoadedStaysReady, DuplicatesStayQueued DEF IInv
<1>2. CASE UNCHANGED vars
  BY <1>2 DEF vars, queues, players, threads, mains, entries, games, bounds, IInv, TypeOK, ThreadsSound,
              LoadedReady, Ready, DuplicatesQueued
<1> QED
  BY <1>1, <1>2

-----------------------------------------------------------------------------
(* The first login of a player. *)

\* What a sequence has when something is put at its end or taken from its front.
LEMMA RangeAppend ==
    ASSUME NEW S, NEW q \in Seq(S), NEW e \in S
    PROVE  Range(Append(q, e)) = Range(q) \cup {e}
<1>1. /\ Append(q, e) \in Seq(S) /\ Len(q) \in Nat
      /\ Len(Append(q, e)) = Len(q) + 1
      /\ \A i \in 1..Len(q) : Append(q, e)[i] = q[i]
      /\ Append(q, e)[Len(q) + 1] = e
  BY AppendProperties
<1>2. DOMAIN q = 1..Len(q) /\ DOMAIN Append(q, e) = 1..Len(Append(q, e))
  BY <1>1
<1>3. \A i \in 1..Len(Append(q, e)) : i \in 1..Len(q) \/ i = Len(q) + 1
  BY <1>1
<1> QED
  BY <1>1, <1>2, <1>3 DEF Range

\* The head and the tail of a sequence have elements of it.
LEMMA RangeTail ==
    ASSUME NEW S, NEW q \in Seq(S), q # <<>>
    PROVE  Range(Tail(q)) \subseteq Range(q) /\ Head(q) \in Range(q)
<1>1. /\ Head(q) = q[1] /\ 1 \in 1..Len(q) /\ Tail(q) \in Seq(S)
      /\ \A i \in 1..Len(Tail(q)) : Tail(q)[i] = q[i + 1] /\ i + 1 \in 1..Len(q)
  BY TailElements
<1>2. DOMAIN q = 1..Len(q) /\ DOMAIN Tail(q) = 1..Len(Tail(q))
  BY <1>1
<1> QED
  BY <1>1, <1>2 DEF Range

\* The elements of a sequence are those at its places.
LEMMA RangeIndices ==
    ASSUME NEW S, NEW q \in Seq(S)
    PROVE  Range(q) = {q[i] : i \in 1..Len(q)}
BY DEF Range

\* An account comes from another place, or from a request or a registration.
LEMMA AccountsFrom ==
    ASSUME NEW X,
           Range(waitingQueue') \subseteq Accounts \cup X, Range(loadSuccess') \subseteq Accounts \cup X,
           Range(batch') \subseteq Accounts \cup X,
           \A t \in Thread : thread'[t] # "idle" => account'[t] \in Accounts \cup X
    PROVE  Accounts' \subseteq Accounts \cup X
BY DEF Accounts

\* Every queue and every thread at work has accounts of Accounts.
LEMMA AccountsParts ==
    /\ Range(waitingQueue) \subseteq Accounts /\ Range(loadSuccess) \subseteq Accounts
    /\ Range(batch) \subseteq Accounts
    /\ \A t \in Thread : thread[t] # "idle" => account[t] \in Accounts
BY DEF Accounts

\* A select thread takes the account that it loads from the queue.
LEMMA SelectAccounts ==
    ASSUME TypeOK, NEW t \in Thread, SelectStep(t)
    PROVE  Accounts' \subseteq Accounts
<1>0. /\ waitingQueue \in Seq(Account) /\ loadSuccess \in Seq(Account)
      /\ account \in [Thread -> Account]
      /\ thread \in [Thread -> {"idle", "account", "insert", "main", "copy", "server", "queue"}]
  BY DEF TypeOK
<1>1. batch' = batch
  BY DEF SelectStep, RemoveWaitingQueue, SelectAccount, AddPlayer, SelectMain, CopyMain,
         SetGSServerID, AddLoadSuccessQueue, LoadFail, mains
<1>2. CASE RemoveWaitingQueue(t)
  <2>1. Range(waitingQueue') \subseteq Range(waitingQueue) /\ Head(waitingQueue) \in Range(waitingQueue)
    BY <1>0, <1>2, RangeTail DEF RemoveWaitingQueue
  <2>2. \A u \in Thread : thread'[u] # "idle" =>
            account'[u] = Head(waitingQueue) \/ (thread[u] # "idle" /\ account'[u] = account[u])
    BY <1>0, <1>2 DEF RemoveWaitingQueue
  <2>3. loadSuccess' = loadSuccess
    BY <1>2 DEF RemoveWaitingQueue
  <2> QED
    BY <1>1, <2>1, <2>2, <2>3 DEF Accounts
<1>3. CASE AddLoadSuccessQueue(t)
  <2>1. account[t] \in Accounts /\ account[t] \in Account
    BY <1>0, <1>3, AccountsParts DEF AddLoadSuccessQueue
  <2>2. Range(loadSuccess') = Range(loadSuccess) \cup {account[t]}
    BY <1>0, <1>3, <2>1, RangeAppend DEF AddLoadSuccessQueue
  <2>3. /\ waitingQueue' = waitingQueue /\ account' = account
        /\ \A u \in Thread : thread'[u] # "idle" => thread[u] # "idle"
    BY <1>0, <1>3 DEF AddLoadSuccessQueue
  <2> QED
    BY <1>1, <2>1, <2>2, <2>3, AccountsParts, AccountsFrom
<1>4. CASE \/ SelectAccount(t) \/ AddPlayer(t) \/ SelectMain(t) \/ CopyMain(t)
           \/ SetGSServerID(t) \/ LoadFail(t)
  <2>1. UNCHANGED <<queues, account>> /\ thread[t] # "idle"
    BY <1>4 DEF SelectAccount, AddPlayer, SelectMain, CopyMain, SetGSServerID, LoadFail, queues
  <2>2. \A u \in Thread : u # t => thread'[u] = thread[u]
    BY <1>0, <1>4 DEF SelectAccount, AddPlayer, SelectMain, CopyMain, SetGSServerID, LoadFail
  <2>3. \A u \in Thread : thread'[u] # "idle" => thread[u] # "idle"
    BY <2>1, <2>2
  <2> QED
    BY <1>1, <2>1, <2>3 DEF Accounts, queues
<1> QED
  BY <1>2, <1>3, <1>4 DEF SelectStep

\* The main thread queues the account of a request; heartBeat moves accounts.
LEMMA MainAccounts ==
    ASSUME TypeOK, MainStep
    PROVE  /\ Accounts' \subseteq Accounts \cup (IF main = "enqueue" THEN {request} ELSE {})
           /\ Accounts' \subseteq Accounts \/ Enqueue
<1>0. /\ waitingQueue \in Seq(Account) /\ loadSuccess \in Seq(Account) /\ batch \in Seq(Account)
      /\ request \in Account
  BY DEF TypeOK
<1>1. UNCHANGED threads
  BY DEF MainStep, PlayerLoginReq, LookUp, Enqueue, HeartBeat, SendPlayerMain, SendResponse
<1>2. CASE Enqueue
  <2>1. Range(waitingQueue') = Range(waitingQueue) \cup {request}
    BY <1>0, <1>2, RangeAppend DEF Enqueue, AddWaitingQueue
  <2>2. main = "enqueue" /\ loadSuccess' = loadSuccess /\ batch' = batch
    BY <1>2 DEF Enqueue, AddWaitingQueue
  <2> QED
    BY <1>1, <1>2, <2>1, <2>2, AccountsParts, AccountsFrom DEF threads
<1>3. CASE HeartBeat
  <2>1. Range(<<>>) = {}
    BY DEF Range
  <2>2. waitingQueue' = waitingQueue /\ Range(loadSuccess') = {} /\ Range(batch') = Range(loadSuccess)
    BY <1>3, <2>1 DEF HeartBeat
  <2> QED
    BY <1>1, <2>2 DEF Accounts, threads
<1>4. CASE SendResponse
  <2>1. Range(batch') \subseteq Range(batch)
    <3>1. CASE Len(batch) > 1
      <4>1. batch # <<>> /\ batch' = Tail(batch)
        BY <1>4, <3>1 DEF SendResponse
      <4> QED
        BY <1>0, <4>1, RangeTail
    <3>2. CASE ~(Len(batch) > 1)
      BY <1>4, <3>2 DEF SendResponse, Range
    <3> QED
      BY <3>1, <3>2
  <2>2. waitingQueue' = waitingQueue /\ loadSuccess' = loadSuccess
    BY <1>4 DEF SendResponse, queues
  <2> QED
    BY <1>1, <2>1, <2>2 DEF Accounts, threads
<1>5. CASE (\E g \in GameServer : PlayerLoginReq(g)) \/ LookUp \/ SendPlayerMain
  <2>1. UNCHANGED <<waitingQueue, loadSuccess, batch>>
    BY <1>5 DEF PlayerLoginReq, LookUp, SendPlayerMain, queues
  <2> QED
    BY <1>1, <2>1 DEF Accounts, threads
<1> QED
  BY <1>2, <1>3, <1>4, <1>5 DEF MainStep

\* A registration queues the account "for test", and nothing else does.
LEMMA GameAccounts ==
    ASSUME TypeOK, NEW g \in GameServer,
           RegisterReq(g) \/ LoseConnection(g) \/ EndServer(g) \/ Disconnect(g) \/ GameStep(g) \/ \E q \in Player : Login(g, q)
    PROVE  Accounts' \subseteq Accounts \cup {[gs |-> TestServer, player |-> TestPlayer]}
<1>1. CASE RegisterReq(g)
  <2>1. waitingQueue \in Seq(Account) /\ [gs |-> TestServer, player |-> TestPlayer] \in Account
    BY LoginAssumption DEF TypeOK, Account
  <2>2. Range(waitingQueue') = Range(waitingQueue) \cup {[gs |-> TestServer, player |-> TestPlayer]}
    BY <1>1, <2>1, RangeAppend DEF RegisterReq, AddWaitingQueue
  <2>3. UNCHANGED <<loadSuccess, batch, thread, account>>
    BY <1>1 DEF RegisterReq, AddWaitingQueue, threads, mains
  <2> QED
    BY <2>2, <2>3, AccountsParts, AccountsFrom
<1>2. CASE LoseConnection(g) \/ EndServer(g) \/ Disconnect(g) \/ GameStep(g) \/ \E q \in Player : Login(g, q)
  <2>1. UNCHANGED <<queues, threads, mains>>
    BY <1>2 DEF LoseConnection, EndServer, Break, Disconnect, GameStep, SendPlayerMainNty, PlayerLoginRes, Login
  <2> QED
    BY <2>1 DEF Accounts, queues, threads, mains
<1> QED
  BY <1>1, <1>2

\* Who is known was known before, or is queued by this step.
LEMMA KnownFrom ==
    ASSUME TypeOK, Next, NEW p \in Player, p # TestPlayer
    PROVE  /\ Known(p)' => Known(p) \/ (Enqueue /\ request.player = p)
           /\ \A a \in Accounts' : a.player = p => a \in Accounts \/ (main = "enqueue" /\ a = request)
<1>1. \A a \in Accounts' : a.player = p =>
          a \in Accounts \/ (Enqueue /\ main = "enqueue" /\ a = request)
  <2>1. ASSUME NEW t \in Thread, SelectStep(t)
        PROVE  Accounts' \subseteq Accounts
    BY <2>1, SelectAccounts
  <2>2. CASE MainStep
    BY <2>2, MainAccounts DEF Enqueue
  <2>3. ASSUME NEW g \in GameServer,
               RegisterReq(g) \/ LoseConnection(g) \/ EndServer(g) \/ Disconnect(g) \/ GameStep(g) \/ \E q \in Player : Login(g, q)
        PROVE  Accounts' \subseteq Accounts \cup {[gs |-> TestServer, player |-> TestPlayer]}
    BY <2>3, GameAccounts
  <2>4. [gs |-> TestServer, player |-> TestPlayer].player # p
    OBVIOUS
  <2> QED
    BY <2>1, <2>2, <2>3, <2>4 DEF Next
<1>2. p \in online' => p \in online \/ \E a \in Accounts : a.player = p
  <2>1. ASSUME NEW t \in Thread, AddPlayer(t)
        PROVE  p \in online' => p \in online \/ \E a \in Accounts : a.player = p
    <3>1. account[t] \in Accounts
      BY <2>1, AccountsParts DEF AddPlayer
    <3> QED
      BY <2>1, <3>1 DEF AddPlayer
  <2>2. ASSUME NEW t \in Thread,
               \/ RemoveWaitingQueue(t) \/ SelectAccount(t) \/ SelectMain(t) \/ CopyMain(t)
               \/ SetGSServerID(t) \/ AddLoadSuccessQueue(t) \/ LoadFail(t)
        PROVE  online' = online
    BY <2>2 DEF RemoveWaitingQueue, SelectAccount, SelectMain, CopyMain, SetGSServerID,
                AddLoadSuccessQueue, LoadFail, players
  <2>3. CASE MainStep
    BY <2>3 DEF MainStep, PlayerLoginReq, LookUp, Enqueue, HeartBeat, SendPlayerMain, SendResponse, players
  <2>4. ASSUME NEW g \in GameServer,
               RegisterReq(g) \/ LoseConnection(g) \/ EndServer(g) \/ Disconnect(g) \/ GameStep(g) \/ \E q \in Player : Login(g, q)
        PROVE  online' = online
    BY <2>4 DEF RegisterReq, LoseConnection, EndServer, Break, Disconnect, GameStep, SendPlayerMainNty, PlayerLoginRes, Login, players
  <2> QED
    BY <2>1, <2>2, <2>3, <2>4 DEF Next, SelectStep
<1> QED
  BY <1>1, <1>2 DEF Known

\* The server of a player is set to the one of an account that is loaded, or of
\* a request for a player that is online.
LEMMA ServerFrom ==
    ASSUME TypeOK, Next, NEW p \in Player
    PROVE  \/ dsGS'[p] = dsGS[p]
           \/ \E a \in Accounts : a.player = p /\ dsGS'[p] = a.gs
           \/ Asking(p) /\ p \in online
<1>0. dsGS \in [Player -> GameServer \cup {NoServer}]
  BY DEF TypeOK
<1>1. ASSUME NEW t \in Thread, SetGSServerID(t)
      PROVE  dsGS'[p] = dsGS[p] \/ \E a \in Accounts : a.player = p /\ dsGS'[p] = a.gs
  <2>1. account[t] \in Accounts
    BY <1>1, AccountsParts DEF SetGSServerID
  <2> QED
    BY <1>0, <1>1, <2>1 DEF SetGSServerID
<1>2. CASE LookUp
  BY <1>0, <1>2 DEF LookUp, Asking
<1>3. ASSUME NEW t \in Thread,
             \/ RemoveWaitingQueue(t) \/ SelectAccount(t) \/ AddPlayer(t) \/ SelectMain(t)
             \/ CopyMain(t) \/ AddLoadSuccessQueue(t) \/ LoadFail(t)
      PROVE  dsGS' = dsGS
  BY <1>3 DEF RemoveWaitingQueue, SelectAccount, AddPlayer, SelectMain, CopyMain,
              AddLoadSuccessQueue, LoadFail, players
<1>4. CASE (\E g \in GameServer : PlayerLoginReq(g)) \/ Enqueue \/ HeartBeat \/ SendPlayerMain \/ SendResponse
  BY <1>4 DEF PlayerLoginReq, Enqueue, HeartBeat, SendPlayerMain, SendResponse, players
<1>5. ASSUME NEW g \in GameServer,
             RegisterReq(g) \/ LoseConnection(g) \/ EndServer(g) \/ Disconnect(g) \/ GameStep(g) \/ \E q \in Player : Login(g, q)
      PROVE  dsGS' = dsGS
  BY <1>5 DEF RegisterReq, LoseConnection, EndServer, Break, Disconnect, GameStep, SendPlayerMainNty, PlayerLoginRes, Login, players
<1> QED
  BY <1>1, <1>2, <1>3, <1>4, <1>5 DEF Next, SelectStep, MainStep

\* The request of the main thread is what it was, the first of a queue of a game
\* server, or an account that is answered.
LEMMA RequestFrom ==
    ASSUME TypeOK, BatchFirst, Next, NEW p \in Player, main' # "idle", request'.player = p
    PROVE  \/ Asking(p) /\ Asking(p)' /\ request' = request
           \/ \E g \in GameServer : PlayerLoginReq(g) /\ p = Head(toDS[g]) /\ request'.gs = g
           \/ /\ main' \in {"send", "ok", "error"}
              /\ \/ batch' # <<>> /\ request' \in Accounts
                 \/ Asking(p) /\ p \in online
                 \/ main \in {"send", "ok", "error"} /\ request.player = p /\ batch' = batch
<1>1. CASE HeartBeat
  <2>1. loadSuccess \in Seq(Account) /\ loadSuccess # <<>> /\ batch' = loadSuccess
        /\ request' = Head(loadSuccess) /\ main' = "send"
    BY <1>1 DEF HeartBeat, TypeOK
  <2>2. request' \in Accounts
    BY <2>1, RangeTail, AccountsParts
  <2> QED
    BY <2>1, <2>2 DEF Asking
<1>2. CASE SendResponse
  <2>1. Len(batch) > 1
    BY <1>2 DEF SendResponse
  <2>2. batch \in Seq(Account) /\ batch # <<>> /\ 2 \in 1..Len(batch) /\ Tail(batch) # <<>>
    <3>1. batch \in Seq(Account) /\ batch # <<>>
      BY <2>1 DEF TypeOK
    <3>2. Tail(batch) \in Seq(Account) /\ Len(Tail(batch)) = Len(batch) - 1 /\ Len(batch) \in Nat
      BY <3>1, TailElements, LenProperties
    <3>3. Len(Tail(batch)) # 0
      BY <2>1, <3>2
    <3> QED
      BY <2>1, <3>1, <3>2, <3>3, EmptySeq
  <2>3. batch' # <<>> /\ main' = "send" /\ request' = batch[2]
    BY <1>2, <2>1, <2>2 DEF SendResponse
  <2>4. batch[2] \in Accounts
    BY <2>2, RangeIndices, AccountsParts
  <2> QED
    BY <2>3, <2>4 DEF Asking
<1>3. ASSUME NEW g \in GameServer, PlayerLoginReq(g)
      PROVE  p = Head(toDS[g]) /\ request'.gs = g
  BY <1>3 DEF PlayerLoginReq
<1>4. CASE LookUp
  BY <1>4 DEF LookUp, Asking
<1>5. CASE Enqueue
  BY <1>5 DEF Enqueue
<1>6. CASE SendPlayerMain
  BY <1>6 DEF SendPlayerMain, Asking
<1>7. CASE UNCHANGED mains
  BY <1>7 DEF mains, Asking, TypeOK
<1>8. ASSUME NEW t \in Thread, SelectStep(t) PROVE UNCHANGED mains
  BY <1>8 DEF SelectStep, RemoveWaitingQueue, SelectAccount, AddPlayer, SelectMain, CopyMain,
              SetGSServerID, AddLoadSuccessQueue, LoadFail, mains
<1>9. ASSUME NEW g \in GameServer,
             RegisterReq(g) \/ LoseConnection(g) \/ EndServer(g) \/ Disconnect(g) \/ GameStep(g) \/ \E q \in Player : Login(g, q)
      PROVE  UNCHANGED mains
  BY <1>9 DEF RegisterReq, LoseConnection, EndServer, Break, Disconnect, GameStep, SendPlayerMainNty, PlayerLoginRes, Login
<1> QED
  BY <1>1, <1>2, <1>3, <1>4, <1>5, <1>6, <1>7, <1>8, <1>9 DEF Next, MainStep

\* The requests of a game server are taken from the front.
LEMMA RequestsShape ==
    ASSUME TypeOK, Next, NEW g \in GameServer
    PROVE  \/ toDS'[g] = toDS[g] \/ toDS'[g] = <<>>
           \/ toDS[g] # <<>> /\ toDS'[g] = Tail(toDS[g])
           \/ \E q \in Player : Login(g, q) /\ toDS'[g] = Append(toDS[g], q)
<1>0. toDS \in [GameServer -> Seq(Player)]
  BY DEF TypeOK
<1>1. ASSUME NEW h \in GameServer, PlayerLoginReq(h)
      PROVE  toDS'[g] = toDS[g] \/ (toDS[g] # <<>> /\ toDS'[g] = Tail(toDS[g]))
  BY <1>0, <1>1 DEF PlayerLoginReq
<1>2. ASSUME NEW h \in GameServer, LoseConnection(h) \/ EndServer(h)
      PROVE  toDS'[g] = toDS[g] \/ toDS'[g] = <<>>
  BY <1>0, <1>2 DEF LoseConnection, EndServer, Break
<1>3. ASSUME NEW h \in GameServer, NEW q \in Player, Login(h, q)
      PROVE  toDS'[g] = toDS[g] \/ (h = g /\ toDS'[g] = Append(toDS[g], q))
  BY <1>0, <1>3 DEF Login
<1>4. ASSUME NEW t \in Thread, SelectStep(t) PROVE toDS' = toDS
  BY <1>4 DEF SelectStep, RemoveWaitingQueue, SelectAccount, AddPlayer, SelectMain, CopyMain,
              SetGSServerID, AddLoadSuccessQueue, LoadFail
<1>5. CASE LookUp \/ Enqueue \/ HeartBeat \/ SendPlayerMain \/ SendResponse
  BY <1>5 DEF LookUp, Enqueue, HeartBeat, SendPlayerMain, SendResponse
<1>6. ASSUME NEW h \in GameServer, RegisterReq(h) \/ Disconnect(h) \/ GameStep(h)
      PROVE  toDS' = toDS
  BY <1>6 DEF RegisterReq, Disconnect, GameStep, SendPlayerMainNty, PlayerLoginRes
<1> QED
  BY <1>1, <1>2, <1>3, <1>4, <1>5, <1>6 DEF Next, MainStep

\* A request is under way because it was, or since a login.
LEMMA UnderWayFrom ==
    ASSUME TypeOK, Next, NEW g \in GameServer, NEW p \in Player, p \in Range(toDS'[g])
    PROVE  p \in Range(toDS[g]) \/ Login(g, p)
<1>0. toDS[g] \in Seq(Player) /\ Range(<<>>) = {}
  BY DEF TypeOK, Range
<1>1. ASSUME toDS[g] # <<>>, toDS'[g] = Tail(toDS[g]) PROVE p \in Range(toDS[g])
  BY <1>0, <1>1, RangeTail
<1>2. ASSUME NEW q \in Player, Login(g, q), toDS'[g] = Append(toDS[g], q)
      PROVE  p \in Range(toDS[g]) \/ Login(g, p)
  BY <1>0, <1>2, RangeAppend
<1> QED
  BY <1>0, <1>1, <1>2, RequestsShape

\* The steps that neither send to a game server nor are one's.
LEMMA GamesQuiet ==
    ASSUME \/ \E t \in Thread : SelectStep(t)
           \/ \E h \in GameServer : PlayerLoginReq(h) \/ RegisterReq(h) \/ Disconnect(h)
           \/ LookUp \/ Enqueue \/ HeartBeat
    PROVE  UNCHANGED <<toGS, gsPlayer, gsMain>>
<1>1. ASSUME NEW t \in Thread, SelectStep(t) PROVE UNCHANGED <<toGS, gsPlayer, gsMain>>
  BY <1>1 DEF SelectStep, RemoveWaitingQueue, SelectAccount, AddPlayer, SelectMain, CopyMain,
              SetGSServerID, AddLoadSuccessQueue, LoadFail, games
<1>2. ASSUME NEW h \in GameServer, PlayerLoginReq(h) \/ RegisterReq(h) \/ Disconnect(h)
      PROVE  UNCHANGED <<toGS, gsPlayer, gsMain>>
  BY <1>2 DEF PlayerLoginReq, RegisterReq, Disconnect, games
<1>3. CASE LookUp \/ Enqueue \/ HeartBeat
  BY <1>3 DEF LookUp, Enqueue, HeartBeat, games
<1> QED
  BY <1>1, <1>2, <1>3

Message == [type : {"main", "ok", "error"}, player : Player, data : Data]

\* What SendPlayerMain and SendResponse append is about the request's player.
LEMMA Sent ==
    ASSUME TypeOK, SendPlayerMain \/ SendResponse, NEW g \in GameServer, toGS'[g] # toGS[g]
    PROVE  \E m \in Message :
              /\ toGS'[g] = Append(toGS[g], m) /\ m.player = request.player
              /\ SendPlayerMain => m.type = "main" /\ m.data \in Seen(dsMain[request.player])
              /\ ~ SendPlayerMain => m.type \in {"ok", "error"} /\ (m.type = "ok" => main = "ok")
<1>0. toGS \in [GameServer -> Seq(Message)] /\ request.player \in Player
      /\ dsMain[request.player] \in Data
  BY DEF TypeOK, Message, Account
<1>1. CASE SendPlayerMain
  <2>1. PICK d \in Seen(dsMain[request.player]) :
            toGS' = [toGS EXCEPT ![dsGS[request.player]] = Append(@, Note(request.player, d))]
    <3>1. toGS' # toGS
      OBVIOUS
    <3> QED
      BY <1>1, <3>1 DEF SendPlayerMain
  <2>2. d \in Data
    BY <1>0, <2>1 DEF Seen
  <2>3. Note(request.player, d) \in Message /\ Note(request.player, d).player = request.player
        /\ Note(request.player, d).type = "main" /\ Note(request.player, d).data = d
    BY <1>0, <2>2 DEF Note, Message
  <2>4. toGS'[g] = Append(toGS[g], Note(request.player, d))
    BY <1>0, <2>1
  <2> QED
    BY <1>1, <2>1, <2>3, <2>4
<1>2. CASE SendResponse
  <2> DEFINE r == Response(request.player, main = "ok")
  <2>1. r \in Message /\ r.player = request.player /\ r.type \in {"ok", "error"}
        /\ (r.type = "ok" => main = "ok")
    BY <1>0 DEF Response, Message, Data
  <2>2. toGS'[g] = Append(toGS[g], r)
    BY <1>0, <1>2 DEF SendResponse
  <2>3. ~ SendPlayerMain
    BY <1>2 DEF SendPlayerMain, SendResponse
  <2> QED
    BY <2>1, <2>2, <2>3
<1> QED
  BY <1>1, <1>2

\* Only a login makes a player one of a game server's.
LEMMA AbsentStays ==
    ASSUME TypeOK, Next, NEW g \in GameServer, NEW p \in Player, gsPlayer[g][p] = "absent"
    PROVE  gsPlayer'[g][p] = "absent" \/ Login(g, p)
<1>0. gsPlayer \in [GameServer -> [Player -> {"absent", "waiting", "complete"}]]
  BY DEF TypeOK
<1>1. ASSUME NEW h \in GameServer, LoseConnection(h) \/ EndServer(h) PROVE gsPlayer'[g][p] = "absent"
  BY <1>0, <1>1 DEF LoseConnection, EndServer, games
<1>2. ASSUME NEW h \in GameServer, NEW q \in Player, Login(h, q)
      PROVE  gsPlayer'[g][p] = "absent" \/ Login(g, p)
  <2>1. CASE h = g /\ q = p
    BY <1>2, <2>1
  <2>2. CASE h # g \/ q # p
    BY <1>0, <1>2, <2>2 DEF Login
  <2> QED
    BY <2>1, <2>2
<1>3. ASSUME NEW h \in GameServer, PlayerLoginRes(h) PROVE gsPlayer'[g][p] = "absent"
  <2>1. gsPlayer' = gsPlayer \/ /\ gsPlayer[h][Head(toGS[h]).player] # "absent"
                                /\ gsPlayer' = [gsPlayer EXCEPT ![h][Head(toGS[h]).player] = "complete"]
    BY <1>3 DEF PlayerLoginRes
  <2> QED
    BY <1>0, <2>1
<1>4. ASSUME NEW h \in GameServer, SendPlayerMainNty(h) PROVE gsPlayer' = gsPlayer
  BY <1>4 DEF SendPlayerMainNty
<1>5. CASE SendPlayerMain \/ SendResponse
  BY <1>5 DEF SendPlayerMain, SendResponse, games
<1> QED
  BY <1>1, <1>2, <1>3, <1>4, <1>5, GamesQuiet DEF Next, MainStep, GameStep

\* A message to a game server is about the player of the main thread's request.
LEMMA MessageFrom ==
    ASSUME TypeOK, Next, NEW g \in GameServer, NEW m \in Range(toGS'[g])
    PROVE  m \in Range(toGS[g]) \/ (main # "idle" /\ m.player = request.player)
<1>0. toGS \in [GameServer -> Seq(Message)] /\ toGS[g] \in Seq(Message)
  BY DEF TypeOK, Message
<1>1. CASE SendPlayerMain \/ SendResponse
  <2>1. main # "idle"
    BY <1>1 DEF SendPlayerMain, SendResponse
  <2>2. CASE toGS'[g] # toGS[g]
    <3>1. PICK n \in Message : toGS'[g] = Append(toGS[g], n) /\ n.player = request.player
      BY <1>1, <2>2, Sent
    <3>2. Range(toGS'[g]) = Range(toGS[g]) \cup {n}
      BY <1>0, <3>1, RangeAppend
    <3> QED
      BY <2>1, <3>1, <3>2
  <2> QED
    BY <2>2
<1>2. ASSUME NEW h \in GameServer, GameStep(h) PROVE m \in Range(toGS[g])
  <2>1. CASE g = h
    <3>1. toGS[g] # <<>> /\ toGS'[g] = Tail(toGS[g])
      BY <1>0, <1>2, <2>1 DEF GameStep, SendPlayerMainNty, PlayerLoginRes
    <3> QED
      BY <1>0, <3>1, RangeTail
  <2>2. CASE g # h
    BY <1>0, <1>2, <2>2 DEF GameStep, SendPlayerMainNty, PlayerLoginRes
  <2> QED
    BY <2>1, <2>2
<1>3. ASSUME NEW h \in GameServer, LoseConnection(h) \/ EndServer(h) PROVE m \in Range(toGS[g])
  <2>1. Range(<<>>) = {}
    BY DEF Range
  <2> QED
    BY <1>0, <1>3, <2>1 DEF LoseConnection, EndServer, Break
<1>4. ASSUME NEW h \in GameServer, NEW q \in Player, Login(h, q) PROVE m \in Range(toGS[g])
  BY <1>4 DEF Login
<1> QED
  BY <1>1, <1>2, <1>3, <1>4, GamesQuiet DEF Next, MainStep

\* The logins of a player are counted one at a time.
LEMMA LoginsCounted ==
    ASSUME Next, logins \in [Player -> Nat]
    PROVE  \/ logins' = logins
           \/ \E g \in GameServer, p \in Player : Login(g, p) /\ logins' = [logins EXCEPT ![p] = @ + 1]
<1>1. ASSUME NEW g \in GameServer, NEW p \in Player, Login(g, p)
      PROVE  logins' = [logins EXCEPT ![p] = @ + 1]
  BY <1>1 DEF Login
<1>2. ASSUME NEW t \in Thread, SelectStep(t) PROVE logins' = logins
  BY <1>2 DEF SelectStep, RemoveWaitingQueue, SelectAccount, AddPlayer, SelectMain, CopyMain,
              SetGSServerID, AddLoadSuccessQueue, LoadFail, bounds
<1>3. CASE MainStep
  BY <1>3 DEF MainStep, PlayerLoginReq, LookUp, Enqueue, HeartBeat, SendPlayerMain, SendResponse, bounds
<1>4. ASSUME NEW g \in GameServer, RegisterReq(g) \/ LoseConnection(g) \/ EndServer(g) \/ Disconnect(g) \/ GameStep(g)
      PROVE  logins' = logins
  BY <1>4 DEF RegisterReq, LoseConnection, EndServer, Break, Disconnect, GameStep, SendPlayerMainNty, PlayerLoginRes, bounds
<1> QED
  BY <1>1, <1>2, <1>3, <1>4 DEF Next

\* A step that is no login of p leaves a player that nobody asked for.
LEMMA NeverAskedStep ==
    ASSUME TypeOK, BatchFirst, Next, NEW p \in Player, p # TestPlayer, NeverAsked(p),
           \A g \in GameServer : ~ Login(g, p)
    PROVE  NeverAsked(p)'
<1>0. /\ toDS \in [GameServer -> Seq(Player)]
      /\ dsGS \in [Player -> GameServer \cup {NoServer}]
  BY DEF TypeOK
<1>1. /\ ~ Known(p) /\ ~ Asking(p) /\ dsGS[p] = NoServer
      /\ main # "idle" => request.player # p
      /\ \A a \in Accounts : a.player # p
  BY DEF NeverAsked, Known, Asking
<1>2. ~ Known(p)'
  BY <1>1, KnownFrom DEF Enqueue
<1>3. dsGS'[p] = NoServer
  BY <1>1, ServerFrom
<1>4. main' # "idle" => request'.player # p
  <2> SUFFICES ASSUME main' # "idle", request'.player = p PROVE FALSE
    OBVIOUS
  <2>1. ASSUME NEW g \in GameServer, PlayerLoginReq(g), p = Head(toDS[g]) PROVE FALSE
    <3>1. toDS[g] \in Seq(Player) /\ toDS[g] # <<>>
      BY <1>0, <2>1 DEF PlayerLoginReq
    <3>2. p \in Range(toDS[g])
      BY <2>1, <3>1, RangeTail
    <3> QED
      BY <3>2 DEF NeverAsked
  <2> QED
    BY <1>1, <2>1, RequestFrom
<1>5. ASSUME NEW g \in GameServer
      PROVE  /\ p \notin Range(toDS'[g])
             /\ \A m \in Range(toGS'[g]) : m.player # p
             /\ gsPlayer'[g][p] = "absent"
  <2>1. p \notin Range(toDS'[g])
    BY UnderWayFrom DEF NeverAsked
  <2>2. \A m \in Range(toGS'[g]) : m.player # p
    BY <1>1, MessageFrom DEF NeverAsked
  <2>3. gsPlayer'[g][p] = "absent"
    BY AbsentStays DEF NeverAsked
  <2> QED
    BY <2>1, <2>2, <2>3
<1> QED
  BY <1>2, <1>3, <1>4, <1>5 DEF NeverAsked

\* The first login puts the only request under way.
LEMMA FirstLoginAsks ==
    ASSUME TypeOK, NEW g \in GameServer, NEW p \in Player, p # TestPlayer, NeverAsked(p), Login(g, p)
    PROVE  AskedOnce(p, g)' /\ AnsweredAfterData(p, g)'
<1>0. /\ toDS \in [GameServer -> Seq(Player)] /\ toDS[g] \in Seq(Player)
      /\ gsPlayer \in [GameServer -> [Player -> {"absent", "waiting", "complete"}]]
      /\ toGS \in [GameServer -> Seq(Message)] /\ toGS[g] \in Seq(Message)
  BY DEF TypeOK, Message
<1>1. /\ UNCHANGED <<queues, online, dsGS, threads, mains, toGS>>
      /\ toDS' = [toDS EXCEPT ![g] = Append(@, p)]
      /\ gsPlayer' = [gsPlayer EXCEPT ![g][p] = "waiting"]
  BY DEF Login, players
<1>2. /\ Accounts' = Accounts /\ (Known(p)' <=> Known(p)) /\ (Asking(p)' <=> Asking(p))
  BY <1>1 DEF Accounts, Known, Asking, queues, threads, mains
<1>3. ~ Known(p) /\ ~ Asking(p) /\ \A a \in Accounts : a.player # p
  BY DEF NeverAsked, Known, Asking
<1>4. \A i, j \in 1..Len(toDS'[g]) : toDS'[g][i] = p /\ toDS'[g][j] = p => i = j
  <2>1. /\ toDS'[g] = Append(toDS[g], p) /\ Len(toDS[g]) \in Nat
        /\ Len(toDS'[g]) = Len(toDS[g]) + 1
        /\ \A i \in 1..Len(toDS[g]) : toDS'[g][i] = toDS[g][i]
    BY <1>0, <1>1, AppendProperties
  <2>2. \A i \in 1..Len(toDS[g]) : toDS[g][i] # p
    BY <1>0, RangeIndices DEF NeverAsked
  <2>3. \A i \in 1..Len(toDS'[g]) : toDS'[g][i] = p => i = Len(toDS[g]) + 1
    BY <2>1, <2>2
  <2> QED
    BY <2>3
<1>5. \A h \in GameServer \ {g} : p \notin Range(toDS'[h]) /\ gsPlayer'[h][p] = "absent"
  BY <1>0, <1>1 DEF NeverAsked
<1>6. dsGS'[p] = NoServer /\ ~ (main' # "idle" /\ request'.player = p)
  BY <1>1 DEF NeverAsked, mains
<1>7. gsPlayer'[g][p] = "waiting"
  BY <1>0, <1>1
<1>8. \A i \in 1..Len(toGS'[g]) : toGS'[g][i].player # p
  <2>1. \A i \in 1..Len(toGS[g]) : toGS[g][i] \in Range(toGS[g])
    BY <1>0, RangeIndices
  <2> QED
    BY <1>1, <2>1 DEF NeverAsked
<1>9. AskedOnce(p, g)'
  BY <1>2, <1>3, <1>4, <1>5, <1>6 DEF AskedOnce
<1> QED
  BY <1>5, <1>6, <1>7, <1>8, <1>9 DEF AnsweredAfterData

\* Until p logs in again, its one request is under way, asked for, or queued.
LEMMA AskedOnceStep ==
    ASSUME TypeOK, BatchFirst, Next, NEW p \in Player, p # TestPlayer, NEW g \in GameServer,
           AskedOnce(p, g), \A h \in GameServer : ~ Login(h, p)
    PROVE  AskedOnce(p, g)'
<1>0. toDS \in [GameServer -> Seq(Player)] /\ toDS[g] \in Seq(Player)
  BY DEF TypeOK
<1>1. /\ Asking(p) => request.gs = g /\ ~ Known(p)
      /\ p \in Range(toDS[g]) => ~ Known(p) /\ ~ Asking(p)
      /\ \A i, j \in 1..Len(toDS[g]) : toDS[g][i] = p /\ toDS[g][j] = p => i = j
      /\ \A h \in GameServer \ {g} : p \notin Range(toDS[h])
      /\ \A a \in Accounts : a.player = p => a.gs = g
      /\ dsGS[p] \in {NoServer, g}
      /\ main \in {"send", "ok", "error"} /\ request.player = p => batch # <<>>
  BY DEF AskedOnce
<1>2. /\ Known(p)' => Known(p) \/ (Enqueue /\ Asking(p))
      /\ \A a \in Accounts' : a.player = p => a \in Accounts \/ (Asking(p) /\ a = request)
  BY KnownFrom DEF Asking, Enqueue
<1>3. ASSUME NEW h \in GameServer, PlayerLoginReq(h), p = Head(toDS[h])
      PROVE  /\ h = g /\ p \in Range(toDS[g]) /\ ~ Known(p)' /\ p \notin Range(toDS'[g])
  <2>1. toDS[h] \in Seq(Player) /\ toDS[h] # <<>>
    BY <1>0, <1>3 DEF PlayerLoginReq
  <2>2. p \in Range(toDS[h])
    BY <1>3, <2>1, RangeTail
  <2>3. h = g
    BY <1>1, <2>2
  <2>4. toDS'[g] = Tail(toDS[g]) /\ ~ Enqueue
    BY <1>0, <1>3, <2>3 DEF PlayerLoginReq, Enqueue
  <2>5. p \notin Range(Tail(toDS[g]))
    <3>1. /\ Head(toDS[g]) = toDS[g][1] /\ 1 \in 1..Len(toDS[g]) /\ Tail(toDS[g]) \in Seq(Player)
          /\ \A i \in 1..Len(Tail(toDS[g])) : Tail(toDS[g])[i] = toDS[g][i + 1] /\ i + 1 \in 1..Len(toDS[g])
      BY <2>1, <2>3, TailElements
    <3>2. \A i \in 1..Len(Tail(toDS[g])) : Tail(toDS[g])[i] # p
      <4> SUFFICES ASSUME NEW i \in 1..Len(Tail(toDS[g])), Tail(toDS[g])[i] = p PROVE FALSE
        OBVIOUS
      <4>1. i + 1 = 1
        BY <1>1, <1>3, <2>3, <3>1
      <4> QED
        BY <4>1
    <3>3. Range(Tail(toDS[g])) = {Tail(toDS[g])[i] : i \in 1..Len(Tail(toDS[g]))}
      BY <3>1, RangeIndices
    <3> QED
      BY <3>2, <3>3
  <2> QED
    BY <1>1, <1>2, <2>2, <2>3, <2>4, <2>5
<1>4. Asking(p)' => request'.gs = g /\ ~ Known(p)'
  <2> SUFFICES ASSUME Asking(p)' PROVE request'.gs = g /\ ~ Known(p)'
    OBVIOUS
  <2>1. main' \in {"lookup", "enqueue"} /\ request'.player = p
    BY DEF Asking
  <2>2. \/ Asking(p) /\ request' = request
        \/ \E h \in GameServer : PlayerLoginReq(h) /\ p = Head(toDS[h]) /\ request'.gs = h
    BY <2>1, RequestFrom
  <2>3. ~ Enqueue
    BY <2>1 DEF Enqueue
  <2> QED
    BY <1>1, <1>2, <1>3, <2>2, <2>3
<1>5. p \in Range(toDS'[g]) => ~ Known(p)' /\ ~ Asking(p)'
  <2> SUFFICES ASSUME p \in Range(toDS'[g]) PROVE ~ Known(p)' /\ ~ Asking(p)'
    OBVIOUS
  <2>1. ~ Known(p) /\ ~ Asking(p)
    BY <1>1, UnderWayFrom
  <2>2. ~ Asking(p)'
    <3> SUFFICES ASSUME Asking(p)' PROVE FALSE
      OBVIOUS
    <3>1. main' \in {"lookup", "enqueue"} /\ request'.player = p
      BY DEF Asking
    <3>2. \E h \in GameServer : PlayerLoginReq(h) /\ p = Head(toDS[h])
      BY <2>1, <3>1, RequestFrom
    <3> QED
      BY <1>3, <3>2
  <2> QED
    BY <1>2, <2>1, <2>2
<1>6. \A i, j \in 1..Len(toDS'[g]) : toDS'[g][i] = p /\ toDS'[g][j] = p => i = j
  <2> SUFFICES ASSUME NEW i \in 1..Len(toDS'[g]), NEW j \in 1..Len(toDS'[g]),
                      toDS'[g][i] = p, toDS'[g][j] = p
               PROVE  i = j
    OBVIOUS
  <2>1. CASE toDS'[g] = toDS[g]
    BY <1>1, <2>1
  <2>2. CASE toDS'[g] = <<>>
    BY <2>2
  <2>3. CASE toDS[g] # <<>> /\ toDS'[g] = Tail(toDS[g])
    <3>1. /\ toDS[g][i + 1] = p /\ i + 1 \in 1..Len(toDS[g])
          /\ toDS[g][j + 1] = p /\ j + 1 \in 1..Len(toDS[g])
      BY <1>0, <2>3, TailElements
    <3>2. i + 1 = j + 1
      BY <1>1, <3>1
    <3> QED
      BY <3>2
  <2>4. CASE \E q \in Player : Login(g, q) /\ toDS'[g] = Append(toDS[g], q)
    <3>1. PICK q \in Player : Login(g, q) /\ toDS'[g] = Append(toDS[g], q)
      BY <2>4
    <3>2. q # p
      BY <3>1
    <3>3. /\ Len(toDS[g]) \in Nat /\ Len(toDS'[g]) = Len(toDS[g]) + 1
          /\ \A k \in 1..Len(toDS[g]) : toDS'[g][k] = toDS[g][k]
          /\ toDS'[g][Len(toDS[g]) + 1] = q
      BY <1>0, <3>1, AppendProperties
    <3>4. i \in 1..Len(toDS[g]) /\ j \in 1..Len(toDS[g])
      BY <3>2, <3>3
    <3> QED
      BY <1>1, <3>3, <3>4
  <2> QED
    BY <2>1, <2>2, <2>3, <2>4, RequestsShape
<1>7. \A h \in GameServer \ {g} : p \notin Range(toDS'[h])
  BY <1>1, UnderWayFrom
<1>8. \A a \in Accounts' : a.player = p => a.gs = g
  BY <1>1, <1>2
<1>9. dsGS'[p] \in {NoServer, g}
  <2>1. Asking(p) => p \notin online
    BY <1>1 DEF Known
  <2> QED
    BY <1>1, <2>1, ServerFrom
<1>10. main' \in {"send", "ok", "error"} /\ request'.player = p => batch' # <<>>
  <2> SUFFICES ASSUME main' \in {"send", "ok", "error"}, request'.player = p PROVE batch' # <<>>
    OBVIOUS
  <2>1. Asking(p) => p \notin online
    BY <1>1 DEF Known
  <2>2. ~ Asking(p)'
    BY DEF Asking
  <2>3. \A h \in GameServer : ~ PlayerLoginReq(h)
    BY DEF PlayerLoginReq, BatchFirst
  <2> QED
    BY <1>1, <2>1, <2>2, <2>3, RequestFrom
<1> QED
  BY <1>4, <1>5, <1>6, <1>7, <1>8, <1>9, <1>10 DEF AskedOnce

\* heartBeat answers for the front of its copy, account by account.
LEMMA BatchFirstStep ==
    ASSUME TypeOK, BatchFirst, Next
    PROVE  BatchFirst'
<1>1. CASE HeartBeat
  <2>1. loadSuccess \in Seq(Account) /\ loadSuccess # <<>> /\ batch' = loadSuccess
        /\ request' = Head(loadSuccess) /\ main' = "send"
    BY <1>1 DEF HeartBeat, TypeOK
  <2> QED
    BY <2>1, TailElements DEF BatchFirst
<1>2. CASE SendResponse
  <2>1. CASE Len(batch) > 1
    <3>1. /\ batch \in Seq(Account) /\ batch # <<>> /\ batch' = Tail(batch) /\ request' = batch[2]
          /\ main' = "send"
      BY <1>2, <2>1 DEF SendResponse, TypeOK
    <3>2. Len(Tail(batch)) = Len(batch) - 1 /\ Len(batch) \in Nat
          /\ \A i \in 1..Len(Tail(batch)) : Tail(batch)[i] = batch[i + 1]
      BY <3>1, TailElements, LenProperties
    <3>3. Tail(batch)[1] = batch[2]
      BY <2>1, <3>2
    <3> QED
      BY <3>1, <3>3 DEF BatchFirst
  <2>2. CASE ~(Len(batch) > 1)
    BY <1>2, <2>2 DEF SendResponse, BatchFirst
  <2> QED
    BY <2>1, <2>2
<1>3. CASE (\E h \in GameServer : PlayerLoginReq(h)) \/ LookUp \/ Enqueue \/ SendPlayerMain
  BY <1>3 DEF PlayerLoginReq, LookUp, Enqueue, SendPlayerMain, BatchFirst
<1>4. CASE UNCHANGED mains
  BY <1>4 DEF mains, BatchFirst
<1>5. ASSUME NEW t \in Thread, SelectStep(t) PROVE UNCHANGED mains
  BY <1>5 DEF SelectStep, RemoveWaitingQueue, SelectAccount, AddPlayer, SelectMain, CopyMain,
              SetGSServerID, AddLoadSuccessQueue, LoadFail, mains
<1>6. ASSUME NEW h \in GameServer,
             RegisterReq(h) \/ LoseConnection(h) \/ EndServer(h) \/ Disconnect(h) \/ GameStep(h) \/ \E q \in Player : Login(h, q)
      PROVE  UNCHANGED mains
  BY <1>6 DEF RegisterReq, LoseConnection, EndServer, Break, Disconnect, GameStep, SendPlayerMainNty, PlayerLoginRes, Login
<1> QED
  BY <1>1, <1>2, <1>3, <1>4, <1>5, <1>6 DEF Next, MainStep

\* The main thread sends for p what is loaded, and to g.
LEMMA AnswerIsFull ==
    ASSUME IInv, BatchFirst, NEW p \in Player, NEW g \in GameServer, AskedOnce(p, g),
           main \in {"send", "ok", "error"}, request.player = p
    PROVE  batch # <<>> /\ dsMain[p] = "full" /\ dsGS[p] = g
<1>1. batch # <<>> /\ request = batch[1] /\ batch \in Seq(Account)
  BY DEF AskedOnce, BatchFirst, IInv, TypeOK
<1>2. 1 \in 1..Len(batch)
  BY <1>1, TailElements
<1>3. Ready(p)
  BY <1>1, <1>2 DEF IInv, LoadedReady
<1> QED
  BY <1>1, <1>3 DEF Ready, AskedOnce

\* The part of AnsweredAfterData about the messages to g, whatever comes after n.
Ordered(p, g) ==
    \A i \in 1..Len(toGS[g]) : toGS[g][i].player = p =>
        /\ toGS[g][i].type = "main" => toGS[g][i].data = "full"
        /\ toGS[g][i].type = "ok" => Told(p, g, i - 1)

\* A message that is appended comes after what it needs.
LEMMA OrderedAppend ==
    ASSUME NEW p \in Player, NEW g \in GameServer, NEW m \in Message,
           toGS[g] \in Seq(Message), toGS'[g] = Append(toGS[g], m),
           gsPlayer'[g] = gsPlayer[g], gsMain'[g] = gsMain[g],
           Ordered(p, g),
           m.player = p /\ m.type = "main" => m.data = "full",
           m.player = p /\ m.type = "ok" => Told(p, g, Len(toGS[g]))
    PROVE  /\ Ordered(p, g)'
           /\ \A n \in 0..Len(toGS[g]) : Told(p, g, n) => Told(p, g, n)' /\ Told(p, g, Len(toGS[g]))'
           /\ m.player = p /\ m.type = "main" => Told(p, g, Len(toGS[g]))'
<1>1. /\ Len(toGS[g]) \in Nat /\ Len(toGS'[g]) = Len(toGS[g]) + 1
      /\ \A i \in 1..Len(toGS[g]) : toGS'[g][i] = toGS[g][i]
      /\ toGS'[g][Len(toGS[g]) + 1] = m
  BY AppendProperties
<1>2. \A n \in 0..Len(toGS[g]) : Told(p, g, n) =>
          Told(p, g, n)' /\ Told(p, g, Len(toGS[g]))'
  <2> SUFFICES ASSUME NEW n \in 0..Len(toGS[g]), Told(p, g, n)
               PROVE  Told(p, g, n)' /\ Told(p, g, Len(toGS[g]))'
    OBVIOUS
  <2>1. \A i \in 1..n : i \in 1..Len(toGS[g]) /\ i \in 1..Len(toGS'[g]) /\ toGS'[g][i] = toGS[g][i]
    BY <1>1
  <2> QED
    BY <2>1 DEF Told
<1>3. m.player = p /\ m.type = "main" => Told(p, g, Len(toGS[g]))'
  <2>1. Len(toGS'[g]) \in 1..Len(toGS'[g]) /\ toGS'[g][Len(toGS'[g])] = m
    BY <1>1
  <2> QED
    BY <2>1 DEF Told
<1>4. ASSUME NEW i \in 1..Len(toGS'[g]), toGS'[g][i].player = p
      PROVE  /\ toGS'[g][i].type = "main" => toGS'[g][i].data = "full"
             /\ toGS'[g][i].type = "ok" => Told(p, g, i - 1)'
  <2>1. CASE i \in 1..Len(toGS[g])
    <3>1. toGS'[g][i] = toGS[g][i] /\ i - 1 \in 0..Len(toGS[g])
      BY <1>1, <2>1
    <3> QED
      BY <1>2, <1>4, <2>1, <3>1 DEF Ordered
  <2>2. CASE i = Len(toGS[g]) + 1
    <3>1. toGS'[g][i] = m /\ i - 1 = Len(toGS[g]) /\ Len(toGS[g]) \in 0..Len(toGS[g])
      BY <1>1, <2>2
    <3> QED
      BY <1>2, <1>4, <3>1
  <2> QED
    BY <1>1, <2>1, <2>2
<1> QED
  BY <1>2, <1>3, <1>4 DEF Ordered

\* The first message is taken: Told keeps what it said of the messages behind.
LEMMA OrderedTail ==
    ASSUME NEW p \in Player, NEW g \in GameServer, toGS[g] \in Seq(Message), toGS[g] # <<>>,
           toGS'[g] = Tail(toGS[g]), Ordered(p, g),
           gsPlayer[g][p] = "absent" => gsPlayer'[g][p] = "absent",
           gsMain[g][p] = "full" => gsMain'[g][p] = "full",
           Head(toGS[g]).type = "main" /\ Head(toGS[g]).player = p =>
               gsPlayer'[g][p] = "absent" \/ gsMain'[g][p] = "full"
    PROVE  /\ Ordered(p, g)'
           /\ Told(p, g, Len(toGS[g])) => Told(p, g, Len(toGS[g]))'
<1>1. /\ Len(toGS[g]) \in Nat /\ Head(toGS[g]) = toGS[g][1] /\ Len(toGS'[g]) = Len(toGS[g]) - 1
      /\ \A i \in 1..Len(toGS'[g]) : toGS'[g][i] = toGS[g][i + 1] /\ i + 1 \in 1..Len(toGS[g])
  BY TailElements, LenProperties
<1>2. ASSUME NEW n \in 1..Len(toGS[g]), Told(p, g, n)
      PROVE  Told(p, g, n - 1)'
  <2>1. CASE gsPlayer[g][p] = "absent" \/ gsMain[g][p] = "full"
    BY <2>1 DEF Told
  <2>2. CASE \E i \in 1..n : toGS[g][i].type = "main" /\ toGS[g][i].player = p
    <3>1. PICK i \in 1..n : toGS[g][i].type = "main" /\ toGS[g][i].player = p
      BY <2>2
    <3>2. CASE i = 1
      BY <1>1, <3>1, <3>2 DEF Told
    <3>3. CASE i # 1
      <4>1. i - 1 \in 1..(n - 1) /\ i - 1 \in 1..Len(toGS'[g]) /\ (i - 1) + 1 = i
        BY <1>1, <3>3
      <4>2. toGS'[g][i - 1] = toGS[g][i]
        BY <1>1, <4>1
      <4> QED
        BY <3>1, <4>1, <4>2 DEF Told
    <3> QED
      BY <3>2, <3>3
  <2> QED
    BY <1>2, <2>1, <2>2 DEF Told
<1>3. ASSUME NEW i \in 1..Len(toGS'[g]), toGS'[g][i].player = p
      PROVE  /\ toGS'[g][i].type = "main" => toGS'[g][i].data = "full"
             /\ toGS'[g][i].type = "ok" => Told(p, g, i - 1)'
  <2>1. toGS'[g][i] = toGS[g][i + 1] /\ i + 1 \in 1..Len(toGS[g]) /\ (i + 1) - 1 = i /\ i \in 1..Len(toGS[g])
    BY <1>1
  <2> QED
    BY <1>2, <1>3, <2>1 DEF Ordered
<1>4. Told(p, g, Len(toGS[g])) => Told(p, g, Len(toGS[g]))'
  <2>1. Len(toGS[g]) \in 1..Len(toGS[g])
    BY <1>1, EmptySeq
  <2> QED
    BY <1>1, <1>2, <2>1
<1> QED
  BY <1>3, <1>4 DEF Ordered

\* Steps that change nothing that g has for p, or is to get.
LEMMA AnsweredKept ==
    ASSUME NEW p \in Player, NEW g \in GameServer, AnsweredAfterData(p, g),
           toGS'[g] = toGS[g], gsPlayer'[g][p] = gsPlayer[g][p], gsMain'[g][p] = gsMain[g][p],
           main' = "ok" /\ request'.player = p /\ g \in Reachable' =>
               main = "ok" /\ request.player = p /\ g \in Reachable,
           \A h \in GameServer \ {g} : gsPlayer'[h][p] = "absent"
    PROVE  AnsweredAfterData(p, g)'
<1>1. \A n : Told(p, g, n)' <=> Told(p, g, n)
  BY DEF Told
<1> QED
  BY <1>1 DEF AnsweredAfterData

\* While the main thread is at work no server becomes reachable.
LEMMA StaysReachable ==
    ASSUME TypeOK, Next, NEW g \in GameServer, g \in Reachable', main' # "idle"
    PROVE  g \in Reachable
<1>1. ASSUME UNCHANGED entries PROVE g \in Reachable
  BY <1>1 DEF entries, Reachable
<1>2. ASSUME NEW t \in Thread, SelectStep(t) PROVE UNCHANGED entries
  BY <1>2 DEF SelectStep, RemoveWaitingQueue, SelectAccount, AddPlayer, SelectMain, CopyMain,
              SetGSServerID, AddLoadSuccessQueue, LoadFail
<1>3. CASE MainStep
  BY <1>1, <1>3 DEF MainStep, PlayerLoginReq, LookUp, Enqueue, HeartBeat, SendPlayerMain, SendResponse
<1>4. ASSUME NEW h \in GameServer, GameStep(h) \/ \E q \in Player : Login(h, q) PROVE UNCHANGED entries
  BY <1>4 DEF GameStep, SendPlayerMainNty, PlayerLoginRes, Login
<1>5. ASSUME NEW h \in GameServer, RegisterReq(h) \/ Disconnect(h) PROVE FALSE
  BY <1>5 DEF RegisterReq, Disconnect, mains
<1>6. ASSUME NEW h \in GameServer, LoseConnection(h) \/ EndServer(h) PROVE g \in Reachable
  BY <1>6 DEF LoseConnection, EndServer, Break, Reachable
<1> QED
  BY <1>1, <1>2, <1>3, <1>4, <1>5, <1>6 DEF Next

\* The data of p goes before the answer, in the queue and at the game server.
LEMMA AnsweredStep ==
    ASSUME IInv, BatchFirst, Next, NEW p \in Player, p # TestPlayer, NEW g \in GameServer,
           AskedOnce(p, g), AnsweredAfterData(p, g), \A h \in GameServer : ~ Login(h, p)
    PROVE  AnsweredAfterData(p, g)'
<1>0. /\ TypeOK /\ toGS \in [GameServer -> Seq(Message)] /\ toGS[g] \in Seq(Message)
      /\ gsPlayer \in [GameServer -> [Player -> {"absent", "waiting", "complete"}]]
      /\ gsMain \in [GameServer -> [Player -> Data]]
      /\ request \in Account /\ Ordered(p, g)
  BY DEF IInv, TypeOK, Message, AnsweredAfterData, Ordered
<1>1. \A h \in GameServer \ {g} : gsPlayer'[h][p] = "absent"
  BY <1>0, AbsentStays DEF AnsweredAfterData
<1>r. main' = "ok" /\ g \in Reachable' => g \in Reachable
  BY <1>0, StaysReachable
<1>2. CASE UNCHANGED <<toGS, gsPlayer, gsMain>> /\ (main' # "ok" \/ UNCHANGED mains)
  BY <1>1, <1>r, <1>2, AnsweredKept DEF mains
<1>3. CASE SendPlayerMain
  <2>1. UNCHANGED <<gsPlayer, gsMain, request, batch>> /\ main = "send"
    BY <1>3 DEF SendPlayerMain, games
  <2>2. CASE toGS'[g] = toGS[g]
    <3>1. ~ (main' = "ok" /\ request'.player = p /\ g \in Reachable')
      <4> SUFFICES ASSUME main' = "ok", request.player = p, g \in Reachable PROVE FALSE
        BY <1>r, <2>1
      <4>1. dsGS[p] = g /\ dsMain[p] = "full"
        BY <2>1, AnswerIsFull
      <4>2. \E m \in Seen(dsMain[p]) : toGS'[g] = Append(toGS[g], Note(p, m))
        <5>1. g \notin Registered \ Reachable /\ g \in Registered
          BY DEF Registered, Reachable
        <5>2. \E m \in Seen(dsMain[p]) : toGS' = [toGS EXCEPT ![g] = Append(@, Note(p, m))]
          BY <1>3, <4>1, <5>1 DEF SendPlayerMain
        <5> QED
          BY <1>0, <5>2
      <4>3. toGS'[g] = Append(toGS[g], Note(p, "full"))
        BY <4>1, <4>2 DEF Seen
      <4>4. Note(p, "full") \in Message
        BY DEF Note, Message, Data
      <4>5. Len(Append(toGS[g], Note(p, "full"))) = Len(toGS[g]) + 1 /\ Len(toGS[g]) \in Nat
        BY <1>0, <4>4, AppendProperties
      <4> QED
        BY <2>2, <4>3, <4>5
    <3> QED
      BY <1>1, <2>1, <2>2, <3>1, AnsweredKept
  <2>3. CASE toGS'[g] # toGS[g]
    <3>1. PICK m \in Message : /\ toGS'[g] = Append(toGS[g], m) /\ m.player = request.player
                               /\ m.type = "main" /\ m.data \in Seen(dsMain[request.player])
      BY <1>0, <1>3, <2>3, Sent
    <3>2. m.player = p => m.data = "full"
      BY <2>1, <3>1, AnswerIsFull DEF Seen
    <3>3. m.type # "ok"
      BY <3>1
    <3>4. Ordered(p, g)' /\ (m.player = p => Told(p, g, Len(toGS[g]))')
      BY <1>0, <2>1, <3>1, <3>2, <3>3, OrderedAppend
    <3>5. gsPlayer'[g][p] = "complete" => gsMain'[g][p] = "full"
      BY <2>1 DEF AnsweredAfterData
    <3> QED
      BY <1>1, <2>1, <3>1, <3>4, <3>5 DEF AnsweredAfterData, Ordered
  <2> QED
    BY <2>2, <2>3
<1>4. CASE SendResponse
  <2>1. UNCHANGED <<gsPlayer, gsMain>> /\ main' # "ok" /\ ~ SendPlayerMain
    BY <1>4 DEF SendResponse, SendPlayerMain, games
  <2>2. CASE toGS'[g] = toGS[g]
    BY <1>1, <2>1, <2>2, AnsweredKept
  <2>3. CASE toGS'[g] # toGS[g]
    <3>1. PICK m \in Message : /\ toGS'[g] = Append(toGS[g], m) /\ m.player = request.player
                               /\ m.type \in {"ok", "error"} /\ (m.type = "ok" => main = "ok")
      BY <1>0, <1>4, <2>1, <2>3, Sent
    <3>2. m.player = p /\ m.type = "ok" => Told(p, g, Len(toGS[g]))
      <4> SUFFICES ASSUME m.player = p, m.type = "ok" PROVE Told(p, g, Len(toGS[g]))
        OBVIOUS
      <4>1. main = "ok" /\ request.player = p
        BY <3>1
      <4>2. batch # <<>> /\ dsGS[p] = g
        BY <4>1, AnswerIsFull
      <4>3. g \in Reachable
        BY <1>4, <2>3, <4>1, <4>2 DEF SendResponse
      <4> QED
        BY <4>1, <4>3 DEF AnsweredAfterData
    <3>3. m.type # "main"
      BY <3>1
    <3>4. Ordered(p, g)'
      BY <1>0, <2>1, <3>1, <3>2, <3>3, OrderedAppend
    <3>5. gsPlayer'[g][p] = "complete" => gsMain'[g][p] = "full"
      BY <2>1 DEF AnsweredAfterData
    <3> QED
      BY <1>1, <2>1, <3>4, <3>5 DEF AnsweredAfterData, Ordered
  <2> QED
    BY <2>2, <2>3
<1>5. ASSUME NEW h \in GameServer, GameStep(h)
      PROVE  AnsweredAfterData(p, g)'
  <2>1. UNCHANGED mains
    BY <1>5 DEF GameStep, SendPlayerMainNty, PlayerLoginRes
  <2>2. CASE h # g
    <3>1. toGS'[g] = toGS[g] /\ gsPlayer'[g] = gsPlayer[g] /\ gsMain'[g] = gsMain[g]
      BY <1>0, <1>5, <2>2 DEF GameStep, SendPlayerMainNty, PlayerLoginRes
    <3> QED
      BY <1>1, <1>r, <2>1, <3>1, AnsweredKept DEF mains
  <2>3. CASE h = g
    <3> DEFINE m == Head(toGS[g])
    <3>0. toGS[g] # <<>> /\ toGS'[g] = Tail(toGS[g])
      BY <1>0, <1>5, <2>3 DEF GameStep, SendPlayerMainNty, PlayerLoginRes
    <3>1. m \in Message /\ m.player \in Player /\ m = toGS[g][1] /\ 1 \in 1..Len(toGS[g])
      <4>1. m = toGS[g][1] /\ 1 \in 1..Len(toGS[g])
        BY <1>0, <3>0, TailElements
      <4>2. m \in Message
        BY <1>0, <4>1, ElementOfSeq
      <4> QED
        BY <4>1, <4>2 DEF Message
    <3>2. /\ m.player = p /\ m.type = "main" => m.data = "full"
          /\ m.player = p /\ m.type = "ok" => gsPlayer[g][p] = "absent" \/ gsMain[g][p] = "full"
      <4>1. 1 - 1 = 0 /\ 1..0 = {}
        OBVIOUS
      <4>2. m.player = p => (m.type = "main" => m.data = "full") /\ (m.type = "ok" => Told(p, g, 0))
        BY <1>0, <3>1, <4>1 DEF Ordered
      <4> QED
        BY <4>1, <4>2 DEF Told
    <3>3. /\ gsPlayer[g][p] = "absent" => gsPlayer'[g][p] = "absent"
          /\ gsMain[g][p] = "full" => gsMain'[g][p] = "full"
          /\ m.type = "main" /\ m.player = p => gsPlayer'[g][p] = "absent" \/ gsMain'[g][p] = "full"
          /\ gsPlayer'[g][p] = "complete" => gsMain'[g][p] = "full"
      <4>1. CASE SendPlayerMainNty(g)
        <5>1. /\ gsPlayer' = gsPlayer /\ m.type = "main"
              /\ gsMain' = IF gsPlayer[g][m.player] = "waiting" /\ m.data # "none"
                           THEN [gsMain EXCEPT ![g][m.player] = m.data] ELSE gsMain
          BY <4>1 DEF SendPlayerMainNty
        <5>2. gsPlayer[g][p] = "complete" => gsMain[g][p] = "full"
          BY DEF AnsweredAfterData
        <5>3. gsPlayer[g][p] \in {"absent", "waiting", "complete"}
          BY <1>0
        <5> HIDE DEF m
        <5>4. CASE m.player = p
          BY <1>0, <3>2, <5>1, <5>2, <5>3, <5>4
        <5>5. CASE m.player # p
          BY <1>0, <3>1, <5>1, <5>2, <5>5
        <5> QED
          BY <5>4, <5>5
      <4>2. CASE PlayerLoginRes(g)
        <5>1. /\ gsMain' = gsMain /\ m.type # "main"
              /\ gsPlayer' = IF gsPlayer[g][m.player] # "absent" /\ m.type = "ok"
                             THEN [gsPlayer EXCEPT ![g][m.player] = "complete"] ELSE gsPlayer
          BY <4>2 DEF PlayerLoginRes
        <5>2. gsPlayer[g][p] = "complete" => gsMain[g][p] = "full"
          BY DEF AnsweredAfterData
        <5> HIDE DEF m
        <5> QED
          BY <1>0, <3>1, <3>2, <5>1, <5>2
      <4> QED
        BY <1>5, <2>3, <4>1, <4>2 DEF GameStep
    <3>4. Ordered(p, g)' /\ (Told(p, g, Len(toGS[g])) => Told(p, g, Len(toGS[g]))')
      BY <1>0, <3>0, <3>3, OrderedTail
    <3> QED
      BY <1>1, <1>r, <2>1, <3>3, <3>4 DEF AnsweredAfterData, Ordered, mains
  <2> QED
    BY <2>2, <2>3
<1>6. ASSUME NEW h \in GameServer, LoseConnection(h) \/ EndServer(h)
      PROVE  AnsweredAfterData(p, g)'
  <2>1. UNCHANGED mains
    BY <1>6 DEF LoseConnection, EndServer, Break
  <2>2. CASE h = g
    <3>1. toGS'[g] = <<>> /\ g \notin Reachable'
      BY <1>0, <1>6, <2>2 DEF LoseConnection, EndServer, Break, Reachable
    <3>2. gsPlayer'[g][p] = "complete" => gsMain'[g][p] = "full"
      BY <1>0, <1>6, <2>2 DEF LoseConnection, EndServer, games, AnsweredAfterData
    <3> QED
      BY <1>1, <3>1, <3>2 DEF AnsweredAfterData
  <2>3. CASE h # g
    <3>1. toGS'[g] = toGS[g] /\ gsPlayer'[g] = gsPlayer[g] /\ gsMain'[g] = gsMain[g]
      BY <1>0, <1>6, <2>3 DEF LoseConnection, EndServer, Break, games
    <3> QED
      BY <1>1, <1>r, <2>1, <3>1, AnsweredKept DEF mains
  <2> QED
    BY <2>2, <2>3
<1>7. ASSUME NEW h \in GameServer, NEW q \in Player, Login(h, q)
      PROVE  AnsweredAfterData(p, g)'
  <2>1. UNCHANGED <<mains, toGS, gsMain>> /\ q # p
    BY <1>7 DEF Login
  <2>2. gsPlayer'[g][p] = gsPlayer[g][p]
    BY <1>0, <1>7, <2>1 DEF Login
  <2> QED
    BY <1>1, <1>r, <2>1, <2>2, AnsweredKept DEF mains
<1>8. ASSUME NEW t \in Thread, SelectStep(t) PROVE UNCHANGED mains
  BY <1>8 DEF SelectStep, RemoveWaitingQueue, SelectAccount, AddPlayer, SelectMain, CopyMain,
              SetGSServerID, AddLoadSuccessQueue, LoadFail, mains
<1>9. ASSUME NEW h \in GameServer, PlayerLoginReq(h) \/ RegisterReq(h) \/ Disconnect(h)
      PROVE  main' # "ok"
  BY <1>9 DEF PlayerLoginReq, RegisterReq, Disconnect, mains
<1>10. LookUp \/ Enqueue \/ HeartBeat => main' # "ok"
  BY DEF LookUp, Enqueue, HeartBeat
<1> QED
  BY <1>2, <1>3, <1>4, <1>5, <1>6, <1>7, <1>8, <1>9, <1>10, GamesQuiet DEF Next, MainStep

\* Every step keeps the first logins' invariant.
LEMMA NextFirst ==
    ASSUME IInv, FirstInv, [Next]_vars
    PROVE  FirstInv'
<1>1. CASE Next
  <2>1. BatchFirst'
    BY <1>1, BatchFirstStep DEF FirstInv, IInv
  <2>2. /\ logins \in [Player -> Nat]
        /\ \/ logins' = logins
           \/ \E h \in GameServer, q \in Player : Login(h, q) /\ logins' = [logins EXCEPT ![q] = @ + 1]
    BY <1>1, LoginsCounted DEF FirstInv
  <2>3. logins' \in [Player -> Nat]
    BY <2>2
  <2>4. ASSUME NEW p \in Player \ {TestPlayer}
        PROVE  /\ logins'[p] = 0 => NeverAsked(p)'
               /\ logins'[p] = 1 => \E g \in GameServer : AskedOnce(p, g)' /\ AnsweredAfterData(p, g)'
    <3>1. CASE \E h \in GameServer : Login(h, p)
      <4>1. PICK h \in GameServer : Login(h, p)
        BY <3>1
      <4>2. logins'[p] = logins[p] + 1 /\ logins[p] \in Nat
        BY <2>2, <4>1 DEF Login
      <4>3. logins[p] = 0 => AskedOnce(p, h)' /\ AnsweredAfterData(p, h)'
        BY <4>1, FirstLoginAsks DEF FirstInv, IInv
      <4> QED
        BY <4>2, <4>3
    <3>2. CASE ~ \E h \in GameServer : Login(h, p)
      <4>1. logins'[p] = logins[p]
        BY <2>2, <3>2
      <4>2. logins[p] = 0 => NeverAsked(p)'
        BY <1>1, <3>2, NeverAskedStep DEF FirstInv, IInv
      <4>3. ASSUME logins[p] = 1
            PROVE  \E g \in GameServer : AskedOnce(p, g)' /\ AnsweredAfterData(p, g)'
        <5>1. PICK g \in GameServer : AskedOnce(p, g) /\ AnsweredAfterData(p, g)
          BY <4>3 DEF FirstInv
        <5>2. AskedOnce(p, g)'
          BY <1>1, <3>2, <5>1, AskedOnceStep DEF FirstInv, IInv
        <5>3. AnsweredAfterData(p, g)'
          BY <1>1, <3>2, <5>1, AnsweredStep DEF FirstInv
        <5> QED
          BY <5>2, <5>3
      <4> QED
        BY <4>1, <4>2, <4>3
    <3> QED
      BY <3>1, <3>2
  <2> QED
    BY <2>1, <2>3, <2>4 DEF FirstInv
<1>2. CASE UNCHANGED vars
  BY <1>2 DEF vars, queues, players, threads, mains, entries, games, bounds, FirstInv, BatchFirst, NeverAsked,
              AskedOnce, AnsweredAfterData, Known, Asking, Accounts, Told, Reachable
<1> QED
  BY <1>1, <1>2

-----------------------------------------------------------------------------
(* The theorems. *)

\* The inductive invariant holds in every reachable state.
THEOREM Inductive == Spec => []IInv
<1>1. Init => IInv
  <2> SUFFICES ASSUME Init PROVE IInv
    OBVIOUS
  <2>1. TypeOK
    BY LoginAssumption DEF Init, TypeOK, NoAccount, Account, Data
  <2>2. ThreadsSound /\ LoadedReady /\ DuplicatesQueued
    BY DEF Init, ThreadsSound, LoadedReady, DuplicatesQueued
  <2> QED
    BY <2>1, <2>2 DEF IInv
<1>2. IInv /\ [Next]_vars => IInv'
  BY NextIInv
<1> QED
  BY <1>1, <1>2, PTL DEF Spec

\* The types of disposeOperateData's and the handlers' data, with any number of
\* select threads.
THEOREM TypeCorrect == Spec => []TypeOK
BY Inductive, PTL DEF IInv

\* heartBeat sends nothing for a player whose data a select thread has not
\* stored, although addPlayer and insertUpdatePlayerMain are not one step and
\* other threads and requests come between.
THEOREM LoadedComplete == Spec => []LoadedReady
BY Inductive, PTL DEF IInv

\* isInWaitingQueue drops a request only while an account of the player waits
\* for a select thread.
THEOREM DuplicatesWait == Spec => []DuplicatesQueued
BY Inductive, PTL DEF IInv

\* The strengthening that a first login needs.
THEOREM FirstInductive == Spec => []FirstInv
<1>1. Init => FirstInv
  <2> SUFFICES ASSUME Init PROVE FirstInv
    OBVIOUS
  <2>1. Range(<<>>) = {}
    BY DEF Range
  <2>2. Accounts = {}
    BY <2>1 DEF Init, Accounts
  <2>3. \A p \in Player : NeverAsked(p)
    BY <2>1, <2>2 DEF Init, NeverAsked, Known
  <2>4. BatchFirst /\ logins = [p \in Player |-> 0]
    BY DEF Init, BatchFirst
  <2> QED
    BY <2>3, <2>4 DEF FirstInv
<1>2. IInv /\ FirstInv /\ [Next]_vars => FirstInv'
  BY NextFirst
<1> QED
  BY <1>1, <1>2, Inductive, PTL DEF Spec

\* sendAllPlayerDataToGS goes before the response of heartBeat on the same
\* connection, and by then a select thread has copied the whole NDPlayerMain: a
\* game server that is told so of a first login has the data.
THEOREM FirstLoginsComplete == Spec => []FirstLoginComplete
<1>1. ASSUME IInv, FirstInv PROVE FirstLoginComplete
  <2> SUFFICES ASSUME NEW g \in GameServer, NEW p \in Player \ {TestPlayer},
                      logins[p] = 1, gsPlayer[g][p] = "complete"
               PROVE  gsMain[g][p] = "full"
    BY DEF FirstLoginComplete
  <2>1. PICK h \in GameServer : AskedOnce(p, h) /\ AnsweredAfterData(p, h)
    BY <1>1 DEF FirstInv
  <2> QED
    BY <2>1 DEF AnsweredAfterData
<1> QED
  BY <1>1, Inductive, FirstInductive, PTL
=============================================================================
