---------------------------- MODULE PlayerLogin ----------------------------
(***************************************************************************)
(* The login of players at NDDataServer: game servers ask for a player's   *)
(* data, the main thread queues the players that it does not have, select  *)
(* threads load them from the database, and the main thread sends what was *)
(* loaded.  Messages of a connection arrive in order, or are lost with it:  *)
(* a connection breaks alone, or with the end of the game server.          *)
(*                                                                         *)
(* A lock that protects one access makes one action; everything that other *)
(* threads can do between two accesses is possible.                        *)
(***************************************************************************)
EXTENDS Integers, Sequences, Functions

CONSTANTS
    Player, GameServer,
    Thread,                     \* the select threads
    NoServer,                   \* ND_INVALID_ID
    TestPlayer, TestServer,     \* what a registration queues, "for test"
    LoadsFail,                  \* may a query fail, or find no row?
    MaxLogins,                  \* bound: login requests per player
    MaxRegistrations            \* bound: registrations of game servers

ASSUME LoginAssumption ==
    /\ TestPlayer \in Player /\ TestServer \in GameServer
    /\ NoServer \notin GameServer
    /\ LoadsFail \in BOOLEAN /\ MaxLogins \in Nat /\ MaxRegistrations \in Nat

Account == [gs : GameServer, player : Player]       \* NDDSWaitingAccount
Data    == {"none", "torn", "full"}                 \* of an NDPlayerMain

VARIABLES
    waitingSet, waitingQueue,   \* m_waitingAccountPlayerGUIDSet, m_waitingAccountQueue
    loadSuccess,                \* m_loadSuccessAccountQueue
    online, dsMain, dsGS,       \* m_NDDSPlayerMap; m_playerMain and m_nGSServerID of its players
    thread, account,            \* what a select thread does, and for whom
    main, request, batch,       \* what the main thread does, for which request or accounts
    connected,                  \* game servers with a connection that is registered and works
    broken,                     \* of a server: the entries of m_pGameServerManager whose
                                \* connection broke, and whose CMDP_DISCONNECT_NOTIFY is to come
    hidden,                     \* connected servers that m_pGameServerManager finds by a broken
                                \* entry first
    toDS, toGS,                 \* messages under way, by game server
    gsPlayer,                   \* the players of a game server: "absent", or
                                \* m_bRecvAllDSPlayerData ("waiting", "complete")
    gsMain,                     \* and their m_NDPlayerMain
    logins, registrations,      \* counted for the bounds
    asked                       \* history, for LoginAnswered: has a server asked for a player,
                                \* and was what it asked, or the answer, lost?

queues  == <<waitingSet, waitingQueue, loadSuccess>>
players == <<online, dsMain, dsGS>>
threads == <<thread, account>>
mains   == <<main, request, batch>>
entries == <<connected, broken, hidden>>
games   == <<gsPlayer, gsMain>>
bounds  == <<logins, registrations>>
vars    == <<queues, players, threads, mains, entries, toDS, toGS, games, bounds, asked>>

NoAccount == [gs |-> TestServer, player |-> TestPlayer]

Init ==
    /\ waitingSet = {} /\ waitingQueue = <<>> /\ loadSuccess = <<>>
    /\ online = {}
    /\ dsMain = [p \in Player |-> "none"] /\ dsGS = [p \in Player |-> NoServer]
    /\ thread = [t \in Thread |-> "idle"] /\ account = [t \in Thread |-> NoAccount]
    /\ main = "idle" /\ request = NoAccount /\ batch = <<>>
    /\ connected = {} /\ broken = [g \in GameServer |-> 0] /\ hidden = {}
    /\ toDS = [g \in GameServer |-> <<>>] /\ toGS = [g \in GameServer |-> <<>>]
    /\ gsPlayer = [g \in GameServer |-> [p \in Player |-> "absent"]]
    /\ gsMain = [g \in GameServer |-> [p \in Player |-> "none"]]
    /\ logins = [p \in Player |-> 0] /\ registrations = 0
    /\ asked = [g \in GameServer |-> [p \in Player |-> "never"]]

Note(p, m)      == [type |-> "main", player |-> p, data |-> m]
Response(p, ok) == [type |-> IF ok THEN "ok" ELSE "error", player |-> p, data |-> "none"]

\* Mutant of AddWaitingQueue: the two numbers of an account are swapped.
AddSwapped(a) ==
    /\ waitingSet' = waitingSet \cup {a.player}
    /\ waitingQueue' = Append(waitingQueue, [gs |-> a.player, player |-> a.gs])
    /\ UNCHANGED loadSuccess

AddWaitingQueue(a) ==
    /\ waitingSet' = waitingSet \cup {a.player}
    /\ waitingQueue' = Append(waitingQueue, a)
    /\ UNCHANGED loadSuccess

-----------------------------------------------------------------------------
(* The select threads. *)

\* Mutant of RemoveWaitingQueue: the set keeps the player.
RemoveKeepsPlayer(t) ==
    /\ thread[t] = "idle" /\ waitingQueue # <<>>
    /\ account' = [account EXCEPT ![t] = Head(waitingQueue)]
    /\ waitingQueue' = Tail(waitingQueue)
    /\ thread' = [thread EXCEPT ![t] = "account"]
    /\ UNCHANGED <<waitingSet, loadSuccess, players, mains, entries, toDS, toGS, games, bounds, asked>>

RemoveWaitingQueue(t) ==
    /\ thread[t] = "idle" /\ waitingQueue # <<>>
    /\ account' = [account EXCEPT ![t] = Head(waitingQueue)]
    /\ waitingQueue' = Tail(waitingQueue)
    /\ waitingSet' = waitingSet \ {Head(waitingQueue).player}
    /\ thread' = [thread EXCEPT ![t] = "account"]
    /\ UNCHANGED <<loadSuccess, players, mains, entries, toDS, toGS, games, bounds, asked>>

\* The row of the account table is there; addPlayer looks the player up.
SelectAccount(t) ==
    /\ thread[t] = "account"
    /\ thread' = [thread EXCEPT ![t] = IF account[t].player \in online THEN "main" ELSE "insert"]
    /\ UNCHANGED <<queues, players, account, mains, entries, toDS, toGS, games, bounds, asked>>

\* insert() of addPlayer keeps a player that is there already.
AddPlayer(t) ==
    /\ thread[t] = "insert"
    /\ online' = online \cup {account[t].player}
    /\ thread' = [thread EXCEPT ![t] = "main"]
    /\ UNCHANGED <<queues, dsMain, dsGS, account, mains, entries, toDS, toGS, games, bounds, asked>>

\* The row of the main table is there; insertUpdatePlayerMain copies it without
\* a lock, ...
SelectMain(t) ==
    /\ thread[t] = "main"
    /\ dsMain' = [dsMain EXCEPT ![account[t].player] = IF @ = "none" THEN "torn" ELSE @]
    /\ thread' = [thread EXCEPT ![t] = "copy"]
    /\ UNCHANGED <<queues, online, dsGS, account, mains, entries, toDS, toGS, games, bounds, asked>>

\* ... until it is all copied.
CopyMain(t) ==
    /\ thread[t] = "copy"
    /\ dsMain' = [dsMain EXCEPT ![account[t].player] = "full"]
    /\ thread' = [thread EXCEPT ![t] = "server"]
    /\ UNCHANGED <<queues, online, dsGS, account, mains, entries, toDS, toGS, games, bounds, asked>>

SetGSServerID(t) ==
    /\ thread[t] = "server"
    /\ dsGS' = [dsGS EXCEPT ![account[t].player] = account[t].gs]
    /\ thread' = [thread EXCEPT ![t] = "queue"]
    /\ UNCHANGED <<queues, online, dsMain, account, mains, entries, toDS, toGS, games, bounds, asked>>

AddLoadSuccessQueue(t) ==
    /\ thread[t] = "queue"
    /\ loadSuccess' = Append(loadSuccess, account[t])
    /\ thread' = [thread EXCEPT ![t] = "idle"]
    /\ UNCHANGED <<waitingSet, waitingQueue, players, account, mains, entries, toDS, toGS, games, bounds, asked>>

\* Mutant of LoadFail: the failure of a query does not end the loading.
LoadFailIgnored(t) ==
    /\ LoadsFail
    /\ thread[t] = "main"
    /\ thread' = [thread EXCEPT ![t] = "server"]
    /\ UNCHANGED <<queues, players, account, mains, entries, toDS, toGS, games, bounds, asked>>

\* One of the two queries fails.  Nobody is told.
LoadFail(t) ==
    /\ LoadsFail
    /\ thread[t] \in {"account", "main"}
    /\ thread' = [thread EXCEPT ![t] = "idle"]
    /\ UNCHANGED <<queues, players, account, mains, entries, toDS, toGS, games, bounds, asked>>

SelectStep(t) ==
    \/ RemoveWaitingQueue(t) \/ SelectAccount(t) \/ AddPlayer(t) \/ SelectMain(t)
    \/ CopyMain(t) \/ SetGSServerID(t) \/ AddLoadSuccessQueue(t) \/ LoadFail(t)

-----------------------------------------------------------------------------
(* The main thread. *)

\* What getRemoteServerInfoByServerID finds, and whom a message sent to it reaches.
Registered == connected \cup {g \in GameServer : broken[g] > 0}
Reachable  == connected \ hidden

\* What was asked over the connection of g is lost, or its answer is.
Forget(g) ==
    asked' = [asked EXCEPT ![g] = [p \in Player |-> IF @[p] = "sent" THEN "lost" ELSE @[p]]]

\* gs2dsRegisterReqDispose also queues an account, "for test".  Which entry of g
\* comes first is up to the session IDs, if an old one is still there.
RegisterReq(g) ==
    /\ main = "idle" /\ g \notin connected
    /\ registrations < MaxRegistrations
    /\ connected' = connected \cup {g}
    /\ hidden' = hidden \/ (broken[g] > 0 /\ hidden' = hidden \cup {g})
    /\ AddWaitingQueue([gs |-> TestServer, player |-> TestPlayer])
    /\ registrations' = registrations + 1
    /\ UNCHANGED <<players, threads, mains, broken, toDS, toGS, games, logins, asked>>

\* A connection breaks; both servers run on, and the game server will connect
\* again.  The data server does not know yet.
Break(g) ==
    /\ g \in connected
    /\ connected' = connected \ {g} /\ hidden' = hidden \ {g}
    /\ broken' = [broken EXCEPT ![g] = @ + 1]
    /\ toDS' = [toDS EXCEPT ![g] = <<>>] /\ toGS' = [toGS EXCEPT ![g] = <<>>]
    /\ Forget(g)
    /\ UNCHANGED <<queues, players, threads, mains, bounds>>

LoseConnection(g) == Break(g) /\ UNCHANGED games

\* A game server ends; a new one will start without players.
EndServer(g) ==
    /\ Break(g)
    /\ gsPlayer' = [gsPlayer EXCEPT ![g] = [p \in Player |-> "absent"]]
    /\ gsMain' = [gsMain EXCEPT ![g] = [p \in Player |-> "none"]]

\* disconnectNotifyDispose removes a broken entry; if it hid the connection that
\* works, what was sent to g meanwhile went nowhere.
Disconnect(g) ==
    /\ main = "idle" /\ broken[g] > 0
    /\ broken' = [broken EXCEPT ![g] = @ - 1]
    /\ hidden' = hidden \ {g} \/ (broken[g] > 1 /\ hidden' = hidden)
    /\ IF g \in hidden THEN Forget(g) ELSE UNCHANGED asked
    /\ UNCHANGED <<queues, players, threads, mains, connected, toDS, toGS, games, bounds>>

\* isInWaitingQueue
PlayerLoginReq(g) ==
    /\ main = "idle" /\ toDS[g] # <<>>
    /\ toDS' = [toDS EXCEPT ![g] = Tail(@)]
    /\ IF Head(toDS[g]) \in waitingSet
       THEN UNCHANGED <<main, request>>
       ELSE main' = "lookup" /\ request' = [gs |-> g, player |-> Head(toDS[g])]
    /\ UNCHANGED <<queues, players, threads, batch, entries, toGS, games, bounds, asked>>

\* getPlayerByGUID
LookUp ==
    /\ main = "lookup"
    /\ IF request.player \in online
       THEN main' = "send" /\ dsGS' = [dsGS EXCEPT ![request.player] = request.gs]
       ELSE main' = "enqueue" /\ UNCHANGED dsGS
    /\ UNCHANGED <<queues, online, dsMain, threads, request, batch, entries, toDS, toGS, games, bounds, asked>>

Enqueue ==
    /\ main = "enqueue"
    /\ main' = "idle"
    /\ AddWaitingQueue(request)
    /\ UNCHANGED <<players, threads, request, batch, entries, toDS, toGS, games, bounds, asked>>

\* Mutant of HeartBeat: the queue is cleared before it is copied.
HeartBeatEmpty ==
    /\ main = "idle" /\ loadSuccess # <<>>
    /\ loadSuccess' = <<>>
    /\ UNCHANGED <<waitingSet, waitingQueue, players, threads, mains, entries, toDS, toGS, games, bounds, asked>>

HeartBeat ==
    /\ main = "idle" /\ loadSuccess # <<>>
    /\ loadSuccess' = <<>> /\ batch' = loadSuccess
    /\ main' = "send" /\ request' = Head(loadSuccess)
    /\ UNCHANGED <<waitingSet, waitingQueue, players, threads, entries, toDS, toGS, games, bounds, asked>>

\* What the main thread may see of data that is being copied.
Seen(m) == IF m = "torn" THEN Data ELSE {m}

\* sendAllPlayerDataToGS, to the server that is the player's now.  A broken
\* session takes the data until its end is noticed.
SendPlayerMain ==
    /\ main = "send"
    /\ LET g == dsGS[request.player]
       IN \/ /\ g \in Reachable /\ main' = "ok"
             /\ \E m \in Seen(dsMain[request.player]) :
                    toGS' = [toGS EXCEPT ![g] = Append(@, Note(request.player, m))]
          \/ /\ g \in Registered \ Reachable /\ main' \in {"ok", "error"}
             /\ UNCHANGED toGS
          \/ g \notin Registered /\ main' = "error" /\ UNCHANGED toGS
    /\ UNCHANGED <<queues, players, threads, request, batch, entries, toDS, games, bounds, asked>>

\* A handler answers the session that asked; heartBeat the server that is the
\* player's now, and goes on with the next account.
SendResponse ==
    /\ main \in {"ok", "error"}
    /\ LET g    == IF batch = <<>> THEN request.gs ELSE dsGS[request.player]
           here == IF batch = <<>> THEN connected ELSE Reachable
       IN toGS' = IF g \in here
                  THEN [toGS EXCEPT ![g] = Append(@, Response(request.player, main = "ok"))]
                  ELSE toGS
    /\ IF Len(batch) > 1
       THEN batch' = Tail(batch) /\ request' = batch[2] /\ main' = "send"
       ELSE batch' = <<>> /\ main' = "idle" /\ UNCHANGED request
    /\ UNCHANGED <<queues, players, threads, entries, toDS, games, bounds, asked>>

MainStep ==
    \/ \E g \in GameServer : PlayerLoginReq(g)
    \/ LookUp \/ Enqueue \/ HeartBeat \/ SendPlayerMain \/ SendResponse

-----------------------------------------------------------------------------
(* The game servers. *)

\* A player comes and sendPlayerLoginToDS asks for its data, or asks again.
Login(g, p) ==
    /\ g \in connected
    /\ gsPlayer[g][p] # "complete"
    /\ logins[p] < MaxLogins
    /\ logins' = [logins EXCEPT ![p] = @ + 1]
    /\ gsPlayer' = [gsPlayer EXCEPT ![g][p] = "waiting"]
    /\ toDS' = [toDS EXCEPT ![g] = Append(@, p)]
    /\ asked' = [asked EXCEPT ![g][p] = "sent"]
    /\ UNCHANGED <<queues, players, threads, mains, entries, toGS, gsMain, registrations>>

\* An empty NDPlayerMain has m_nPlayerGUID 0, which no player has.
SendPlayerMainNty(g) ==
    /\ toGS[g] # <<>> /\ Head(toGS[g]).type = "main"
    /\ toGS' = [toGS EXCEPT ![g] = Tail(@)]
    /\ LET nty == Head(toGS[g])
       IN gsMain' = IF gsPlayer[g][nty.player] = "waiting" /\ nty.data # "none"
                    THEN [gsMain EXCEPT ![g][nty.player] = nty.data] ELSE gsMain
    /\ UNCHANGED <<queues, players, threads, mains, entries, toDS, gsPlayer, bounds, asked>>

\* (The notice to the gateway is never sent: nothing sets m_nGTWSServerID.)
PlayerLoginRes(g) ==
    /\ toGS[g] # <<>> /\ Head(toGS[g]).type \in {"ok", "error"}
    /\ toGS' = [toGS EXCEPT ![g] = Tail(@)]
    /\ LET res == Head(toGS[g])
       IN gsPlayer' = IF gsPlayer[g][res.player] # "absent" /\ res.type = "ok"
                      THEN [gsPlayer EXCEPT ![g][res.player] = "complete"] ELSE gsPlayer
    /\ UNCHANGED <<queues, players, threads, mains, entries, toDS, gsMain, bounds, asked>>

GameStep(g) == SendPlayerMainNty(g) \/ PlayerLoginRes(g)

-----------------------------------------------------------------------------
Next ==
    \/ \E t \in Thread : SelectStep(t)
    \/ MainStep
    \/ \E g \in GameServer :
           \/ RegisterReq(g) \/ LoseConnection(g) \/ EndServer(g) \/ Disconnect(g)
           \/ GameStep(g)
           \/ \E p \in Player : Login(g, p)

\* The threads loop for ever, the game servers read what they are sent, and
\* pings find a broken connection out.
Spec     == Init /\ [][Next]_vars
FairSpec == /\ Spec
            /\ \A t \in Thread : WF_vars(SelectStep(t))
            /\ WF_vars(MainStep)
            /\ \A g \in GameServer : WF_vars(GameStep(g)) /\ WF_vars(Disconnect(g))

-----------------------------------------------------------------------------
(* Properties. *)

TypeOK ==
    /\ waitingSet \in SUBSET Player /\ waitingQueue \in Seq(Account)
    /\ loadSuccess \in Seq(Account)
    /\ online \in SUBSET Player /\ dsMain \in [Player -> Data]
    /\ dsGS \in [Player -> GameServer \cup {NoServer}]
    /\ thread \in [Thread -> {"idle", "account", "insert", "main", "copy", "server", "queue"}]
    /\ account \in [Thread -> Account]
    /\ main \in {"idle", "lookup", "enqueue", "send", "ok", "error"}
    /\ request \in Account /\ batch \in Seq(Account)
    /\ connected \in SUBSET GameServer /\ hidden \in SUBSET connected
    /\ broken \in [GameServer -> Nat]
    /\ toDS \in [GameServer -> Seq(Player)]
    /\ toGS \in [GameServer -> Seq([type : {"main", "ok", "error"}, player : Player, data : Data])]
    /\ gsPlayer \in [GameServer -> [Player -> {"absent", "waiting", "complete"}]]
    /\ gsMain \in [GameServer -> [Player -> Data]]
    /\ asked \in [GameServer -> [Player -> {"never", "sent", "lost"}]]

Ready(p) == p \in online /\ dsMain[p] = "full" /\ dsGS[p] # NoServer

\* What waits to be sent after a load is all there, however many threads loaded
\* the player at the same time: heartBeat never answers for half a player.
LoadedReady ==
    /\ \A i \in 1..Len(loadSuccess) : Ready(loadSuccess[i].player)
    /\ \A i \in 1..Len(batch) : Ready(batch[i].player)

\* A request is dropped as a duplicate only if the player's account is really
\* in the queue, so that a select thread will still come to it.
DuplicatesQueued == \A p \in waitingSet : \E i \in 1..Len(waitingQueue) : waitingQueue[i].player = p

\* A player that logged in once, and is not the one loaded "for test", has all
\* its data when its game server is told so.
FirstLoginComplete ==
    \A g \in GameServer, p \in Player \ {TestPlayer} :
        logins[p] = 1 /\ gsPlayer[g][p] = "complete" => gsMain[g][p] = "full"

\* "Whether the data received from the DS is complete" is what the flag says,
\* however often a player logs in.
CompleteHasData ==
    \A g \in GameServer, p \in Player \ {TestPlayer} :
        gsPlayer[g][p] = "complete" => gsMain[g][p] = "full"

\* A login is answered, whatever else is loaded, sent and lost: a player that
\* waits for its data and was asked for over the connection its server has does
\* not wait for ever, unless that connection breaks, or was hidden by a broken
\* one when the end of that is noticed, or another server asks for the player.
\* (m_waitingAccountPlayerGUIDSet is by player: the second server's request is
\* dropped, or its number replaces the first one's.)
LoginAnswered ==
    \A g \in GameServer, p \in Player : (p = TestPlayer => g = TestServer) =>
        (/\ gsPlayer[g][p] = "waiting" /\ asked[g][p] = "sent"
         ~> \/ gsPlayer[g][p] # "waiting" \/ asked[g][p] = "lost"
            \/ \E h \in GameServer \ {g} : asked[h][p] # "never")
-----------------------------------------------------------------------------
(* The inductive invariant of PlayerLoginProofs. *)

\* What a select thread has done for its account, others do not undo.
ThreadsSound ==
    \A t \in Thread :
        /\ thread[t] \in {"main", "copy", "server", "queue"} => account[t].player \in online
        /\ thread[t] \in {"server", "queue"} => dsMain[account[t].player] = "full"
        /\ thread[t] = "queue" => dsGS[account[t].player] # NoServer

IInv == TypeOK /\ ThreadsSound /\ LoadedReady /\ DuplicatesQueued

(* What holds besides of a player that logs in for the first time at server g. *)

\* The accounts that wait for a select thread, are loaded, or are answered.
Accounts ==
    Range(waitingQueue) \cup Range(loadSuccess) \cup Range(batch)
        \cup {account[t] : t \in {u \in Thread : thread[u] # "idle"}}

Known(p)  == p \in online \/ \E a \in Accounts : a.player = p
Asking(p) == main \in {"lookup", "enqueue"} /\ request.player = p

\* Nobody has asked for p.
NeverAsked(p) ==
    /\ ~ Known(p) /\ dsGS[p] = NoServer
    /\ main # "idle" => request.player # p
    /\ \A g \in GameServer :
           /\ p \notin Range(toDS[g])
           /\ \A m \in Range(toGS[g]) : m.player # p
           /\ gsPlayer[g][p] = "absent"

\* There is one request for p, of g, and until it is queued nobody knows p; what
\* is queued, loaded or answered is for g.
AskedOnce(p, g) ==
    /\ Asking(p) => request.gs = g /\ ~ Known(p)
    /\ p \in Range(toDS[g]) => ~ Known(p) /\ ~ Asking(p)
    /\ \A i, j \in 1..Len(toDS[g]) : toDS[g][i] = p /\ toDS[g][j] = p => i = j
    /\ \A h \in GameServer \ {g} : p \notin Range(toDS[h])
    /\ \A a \in Accounts : a.player = p => a.gs = g
    /\ dsGS[p] \in {NoServer, g}
    /\ main \in {"send", "ok", "error"} /\ request.player = p => batch # <<>>

\* The data of p came to g, or is under way before message n + 1.
Told(p, g, n) ==
    \/ gsPlayer[g][p] = "absent" \/ gsMain[g][p] = "full"
    \/ \E i \in 1..n : toGS[g][i].type = "main" /\ toGS[g][i].player = p

\* Every answer to g follows the data, and the data is full.
AnsweredAfterData(p, g) ==
    /\ \A h \in GameServer \ {g} : gsPlayer[h][p] = "absent"
    /\ gsPlayer[g][p] = "complete" => gsMain[g][p] = "full"
    /\ \A i \in 1..Len(toGS[g]) : toGS[g][i].player = p =>
           /\ toGS[g][i].type = "main" => toGS[g][i].data = "full"
           /\ toGS[g][i].type = "ok" => Told(p, g, i - 1)
    /\ main = "ok" /\ request.player = p /\ g \in Reachable => Told(p, g, Len(toGS[g]))

\* heartBeat answers for the first account of its copy; the handlers have none.
BatchFirst ==
    /\ main \in {"idle", "lookup", "enqueue"} => batch = <<>>
    /\ batch # <<>> => request = batch[1]

FirstInv ==
    /\ BatchFirst
    /\ logins \in [Player -> Nat]
    /\ \A p \in Player \ {TestPlayer} :
           /\ logins[p] = 0 => NeverAsked(p)
           /\ logins[p] = 1 => \E g \in GameServer : AskedOnce(p, g) /\ AnsweredAfterData(p, g)
=============================================================================
