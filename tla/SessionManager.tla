--------------------------- MODULE SessionManager ---------------------------
(***************************************************************************)
(* The session layer every NDServerEngine process is built on:             *)
(* NDSessionManagerImpl (the containers a session object moves through),   *)
(* NDSession / NDServerSession / NDClientSession (the socket and the alive *)
(* flag), NDServerNetIO (accept, the periodic check), NDLinuxEpoll and the *)
(* message queue of NDServerTask, driven by the single thread of           *)
(* NDServerManager::mainLoop in the order it calls them.                   *)
(*                                                                         *)
(* A session object and its session ID are the same for the whole run (IDs *)
(* are given at construction and objects are never deleted before exit),   *)
(* so a session IS its ID here.  Buffers, statistics, ping times and       *)
(* disconnection types are left out: a timer may expire whenever the loop  *)
(* looks at it, and a socket operation may fail whenever it is called.     *)
(***************************************************************************)
EXTENDS Integers, Sequences, FiniteSets, Functions

CONSTANTS
    Fd,                 \* the descriptor numbers the kernel has to give
    NoFd,               \* INVALID_SOCKET
    CreateSessionNum,   \* CREATE_SESSION_NUM: objects allocated at a time
    MaxID,              \* bound: session objects the process ever allocates
    MaxPackets,         \* bound: packets completed by one handleRead
    FdReuse             \* may the kernel give a number that still waits in
                        \* m_invalidSessionDeque?  (TRUE on POSIX systems)

ASSUME FdAssumption     == NoFd \notin Fd
ASSUME CreateAssumption == CreateSessionNum \in Nat \ {0}
ASSUME BoundAssumption  == MaxID \in Nat /\ MaxPackets \in Nat
ASSUME ReuseAssumption  == FdReuse \in BOOLEAN

ID        == 1..MaxID
NoSession == 0

Request(s)    == [kind |-> "request",    id |-> s]
Disconnect(s) == [kind |-> "disconnect", id |-> s]
Message       == [kind : {"request", "disconnect"}, id : ID]

VARIABLES
    phase,                  \* where mainLoop is
    generateID,             \* m_generateID
    serverObj, clientObj,   \* the NDServerSession / NDClientSession objects
    createNum,              \* m_nCreateNum
    spareNum,               \* m_nSpareNum
    aliveNum,               \* m_nAliveNum
    createServerDeque,      \* m_createServerSessionDeque
    prep,                   \* m_prepServerSessionMap
    serverMap,              \* m_serverSessionMap
    releaseMap,             \* m_releaseServerSessionMap
    createClientDeque,      \* m_createClientSessionDeque
    clientMap,              \* m_clientSessionMap
    netIO,                  \* sessions that are some NDClientNetIO's m_pClientSession
    sock,                   \* session -> descriptor of m_pSocket
    alive,                  \* session -> m_bAlive
    allWork,                \* m_allWorkSessionMap: descriptor -> session
    invalid,                \* m_invalidSessionDeque: descriptors
    epoll,                  \* sessions whose descriptor epoll watches
    ready,                  \* what epoll_wait returned and run() has not handled
    taskQueue               \* NDServerTask::m_msgDeque

poolVars   == <<generateID, serverObj, clientObj, createNum>>
serverVars == <<createServerDeque, prep, serverMap, releaseMap, spareNum, aliveNum>>
clientVars == <<createClientDeque, clientMap, netIO>>
ioVars     == <<sock, alive, allWork, invalid, epoll>>
vars       == <<phase, poolVars, serverVars, clientVars, ioVars, ready, taskQueue>>

Phases == {"check", "accept", "timer", "close", "gc", "wait", "event", "task", "run"}

Init ==
    /\ phase = "check"
    /\ generateID = 0
    /\ serverObj = {} /\ clientObj = {}
    /\ createNum = 0 /\ spareNum = 0 /\ aliveNum = 0
    /\ createServerDeque = <<>> /\ createClientDeque = <<>>
    /\ prep = {} /\ serverMap = {} /\ releaseMap = {} /\ clientMap = {} /\ netIO = {}
    /\ sock = [s \in ID |-> NoFd]
    /\ alive = [s \in ID |-> FALSE]
    /\ allWork = [f \in Fd |-> NoSession]
    /\ invalid = <<>>
    /\ epoll = {} /\ ready = {}
    /\ taskQueue = <<>>

-----------------------------------------------------------------------------
(* Descriptors. *)

\* The kernel gives socket() and accept() a number that is not open.
FreeFd == {f \in Fd : /\ \A s \in ID : sock[s] # f
                      /\ FdReuse \/ f \notin Range(invalid)}

\* Mutants of Close: the socket is closed before its number is queued; the
\* alive flag is forgotten; the number is not queued.
CloseThenQueue(s) ==
    /\ invalid' = Append(invalid, NoFd)
    /\ sock' = [sock EXCEPT ![s] = NoFd]
    /\ alive' = [alive EXCEPT ![s] = FALSE]
    /\ epoll' = epoll \ {s}
    /\ UNCHANGED allWork

CloseKeepsAlive(s) ==
    /\ invalid' = Append(invalid, sock[s])
    /\ sock' = [sock EXCEPT ![s] = NoFd]
    /\ epoll' = epoll \ {s}
    /\ UNCHANGED <<alive, allWork>>

CloseUnqueued(s) ==
    /\ sock' = [sock EXCEPT ![s] = NoFd]
    /\ alive' = [alive EXCEPT ![s] = FALSE]
    /\ epoll' = epoll \ {s}
    /\ UNCHANGED <<invalid, allWork>>

\* NDSession::handleClose on a live session: the number is queued for
\* closeInvalidWorkSession, but the socket is closed (and leaves epoll) now.
Close(s) ==
    /\ invalid' = Append(invalid, sock[s])
    /\ sock' = [sock EXCEPT ![s] = NoFd]
    /\ alive' = [alive EXCEPT ![s] = FALSE]
    /\ epoll' = epoll \ {s}
    /\ UNCHANGED allWork

\* Mutant of Watch: the session is not entered in m_allWorkSessionMap.
WatchUnlisted(s, f) ==
    /\ sock' = [sock EXCEPT ![s] = f]
    /\ alive' = [alive EXCEPT ![s] = TRUE]
    /\ epoll' = epoll \cup {s}
    /\ UNCHANGED <<allWork, invalid>>

\* registerReadWriteEvent, and std::map::insert into m_allWorkSessionMap: it
\* keeps an entry that is already there.
Watch(s, f) ==
    /\ sock' = [sock EXCEPT ![s] = f]
    /\ alive' = [alive EXCEPT ![s] = TRUE]
    /\ epoll' = epoll \cup {s}
    /\ allWork' = IF allWork[f] = NoSession THEN [allWork EXCEPT ![f] = s] ELSE allWork
    /\ UNCHANGED invalid

\* The IDs one createServerSessionDeque / createClientSessionDeque allocates.
NewIDs == [i \in 1..CreateSessionNum |-> generateID + i]
CanAllocate == generateID + CreateSessionNum <= MaxID   \* bound

-----------------------------------------------------------------------------
(* Client sessions: NDClientNetIO::connect and disConnect.  mainLoop calls *)
(* them from reconnectServer ("check"), message handlers ("task") and      *)
(* timers ("run").                                                         *)

ConnectPhases == {"check", "task", "run"}

\* createClientSession: the deque is refilled when it is empty, and popped.
TakeClientSession(s) ==
    /\ IF createClientDeque = <<>>
       THEN /\ CanAllocate
            /\ s = Head(NewIDs)
            /\ createClientDeque' = Tail(NewIDs)
            /\ clientObj' = clientObj \cup Range(NewIDs)
            /\ generateID' = generateID + CreateSessionNum
       ELSE /\ s = Head(createClientDeque)
            /\ createClientDeque' = Tail(createClientDeque)
            /\ UNCHANGED <<clientObj, generateID>>
    /\ UNCHANGED <<serverObj, createNum>>

\* connect() succeeds: addWorkClientSession.
ClientConnect(s, f) ==
    /\ phase \in ConnectPhases
    /\ f \in FreeFd
    /\ TakeClientSession(s)
    /\ Watch(s, f)
    /\ clientMap' = clientMap \cup {s}
    /\ netIO' = netIO \cup {s}
    /\ UNCHANGED <<phase, serverVars, ready, taskQueue>>

\* connect() fails after socket(), in connect(2) or (live already) at the end of
\* initSession: releaseClientSession looks the session up in
\* m_clientSessionMap, where addWorkClientSession never put it, and so neither
\* closes its socket nor returns it to the deque.
ClientConnectFail(s, f, live) ==
    /\ phase \in ConnectPhases
    /\ f \in FreeFd
    /\ TakeClientSession(s)
    /\ sock' = [sock EXCEPT ![s] = f]
    /\ alive' = [alive EXCEPT ![s] = live]
    /\ UNCHANGED <<phase, serverVars, clientMap, netIO, allWork, invalid, epoll,
                   ready, taskQueue>>

\* epoll_ctl fails in addWorkClientSession, whose result connect() ignores: the
\* NDClientNetIO holds a live session that nothing else knows of.
ClientConnectUnwatched(s, f) ==
    /\ phase \in ConnectPhases
    /\ f \in FreeFd
    /\ TakeClientSession(s)
    /\ sock' = [sock EXCEPT ![s] = f]
    /\ alive' = [alive EXCEPT ![s] = TRUE]
    /\ netIO' = netIO \cup {s}
    /\ UNCHANGED <<phase, serverVars, clientMap, allWork, invalid, epoll, ready,
                   taskQueue>>

\* disConnect, which connect() and sendToServer() also call.
ClientDisConnect(s) ==
    /\ phase \in ConnectPhases
    /\ s \in netIO
    /\ netIO' = netIO \ {s}
    /\ IF alive[s] THEN Close(s) ELSE UNCHANGED ioVars
    /\ UNCHANGED <<phase, poolVars, serverVars, createClientDeque, clientMap, ready,
                   taskQueue>>

EndCheck ==
    /\ phase = "check"
    /\ phase' = "accept"
    /\ UNCHANGED <<poolVars, serverVars, clientVars, ioVars, ready, taskQueue>>

-----------------------------------------------------------------------------
(* NDServerNetIO::accept: a session is taken first, and given back when    *)
(* accept(), initSession or addWorkServerSession fails.                    *)

CreateServerSession ==
    /\ phase = "accept" /\ prep = {}
    /\ LET fill  == spareNum = 0
           deque == IF fill THEN createServerDeque \o NewIDs ELSE createServerDeque
           total == IF fill THEN spareNum + CreateSessionNum ELSE spareNum
       IN /\ fill => CanAllocate
          /\ prep' = {Head(deque)}
          /\ createServerDeque' = Tail(deque)
          /\ spareNum' = total - 1
          /\ generateID' = IF fill THEN generateID + CreateSessionNum ELSE generateID
          /\ createNum' = IF fill THEN createNum + CreateSessionNum ELSE createNum
          /\ serverObj' = IF fill THEN serverObj \cup Range(NewIDs) ELSE serverObj
    /\ UNCHANGED <<phase, clientObj, serverMap, releaseMap, aliveNum, clientVars,
                   ioVars, ready, taskQueue>>

\* accept(), initSession and addWorkServerSession all succeed.
AcceptServerSession(s, f) ==
    /\ phase = "accept" /\ s \in prep
    /\ f \in FreeFd
    /\ Watch(s, f)
    /\ serverMap' = serverMap \cup {s}
    /\ prep' = prep \ {s}
    /\ aliveNum' = aliveNum + 1
    /\ UNCHANGED <<phase, poolVars, createServerDeque, releaseMap, spareNum,
                   clientVars, ready, taskQueue>>

\* Mutants of ReleasePrep: the session is not erased from the map; the spare
\* counter is not raised.
ReleasePrepKept(s) ==
    /\ createServerDeque' = Append(createServerDeque, s)
    /\ spareNum' = spareNum + 1
    /\ UNCHANGED <<prep, poolVars, serverMap, releaseMap, aliveNum, clientVars, ioVars,
                   ready, taskQueue>>

ReleasePrepUncounted(s) ==
    /\ prep' = prep \ {s}
    /\ createServerDeque' = Append(createServerDeque, s)
    /\ UNCHANGED <<spareNum, poolVars, serverMap, releaseMap, aliveNum, clientVars,
                   ioVars, ready, taskQueue>>

\* releaseServerSession of a session that is not in m_serverSessionMap: its
\* socket (if it has one) is closed and it goes back to the deque.
ReleasePrep(s) ==
    /\ prep' = prep \ {s}
    /\ createServerDeque' = Append(createServerDeque, s)
    /\ spareNum' = spareNum + 1
    /\ UNCHANGED <<poolVars, serverMap, releaseMap, aliveNum, clientVars, ioVars,
                   ready, taskQueue>>

\* accept() has no connection to give: the loop ends.
AcceptNone(s) ==
    /\ phase = "accept" /\ s \in prep
    /\ ReleasePrep(s)
    /\ phase' = "timer"

\* initSession or epoll_ctl fails: the loop goes on with the next connection.
AcceptInitFail(s) ==
    /\ phase = "accept" /\ s \in prep
    /\ ReleasePrep(s)
    /\ UNCHANGED phase

\* isAccept() is false, or nMaxConnectionPer connections were accepted.
EndAccept ==
    /\ phase = "accept" /\ prep = {}
    /\ phase' = "timer"
    /\ UNCHANGED <<poolVars, serverVars, clientVars, ioVars, ready, taskQueue>>

-----------------------------------------------------------------------------
(* NDServerNetIO::checkSessionTimerFunction: updateServerSessionMap,       *)
(* closeInvalidWorkSession and updateReleaseSessionMap, in this order.     *)

\* No ping for SOCKET_PING_TIMEOUT.  handleClose ignores a dead session.
PingTimeout(s) ==
    /\ phase = "timer"
    /\ s \in serverMap /\ alive[s]
    /\ Close(s)
    /\ UNCHANGED <<phase, poolVars, serverVars, clientVars, ready, taskQueue>>

EndTimer ==
    /\ phase = "timer"
    /\ phase' = "close"
    /\ UNCHANGED <<poolVars, serverVars, clientVars, ioVars, ready, taskQueue>>

\* NDServerSession::destroy: announce the end to the message handlers and
\* keep the object for SOCKET_GC_TIMEOUT.
DestroyServerSession(s) ==
    /\ taskQueue' = Append(taskQueue, Disconnect(s))
    /\ IF s \in serverMap
       THEN /\ releaseMap' = releaseMap \cup {s}
            /\ serverMap' = serverMap \ {s}
            /\ aliveNum' = aliveNum - 1
       ELSE UNCHANGED <<releaseMap, serverMap, aliveNum>>
    /\ UNCHANGED <<createServerDeque, prep, spareNum, clientVars, sock, alive>>

\* Mutant of DestroyClientSession: the map entry stays.
DestroyClientKept(s) ==
    /\ IF s \in clientMap
       THEN /\ createClientDeque' = Append(createClientDeque, s)
            /\ sock' = [sock EXCEPT ![s] = NoFd]
            /\ alive' = [alive EXCEPT ![s] = FALSE]
       ELSE UNCHANGED <<createClientDeque, sock, alive>>
    /\ UNCHANGED <<clientMap, netIO, serverVars, taskQueue>>

\* NDClientSession::destroy: releaseSession, and straight back to the deque.
DestroyClientSession(s) ==
    /\ IF s \in clientMap
       THEN /\ clientMap' = clientMap \ {s}
            /\ createClientDeque' = Append(createClientDeque, s)
            /\ sock' = [sock EXCEPT ![s] = NoFd]
            /\ alive' = [alive EXCEPT ![s] = FALSE]
       ELSE UNCHANGED <<createClientDeque, clientMap, sock, alive>>
    /\ UNCHANGED <<netIO, serverVars, taskQueue>>

\* One round of closeInvalidWorkSession: whatever session m_allWorkSessionMap
\* holds for the number is destroyed, and the number leaves epoll.
CloseInvalidWorkSession ==
    /\ phase = "close" /\ invalid # <<>>
    /\ LET f == Head(invalid)
           s == allWork[f]
       IN /\ CASE s = NoSession    -> UNCHANGED <<serverVars, clientVars, taskQueue, sock, alive>>
               [] s \in serverObj  -> DestroyServerSession(s)
               [] s \in clientObj  -> DestroyClientSession(s)
          /\ allWork' = [allWork EXCEPT ![f] = NoSession]
          /\ epoll' = {t \in epoll : sock[t] # f /\ sock'[t] # NoFd}
    /\ invalid' = Tail(invalid)
    /\ UNCHANGED <<phase, poolVars, ready>>

EndClose ==
    /\ phase = "close" /\ invalid = <<>>
    /\ phase' = "gc"
    /\ UNCHANGED <<poolVars, serverVars, clientVars, ioVars, ready, taskQueue>>

\* updateReleaseSessionMap: SOCKET_GC_TIMEOUT has passed for s.
ReleaseTimeout(s) ==
    /\ phase = "gc" /\ s \in releaseMap
    /\ releaseMap' = releaseMap \ {s}
    /\ createServerDeque' = Append(createServerDeque, s)
    /\ spareNum' = spareNum + 1
    /\ sock' = [sock EXCEPT ![s] = NoFd]
    /\ alive' = [alive EXCEPT ![s] = FALSE]
    /\ epoll' = epoll \ {s}
    /\ UNCHANGED <<phase, poolVars, prep, serverMap, aliveNum, clientVars, allWork,
                   invalid, ready, taskQueue>>

EndGc ==
    /\ phase = "gc"
    /\ phase' = "wait"
    /\ UNCHANGED <<poolVars, serverVars, clientVars, ioVars, ready, taskQueue>>

-----------------------------------------------------------------------------
(* NDLinuxEpoll::run: epoll_wait's answer is taken once, then each session *)
(* of it reads.                                                            *)

EpollWait ==
    /\ phase = "wait"
    /\ ready' \in SUBSET epoll
    /\ phase' = "event"
    /\ UNCHANGED <<poolVars, serverVars, clientVars, ioVars, taskQueue>>

\* NDSession::handleRead: some packets are complete, and the peer may have
\* closed, or sent what parsePacket refuses.  (A recv() error only shuts the
\* send direction: n = 0 and stays.)
HandleRead(s, n, closes) ==
    /\ phase = "event" /\ s \in ready
    /\ ready' = ready \ {s}
    /\ IF alive[s]
       THEN /\ taskQueue' = taskQueue \o [i \in 1..n |-> Request(s)]
            /\ IF closes THEN Close(s) ELSE UNCHANGED ioVars
       ELSE UNCHANGED <<taskQueue, ioVars>>
    /\ UNCHANGED <<phase, poolVars, serverVars, clientVars>>

EndEvent ==
    /\ phase = "event" /\ ready = {}
    /\ phase' = "task"
    /\ UNCHANGED <<poolVars, serverVars, clientVars, ioVars, ready, taskQueue>>

-----------------------------------------------------------------------------
(* NDServerTask::taskProcess drains the queue; NDLocalServer::run follows. *)

DisposeMessage ==
    /\ phase = "task" /\ taskQueue # <<>>
    /\ taskQueue' = Tail(taskQueue)
    /\ UNCHANGED <<phase, poolVars, serverVars, clientVars, ioVars, ready>>

\* A handler or a timer calls NDServerManager::disConnectClient.
DisConnectClient(s) ==
    /\ phase \in {"task", "run"}
    /\ s \in serverMap /\ alive[s]
    /\ Close(s)
    /\ UNCHANGED <<phase, poolVars, serverVars, clientVars, ready, taskQueue>>

\* Mutant of EndTask: taskProcess leaves messages for the next iteration.
EndTaskEarly ==
    /\ phase = "task"
    /\ phase' = "run"
    /\ UNCHANGED <<poolVars, serverVars, clientVars, ioVars, ready, taskQueue>>

EndTask ==
    /\ phase = "task" /\ taskQueue = <<>>
    /\ phase' = "run"
    /\ UNCHANGED <<poolVars, serverVars, clientVars, ioVars, ready, taskQueue>>

\* Mutant of EndRun: the connections are not checked before they are renewed.
EndRunUnchecked ==
    /\ phase = "run"
    /\ phase' = "check"
    /\ UNCHANGED <<poolVars, serverVars, clientVars, ioVars, ready, taskQueue>>

\* The loop comes round: checkAllConnectServerState makes every NDClientNetIO
\* whose session is no longer alive let go of it, before any reconnects.
EndRun ==
    /\ phase = "run"
    /\ phase' = "check"
    /\ netIO' = {s \in netIO : alive[s]}
    /\ UNCHANGED <<poolVars, serverVars, createClientDeque, clientMap, ioVars, ready,
                   taskQueue>>

-----------------------------------------------------------------------------
ClientStep ==
    \E s \in ID :
        \/ \E f \in Fd :
            \/ ClientConnect(s, f)
            \/ \E live \in BOOLEAN : ClientConnectFail(s, f, live)
            \/ ClientConnectUnwatched(s, f)
        \/ ClientDisConnect(s)

AcceptStep ==
    \E s \in ID :
        \/ \E f \in Fd : AcceptServerSession(s, f)
        \/ AcceptNone(s)
        \/ AcceptInitFail(s)

ReadStep ==
    \E s \in ID, n \in 0..MaxPackets, closes \in BOOLEAN : HandleRead(s, n, closes)

Next ==
    \/ ClientStep \/ EndCheck
    \/ CreateServerSession \/ AcceptStep \/ EndAccept
    \/ (\E s \in ID : PingTimeout(s)) \/ EndTimer
    \/ CloseInvalidWorkSession \/ EndClose
    \/ (\E s \in ID : ReleaseTimeout(s)) \/ EndGc
    \/ EpollWait \/ ReadStep \/ EndEvent
    \/ DisposeMessage \/ (\E s \in ID : DisConnectClient(s)) \/ EndTask
    \/ EndRun

\* The loop is one thread that is never blocked: each of its calls returns.
\* The backlog of broken connections is finite, so accept comes to an end.
LoopStep ==
    \/ EndCheck \/ AcceptStep \/ EndTimer \/ CloseInvalidWorkSession \/ EndClose
    \/ EndGc \/ EpollWait \/ ReadStep \/ EndEvent \/ DisposeMessage \/ EndTask
    \/ EndRun

Fairness == WF_vars(LoopStep) /\ SF_vars(EndAccept)

Spec     == Init /\ [][Next]_vars
FairSpec == Spec /\ Fairness

-----------------------------------------------------------------------------
(* Properties. *)

\* Every variable keeps its type.
TypeOK ==
    /\ phase \in Phases
    /\ generateID \in 0..MaxID
    /\ serverObj \in SUBSET ID /\ clientObj \in SUBSET ID
    /\ createNum \in Nat /\ spareNum \in Nat /\ aliveNum \in Nat
    /\ createServerDeque \in Seq(ID) /\ createClientDeque \in Seq(ID)
    /\ prep \in SUBSET ID /\ serverMap \in SUBSET ID
    /\ releaseMap \in SUBSET ID /\ clientMap \in SUBSET ID /\ netIO \in SUBSET ID
    /\ sock \in [ID -> Fd \cup {NoFd}]
    /\ alive \in [ID -> BOOLEAN]
    /\ allWork \in [Fd -> ID \cup {NoSession}]
    /\ invalid \in Seq(Fd)
    /\ epoll \in SUBSET ID /\ ready \in SUBSET ID
    /\ taskQueue \in Seq(Message)

\* An NDClientNetIO never points at a session that has gone back to the deque,
\* where another connect() would take it: two servers would share a connection.
HeldSessionsNotSpare == netIO \cap Range(createClientDeque) = {}

\* A server session object is in exactly one of the four containers of
\* NDSessionManagerImpl (once, if it is a deque): none is lost, none is in use
\* twice, whatever the order of accepts, closes, timeouts and failures.
ServerSessionsPartitioned ==
    /\ serverObj = Range(createServerDeque) \cup prep \cup serverMap \cup releaseMap
    /\ IsInjective(createServerDeque)
    /\ Range(createServerDeque) \cap (prep \cup serverMap \cup releaseMap) = {}
    /\ prep \cap (serverMap \cup releaseMap) = {}
    /\ serverMap \cap releaseMap = {}

\* Client session objects are never in use twice either, and no object is a
\* server's and a client's.  (One whose connect() failed is in neither place.)
ClientSessionsDisjoint ==
    /\ Range(createClientDeque) \cup clientMap \subseteq clientObj
    /\ IsInjective(createClientDeque)
    /\ Range(createClientDeque) \cap clientMap = {}
    /\ serverObj \cap clientObj = {}

\* m_nSpareNum ("can use number") is what createServerSessionDeque trusts
\* instead of empty(); m_nAliveNum and m_nCreateNum count the map and the
\* objects.  They are maintained in five places.
CountersAgree ==
    /\ spareNum = Len(createServerDeque)
    /\ aliveNum = Cardinality(serverMap)
    /\ createNum = Cardinality(serverObj)

\* A handler that looks up the session of a queued request finds it in the map
\* still, and a session that is in service has no disconnect notice waiting:
\* notices of an earlier connection never reach the next user of the ID.
MessagesMatchSessions ==
    \A m \in Range(taskQueue) :
        IF m.kind = "request" THEN m.id \in serverMap \cup clientMap
                              ELSE m.id \notin serverMap \cup prep

\* Nothing of a connection is left in or refers to s: no socket, no epoll
\* registration, no m_allWorkSessionMap entry.
Clean(s) ==
    /\ ~alive[s] /\ sock[s] = NoFd /\ s \notin epoll
    /\ \A f \in Fd : allWork[f] # s

\* A session that waits to be used carries nothing over from the connection it
\* served before.
SpareSessionsClean ==
    \A s \in Range(createServerDeque) \cup prep \cup Range(createClientDeque) : Clean(s)

\* No two sessions share a descriptor, and epoll only reports sessions that
\* are alive, so run() never reads on behalf of a closed one.
DescriptorsOwned ==
    /\ \A s, t \in ID : sock[s] = sock[t] /\ sock[s] # NoFd => s = t
    /\ \A s \in ID : alive[s] => sock[s] # NoFd
    /\ \A s \in epoll : alive[s]
    /\ ready \subseteq serverMap \cup clientMap

\* m_allWorkSessionMap is the "client and server session map; (key : SOCKET)":
\* a live session in use is found there under its socket, and epoll watches it.
WorkSessionsWatched ==
    \A s \in serverMap \cup clientMap :
        alive[s] => /\ allWork[sock[s]] = s
                    /\ s \in epoll

\* handleClose marks a session invalid so that closeInvalidWorkSession removes
\* it: a closed session that is still in use is found from a queued number.
ClosedSessionsQueued ==
    \A s \in serverMap \cup clientMap :
        ~alive[s] => \E i \in 1..Len(invalid) : allWork[invalid[i]] = s

-----------------------------------------------------------------------------
(* The inductive invariant of SessionManagerProofs. *)

\* Only IDs m_generateID has reached belong to session objects.
IDsAllocated == serverObj \cup clientObj \subseteq 1..generateID

\* A live session has a socket, and m_allWorkSessionMap holds session objects.
SocketsHeld ==
    /\ \A s \in ID : alive[s] => sock[s] # NoFd
    /\ \A f \in Fd : allWork[f] # NoSession => allWork[f] \in serverObj \cup clientObj

\* The part about containers and counters is inductive by itself.
PoolInv ==
    /\ TypeOK
    /\ IDsAllocated
    /\ SocketsHeld
    /\ ServerSessionsPartitioned
    /\ ClientSessionsDisjoint
    /\ CountersAgree

\* What mainLoop's order gives: accept prepares one session at a time and leaves
\* none behind, the queue is empty when connections are opened, holds nothing but notices while
\* sessions are destroyed, and epoll's answer is used up at once.
LoopOrder ==
    /\ \A s, t \in prep : s = t
    /\ phase # "accept" => prep = {}
    /\ phase \in {"check", "accept", "timer", "run"} => taskQueue = <<>>
    /\ phase \in {"close", "gc", "wait"} =>
           \A m \in Range(taskQueue) : m.kind = "disconnect"
    /\ phase # "event" => ready = {}

\* m_allWorkSessionMap has one entry at most for a session, which is in use,
\* and at its own socket if that is open; epoll watches sessions in use only.
WorkEntries ==
    /\ \A f, g \in Fd : allWork[f] = allWork[g] /\ allWork[f] # NoSession => f = g
    /\ \A f \in Fd : allWork[f] # NoSession =>
           /\ allWork[f] \in serverMap \cup clientMap
           /\ alive[allWork[f]] => sock[allWork[f]] = f
    /\ epoll \subseteq serverMap \cup clientMap

\* An ID no object has yet is as clean as a spare session.
UnallocatedClean == \A s \in ID \ (serverObj \cup clientObj) : Clean(s)

IInv ==
    /\ PoolInv
    /\ LoopOrder
    /\ WorkEntries
    /\ UnallocatedClean
    /\ SpareSessionsClean
    /\ DescriptorsOwned
    /\ MessagesMatchSessions

(* What numbers given out early can do, and what they cannot.              *)

\* The sessions that serve a connection.
InUse == serverMap \cup clientMap

\* While it lives, s is found under its socket, is watched, and no earlier close of
\* the same number waits; once closed, it is found from a queued number.
Found(s) ==
    IF alive[s] THEN /\ allWork[sock[s]] = s /\ s \in epoll
                     /\ sock[s] \notin Range(invalid)
                ELSE \E f \in Range(invalid) : allWork[f] = s

\* closeInvalidWorkSession destroys s although nobody closed it.
DestroysLive(s) ==
    /\ CloseInvalidWorkSession
    /\ s = allWork[Head(invalid)] /\ s # NoSession /\ alive[s]

\* A connection starts found, but for one case: the kernel gave it a number that
\* waits in m_invalidSessionDeque (addWorkServerSession, addWorkClientSession).
StartsFound ==
    \A s \in InUse' \ InUse : Found(s)' \/ sock'[s] \in Range(invalid)

\* Once found, a session stays found, closed or not, until it is destroyed.
StaysFound ==
    \A s \in InUse : Found(s) => s \notin InUse' \/ Found(s)'

\* A live session is destroyed only after it started on a queued number.
DestroysUnfound ==
    \A s \in ID : DestroysLive(s) => s \in InUse /\ ~Found(s)

\* A session that an NDClientNetIO holds comes into the deque, where another
\* connect() takes it, only when it is destroyed alive.
HeldGivenBack ==
    \A s \in netIO' \cap Range(createClientDeque') :
        s \in Range(createClientDeque) \/ DestroysLive(s)

\* What m_allWorkSessionMap still holds of a closed session has a queued number.
EntriesQueued ==
    \A f \in Fd : allWork[f] # NoSession => alive[allWork[f]] \/ f \in Range(invalid)

\* What the NDClientNetIOs hold are client sessions, all of them alive from the
\* time the connections were checked until numbers are closed, and from then to
\* epoll's next answer those that are still in the map.
HeldSessionsChecked ==
    /\ netIO \subseteq clientObj
    /\ phase \in {"check", "accept", "timer"} => \A s \in netIO : alive[s]
    /\ phase \in {"close", "gc", "wait"} => \A s \in netIO \cap clientMap : alive[s]

\* The ends that are announced are those of server sessions.
NoticesOfServers ==
    \A m \in Range(taskQueue) : m.kind = "disconnect" => m.id \in serverObj

ReuseInv == EntriesQueued /\ HeldSessionsChecked /\ NoticesOfServers
=============================================================================
