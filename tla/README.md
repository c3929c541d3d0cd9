# A verification project for NDServerEngine

NDServerEngine is a C++ engine for clusters of game servers: login, world, game, room, data,
gateway and log server, each a process that runs the same main loop over the same session layer.
This directory holds TLA+ modules that model parts of it, the configurations under which TLC checks
them, theorems that TLAPS proves about them, and `PROJECT.json`, which names for every definition the
source lines it stands for.

Paths below are relative to the repository. The source is encoded in GBK; comments quoted from it are
translated from Chinese.

- [Inventory](#inventory): the parts of the system
- [Hazards](#hazards): what is hard to test in them
- [Modules](#modules): which module models which part, and how
- [Runs](#runs): what TLC checks, under which bounds
- [Disagreements found](#disagreements-found)
- [Fairness](#fairness) and [assumptions](#assumptions)
- [Proofs](#proofs)
- [What is not modelled](#what-is-not-modelled) and [plan](#plan)

## Inventory

| Component | Where | State | Operations | Hard about it |
|---|---|---|---|---|
| Session layer | `NDShareBase/commonImpl/net/{session,netio,process}`, `NDShareBase/linux/net/socket` | session objects in deques and maps by ID, `m_allWorkSessionMap` by socket, `m_invalidSessionDeque`, epoll's set, the message queue | accept, connect, read, close, ping timeout, release timeout, dispose | one connection's end spans four steps of the loop; objects and IDs are reused |
| Server manager | `NDServerShare/src/local/NDServerManager.cpp` | table of target servers (state, session ID), instances by session ID | connect, check, reconnect, send, ping | two tables keyed by a number that the pool reuses |
| Byte buffers, message stream | `NDShareBase/commonImpl/memory/NDByteBufferImpl.cpp`, `net/stream/NDProtocolPacket.cpp`, `net/session/NDSession.cpp` | send and receive buffer, event flags, protocol type | compose, send, write, receive, parse | packets cut anywhere; a buffer that grows and is almost circular; flags that repeat what epoll knows |
| Timer events | `NDShareBase/commonImpl/event/timerEvent` | wheels of spokes, ready list | add, disconnect, detect, cascade, fire | unsigned arithmetic on times, wheel boundaries, a loop that lags |
| Player login at the data server | `NDDataServer/src` | waiting set and queue, players, loaded queue, registry of game servers | request, load (threads), heart beat, answer, register, disconnect | threads that see each other between locks |
| Database updates, MySQL | `NDDataServer/src/main/thread/NDUpdateDBThread.cpp`, `NDShareBase/commonImpl/database` | queue per update thread, connection | put (no caller), update, reconnect | a database that is down |
| Registries of remote servers | `NDServerShare/src/remote`, `NDLoginServer/src/main/remote` | map from session ID to server | add, remove, look up | entries that outlive a connection, servers that are registered twice |
| Login, world, room, game, gateway server | `NDLoginServer` ... `NDGatewayServer` | registries, players, routes | registration handlers, routing | order of registrations, disconnects |
| Shared-memory log | `NDShareBase/common/sharememory`, `NDShareBase/commonImpl/file/NDShareMemroyLogFile.cpp`, `NDLogServer` | units of one segment, a lock in its head, arrays of pointers in each process | create, destroy, write, collect | two processes, one lock, private copies of an order that both change |
| Pools, identifiers | `NDShareBase/common/memory/object`, `NDBufferPool`, `NDDistributeID` | free lists | create, destroy | locks, limits |
| Message queue | `NDShareBase/common/memory/NDMessageQueue.h` | two deques | push, pop, exchange | waiting without a loop (not used) |
| Threads, mutexes, conditions | `NDShareBase/commonImpl/thread` | - | wrappers of pthreads | - |
| Events, functors | `NDShareBase/commonImpl/event/event` | slots by name | subscribe, fire | - |
| Configuration and log files | `NDShareBase/commonImpl/file` | - | parse, write | - |
| Utilities | `NDShareBase/commonImpl/{function,math,authentic}` | - | statistics, word filter, CRC, ... | - |
| Vendored | lua, luabridge, mysql, zlib, tinyxml, `Tool/` | | | left aside |

How they interact: every server process has one main thread in `NDServerManager::mainLoop`. In each
turn it checks its outgoing connections and renews the broken ones, accepts, runs the periodic
check of sessions (ping timeouts, then destroying closed sessions, then reusing released ones), waits
for epoll and reads (the bytes go through the receive buffer and `parsePacket` into the message
queue), drains the queue through the message handlers, and runs the server's own work with its
timers. Only the data server has threads besides it, which load and update players.

What makes each part correct is what its module's properties say; the table under *Runs* lists them.

## Hazards

`PROJECT.json` lists them at their lines; the kinds that matter here:

- *Numbers that are used again.* A socket's number, a session's ID, the ID of a server's old
  connection: three maps are keyed by numbers that something else gives out again.
- *An end in several steps.* `handleClose` closes the socket, `closeInvalidWorkSession` announces
  the end and takes the object out of service, `updateReleaseSessionMap` reuses it, all in
  different places of the loop, while messages of the connection are queued.
- *Threads between locks.* A select thread adds a player, fills it and queues it under separate
  locks; requests see the player in between.
- *Connections that break alone*, with a request or an answer under way, while both servers run on.
- *A stream cut anywhere*, in buffers that were grown to different sizes.
- *Unsigned times* whose difference is taken the wrong way round after a stall.
- *Flags that repeat* what epoll or a container knows, and must not disagree with it.
- *Connections that a server opens again* before the end of the last one was noticed: the registries
  know it by two session IDs, and this server's own connections use the same IDs.
- *An order that each process keeps for itself.* The log server sorts the units of the shared
  segment in its own array of pointers, and the servers have theirs; any of them may die.

A hazard that no property covers has a note that says why.

## Modules

| Module | Models | Uses |
|---|---|---|
| `ConnectionService` | abstract: what the session layer promises the message handlers | - |
| `ClientPool` | abstract: the client sessions as a pool of IDs | - |
| `SessionManager` | the session layer in the order of the main loop | - |
| `SessionManagerService` | that it implements `ConnectionService` and `ClientPool` | both |
| `ServerManager` | outgoing connections | `ClientPool` |
| `ByteBuffer` | `NDByteBufferImpl`, as operators on a record | - |
| `PacketChannel` | abstract: what a connection promises two processes | - |
| `MessageStream` | one direction of a connection, from `composePacket` to the message queue | `ByteBuffer`, `PacketChannel` |
| `PlayerLogin` | logins at the data server, the game servers' side included | - |
| `TimerWheel` | the timer events | - |
| `ServerRegistry` | the servers that register at a server, and its registries of them | `ConnectionService` |
| `SharedLog` | the shared memory that servers log to, and the log server that empties it | - |
| `*Proofs` | theorems about the module of the same name | `TLAPS` |
| `MC*` | symmetry sets and values for TLC | the module of the same name |

`ServerManager` is built on `ClientPool` and `ServerRegistry` on `ConnectionService`, and
`SessionManager` is shown to implement both, so they compose: what the two assume of the sessions
underneath is what the session layer does.

**SessionManager.** A session object and its ID are the same for ever, so a session is its ID. Each
container of `NDSessionManagerImpl` is a variable of its own name; `sock`, `alive` and `epoll` are
fields of the sessions; `phase` is where the main loop is. One action is one call: `Close` is
`handleClose` with everything it changes, `Watch` is `registerReadWriteEvent` with the
`std::map::insert` that keeps an old entry. Timeouts may come whenever the loop looks for them,
calls to the kernel may fail whenever they are made; `EpollWait` may return any part of what is
watched. What a session reads is a number of complete packets, and whether it closes: the bytes are
`MessageStream`'s.

**ServerManager.** A server is its index in `m_connServerTable`. An `NDClientNetIO` is an entry of
`m_connServerInstance` that is `held` by the session that is its key, or `idle`. `Connect` and
`ConnectError` are `connectServerDisponse` with `removeConnServerClientNetIO` and the `disConnect`
inside `connect`; `CheckAllConnectServerState` is the whole function. An entry `Owns` its session ID
when an `NDClientNetIO` is under it and no other entry names it; an entry whose reconnect failed does
not, and the theorems say what holds of those that do.

**ByteBuffer, MessageStream.** A buffer is capacity, head, tail and the data between. A byte is
`<<i, j>>`, the j-th byte of the i-th packet, so that every loss, repetition or confusion shows; a
header is intact when its bytes are those of one packet's header, in order, and tells that packet's
size, and otherwise tells anything. `HandleRead(n)` is the whole function: n bytes have arrived, the
buffer is grown when `getSpaceSize()` is smaller, the bytes go behind the tail, and what the end of
the block cuts off is lost. One round of `parsePacket`'s loop is `Refuse`, `Incomplete` or `Take`.
`cut` remembers that a receive has thrown bytes away, for the theorems. Check sum, compression and
encryption are what `Refuse` of a header that is not intact stands for; the bytes they add to a body
are `ExtraSize`.

**PlayerLogin.** A section under a lock is one action; everything other threads do between two
sections can happen. Data that is copied without a lock is `torn` while it is copied, and who reads
it then may see nothing, all or a part. Queries succeed or fail (`LoadFail`). The messages between
the servers are FIFO per connection. A connection breaks alone (`LoseConnection`: a ping timeout, a
failed read or send; the game server keeps its players and connects again) or with the end of the
game server (`EndServer`); either way what is under way on it is lost. The data server notices later
(`Disconnect`, which is `disconnectNotifyDispose`), and the game server may have registered again by
then: its old entry and its new one are both in `m_pGameServerManager`, and
`getRemoteServerInfoByServerID` finds the one with the smaller session ID, so that the new
connection may be `hidden` by the dead one. A handler answers the session that asked, the heart beat
the server it finds. `asked` remembers whether what a server asked for, or its answer, was lost. The
game server's side is its handlers; the caller of `sendPlayerLoginToDS` does not exist in the
repository yet, so `Login` is external.

**TimerWheel.** A timer is at `<<wheel, spoke>>`, ready or off. `Node` is `addTimerNode` with the
unsigned difference it is given, the cut to 32 bits (`Intervals` is their range in spokes) and the
choice of the wheel. The clock advances at any time.

**ServerRegistry.** The sessions and the message queue are `ConnectionService`'s. A peer is a server by
its ID; `link` is the connection it believes it has, and it may lose that, die and connect again at
any time while this server still has the old session open. `dialer` remembers who opened a session
until its end is processed, so that a registry's entry can be compared with the truth. One action is
one message through `process`: the registration with `addRemoteServer`'s `insert`, or the disconnect
notice that asks one registry after the other. The servers differ in their registries only, which
are the constant `Types`.

**SharedLog.** A unit is its place in the segment; `table` is the log server's `m_pObjs`, the servers'
stay the identity. `createObj` is three steps (the check, the lock, the rest under the lock) and so
is `destroyObj`; the log server's scan reads one unit at a time. `goal` is what a server
wants a unit for, which decides what it does with or without it (`Get`, `GetNone`). A server may
`Crash` at any step, also with the lock. The log server collects a unit that was released, and one
that looks three minutes old. The clock is left out: the unit of a dead server may look old whenever
it is scanned (`MayBeOld`), and with `HeldAge` so may any unit that a server holds -- because it logs
nothing for so long, or because it logs after the time at the top of the loop was read and the
unsigned age wraps (`NDLogServer.cpp:255`). `Log` is what may set a unit's time again after it was
collected.

## Runs

| Run | Question | Bounds |
|---|---|---|
| `sessions` | When queued numbers are not given out: does the session layer keep every object in one place, watch what is in use, announce each end once and before reuse? Does it implement `ConnectionService` (with liveness) and `ClientPool`? | 2 descriptors, 4 session objects, 2 allocated at a time, 1 packet per read; `FdReuse` FALSE |
| `sessions_reuse` | *violation*: is a session in use always found under its socket in `m_allWorkSessionMap`? | 3 descriptors; `FdReuse` TRUE |
| `servers` | When reconnects succeed: do table, instances and pool agree; are exactly the broken connections renewed? | 3 servers, 10 IDs, 1 lost ID; `ConnectFails` FALSE |
| `servers_theft` | *violation*: does `reconnectServer` leave live connections alone? | 2 servers, 3 lost IDs; `ConnectFails` TRUE |
| `stream` | Does the stream lose nothing, watch who writes, and implement `PacketChannel`? | 3 packets of bodies 2, 4, 5 and 6 with extra bytes (those of 5 bytes and more are refused by the receiver or the sender), 4 bytes under way, buffers of 4 to 24 bytes |
| `stream_cut` | *violation*: are the messages what was sent, when a burst does not fit the receive buffer? | 3 packets, 8 bytes under way, buffers of 8 |
| `login` | What do game servers get when loads fail, threads race, connections break and servers restart? | 2 players, 2 game servers, 2 threads, 1 request each, 2 registrations |
| `login_answered` | Is every login answered whose connection holds, although connections break before and after it? | 1 player, 1 game server, 2 threads, 3 requests, 2 registrations, no failing query |
| `login_incomplete` | *violation*: does `m_bRecvAllDSPlayerData` mean that the data is there? | 2 players, 2 requests each |
| `timers` | Does every event come, not early beyond the lag and not lost? | 3 wheels of 4, 2, 2 spokes, 1 timer, times up to 24, lag up to 3 |
| `registry` | Does a registry name the right server whatever reconnects, is no registration refused, no connected server dropped, and is a server found by the connection it has in the end? | a world server: 1 room server, 1 game server, 2 session IDs shared with its own connections, 2 packets per read, 2 of a session queued |
| `smlog_shared` | *violation*: is a unit of the shared segment given to one server, for one purpose? | 2 servers, 4 units; `HeldAge` FALSE |

Why the bounds are enough. Two descriptors and four objects let a server and a client session, a
closed session and its successor meet in every combination, and force both deques to be refilled
while others wait for release; a third descriptor is needed for the reuse of a queued number. Three
servers let a first, a middle and a last entry of the table break together; ten IDs let the pool
refill and hand out an ID whose number another entry remembers. Packets of 3 to 8 bytes over buffers
of 4 and 8 bytes and writes of at most 3 make every cut position, growth, move to the front and
incomplete header happen, and a body of exactly `MaxBody`; three packets let one be parsed, one wait
and one be on its way. Two threads are what a race over one player needs, and the threads have no
other relation. Timers do not act on each other (the wheels turn by time alone), so one timer is
enough; three wheels have an inner, a middle and an outermost one, and the clock goes past the range
of all of them at 16. Two peers of different types make both registries, and two session IDs let a
peer have a dead and a live session, each of which another peer or the server itself gets next. Two
registrations of a game server are what a connection and its successor need, which may meet in the
registry; three requests of a player let one be lost, one be repeated on the new connection and one
be dropped as a duplicate. Four units are two for each server: a table that is full, and a collected
unit in front of one in use.

All invariants and properties have a mutant in `PROJECT.json`: a plausible bug in one mapped
definition that violates it.

## Disagreements found

1. **`sessions_reuse`** (`NDSessionManagerImpl.cpp`): `handleClose` closes the socket before
   `closeInvalidWorkSession` erases its number from `m_allWorkSessionMap`. A connection opened in
   between can get the number, `insert` keeps the old entry, and then the new session has no entry,
   although the map is documented as that of all client and server sessions. A consequence the same
   model shows: the end of the new connection is not announced. The harm stays with that connection:
   `ConnectionsStayFound` and `LiveDestroyedUnfound` prove it.
2. **`servers_theft`** (`NDServerManager.cpp:229`): a table entry whose reconnect failed keeps its old
   session ID. When the pool gives that ID to another server's connection, the next reconnect of the
   first entry takes that connection's `NDClientNetIO` away and closes it. Likewise, an entry that
   a taken connection belongs to may stay `Connected` without one. `RenewsByIDOnly` proves that a live
   connection is closed in no other way.
3. **`stream_cut`** (`NDSession.cpp:247`): `handleRead` asks whether the bytes fit the free space,
   which counts the room in front of the head, and then appends them behind the tail. Behind an
   incomplete packet of a burst this loses bytes, whatever the capacity: the head
   returns to the front only when the buffer is emptied or grown. `StreamKept` proves that bytes are lost
   in no other way, and `CutsNeedBursts` which connections are safe from it.
4. **`login_incomplete`** (`NDGS2DSCallBack.cpp:65`): a player is visible as soon as its account row
   is loaded. A repeated request in that window is answered OK with empty data, and the game server
   marks the player complete. Also, a load that fails tells nobody, and neither does a connection that
   breaks with the request or the answer under way: the player waits until it asks again.
5. **`smlog_shared`** (`NDShareMemoryUnitManager.h:163`): `destroyObj` keeps the used units together by
   swapping two pointers, in the log server's own `m_pObjs`; the servers' arrays do not change. After a
   unit in front of another one was collected, `createObj` gives out a unit that is in use:
   a server logs to one unit twice, or two servers to the same. `tryLock`, which should "lock this
   unit", fails then, and `createObj` does not look at it. `GivenOnce`, `StrandedByDestroyOnly` and
   `ExclusiveWhileBelow` prove where every such behaviour begins: with a `destroyObj` that leaves a unit in
   use beyond the size. The private swap does that alone, as the run shows with `HeldAge` FALSE; a
   unit in use that looked old and was collected is the other way.

Known limits of the code that are not runs: after a stall longer than a periodic timer's step, the
unsigned difference at `NDTimerEventManager.cpp:157` wraps and the timer goes into the outermost wheel,
which is why `timers` bounds the lag (`MaxLag`). Without a stall an event can come early by as much as
the loop was behind, less one spoke, because `cascade` deals by the clock and not by the wheels'
own time; `EarlyBounded` states the bound. A login request or its answer that is lost with its connection
is not sent again by anybody; and while an old entry of a game server is found first, what the heart beat
sends to it goes to the dead connection (`LoginAnswered` excepts both, and a second game server that asks
for the same player). In the shared log, a server that dies with the head's lock
leaves it locked for good, and a rotation without a unit ends a server's logging.

## Fairness

- The main loop (`SessionManager`, `ServerManager`, `TimerWheel`) is one thread that is never blocked
  for ever: epoll and select wait with a timeout, sleeps are bounded, handlers return. Its steps are
  weakly fair as one disjunction, so no inner step is favoured; the things the outside world may do
  (connect, close, time out) have none. Accepting ends (`SF_vars(EndAccept)`) because `accept`
  takes at most `nMaxConnectionPer` connections in a turn.
- `MessageStream`: both processes turn their loops; epoll is level-triggered, so what is watched and
  possible is reported again. Sending and breaking are not fair.
- `ServerRegistry`: the main loop goes on: it reads what is there (`Read`), processes the queue and
  announces ends. A session whose peer has left it is closed at last, by the end of the stream or by
  `updateServerSessionMap`'s ping timeout. Peers need not connect or stay.
- `PlayerLogin`: the select threads, the main thread's loop and the game servers' loops go on, and a
  broken connection is found out by the pings (`Disconnect`). Connections need not break, and game
  servers need not ask or connect again.
- `TimerWheel`: the clock goes on, up to its bound.

## Assumptions

Each constant can be seen in a configuration; the theorems hold for every value unless they state a
hypothesis (listed under *Proofs*).

- `FdReuse`: may the kernel give a number that is still queued? POSIX gives the lowest free number, so
  the code is exposed to TRUE. `sessions` has FALSE, to ask whether anything else goes wrong in the layer,
  and `sessions_reuse` TRUE. No theorem assumes either.
- `ConnectFails`: reconnects do fail in the code. FALSE, in `servers`, separates what the server manager's
  logic gives from what a failed reconnect breaks; `servers_theft` has TRUE, and no theorem assumes
  either. `MaxLost` bounds IDs that a failed connect loses.
- `LoadsFail`: may a query fail or find nothing?
- `RegistryAssumption`: the types of the registries are distinct, every peer has one of them, session IDs
  are numbers (`std::map` orders them).
- `SharedLogAssumption`: the log server's type, the free type and the servers' own types are different
  (`NDLocalServer.cpp:161`). The theorems about `SharedLog` have it as their hypothesis.
- `HeldAge`: may a unit that a server holds look three minutes old? It may in the code; the theorems hold
  for both values, and `smlog_shared` has FALSE to show that the swap alone breaks the property.
- `MaxLag`: how far the main loop may fall behind the clock; below a periodic timer's step in `timers`.
- `Links`: capacities of the two buffers (the pool's buffers keep what they have grown to) and whether
  packets are pipelined. In `stream`, either a packet waits for the one before, or the burst fits.
- A connection's first packet is its registration or login, whose handler sets the protocol type. A
  connection that starts with a ping is refused at its second packet (`NDProtocolPacket.cpp:374`).
- Memory can be had: `malloc` and `new` do not fail.

## Proofs

All theorems hold for any number of sessions, servers, players, threads, packets, timers and wheels and
for any buffer capacities; the runs check small instances. They hold for both values of `FdReuse`,
`ConnectFails`, `LoadsFail` and `HeldAge` and for all `Links`: where the code does not keep what a run checks under
one of them, the theorem says which step alone breaks it and what holds of everything else. Three
hypotheses are left:

| Hypothesis | Theorems | Why it is needed, and what it leaves |
|---|---|---|
| `WaitsFit` | `NeverEarly` | an interval beyond the outermost wheel is cut to 32 bits; `timers` satisfies it |
| `StepsOutlastLag` | `NeverLate` | when the loop is behind by more than a timer's step, the unsigned difference wraps; `timers` satisfies it |
| `SharedLogAssumption` | those of `SharedLog` | the types of units are different |

- **SessionManagerProofs.** `IInv` has two layers. `PoolInv` (types, the partition of the session
  objects, the counters) is inductive by itself; its proof is by the container operations. The other
  parts need the order of the loop (`LoopOrder`: the queue is empty when connections open; it holds
  only notices when sessions are released), that `m_allWorkSessionMap` holds a session at most once
  (`WorkEntries`, true even when numbers are reused), and that unallocated IDs are clean.
  From it: no server session is lost or used twice, counters are right, no message reaches the next
  user of an ID, spare sessions are clean, descriptors are not shared.
  The other theorems are about numbers that are given out while they are queued, and hold with and
  without them. A session is `Found` when, live, it is under its socket in `m_allWorkSessionMap`, is watched and
  no close of its number waits, or, closed, it is under a queued number. It starts so unless the kernel
  gave it a queued number (`ConnectionsStartFound`), it stays so whatever happens to others
  (`ConnectionsStayFound`), and only one that is not is destroyed alive (`LiveDestroyedUnfound`). They
  rest on `IInv` and `ReuseInv`: entries of closed sessions have queued numbers (`EntriesQueued`), the
  outgoing connections are alive from their check until numbers are closed (`HeldSessionsChecked`), and
  notices are about server sessions. Both refinements rest on the same, with one lemma for each kind of
  action saying which step of the abstract specification it is: `Open` needs that nothing in the queue
  names a spare ID, `Receive` that a read is of a session in service, `Announce` that what is announced
  has ended. The one step that is none is the destruction of a live session (`EndsOpen`, `RecyclesOpen`).
- **ServerManagerProofs.** A session ID that is a key of the instances must not be spare
  (`KeysNotSpare`). That is not inductive: between a connection's end and its ID's return to
  the pool the check must have removed it, so `BrokenClosing` and `BrokenDue` say where broken
  instances may be at each phase, and `PoolDisjoint` and `IDsGiven` what the pool has.
  The step theorems follow from `IInv` action by action: an entry that `Owns` its session ID loses it to
  its own renewal or failure only (`EntriesKeepIDs`), a new ID is its own unless an entry without a
  connection names it (`NewConnectionsOwned`), and a live connection is closed only through an
  entry that is `DisConnected` and names the session of another, `Connected` one (`RenewsByIDOnly`), which
  `LiveConnectionsOwned` says that there is.
- **PlayerLoginProofs.** `ThreadsSound` says what a thread that is at a given step has established
  and that no other thread undoes it; from it, whatever the heart beat answers for is loaded.
  `FirstInv` follows the first login of a player through all processes: until it is asked for nobody
  knows the player, its request exists once (`AskedOnce`), every account of it anywhere is for the game
  server that asked, and in that server's queue the data precedes the answer (`AnsweredAfterData`).
  It ends with the second login, which is where `login_incomplete` begins.
- **ByteBufferProofs.** Each operation a session uses keeps a buffer in one piece, and what it does to
  the data. The lemmas are about arithmetic on head, tail and capacity.
- **MessageStreamProofs.** With those lemmas: both buffers stay in one piece, which is what
  `setReadBufSize` and `setWriteBufSize` take for granted, and a session with something to send is
  watched, by way of `FlagWatched` (the flag implies the registration). Linearity holds in the run
  `stream_cut` too: what goes wrong there is the comparison, not the shape of the buffer.
  `StreamInv` follows the bytes until one is cut off: what was parsed, what is in the receive buffer, in
  the kernels and still to come are the packets that were sent, byte for byte (`Whole`), and therefore the
  bytes at the head are the header of the packet whose turn it is, so that `Take` takes that packet's
  body. It gives `NothingLost`, `MessagesIntact` and the step of `PacketChannel` that each step is, all
  "until a receive cuts" (`cut`), for every link. `RoomAhead` bounds the tail of a pipelined link by the
  packets sent, so that a cut needs a burst that the buffer could not hold (`CutsNeedBursts`); the other
  links are never cut. `ClassifiedInTime` needs no such condition: the first packet is never cut, so the
  session has its type before anything is lost. What it needs about
  concatenations of n packets is an induction, done with sets: the numbers up to n for which a
  statement holds have a largest one (`LargestOf`), because the strict subsets of a finite set are
  well-founded.
- **TimerWheelProofs.** The wheels are an odometer: for each there is a time at which it turns next, and
  wheel w + 1 turns with the last spoke of wheel w (`Odometer`). From these times follows when a spoke
  comes up, and `SpokeOf` is shown to deal a timer to one that comes up in time (`DealtInTime`) and, for
  wheel 0, not much before (`DealtLate`); the timers of a higher wheel are dealt again by the clock,
  which is where its lead over the wheels enters. How early an event can be depends on its last deal
  only, so the bound is the lag once. `PowerAssumption` states what `Size2 ^ n` computes, for
  which the provers have no rules; TLC evaluates it.
- **ServerRegistryProofs.** Two facts about the sessions make `EntriesOwned` inductive: a connection's
  notice comes after its end and before its ID is used again (`NoticesFinal`), and a session has an
  owner from its opening until its notice is processed (`DialersKnown`). With `RegisteredTyped` (who is in
  a registry has a protocol type) it follows that registrations are never refused, and that what a
  notice removes is never a connected server.
- **SharedLogProofs.** `OneAtTheHead` needs nothing but the lock, and with it the size that was read under the
  lock is still true (`PositionsCurrent`). So a unit in use is given out again only when it lies beyond the
  size (`GivenOnce`), and it comes to lie there only in `destroyObj`, one unit at a time, the one at the last
  position (`StrandedByDestroyOnly`); until then no step makes units shared (`ExclusiveWhileBelow`).
  Units in use that the log server collects are in these theorems like any others.

Only model-checked: liveness, which is out of the prover's reach: `BrokenRenewed`, `LoginAnswered`,
`DueFires`, `FoundAgain`, and the fairness in `ImplementsService` and `ImplementsChannel`. What runs
check under a condition that the code does not guarantee is not proved under it either: for
`WorkSessionsWatched`, `ClosedSessionsQueued`, `HeldSessionsNotSpare`, `ImplementsService`,
`ImplementsPool` (`FdReuse`), `ConnectedChecked`, `SessionsDistinct` and `OnlyBrokenRenewed`
(`ConnectFails`) the theorems are the unconditional ones above, and the stated property stays with
TLC; `NothingLost` and the safety part of `ImplementsChannel` are proved up to the cut. All other
invariants and action properties of the passing runs are proved. The prover cannot do induction over
data with a library theorem; the only recursion the models need it for is `FlattenSeq`'s, where
`LargestOf` takes its place.

## What is not modelled

- Parts without a module: see *Inventory* and the notes in `PROJECT.json`. About nine tenths of the
  repository's lines are vendored libraries (lua, luabridge, mysql headers, zlib, tinyxml, the Excel
  reader of `Tool/`), build files and tests; of the engine's own code much is accessors, message classes, file
  input and output and wrappers of system calls without state of their own to get wrong.
- The data server's update threads: nothing produces an update (`setOperatorData` has no caller).
- Stopping: the database threads never stop (`isQuitDBThread` is always false), the main loop ends with
  the process.
- In the registries: the login server's player counts and the choice of a world by them, which nothing
  calls; message contents.
- In the shared log: what is logged and saved to files, creating and attaching the segment, a log
  server that starts again, the clock behind the age of units (any unit may look old, see `HeldAge`), and several threads of a server
  that log at once.
- In the session layer: ping times and statistics, exit, and the Windows build's `select()` loop (the
  Linux build defines `ND_USE_EPOLL`).
- In the stream: compression, encryption and check sums as computations; typed stream operators;
  `ReadBuffer` and `CheckBuffer` of a wrapped buffer, which no session ever has (proved).
- In the login: messages of an old connection that are parsed after its server has registered again (they
  are lost with the connection, or handled before); operator data (no caller), updates of players, start-up. Parsing a
  row fails only as `LoadFail`.
- In the timers: intervals beyond the outermost wheel (13 years).

## Plan

1. *Proofs*: a bound on a burst instead of the bound on all that is sent in `CutsNeedBursts` (the head
   returns to the front whenever the receive buffer is emptied); that a server manager's entry comes to
   own its session ID again once a connect succeeds.
2. *The shared log's threads*: `NDShareMemoryLogManager::write` rotates without a lock while several
   threads of a server log; the age of units, with a clock.
3. *The two game paths that exist*: the notice from game server to gateway at the end of a login, once
   the handlers that use the gateway's players exist.
