--------------------------- MODULE ServerManager ---------------------------
(***************************************************************************)
(* The connections a server process opens to other servers:                *)
(* NDServerManager's table of target servers (m_connServerTable), its      *)
(* NDClientNetIO instances (m_connServerInstance) and the part of mainLoop *)
(* that finds broken connections and renews them.  The sessions underneath *)
(* are a ClientPool, as SessionManager implements it.                      *)
(*                                                                         *)
(* A server is its index in the table.  An NDClientNetIO is where it is in *)
(* m_connServerInstance: outside connect() it holds the session whose ID   *)
(* is its key, or none.                                                    *)
(***************************************************************************)
EXTENDS ClientPool, FiniteSets

CONSTANTS
    NumServers,     \* entries of m_connServerTable
    ConnectFails,   \* may a connect() of mainLoop fail?
    MaxLost         \* bound: IDs that failed or stray connects use up

ASSUME ServerAssumption == NumServers \in Nat \ {0} /\ ConnectFails \in BOOLEAN /\ MaxLost \in Nat

Server == 1..NumServers
None   == 0             \* ND_INVALID_ID

VARIABLES
    phase,      \* where startServer or mainLoop is
    cursor,     \* the table entry the connecting loop is at
    state,      \* server -> m_eConnState
    sess,       \* server -> m_nSessionID
    instance,   \* m_connServerInstance: session ID -> "none", or an NDClientNetIO
                \* that is "held" by the session, or "idle" (m_pClientSession NULL)
    stray       \* connections that epoll refused: only their NDClientNetIO has them

tableVars == <<state, sess, instance>>
vars      == <<poolVars, phase, cursor, tableVars, stray>>

Init ==
    /\ PoolInit
    /\ phase = "start" /\ cursor = 1
    /\ state = [v \in Server |-> "Initial"]
    /\ sess = [v \in Server |-> None]
    /\ instance = [s \in ID |-> "none"]
    /\ stray = {}

\* IDs that left the pool for good.  (bound)
Lost == {s \in 1..generateID : s \notin open \cup closing /\ \A i \in 1..Len(spare) : spare[i] # s}
MayLose == Cardinality(Lost) < MaxLost

Alive == open \cup stray

\* isConnected()
Connected(k) == instance[k] = "held" /\ k \in Alive

\* Mutant of Disconnected: the session ID is not compared.
DisconnectedEvery(K) == [v \in Server |-> IF K # {} THEN "DisConnected" ELSE state[v]]

\* setConnServerDisconnectState: the first entry of the table with the ID.
Holders(k) == {v \in Server : sess[v] = k}
First(k) == CHOOSE v \in Holders(k) : \A w \in Holders(k) : v <= w
Disconnected(K) ==
    [v \in Server |-> IF \E k \in K : Holders(k) # {} /\ v = First(k)
                      THEN "DisConnected" ELSE state[v]]

-----------------------------------------------------------------------------
(* connectServerDisponse *)

\* The NDClientNetIO that removeConnServerClientNetIO finds for v, if any.
Taken(v) ==
    IF /\ state[v] = "DisConnected"
       /\ sess[v] # None
       /\ instance[sess[v]] # "none"
    THEN sess[v] ELSE None

\* Its session, which connect(), or the destructor, closes if it is alive.
Old(v) == {k \in Alive : k = Taken(v) /\ instance[k] = "held"}

Due(v) ==
    /\ phase \in {"start", "reconnect"}
    /\ v = cursor
    /\ state[v] \in {"Initial", "DisConnected"}

\* Mutant of Advance: the loop does not start again from the beginning.
AdvancePast ==
    /\ cursor' = cursor + 1
    /\ phase' = IF cursor < NumServers THEN phase ELSE "check"

Advance ==
    /\ cursor' = (cursor % NumServers) + 1
    /\ phase' = IF cursor < NumServers THEN phase
                ELSE IF phase = "start" /\ \E v \in Server : state'[v] # "Connected"
                     THEN "failed"      \* startServer returns NDFalse
                     ELSE IF phase = "start" THEN "check" ELSE "close"

\* Mutant of Removed: the instance is found but not erased.
RemovedKept(v) == instance

\* m_connServerInstance without the NDClientNetIO taken.
Removed(v) == IF Taken(v) = None THEN instance ELSE [instance EXCEPT ![Taken(v)] = "none"]

\* connect() succeeds with session s, which epoll watches or not.  insert()
\* would keep an instance that is there already.
Connect(v, s, watched) ==
    /\ Due(v)
    /\ watched \/ MayLose
    /\ Take(s)
    /\ open' = (open \ Old(v)) \cup (IF watched THEN {s} ELSE {})
    /\ stray' = (stray \ Old(v)) \cup (IF watched THEN {} ELSE {s})
    /\ closing' = closing \cup (Old(v) \cap open)
    /\ state' = [state EXCEPT ![v] = "Connected"]
    /\ sess' = [sess EXCEPT ![v] = s]
    /\ instance' = IF Removed(v)[s] = "none" THEN [Removed(v) EXCEPT ![s] = "held"] ELSE Removed(v)
    /\ Advance

\* connect() fails: the NDClientNetIO is deleted, the session ID is lost, and
\* the entry keeps its state and its old session ID.
ConnectError(v, s) ==
    /\ Due(v)
    /\ phase = "start" \/ ConnectFails
    /\ MayLose
    /\ Take(s)
    /\ open' = open \ Old(v)
    /\ stray' = stray \ Old(v)
    /\ closing' = closing \cup (Old(v) \cap open)
    /\ instance' = Removed(v)
    /\ UNCHANGED <<state, sess>>
    /\ Advance

SkipConnected(v) ==
    /\ phase = "reconnect" /\ v = cursor
    /\ state[v] = "Connected"
    /\ UNCHANGED <<poolVars, tableVars, stray>>
    /\ Advance

-----------------------------------------------------------------------------
(* The rest of mainLoop. *)

\* Mutant of CheckAllConnectServerState: the table is believed.
CheckTableOnly ==
    /\ phase = "check"
    /\ phase' = IF \A v \in Server : state[v] = "Connected" THEN "close" ELSE "reconnect"
    /\ UNCHANGED <<poolVars, cursor, tableVars, stray>>

\* checkAllConnectServerState looks at all the instances, and asks for
\* reconnectServer when an entry of the table is not connected.
CheckAllConnectServerState ==
    /\ phase = "check"
    /\ LET broken == {k \in ID : instance[k] # "none" /\ ~Connected(k)}
       IN /\ instance' = [k \in ID |-> IF k \in broken THEN "idle" ELSE instance[k]]
          /\ state' = Disconnected(broken)
    /\ phase' = IF \A v \in Server : state'[v] = "Connected" THEN "close" ELSE "reconnect"
    /\ UNCHANGED <<poolVars, cursor, sess, stray>>

\* closeInvalidWorkSession returns the IDs of closed connections.
CloseInvalid(s) ==
    /\ phase = "close"
    /\ RecycleSession(s)
    /\ UNCHANGED <<phase, cursor, tableVars, stray>>

EndClose ==
    /\ phase = "close" /\ closing = {}
    /\ phase' = "event"
    /\ UNCHANGED <<poolVars, cursor, tableVars, stray>>

\* eventLoop: some peers have closed, or sent what is refused.
EventLoop(S) ==
    /\ phase = "event"
    /\ CloseSessions(S)
    /\ phase' = "task"
    /\ UNCHANGED <<cursor, tableVars, stray>>

\* A handler sends to the server with session ID k, which is not connected.
SendToServer(k) ==
    /\ phase = "task"
    /\ instance[k] # "none" /\ ~Connected(k)
    /\ instance' = [instance EXCEPT ![k] = "idle"]
    /\ state' = Disconnected({k})
    /\ UNCHANGED <<poolVars, phase, cursor, sess, stray>>

\* The ping timer of an NDClientNetIO finds its session closed.
PingFunction(k) ==
    /\ phase = "task"
    /\ instance[k] = "held" /\ ~Connected(k)
    /\ instance' = [instance EXCEPT ![k] = "idle"]
    /\ UNCHANGED <<poolVars, phase, cursor, state, sess, stray>>

EndTask ==
    /\ phase = "task"
    /\ phase' = "check"
    /\ UNCHANGED <<poolVars, cursor, tableVars, stray>>

\* The process ends when startServer fails.
Exit == phase = "failed" /\ UNCHANGED vars

-----------------------------------------------------------------------------
ConnectStep ==
    \E v \in Server, s \in ID :
        \/ \E watched \in BOOLEAN : Connect(v, s, watched)
        \/ ConnectError(v, s)

LoopStep ==
    \/ ConnectStep
    \/ \E v \in Server : SkipConnected(v)
    \/ CheckAllConnectServerState
    \/ \E s \in ID : CloseInvalid(s)
    \/ EndClose
    \/ \E S \in SUBSET open : EventLoop(S)
    \/ EndTask

Next ==
    \/ LoopStep
    \/ \E k \in ID : SendToServer(k) \/ PingFunction(k)
    \/ Exit

\* The loop is one thread that is never blocked.  A connect() that mainLoop
\* tries again and again does not fail forever: MaxLost bounds its failures.
Spec     == Init /\ [][Next]_vars
FairSpec == Spec /\ WF_vars(LoopStep)

-----------------------------------------------------------------------------
(* Properties. *)

TypeOK ==
    /\ generateID \in 0..MaxID /\ spare \in Seq(ID)
    /\ open \in SUBSET ID /\ closing \in SUBSET ID /\ stray \in SUBSET ID
    /\ phase \in {"start", "failed", "check", "reconnect", "close", "event", "task"}
    /\ cursor \in Server
    /\ state \in [Server -> {"Initial", "Connected", "DisConnected"}]
    /\ sess \in [Server -> ID \cup {None}]
    /\ instance \in [ID -> {"none", "held", "idle"}]

\* No live connection is orphaned: an instance holds it, and the table has it as
\* the connection of a server.
LiveConnectionsOwned ==
    \A k \in Alive :
        /\ instance[k] = "held"
        /\ \E v \in Server : state[v] = "Connected" /\ sess[v] = k

\* The pool has no ID to give that is a key of m_connServerInstance: insert()
\* always inserts, and no NDClientNetIO holds the connection of another.
KeysNotSpare == \A i \in 1..Len(spare) : instance[spare[i]] = "none"

\* Every instance is of a server of the table, where reconnectServer finds it.
InstancesListed == \A k \in ID : instance[k] # "none" => Holders(k) # {}

\* "Check the state of the connections to all other servers": afterwards the
\* entries that are Connected have a live connection.
ConnectedChecked ==
    phase \in {"close", "event"} =>
        \A v \in Server : state[v] = "Connected" => Connected(sess[v])

\* Two servers never count on the same connection.
SessionsDistinct ==
    \A v, w \in Server : /\ state[v] = "Connected" /\ state[w] = "Connected"
                         /\ sess[v] = sess[w]
                         => v = w

\* "Reconnect the broken connections": no other connection is closed.
OnlyBrokenRenewed == [][phase = "reconnect" => Alive \subseteq Alive']_vars

\* A server whose connection broke is connected again in the end.
BrokenRenewed ==
    \A v \in Server :
        (state[v] = "Connected" /\ ~Connected(sess[v]))
            ~> (state[v] = "Connected" /\ Connected(sess[v]))
-----------------------------------------------------------------------------
(* The inductive invariant of ServerManagerProofs. *)

\* The containers of the pool and the stray connections have no ID in common.
PoolDisjoint ==
    /\ \A i, j \in 1..Len(spare) : spare[i] = spare[j] => i = j
    /\ \A i \in 1..Len(spare) : spare[i] \notin open \cup closing \cup stray
    /\ open \cap closing = {} /\ open \cap stray = {} /\ closing \cap stray = {}

\* Only IDs that were given are anywhere.
IDsGiven ==
    /\ open \cup closing \cup stray \subseteq 1..generateID
    /\ \A i \in 1..Len(spare) : spare[i] <= generateID
    /\ \A v \in Server : sess[v] <= generateID

\* A broken connection with an instance was closed since the last
\* closeInvalidWorkSession, ...
BrokenClosing ==
    \A k \in ID : instance[k] # "none" /\ ~Connected(k) =>
        k \in closing /\ phase \in {"task", "check", "reconnect"}

\* ... and an entry that reconnectServer has yet to come to takes its instance.
BrokenDue ==
    phase = "reconnect" =>
        \A k \in ID : instance[k] # "none" /\ ~Connected(k) =>
            \E v \in Server : v >= cursor /\ sess[v] = k /\ state[v] = "DisConnected"

\* Outside the connecting loops the cursor is at the beginning.
CursorReset == phase \notin {"start", "reconnect"} => cursor = 1

IInv ==
    /\ TypeOK /\ PoolDisjoint /\ IDsGiven /\ CursorReset
    /\ LiveConnectionsOwned /\ InstancesListed /\ BrokenClosing /\ BrokenDue

(* What the table keeps whatever connect() of mainLoop fails. *)

\* The entry of v has a session ID of its own, with an NDClientNetIO under it.
Owns(v) ==
    /\ state[v] # "Initial"
    /\ sess[v] # None /\ instance[sess[v]] # "none"
    /\ \A w \in Server \ {v} : sess[w] # sess[v]

\* v's own reconnect fails.
ReconnectError(v) == state[v] = "DisConnected" /\ \E s \in ID : ConnectError(v, s)

\* An entry loses its session ID to nobody: it owns it until it gets another or
\* its own reconnect fails, whatever happens to the others.
OwnersKept ==
    [][\A v \in Server : Owns(v) => Owns(v)' \/ sess'[v] # sess[v] \/ ReconnectError(v)]_vars

\* A session ID that an entry gets is its own, unless an entry names it still
\* that does not own it any more.
NewIDsOwned ==
    [][\A v \in Server : sess'[v] # sess[v] =>
           Owns(v)' \/ \E w \in Server \ {v} : sess[w] = sess'[v] /\ ~ Owns(w)]_vars

\* An entry that is Connected after the check, and owns its session ID, has a
\* live connection.
OwnersChecked ==
    phase \in {"close", "event"} =>
        \A v \in Server : state[v] = "Connected" /\ Owns(v) => Connected(sess[v])

\* reconnectServer closes a live connection only through an entry that is
\* DisConnected and names the session of an entry that is Connected.
RenewsByID ==
    [][phase = "reconnect" => \A k \in Alive \ Alive' :
           /\ state[cursor] = "DisConnected" /\ sess[cursor] = k
           /\ \E w \in Server \ {cursor} : state[w] = "Connected" /\ sess[w] = k]_vars
=============================================================================
