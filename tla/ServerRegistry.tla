--------------------------- MODULE ServerRegistry ---------------------------
(***************************************************************************)
(* The servers that are connected to a server, as its message handlers     *)
(* know them: each NDRemoteServerManager maps a session ID to the server   *)
(* that registered on it.  The world server has one for rooms and one for  *)
(* games, the game server one for rooms and one for gateways, the others   *)
(* one.  Sessions and messages are those of ConnectionService; the other   *)
(* servers connect, register, break down and connect again.                *)
(***************************************************************************)
EXTENDS Integers, Sequences, FiniteSets, FiniteSetsExt, Functions

CONSTANTS
    ID,             \* session IDs
    Peer,           \* the servers that connect to this one, by their server IDs
    Types,          \* the types of server that have a registry here, in the order
                    \* in which the disconnect handler asks the registries
    TypeOf,         \* the type of each peer
    None,
    MaxPackets,     \* bound: packets read at a time
    MaxWaiting      \* bound: messages of one session in the queue

ASSUME RegistryAssumption ==
    /\ ID \subseteq Nat
    /\ Types \in Seq(STRING) /\ IsInjective(Types)
    /\ TypeOf \in [Peer -> Range(Types)]
    /\ None \notin Peer /\ None \notin ID
    /\ MaxPackets \in Nat \ {0} /\ MaxWaiting \in Nat

VARIABLES
    conn, inbox,    \* see ConnectionService
    link,           \* the session of each peer's NDClientNetIO, as the peer knows it
    dialer,         \* who opened a session, until its end is processed; None for
                    \* a session of this server's own
    received,       \* the sessions with m_nRecvPacketNum > 0
    typed,          \* the sessions whose registration was processed: it sets m_nProtocolType
    remote          \* m_remoteServerMap of each type: a server, or None, by session ID

Service == INSTANCE ConnectionService

registries == <<typed, remote>>
vars       == <<conn, inbox, link, dialer, received, registries>>

Init ==
    /\ Service!Init
    /\ link = [p \in Peer |-> None]
    /\ dialer = [s \in ID |-> None]
    /\ received = {} /\ typed = {}
    /\ remote = [t \in Range(Types) |-> [s \in ID |-> None]]

WaitingOf(s) == Cardinality({i \in DOMAIN inbox : inbox[i].id = s})

-----------------------------------------------------------------------------
(* The other servers, and the session layer. *)

\* connectServerDisponse of the peer; its connected() sends the registration as
\* the first packet.
Dial(p) ==
    /\ link[p] = None
    /\ \E s \in ID :
        /\ Service!Open(s, "open")
        /\ link' = [link EXCEPT ![p] = s]
        /\ dialer' = [dialer EXCEPT ![s] = p]
    /\ UNCHANGED <<received, registries>>

\* The peer's end breaks, or the peer has died and starts again; its server
\* manager knows that, and this server does not.
Lose(p) ==
    /\ link[p] # None
    /\ link' = [link EXCEPT ![p] = None]
    /\ UNCHANGED <<conn, inbox, dialer, received, registries>>

\* This server connects to one of its own.
DialOut(s) ==
    /\ Service!Open(s, "outgoing")
    /\ UNCHANGED <<link, dialer, received, registries>>

\* handleRead: after a session's first packets, others are taken only when its
\* protocol type is set; otherwise the connection is closed.
Read(s) ==
    /\ conn[s] = "open" /\ WaitingOf(s) < MaxWaiting
    /\ IF s \in received /\ s \notin typed
       THEN Service!Receive(s, 0, TRUE)
       ELSE \E n \in 1..MaxPackets : Service!Receive(s, n, FALSE)
    /\ received' = received \cup {s}
    /\ UNCHANGED <<link, dialer, registries>>

\* The answers of the servers that this one is connected to.
ReadAnswers(s) ==
    /\ conn[s] = "outgoing" /\ WaitingOf(s) < MaxWaiting
    /\ Service!Receive(s, 1, FALSE)
    /\ UNCHANGED <<link, dialer, received, registries>>

\* The end is read, the ping is late, or the connection fails.
Close(s) == Service!Close(s) /\ UNCHANGED <<link, dialer, received, registries>>

\* releaseServerSession clears the session.
Announce(s) ==
    /\ Service!Announce(s)
    /\ received' = received \ {s}
    /\ UNCHANGED <<link, dialer, registries>>

Recycle(s) == Service!Recycle(s) /\ UNCHANGED <<link, dialer, received, registries>>

-----------------------------------------------------------------------------
(* The message handlers. *)

\* insert() keeps an entry that is there.
AddRemoteServer(s, p) ==
    remote' = [remote EXCEPT ![TypeOf[p]][s] = IF @ = None THEN p ELSE @]

\* Mutant of RegisterReqDispose: the session is stored as the server ID.
RegisterSession(s) ==
    /\ s \notin typed /\ dialer[s] # None
    /\ typed' = typed \cup {s}
    /\ remote' = [remote EXCEPT ![TypeOf[dialer[s]]][s] = s]

\* The first message of a peer registers it.
RegisterReqDispose(s) ==
    /\ s \notin typed /\ dialer[s] # None
    /\ typed' = typed \cup {s}
    /\ AddRemoteServer(s, dialer[s])

\* Pings are answered, and so are the later requests; answers to this server's own
\* requests are logged.
OtherDispose(s) ==
    /\ s \in typed \/ dialer[s] = None
    /\ UNCHANGED registries

Holders(s) == {i \in DOMAIN Types : remote[Types[i]][s] # None}

\* Mutant of DisconnectNotifyDispose: only the first registry is asked.
DisconnectFirst(s) ==
    /\ remote' = [remote EXCEPT ![Types[1]][s] = None]
    /\ typed' = typed \ {s}

\* Mutant of DisconnectNotifyDispose: every entry of the server that is offline goes.
DisconnectServer(s) ==
    /\ remote' = [t \in Range(Types) |-> [x \in ID |->
                      IF remote[t][x] = dialer[s] THEN None ELSE remote[t][x]]]
    /\ typed' = typed \ {s}

\* disconnectNotifyCommonDispose for one registry after the other, until one has
\* the session; when none has, disconnectNotifyCommonErrorDispose logs it.
DisconnectNotifyDispose(s) ==
    /\ remote' = IF Holders(s) = {} THEN remote
                 ELSE [remote EXCEPT ![Types[Min(Holders(s))]][s] = None]
    /\ typed' = typed \ {s}

\* The notice is the last message of its session: who opened it is forgotten.
Process ==
    /\ Service!Deliver
    /\ LET s == Head(inbox).id
       IN  IF Head(inbox) = Service!Disconnect(s)
           THEN /\ DisconnectNotifyDispose(s)
                /\ dialer' = [dialer EXCEPT ![s] = None]
           ELSE /\ RegisterReqDispose(s) \/ OtherDispose(s)
                /\ UNCHANGED dialer
    /\ UNCHANGED <<link, received>>

-----------------------------------------------------------------------------
Next ==
    \/ Process
    \/ \E p \in Peer : Dial(p) \/ Lose(p)
    \/ \E s \in ID :
        \/ DialOut(s) \/ Read(s) \/ ReadAnswers(s)
        \/ Close(s) \/ Announce(s) \/ Recycle(s)

Spec == Init /\ [][Next]_vars

\* The peer that opened the session no longer uses it.
Left(s) == conn[s] = "open" /\ link[dialer[s]] # s

\* The main loop goes on: what arrives is read and processed, and ends are
\* announced.  A session whose peer has left is closed, at the latest when it
\* has not pinged for long enough.
Fairness ==
    /\ WF_vars(Process)
    /\ \A s \in ID :
        /\ WF_vars(Read(s)) /\ WF_vars(Announce(s))
        /\ WF_vars(Left(s) /\ Close(s))

LiveSpec == Spec /\ Fairness

-----------------------------------------------------------------------------
\* Types of all variables.
TypeOK ==
    /\ conn \in [ID -> Service!States]
    /\ inbox \in Seq({Service!Request(s) : s \in ID} \cup {Service!Disconnect(s) : s \in ID})
    /\ link \in [Peer -> ID \cup {None}]
    /\ dialer \in [ID -> Peer \cup {None}]
    /\ received \in SUBSET ID /\ typed \in SUBSET ID
    /\ remote \in [Range(Types) -> [ID -> Peer \cup {None}]]

\* A registry knows a session only as the server that opened it, under that
\* server's type, and only while it is connected or its end is still to be
\* processed: an entry that outlived that would be taken for the next server,
\* or for this server's own connection, that gets the ID.
EntriesOwned ==
    \A t \in Range(Types), s \in ID :
        remote[t][s] # None =>
            /\ remote[t][s] = dialer[s] /\ TypeOf[dialer[s]] = t
            /\ conn[s] \in {"open", "closed"} \/ Service!Disconnect(s) \in Range(inbox)

\* addRemoteServer never refuses: when a registration is processed its session
\* is in no registry.  (The handlers do not look at its result, and would leak
\* the new entry and keep the old one.)
RegistrationsTaken ==
    \A i \in DOMAIN inbox :
        LET s == inbox[i].id
        IN  inbox[i] = Service!Request(s) /\ dialer[s] # None /\ s \notin typed
                => Holders(s) = {}

\* A server stays registered as long as its connection is up, whatever happens
\* to the connections it had before.
ConnectedStay ==
    [][\A t \in Range(Types), s \in ID :
        remote[t][s] # None /\ conn[s] = "open" => remote'[t][s] = remote[t][s]]_vars

\* getRemoteServerInfoByServerID: the first in the order of the map's keys.
SessionsOf(p) == {s \in ID : remote[TypeOf[p]][s] = p}
RemoteSession(p) == IF SessionsOf(p) = {} THEN None ELSE Min(SessionsOf(p))

\* A server that reconnects, perhaps before the end of its last connection was
\* noticed, is in the end found under its server ID by the connection it has:
\* then messages go to it and not to the dead session.
FoundAgain ==
    \A p \in Peer, s \in ID :
        <>[](link[p] = s /\ dialer[s] = p /\ conn[s] = "open") => <>[](RemoteSession(p) = s)
-----------------------------------------------------------------------------
(* The inductive invariant of ServerRegistryProofs. *)

\* The end of a connection is announced after it, and before its ID is used again.
NoticesFinal ==
    \A s \in ID : Service!Disconnect(s) \in Range(inbox) => conn[s] \in {"ended", "spare"}

\* A session has an owner from its opening until its end is processed.
DialersKnown ==
    \A s \in ID :
        /\ conn[s] \in {"open", "closed"} => dialer[s] # None
        /\ dialer[s] # None =>
               conn[s] \in {"open", "closed"} \/ Service!Disconnect(s) \in Range(inbox)

\* Only the registration puts a session into a registry, and it sets its type.
RegisteredTyped ==
    \A s \in ID :
        /\ s \in typed => dialer[s] # None
        /\ s \notin typed => \A t \in Range(Types) : remote[t][s] = None

IInv == TypeOK /\ EntriesOwned /\ NoticesFinal /\ DialersKnown /\ RegisteredTyped
=============================================================================
