------------------------- MODULE ConnectionService -------------------------
(***************************************************************************)
(* What the session layer promises the message handlers of a server: the   *)
(* life of each session ID as seen through the message queue.  An incoming *)
(* connection is opened on an ID about which nothing is waiting, its       *)
(* requests arrive while it is open, its end is announced once after it    *)
(* was closed and after all its requests, and only then is the ID given to *)
(* another connection.  Outgoing connections use IDs of the same space and *)
(* are not announced.                                                      *)
(***************************************************************************)
EXTENDS Integers, Sequences, Functions

CONSTANTS ID, MaxPackets

VARIABLES conn,     \* the state of each session ID
          inbox     \* the messages the handlers have not processed

vars == <<conn, inbox>>

States == {"spare", "open", "closed", "ended", "outgoing"}

Request(s)    == [kind |-> "request",    id |-> s]
Disconnect(s) == [kind |-> "disconnect", id |-> s]

Waiting(s) == \E m \in Range(inbox) : m.id = s

Become(s, state) == conn' = [conn EXCEPT ![s] = state]

Init == conn = [s \in ID |-> "spare"] /\ inbox = <<>>

\* A new incoming or outgoing connection: the ID is fresh for the handlers.
Open(s, state) ==
    /\ conn[s] = "spare" /\ ~Waiting(s)
    /\ Become(s, state)
    /\ UNCHANGED inbox

Close(s) ==
    /\ conn[s] = "open"
    /\ Become(s, "closed")
    /\ UNCHANGED inbox

\* Packets are read; the connection may be closed in the same step.
Receive(s, n, closes) ==
    /\ conn[s] \in {"open", "outgoing"}
    /\ inbox' = inbox \o [i \in 1..n |-> Request(s)]
    /\ IF closes /\ conn[s] = "open" THEN Become(s, "closed") ELSE UNCHANGED conn

\* The end of a closed incoming connection is announced.
Announce(s) ==
    /\ conn[s] = "closed"
    /\ Become(s, "ended")
    /\ inbox' = Append(inbox, Disconnect(s))

\* The ID is available again.  (The announcement may still be waiting.)
Recycle(s) ==
    /\ conn[s] \in {"ended", "outgoing"}
    /\ Become(s, "spare")
    /\ UNCHANGED inbox

Deliver ==
    /\ inbox # <<>>
    /\ inbox' = Tail(inbox)
    /\ UNCHANGED conn

Next ==
    \/ Deliver
    \/ \E s \in ID :
        \/ Open(s, "open") \/ Open(s, "outgoing")
        \/ Close(s) \/ Announce(s) \/ Recycle(s)
        \/ \E n \in 0..MaxPackets, closes \in BOOLEAN : Receive(s, n, closes)

Spec == Init /\ [][Next]_vars

\* What the handlers wait for: closed connections are announced, and what is
\* in the inbox is delivered.
Fairness == WF_vars(Deliver) /\ \A s \in ID : WF_vars(Announce(s))

LiveSpec == Spec /\ Fairness
=============================================================================
