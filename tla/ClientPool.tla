----------------------------- MODULE ClientPool -----------------------------
(***************************************************************************)
(* The client side of NDSessionManagerImpl as its users see it: a pool of  *)
(* session IDs.  connect() takes an ID from the front of a deque that      *)
(* grows by CreateSessionNum IDs when it is empty; the ID of a connection  *)
(* that ended goes to the back, some time later.  An ID whose connect()    *)
(* failed, or that epoll refused, never comes back.                        *)
(***************************************************************************)
EXTENDS Integers, Sequences, Functions

CONSTANTS CreateSessionNum, MaxID

ASSUME PoolAssumption == CreateSessionNum \in Nat \ {0} /\ MaxID \in Nat

ID == 1..MaxID

VARIABLES
    generateID,     \* the last ID given
    spare,          \* m_createClientSessionDeque
    open,           \* connections in service
    closing         \* closed connections whose ID is not yet back

poolVars == <<generateID, spare, open, closing>>

PoolInit == generateID = 0 /\ spare = <<>> /\ open = {} /\ closing = {}

NewIDs == [i \in 1..CreateSessionNum |-> generateID + i]

\* The deque is refilled when it is empty, and popped.
Take(s) ==
    IF spare = <<>>
    THEN /\ generateID + CreateSessionNum <= MaxID
         /\ s = Head(NewIDs)
         /\ spare' = Tail(NewIDs)
         /\ generateID' = generateID + CreateSessionNum
    ELSE /\ s = Head(spare)
         /\ spare' = Tail(spare)
         /\ UNCHANGED generateID

\* connect() succeeds.
OpenSession(s) == Take(s) /\ open' = open \cup {s} /\ UNCHANGED closing

\* connect() fails, or the pool never hears of the connection.
LoseSession(s) == Take(s) /\ UNCHANGED <<open, closing>>

\* Some connections are closed, by either side.
CloseSessions(S) ==
    /\ S \subseteq open
    /\ open' = open \ S
    /\ closing' = closing \cup S
    /\ UNCHANGED <<generateID, spare>>

\* The loop finds a closed connection.
RecycleSession(s) ==
    /\ s \in closing
    /\ closing' = closing \ {s}
    /\ spare' = Append(spare, s)
    /\ UNCHANGED <<generateID, open>>

\* IDs are given to server sessions too.
ServerIDs ==
    /\ generateID' = generateID + CreateSessionNum
    /\ generateID' <= MaxID
    /\ UNCHANGED <<spare, open, closing>>

PoolNext ==
    \/ \E s \in ID : OpenSession(s) \/ LoseSession(s) \/ RecycleSession(s)
    \/ \E S \in SUBSET open : CloseSessions(S)
    \/ ServerIDs

PoolSpec == PoolInit /\ [][PoolNext]_poolVars
=============================================================================
