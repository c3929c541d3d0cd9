------------------------ MODULE ServerManagerProofs ------------------------
(***************************************************************************)
(* Proofs about ServerManager, for every number of servers and bound, and  *)
(* whatever connect() fails.  A failed reconnect costs an entry of the     *)
(* table its session ID, and the run that must fail shows what follows;    *)
(* the last four theorems say that it is the only step that starts it.     *)
(***************************************************************************)
EXTENDS ServerManager, FiniteSetTheorems, SequenceTheorems, WellFoundedInduction, TLAPS

\* A non-empty set of table indices has a least element: by well-foundedness of
\* the strict subsets of 1..n, to which the indices map as 1..x.
LEMMA LeastIndex ==
    ASSUME NEW n \in Nat, NEW T \in SUBSET (1..n), T # {}
    PROVE  \E x \in T : \A y \in T : x <= y
<1> DEFINE Below == {1..x : x \in T}
<1>1. IsFiniteSet(1..n)
  BY FS_Interval
<1>2. FiniteSubsetsOf(1..n) = SUBSET (1..n)
  BY <1>1, FS_FiniteSubsetsOfFinite
<1>3. IsWellFoundedOn(StrictSubsetOrdering(1..n), FiniteSubsetsOf(1..n))
  BY FS_StrictSubsetOrderingWellFounded
<1>4. Below \subseteq SUBSET (1..n) /\ Below # {}
  <2>1. \A x \in T : 1..x \in SUBSET (1..n)
    OBVIOUS
  <2>2. PICK x : x \in T
    OBVIOUS
  <2>3. 1..x \in Below
    BY <2>2
  <2> QED BY <2>1, <2>3
<1>5. PICK X \in Below : \A Y \in Below : ~ (<<Y, X>> \in StrictSubsetOrdering(1..n))
  <2> HIDE DEF Below
  <2> QED BY <1>2, <1>3, <1>4, WFMin
<1>6. PICK x \in T : X = 1..x
  BY <1>5
<1>7. ASSUME NEW y \in T PROVE x <= y
  <2>1. x \in Nat /\ y \in Nat /\ 1..y \in Below
    OBVIOUS
  <2>2. ~ (<<1..y, 1..x>> \in StrictSubsetOrdering(1..n))
    BY <2>1, <1>5, <1>6
  <2>3. SUFFICES ASSUME y < x PROVE FALSE
    BY <2>1
  <2>4. 1..y \subseteq 1..x /\ 1..y # 1..x /\ 1..y \in SUBSET (1..n) /\ 1..x \in SUBSET (1..n)
    <3>1. x \in 1..x /\ x \notin 1..y
      BY <2>1, <2>3
    <3> QED BY <2>1, <2>3, <3>1
  <2> QED BY <2>2, <2>4 DEF StrictSubsetOrdering
<1> QED BY <1>7

\* setConnServerDisconnectState marks an entry that has the session ID.
LEMMA FirstHolder ==
    ASSUME NEW k, Holders(k) # {}
    PROVE  First(k) \in Holders(k)
<1>1. NumServers \in Nat /\ Holders(k) \in SUBSET (1..NumServers)
  BY ServerAssumption DEF Holders, Server
<1>2. \E x \in Holders(k) : \A y \in Holders(k) : x <= y
  BY <1>1, LeastIndex
<1> QED BY <1>2 DEF First

\* What Take gives is new to everything that holds IDs.
LEMMA TakeFresh ==
    ASSUME IInv, NEW s \in ID, Take(s)
    PROVE  /\ generateID' \in 0..MaxID /\ generateID <= generateID'
           /\ spare' \in Seq(ID)
           /\ s <= generateID' /\ s \notin open \cup closing \cup stray
           /\ instance[s] = "none"
           /\ \A i, j \in 1..Len(spare') : spare'[i] = spare'[j] => i = j
           /\ \A i \in 1..Len(spare') :
                  /\ spare'[i] # s
                  /\ spare'[i] <= generateID'
                  /\ spare'[i] \notin open \cup closing \cup stray
<1> USE PoolAssumption
<1>0. /\ generateID \in 0..MaxID /\ spare \in Seq(ID) /\ instance \in [ID -> {"none", "held", "idle"}]
      /\ open \in SUBSET ID /\ closing \in SUBSET ID /\ stray \in SUBSET ID
  BY DEF IInv, TypeOK
<1>1. s \notin open \cup closing \cup stray => instance[s] = "none"
  BY DEF IInv, BrokenClosing, Connected, Alive
<1>2. CASE spare = <<>>
  <2>1. /\ generateID + CreateSessionNum <= MaxID
        /\ s = Head(NewIDs) /\ spare' = Tail(NewIDs)
        /\ generateID' = generateID + CreateSessionNum
    BY <1>2 DEF Take
  <2>2. NewIDs \in Seq(ID) /\ Len(NewIDs) = CreateSessionNum /\ NewIDs # <<>>
    <3>1. NewIDs \in [1..CreateSessionNum -> ID]
      BY <1>0, <2>1 DEF NewIDs, ID
    <3> QED BY <3>1
  <2>3. \A i \in 1..CreateSessionNum : NewIDs[i] = generateID + i
    BY DEF NewIDs
  <2>4. /\ Tail(NewIDs) \in Seq(ID) /\ Len(Tail(NewIDs)) = CreateSessionNum - 1
        /\ \A i \in 1..Len(Tail(NewIDs)) : Tail(NewIDs)[i] = NewIDs[i + 1]
    BY <2>2, HeadTailProperties
  <2>5. \A i \in 1..Len(spare') : spare'[i] = generateID + i + 1
    BY <1>0, <2>1, <2>3, <2>4
  <2>6. s = generateID + 1
    BY <1>0, <2>1, <2>2, <2>3
  <2>7. \A x \in open \cup closing \cup stray : x <= generateID
    BY <1>0 DEF IInv, IDsGiven
  <2>8. s \notin open \cup closing \cup stray
    BY <1>0, <2>6, <2>7
  <2>9. \A i \in 1..Len(spare') : /\ spare'[i] # s
                                  /\ spare'[i] <= generateID'
                                  /\ spare'[i] \notin open \cup closing \cup stray
    <3> SUFFICES ASSUME NEW i \in 1..Len(spare')
                 PROVE  /\ spare'[i] # s
                        /\ spare'[i] <= generateID'
                        /\ spare'[i] \notin open \cup closing \cup stray
      OBVIOUS
    <3>1. i \in Nat /\ i >= 1 /\ i <= CreateSessionNum - 1 /\ spare'[i] = generateID + i + 1
      BY <2>1, <2>4, <2>5
    <3> QED BY <1>0, <3>1, <2>1, <2>6, <2>7
  <2>10. \A i, j \in 1..Len(spare') : spare'[i] = spare'[j] => i = j
    BY <1>0, <2>5, <2>1, <2>4
  <2> QED BY <1>0, <1>1, <2>1, <2>4, <2>6, <2>8, <2>9, <2>10
<1>3. CASE spare # <<>>
  <2>1. s = Head(spare) /\ spare' = Tail(spare) /\ generateID' = generateID
    BY <1>3 DEF Take
  <2>2. /\ Tail(spare) \in Seq(ID) /\ Len(Tail(spare)) = Len(spare) - 1
        /\ \A i \in 1..Len(Tail(spare)) : Tail(spare)[i] = spare[i + 1]
    BY <1>0, <1>3, HeadTailProperties
  <2>3. Len(spare) \in Nat \ {0} /\ s = spare[1]
    BY <1>0, <1>3, <2>1
  <2>4. /\ \A i, j \in 1..Len(spare) : spare[i] = spare[j] => i = j
        /\ \A i \in 1..Len(spare) : /\ spare[i] \notin open \cup closing \cup stray
                                    /\ spare[i] <= generateID
    BY DEF IInv, PoolDisjoint, IDsGiven
  <2>5. \A i \in 1..Len(spare') : i + 1 \in 1..Len(spare) /\ spare'[i] = spare[i + 1] /\ i + 1 # 1
    BY <2>1, <2>2, <2>3
  <2>6. s \notin open \cup closing \cup stray /\ s <= generateID
    BY <2>3, <2>4
  <2>7. \A i \in 1..Len(spare') : spare'[i] # s
    BY <2>3, <2>4, <2>5
  <2>8. \A i, j \in 1..Len(spare') : spare'[i] = spare'[j] => i = j
    <3> SUFFICES ASSUME NEW i \in 1..Len(spare'), NEW j \in 1..Len(spare'), spare'[i] = spare'[j]
                 PROVE  i = j
      OBVIOUS
    <3>1. i + 1 = j + 1  BY <2>4, <2>5
    <3> QED BY <3>1
  <2> QED BY <1>0, <1>1, <2>1, <2>2, <2>4, <2>5, <2>6, <2>7, <2>8
<1> QED BY <1>2, <1>3

-----------------------------------------------------------------------------
(* The inductive invariant. *)

\* A server starts with the invariant.
LEMMA InitIInv == Init => IInv
<1> SUFFICES ASSUME Init PROVE IInv
  OBVIOUS
<1> USE PoolAssumption, ServerAssumption DEF Init, PoolInit
<1>1. TypeOK  BY DEF TypeOK, Server
<1>2. PoolDisjoint /\ IDsGiven  BY DEF PoolDisjoint, IDsGiven, None
<1>3. LiveConnectionsOwned /\ InstancesListed /\ BrokenClosing /\ BrokenDue
  BY DEF LiveConnectionsOwned, InstancesListed, BrokenClosing, BrokenDue, Alive
<1> QED BY <1>1, <1>2, <1>3 DEF IInv, CursorReset

\* Connect and ConnectError: the ID that is taken is new, the connection that is
\* given up is closing or lost, and the cursor moves past the entry.
LEMMA PoolStep ==
    ASSUME IInv, NEW v \in Server, NEW s \in ID, Take(s), NEW W \in SUBSET {s}, NEW Y \in SUBSET {s},
           W \cap Y = {},
           open' = (open \ Old(v)) \cup W, stray' = (stray \ Old(v)) \cup Y,
           closing' = closing \cup (Old(v) \cap open)
    PROVE  /\ generateID' \in 0..MaxID /\ spare' \in Seq(ID)
           /\ open' \in SUBSET ID /\ stray' \in SUBSET ID /\ closing' \in SUBSET ID
           /\ PoolDisjoint'
           /\ open' \cup closing' \cup stray' \subseteq 1..generateID'
           /\ \A i \in 1..Len(spare') : spare'[i] <= generateID'
           /\ Alive' = (Alive \ Old(v)) \cup W \cup Y
<1> USE PoolAssumption
<1>1. /\ generateID' \in 0..MaxID /\ generateID <= generateID'
      /\ spare' \in Seq(ID)
      /\ s <= generateID' /\ s \notin open \cup closing \cup stray
      /\ \A i, j \in 1..Len(spare') : spare'[i] = spare'[j] => i = j
      /\ \A i \in 1..Len(spare') :
             /\ spare'[i] # s
             /\ spare'[i] <= generateID'
             /\ spare'[i] \notin open \cup closing \cup stray
  BY TakeFresh
<1>2. /\ open \in SUBSET ID /\ closing \in SUBSET ID /\ stray \in SUBSET ID
      /\ open \cap closing = {} /\ open \cap stray = {} /\ closing \cap stray = {}
      /\ open \cup closing \cup stray \subseteq 1..generateID /\ generateID \in 0..MaxID
  BY DEF IInv, TypeOK, PoolDisjoint, IDsGiven
<1>3. open' \cup closing' \cup stray' \subseteq open \cup closing \cup stray \cup {s}
  OBVIOUS
<1>4. /\ \A i \in 1..Len(spare') : spare'[i] \notin open' \cup closing' \cup stray'
      /\ open' \cap closing' = {} /\ open' \cap stray' = {} /\ closing' \cap stray' = {}
  BY <1>1, <1>2, <1>3
<1>5. open' \cup closing' \cup stray' \subseteq 1..generateID'
  <2>1. \A x \in 1..generateID : x \in 1..generateID'
    BY <1>1, <1>2
  <2>2. s \in 1..generateID'
    BY <1>1 DEF ID
  <2> QED BY <1>2, <1>3, <2>1, <2>2
<1>6. Alive' = (Alive \ Old(v)) \cup W \cup Y
  BY DEF Alive
<1> QED BY <1>1, <1>2, <1>3, <1>4, <1>5, <1>6 DEF PoolDisjoint

\* Advance ends the loop after the last entry.
LEMMA AdvanceStep ==
    ASSUME IInv, phase \in {"start", "reconnect"}, Advance
    PROVE  /\ cursor' \in Server
           /\ phase' \in {"start", "failed", "check", "reconnect", "close"}
           /\ phase' = "reconnect" => phase = "reconnect" /\ cursor' = cursor + 1
           /\ phase = "reconnect" /\ phase' # "reconnect" => cursor = NumServers
           /\ CursorReset'
<1> USE ServerAssumption
<1>1. cursor \in 1..NumServers /\ cursor' = (cursor % NumServers) + 1
  BY DEF IInv, TypeOK, Server, Advance
<1>2. /\ cursor' \in 1..NumServers /\ (cursor < NumServers => cursor' = cursor + 1)
      /\ cursor = NumServers => cursor' = 1
  BY <1>1
<1> QED BY <1>1, <1>2 DEF Advance, Server, CursorReset

\* What becomes of the instances when entry v is connected to s (in Z), or not
\* (Z is empty and sess does not change).
LEMMA TableStep ==
    ASSUME IInv, NEW v \in Server, Due(v), NEW s \in ID, NEW Z \in SUBSET {s},
           instance[s] = "none", s \notin Alive \cup closing,
           Alive' = (Alive \ Old(v)) \cup Z, closing' = closing \cup (Old(v) \cap open),
           instance' = [k \in ID |-> IF k \in Z THEN "held" ELSE Removed(v)[k]],
           Z = {} => state' = state /\ sess' = sess,
           Z # {} => /\ state' = [state EXCEPT ![v] = "Connected"]
                     /\ sess' = [sess EXCEPT ![v] = s],
           Advance
    PROVE  /\ LiveConnectionsOwned' /\ InstancesListed'
           /\ BrokenClosing' /\ BrokenDue'
<1> USE PoolAssumption, ServerAssumption
<1>0. /\ instance \in [ID -> {"none", "held", "idle"}]
      /\ state \in [Server -> {"Initial", "Connected", "DisConnected"}]
      /\ sess \in [Server -> ID \cup {None}]
      /\ cursor \in Server /\ 0 \notin ID /\ None = 0
      /\ v = cursor /\ phase \in {"start", "reconnect"} /\ state[v] \in {"Initial", "DisConnected"}
      /\ state[v] # "Connected"
  BY DEF IInv, TypeOK, Due, ID, None
<1>1. \A k \in ID : Removed(v)[k] = IF k = Taken(v) THEN "none" ELSE instance[k]
  BY <1>0 DEF Removed
<1>2. Taken(v) # None => Taken(v) = sess[v] /\ Taken(v) \in ID /\ state[v] = "DisConnected"
  BY <1>0 DEF Taken
<1>3. Old(v) \subseteq {Taken(v)} /\ Old(v) \subseteq Alive
  BY DEF Old
<1>4. \A k \in Alive : k = Taken(v) => k \in Old(v)
  BY DEF Old, IInv, LiveConnectionsOwned
<1>5. \A k \in ID : instance'[k] = IF k \in Z THEN "held"
                                   ELSE IF k = Taken(v) THEN "none" ELSE instance[k]
  BY <1>1
<1>6. /\ \A w \in Server : w # v => state'[w] = state[w] /\ sess'[w] = sess[w]
      /\ Z # {} => state'[v] = "Connected" /\ sess'[v] = s
      /\ Z = {} => state'[v] = state[v] /\ sess'[v] = sess[v]
  BY <1>0
<1>7. Alive \subseteq ID /\ Alive' \subseteq ID
  BY DEF IInv, TypeOK, Alive
<1>8. LiveConnectionsOwned'
  <2> SUFFICES ASSUME NEW k \in Alive'
               PROVE  /\ instance'[k] = "held"
                      /\ \E w \in Server : state'[w] = "Connected" /\ sess'[w] = k
    BY DEF LiveConnectionsOwned
  <2>1. CASE k \in Z
    BY <2>1, <1>5, <1>6, <1>7
  <2>2. CASE k \notin Z
    <3>1. k \in Alive /\ k # Taken(v)
      BY <2>2, <1>3, <1>4
    <3>2. instance[k] = "held" /\ \E w \in Server : state[w] = "Connected" /\ sess[w] = k
      BY <3>1 DEF IInv, LiveConnectionsOwned
    <3>3. PICK w \in Server : state[w] = "Connected" /\ sess[w] = k
      BY <3>2
    <3>4. w # v
      BY <3>3, <1>0
    <3> QED BY <2>2, <3>1, <3>2, <3>3, <3>4, <1>5, <1>6, <1>7
  <2> QED BY <2>1, <2>2
<1>9. ASSUME NEW k \in ID, instance'[k] # "none", ~ Connected(k)'
      PROVE  /\ k \notin Z /\ k # Taken(v)
             /\ instance[k] # "none" /\ ~ Connected(k) /\ instance'[k] = instance[k]
             /\ k \in closing /\ phase = "reconnect"
             /\ \E w \in Server : w >= cursor /\ w # v /\ sess[w] = k /\ state[w] = "DisConnected"
  <2>1. k \notin Z
    BY <1>5, <1>9 DEF Connected
  <2>2. k # Taken(v) /\ instance'[k] = instance[k]
    BY <2>1, <1>5, <1>9
  <2>3. ~ Connected(k)
    BY <2>1, <2>2, <1>3, <1>9 DEF Connected
  <2>4. k \in closing /\ phase = "reconnect"
    BY <2>2, <2>3, <1>9, <1>0 DEF IInv, BrokenClosing
  <2>5. PICK w \in Server : w >= cursor /\ sess[w] = k /\ state[w] = "DisConnected"
    BY <2>2, <2>3, <2>4, <1>9 DEF IInv, BrokenDue
  <2>6. w # v
    <3> SUFFICES ASSUME w = v PROVE FALSE
      OBVIOUS
    <3>1. sess[v] = k /\ k # None /\ instance[sess[v]] # "none" /\ state[v] = "DisConnected"
      BY <2>2, <2>5, <1>0, <1>9
    <3>2. Taken(v) = k
      BY <3>1 DEF Taken
    <3> QED BY <3>2, <2>2
  <2> QED BY <2>1, <2>2, <2>3, <2>4, <2>5, <2>6, <1>9
<1>10. InstancesListed'
  <2> SUFFICES ASSUME NEW k \in ID, instance'[k] # "none"
               PROVE  \E w \in Server : sess'[w] = k
    BY DEF InstancesListed, Holders
  <2>1. CASE k \in Z
    BY <2>1, <1>6
  <2>2. CASE k \notin Z
    <3>1. instance[k] # "none" /\ k # Taken(v)
      BY <2>2, <1>5
    <3>2. CASE Connected(k)
      <4>1. k \in Alive
        BY <3>2 DEF Connected
      <4>2. PICK w \in Server : state[w] = "Connected" /\ sess[w] = k
        BY <4>1 DEF IInv, LiveConnectionsOwned
      <4>3. w # v
        BY <4>2, <1>0
      <4> QED BY <4>2, <4>3, <1>6
    <3>3. CASE ~ Connected(k)
      <4>1. ~ Connected(k)'
        BY <2>2, <3>1, <3>3, <1>5 DEF Connected
      <4>2. PICK w \in Server : w # v /\ sess[w] = k
        BY <4>1, <1>9
      <4> QED BY <4>2, <1>6
    <3> QED BY <3>2, <3>3
  <2> QED BY <2>1, <2>2
<1>11. BrokenDue'
  <2> SUFFICES ASSUME phase' = "reconnect", NEW k \in ID, instance'[k] # "none", ~ Connected(k)'
               PROVE  \E w \in Server : w >= cursor' /\ sess'[w] = k /\ state'[w] = "DisConnected"
    BY DEF BrokenDue
  <2>1. PICK w \in Server : w >= cursor /\ w # v /\ sess[w] = k /\ state[w] = "DisConnected"
    BY <1>9
  <2>2. cursor' = cursor + 1
    BY AdvanceStep, <1>0
  <2>3. w >= cursor + 1
    BY <2>1, <1>0 DEF Server
  <2> QED BY <2>1, <2>2, <2>3, <1>6
<1>12. BrokenClosing'
  <2> SUFFICES ASSUME NEW k \in ID, instance'[k] # "none", ~ Connected(k)'
               PROVE  k \in closing' /\ phase' \in {"task", "check", "reconnect"}
    BY DEF BrokenClosing
  <2>1. k \in closing /\ phase = "reconnect"
    BY <1>9
  <2>2. PICK w \in Server : w >= cursor /\ w # v
    BY <1>9
  <2>3. cursor # NumServers
    BY <2>2, <1>0 DEF Server
  <2>4. phase' = "reconnect"
    BY <2>1, <2>3, AdvanceStep
  <2> QED BY <2>1, <2>4
<1> QED BY <1>8, <1>10, <1>11, <1>12

\* A connect() that succeeds, or whose session is not watched, keeps the
\* invariant.
LEMMA ConnectIInv ==
    ASSUME IInv, NEW v \in Server, NEW s \in ID, NEW watched \in BOOLEAN, Connect(v, s, watched)
    PROVE  IInv'
<1> DEFINE W == IF watched THEN {s} ELSE {}
           Y == IF watched THEN {} ELSE {s}
<1>0. /\ phase \in {"start", "reconnect"} /\ Due(v) /\ Advance /\ Take(s)
      /\ open' = (open \ Old(v)) \cup W /\ stray' = (stray \ Old(v)) \cup Y
      /\ closing' = closing \cup (Old(v) \cap open)
      /\ state' = [state EXCEPT ![v] = "Connected"] /\ sess' = [sess EXCEPT ![v] = s]
  BY DEF Connect, Due
<1>1. /\ generateID' \in 0..MaxID /\ spare' \in Seq(ID)
      /\ open' \in SUBSET ID /\ stray' \in SUBSET ID /\ closing' \in SUBSET ID
      /\ PoolDisjoint'
      /\ open' \cup closing' \cup stray' \subseteq 1..generateID'
      /\ \A i \in 1..Len(spare') : spare'[i] <= generateID'
      /\ Alive' = (Alive \ Old(v)) \cup W \cup Y
  <2>1. W \in SUBSET {s} /\ Y \in SUBSET {s} /\ W \cap Y = {}
    OBVIOUS
  <2> HIDE DEF W, Y
  <2> QED BY <1>0, <2>1, PoolStep
<1>2. Alive' = (Alive \ Old(v)) \cup {s}
  BY <1>1
<1>3. instance[s] = "none" /\ s \notin open \cup closing \cup stray /\ s <= generateID'
      /\ generateID <= generateID'
  BY <1>0, TakeFresh
<1>4. s \notin Alive \cup closing
  BY <1>3 DEF Alive
<1>5. /\ instance \in [ID -> {"none", "held", "idle"}]
      /\ Removed(v) \in [ID -> {"none", "held", "idle"}]
      /\ Removed(v)[s] = "none"
  <2>1. instance \in [ID -> {"none", "held", "idle"}]
    BY DEF IInv, TypeOK
  <2> QED BY <1>3, <2>1 DEF Removed
<1>6. instance' = [k \in ID |-> IF k \in {s} THEN "held" ELSE Removed(v)[k]]
  <2>1. instance' = [Removed(v) EXCEPT ![s] = "held"]
    BY <1>5 DEF Connect
  <2> QED BY <1>5, <2>1
<1>7. /\ cursor' \in Server /\ phase' \in {"start", "failed", "check", "reconnect", "close"}
      /\ CursorReset'
  BY <1>0, AdvanceStep
<1>8. TypeOK'
  BY <1>0, <1>1, <1>5, <1>6, <1>7 DEF IInv, TypeOK
<1>9. IDsGiven'
  <2>1. \A w \in Server : sess'[w] <= generateID'
    <3>1. sess \in [Server -> ID \cup {None}] /\ generateID \in 0..MaxID /\ generateID' \in 0..MaxID
      BY <1>1 DEF IInv, TypeOK
    <3>2. \A w \in Server : sess[w] <= generateID
      BY DEF IInv, IDsGiven
    <3>3. \A w \in Server : sess'[w] = IF w = v THEN s ELSE sess[w]
      BY <1>0, <3>1
    <3> QED BY <1>3, <3>1, <3>2, <3>3 DEF ID, None
  <2> QED BY <1>1, <2>1 DEF IDsGiven
<1>10. LiveConnectionsOwned' /\ InstancesListed' /\ BrokenClosing' /\ BrokenDue'
  BY <1>0, <1>2, <1>3, <1>4, <1>6, TableStep
<1> QED BY <1>1, <1>7, <1>8, <1>9, <1>10 DEF IInv

\* So does one that fails.
LEMMA ConnectErrorIInv ==
    ASSUME IInv, NEW v \in Server, NEW s \in ID, ConnectError(v, s)
    PROVE  IInv'
<1>0. /\ phase \in {"start", "reconnect"} /\ Due(v) /\ Advance /\ Take(s)
      /\ open' = (open \ Old(v)) \cup {} /\ stray' = (stray \ Old(v)) \cup {}
      /\ closing' = closing \cup (Old(v) \cap open)
      /\ state' = state /\ sess' = sess /\ instance' = Removed(v)
  BY DEF ConnectError, Due
<1>1. /\ generateID' \in 0..MaxID /\ spare' \in Seq(ID)
      /\ open' \in SUBSET ID /\ stray' \in SUBSET ID /\ closing' \in SUBSET ID
      /\ PoolDisjoint'
      /\ open' \cup closing' \cup stray' \subseteq 1..generateID'
      /\ \A i \in 1..Len(spare') : spare'[i] <= generateID'
      /\ Alive' = (Alive \ Old(v)) \cup {} \cup {}
  <2>1. PICK W : W = {}
    OBVIOUS
  <2>2. W \in SUBSET {s} /\ W \cap W = {}
    BY <2>1
  <2>3. open' = (open \ Old(v)) \cup W /\ stray' = (stray \ Old(v)) \cup W
    BY <1>0, <2>1
  <2> QED BY <1>0, <2>1, <2>2, <2>3, PoolStep
<1>2. Alive' = (Alive \ Old(v)) \cup {}
  BY <1>1
<1>3. instance[s] = "none" /\ s \notin open \cup closing \cup stray /\ generateID <= generateID'
  BY <1>0, TakeFresh
<1>4. s \notin Alive \cup closing
  BY <1>3 DEF Alive
<1>5. Removed(v) \in [ID -> {"none", "held", "idle"}]
  <2>1. instance \in [ID -> {"none", "held", "idle"}]
    BY DEF IInv, TypeOK
  <2> QED BY <2>1 DEF Removed
<1>6. instance' = [k \in ID |-> IF k \in {} THEN "held" ELSE Removed(v)[k]]
  BY <1>0, <1>5
<1>7. /\ cursor' \in Server /\ phase' \in {"start", "failed", "check", "reconnect", "close"}
      /\ CursorReset'
  BY <1>0, AdvanceStep
<1>8. TypeOK'
  BY <1>0, <1>1, <1>5, <1>7 DEF IInv, TypeOK
<1>9. IDsGiven'
  <2>1. \A w \in Server : sess'[w] <= generateID'
    <3>1. sess \in [Server -> ID \cup {None}] /\ generateID \in 0..MaxID /\ generateID' \in 0..MaxID
      BY <1>1 DEF IInv, TypeOK
    <3>2. \A w \in Server : sess[w] <= generateID
      BY DEF IInv, IDsGiven
    <3> QED BY <1>0, <1>3, <3>1, <3>2 DEF ID, None
  <2> QED BY <1>1, <2>1 DEF IDsGiven
<1>10. LiveConnectionsOwned' /\ InstancesListed' /\ BrokenClosing' /\ BrokenDue'
  <2>1. {} \in SUBSET {s}
    OBVIOUS
  <2> QED BY <1>0, <1>2, <1>3, <1>4, <1>6, <2>1, TableStep
<1> QED BY <1>1, <1>7, <1>8, <1>9, <1>10 DEF IInv

\* Passing over a connected entry keeps the invariant.
LEMMA SkipIInv ==
    ASSUME IInv, NEW v \in Server, SkipConnected(v)
    PROVE  IInv'
<1> USE ServerAssumption
<1>0. /\ phase = "reconnect" /\ v = cursor /\ state[v] = "Connected" /\ Advance
      /\ UNCHANGED <<poolVars, tableVars, stray>>
  BY DEF SkipConnected
<1>1. /\ cursor' \in Server /\ phase' \in {"start", "failed", "check", "reconnect", "close"}
      /\ phase' = "reconnect" => cursor' = cursor + 1
      /\ phase' # "reconnect" => cursor = NumServers
      /\ CursorReset'
  BY <1>0, AdvanceStep
<1>2. ASSUME NEW k \in ID, instance[k] # "none", ~ Connected(k)
      PROVE  /\ k \in closing /\ cursor # NumServers
             /\ \E w \in Server : w >= cursor + 1 /\ sess[w] = k /\ state[w] = "DisConnected"
  <2>1. PICK w \in Server : w >= cursor /\ sess[w] = k /\ state[w] = "DisConnected"
    BY <1>0, <1>2 DEF IInv, BrokenDue
  <2>2. w # cursor /\ cursor \in Server
    BY <1>0, <2>1
  <2>3. w >= cursor + 1 /\ cursor # NumServers
    BY <2>1, <2>2 DEF Server
  <2> QED BY <1>2, <2>1, <2>3 DEF IInv, BrokenClosing
<1>3. \A k \in ID : Connected(k)' <=> Connected(k)
  BY <1>0 DEF Connected, Alive, poolVars, tableVars
<1>4. BrokenClosing' /\ BrokenDue'
  BY <1>0, <1>1, <1>2, <1>3 DEF BrokenClosing, BrokenDue, poolVars, tableVars
<1>5. TypeOK' /\ PoolDisjoint' /\ IDsGiven' /\ LiveConnectionsOwned' /\ InstancesListed'
  BY <1>0, <1>1 DEF IInv, TypeOK, PoolDisjoint, IDsGiven, LiveConnectionsOwned, InstancesListed,
                    Alive, Holders, poolVars, tableVars
<1> QED BY <1>1, <1>4, <1>5 DEF IInv

\* What Disconnected marks was not the owner of a live connection.
LEMMA DisconnectStep ==
    ASSUME IInv, NEW K \in SUBSET ID, \A k \in K : instance[k] # "none" /\ ~ Connected(k),
           state' = Disconnected(K), sess' = sess, Alive' = Alive,
           instance' = [k \in ID |-> IF k \in K THEN "idle" ELSE instance[k]]
    PROVE  /\ state' \in [Server -> {"Initial", "Connected", "DisConnected"}]
           /\ LiveConnectionsOwned' /\ InstancesListed'
           /\ \A k \in ID : Connected(k)' <=> Connected(k)
           /\ \A k \in ID : instance'[k] # "none" <=> instance[k] # "none"
           /\ \A k \in K : \E w \in Server : sess'[w] = k /\ state'[w] = "DisConnected"
<1>0. /\ instance \in [ID -> {"none", "held", "idle"}]
      /\ state \in [Server -> {"Initial", "Connected", "DisConnected"}]
      /\ Alive \subseteq ID
  BY DEF IInv, TypeOK, Alive
<1>1. \A k \in K : k \notin Alive
  BY DEF IInv, LiveConnectionsOwned, Connected
<1>2. \A k \in ID : Connected(k)' <=> Connected(k)
  BY <1>0, <1>1 DEF Connected
<1>3. \A w \in Server : state'[w] = IF \E k \in K : Holders(k) # {} /\ w = First(k)
                                    THEN "DisConnected" ELSE state[w]
  BY DEF Disconnected
<1>4. ASSUME NEW k \in K
      PROVE  Holders(k) # {} /\ First(k) \in Server /\ sess[First(k)] = k /\ state'[First(k)] = "DisConnected"
  <2>1. Holders(k) # {}
    BY DEF IInv, InstancesListed
  <2>2. First(k) \in Holders(k)
    BY <2>1, FirstHolder
  <2> QED BY <2>1, <2>2, <1>3 DEF Holders
<1>5. LiveConnectionsOwned'
  <2> SUFFICES ASSUME NEW k \in Alive
               PROVE  instance'[k] = "held" /\ \E w \in Server : state'[w] = "Connected" /\ sess'[w] = k
    BY DEF LiveConnectionsOwned
  <2>1. instance[k] = "held" /\ \E w \in Server : state[w] = "Connected" /\ sess[w] = k
    BY DEF IInv, LiveConnectionsOwned
  <2>2. PICK w \in Server : state[w] = "Connected" /\ sess[w] = k
    BY <2>1
  <2>3. \A l \in K : w # First(l)
    BY <1>1, <1>4, <2>2
  <2> QED BY <1>0, <1>1, <1>3, <2>1, <2>2, <2>3
<1>6. InstancesListed'
  BY <1>0 DEF IInv, InstancesListed, Holders
<1>7. state' \in [Server -> {"Initial", "Connected", "DisConnected"}]
  BY <1>0 DEF Disconnected
<1> QED BY <1>0, <1>2, <1>4, <1>5, <1>6, <1>7

\* checkAllConnectServerState restores what it marks and removes.
LEMMA CheckIInv == IInv /\ CheckAllConnectServerState => IInv'
<1> SUFFICES ASSUME IInv, CheckAllConnectServerState PROVE IInv'
  OBVIOUS
<1> DEFINE broken == {k \in ID : instance[k] # "none" /\ ~ Connected(k)}
<1>0. /\ phase = "check" /\ UNCHANGED <<poolVars, cursor, sess, stray>>
      /\ instance' = [k \in ID |-> IF k \in broken THEN "idle" ELSE instance[k]]
      /\ state' = Disconnected(broken)
      /\ phase' = IF \A v \in Server : state'[v] = "Connected" THEN "close" ELSE "reconnect"
      /\ Alive' = Alive
  BY DEF CheckAllConnectServerState, Alive, poolVars
<1>1. /\ state' \in [Server -> {"Initial", "Connected", "DisConnected"}]
      /\ LiveConnectionsOwned' /\ InstancesListed'
      /\ \A k \in ID : Connected(k)' <=> Connected(k)
      /\ \A k \in ID : instance'[k] # "none" <=> instance[k] # "none"
      /\ \A k \in broken : \E w \in Server : sess'[w] = k /\ state'[w] = "DisConnected"
  <2>1. broken \in SUBSET ID /\ \A k \in broken : instance[k] # "none" /\ ~ Connected(k)
    OBVIOUS
  <2> HIDE DEF broken
  <2> QED BY <1>0, <2>1, DisconnectStep
<1>2. instance' \in [ID -> {"none", "held", "idle"}]
  BY <1>0 DEF IInv, TypeOK
<1>3. TypeOK' /\ PoolDisjoint' /\ IDsGiven'
  BY <1>0, <1>1, <1>2 DEF IInv, TypeOK, PoolDisjoint, IDsGiven, poolVars
<1>4. ASSUME NEW k \in ID, instance'[k] # "none", ~ Connected(k)'
      PROVE  /\ k \in closing' /\ phase' = "reconnect"
             /\ \E w \in Server : w >= cursor' /\ sess'[w] = k /\ state'[w] = "DisConnected"
  <2>1. k \in broken
    BY <1>1, <1>4
  <2>2. PICK w \in Server : sess'[w] = k /\ state'[w] = "DisConnected"
    BY <1>1, <2>1
  <2>3. phase' = "reconnect"
    BY <1>0, <2>2
  <2>4. k \in closing'
    BY <1>0, <2>1 DEF IInv, BrokenClosing, poolVars
  <2>5. cursor' = 1
    BY <1>0 DEF IInv, CursorReset
  <2> QED BY <2>2, <2>3, <2>4, <2>5 DEF Server
<1>5. CursorReset'
  BY <1>0 DEF IInv, CursorReset
<1> QED BY <1>1, <1>3, <1>4, <1>5 DEF IInv, BrokenClosing, BrokenDue

\* A session ID goes back to the pool when no instance has it any more.
LEMMA CloseInvalidIInv ==
    ASSUME IInv, NEW s \in ID, CloseInvalid(s)
    PROVE  IInv'
<1>0. /\ phase = "close" /\ s \in closing /\ closing' = closing \ {s}
      /\ spare' = Append(spare, s)
      /\ UNCHANGED <<generateID, open, phase, cursor, state, sess, instance, stray>>
  BY DEF CloseInvalid, RecycleSession, tableVars
<1>1. spare \in Seq(ID) /\ closing \in SUBSET ID /\ s <= generateID /\ s \notin open \cup stray
  BY <1>0 DEF IInv, TypeOK, PoolDisjoint, IDsGiven
<1>2. /\ spare' \in Seq(ID) /\ Len(spare') = Len(spare) + 1
      /\ \A i \in 1..Len(spare') : i # Len(spare') => i \in 1..Len(spare) /\ spare'[i] = spare[i]
      /\ spare'[Len(spare')] = s
  BY <1>0, <1>1
<1>3. /\ \A i, j \in 1..Len(spare) : spare[i] = spare[j] => i = j
      /\ \A i \in 1..Len(spare) : spare[i] \notin open \cup closing \cup stray /\ spare[i] # s
  BY <1>0 DEF IInv, PoolDisjoint
<1>4. PoolDisjoint'
  <2>1. \A i, j \in 1..Len(spare') : spare'[i] = spare'[j] => i = j
    <3> SUFFICES ASSUME NEW i \in 1..Len(spare'), NEW j \in 1..Len(spare'), spare'[i] = spare'[j]
                 PROVE  i = j
      OBVIOUS
    <3> QED BY <1>2, <1>3
  <2>2. \A i \in 1..Len(spare') : spare'[i] \notin open' \cup closing' \cup stray'
    <3> SUFFICES ASSUME NEW i \in 1..Len(spare')
                 PROVE  spare'[i] \notin open' \cup closing' \cup stray'
      OBVIOUS
    <3>1. CASE i = Len(spare')  BY <3>1, <1>0, <1>1, <1>2
    <3>2. CASE i # Len(spare')  BY <3>2, <1>0, <1>2, <1>3
    <3> QED BY <3>1, <3>2
  <2>3. open' \cap closing' = {} /\ open' \cap stray' = {} /\ closing' \cap stray' = {}
    BY <1>0 DEF IInv, PoolDisjoint
  <2> QED BY <2>1, <2>2, <2>3 DEF PoolDisjoint
<1>5. IDsGiven'
  <2>1. \A i \in 1..Len(spare') : spare'[i] <= generateID'
    <3> SUFFICES ASSUME NEW i \in 1..Len(spare') PROVE spare'[i] <= generateID
      BY <1>0
    <3>1. CASE i = Len(spare')  BY <3>1, <1>1, <1>2
    <3>2. CASE i # Len(spare')  BY <3>2, <1>2 DEF IInv, IDsGiven
    <3> QED BY <3>1, <3>2
  <2> QED BY <2>1, <1>0 DEF IInv, IDsGiven
<1>6. \A k \in ID : instance'[k] # "none" => Connected(k) /\ Connected(k)'
  BY <1>0 DEF IInv, BrokenClosing, Connected, Alive
<1>7. TypeOK' /\ CursorReset' /\ LiveConnectionsOwned' /\ InstancesListed'
  BY <1>0, <1>1, <1>2 DEF IInv, TypeOK, CursorReset, LiveConnectionsOwned, InstancesListed, Alive, Holders
<1> QED BY <1>4, <1>5, <1>6, <1>7 DEF IInv, BrokenClosing, BrokenDue

\* The sessions of broken connections go back to the pool with the invariant
\* kept.
LEMMA EndCloseIInv == IInv /\ EndClose => IInv'
<1> SUFFICES ASSUME IInv, EndClose PROVE IInv'
  OBVIOUS
<1>0. /\ phase = "close" /\ phase' = "event"
      /\ UNCHANGED <<generateID, spare, open, closing, cursor, state, sess, instance, stray>>
  BY DEF EndClose, poolVars, tableVars
<1>1. \A k \in ID : instance'[k] # "none" => Connected(k)'
  BY <1>0 DEF IInv, BrokenClosing, Connected, Alive
<1>2. TypeOK' /\ PoolDisjoint' /\ IDsGiven' /\ CursorReset' /\ LiveConnectionsOwned' /\ InstancesListed'
  BY <1>0 DEF IInv, TypeOK, PoolDisjoint, IDsGiven, CursorReset, LiveConnectionsOwned,
              InstancesListed, Alive, Holders
<1> QED BY <1>0, <1>1, <1>2 DEF IInv, BrokenClosing, BrokenDue

\* The connections that end are closing until closeInvalidWorkSession.
LEMMA EventLoopIInv ==
    ASSUME IInv, NEW S \in SUBSET open, EventLoop(S)
    PROVE  IInv'
<1>0. /\ phase = "event" /\ phase' = "task"
      /\ open' = open \ S /\ closing' = closing \cup S
      /\ UNCHANGED <<generateID, spare, cursor, state, sess, instance, stray>>
  BY DEF EventLoop, CloseSessions, tableVars
<1>1. \A k \in ID : instance'[k] # "none" /\ ~ Connected(k)' => k \in closing'
  BY <1>0 DEF IInv, BrokenClosing, Connected, Alive
<1>2. TypeOK' /\ IDsGiven' /\ CursorReset' /\ LiveConnectionsOwned' /\ InstancesListed'
  BY <1>0 DEF IInv, TypeOK, IDsGiven, CursorReset, LiveConnectionsOwned,
              InstancesListed, Alive, Holders
<1>3. PoolDisjoint'
  BY <1>0 DEF IInv, PoolDisjoint
<1> QED BY <1>0, <1>1, <1>2, <1>3 DEF IInv, BrokenClosing, BrokenDue

\* A send on a broken connection keeps the invariant: its server is marked.
LEMMA SendToServerIInv ==
    ASSUME IInv, NEW k \in ID, SendToServer(k)
    PROVE  IInv'
<1> DEFINE K == {k}
<1>0. /\ phase = "task" /\ instance[k] # "none" /\ ~ Connected(k)
      /\ state' = Disconnected(K)
      /\ UNCHANGED <<generateID, spare, open, closing, phase, cursor, sess, stray>>
      /\ Alive' = Alive
  BY DEF SendToServer, poolVars, Alive
<1>1. instance' = [l \in ID |-> IF l \in K THEN "idle" ELSE instance[l]]
  BY DEF SendToServer, IInv, TypeOK
<1>2. /\ state' \in [Server -> {"Initial", "Connected", "DisConnected"}]
      /\ LiveConnectionsOwned' /\ InstancesListed'
      /\ \A l \in ID : Connected(l)' <=> Connected(l)
      /\ \A l \in ID : instance'[l] # "none" <=> instance[l] # "none"
  <2>1. K \in SUBSET ID /\ \A l \in K : instance[l] # "none" /\ ~ Connected(l)
    BY <1>0
  <2> HIDE DEF K
  <2> QED BY <1>0, <1>1, <2>1, DisconnectStep
<1>3. TypeOK' /\ PoolDisjoint' /\ IDsGiven' /\ CursorReset'
  BY <1>0, <1>1, <1>2 DEF IInv, TypeOK, PoolDisjoint, IDsGiven, CursorReset
<1>4. BrokenClosing' /\ BrokenDue'
  BY <1>0, <1>2 DEF IInv, BrokenClosing, BrokenDue
<1> QED BY <1>2, <1>3, <1>4 DEF IInv

\* So does a ping timer that finds its session closed.
LEMMA PingFunctionIInv ==
    ASSUME IInv, NEW k \in ID, PingFunction(k)
    PROVE  IInv'
<1>0. /\ phase = "task" /\ instance[k] = "held" /\ k \notin Alive
      /\ instance' = [instance EXCEPT ![k] = "idle"]
      /\ UNCHANGED <<generateID, spare, open, closing, phase, cursor, state, sess, stray>>
      /\ Alive' = Alive
  BY DEF PingFunction, poolVars, Alive, Connected
<1>1. instance \in [ID -> {"none", "held", "idle"}]
  BY DEF IInv, TypeOK
<1>2. /\ \A l \in ID : Connected(l)' <=> Connected(l)
      /\ \A l \in ID : instance'[l] # "none" <=> instance[l] # "none"
  BY <1>0, <1>1 DEF Connected
<1>3. TypeOK' /\ PoolDisjoint' /\ IDsGiven' /\ CursorReset'
  BY <1>0, <1>1 DEF IInv, TypeOK, PoolDisjoint, IDsGiven, CursorReset
<1>4. LiveConnectionsOwned' /\ InstancesListed'
  BY <1>0, <1>1, <1>2 DEF IInv, TypeOK, LiveConnectionsOwned, InstancesListed, Holders, Alive
<1>5. BrokenClosing' /\ BrokenDue'
  BY <1>0, <1>2 DEF IInv, BrokenClosing, BrokenDue
<1> QED BY <1>3, <1>4, <1>5 DEF IInv

\* The end of the tasks keeps the invariant.
LEMMA EndTaskIInv == IInv /\ EndTask => IInv'
<1> SUFFICES ASSUME IInv, EndTask PROVE IInv'
  OBVIOUS
<1>0. /\ phase = "task" /\ phase' = "check"
      /\ UNCHANGED <<generateID, spare, open, closing, cursor, state, sess, instance, stray>>
  BY DEF EndTask, poolVars, tableVars
<1> QED BY <1>0 DEF IInv, TypeOK, PoolDisjoint, IDsGiven, CursorReset, LiveConnectionsOwned,
              InstancesListed, BrokenClosing, BrokenDue, Connected, Alive, Holders

\* So does a step of somebody else.
LEMMA StutterIInv == IInv /\ UNCHANGED vars => IInv'
  BY DEF vars, poolVars, tableVars, IInv, TypeOK, PoolDisjoint, IDsGiven, CursorReset,
         LiveConnectionsOwned, InstancesListed, BrokenClosing, BrokenDue, Connected, Alive, Holders

\* Every step keeps the invariant.
LEMMA NextIInv == IInv /\ [Next]_vars => IInv'
<1> SUFFICES ASSUME IInv, [Next]_vars PROVE IInv'
  OBVIOUS
<1>1. CASE ConnectStep
  BY <1>1, ConnectIInv, ConnectErrorIInv DEF ConnectStep
<1>2. ASSUME NEW v \in Server, SkipConnected(v) PROVE IInv'
  BY <1>2, SkipIInv
<1>3. CASE CheckAllConnectServerState
  BY <1>3, CheckIInv
<1>4. ASSUME NEW s \in ID, CloseInvalid(s) PROVE IInv'
  BY <1>4, CloseInvalidIInv
<1>5. CASE EndClose
  BY <1>5, EndCloseIInv
<1>6. ASSUME NEW S \in SUBSET open, EventLoop(S) PROVE IInv'
  BY <1>6, EventLoopIInv
<1>7. CASE EndTask
  BY <1>7, EndTaskIInv
<1>8. ASSUME NEW k \in ID, SendToServer(k) \/ PingFunction(k) PROVE IInv'
  BY <1>8, SendToServerIInv, PingFunctionIInv
<1>9. CASE Exit \/ UNCHANGED vars
  BY <1>9, StutterIInv DEF Exit
<1> QED BY <1>1, <1>2, <1>3, <1>4, <1>5, <1>6, <1>7, <1>8, <1>9 DEF Next, LoopStep

-----------------------------------------------------------------------------
(* Which entries own their session ID, whatever connect() of mainLoop fails. *)

\* An entry with its session ID keeps owning it if its instance stays and the
\* others get no session ID of its.
LEMMA OwnsKept ==
    ASSUME NEW v \in Server, Owns(v), state'[v] # "Initial", sess'[v] = sess[v],
           instance'[sess[v]] # "none",
           \A w \in Server \ {v} : sess'[w] = sess[w] \/ sess'[w] # sess[v]
    PROVE  Owns(v)'
BY DEF Owns

\* What a connect() of entry v takes away from the instances is v's.
LEMMA RemovedOwn ==
    ASSUME IInv, NEW v \in Server
    PROVE  /\ Removed(v) \in [ID -> {"none", "held", "idle"}]
           /\ \A k \in ID : \/ Removed(v)[k] = instance[k]
                            \/ Removed(v)[k] = "none" /\ k = Taken(v) /\ k = sess[v]
<1>1. instance \in [ID -> {"none", "held", "idle"}]
  BY DEF IInv, TypeOK
<1> QED BY <1>1 DEF Removed, Taken, ID, None

\* A connect() that succeeds takes no entry's session ID but its own.
LEMMA ConnectOwners ==
    ASSUME IInv, NEW v \in Server, NEW s \in ID, NEW watched \in BOOLEAN, Connect(v, s, watched)
    PROVE  /\ \A w \in Server \ {v} : Owns(w) => Owns(w)'
           /\ sess' = [sess EXCEPT ![v] = s]
           /\ Owns(v)' \/ \E w \in Server \ {v} : sess[w] = s /\ ~ Owns(w)
<1>0. /\ Take(s) /\ state' = [state EXCEPT ![v] = "Connected"] /\ sess' = [sess EXCEPT ![v] = s]
      /\ instance' = IF Removed(v)[s] = "none" THEN [Removed(v) EXCEPT ![s] = "held"] ELSE Removed(v)
  BY DEF Connect
<1>1. /\ instance \in [ID -> {"none", "held", "idle"}]
      /\ state \in [Server -> {"Initial", "Connected", "DisConnected"}]
      /\ sess \in [Server -> ID \cup {None}] /\ None \notin ID
  BY DEF IInv, TypeOK, ID, None
<1>2. instance[s] = "none"
  BY <1>0, TakeFresh
<1>3. \A k \in ID : instance'[k] = instance[k] \/ k = s \/ k = sess[v]
  BY <1>0, RemovedOwn
<1>4. instance'[s] = "held"
  BY <1>0, <1>2, RemovedOwn, <1>1
<1>5. ASSUME NEW w \in Server \ {v}, Owns(w)
      PROVE  Owns(w)'
  <2>1. /\ sess[w] \in ID /\ instance[sess[w]] # "none" /\ sess[w] # sess[v]
        /\ state[w] # "Initial"
    BY <1>1, <1>5 DEF Owns
  <2>2. sess[w] # s /\ instance'[sess[w]] # "none"
    BY <1>2, <1>3, <2>1
  <2>3. state'[w] = state[w] /\ \A x \in Server : sess'[x] = sess[x] \/ sess'[x] = s
    BY <1>0, <1>1
  <2>4. sess'[w] = sess[w]
    BY <1>0, <1>1
  <2> QED BY <1>5, <2>1, <2>2, <2>3, <2>4, OwnsKept
<1>6. Owns(v)' \/ \E w \in Server \ {v} : sess[w] = s /\ ~ Owns(w)
  <2>1. /\ state'[v] = "Connected" /\ sess'[v] = s
        /\ \A w \in Server \ {v} : sess'[w] = sess[w]
    BY <1>0, <1>1
  <2>2. \A w \in Server \ {v} : sess[w] = s => ~ Owns(w)
    BY <1>2 DEF Owns
  <2>3. s # None
    BY <1>1
  <2> QED BY <1>4, <2>1, <2>2, <2>3 DEF Owns
<1> QED BY <1>0, <1>5, <1>6

\* A connect() that fails costs no entry its session ID but its own.
LEMMA ConnectErrorOwners ==
    ASSUME IInv, NEW v \in Server, NEW s \in ID, ConnectError(v, s)
    PROVE  /\ \A w \in Server : Owns(w) => Owns(w)' \/ ReconnectError(w)
           /\ sess' = sess
<1>0. state' = state /\ sess' = sess /\ instance' = Removed(v) /\ Due(v)
  BY DEF ConnectError
<1>1. sess \in [Server -> ID \cup {None}] /\ None \notin ID
  BY DEF IInv, TypeOK, ID, None
<1>2. ASSUME NEW w \in Server \ {v}, Owns(w)
      PROVE  Owns(w)'
  <2>1. sess[w] \in ID /\ instance[sess[w]] # "none" /\ sess[w] # sess[v]
    BY <1>1, <1>2 DEF Owns
  <2>2. instance'[sess[w]] # "none"
    BY <1>0, <2>1, RemovedOwn
  <2> QED BY <1>0, <1>2, <2>2 DEF Owns
<1>3. Owns(v) => ReconnectError(v)
  BY <1>0 DEF Owns, ReconnectError, Due
<1> QED BY <1>0, <1>2, <1>3

\* The steps that only mark entries and instances.
LEMMA MarkOwners ==
    ASSUME sess' = sess,
           \A w \in Server : state[w] # "Initial" => state'[w] # "Initial",
           \A w \in Server : sess[w] # None /\ instance[sess[w]] # "none" => instance'[sess[w]] # "none"
    PROVE  \A w \in Server : Owns(w) => Owns(w)'
BY DEF Owns

\* So is every other step: it leaves the session IDs, and their owners.
LEMMA OtherOwners ==
    ASSUME IInv, [Next]_vars, ~ ConnectStep
    PROVE  sess' = sess /\ \A w \in Server : Owns(w) => Owns(w)'
<1>0. /\ instance \in [ID -> {"none", "held", "idle"}]
      /\ sess \in [Server -> ID \cup {None}]
  BY DEF IInv, TypeOK
<1>1. CASE UNCHANGED tableVars
  BY <1>1, MarkOwners DEF tableVars
<1>2. CASE CheckAllConnectServerState
  <2>1. /\ sess' = sess
        /\ \A w \in Server : state'[w] = "DisConnected" \/ state'[w] = state[w]
        /\ \A k \in ID : instance'[k] = "idle" \/ instance'[k] = instance[k]
    BY <1>2 DEF CheckAllConnectServerState, Disconnected
  <2> QED BY <1>0, <2>1, MarkOwners
<1>3. ASSUME NEW k \in ID, SendToServer(k) \/ PingFunction(k)
      PROVE  sess' = sess /\ \A w \in Server : Owns(w) => Owns(w)'
  <2>1. /\ sess' = sess
        /\ \A w \in Server : state'[w] = "DisConnected" \/ state'[w] = state[w]
    BY <1>3 DEF SendToServer, PingFunction, Disconnected
  <2>2. \A l \in ID : instance'[l] = "idle" \/ instance'[l] = instance[l]
    BY <1>0, <1>3 DEF SendToServer, PingFunction
  <2> QED BY <1>0, <2>1, <2>2, MarkOwners
<1>4. ASSUME NEW v \in Server, SkipConnected(v) PROVE UNCHANGED tableVars
  BY <1>4 DEF SkipConnected
<1>5. ASSUME NEW s \in ID, CloseInvalid(s) PROVE UNCHANGED tableVars
  BY <1>5 DEF CloseInvalid
<1>6. ASSUME NEW S \in SUBSET open, EventLoop(S) PROVE UNCHANGED tableVars
  BY <1>6 DEF EventLoop
<1>7. CASE EndClose \/ EndTask \/ Exit \/ UNCHANGED vars
  BY <1>1, <1>7 DEF EndClose, EndTask, Exit, vars
<1> QED BY <1>1, <1>2, <1>3, <1>4, <1>5, <1>6, <1>7 DEF Next, LoopStep

\* While reconnectServer goes through the table, a connection that ends was taken
\* by the entry the loop is at.
LEMMA ReconnectTakes ==
    ASSUME IInv, [Next]_vars, phase = "reconnect", NEW k \in Alive, k \notin Alive'
    PROVE  /\ state[cursor] = "DisConnected" /\ sess[cursor] = k
           /\ \E w \in Server \ {cursor} : state[w] = "Connected" /\ sess[w] = k
<1>0. k \in ID /\ k # None
  BY DEF IInv, TypeOK, Alive, ID, None
<1>1. CASE ConnectStep
  <2>1. PICK v \in Server, s \in ID, watched \in BOOLEAN : Connect(v, s, watched) \/ ConnectError(v, s)
    BY <1>1 DEF ConnectStep
  <2>2. k \in Old(v) /\ v = cursor
    BY <2>1 DEF Connect, ConnectError, Due, Alive
  <2>3. state[v] = "DisConnected" /\ sess[v] = k
    BY <1>0, <2>2 DEF Old, Taken
  <2>4. \E w \in Server : state[w] = "Connected" /\ sess[w] = k
    BY DEF IInv, LiveConnectionsOwned
  <2> QED BY <2>2, <2>3, <2>4
<1>2. ASSUME NEW v \in Server, SkipConnected(v) PROVE Alive = Alive'
  BY <1>2 DEF SkipConnected, poolVars, Alive
<1>3. CASE Exit \/ UNCHANGED vars
  BY <1>3 DEF Exit, vars, poolVars, Alive
<1>4. /\ ~ CheckAllConnectServerState /\ ~ EndClose /\ ~ EndTask
      /\ \A s \in ID : ~ CloseInvalid(s) /\ ~ SendToServer(s) /\ ~ PingFunction(s)
      /\ \A S \in SUBSET open : ~ EventLoop(S)
  BY DEF CheckAllConnectServerState, EndClose, EndTask, CloseInvalid, SendToServer,
         PingFunction, EventLoop
<1> QED BY <1>1, <1>2, <1>3, <1>4 DEF Next, LoopStep

-----------------------------------------------------------------------------
(* The theorems. *)

\* IInv is an invariant of the server manager, whatever connects fail and
\* connections break.
THEOREM Inductive == Spec => []IInv
  BY InitIInv, NextIInv, PTL DEF Spec

\* The table, the instances and the pool stay well-typed: the connecting loops
\* of connectServer and reconnectServer never pass the end of the table.
THEOREM TypeCorrect == Spec => []TypeOK
<1>1. IInv => TypeOK  BY DEF IInv
<1> QED BY <1>1, Inductive, PTL

\* Every live connection to a server is held by an NDClientNetIO and is the one
\* that its entry of the table names.
THEOREM ConnectionsOwned == Spec => []LiveConnectionsOwned
<1>1. IInv => LiveConnectionsOwned  BY DEF IInv
<1> QED BY <1>1, Inductive, PTL

\* The insert() of connectServerDisponse never finds its key taken, because
\* checkAllConnectServerState and reconnectServer have emptied a key before
\* closeInvalidWorkSession gives it back.
THEOREM KeysFree == Spec => []KeysNotSpare
<1>1. ASSUME IInv PROVE KeysNotSpare
  <2> SUFFICES ASSUME NEW i \in 1..Len(spare), instance[spare[i]] # "none" PROVE FALSE
    BY DEF KeysNotSpare
  <2>1. spare[i] \in ID /\ spare[i] \notin open \cup closing \cup stray
    BY <1>1 DEF IInv, TypeOK, PoolDisjoint
  <2> QED BY <1>1, <2>1 DEF IInv, BrokenClosing, Connected, Alive
<1> QED BY <1>1, Inductive, PTL

\* reconnectServer, which goes by the table, can find every instance.
THEOREM InstancesFound == Spec => []InstancesListed
<1>1. IInv => InstancesListed  BY DEF IInv
<1> QED BY <1>1, Inductive, PTL

\* Whatever connect() of reconnectServer fails, it costs no other entry of
\* m_connServerTable the session ID under which its NDClientNetIO is found.
THEOREM EntriesKeepIDs == Spec => OwnersKept
<1>1. ASSUME IInv, [Next]_vars
      PROVE  \A v \in Server : Owns(v) => Owns(v)' \/ sess'[v] # sess[v] \/ ReconnectError(v)
  <2>1. CASE ConnectStep
    <3>1. PICK v \in Server, s \in ID, watched \in BOOLEAN : Connect(v, s, watched) \/ ConnectError(v, s)
      BY <2>1 DEF ConnectStep
    <3>2. CASE ConnectError(v, s)
      BY <1>1, <3>2, ConnectErrorOwners
    <3>3. CASE Connect(v, s, watched)
      <4>1. sess \in [Server -> ID \cup {None}]
        BY <1>1 DEF IInv, TypeOK
      <4>2. /\ \A w \in Server \ {v} : Owns(w) => Owns(w)'
            /\ sess' = [sess EXCEPT ![v] = s]
        BY <1>1, <3>3, ConnectOwners
      <4>3. Owns(v) => sess'[v] # sess[v]
        <5>1. instance[s] = "none"
          BY <1>1, <3>3, TakeFresh DEF Connect
        <5> QED BY <4>1, <4>2, <5>1 DEF Owns
      <4> QED BY <4>2, <4>3
    <3> QED BY <3>1, <3>2, <3>3
  <2>2. CASE ~ ConnectStep
    BY <1>1, <2>2, OtherOwners
  <2> QED BY <2>1, <2>2
<1>2. IInv /\ [Next]_vars =>
          [\A v \in Server : Owns(v) => Owns(v)' \/ sess'[v] # sess[v] \/ ReconnectError(v)]_vars
  BY <1>1
<1> QED BY <1>2, Inductive, PTL DEF Spec, OwnersKept

\* The session ID of a new connection is in the table twice only if an entry
\* names it from an earlier connection, having no NDClientNetIO any more: what
\* connectServerDisponse leaves behind when it fails.
THEOREM NewConnectionsOwned == Spec => NewIDsOwned
<1>1. ASSUME IInv, [Next]_vars, NEW v \in Server, sess'[v] # sess[v]
      PROVE  Owns(v)' \/ \E w \in Server \ {v} : sess[w] = sess'[v] /\ ~ Owns(w)
  <2>1. ConnectStep
    BY <1>1, OtherOwners
  <2>2. PICK u \in Server, s \in ID, watched \in BOOLEAN : Connect(u, s, watched) \/ ConnectError(u, s)
    BY <2>1 DEF ConnectStep
  <2>3. Connect(u, s, watched)
    BY <1>1, <2>2, ConnectErrorOwners
  <2>4. /\ sess' = [sess EXCEPT ![u] = s]
        /\ Owns(u)' \/ \E w \in Server \ {u} : sess[w] = s /\ ~ Owns(w)
    BY <1>1, <2>3, ConnectOwners
  <2>5. u = v /\ sess'[v] = s
    <3>1. sess \in [Server -> ID \cup {None}]
      BY <1>1 DEF IInv, TypeOK
    <3> QED BY <1>1, <2>4, <3>1
  <2> QED BY <2>4, <2>5
<1>2. IInv /\ [Next]_vars =>
          [\A v \in Server : sess'[v] # sess[v] =>
               Owns(v)' \/ \E w \in Server \ {v} : sess[w] = sess'[v] /\ ~ Owns(w)]_vars
  BY <1>1
<1> QED BY <1>2, Inductive, PTL DEF Spec, NewIDsOwned

\* From checkAllConnectServerState until the event loop, every entry that is
\* marked as connected, and owns its session ID, has a live connection.
THEOREM ConnectionsChecked == Spec => []OwnersChecked
<1>1. ASSUME IInv PROVE OwnersChecked
  <2> SUFFICES ASSUME phase \in {"close", "event"}, NEW v \in Server, Owns(v)
               PROVE  Connected(sess[v])
    BY DEF OwnersChecked
  <2>1. sess[v] \in ID /\ instance[sess[v]] # "none"
    BY <1>1 DEF IInv, TypeOK, Owns
  <2> QED BY <1>1, <2>1 DEF IInv, BrokenClosing
<1> QED BY <1>1, Inductive, PTL

\* reconnectServer can close a live connection, but only where an entry that is
\* to be renewed names the session of another that is connected.
THEOREM RenewsByIDOnly == Spec => RenewsByID
<1>1. IInv /\ [Next]_vars =>
          [phase = "reconnect" => \A k \in Alive \ Alive' :
               /\ state[cursor] = "DisConnected" /\ sess[cursor] = k
               /\ \E w \in Server \ {cursor} : state[w] = "Connected" /\ sess[w] = k]_vars
  BY ReconnectTakes
<1> QED BY <1>1, Inductive, PTL DEF Spec, RenewsByID
=============================================================================
